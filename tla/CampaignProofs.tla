--------------------------- MODULE CampaignProofs ---------------------------
(***************************************************************************)
(* Proofs about Campaigns, for any campaigns, goals, loads and calls: what *)
(* every state has, and what calls that overlap keep: a refusal takes the  *)
(* badge, and the status of a campaign follows its lifecycle, unless a call*)
(* that is served at the same time undoes it.                              *)
(***************************************************************************)
EXTENDS CampaignProperties, Overlaps, TLAPS

(* The fields of a call, by its operation.                                 *)
LEMMA CallFields ==
  ASSUME NEW c \in CampaignCalls
  PROVE  /\ c.op \in {"transition", "flag", "unflag", "donate", "purchase", "remove",
                      "update", "verify", "milestoneJob"} => c.campaign \in CampaignIds
         /\ c.op = "transition" => c.to \in Statuses
         /\ c.op = "update" => c.goal \in Goals
         /\ c.op \in {"verify", "kyc"} => c.verdict \in Verdicts
  BY DEF CampaignCalls

LEMMA Operations ==
  ASSUME NEW c \in CampaignCalls
  PROVE  c.op \in {"sweep", "submit", "assign", "revoke", "transition", "flag", "unflag",
                   "donate", "purchase", "remove", "update", "verify", "kyc",
                   "expiryJob", "milestoneJob"}
  BY DEF CampaignCalls

(* What the step of a call says about the call.                            *)
LEMMA StepTellsCall ==
  ASSUME AtStepOfCall, NEW r \in Requests, pc[r] # "idle"
  PROVE  /\ call[r] \in CampaignCalls
         /\ pc[r] \in {"readStatus", "writeStatus"} => call[r].op = "transition"
         /\ pc[r] \in {"findCampaign", "judge"} => call[r].op \in {"flag", "unflag"}
         /\ pc[r] = "findOwned" => call[r].op \in {"remove", "update"}
         /\ pc[r] = "softDelete" => call[r].op = "remove"
         /\ pc[r] = "writeDetails" => call[r].op = "update"
         /\ pc[r] \in {"findVisible", "raise"} => call[r].op \in {"donate", "purchase"}
         /\ pc[r] \in {"findForReview", "upsertProfile", "updateProfile",
                       "writeVerification"} => call[r].op = "verify"
         /\ pc[r] \in {"findBadge", "createBadge"} => call[r].op \in {"verify", "assign"}
         /\ pc[r] = "findActiveBadge" => call[r].op \in {"verify", "kyc"}
         /\ pc[r] = "revokeBadge" => call[r].op \in {"verify", "kyc", "revoke"}
         /\ pc[r] = "findProfile" => call[r].op \in {"kyc", "submit"}
         /\ pc[r] = "writeKyc" => call[r].op = "kyc"
         /\ pc[r] = "submitKyc" => call[r].op = "submit"
         /\ pc[r] \in {"readFunding", "checkMilestone", "logMilestone"} =>
              call[r].op = "milestoneJob"
         /\ pc[r] = "listActive" => call[r].op = "sweep"
         /\ pc[r] = "listExpired" => call[r].op \in {"expiryJob", "milestoneJob"}
         /\ pc[r] = "applyPlan" => call[r].op \in {"sweep", "expiryJob", "milestoneJob"}
<1>1. call[r] \in CampaignCalls /\ pc[r] \in StepsOf(call[r].op) \cup Answered
  BY DEF AtStepOfCall
<1>2. call[r].op \in {"sweep", "submit", "assign", "revoke", "transition", "flag",
                      "unflag", "donate", "purchase", "remove", "update", "verify", "kyc",
                      "expiryJob", "milestoneJob"}
  BY <1>1, Operations
<1> QED
  BY <1>1, <1>2 DEF StepsOf, Answered

(* The first step of a call is one of its operation.                       *)
LEMMA FirstStepFits ==
  ASSUME NEW c \in CampaignCalls
  PROVE  FirstCampaignStep(c) \in StepsOf(c.op) \cup Answered
  BY Operations DEF FirstCampaignStep, StepsOf, Answered

(* A step of the specification is one of a call, or time passes.           *)
LEMMA SomeoneActs ==
  [Next]_vars => \/ \E r \in Requests : Act(r)
                 \/ \E c \in CampaignIds : TripEnds(c)
                 \/ UNCHANGED vars
  BY DEF Next, Done

(* From where it is, a call goes to a step of its operation, to its end, or*)
(* on with what it is at.                                                  *)
LEMMA CallGoesOn ==
  ASSUME AtStepOfCall, NEW r \in Requests, Act(r)
  PROVE  \/ Receive(r)
         \/ /\ pc[r] \notin {"idle"} \cup Answered
            /\ UNCHANGED calls
         \/ /\ pc[r] \notin {"idle"} \cup Answered
            /\ \E s \in StepsOf(call[r].op) \cup Answered : Goto(r, s)
<1> USE StepTellsCall DEF StepsOf, Answered, Goto, calls
<1>1. CASE ReadStatus(r)
  BY <1>1 DEF ReadStatus
<1>2. CASE WriteStatus(r)
  BY <1>2 DEF WriteStatus
<1>3. CASE ListActive(r)
  BY <1>3 DEF ListActive
<1>4. CASE ListExpired(r)
  BY <1>4 DEF ListExpired, Expirable
<1>5. CASE ApplyPlan(r)
  BY <1>5 DEF ApplyPlan
<1>6. CASE FindCampaign(r)
  BY <1>6 DEF FindCampaign
<1>7. CASE Judge(r)
  BY <1>7 DEF Judge
<1>8. CASE FindOwned(r)
  BY <1>8 DEF FindOwned
<1>9. CASE SoftDelete(r)
  BY <1>9 DEF SoftDelete
<1>10. CASE WriteDetails(r)
  BY <1>10 DEF WriteDetails
<1>11. CASE FindVisible(r)
  BY <1>11 DEF FindVisible
<1>12. CASE Raise(r)
  BY <1>12 DEF Raise
<1>13. CASE FindForReview(r)
  BY <1>13 DEF FindForReview, ReviewStep, Refusals
<1>14. CASE UpsertProfile(r)
  BY <1>14 DEF UpsertProfile
<1>15. CASE UpdateProfile(r)
  BY <1>15 DEF UpdateProfile
<1>16. CASE FindBadge(r)
  BY <1>16 DEF FindBadge, Refused
<1>17. CASE CreateBadge(r)
  BY <1>17 DEF CreateBadge, Refused, AfterBadge
<1>18. CASE FindActiveBadge(r)
  BY <1>18 DEF FindActiveBadge, AfterBadge
<1>19. CASE RevokeBadge(r)
  BY <1>19 DEF RevokeBadge, AfterBadge
<1>20. CASE SwallowBadgeError(r)
  BY <1>20 DEF SwallowBadgeError, AfterBadge
<1>21. CASE WriteVerification(r)
  BY <1>21 DEF WriteVerification
<1>22. CASE FindProfile(r)
  BY <1>22 DEF FindProfile
<1>23. CASE WriteKyc(r)
  BY <1>23 DEF WriteKyc
<1>24. CASE SubmitKyc(r)
  BY <1>24 DEF SubmitKyc
<1>25. CASE ReadFunding(r)
  BY <1>25 DEF ReadFunding
<1>26. CASE CheckMilestone(r)
  BY <1>26 DEF CheckMilestone, Lowest
<1>27. CASE LogMilestone(r)
  BY <1>27 DEF LogMilestone, Lowest, LogHasRoom
<1>28. CASE Fail(r)
  BY <1>28 DEF Fail, Break, Active
<1> QED
  BY <1>1, <1>2, <1>3, <1>4, <1>5, <1>6, <1>7, <1>8, <1>9, <1>10, <1>11, <1>12, <1>13, <1>14,
     <1>15, <1>16, <1>17, <1>18, <1>19, <1>20, <1>21, <1>22, <1>23, <1>24, <1>25, <1>26, <1>27,
     <1>28 DEF Act

LEMMA AtStepOfCallStep == TypeOK /\ AtStepOfCall /\ [Next]_vars => AtStepOfCall'
<1> SUFFICES ASSUME TypeOK, AtStepOfCall, [Next]_vars
             PROVE  AtStepOfCall'
  OBVIOUS
<1>1. ASSUME UNCHANGED calls
      PROVE  AtStepOfCall'
  BY <1>1 DEF AtStepOfCall, calls
<1>2. ASSUME NEW r \in Requests, Act(r)
      PROVE  AtStepOfCall'
  <2>1. CASE Receive(r)
    <3>1. PICK c \in CampaignCalls : /\ call' = [call EXCEPT ![r] = c]
                                     /\ pc' = [pc EXCEPT ![r] = FirstCampaignStep(call'[r])]
      BY <2>1 DEF Receive, Begin, StartAt
    <3>2. FirstCampaignStep(c) \in StepsOf(c.op) \cup Answered
      BY FirstStepFits
    <3> QED
      BY <3>1, <3>2 DEF TypeOK, CallTypes, AtStepOfCall
  <2>2. ASSUME NEW s \in StepsOf(call[r].op) \cup Answered, Goto(r, s), pc[r] # "idle"
        PROVE  AtStepOfCall'
    BY <2>2 DEF TypeOK, CallTypes, AtStepOfCall, Goto
  <2> QED
    BY <1>1, <1>2, <2>1, <2>2, CallGoesOn
<1> QED
  BY <1>1, <1>2, SomeoneActs DEF TripEnds, vars

(* The calls keep their types.                                             *)
LEMMA CallTypesStep ==
  ASSUME TypeOK, AtStepOfCall, NEW r \in Requests, Act(r)
  PROVE  CallTypes'
<1>1. ASSUME NEW c \in CampaignCalls
      PROVE  StepsOf(c.op) \subseteq CampaignSteps
  BY Operations DEF StepsOf, CampaignSteps
<1>2. CASE Receive(r)
  <2>1. PICK c \in CampaignCalls : /\ call' = [call EXCEPT ![r] = c]
                                   /\ pc' = [pc EXCEPT ![r] = FirstCampaignStep(call'[r])]
                                   /\ load' = load
    BY <1>2 DEF Receive, Begin, StartAt
  <2>2. FirstCampaignStep(c) \in CampaignSteps \cup Answered
    BY <1>1, FirstStepFits
  <2> QED
    BY <2>1, <2>2 DEF TypeOK, CallTypes
<1>3. CASE UNCHANGED calls
  BY <1>3 DEF TypeOK, CallTypes, calls
<1>4. ASSUME NEW s \in StepsOf(call[r].op) \cup Answered, Goto(r, s), pc[r] # "idle"
      PROVE  CallTypes'
  <2>1. call[r] \in CampaignCalls
    BY <1>4 DEF AtStepOfCall
  <2>2. s \in CampaignSteps \cup Answered
    BY <1>1, <2>1
  <2> QED
    BY <1>4, <2>2 DEF TypeOK, CallTypes, Goto
<1> QED
  BY <1>2, <1>3, <1>4, CallGoesOn

(* The tables keep their types: the calls that read only leave them alone. *)
LEMMA TableTypesStep ==
  ASSUME TypeOK, AtStepOfCall, ProfileWasFound, NEW r \in Requests, Act(r)
  PROVE  TableTypes'
<1> USE DEF TypeOK, TableTypes, tables, campaignRows, reviewRows, milestoneRows, local
<1>1. CASE UNCHANGED tables
  BY <1>1
<1>2. CASE WriteStatus(r)
  BY <1>2, StepTellsCall, CallFields DEF WriteStatus
<1>3. CASE ListActive(r)
  BY <1>3, StepTellsCall, CallFields DEF ListActive
<1>4. CASE ListExpired(r)
  BY <1>4, StepTellsCall, CallFields DEF ListExpired, Expirable
<1>5. CASE ApplyPlan(r)
  <2>1. CASE UNCHANGED tables
    BY <2>1
  <2>2. ASSUME NEW update \in plan[r],
               status' = [status EXCEPT ![update[1]] = update[2]],
               plan' = [plan EXCEPT ![r] = @ \ {update}],
               UNCHANGED <<goal, raised, ended, deleted, reviewRows, milestoneRows,
                           reached, swallowed>>
        PROVE  TableTypes'
    <3>1. update \in CampaignIds \X {"funded", "expired"}
      OBVIOUS
    <3>2. update[2] \in Statuses
      BY <3>1 DEF Statuses
    <3> QED
      BY <2>2, <3>2
  <2> QED
    BY <1>5, <2>1, <2>2 DEF ApplyPlan
<1>6. CASE Judge(r)
  BY <1>6, StepTellsCall, CallFields DEF Judge, Statuses, Verdicts
<1>7. CASE SoftDelete(r)
  BY <1>7, StepTellsCall, CallFields DEF SoftDelete
<1>8. CASE WriteDetails(r)
  BY <1>8, StepTellsCall, CallFields DEF WriteDetails
<1>9. CASE Raise(r)
  BY <1>9, StepTellsCall, CallFields, CampaignsAssumption DEF Raise
<1>10. CASE UpsertProfile(r)
  BY <1>10, StepTellsCall, CallFields DEF UpsertProfile, Profiles, Verdicts
<1>11. CASE UpdateProfile(r)
  <2>1. call[r].verdict \in Verdicts
    BY <1>11, StepTellsCall, CallFields DEF UpdateProfile
  <2>2. profile' \in Profiles \cup {None}
    <3>1. [identityVerified |-> FALSE, verificationStatus |-> call[r].verdict] \in Profiles
      BY <2>1 DEF Profiles
    <3> QED
      BY <1>11, <3>1 DEF UpdateProfile
  <2> QED
    BY <1>11, <2>2 DEF UpdateProfile
<1>12. CASE CreateBadge(r)
  BY <1>12, StepTellsCall, CallFields DEF CreateBadge
<1>13. CASE RevokeBadge(r)
  BY <1>13, StepTellsCall, CallFields DEF RevokeBadge
<1>14. CASE SwallowBadgeError(r)
  BY <1>14, StepTellsCall, CallFields DEF SwallowBadgeError
<1>15. CASE WriteVerification(r)
  BY <1>15, StepTellsCall, CallFields DEF WriteVerification
<1>16. CASE WriteKyc(r)
  BY <1>16, StepTellsCall, CallFields DEF WriteKyc, Profiles
<1>17. CASE SubmitKyc(r)
  BY <1>17, StepTellsCall, CallFields DEF SubmitKyc, Profiles, Verdicts, ProfileWasFound
<1>18. CASE ReadFunding(r)
  BY <1>18, StepTellsCall, CallFields DEF ReadFunding
<1>19. CASE CheckMilestone(r)
  BY <1>19, StepTellsCall, CallFields DEF CheckMilestone, Lowest
<1>20. CASE LogMilestone(r)
  <2>1. CASE UNCHANGED tables
    BY <2>1
  <2>2. ASSUME NEW m \in Lowest(r),
               milestoneLog' = [milestoneLog EXCEPT ![call[r].campaign] = m],
               notices' = [notices EXCEPT ![call[r].campaign][m] = @ + 1],
               reached' = [reached EXCEPT ![r] = @ \ {m}],
               UNCHANGED <<campaignRows, reviewRows, plan, swallowed>>
        PROVE  TableTypes'
    <3>1. m \in DOMAIN Threshold
      BY DEF Lowest
    <3>2. milestoneLog' \in [CampaignIds -> DOMAIN Threshold \cup {None}]
      BY <2>2, <3>1
    <3>3. notices' \in [CampaignIds -> [DOMAIN Threshold -> Nat]]
      <4>1. \A c \in CampaignIds :
              [notices[c] EXCEPT ![m] = @ + 1] \in [DOMAIN Threshold -> Nat]
        BY <3>1
      <4> QED
        BY <2>2, <4>1
    <3>4. reached' \in [Requests -> SUBSET DOMAIN Threshold]
      BY <2>2
    <3> QED
      BY <2>2, <3>2, <3>3, <3>4
  <2> QED
    BY <1>20, <2>1, <2>2 DEF LogMilestone
<1> QED
  BY <1>1, <1>2, <1>3, <1>4, <1>5, <1>6, <1>7, <1>8, <1>9, <1>10, <1>11, <1>12, <1>13, <1>14,
     <1>15, <1>16, <1>17, <1>18, <1>19, <1>20 DEF Act, Receive, ReadStatus, FindCampaign,
     FindOwned, FindVisible, FindForReview, FindBadge, FindActiveBadge, FindProfile, Fail

-----------------------------------------------------------------------------
(* The rest of the invariant. A table that a step leaves alone keeps what  *)
(* is known of it.                                                         *)

(* The profile changes in four places, of which none takes it away.        *)
LEMMA ProfileStep ==
  ASSUME AtStepOfCall, NEW r \in Requests, Act(r)
  PROVE  UNCHANGED profile \/ UpsertProfile(r) \/ UpdateProfile(r)
           \/ WriteKyc(r) \/ SubmitKyc(r)
  BY DEF Act, Receive, ReadStatus, WriteStatus, ListActive, ListExpired, ApplyPlan,
     FindCampaign, Judge, FindOwned, SoftDelete, WriteDetails, FindVisible, Raise,
     FindForReview, FindBadge, CreateBadge, FindActiveBadge, RevokeBadge,
     SwallowBadgeError, WriteVerification, FindProfile, ReadFunding, CheckMilestone,
     LogMilestone, Fail, tables, reviewRows

(* Verdicts of campaigns and their marks change in two places.             *)
LEMMA VerdictStep ==
  ASSUME AtStepOfCall, NEW r \in Requests, Act(r)
  PROVE  UNCHANGED <<verification, marked>> \/ Judge(r) \/ WriteVerification(r)
  BY DEF Act, Receive, ReadStatus, WriteStatus, ListActive, ListExpired, ApplyPlan,
     FindCampaign, FindOwned, SoftDelete, WriteDetails, FindVisible, Raise,
     FindForReview, UpsertProfile, UpdateProfile, FindBadge, CreateBadge,
     FindActiveBadge, RevokeBadge, SwallowBadgeError, FindProfile, WriteKyc, SubmitKyc,
     ReadFunding, CheckMilestone, LogMilestone, Fail, tables, reviewRows

(* Milestones are logged in one place.                                     *)
LEMMA MilestoneStep ==
  ASSUME AtStepOfCall, NEW r \in Requests, Act(r)
  PROVE  UNCHANGED milestoneRows \/ LogMilestone(r)
  BY DEF Act, Receive, ReadStatus, WriteStatus, ListActive, ListExpired, ApplyPlan,
     FindCampaign, Judge, FindOwned, SoftDelete, WriteDetails, FindVisible, Raise,
     FindForReview, UpsertProfile, UpdateProfile, FindBadge, CreateBadge,
     FindActiveBadge, RevokeBadge, SwallowBadgeError, WriteVerification, FindProfile,
     WriteKyc, SubmitKyc, ReadFunding, CheckMilestone, Fail, tables

LEMMA IdentityIsReviewedStep ==
  ASSUME IInv, NEW r \in Requests, Act(r)
  PROVE  IdentityIsReviewed'
<1> USE DEF IInv, IdentityIsReviewed
<1>1. CASE UNCHANGED profile
  BY <1>1
<1>2. CASE UpsertProfile(r)
  BY <1>2 DEF UpsertProfile
<1>3. CASE UpdateProfile(r)
  BY <1>3 DEF UpdateProfile
<1>4. CASE WriteKyc(r)
  BY <1>4 DEF WriteKyc
<1>5. CASE SubmitKyc(r)
  <2>1. profile \in Profiles
    BY <1>5 DEF SubmitKyc, ProfileWasFound, TypeOK, TableTypes
  <2> QED
    BY <1>5, <2>1 DEF SubmitKyc, Profiles
<1> QED
  BY <1>1, <1>2, <1>3, <1>4, <1>5, ProfileStep

(* Only a call that has found the profile goes on to write it so.          *)
LEMMA GoesElsewhere ==
  ASSUME CallTypes, NEW r \in Requests, Act(r),
         NEW o \in Requests, pc'[o] \in {"writeKyc", "submitKyc"}
  PROVE  FindProfile(r) \/ Receive(r) \/ pc'[o] = pc[o]
<1> USE DEF CallTypes, Goto, calls
<1>1. CASE ReadStatus(r) \/ WriteStatus(r) \/ ListActive(r) \/ ListExpired(r)
  BY <1>1 DEF ReadStatus, WriteStatus, ListActive, ListExpired
<1>2. CASE ApplyPlan(r) \/ FindCampaign(r) \/ Judge(r) \/ FindOwned(r)
  BY <1>2 DEF ApplyPlan, FindCampaign, Judge, FindOwned
<1>3. CASE SoftDelete(r) \/ WriteDetails(r) \/ FindVisible(r) \/ Raise(r)
  BY <1>3 DEF SoftDelete, WriteDetails, FindVisible, Raise
<1>4. CASE FindForReview(r) \/ UpsertProfile(r) \/ UpdateProfile(r) \/ FindBadge(r)
  BY <1>4 DEF FindForReview, UpsertProfile, UpdateProfile, FindBadge, ReviewStep, Refused
<1>5. CASE CreateBadge(r) \/ FindActiveBadge(r) \/ RevokeBadge(r) \/ SwallowBadgeError(r)
  BY <1>5 DEF CreateBadge, FindActiveBadge, RevokeBadge, SwallowBadgeError, Refused, AfterBadge
<1>6. CASE WriteVerification(r) \/ WriteKyc(r) \/ SubmitKyc(r) \/ ReadFunding(r)
  BY <1>6 DEF WriteVerification, WriteKyc, SubmitKyc, ReadFunding
<1>7. CASE CheckMilestone(r) \/ LogMilestone(r) \/ Fail(r)
  BY <1>7 DEF CheckMilestone, LogMilestone, Fail, Break
<1> QED
  BY <1>1, <1>2, <1>3, <1>4, <1>5, <1>6, <1>7 DEF Act

(* A profile that was found is there when it is written: no step deletes it.*)
LEMMA ProfileWasFoundStep ==
  ASSUME IInv, NEW r \in Requests, Act(r)
  PROVE  ProfileWasFound'
<1>1. ASSUME profile # None
      PROVE  profile' # None
  <2>1. profile \in Profiles
    BY <1>1 DEF IInv, TypeOK, TableTypes
  <2>2. ASSUME NEW b \in BOOLEAN, NEW v \in Verdicts
        PROVE  [identityVerified |-> b, verificationStatus |-> v] # None
    BY NoneAssumption DEF Profiles
  <2>3. CASE UpsertProfile(r)
    BY <2>2, <2>3 DEF UpsertProfile, Verdicts
  <2>4. CASE UpdateProfile(r) \/ WriteKyc(r)
    <3>1. call[r].verdict \in Verdicts
      BY <2>4, StepTellsCall, CallFields DEF IInv, UpdateProfile, WriteKyc
    <3> QED
      BY <1>1, <2>2, <2>4, <3>1 DEF UpdateProfile, WriteKyc
  <2>5. CASE SubmitKyc(r)
    <3>1. profile' \in Profiles
      BY <2>1, <2>5 DEF SubmitKyc, Profiles, Verdicts
    <3> QED
      BY <3>1, NoneAssumption
  <2> QED
    BY <1>1, <2>3, <2>4, <2>5, ProfileStep DEF IInv
<1>2. ASSUME NEW o \in Requests, pc'[o] \in {"writeKyc", "submitKyc"}
      PROVE  pc[o] = pc'[o] \/ profile # None
  <2>1. CASE FindProfile(r)
    BY <1>2, <2>1 DEF FindProfile, Goto, IInv, TypeOK, CallTypes
  <2>2. CASE Receive(r)
    <3>1. PICK c \in CampaignCalls : pc' = [pc EXCEPT ![r] = FirstCampaignStep(c)]
      BY <2>2 DEF Receive, Begin, StartAt, IInv, TypeOK, CallTypes
    <3>2. FirstCampaignStep(c) \notin {"writeKyc", "submitKyc"}
      BY Operations DEF FirstCampaignStep
    <3> QED
      BY <1>2, <3>1, <3>2 DEF IInv, TypeOK, CallTypes
  <2> QED
    BY <1>2, <2>1, <2>2, GoesElsewhere DEF IInv, TypeOK
<1> QED
  BY <1>1, <1>2 DEF IInv, ProfileWasFound

LEMMA MarkedIsNotRefusedStep ==
  ASSUME IInv, NEW r \in Requests, Act(r)
  PROVE  MarkedIsNotRefused'
<1> USE DEF IInv, MarkedIsNotRefused, Refusals
<1>1. CASE UNCHANGED <<verification, marked>>
  BY <1>1
<1>2. CASE Judge(r)
  BY <1>2 DEF Judge, TypeOK, TableTypes
<1>3. CASE WriteVerification(r)
  <2>1. call[r].campaign \in CampaignIds
    BY <1>3, StepTellsCall, CallFields DEF WriteVerification
  <2> QED
    BY <1>3, <2>1 DEF WriteVerification, TypeOK, TableTypes
<1> QED
  BY <1>1, <1>2, <1>3, VerdictStep

LEMMA LogTellsNoticesStep ==
  ASSUME IInv, NEW r \in Requests, Act(r)
  PROVE  LogTellsNotices'
<1> USE DEF IInv, LogTellsNotices
<1>1. CASE UNCHANGED milestoneRows
  BY <1>1 DEF milestoneRows
<1>2. ASSUME NEW m \in Lowest(r), LogHasRoom(call[r].campaign),
             milestoneLog' = [milestoneLog EXCEPT ![call[r].campaign] = m],
             notices' = [notices EXCEPT ![call[r].campaign][m] = @ + 1]
      PROVE  LogTellsNotices'
  <2> SUFFICES ASSUME NEW c \in CampaignIds, NEW n \in DOMAIN Threshold
               PROVE  notices'[c][n] = IF milestoneLog'[c] = n THEN 1 ELSE 0
    OBVIOUS
  <2>1. CASE c # call[r].campaign
    BY <1>2, <2>1 DEF TypeOK, TableTypes
  <2>2. CASE c = call[r].campaign
    <3>1. milestoneLog[c] = None /\ milestoneLog'[c] = m
      BY <1>2, <2>2 DEF LogHasRoom, TypeOK, TableTypes
    <3>2. notices[c][n] = 0
      BY <3>1, NoneAssumption
    <3>3. notices'[c][n] = IF n = m THEN notices[c][n] + 1 ELSE notices[c][n]
      BY <1>2, <2>2 DEF TypeOK, TableTypes
    <3> QED
      BY <3>1, <3>2, <3>3
  <2> QED
    BY <2>1, <2>2
<1> QED
  BY <1>1, <1>2, MilestoneStep DEF LogMilestone

-----------------------------------------------------------------------------
(* The inductive invariant, and what follows from it.                      *)

LEMMA IInvInit == Init => IInv
<1> SUFFICES ASSUME Init
             PROVE  IInv
  OBVIOUS
<1>1. PICK before \in [goal : [CampaignIds -> Goals], profile : {NewProfile, None}] :
        goal = before.goal /\ profile = before.profile
  BY CampaignsAssumption DEF Init, CallsInit
<1>2. CallTypes
  BY DEF Init, CallsInit, CallTypes
<1>3. profile \in Profiles \cup {None}
  <2>1. NewProfile \in Profiles
    BY DEF NewProfile, Profiles, Verdicts
  <2>2. profile \in {NewProfile, None}
    BY <1>1
  <2> QED
    BY <2>1, <2>2
<1>4. TableTypes
  BY <1>1, <1>3, CampaignsAssumption DEF Init, TableTypes, Statuses, Verdicts
<1>5. AtStepOfCall /\ ProfileWasFound /\ MarkedIsNotRefused
  BY DEF Init, CallsInit, AtStepOfCall, ProfileWasFound, MarkedIsNotRefused
<1>6. LogTellsNotices
  BY NoneAssumption DEF Init, LogTellsNotices
<1>7. IdentityIsReviewed
  BY <1>1 DEF IdentityIsReviewed, NewProfile
<1> QED
  BY <1>2, <1>4, <1>5, <1>6, <1>7 DEF IInv, TypeOK

LEMMA IInvStep == IInv /\ [Next]_vars => IInv'
<1> SUFFICES ASSUME IInv, [Next]_vars
             PROVE  IInv'
  OBVIOUS
<1>1. AtStepOfCall'
  BY AtStepOfCallStep DEF IInv
<1>2. ASSUME NEW r \in Requests, Act(r)
      PROVE  IInv'
  BY <1>1, <1>2, CallTypesStep, TableTypesStep, ProfileWasFoundStep,
     LogTellsNoticesStep, IdentityIsReviewedStep, MarkedIsNotRefusedStep DEF IInv, TypeOK
<1>3. ASSUME NEW c \in CampaignIds, TripEnds(c)
      PROVE  IInv'
  BY <1>1, <1>3 DEF TripEnds, IInv, TypeOK, CallTypes, TableTypes, ProfileWasFound,
     LogTellsNotices, IdentityIsReviewed, MarkedIsNotRefused, calls, reviewRows,
     milestoneRows, local
<1>4. ASSUME UNCHANGED vars
      PROVE  IInv'
  BY <1>1, <1>4 DEF vars, tables, campaignRows, calls, reviewRows, milestoneRows, local,
     IInv, TypeOK, CallTypes, TableTypes, ProfileWasFound, LogTellsNotices,
     IdentityIsReviewed, MarkedIsNotRefused
<1> QED
  BY <1>2, <1>3, <1>4, SomeoneActs

(* Every call stays within what its step may rely on.                      *)
THEOREM Invariance == Spec => []IInv
  BY IInvInit, IInvStep, PTL DEF Spec

(* Every variable keeps its type.                                          *)
THEOREM TypeCorrect == Spec => []TypeOK
<1>1. IInv => TypeOK
  BY DEF IInv
<1> QED
  BY <1>1, Invariance, PTL

(* No review leaves a refused creator with a verified identity.            *)
THEOREM IdentitiesAreReviewed == Spec => []IdentityIsReviewed
<1>1. IInv => IdentityIsReviewed
  BY DEF IInv
<1> QED
  BY <1>1, Invariance, PTL

(* No refused campaign shows as verified.                                  *)
THEOREM MarksAreNotRefused == Spec => []MarkedIsNotRefused
<1>1. IInv => MarkedIsNotRefused
  BY DEF IInv
<1> QED
  BY <1>1, Invariance, PTL

(* The creator hears of each milestone once, however many jobs look at it. *)
THEOREM MilestonesAreSentOnce == Spec => []MilestoneSentOnce
<1>1. IInv => MilestoneSentOnce
  BY DEF IInv, LogTellsNotices, MilestoneSentOnce
<1> QED
  BY <1>1, Invariance, PTL

-----------------------------------------------------------------------------
(* Overlaps: what a step of one call does to those that are served with it.*)
LEMMA EarlierStep ==
  ASSUME EarlierIsOver, NEW r \in Requests, StepOf(r)
  PROVE  EarlierIsOver'
<1>1. earlier' \in [Requests -> SUBSET Requests]
  BY DEF EarlierIsOver, StepOf
<1>2. \A q \in Requests : \A o \in earlier'[q] : pc[o] \in Answered
  BY DEF EarlierIsOver, StepOf
<1> QED
  BY <1>1, <1>2 DEF EarlierIsOver, StepOf

(* The call that takes a step is a rival of all others that are served.    *)
LEMMA OthersMeet ==
  ASSUME EarlierIsOver, NEW r \in Requests, StepOf(r), NEW q \in Requests \ {r}
  PROVE  r \in Rivals(q)' /\ Rivals(q) \subseteq Rivals(q)' /\ earlier'[q] = earlier[q]
<1>1. earlier'[q] = earlier[q] /\ r \notin earlier[q]
  BY DEF EarlierIsOver, StepOf
<1> QED
  BY <1>1 DEF Rivals, StepOf

(* A call keeps its own rivals until it is answered.                       *)
LEMMA RivalsStay ==
  ASSUME EarlierIsOver, NEW r \in Requests, StepOf(r), pc[r] # "idle", pc'[r] \notin Answered
  PROVE  Rivals(r) \subseteq Rivals(r)' /\ earlier'[r] = earlier[r]
<1>1. earlier'[r] = earlier[r]
  BY DEF StepOf
<1> QED
  BY <1>1 DEF Rivals, StepOf

-----------------------------------------------------------------------------
(* Each step is of one call, which is served before or is received now.    *)
LEMMA ActIsStepOf ==
  ASSUME IInv, NEW r \in Requests, Act(r)
  PROVE  StepOf(r)
<1>1. CASE Receive(r)
  <2>1. PICK c \in CampaignCalls : /\ call' = [call EXCEPT ![r] = c]
                                   /\ StartAt(r, FirstCampaignStep(call'[r]))
                                   /\ pc[r] = "idle" /\ UNCHANGED load
    BY <1>1 DEF Receive, Begin
  <2>2. FirstCampaignStep(c) # "idle" /\ call'[r] = c
    BY <2>1, Operations DEF FirstCampaignStep, IInv, TypeOK, CallTypes
  <2> QED
    BY <2>1, <2>2 DEF StartAt, StepOf, IInv, TypeOK, CallTypes, Answered
<1>2. ASSUME pc[r] \notin {"idle"} \cup Answered, UNCHANGED calls
      PROVE  StepOf(r)
  BY <1>2 DEF StepOf, calls
<1>3. ASSUME pc[r] \notin {"idle"} \cup Answered,
             NEW s \in StepsOf(call[r].op) \cup Answered, Goto(r, s)
      PROVE  StepOf(r)
  <2>1. call[r] \in CampaignCalls
    BY <1>3 DEF IInv, AtStepOfCall
  <2>2. s # "idle"
    BY <2>1, Operations DEF StepsOf, Answered
  <2> QED
    BY <1>3, <2>2 DEF StepOf, Goto, IInv, TypeOK, CallTypes
<1> QED
  BY <1>1, <1>2, <1>3, CallGoesOn DEF IInv

(* What the others are, and who has met them, stays.                       *)
LEMMA OthersStay ==
  ASSUME EarlierIsOver, NEW r \in Requests, StepOf(r), NEW q \in Requests \ {r}
  PROVE  /\ pc'[q] = pc[q] /\ call'[q] = call[q]
         /\ r \in Rivals(q)' /\ Rivals(q) \subseteq Rivals(q)'
         /\ \A o \in Rivals(q) : call'[o] = call[o]
BY OthersMeet DEF StepOf, Rivals

-----------------------------------------------------------------------------
(* Refusals.                                                               *)

(* Only a call that verifies the creator gives him a badge ...             *)
VerdictPath ==
  \A r \in Requests :
    pc[r] \in {"upsertProfile", "findBadge", "createBadge"} /\ call[r].op = "verify" =>
      call[r].verdict = "verified"

(* ... and only such a call, served at the same time, can have given him   *)
(* one between the query that found none, or the update that revoked it,   *)
(* and the end of the review.                                              *)
BadgeIsGone(r) ==
  pc[r] = "writeVerification" /\ call[r].verdict \in Refusals =>
    badge # "active" \/ \E o \in Rivals(r) : GivesBadge(call[o])

RefusalKnown == \A r \in Requests \ swallowed : BadgeIsGone(r)

(* The steps of the badge and of a review, and where they lead.            *)
ReviewSteps == {"upsertProfile", "findBadge", "createBadge", "writeVerification"}

LEMMA ReviewMoves ==
  ASSUME IInv, NEW r \in Requests, Act(r)
  PROVE  \/ FindForReview(r) \/ UpsertProfile(r) \/ FindBadge(r) \/ CreateBadge(r)
         \/ FindActiveBadge(r) \/ RevokeBadge(r) \/ SwallowBadgeError(r)
         \/ /\ pc'[r] \notin ReviewSteps \/ (pc'[r] = "findBadge" /\ call'[r].op = "assign")
            /\ UNCHANGED <<badge, swallowed>>
            /\ pc[r] \in CampaignSteps /\ pc'[r] = "ok"
                 /\ call[r].op \in {"verify", "kyc"} /\ call[r].verdict \in Refusals =>
                 pc[r] = "writeVerification"
<1> USE DEF IInv, TypeOK, CallTypes, ReviewSteps, Goto, calls, tables, reviewRows, local, Answered
<1>1. CASE Receive(r)
  <2>1. PICK c \in CampaignCalls : /\ call' = [call EXCEPT ![r] = c]
                                   /\ pc' = [pc EXCEPT ![r] = FirstCampaignStep(call'[r])]
    BY <1>1 DEF Receive, Begin, StartAt
  <2>2. \/ FirstCampaignStep(c) \notin ReviewSteps
        \/ FirstCampaignStep(c) = "findBadge" /\ c.op = "assign"
    BY Operations DEF FirstCampaignStep
  <2> QED
    BY <1>1, <2>1, <2>2 DEF Receive, Begin, CampaignSteps
<1>2. CASE ReadStatus(r) \/ WriteStatus(r) \/ ListActive(r) \/ ListExpired(r) \/ ApplyPlan(r)
  BY <1>2, StepTellsCall DEF ReadStatus, WriteStatus, ListActive, ListExpired, ApplyPlan, Refusals
<1>3. CASE FindCampaign(r) \/ Judge(r) \/ FindOwned(r) \/ SoftDelete(r) \/ WriteDetails(r)
  BY <1>3, StepTellsCall DEF FindCampaign, Judge, FindOwned, SoftDelete, WriteDetails
<1>4. CASE FindVisible(r) \/ Raise(r) \/ UpdateProfile(r) \/ WriteVerification(r)
  BY <1>4, StepTellsCall DEF FindVisible, Raise, UpdateProfile, WriteVerification
<1>5. CASE FindProfile(r) \/ WriteKyc(r) \/ SubmitKyc(r)
  BY <1>5, StepTellsCall DEF FindProfile, WriteKyc, SubmitKyc, Refusals
<1>6. CASE ReadFunding(r) \/ CheckMilestone(r) \/ LogMilestone(r) \/ Fail(r)
  BY <1>6, StepTellsCall DEF ReadFunding, CheckMilestone, LogMilestone, Fail, Break
<1> QED
  BY <1>1, <1>2, <1>3, <1>4, <1>5, <1>6 DEF Act

LEMMA VerdictPathStep ==
  ASSUME IInv, VerdictPath, NEW r \in Requests, Act(r)
  PROVE  VerdictPath'
<1>1. ASSUME NEW o \in Requests \ {r}
      PROVE  pc'[o] = pc[o] /\ call'[o] = call[o]
  BY ActIsStepOf DEF StepOf
<1>2. ASSUME pc'[r] \in {"upsertProfile", "findBadge", "createBadge"}, call'[r].op = "verify"
      PROVE  call'[r].verdict = "verified"
  <2> USE <1>2 DEF VerdictPath, IInv, TypeOK, CallTypes, Goto, calls
  <2>1. CASE FindForReview(r) \/ UpsertProfile(r) \/ FindBadge(r) \/ CreateBadge(r)
    BY <2>1, StepTellsCall DEF FindForReview, UpsertProfile, FindBadge, CreateBadge, ReviewStep,
       Refused, AfterBadge, Refusals
  <2>2. CASE FindActiveBadge(r) \/ RevokeBadge(r) \/ SwallowBadgeError(r)
    BY <2>2, StepTellsCall DEF FindActiveBadge, RevokeBadge, SwallowBadgeError, AfterBadge
  <2> QED
    BY <2>1, <2>2, ReviewMoves DEF ReviewSteps
<1> QED
  BY <1>1, <1>2 DEF VerdictPath

(* A badge is given by a call that gives badges.                           *)
LEMMA BadgeIsGiven ==
  ASSUME IInv, VerdictPath, NEW r \in Requests, Act(r), badge # "active", badge' = "active"
  PROVE  GivesBadge(call[r]) /\ call'[r] = call[r]
<1> USE DEF IInv, TypeOK, CallTypes, TableTypes, Goto, calls, tables, reviewRows, local
<1>1. CASE FindForReview(r) \/ UpsertProfile(r) \/ FindBadge(r)
  BY <1>1 DEF FindForReview, UpsertProfile, FindBadge
<1>2. CASE CreateBadge(r)
  BY <1>2, StepTellsCall DEF CreateBadge, GivesBadge, VerdictPath
<1>3. CASE FindActiveBadge(r) \/ RevokeBadge(r) \/ SwallowBadgeError(r)
  BY <1>3 DEF FindActiveBadge, RevokeBadge, SwallowBadgeError
<1> QED
  BY <1>1, <1>2, <1>3, ReviewMoves

(* No call that swallowed an error is forgotten.                           *)
LEMMA SwallowedStays ==
  ASSUME IInv, NEW r \in Requests, Act(r)
  PROVE  swallowed \subseteq swallowed'
<1> USE DEF tables, reviewRows, local
<1>1. CASE FindForReview(r) \/ UpsertProfile(r) \/ FindBadge(r) \/ CreateBadge(r)
  BY <1>1 DEF FindForReview, UpsertProfile, FindBadge, CreateBadge
<1>2. CASE FindActiveBadge(r) \/ RevokeBadge(r) \/ SwallowBadgeError(r)
  BY <1>2 DEF FindActiveBadge, RevokeBadge, SwallowBadgeError
<1> QED
  BY <1>1, <1>2, ReviewMoves

LEMMA RefusalKnownStep ==
  ASSUME IInv, EarlierIsOver, VerdictPath, RefusalKnown, NEW r \in Requests, Act(r)
  PROVE  RefusalKnown'
<1>1. StepOf(r) /\ swallowed \subseteq swallowed'
  BY ActIsStepOf, SwallowedStays
<1>2. ASSUME NEW q \in Requests \ {r}, q \notin swallowed'
      PROVE  BadgeIsGone(q)'
  <2>1. /\ pc'[q] = pc[q] /\ call'[q] = call[q]
        /\ r \in Rivals(q)' /\ Rivals(q) \subseteq Rivals(q)'
        /\ \A o \in Rivals(q) : call'[o] = call[o]
    BY <1>1, OthersStay
  <2>2. BadgeIsGone(q)
    BY <1>1, <1>2 DEF RefusalKnown
  <2>3. badge # "active" /\ badge' = "active" => GivesBadge(call'[r])
    BY BadgeIsGiven
  <2> QED
    BY <2>1, <2>2, <2>3 DEF BadgeIsGone
<1>3. ASSUME r \notin swallowed', pc'[r] = "writeVerification", call'[r].verdict \in Refusals
      PROVE  badge' # "active"
  <2> USE <1>3 DEF VerdictPath, IInv, TypeOK, CallTypes, TableTypes,
      Goto, calls, Refusals, tables, reviewRows, local
  <2>1. CASE FindForReview(r) \/ UpsertProfile(r) \/ FindBadge(r) \/ CreateBadge(r)
    BY <2>1, StepTellsCall DEF FindForReview, UpsertProfile, FindBadge, CreateBadge, ReviewStep,
       Refused, AfterBadge
  <2>2. CASE FindActiveBadge(r)
    BY <2>2 DEF FindActiveBadge
  <2>3. CASE RevokeBadge(r)
    BY <2>3 DEF RevokeBadge
  <2>4. CASE SwallowBadgeError(r)
    BY <2>4 DEF SwallowBadgeError
  <2> QED
    BY <2>1, <2>2, <2>3, <2>4, ReviewMoves DEF ReviewSteps
<1> QED
  <2>1. r \notin swallowed' => BadgeIsGone(r)'
    BY <1>3 DEF BadgeIsGone
  <2> QED
    BY <1>2, <2>1 DEF RefusalKnown

(* Where a review ends.                                                    *)
LEMMA RefusalEnds ==
  ASSUME IInv, VerdictPath, RefusalKnown, NEW r \in Requests, Act(r),
         NEW o \in Requests \ swallowed', pc[o] \in CampaignSteps, pc'[o] = "ok",
         call[o].op \in {"verify", "kyc"}, call[o].verdict \in Refusals
  PROVE  badge' # "active" \/ \E q \in Rivals(o) : GivesBadge(call[q])
<1>1. o = r /\ swallowed \subseteq swallowed'
  BY ActIsStepOf, SwallowedStays DEF StepOf, CampaignSteps
<1> USE <1>1 DEF VerdictPath, IInv, TypeOK, CallTypes, TableTypes,
      Goto, calls, Refusals, tables, reviewRows, local
<1>2. CASE FindForReview(r) \/ UpsertProfile(r) \/ FindBadge(r) \/ CreateBadge(r)
  BY <1>2, StepTellsCall DEF FindForReview, UpsertProfile, FindBadge, CreateBadge, ReviewStep,
     Refused, AfterBadge
<1>3. CASE FindActiveBadge(r)
  BY <1>3 DEF FindActiveBadge
<1>4. CASE RevokeBadge(r)
  BY <1>4 DEF RevokeBadge
<1>5. CASE SwallowBadgeError(r)
  BY <1>5 DEF SwallowBadgeError
<1>6. CASE pc[r] = "writeVerification" /\ UNCHANGED badge
  BY <1>6 DEF RefusalKnown, BadgeIsGone
<1> QED
  BY <1>2, <1>3, <1>4, <1>5, <1>6, ReviewMoves DEF ReviewSteps

-----------------------------------------------------------------------------
(* The lifecycle.                                                          *)

(* Nothing puts a campaign under review, nor makes it a draft again.       *)
Shown == Statuses \ {"draft", "under_review"}

StatusIsShown ==
  /\ \A c \in CampaignIds : status[c] \in Shown
  /\ \A r \in Requests : pc[r] = "writeStatus" => call[r].to \in Shown

(* Someone who is or was served with r writes the status of c.             *)
Overtaken(r, c) == \E o \in Rivals(r) : MovesStatus(call[o], c)

(* What a call is about to write is allowed by the status there is, unless *)
(* a call that was served at the same time has changed what it has read.   *)
PlanIsKnown(r) ==
  /\ \A u \in plan[r] : status[u[1]] = "active" \/ Overtaken(r, u[1])
  /\ \A u, w \in plan[r] : u[1] = w[1] => u = w

StatusKnown(r) ==
  /\ pc[r] = "writeStatus" =>
       \/ call[r].to \in ValidTransitions[status[call[r].campaign]]
       \/ Overtaken(r, call[r].campaign)
  /\ pc[r] = "applyPlan" => PlanIsKnown(r)

(* The allowed transitions, between the statuses there are.                *)
LEMMA TransitionsAre ==
  ASSUME NEW from \in Shown, NEW to \in ValidTransitions[from]
  PROVE  to \in Shown /\ Lifecycle(from, to)
  BY DEF Shown, Statuses, ValidTransitions, Lifecycle

LEMMA TransitionsShown ==
  ASSUME NEW from \in Statuses, NEW to \in ValidTransitions[from]
  PROVE  to \in Shown
  BY DEF Shown, Statuses, ValidTransitions

(* Where a status is written, and where what is to be written is read.     *)
LEMMA StatusMoves ==
  ASSUME IInv, NEW r \in Requests, Act(r)
  PROVE  \/ ReadStatus(r) \/ WriteStatus(r) \/ ListActive(r) \/ ListExpired(r)
         \/ ApplyPlan(r) \/ Judge(r)
         \/ UNCHANGED status /\ pc'[r] \notin {"writeStatus", "applyPlan"}
<1> USE DEF IInv, TypeOK, CallTypes, Goto, calls, tables, campaignRows
<1>1. CASE Receive(r)
  <2>1. PICK c \in CampaignCalls : /\ call' = [call EXCEPT ![r] = c]
                                   /\ pc' = [pc EXCEPT ![r] = FirstCampaignStep(call'[r])]
    BY <1>1 DEF Receive, Begin, StartAt
  <2>2. FirstCampaignStep(c) \notin {"writeStatus", "applyPlan"}
    BY Operations DEF FirstCampaignStep
  <2> QED
    BY <1>1, <2>1, <2>2 DEF Receive
<1>2. CASE FindCampaign(r) \/ FindOwned(r) \/ SoftDelete(r) \/ WriteDetails(r)
  BY <1>2 DEF FindCampaign, FindOwned, SoftDelete, WriteDetails
<1>3. CASE FindVisible(r) \/ Raise(r) \/ FindForReview(r) \/ UpsertProfile(r) \/ UpdateProfile(r)
  BY <1>3 DEF FindVisible, Raise, FindForReview, ReviewStep, UpsertProfile, UpdateProfile
<1>4. CASE FindBadge(r) \/ CreateBadge(r) \/ FindActiveBadge(r) \/ RevokeBadge(r)
  BY <1>4 DEF FindBadge, CreateBadge, FindActiveBadge, RevokeBadge, Refused, AfterBadge
<1>5. CASE \/ SwallowBadgeError(r) \/ WriteVerification(r) \/ FindProfile(r)
           \/ WriteKyc(r) \/ SubmitKyc(r)
  BY <1>5 DEF SwallowBadgeError, WriteVerification, FindProfile, WriteKyc, SubmitKyc, AfterBadge
<1>6. CASE ReadFunding(r) \/ CheckMilestone(r) \/ LogMilestone(r) \/ Fail(r)
  BY <1>6 DEF ReadFunding, CheckMilestone, LogMilestone, Fail, Break
<1> QED
  BY <1>1, <1>2, <1>3, <1>4, <1>5, <1>6 DEF Act

LEMMA StatusIsShownStep ==
  ASSUME IInv, StatusIsShown, NEW r \in Requests, Act(r)
  PROVE  StatusIsShown'
<1>1. ASSUME NEW o \in Requests \ {r}
      PROVE  pc'[o] = pc[o] /\ call'[o] = call[o]
  BY ActIsStepOf DEF StepOf
<1>2. /\ pc'[r] = "writeStatus" => call'[r].to \in Shown
      /\ \A c \in CampaignIds : status'[c] \in Shown
  <2> USE DEF StatusIsShown, IInv, TypeOK, CallTypes, TableTypes, Goto, calls, Shown
  <2>1. CASE ReadStatus(r)
    <3>1. call[r].campaign \in CampaignIds /\ call[r] \in CampaignCalls
      BY <2>1, StepTellsCall, CallFields DEF ReadStatus
    <3>2. status[call[r].campaign] \in Statuses
      BY <3>1
    <3> QED
      BY <2>1, <3>1, <3>2, TransitionsShown DEF ReadStatus, tables, campaignRows
  <2>2. CASE WriteStatus(r)
    BY <2>2, StepTellsCall, CallFields DEF WriteStatus
  <2>3. CASE ListActive(r) \/ ListExpired(r)
    BY <2>3 DEF ListActive, ListExpired, campaignRows
  <2>4. CASE ApplyPlan(r)
    <3>1. \A u \in plan[r] : u[2] \in {"funded", "expired"}
      OBVIOUS
    <3> QED
      BY <2>4, <3>1 DEF ApplyPlan, Statuses
  <2>5. CASE Judge(r)
    BY <2>5 DEF Judge, Statuses
  <2> QED
    BY <2>1, <2>2, <2>3, <2>4, <2>5, StatusMoves
<1> QED
  BY <1>1, <1>2 DEF StatusIsShown

(* A plan is written by its own call.                                      *)
LEMMA PlansAreOwn ==
  ASSUME DOMAIN plan = Requests, NEW r \in Requests, Act(r), NEW q \in Requests \ {r}
  PROVE  plan'[q] = plan[q]
  BY DEF Act, Receive, ReadStatus, WriteStatus, ListActive, ListExpired, ApplyPlan,
     FindCampaign, Judge, FindOwned, SoftDelete, WriteDetails, FindVisible, Raise,
     FindForReview, UpsertProfile, UpdateProfile, FindBadge, CreateBadge,
     FindActiveBadge, RevokeBadge, SwallowBadgeError, WriteVerification, FindProfile,
     WriteKyc, SubmitKyc, ReadFunding, CheckMilestone, LogMilestone, Fail, tables, local

(* Who changes a status is one that writes it.                             *)
LEMMA WriterMoves ==
  ASSUME IInv, NEW r \in Requests, Act(r), NEW c \in CampaignIds, status'[c] # status[c]
  PROVE  MovesStatus(call[r], c) /\ call'[r] = call[r]
<1> USE DEF IInv, TypeOK, CallTypes, TableTypes, MovesStatus, Goto, calls
<1>1. CASE ReadStatus(r) \/ ListActive(r) \/ ListExpired(r)
  BY <1>1 DEF ReadStatus, ListActive, ListExpired, tables, campaignRows
<1>2. CASE WriteStatus(r)
  BY <1>2, StepTellsCall, CallFields DEF WriteStatus
<1>3. CASE ApplyPlan(r)
  BY <1>3, StepTellsCall DEF ApplyPlan
<1>4. CASE Judge(r)
  BY <1>4, StepTellsCall, CallFields DEF Judge
<1> QED
  BY <1>1, <1>2, <1>3, <1>4, StatusMoves

(* What the others know of the status of a campaign stays known.           *)
LEMMA OthersStatusKnown ==
  ASSUME IInv, EarlierIsOver, NEW r \in Requests, Act(r), NEW q \in Requests \ {r},
         StatusKnown(q)
  PROVE  StatusKnown(q)'
<1>1. /\ pc'[q] = pc[q] /\ call'[q] = call[q]
      /\ r \in Rivals(q)' /\ Rivals(q) \subseteq Rivals(q)'
      /\ \A o \in Rivals(q) : call'[o] = call[o]
  BY ActIsStepOf, OthersStay
<1>2. ASSUME NEW c \in CampaignIds
      PROVE  /\ Overtaken(q, c) => Overtaken(q, c)'
             /\ status'[c] # status[c] => Overtaken(q, c)'
  BY <1>1, WriterMoves DEF Overtaken
<1>3. plan'[q] = plan[q] /\ \A u \in plan[q] : u[1] \in CampaignIds
  <2>1. plan \in [Requests -> SUBSET (CampaignIds \X {"funded", "expired"})]
    BY DEF IInv, TypeOK, TableTypes
  <2>2. plan'[q] = plan[q]
    BY <2>1, PlansAreOwn
  <2> QED
    BY <2>1, <2>2
<1>4. pc[q] = "writeStatus" => call[q].campaign \in CampaignIds
  BY StepTellsCall, CallFields DEF IInv
<1>5. ASSUME pc[q] = "applyPlan"
      PROVE  PlanIsKnown(q)'
  BY <1>2, <1>3, <1>5 DEF StatusKnown, PlanIsKnown
<1> QED
  BY <1>1, <1>2, <1>4, <1>5 DEF StatusKnown

LEMMA StatusKnownStep ==
  ASSUME IInv, EarlierIsOver, NEW r \in Requests, Act(r), StatusKnown(r)
  PROVE  StatusKnown(r)'
<1> USE DEF StatusKnown, IInv, TypeOK, CallTypes, TableTypes, Goto, calls, tables, campaignRows
<1>1. CASE ReadStatus(r)
  BY <1>1, StepTellsCall DEF ReadStatus
<1>2. CASE WriteStatus(r) \/ Judge(r)
  BY <1>2 DEF WriteStatus, Judge
<1>3. CASE ListActive(r)
  <2>1. plan'[r] = {<<c, "funded">> : c \in {x \in CampaignIds :
                                               status[x] = "active" /\ raised[x] >= goal[x]}}
            \cup {<<c, "expired">> : c \in {x \in CampaignIds \cap ended :
                                              status[x] = "active" /\ raised[x] < goal[x]}}
    BY <1>3 DEF ListActive
  <2>2. \A x \in CampaignIds : raised[x] \in Int /\ goal[x] \in Int
    <3>1. \A x \in CampaignIds : goal[x] \in Nat
      BY CampaignsAssumption
    <3> QED
      BY <3>1
  <2>3. pc'[r] = "applyPlan" /\ status' = status
    BY <1>3 DEF ListActive
  <2>4. PlanIsKnown(r)'
    BY <2>1, <2>2, <2>3 DEF PlanIsKnown
  <2> QED
    BY <2>3, <2>4
<1>4. CASE ListExpired(r)
  <2>1. plan'[r] = Expirable \X {"expired"} /\ pc'[r] = "applyPlan" /\ status' = status
    BY <1>4 DEF ListExpired
  <2>2. PlanIsKnown(r)'
    BY <2>1 DEF PlanIsKnown, Expirable
  <2> QED
    BY <2>1, <2>2
<1>5. CASE ApplyPlan(r)
  <2>1. PlanIsKnown(r) /\ pc[r] = "applyPlan"
    BY <1>5 DEF ApplyPlan
  <2>2. CASE pc'[r] = "ok"
    BY <2>2
  <2>3. ASSUME NEW u \in plan[r], UNCHANGED calls,
               status' = [status EXCEPT ![u[1]] = u[2]],
               plan' = [plan EXCEPT ![r] = @ \ {u}]
        PROVE  PlanIsKnown(r)'
    <3>1. plan'[r] = plan[r] \ {u}
      BY <2>3
    <3>2. \A w \in plan[r] : w[1] \in CampaignIds
      OBVIOUS
    <3>3. \A w \in plan'[r] : w[1] # u[1]
      BY <2>1, <3>1 DEF PlanIsKnown
    <3>4. \A w \in plan'[r] : status'[w[1]] = status[w[1]]
      BY <2>3, <3>1, <3>2, <3>3
    <3>5. \A c \in CampaignIds : Overtaken(r, c)' <=> Overtaken(r, c)
      BY <2>3 DEF Overtaken, Rivals
    <3> QED
      BY <2>1, <3>1, <3>2, <3>4, <3>5 DEF PlanIsKnown
  <2>4. pc'[r] # "writeStatus"
    BY <1>5 DEF ApplyPlan
  <2> QED
    BY <1>5, <2>2, <2>3, <2>4 DEF ApplyPlan
<1>6. CASE pc'[r] \notin {"writeStatus", "applyPlan"}
  BY <1>6
<1> QED
  BY <1>1, <1>2, <1>3, <1>4, <1>5, <1>6, StatusMoves

(* How the status of a campaign moves in one step of a call.               *)
StatusMovesWell(c) ==
  \/ status'[c] = status[c]
  \/ Lifecycle(status[c], status'[c])
  \/ \E r \in Requests :
       \/ /\ pc[r] = "judge" /\ call[r].campaign = c
          /\ status'[c] = IF call[r].op = "flag" THEN "flagged" ELSE "active"
       \/ /\ pc[r] \in {"writeStatus", "applyPlan"} /\ MovesStatus(call[r], c)
          /\ \E o \in Rivals(r) : MovesStatus(call[o], c)

LEMMA StatusMovesOn ==
  ASSUME IInv, StatusIsShown, NEW r \in Requests, Act(r), StatusKnown(r),
         NEW c \in CampaignIds, status'[c] # status[c]
  PROVE  StatusMovesWell(c)
<1> USE DEF StatusIsShown, StatusKnown, IInv, TypeOK, CallTypes, TableTypes
<1>0. MovesStatus(call[r], c)
  BY WriterMoves
<1>1. CASE ReadStatus(r) \/ ListActive(r) \/ ListExpired(r)
  BY <1>1 DEF ReadStatus, ListActive, ListExpired, tables, campaignRows
<1>2. CASE WriteStatus(r)
  <2>1. pc[r] = "writeStatus" /\ c = call[r].campaign /\ status'[c] = call[r].to
    BY <1>2, StepTellsCall, CallFields DEF WriteStatus
  <2>2. status'[c] \in ValidTransitions[status[c]] \/ Overtaken(r, c)
    BY <2>1
  <2>3. status[c] \in Shown
    OBVIOUS
  <2> QED
    BY <1>0, <2>1, <2>2, <2>3, TransitionsAre DEF Overtaken, StatusMovesWell
<1>3. CASE ApplyPlan(r)
  <2>1. PlanIsKnown(r) /\ pc[r] = "applyPlan"
    BY <1>3 DEF ApplyPlan
  <2>2. PICK u \in plan[r] : status' = [status EXCEPT ![u[1]] = u[2]]
    BY <1>3 DEF ApplyPlan
  <2>3. u[1] \in CampaignIds /\ u[2] \in {"funded", "expired"}
    OBVIOUS
  <2>4. c = u[1] /\ status'[c] = u[2] /\ (status[c] = "active" \/ Overtaken(r, c))
    BY <2>1, <2>2, <2>3 DEF PlanIsKnown
  <2> QED
    BY <1>0, <2>1, <2>3, <2>4 DEF StatusMovesWell, Overtaken, Lifecycle
<1>4. CASE Judge(r)
  <2>1. /\ pc[r] = "judge" /\ call[r].campaign = c
        /\ status'[c] = IF call[r].op = "flag" THEN "flagged" ELSE "active"
    BY <1>4, StepTellsCall DEF Judge
  <2> QED
    BY <2>1 DEF StatusMovesWell
<1> QED
  BY <1>1, <1>2, <1>3, <1>4, StatusMoves

-----------------------------------------------------------------------------
(* The invariant of calls that overlap, and what follows.                  *)
OverlapInv ==
  /\ IInv /\ EarlierIsOver /\ VerdictPath /\ RefusalKnown /\ StatusIsShown
  /\ \A r \in Requests : StatusKnown(r)

LEMMA OverlapInvInit == Init => OverlapInv
<1> SUFFICES ASSUME Init
             PROVE  OverlapInv
  OBVIOUS
<1>1. \A r \in Requests : pc[r] = "idle"
  BY DEF Init, CallsInit
<1> QED
  BY <1>1, IInvInit DEF OverlapInv, EarlierIsOver, VerdictPath, RefusalKnown, BadgeIsGone,
     StatusIsShown, StatusKnown, Init, CallsInit, Shown, Statuses

LEMMA OverlapInvStep == OverlapInv /\ [Next]_vars => OverlapInv'
<1> SUFFICES ASSUME OverlapInv, [Next]_vars
             PROVE  OverlapInv'
  OBVIOUS
<1>1. IInv'
  BY IInvStep DEF OverlapInv
<1>2. ASSUME NEW r \in Requests, Act(r)
      PROVE  OverlapInv'
  <2>1. \A q \in Requests : StatusKnown(q)'
    BY <1>2, OthersStatusKnown, StatusKnownStep DEF OverlapInv
  <2> QED
    BY <1>1, <1>2, <2>1, ActIsStepOf, EarlierStep, VerdictPathStep, RefusalKnownStep,
       StatusIsShownStep DEF OverlapInv
<1>3. ASSUME UNCHANGED <<calls, status, badge, plan, swallowed>>
      PROVE  OverlapInv'
  <2>1. EarlierIsOver' /\ VerdictPath' /\ RefusalKnown' /\ StatusIsShown'
    BY <1>3 DEF OverlapInv, calls, EarlierIsOver, VerdictPath, RefusalKnown, BadgeIsGone,
       StatusIsShown, Rivals
  <2>2. \A r \in Requests : StatusKnown(r)'
    BY <1>3 DEF OverlapInv, calls, StatusKnown, PlanIsKnown, Overtaken, Rivals
  <2> QED
    BY <1>1, <2>1, <2>2 DEF OverlapInv
<1> QED
  BY <1>2, <1>3, SomeoneActs DEF TripEnds, vars, tables, campaignRows, reviewRows, local

(* However calls overlap, each may rely on what it has read, or has met    *)
(* the call that has changed it since.                                     *)
THEOREM OverlapInvariance == Spec => []OverlapInv
  BY OverlapInvInit, OverlapInvStep, PTL DEF Spec

(* When a review has refused the creator, he holds no badge, unless a call *)
(* that was served at the same time gave him one.                          *)
BadgesAreTaken ==
  \A r \in Requests \ swallowed' :
    /\ pc[r] \in CampaignSteps /\ pc'[r] = "ok"
    /\ call[r].op \in {"verify", "kyc"} /\ call[r].verdict \in Refusals
    => badge' # "active" \/ \E o \in Rivals(r) : GivesBadge(call[o])

THEOREM RefusalsTakeBadges == Spec => RefusalTakesBadge
<1>1. ASSUME OverlapInv, [Next]_vars
      PROVE  BadgesAreTaken
  <2> SUFFICES ASSUME NEW r \in Requests \ swallowed', pc[r] \in CampaignSteps, pc'[r] = "ok",
                      call[r].op \in {"verify", "kyc"}, call[r].verdict \in Refusals
               PROVE  badge' # "active" \/ \E o \in Rivals(r) : GivesBadge(call[o])
    BY DEF BadgesAreTaken
  <2>1. PICK o \in Requests : Act(o)
    BY <1>1, SomeoneActs DEF TripEnds, calls, vars, CampaignSteps
  <2> QED
    BY <1>1, <2>1, RefusalEnds DEF OverlapInv
<1> QED
  BY <1>1, OverlapInvariance, PTL DEF Spec, RefusalTakesBadge, BadgesAreTaken

(* The status of a campaign moves along the lifecycle, unless a call has   *)
(* been overtaken by one that was served at the same time.                 *)
THEOREM StatusesFollowLifecycle == Spec => StatusFollowsLifecycle
<1>1. ASSUME OverlapInv, [Next]_vars
      PROVE  \A c \in CampaignIds : StatusMovesWell(c)
  <2> SUFFICES ASSUME NEW c \in CampaignIds, status'[c] # status[c]
               PROVE  StatusMovesWell(c)
    BY DEF StatusMovesWell
  <2>1. PICK o \in Requests : Act(o)
    BY <1>1, SomeoneActs DEF TripEnds, vars, tables, campaignRows
  <2> QED
    BY <1>1, <2>1, StatusMovesOn DEF OverlapInv
<1> QED
  BY <1>1, OverlapInvariance, PTL DEF Spec, StatusFollowsLifecycle, StatusMovesWell
=============================================================================
