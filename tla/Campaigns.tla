------------------------------ MODULE Campaigns ------------------------------
(***************************************************************************)
(* The campaigns of one creator, as CampaignsService,                      *)
(* CampaignLifecycleService and the two processors of the campaigns queue  *)
(* (src/src/modules/campaigns) change them, with the creator's identity    *)
(* review (UsersService) and badge (VerifiedBadgesService).                *)
(*                                                                         *)
(* Campaigns are public. A donation is its check and the statement that    *)
(* raises the campaign; Wallet has the rest of it. Photos, audit records   *)
(* and best-effort notifications are left out.                             *)
(***************************************************************************)
EXTENDS HttpCalls

CONSTANTS
  CampaignIds,
  Goals,       \* the goals a campaign may have, of which a donation is one
  MaxRaised,   \* bound on the donations to a campaign
  MayEnd,      \* under each load, the campaigns whose trip may come to its end
  Before       \* the goals and the creator's profile there may be before a load

Statuses == {"draft", "active", "funded", "expired", "canceled", "flagged",
             "under_review", "booked", "completed"}
Verdicts == {"unverified", "pending_review", "verified", "flagged", "rejected"}
Refusals == {"flagged", "rejected"}

(* The milestones, and the percentage of each.                             *)
Threshold == [p25 |-> 25, p50 |-> 50, p100 |-> 100]

(* A job goes to any worker of the queue, whichever job it is.             *)
CampaignCalls ==
  [op : {"sweep", "submit", "assign", "revoke"}]
    \cup [op : {"transition"}, campaign : CampaignIds, to : Statuses]
    \cup [op : {"flag", "unflag", "donate", "purchase"}, campaign : CampaignIds]
    \cup [op : {"remove"}, campaign : CampaignIds, own : BOOLEAN]
    \cup [op : {"update"}, campaign : CampaignIds, own : BOOLEAN, goal : Goals,
          postpone : BOOLEAN]
    \cup [op : {"verify"}, campaign : CampaignIds, verdict : Verdicts]
    \cup [op : {"kyc"}, verdict : Verdicts]
    \cup [op : {"expiryJob"}, worker : {"expiry", "milestone"}]
    \cup [op : {"milestoneJob"}, worker : {"expiry", "milestone"}, campaign : CampaignIds]

Profiles == [identityVerified : BOOLEAN, verificationStatus : Verdicts]
NewProfile == [identityVerified |-> FALSE, verificationStatus |-> "unverified"]

ASSUME CampaignsAssumption ==
  /\ Goals \subseteq Nat \ {0}
  /\ MaxRaised \in Nat
  /\ MayEnd \in [Loads -> SUBSET CampaignIds]
  /\ Before \in [Loads -> SUBSET [goal : [CampaignIds -> Goals],
                                  profile : {NewProfile, None}]]
  /\ \A l \in Loads, r \in Requests : Script[l][r] \subseteq CampaignCalls

ASSUME NoneAssumption == None \notin CampaignCalls \cup Profiles \cup DOMAIN Threshold

VARIABLES
  status, goal, raised,  \* of each campaign
  ended,                 \* campaigns whose trip_end_date has passed
  deleted,               \* campaigns with deleted_at
  verification,          \* verification_status of each campaign
  marked,                \* campaigns with verified_badge_assigned_at
  profile,               \* the creator's traveler profile
  badge,                 \* the creator's row in verified_badges
  milestoneLog,          \* milestone_notification_logs, by campaign
  notices,               \* how often each milestone was notified
  plan,                  \* the updates a call still has to make
  reached,               \* the milestones a job found reached and has not looked at
  swallowed              \* calls that went on after a failed badge query

campaignRows == <<status, goal, raised, ended, deleted>>
reviewRows == <<verification, marked, profile, badge>>
milestoneRows == <<milestoneLog, notices>>
local == <<plan, reached, swallowed>>
tables == <<campaignRows, reviewRows, milestoneRows, local>>
vars == <<calls, tables>>

CampaignSteps ==
  {"readStatus", "writeStatus", "listActive", "listExpired", "applyPlan",
   "findCampaign", "judge", "findOwned", "softDelete", "writeDetails",
   "findVisible", "raise", "findForReview", "upsertProfile", "updateProfile",
   "findBadge", "createBadge", "findActiveBadge", "revokeBadge",
   "writeVerification", "findProfile", "writeKyc", "submitKyc",
   "readFunding", "checkMilestone", "logMilestone"}

Init ==
  /\ CallsInit
  /\ status = [c \in CampaignIds |-> "active"]
  /\ \E before \in Before[load] : goal = before.goal /\ profile = before.profile
  /\ raised = [c \in CampaignIds |-> 0]
  /\ ended = {}
  /\ deleted = {}
  /\ verification = [c \in CampaignIds |-> "unverified"]
  /\ marked = {}
  /\ badge = "none"
  /\ milestoneLog = [c \in CampaignIds |-> None]
  /\ notices = [c \in CampaignIds |-> [m \in DOMAIN Threshold |-> 0]]
  /\ plan = [r \in Requests |-> {}]
  /\ reached = [r \in Requests |-> {}]
  /\ swallowed = {}

ValidTransitions ==
  [draft |-> {"active"},
   active |-> {"funded", "expired", "canceled", "booked", "flagged"},
   funded |-> {"booked", "completed"}, expired |-> {"completed"},
   canceled |-> {}, flagged |-> {}, under_review |-> {"active", "flagged", "canceled"},
   booked |-> {"completed"}, completed |-> {}]

(* The milestone worker looks up the campaign of a job that has none, which*)
(* throws; the expiry worker does not look at the job at all.              *)
FirstCampaignStep(c) ==
  CASE c.op = "transition" -> "readStatus"
    [] c.op = "sweep" -> "listActive"
    [] c.op \in {"flag", "unflag"} -> "findCampaign"
    [] c.op \in {"remove", "update"} -> "findOwned"
    [] c.op = "donate" -> "findVisible"
    [] c.op = "purchase" -> "raise"
    [] c.op = "verify" -> "findForReview"
    [] c.op \in {"kyc", "submit"} -> "findProfile"
    [] c.op = "assign" -> "findBadge"
    [] c.op = "revoke" -> "revokeBadge"
    [] OTHER -> IF c.worker = "expiry" THEN "listExpired"
                ELSE IF c.op = "milestoneJob" THEN "readFunding" ELSE "failed"

Receive(r) ==
  /\ Begin(r, CampaignCalls) /\ StartAt(r, FirstCampaignStep(call'[r]))
  /\ UNCHANGED tables

-----------------------------------------------------------------------------
(* CampaignLifecycleService and the expiry processor.                      *)

ReadStatus(r) ==
  LET from == status[call[r].campaign] IN
  /\ pc[r] = "readStatus"
  /\ Goto(r, IF from = call[r].to THEN "ok"
             ELSE IF call[r].to \in ValidTransitions[from] THEN "writeStatus"
             ELSE "failed")
  /\ UNCHANGED tables

WriteStatus(r) ==
  /\ pc[r] = "writeStatus"
  /\ status' = [status EXCEPT ![call[r].campaign] = call[r].to]
  /\ Goto(r, "ok")
  /\ UNCHANGED <<goal, raised, ended, deleted, reviewRows, milestoneRows, local>>

(* checkAndTransitionCampaigns decides by one reading of all campaigns.    *)
ListActive(r) ==
  LET active == {c \in CampaignIds : status[c] = "active"} IN
  /\ pc[r] = "listActive"
  /\ plan' = [plan EXCEPT ![r] =
       {<<c, "funded">> : c \in {x \in active : raised[x] >= goal[x]}}
       \cup {<<c, "expired">> : c \in {x \in active \cap ended : raised[x] < goal[x]}}]
  /\ Goto(r, "applyPlan")
  /\ UNCHANGED <<campaignRows, reviewRows, milestoneRows, reached, swallowed>>

(* Fault: the status of a campaign is not asked for.                       *)
ExpirableInAnyStatus == ended \ deleted

Expirable == {c \in ended \ deleted : status[c] = "active"}

ListExpired(r) ==
  /\ pc[r] = "listExpired"
  /\ plan' = [plan EXCEPT ![r] = Expirable \X {"expired"}]
  /\ Goto(r, "applyPlan")
  /\ UNCHANGED <<campaignRows, reviewRows, milestoneRows, reached, swallowed>>

(* One campaign after another is updated by its id alone.                  *)
ApplyPlan(r) ==
  /\ pc[r] = "applyPlan"
  /\ \/ \E update \in plan[r] :
          /\ status' = [status EXCEPT ![update[1]] = update[2]]
          /\ plan' = [plan EXCEPT ![r] = @ \ {update}]
          /\ UNCHANGED calls
     \/ plan[r] = {} /\ Goto(r, "ok") /\ UNCHANGED <<status, plan>>
  /\ UNCHANGED <<goal, raised, ended, deleted, reviewRows, milestoneRows, reached,
                 swallowed>>

-----------------------------------------------------------------------------
(* CampaignsService.                                                       *)

FindCampaign(r) ==
  /\ pc[r] = "findCampaign"
  /\ Goto(r, IF call[r].campaign \in deleted THEN "failed" ELSE "judge")
  /\ UNCHANGED tables

(* flagCampaign and unflagCampaign do not look at the status there was.    *)
Judge(r) ==
  LET c == call[r].campaign
      flag == call[r].op = "flag"
  IN /\ pc[r] = "judge"
     /\ status' = [status EXCEPT ![c] = IF flag THEN "flagged" ELSE "active"]
     /\ verification' = [verification EXCEPT ![c] = IF flag THEN "flagged" ELSE "unverified"]
     /\ marked' = marked \ {c}
     /\ Goto(r, "ok")
     /\ UNCHANGED <<goal, raised, ended, deleted, profile, badge, milestoneRows, local>>

FindOwned(r) ==
  /\ pc[r] = "findOwned"
  /\ Goto(r, IF ~call[r].own THEN "failed"
             ELSE IF call[r].op = "remove" THEN "softDelete" ELSE "writeDetails")
  /\ UNCHANGED tables

SoftDelete(r) ==
  /\ pc[r] = "softDelete"
  /\ deleted' = deleted \cup {call[r].campaign}
  /\ Goto(r, "ok")
  /\ UNCHANGED <<status, goal, raised, ended, reviewRows, milestoneRows, local>>

(* The goal may change at any time, and so may the end of the trip.        *)
WriteDetails(r) ==
  LET c == call[r].campaign IN
  /\ pc[r] = "writeDetails"
  /\ goal' = [goal EXCEPT ![c] = call[r].goal]
  /\ ended' = IF call[r].postpone THEN ended \ {c} ELSE ended
  /\ Goto(r, "ok")
  /\ UNCHANGED <<status, raised, deleted, reviewRows, milestoneRows, local>>

(* manualDonate; a purchase in a store goes on without this check.         *)
FindVisible(r) ==
  /\ pc[r] = "findVisible"
  /\ Goto(r, IF call[r].campaign \in deleted THEN "failed" ELSE "raise")
  /\ UNCHANGED tables

(* recordDonation looks at neither deleted_at nor the status.              *)
Raise(r) ==
  LET c == call[r].campaign IN
  /\ pc[r] = "raise"
  /\ raised[c] < MaxRaised
  /\ raised' = [raised EXCEPT ![c] = @ + 1]
  /\ Goto(r, "ok")
  /\ UNCHANGED <<status, goal, ended, deleted, reviewRows, milestoneRows, local>>

-----------------------------------------------------------------------------
(* Reviews: updateVerificationStatus of a campaign, and verifyKyc.         *)

ReviewStep(verdict) ==
  CASE verdict = "verified"   -> "upsertProfile"
    [] verdict \in Refusals   -> "updateProfile"
    [] OTHER                  -> "writeVerification"

FindForReview(r) ==
  /\ pc[r] = "findForReview"
  /\ Goto(r, ReviewStep(call[r].verdict))
  /\ UNCHANGED tables

UpsertProfile(r) ==
  /\ pc[r] = "upsertProfile"
  /\ profile' = [identityVerified |-> TRUE, verificationStatus |-> "verified"]
  /\ Goto(r, "findBadge")
  /\ UNCHANGED <<campaignRows, verification, marked, badge, milestoneRows, local>>

(* A creator without a profile cannot be refused.                          *)
UpdateProfile(r) ==
  /\ pc[r] = "updateProfile"
  /\ IF profile = None
     THEN Goto(r, "failed") /\ UNCHANGED profile
     ELSE /\ profile' = [identityVerified |-> FALSE,
                         verificationStatus |-> call[r].verdict]
          /\ Goto(r, "findActiveBadge")
  /\ UNCHANGED <<campaignRows, verification, marked, badge, milestoneRows, local>>

(* Where a call goes when its work on the badge has ended.                 *)
AfterBadge(r) == IF call[r].op = "verify" THEN "writeVerification" ELSE "ok"

(* assign refuses a second badge; for a campaign that is not an error.     *)
Refused(r) == IF call[r].op = "verify" THEN "writeVerification" ELSE "failed"

FindBadge(r) ==
  /\ pc[r] = "findBadge"
  /\ Goto(r, IF badge = "active" THEN Refused(r) ELSE "createBadge")
  /\ UNCHANGED tables

(* The unique index on the subject counts a revoked badge as well.         *)
CreateBadge(r) ==
  /\ pc[r] = "createBadge"
  /\ IF badge = "none"
     THEN badge' = "active" /\ Goto(r, AfterBadge(r))
     ELSE Goto(r, Refused(r)) /\ UNCHANGED badge
  /\ UNCHANGED <<campaignRows, verification, marked, profile, milestoneRows, local>>

FindActiveBadge(r) ==
  /\ pc[r] = "findActiveBadge"
  /\ Goto(r, IF badge = "active" THEN "revokeBadge" ELSE AfterBadge(r))
  /\ UNCHANGED tables

(* Fault: the badge that was found is not revoked.                         *)
RevokeNothing(r) ==
  /\ pc[r] = "revokeBadge"
  /\ Goto(r, AfterBadge(r))
  /\ UNCHANGED tables

RevokeBadge(r) ==
  /\ pc[r] = "revokeBadge"
  /\ IF badge = "none"
     THEN Goto(r, "failed") /\ UNCHANGED badge
     ELSE badge' = "revoked" /\ Goto(r, AfterBadge(r))
  /\ UNCHANGED <<campaignRows, verification, marked, profile, milestoneRows, local>>

(* A review goes on when a query of the badge fails.                       *)
SwallowBadgeError(r) ==
  /\ pc[r] \in {"findBadge", "createBadge", "findActiveBadge", "revokeBadge"}
  /\ call[r].op \in {"verify", "kyc"}
  /\ swallowed' = swallowed \cup {r}
  /\ Goto(r, AfterBadge(r))
  /\ UNCHANGED <<campaignRows, reviewRows, milestoneRows, plan, reached>>

WriteVerification(r) ==
  LET c == call[r].campaign
      verdict == call[r].verdict
  IN /\ pc[r] = "writeVerification"
     /\ verification' = [verification EXCEPT ![c] = verdict]
     /\ marked' = IF verdict = "verified" THEN marked \cup {c}
                  ELSE IF verdict \in Refusals THEN marked \ {c} ELSE marked
     /\ Goto(r, "ok")
     /\ UNCHANGED <<campaignRows, profile, badge, milestoneRows, local>>

FindProfile(r) ==
  /\ pc[r] = "findProfile"
  /\ Goto(r, IF profile = None THEN "failed"
             ELSE IF call[r].op = "kyc" THEN "writeKyc" ELSE "submitKyc")
  /\ UNCHANGED tables

(* Fault: an identity that was verified stays so.                          *)
WriteKycStatusOnly(r) ==
  /\ pc[r] = "writeKyc"
  /\ profile' = [identityVerified |-> profile.identityVerified
                                        \/ call[r].verdict = "verified",
                 verificationStatus |-> call[r].verdict]
  /\ Goto(r, IF call[r].verdict = "verified" THEN "ok" ELSE "findActiveBadge")
  /\ UNCHANGED <<campaignRows, verification, marked, badge, milestoneRows, local>>

WriteKyc(r) ==
  /\ pc[r] = "writeKyc"
  /\ profile' = [identityVerified |-> call[r].verdict = "verified",
                 verificationStatus |-> call[r].verdict]
  /\ Goto(r, IF call[r].verdict = "verified" THEN "ok" ELSE "findActiveBadge")
  /\ UNCHANGED <<campaignRows, verification, marked, badge, milestoneRows, local>>

(* Who submits documents again keeps a verified identity for the time.     *)
SubmitKyc(r) ==
  /\ pc[r] = "submitKyc"
  /\ profile' = [profile EXCEPT !.verificationStatus = "pending_review"]
  /\ Goto(r, "ok")
  /\ UNCHANGED <<campaignRows, verification, marked, badge, milestoneRows, local>>

-----------------------------------------------------------------------------
(* The milestone processor.                                                *)

IsReached(c, m) == 100 * raised[c] >= Threshold[m] * goal[c]

(* The funding is read once, for all milestones. *)
ReadFunding(r) ==
  /\ pc[r] = "readFunding"
  /\ reached' = [reached EXCEPT ![r] =
       {m \in DOMAIN Threshold : IsReached(call[r].campaign, m)}]
  /\ Goto(r, "checkMilestone")
  /\ UNCHANGED <<campaignRows, reviewRows, milestoneRows, plan, swallowed>>

(* The milestone a job looks at is the lowest one that is left.            *)
Lowest(r) == {m \in reached[r] : \A n \in reached[r] : Threshold[m] <= Threshold[n]}

CheckMilestone(r) ==
  /\ pc[r] = "checkMilestone"
  /\ \/ reached[r] = {} /\ Goto(r, "ok") /\ UNCHANGED reached
     \/ \E m \in Lowest(r) :
          IF milestoneLog[call[r].campaign] = m
          THEN reached' = [reached EXCEPT ![r] = @ \ {m}] /\ UNCHANGED calls
          ELSE Goto(r, "logMilestone") /\ UNCHANGED reached
  /\ UNCHANGED <<campaignRows, reviewRows, milestoneRows, plan, swallowed>>

(* Fault: the log has no primary key, and keeps the last milestone.        *)
LogIsOpen(c) == TRUE

(* The primary key of the log is the campaign.                             *)
LogHasRoom(c) == milestoneLog[c] = None

(* The log row and the notification are written in one transaction.        *)
LogMilestone(r) ==
  LET c == call[r].campaign IN
  /\ pc[r] = "logMilestone"
  /\ \/ \E m \in Lowest(r) :
          /\ LogHasRoom(c)
          /\ milestoneLog' = [milestoneLog EXCEPT ![c] = m]
          /\ notices' = [notices EXCEPT ![c][m] = @ + 1]
          /\ reached' = [reached EXCEPT ![r] = @ \ {m}]
          /\ Goto(r, "checkMilestone")
     \/ ~LogHasRoom(c) /\ Goto(r, "failed") /\ UNCHANGED <<milestoneRows, reached>>
  /\ UNCHANGED <<campaignRows, reviewRows, plan, swallowed>>

-----------------------------------------------------------------------------
(* Time passes. *)
TripEnds(c) ==
  /\ c \in MayEnd[load] \ ended
  /\ ended' = ended \cup {c}
  /\ UNCHANGED <<calls, status, goal, raised, deleted, reviewRows, milestoneRows, local>>

(* A crash or a failed query. *)
Fail(r) == Break(r) /\ UNCHANGED tables

Done == AllAnswered /\ UNCHANGED vars

Act(r) ==
  \/ Receive(r) \/ ReadStatus(r) \/ WriteStatus(r) \/ ListActive(r)
  \/ ListExpired(r) \/ ApplyPlan(r) \/ FindCampaign(r) \/ Judge(r)
  \/ FindOwned(r) \/ SoftDelete(r) \/ WriteDetails(r) \/ FindVisible(r)
  \/ Raise(r) \/ FindForReview(r) \/ UpsertProfile(r) \/ UpdateProfile(r)
  \/ FindBadge(r) \/ CreateBadge(r) \/ FindActiveBadge(r) \/ RevokeBadge(r)
  \/ SwallowBadgeError(r) \/ WriteVerification(r) \/ FindProfile(r)
  \/ WriteKyc(r) \/ SubmitKyc(r) \/ ReadFunding(r) \/ CheckMilestone(r)
  \/ LogMilestone(r) \/ Fail(r)

Next == Done \/ (\E c \in CampaignIds : TripEnds(c)) \/ (\E r \in Requests : Act(r))

Spec == Init /\ [][Next]_vars
=============================================================================
