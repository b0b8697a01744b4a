------------------------- MODULE CampaignProperties -------------------------
(***************************************************************************)
(* What Campaigns is checked against, for calls and jobs that overlap and  *)
(* break off anywhere. Where those that are served at the same time spoil  *)
(* a promise, the property names them: Rivals(r) are the calls that were   *)
(* not over when r was received.                                           *)
(***************************************************************************)
EXTENDS Campaigns

CallTypes ==
  /\ load \in Loads
  /\ pc \in [Requests -> {"idle"} \cup Answered \cup CampaignSteps]
  /\ call \in [Requests -> CampaignCalls \cup {None}]

TableTypes ==
  /\ status \in [CampaignIds -> Statuses]
  /\ goal \in [CampaignIds -> Goals]
  /\ raised \in [CampaignIds -> 0..MaxRaised]
  /\ ended \cup deleted \cup marked \subseteq CampaignIds
  /\ verification \in [CampaignIds -> Verdicts]
  /\ profile \in Profiles \cup {None}
  /\ badge \in {"none", "active", "revoked"}
  /\ milestoneLog \in [CampaignIds -> DOMAIN Threshold \cup {None}]
  /\ notices \in [CampaignIds -> [DOMAIN Threshold -> Nat]]
  /\ plan \in [Requests -> SUBSET (CampaignIds \X {"funded", "expired"})]
  /\ reached \in [Requests -> SUBSET DOMAIN Threshold]
  /\ swallowed \subseteq Requests

(* Every variable holds a value of its kind; the jobs plan no update but   *)
(* to funded and to expired.                                               *)
TypeOK == CallTypes /\ TableTypes

(* The creator hears of each milestone once at most, though jobs of the    *)
(* same campaign overlap, each having looked before the other has logged.  *)
MilestoneSentOnce ==
  \A c \in CampaignIds, m \in DOMAIN Threshold : notices[c][m] <= 1

(* An identity counts as verified only while it was, or while documents    *)
(* are being reviewed again: no refusal by any of the two reviews leaves   *)
(* a creator who may make high-value withdrawals.                          *)
IdentityIsReviewed ==
  profile # None /\ profile.identityVerified =>
    profile.verificationStatus \in {"verified", "pending_review"}

(* A campaign that was flagged or rejected does not show as verified.      *)
MarkedIsNotRefused == \A c \in marked : verification[c] \notin Refusals

(* When a review has refused the creator, he holds no badge: unless a      *)
(* failed query of the badge was ignored, or someone was about to give him *)
(* the badge at the same time.                                             *)
GivesBadge(c) == c.op = "assign" \/ (c.op = "verify" /\ c.verdict = "verified")

RefusalTakesBadge ==
  [][\A r \in Requests \ swallowed' :
       /\ pc[r] \in CampaignSteps /\ pc'[r] = "ok"
       /\ call[r].op \in {"verify", "kyc"} /\ call[r].verdict \in Refusals
       => badge' # "active" \/ \E o \in Rivals(r) : GivesBadge(call[o])]_vars

(* The calls that may write the status of a campaign.                      *)
MovesStatus(k, c) ==
  \/ /\ k.op \in {"transition", "flag", "unflag"}
     /\ k.campaign = c
  \/ k.op \in {"sweep", "expiryJob", "milestoneJob"}

Lifecycle(from, to) ==
  \/ to = "booked" /\ from \in {"active", "funded"}
  \/ to = "completed" /\ from \in {"funded", "expired", "booked"}
  \/ to \in {"funded", "expired", "canceled", "flagged"} /\ from = "active"

(* The status moves along the lifecycle, except that an administrator may  *)
(* flag any campaign, and may put any campaign back to active: a call that *)
(* writes anything else has been overtaken, and writes over what a call    *)
(* that was served at the same time has made of the same campaign.         *)
StatusFollowsLifecycle ==
  [][\A c \in CampaignIds :
       \/ status'[c] = status[c]
       \/ Lifecycle(status[c], status'[c])
       \/ \E r \in Requests :
            \/ /\ pc[r] = "judge" /\ call[r].campaign = c
               /\ status'[c] = IF call[r].op = "flag" THEN "flagged" ELSE "active"
            \/ /\ pc[r] \in {"writeStatus", "applyPlan"} /\ MovesStatus(call[r], c)
               /\ \E o \in Rivals(r) : MovesStatus(call[o], c)]_vars

(* A milestone that was reached and is not in the log can be logged, and   *)
(* so notified, where no other call or job is under way.                   *)
MilestoneCanBeLogged ==
  \A r \in Requests :
    pc[r] = "logMilestone" /\ Rivals(r) = {} => LogHasRoom(call[r].campaign)

-----------------------------------------------------------------------------
(* Why the invariants hold: what each call may rely on at its step, in     *)
(* every state.                                                            *)
StepsOf(op) ==
  CASE op = "transition"          -> {"readStatus", "writeStatus"}
    [] op = "sweep"               -> {"listActive", "applyPlan"}
    [] op \in {"flag", "unflag"}  -> {"findCampaign", "judge"}
    [] op = "remove"              -> {"findOwned", "softDelete"}
    [] op = "update"              -> {"findOwned", "writeDetails"}
    [] op \in {"donate", "purchase"} -> {"findVisible", "raise"}
    [] op = "verify"              -> {"findForReview", "upsertProfile", "updateProfile",
                                      "findBadge", "createBadge", "findActiveBadge",
                                      "revokeBadge", "writeVerification"}
    [] op = "kyc"                 -> {"findProfile", "writeKyc", "findActiveBadge",
                                      "revokeBadge"}
    [] op = "submit"              -> {"findProfile", "submitKyc"}
    [] op = "assign"              -> {"findBadge", "createBadge"}
    [] op = "revoke"              -> {"revokeBadge"}
    [] op = "expiryJob"           -> {"listExpired", "applyPlan"}
    [] op = "milestoneJob"        -> {"listExpired", "applyPlan", "readFunding",
                                      "checkMilestone", "logMilestone"}

(* A call is at a step of its own operation.                               *)
AtStepOfCall ==
  \A r \in Requests : pc[r] # "idle" =>
    call[r] \in CampaignCalls /\ pc[r] \in StepsOf(call[r].op) \cup Answered

(* A profile that was found is there when it is written.                   *)
ProfileWasFound ==
  \A r \in Requests : pc[r] \in {"writeKyc", "submitKyc"} => profile # None

(* The milestone in the log was notified, once, and no other one was.      *)
LogTellsNotices ==
  \A c \in CampaignIds, m \in DOMAIN Threshold :
    notices[c][m] = IF milestoneLog[c] = m THEN 1 ELSE 0

IInv == /\ TypeOK
        /\ AtStepOfCall
        /\ ProfileWasFound
        /\ LogTellsNotices
        /\ IdentityIsReviewed
        /\ MarkedIsNotRefused
=============================================================================
