----------------------------- MODULE MCCampaigns -----------------------------
(***************************************************************************)
(* The loads under which TLC checks Campaigns.                             *)
(***************************************************************************)
EXTENDS CampaignProperties, TLC

CONSTANTS c1, c2,             \* campaigns
          r1, r2, r3, r4, r5  \* calls

Only(op) == [op |-> op]
To(op, c) == [op |-> op, campaign |-> c]
Transition(c, s) == [op |-> "transition", campaign |-> c, to |-> s]
Removal(c, mine) == [op |-> "remove", campaign |-> c, own |-> mine]
Change(c, mine, n) ==
  [op |-> "update", campaign |-> c, own |-> mine, goal |-> n, postpone |-> TRUE]
Verify(c, v) == [op |-> "verify", campaign |-> c, verdict |-> v]
Kyc(v) == [op |-> "kyc", verdict |-> v]
ExpiryJob(w) == [op |-> "expiryJob", worker |-> w]
MilestoneJob(w, c) == [op |-> "milestoneJob", worker |-> w, campaign |-> c]

Load(x1, x2, x3, x4, x5) == r1 :> x1 @@ r2 :> x2 @@ r3 :> x3 @@ r4 :> x4 @@ r5 :> x5

(* Identity and campaigns are reviewed, by several administrators. *)
Reviewing ==
  Load({Verify(c1, "verified"), Kyc("verified")},
       {Verify(c1, "rejected"), Kyc("rejected")},
       {Only("assign"), To("flag", c1), Only("submit")},
       {Verify(c1, "verified"), Verify(c2, "flagged"), Only("revoke")},
       {})

Unflagging ==
  Load({Verify(c1, "verified")},
       {To("flag", c1), Kyc("flagged")},
       {To("unflag", c1), Verify(c1, "pending_review")},
       {Verify(c1, "verified"), Only("assign")},
       {})

(* Two campaigns end, are funded, flagged and moved on. *)
Ending ==
  Load({To("donate", c1), To("flag", c1)},
       {Only("sweep"), ExpiryJob("expiry"), MilestoneJob("expiry", c1)},
       {Transition(c1, "completed"), Transition(c1, "canceled")},
       {Removal(c1, TRUE), Transition(c1, "active"), Change(c1, TRUE, 3)},
       {})

Reviving ==
  Load({Transition(c1, "completed"), To("flag", c1)},
       {Only("sweep"), ExpiryJob("expiry"), ExpiryJob("milestone")},
       {To("unflag", c1), Transition(c1, "expired"), Removal(c2, FALSE)},
       {ExpiryJob("expiry"), Removal(c2, TRUE)},
       {})

(* Donations arrive while the milestones are looked at. *)
Funding ==
  Load({To("donate", c1)},
       {To("purchase", c1), Change(c1, TRUE, 1)},
       {MilestoneJob("milestone", c1), Removal(c1, TRUE)},
       {MilestoneJob("milestone", c1), To("donate", c1)},
       {Change(c1, FALSE, 1), To("purchase", c1)})

MCScript ==
  "reviewing" :> Reviewing @@ "unflagging" :> Unflagging @@ "ending" :> Ending
  @@ "reviving" :> Reviving @@ "funding" :> Funding

MCLoads == DOMAIN MCScript

(* The load in which a campaign reaches several milestones.                *)
FundingScript == "funding" :> Funding

MCAtOnce == [l \in Loads |-> 2]

MCMayEnd ==
  [l \in Loads |-> IF Script[l] \in {Ending, Reviving} THEN {c1, c2} ELSE {}]

(* A creator comes with or without a profile where it is reviewed. *)
MCBefore ==
  [l \in Loads |->
    IF Script[l] \in {Reviewing, Unflagging}
    THEN [goal : {c1 :> 3 @@ c2 :> 3}, profile : {None, NewProfile}]
    ELSE {[goal |-> IF Script[l] = Funding THEN c1 :> 3 @@ c2 :> 3
                    ELSE c1 :> 1 @@ c2 :> 3,
           profile |-> NewProfile]}]
=============================================================================
