---------------------------- MODULE MarketProofs ----------------------------
(***************************************************************************)
(* Proofs about Marketplace, for any number of agencies, calls and loads:  *)
(* an agency keeps the owner who registered it. The check that spares the  *)
(* row of the owner and the write that follows it are two steps, so the    *)
(* proof is about which rows a call may be about to write. Then the types  *)
(* of all variables, and what calls may rely on however they overlap:      *)
(* Overlap says what each has read that still holds, or which other call,  *)
(* served at the same time, has changed it.                                *)
(***************************************************************************)
EXTENDS MarketProperties, Overlaps, ProofLemmas

(* The rows of owners are those of the agencies there are.                 *)
OwnersHaveRows ==
  \A a \in AgencyAccounts : staff[a] = IF agencies[a] = None THEN None ELSE OwnerRow(a)

(* No call is about to write the row of an owner, and a decision is about  *)
(* an agency that is there.                                                *)
Knows(r) ==
  /\ pc[r] \in {"writeStaff", "deleteStaff"} => call[r].row \notin AgencyAccounts
  /\ \A a \in AgencyAccounts : pc[r] = "decide" /\ call[r].agency = a => agencies[a] # None

IInv ==
  /\ DOMAIN pc = Requests /\ DOMAIN call = Requests
  /\ DOMAIN agencies = AgencyAccounts /\ DOMAIN staff = StaffIds
  /\ OwnersHaveRows
  /\ \A r \in Requests : Knows(r)

-----------------------------------------------------------------------------
Held == {"writeStaff", "deleteStaff", "decide"}

(* A step of a call moves that call only, and to none of these steps.      *)
Elsewhere(r) ==
  /\ DOMAIN pc' = Requests /\ DOMAIN call' = Requests
  /\ \A o \in Requests \ {r} : pc'[o] = pc[o] /\ call'[o] = call[o]
  /\ pc'[r] \in Held => pc'[r] = pc[r] /\ call'[r] = call[r]

(* Reviews.                                                                *)
LEMMA ReviewsElsewhere ==
  ASSUME IInv, NEW r \in Requests, ReviewStep(r)
  PROVE  Elsewhere(r)
<1> USE DEF IInv, Goto, Elsewhere, Held, Answered, calls
<1>1. CASE ReceiveReview(r)
  BY <1>1 DEF ReceiveReview, Begin, StartAt
<1>2. CASE FindReviewed(r)
  BY <1>2 DEF FindReviewed
<1>3. CASE FindReview(r)
  BY <1>3 DEF FindReview
<1>4. CASE CreateReview(r)
  BY <1>4 DEF CreateReview
<1>5. CASE FindOwnReview(r)
  BY <1>5 DEF FindOwnReview
<1>6. CASE WriteReview(r)
  BY <1>6 DEF WriteReview
<1>7. CASE DeleteReview(r)
  BY <1>7 DEF DeleteReview
<1>8. CASE Aggregate(r)
  BY <1>8 DEF Aggregate
<1>9. CASE StoreScore(r)
  BY <1>9 DEF StoreScore
<1> QED
  BY <1>1, <1>2, <1>3, <1>4, <1>5, <1>6, <1>7, <1>8, <1>9 DEF ReviewStep

(* Invites.                                                                *)
LEMMA InvitesElsewhere ==
  ASSUME IInv, NEW r \in Requests, InviteStep(r)
  PROVE  Elsewhere(r)
<1> USE DEF IInv, Goto, Elsewhere, Held, Answered, calls
<1>1. CASE ReceiveInvite(r)
  BY <1>1 DEF ReceiveInvite, Begin, StartAt
<1>2. CASE CheckPlatformRole(r)
  BY <1>2 DEF CheckPlatformRole
<1>3. CASE CreateInvite(r)
  BY <1>3 DEF CreateInvite
<1>4. CASE MailInvite(r)
  BY <1>4 DEF MailInvite
<1>5. CASE FindInvite(r)
  BY <1>5 DEF FindInvite
<1>6. CASE RevokeInvite(r)
  BY <1>6 DEF RevokeInvite
<1>7. CASE AcceptInvite(r)
  BY <1>7 DEF AcceptInvite
<1>8. CASE GrantRole(r)
  BY <1>8 DEF GrantRole
<1> QED
  BY <1>1, <1>2, <1>3, <1>4, <1>5, <1>6, <1>7, <1>8 DEF InviteStep

(* Media.                                                                  *)
LEMMA MediaElsewhere ==
  ASSUME IInv, NEW r \in Requests, MediaStep(r)
  PROVE  Elsewhere(r)
<1> USE DEF IInv, Goto, Elsewhere, Held, Answered, calls
<1>1. CASE ReceiveMedia(r)
  BY <1>1 DEF ReceiveMedia, FirstMediaStep, Begin, StartAt
<1>2. CASE CreateAsset(r)
  BY <1>2 DEF CreateAsset
<1>3. CASE Put(r)
  BY <1>3 DEF Put
<1>4. CASE FindAsset(r)
  BY <1>4 DEF FindAsset
<1>5. CASE Stat(r)
  BY <1>5 DEF Stat
<1>6. CASE DropBad(r)
  BY <1>6 DEF DropBad
<1>7. CASE MarkBad(r)
  BY <1>7 DEF MarkBad
<1>8. CASE MarkUploaded(r)
  BY <1>8 DEF MarkUploaded
<1>9. CASE DropFile(r)
  BY <1>9 DEF DropFile
<1>10. CASE MarkDeleted(r)
  BY <1>10 DEF MarkDeleted
<1>11. CASE Cleaned(r)
  BY <1>11 DEF Cleaned
<1> QED
  BY <1>1, <1>2, <1>3, <1>4, <1>5, <1>6, <1>7, <1>8, <1>9, <1>10, <1>11 DEF MediaStep

(* Packages.                                                               *)
LEMMA PackagesElsewhere ==
  ASSUME IInv, NEW r \in Requests, PackageStep(r)
  PROVE  Elsewhere(r)
<1> USE DEF IInv, Goto, Elsewhere, Held, Answered, calls
<1>1. CASE ReceivePackage(r)
  BY <1>1 DEF ReceivePackage, FirstPackageStep, Begin, StartAt
<1>2. CASE FindApproved(r)
  BY <1>2 DEF FindApproved
<1>3. CASE CreatePackage(r)
  BY <1>3 DEF CreatePackage
<1>4. CASE FindOwned(r)
  BY <1>4 DEF FindOwned
<1>5. CASE UpdatePackage(r)
  BY <1>5 DEF UpdatePackage
<1>6. CASE ReadMedia(r)
  BY <1>6 DEF ReadMedia
<1>7. CASE DeletePackage(r)
  BY <1>7 DEF DeletePackage
<1>8. CASE CleanUpOrphans(r)
  BY <1>8 DEF CleanUpOrphans, CleanUp
<1>9. CASE FindActive(r)
  BY <1>9 DEF FindActive
<1>10. CASE FindCampaign(r)
  BY <1>10 DEF FindCampaign
<1>11. CASE FindLink(r)
  BY <1>11 DEF FindLink
<1>12. CASE CreateLink(r)
  BY <1>12 DEF CreateLink
<1>13. CASE DeleteLink(r)
  BY <1>13 DEF DeleteLink
<1> QED
  BY <1>1, <1>2, <1>3, <1>4, <1>5, <1>6, <1>7, <1>8, <1>9, <1>10, <1>11, <1>12, <1>13
     DEF PackageStep

(* What a step of a call leaves of what the calls rely on.                 *)
LEMMA CallsKnow ==
  ASSUME IInv, NEW r \in Requests, Elsewhere(r),
         \A a \in AgencyAccounts : agencies[a] # None => agencies'[a] # None,
         DOMAIN agencies' = AgencyAccounts
  PROVE  \A o \in Requests : Knows(o)'
BY DEF IInv, Knows, Elsewhere, Held

(* Steps that do not write the tables of agencies.                         *)
LEMMA NoAgencyStep ==
  ASSUME IInv, NEW r \in Requests, Elsewhere(r), UNCHANGED <<agencies, staff>>
  PROVE  IInv'
<1>1. \A o \in Requests : Knows(o)'
  BY CallsKnow DEF IInv
<1> QED
  BY <1>1 DEF IInv, OwnersHaveRows, Elsewhere

-----------------------------------------------------------------------------
(* Agencies and their staff.                                               *)
LEMMA AgencySteps1 ==
  ASSUME IInv, NEW r \in Requests,
         \/ ReceiveAgency(r) \/ FindAgency(r) \/ MailDecision(r) \/ FindBadge(r)
         \/ CreateBadge(r) \/ RevokeBadge(r) \/ Guard(r) \/ MailStaff(r)
  PROVE  IInv'
<1> USE DEF Goto, Held, Answered, calls, agencyTables
<1>1. UNCHANGED <<agencies, staff>>
  BY DEF ReceiveAgency, FindAgency, MailDecision, FindBadge, CreateBadge, RevokeBadge, Guard,
         MailStaff
<1>2. CASE ReceiveAgency(r)
  <2>1. Elsewhere(r)
    BY <1>2 DEF ReceiveAgency, FirstAgencyStep, Begin, StartAt, IInv, Elsewhere
  <2> QED
    BY <1>1, <2>1, NoAgencyStep
<1>3. CASE FindAgency(r) \/ MailDecision(r) \/ FindBadge(r)
  <2>1. Elsewhere(r)
    BY <1>3 DEF FindAgency, MailDecision, FindBadge, IInv, Elsewhere
  <2> QED
    BY <1>1, <2>1, NoAgencyStep
<1>4. CASE CreateBadge(r) \/ RevokeBadge(r) \/ Guard(r) \/ MailStaff(r)
  <2>1. Elsewhere(r)
    BY <1>4 DEF CreateBadge, RevokeBadge, Guard, MailStaff, IInv, Elsewhere
  <2> QED
    BY <1>1, <2>1, NoAgencyStep
<1> QED
  BY <1>2, <1>3, <1>4

(* An agency comes with the row of its owner.                              *)
LEMMA CreateAgencyStep ==
  ASSUME IInv, NEW r \in Requests, CreateAgency(r)
  PROVE  IInv'
<1> USE DEF CreateAgency, Goto
<1>1. Elsewhere(r)
  BY DEF IInv, Elsewhere, Held
<1>2. DOMAIN agencies' = AgencyAccounts /\ DOMAIN staff' = StaffIds
  BY DEF IInv
<1>3. \A a \in AgencyAccounts :
        \/ UNCHANGED <<agencies[a], staff[a]>>
        \/ agencies'[a] = "pending_verification" /\ staff'[a] = OwnerRow(a)
  BY DEF IInv, StaffIds
<1>4. "pending_verification" # None
  BY AgencyAssumption DEF Statuses
<1>5. OwnersHaveRows'
  BY <1>3, <1>4 DEF IInv, OwnersHaveRows
<1>6. \A o \in Requests : Knows(o)'
  BY <1>1, <1>2, <1>3, <1>4, CallsKnow
<1> QED
  BY <1>1, <1>2, <1>5, <1>6 DEF IInv, Elsewhere

(* The decision on an agency: it stays one.                                *)
LEMMA DecisionSteps ==
  ASSUME IInv, NEW r \in Requests, FindPendingAgency(r) \/ Decide(r)
  PROVE  IInv'
<1> USE DEF Goto
<1>0. "pending_verification" # None /\ "approved" # None /\ "rejected" # None
  BY AgencyAssumption DEF Statuses
<1>1. CASE FindPendingAgency(r)
  <2>1. UNCHANGED <<agencies, staff, call>>
    BY <1>1 DEF FindPendingAgency, agencyTables
  <2>2. \A o \in Requests : Knows(o)'
    BY <1>0, <1>1, <2>1 DEF IInv, Knows, FindPendingAgency
  <2>3. DOMAIN pc' = Requests
    BY <1>1 DEF IInv, FindPendingAgency
  <2> QED
    BY <2>1, <2>2, <2>3 DEF IInv, OwnersHaveRows
<1>2. CASE Decide(r)
  <2>1. Elsewhere(r) /\ UNCHANGED staff
    BY <1>2 DEF Decide, IInv, Elsewhere, Held
  <2>2. DOMAIN agencies' = AgencyAccounts
    BY <1>2 DEF Decide, IInv
  <2>3. \A a \in AgencyAccounts :
          \/ agencies'[a] = agencies[a]
          \/ agencies[a] # None /\ agencies'[a] # None
    <3> TAKE a \in AgencyAccounts
    <3>0. PICK status \in {"approved", "rejected"} :
            agencies' = [agencies EXCEPT ![call[r].agency] = status]
      BY <1>2 DEF Decide
    <3>1. CASE a = call[r].agency
      BY <1>0, <1>2, <3>0, <3>1 DEF Decide, IInv, Knows
    <3>2. CASE a # call[r].agency
      <4>1. agencies'[a] = agencies[a]
        BY <2>2, <3>0, <3>2 DEF IInv
      <4> QED
        BY <4>1
    <3> QED
      BY <3>1, <3>2
  <2>4. OwnersHaveRows'
    BY <2>1, <2>3 DEF IInv, OwnersHaveRows
  <2>5. \A o \in Requests : Knows(o)'
    BY <2>1, <2>2, <2>3, CallsKnow
  <2> QED
    BY <2>1, <2>2, <2>4, <2>5 DEF IInv, Elsewhere
<1> QED
  BY <1>1, <1>2

(* A row that may be written is found; it is not that of the owner.        *)
LEMMA FindStaffStep ==
  ASSUME IInv, NEW r \in Requests, FindStaff(r)
  PROVE  IInv'
<1> USE DEF Goto
<1>1. UNCHANGED <<agencies, staff, call>> /\ pc' = [pc EXCEPT ![r] = AfterStaff(call[r])]
  BY DEF FindStaff, agencyTables
<1>2. AfterStaff(call[r]) # "decide"
  BY DEF AfterStaff, StaffStep
<1>3. ASSUME AfterStaff(call[r]) \in {"writeStaff", "deleteStaff"}
      PROVE  call[r].row \notin AgencyAccounts
  <2>1. IsTarget(call[r]) /\ call[r].op # "resendInvite"
    BY <1>3 DEF AfterStaff, StaffStep
  <2>2. staff[call[r].row] # None /\ staff[call[r].row].agency # staff[call[r].row].user
    BY <2>1 DEF IsTarget
  <2> QED
    <3> SUFFICES ASSUME NEW a \in AgencyAccounts, call[r].row = a
                 PROVE  FALSE
      OBVIOUS
    <3>1. staff[a] = OwnerRow(a)
      BY <2>2 DEF IInv, OwnersHaveRows
    <3> QED
      BY <2>2, <3>1 DEF OwnerRow
<1>4. \A o \in Requests : Knows(o)'
  BY <1>1, <1>2, <1>3 DEF IInv, Knows
<1> QED
  BY <1>1, <1>4 DEF IInv, OwnersHaveRows

(* The rows that are written are not those of owners.                      *)
LEMMA StaffSteps ==
  ASSUME IInv, NEW r \in Requests, CreateStaff(r) \/ WriteStaff(r) \/ DeleteStaff(r)
  PROVE  IInv'
<1> USE DEF Goto
<1>1. UNCHANGED agencies /\ Elsewhere(r)
  BY DEF CreateStaff, WriteStaff, DeleteStaff, IInv, Elsewhere, Held
<1>2. DOMAIN staff' = StaffIds /\ \A a \in AgencyAccounts : staff'[a] = staff[a]
  <2>1. CASE CreateStaff(r)
    BY <2>1, AgencyAssumption DEF CreateStaff, IInv, StaffIds
  <2>2. CASE WriteStaff(r) \/ DeleteStaff(r)
    BY <2>2 DEF WriteStaff, DeleteStaff, IInv, Knows, StaffIds
  <2> QED
    BY <2>1, <2>2
<1>3. \A o \in Requests : Knows(o)'
  BY <1>1, CallsKnow DEF IInv
<1> QED
  BY <1>1, <1>2, <1>3 DEF IInv, OwnersHaveRows, Elsewhere

-----------------------------------------------------------------------------
(* Reviews, invites, packages and media do not come near the staff, and of *)
(* the staff only other rows are written.                                  *)
THEOREM Invariance == Spec => []IInv
<1>1. Init => IInv
  <2> SUFFICES ASSUME Init PROVE IInv
    OBVIOUS
  <2>1. DOMAIN agencies = AgencyAccounts
    BY AgencyAssumption DEF Init, CallsInit, AgenciesInit
  <2>2. OwnersHaveRows
    BY DEF Init, AgenciesInit, OwnersHaveRows, StaffIds
  <2> QED
    BY <2>1, <2>2 DEF Init, CallsInit, AgenciesInit, IInv, Knows
<1>2. IInv /\ [Next]_vars => IInv'
  <2> SUFFICES ASSUME IInv, [Next]_vars PROVE IInv'
    OBVIOUS
  <2>1. ASSUME NEW r \in Requests, AgencyStep(r)
        PROVE  IInv'
    BY <2>1, AgencySteps1, CreateAgencyStep, DecisionSteps, FindStaffStep, StaffSteps
       DEF AgencyStep
  <2>2. ASSUME NEW r \in Requests, UNCHANGED agencyTables,
               ReviewStep(r) \/ InviteStep(r) \/ MediaStep(r) \/ PackageStep(r)
        PROVE  IInv'
    BY <2>2, ReviewsElsewhere, InvitesElsewhere, MediaElsewhere, PackagesElsewhere,
       NoAgencyStep DEF agencyTables
  <2>3. ASSUME NEW r \in Requests, Fail(r)
        PROVE  IInv'
    <3>1. Elsewhere(r)
      BY <2>3 DEF Fail, Break, Goto, IInv, Elsewhere, Held
    <3> QED
      BY <2>3, <3>1, NoAgencyStep DEF Fail, tables, agencyTables
  <2>4. CASE Done \/ UNCHANGED vars
    BY <2>4 DEF Done, vars, calls, tables, agencyTables, IInv, OwnersHaveRows, Knows
  <2> QED
    BY <2>1, <2>2, <2>3, <2>4 DEF Next
<1> QED
  BY <1>1, <1>2, PTL DEF Spec

(* An agency never loses the owner who registered it.                      *)
THEOREM OwnersStay == Spec => []OwnerStays
<1>1. IInv => OwnerStays
  <2> SUFFICES ASSUME IInv, NEW a \in AgencyAccounts, agencies[a] # None
               PROVE  \E x \in StaffOf(a, a) : staff[x].permission = "owner"
    BY DEF OwnerStays
  <2>1. staff[a] = OwnerRow(a)
    BY DEF IInv, OwnersHaveRows
  <2>2. OwnerRow(a) \in StaffRows
    BY DEF OwnerRow, StaffRows, Permissions
  <2>3. a \in StaffOf(a, a)
    BY <2>1, <2>2, AgencyAssumption DEF StaffOf, StaffIds, OwnerRow
  <2> QED
    BY <2>1, <2>3 DEF OwnerRow
<1> QED
  BY <1>1, Invariance, PTL
-----------------------------------------------------------------------------
(* Overlaps: what a step of one call does to those that are served with it.*)
LEMMA EarlierStep ==
  ASSUME EarlierIsOver, NEW r \in Requests, StepOf(r)
  PROVE  EarlierIsOver'
<1>1. earlier' \in [Requests -> SUBSET Requests]
  BY DEF EarlierIsOver, StepOf
<1>2. \A q \in Requests : \A o \in earlier'[q] : pc[o] \in Answered
  BY DEF EarlierIsOver, StepOf
<1> QED
  BY <1>1, <1>2 DEF EarlierIsOver, StepOf

(* The call that takes a step is a rival of all others that are served.    *)
LEMMA OthersMeet ==
  ASSUME EarlierIsOver, NEW r \in Requests, StepOf(r), NEW q \in Requests \ {r}
  PROVE  r \in Rivals(q)' /\ Rivals(q) \subseteq Rivals(q)' /\ earlier'[q] = earlier[q]
<1>1. earlier'[q] = earlier[q] /\ r \notin earlier[q]
  BY DEF EarlierIsOver, StepOf
<1> QED
  BY <1>1 DEF Rivals, StepOf

(* A call keeps its own rivals until it is answered.                       *)
LEMMA RivalsStay ==
  ASSUME EarlierIsOver, NEW r \in Requests, StepOf(r), pc[r] # "idle", pc'[r] \notin Answered
  PROVE  Rivals(r) \subseteq Rivals(r)' /\ earlier'[r] = earlier[r]
<1>1. earlier'[r] = earlier[r]
  BY DEF StepOf
<1> QED
  BY <1>1 DEF Rivals, StepOf

-----------------------------------------------------------------------------
MarketCalls == AgencyCalls \cup ReviewCalls \cup InviteCalls \cup MediaCalls \cup PackageCalls

(* The calls have the fields that the steps read.                          *)
LEMMA Fields ==
  ASSUME NEW c \in MarketCalls
  PROVE  /\ c.op = "submitRegistration" => c.user \in Users
         /\ c.op \in {"approve", "reject", "assignBadge", "revokeBadge"} =>
              c.agency \in AgencyAccounts
         /\ c.op = "inviteStaff" =>
              /\ c.user \in AgencyAccounts /\ c.other \in Users
              /\ c.permission \in {"admin", "support"}
         /\ c.op = "updatePermission" => c.permission \in Permissions
         /\ c.op \in {"updatePermission", "removeStaff", "resendInvite"} =>
              c.user \in AgencyAccounts /\ c.row \in StaffIds
         /\ c.op = "review" =>
              c.user \in Users /\ c.agency \in AgencyAccounts /\ c.rating \in Ratings
         /\ c.op = "editReview" => c.review \in Requests /\ c.rating \in Ratings \cup {None}
         /\ c.op = "removeReview" => c.review \in Requests
         /\ c.op \in {"inviteAdmin", "revokeInvite", "acceptInvite"} => c.user \in Admins
         /\ c.op \in {"revokeInvite", "acceptInvite"} => c.invite \in Requests
         /\ c.op = "uploadUrl" => c.user \in Owners
         /\ c.op \in {"put", "confirm"} => c.media \in Requests
         /\ c.op = "put" => c.file \in {"good", "bad"}
         /\ c.op = "createPackage" =>
              /\ c.user \in AgencyAccounts /\ c.media \in SUBSET Requests
              /\ c.active \in BOOLEAN
         /\ c.op = "updatePackage" =>
              c.media \in (SUBSET Requests) \cup {None} /\ c.active \in BOOLEAN
         /\ c.op \in {"updatePackage", "removePackage"} => c.package \in Requests
         /\ c.op \in {"link", "unlink"} => c.package \in Requests /\ c.campaign \in Campaigns
<1>1. CASE c \in AgencyCalls
  BY <1>1 DEF AgencyCalls
<1>2. CASE c \in ReviewCalls
  BY <1>2 DEF ReviewCalls
<1>3. CASE c \in InviteCalls
  BY <1>3 DEF InviteCalls
<1>4. CASE c \in MediaCalls
  BY <1>4 DEF MediaCalls
<1>5. CASE c \in PackageCalls
  BY <1>5 DEF PackageCalls
<1> QED
  BY <1>1, <1>2, <1>3, <1>4, <1>5 DEF MarketCalls

(* The operations of each component.                                       *)
LEMMA Operations ==
  ASSUME NEW c
  PROVE  /\ c \in AgencyCalls => c.op \in
              {"submitRegistration", "approve", "reject", "assignBadge", "revokeBadge",
               "inviteStaff", "updatePermission", "removeStaff", "resendInvite"}
         /\ c \in ReviewCalls => c.op \in {"review", "editReview", "removeReview"}
         /\ c \in InviteCalls => c.op \in {"inviteAdmin", "revokeInvite", "acceptInvite"}
         /\ c \in MediaCalls => c.op \in {"uploadUrl", "put", "confirm"}
         /\ c \in PackageCalls => c.op \in
              {"createPackage", "updatePackage", "removePackage", "link", "unlink"}
<1>1. c \in AgencyCalls => c.op \in
        {"submitRegistration", "approve", "reject", "assignBadge", "revokeBadge",
         "inviteStaff", "updatePermission", "removeStaff", "resendInvite"}
  BY DEF AgencyCalls
<1>2. c \in ReviewCalls => c.op \in {"review", "editReview", "removeReview"}
  BY DEF ReviewCalls
<1>3. c \in InviteCalls => c.op \in {"inviteAdmin", "revokeInvite", "acceptInvite"}
  BY DEF InviteCalls
<1>4. c \in MediaCalls => c.op \in {"uploadUrl", "put", "confirm"}
  BY DEF MediaCalls
<1>5. c \in PackageCalls => c.op \in
        {"createPackage", "updatePackage", "removePackage", "link", "unlink"}
  BY DEF PackageCalls
<1> QED
  BY <1>1, <1>2, <1>3, <1>4, <1>5

(* The steps of an operation.                                              *)
StepsOf(op) ==
  CASE op = "submitRegistration" -> {"findAgency", "createAgency"}
    [] op = "approve"            -> {"findPendingAgency", "decide", "mailDecision",
                                     "findBadge", "createBadge"}
    [] op = "reject"             -> {"findPendingAgency", "decide", "mailDecision"}
    [] op = "assignBadge"        -> {"findBadge", "createBadge"}
    [] op = "revokeBadge"        -> {"revokeBadge"}
    [] op = "inviteStaff"        -> {"guard", "findStaff", "createStaff", "mailStaff"}
    [] op = "updatePermission"   -> {"guard", "findStaff", "writeStaff"}
    [] op = "removeStaff"        -> {"guard", "findStaff", "deleteStaff"}
    [] op = "resendInvite"       -> {"guard", "findStaff", "mailStaff"}
    [] op = "review"             -> {"findReviewed", "findReview", "createReview",
                                     "aggregate", "storeScore"}
    [] op = "editReview"         -> {"findOwnReview", "writeReview", "aggregate", "storeScore"}
    [] op = "removeReview"       -> {"findOwnReview", "deleteReview", "aggregate",
                                     "storeScore"}
    [] op = "inviteAdmin"        -> {"platformRole", "createInvite", "mailInvite"}
    [] op = "revokeInvite"       -> {"platformRole", "findInvite", "revokeInvite"}
    [] op = "acceptInvite"       -> {"platformRole", "matchInvite", "acceptInvite",
                                     "grantRole"}
    [] op = "uploadUrl"          -> {"createAsset"}
    [] op = "put"                -> {"put"}
    [] op = "confirm"            -> {"findAsset", "stat", "dropBad", "markBad",
                                     "markUploaded"}
    [] op = "createPackage"      -> {"findApproved", "createPackage"}
    [] op = "updatePackage"      -> {"findOwned", "updatePackage", "cleanup", "clean"}
    [] op = "removePackage"      -> {"findOwned", "readMedia", "deletePackage", "cleanup",
                                     "clean"}
    [] op = "link"               -> {"findActive", "findCampaign", "findLink", "createLink"}
    [] op = "unlink"             -> {"findCampaign", "findLink", "deleteLink"}
    [] OTHER                     -> {}

(* A call is at a step of its own operation.                               *)
OnPath(r) ==
  pc[r] # "idle" => call[r] \in MarketCalls /\ pc[r] \in StepsOf(call[r].op) \cup Answered

Path ==
  /\ DOMAIN pc = Requests /\ DOMAIN call = Requests
  /\ \A r \in Requests : OnPath(r)

(* What every step of a call keeps to.                                     *)
Moves(r) ==
  /\ StepOf(r)
  /\ DOMAIN pc' = Requests /\ DOMAIN call' = Requests
  /\ OnPath(r)'

LEMMA ReviewsMove ==
  ASSUME Path, NEW r \in Requests, ReviewStep(r)
  PROVE  Moves(r)
<1> USE DEF Goto, StepOf, Moves, OnPath, StepsOf, Answered, Active
<1>1. CASE ReceiveReview(r)
  <2>1. PICK c \in ReviewCalls : call' = [call EXCEPT ![r] = c]
    BY <1>1 DEF ReceiveReview, Begin
  <2>2. /\ call'[r] = c /\ c \in MarketCalls
        /\ pc'[r] = IF c.op = "review" THEN "findReviewed" ELSE "findOwnReview"
    BY <1>1, <2>1 DEF ReceiveReview, StartAt, Path, MarketCalls
  <2> QED
    BY <1>1, <2>1, <2>2, Operations DEF ReceiveReview, Begin, StartAt, Path
<1>2. CASE \/ FindReviewed(r) \/ FindReview(r) \/ CreateReview(r) \/ FindOwnReview(r)
           \/ WriteReview(r) \/ DeleteReview(r) \/ Aggregate(r) \/ StoreScore(r)
  <2> DEFINE c == call[r]
  <2>1. OnPath(r) /\ r \in DOMAIN pc
    BY DEF Path
  <2>2. \E s : Goto(r, s)
    BY <1>2 DEF FindReviewed, FindReview, CreateReview, FindOwnReview, WriteReview,
                DeleteReview, Aggregate, StoreScore
  <2>3. pc[r] # "idle" /\ pc[r] \notin Answered /\ pc'[r] \in StepsOf(c.op) \cup Answered
    BY <1>2, <2>1 DEF FindReviewed, FindReview, CreateReview, FindOwnReview, WriteReview,
                DeleteReview, Aggregate, StoreScore
  <2> QED
    BY <2>1, <2>2, <2>3 DEF Path
<1> QED
  BY <1>1, <1>2 DEF ReviewStep

LEMMA InvitesMove ==
  ASSUME Path, NEW r \in Requests, InviteStep(r)
  PROVE  Moves(r)
<1> USE DEF Goto, StepOf, Moves, OnPath, StepsOf, Answered, Active
<1>1. CASE ReceiveInvite(r)
  <2>1. PICK c \in InviteCalls : call' = [call EXCEPT ![r] = c]
    BY <1>1 DEF ReceiveInvite, Begin
  <2>2. call'[r] = c /\ c \in MarketCalls /\ pc'[r] = "platformRole"
    BY <1>1, <2>1 DEF ReceiveInvite, StartAt, Path, MarketCalls
  <2> QED
    BY <1>1, <2>1, <2>2, Operations DEF ReceiveInvite, Begin, StartAt, Path
<1>2. CASE \/ CheckPlatformRole(r) \/ CreateInvite(r) \/ MailInvite(r) \/ FindInvite(r)
           \/ RevokeInvite(r) \/ AcceptInvite(r) \/ GrantRole(r)
  <2> DEFINE c == call[r]
  <2>1. OnPath(r) /\ r \in DOMAIN pc
    BY DEF Path
  <2>2. \E s : Goto(r, s)
    BY <1>2 DEF CheckPlatformRole, CreateInvite, MailInvite, FindInvite, RevokeInvite,
                AcceptInvite, GrantRole
  <2>3. pc[r] # "idle" /\ pc[r] \notin Answered /\ pc'[r] \in StepsOf(c.op) \cup Answered
    BY <1>2, <2>1 DEF CheckPlatformRole, CreateInvite, MailInvite, FindInvite, RevokeInvite,
                AcceptInvite, GrantRole
  <2> QED
    BY <2>1, <2>2, <2>3 DEF Path
<1> QED
  BY <1>1, <1>2 DEF InviteStep

LEMMA MediaMoves ==
  ASSUME Path, NEW r \in Requests, MediaStep(r)
  PROVE  Moves(r)
<1> USE DEF Goto, StepOf, Moves, OnPath, StepsOf, Answered, Active
<1>1. CASE ReceiveMedia(r)
  <2>1. PICK c \in MediaCalls : call' = [call EXCEPT ![r] = c]
    BY <1>1 DEF ReceiveMedia, Begin
  <2>2. call'[r] = c /\ c \in MarketCalls /\ pc'[r] = FirstMediaStep(c)
    BY <1>1, <2>1 DEF ReceiveMedia, StartAt, Path, MarketCalls
  <2> QED
    BY <1>1, <2>1, <2>2, Operations DEF ReceiveMedia, Begin, StartAt, Path, FirstMediaStep
<1>2. CASE \/ CreateAsset(r) \/ Put(r) \/ FindAsset(r) \/ Stat(r) \/ DropBad(r)
           \/ MarkBad(r) \/ MarkUploaded(r) \/ Cleaned(r)
  <2> DEFINE c == call[r]
  <2>1. OnPath(r) /\ r \in DOMAIN pc
    BY DEF Path
  <2>2. \E s : Goto(r, s)
    BY <1>2 DEF CreateAsset, Put, FindAsset, Stat, DropBad, MarkBad, MarkUploaded, Cleaned
  <2>3. pc[r] # "idle" /\ pc[r] \notin Answered /\ pc'[r] \in StepsOf(c.op) \cup Answered
    BY <1>2, <2>1 DEF CreateAsset, Put, FindAsset, Stat, DropBad, MarkBad, MarkUploaded,
                      Cleaned
  <2> QED
    BY <2>1, <2>2, <2>3 DEF Path
<1>3. CASE DropFile(r) \/ MarkDeleted(r)
  BY <1>3 DEF DropFile, MarkDeleted, calls, Path
<1> QED
  BY <1>1, <1>2, <1>3 DEF MediaStep

LEMMA PackagesMove ==
  ASSUME Path, NEW r \in Requests, PackageStep(r)
  PROVE  Moves(r)
<1> USE DEF Goto, StepOf, Moves, OnPath, StepsOf, Answered, Active
<1>1. CASE ReceivePackage(r)
  <2>1. PICK c \in PackageCalls : call' = [call EXCEPT ![r] = c]
    BY <1>1 DEF ReceivePackage, Begin
  <2>2. call'[r] = c /\ c \in MarketCalls /\ pc'[r] = FirstPackageStep(c)
    BY <1>1, <2>1 DEF ReceivePackage, StartAt, Path, MarketCalls
  <2> QED
    BY <1>1, <2>1, <2>2, Operations DEF ReceivePackage, Begin, StartAt, Path,
       FirstPackageStep
<1>2. CASE \/ FindApproved(r) \/ CreatePackage(r) \/ FindOwned(r) \/ UpdatePackage(r)
           \/ ReadMedia(r) \/ DeletePackage(r) \/ CleanUpOrphans(r)
  <2> DEFINE c == call[r]
  <2>1. OnPath(r) /\ r \in DOMAIN pc
    BY DEF Path
  <2>2. \E s : Goto(r, s)
    BY <1>2 DEF FindApproved, CreatePackage, FindOwned, UpdatePackage, ReadMedia,
                DeletePackage, CleanUpOrphans, CleanUp
  <2>3. pc[r] # "idle" /\ pc[r] \notin Answered /\ pc'[r] \in StepsOf(c.op) \cup Answered
    BY <1>2, <2>1 DEF FindApproved, CreatePackage, FindOwned, UpdatePackage, ReadMedia,
                DeletePackage, CleanUpOrphans, CleanUp
  <2> QED
    BY <2>1, <2>2, <2>3 DEF Path
<1>3. CASE FindActive(r) \/ FindCampaign(r) \/ FindLink(r) \/ CreateLink(r) \/ DeleteLink(r)
  <2> DEFINE c == call[r]
  <2>1. OnPath(r) /\ r \in DOMAIN pc
    BY DEF Path
  <2>2. \E s : Goto(r, s)
    BY <1>3 DEF FindActive, FindCampaign, FindLink, CreateLink, DeleteLink
  <2>3. pc[r] # "idle" /\ pc[r] \notin Answered /\ pc'[r] \in StepsOf(c.op) \cup Answered
    BY <1>3, <2>1 DEF FindActive, FindCampaign, FindLink, CreateLink, DeleteLink
  <2> QED
    BY <2>1, <2>2, <2>3 DEF Path
<1> QED
  BY <1>1, <1>2, <1>3 DEF PackageStep

LEMMA AgenciesMove ==
  ASSUME Path, NEW r \in Requests, AgencyStep(r)
  PROVE  Moves(r)
<1> USE DEF Goto, StepOf, Moves, OnPath, StepsOf, Answered, Active
<1>1. CASE ReceiveAgency(r)
  <2>1. PICK c \in AgencyCalls : call' = [call EXCEPT ![r] = c]
    BY <1>1 DEF ReceiveAgency, Begin
  <2>2. call'[r] = c /\ c \in MarketCalls /\ pc'[r] = FirstAgencyStep(c)
    BY <1>1, <2>1 DEF ReceiveAgency, StartAt, Path, MarketCalls
  <2> QED
    BY <1>1, <2>1, <2>2, Operations DEF ReceiveAgency, Begin, StartAt, Path, FirstAgencyStep
<1>2. CASE \/ FindAgency(r) \/ CreateAgency(r) \/ FindPendingAgency(r) \/ Decide(r)
           \/ MailDecision(r) \/ FindBadge(r) \/ CreateBadge(r) \/ RevokeBadge(r)
  <2> DEFINE c == call[r]
  <2>1. OnPath(r) /\ r \in DOMAIN pc
    BY DEF Path
  <2>2. \E s : Goto(r, s)
    BY <1>2 DEF FindAgency, CreateAgency, FindPendingAgency, Decide, MailDecision, FindBadge,
                CreateBadge, RevokeBadge
  <2>3. pc[r] # "idle" /\ pc[r] \notin Answered /\ pc'[r] \in StepsOf(c.op) \cup Answered
    BY <1>2, <2>1 DEF FindAgency, CreateAgency, FindPendingAgency, Decide, MailDecision,
                      FindBadge, CreateBadge, RevokeBadge
  <2> QED
    BY <2>1, <2>2, <2>3 DEF Path
<1>3. CASE \/ Guard(r) \/ FindStaff(r) \/ CreateStaff(r) \/ MailStaff(r) \/ WriteStaff(r)
           \/ DeleteStaff(r)
  <2> DEFINE c == call[r]
  <2>1. OnPath(r) /\ r \in DOMAIN pc
    BY DEF Path
  <2>2. \E s : Goto(r, s)
    BY <1>3 DEF Guard, FindStaff, CreateStaff, MailStaff, WriteStaff, DeleteStaff
  <2>3. pc[r] # "idle" /\ pc[r] \notin Answered /\ pc'[r] \in StepsOf(c.op) \cup Answered
    <3>1. CASE FindStaff(r)
      BY <2>1, <3>1 DEF FindStaff, AfterStaff, StaffStep
    <3>2. CASE Guard(r) \/ CreateStaff(r) \/ MailStaff(r) \/ WriteStaff(r) \/ DeleteStaff(r)
      BY <2>1, <3>2 DEF Guard, CreateStaff, MailStaff, WriteStaff, DeleteStaff
    <3> QED
      BY <1>3, <3>1, <3>2
  <2> QED
    BY <2>1, <2>2, <2>3 DEF Path
<1> QED
  BY <1>1, <1>2, <1>3 DEF AgencyStep

(* A step of a call, whichever component it belongs to.                    *)
StepOfMarket(r) ==
  \/ AgencyStep(r) /\ UNCHANGED <<reviewing, inviting, catalogue, media>>
  \/ ReviewStep(r) /\ UNCHANGED <<agencyTables, inviting, catalogue, media>>
  \/ InviteStep(r) /\ UNCHANGED <<agencyTables, reviewing, catalogue, media>>
  \/ MediaStep(r) /\ UNCHANGED <<agencyTables, reviewing, inviting, catalogue>>
  \/ PackageStep(r) /\ UNCHANGED <<agencyTables, reviewing, inviting>>
  \/ Fail(r)

LEMMA MarketMoves ==
  ASSUME Path, NEW r \in Requests, StepOfMarket(r)
  PROVE  Moves(r) /\ Path'
<1>1. CASE Fail(r)
  BY <1>1 DEF Fail, Break, Goto, StepOf, Moves, Path, OnPath, Answered, Active
<1>2. Moves(r)
  BY <1>1, AgenciesMove, ReviewsMove, InvitesMove, MediaMoves, PackagesMove DEF StepOfMarket
<1> QED
  BY <1>2 DEF Moves, Path, OnPath, StepOf

-----------------------------------------------------------------------------
AgencyTypes ==
  /\ agencies \in [AgencyAccounts -> Statuses \cup {None}]
  /\ reasons \subseteq {a \in AgencyAccounts : agencies[a] # None}
  /\ badges \in [AgencyAccounts -> {"active", "revoked", None}]
  /\ staff \in [StaffIds -> StaffRows \cup {None}]
  /\ \A r \in Requests :
       /\ pc[r] = "createAgency" => call[r].user \in AgencyAccounts
       /\ pc[r] = "createStaff" => call[r].other \in AgencyAccounts

(* The agency of each call about one is known.                             *)
ReviewTypes ==
  /\ reviews \in [Requests -> ReviewRows \cup {None}]
  /\ about \in [Requests -> AgencyAccounts \cup {None}]
  /\ \A r \in Requests :
       pc[r] \in {"findReview", "createReview", "writeReview", "deleteReview", "aggregate",
                  "storeScore"} => about[r] \in AgencyAccounts

InviteTypes ==
  /\ invites \in [Requests -> {"pending", "accepted", "revoked", None}]
  /\ superAdmins \subseteq Admins

(* What is confirmed or cleaned up is an asset.                            *)
MediaTypes ==
  /\ assets \in [Requests -> Assets \cup {None}]
  /\ objects \in [Requests -> {"good", "bad", None}]
  /\ dropping \in [Requests -> SUBSET Requests]
  /\ marking \in [Requests -> SUBSET Requests]
  /\ \A r \in Requests :
       /\ dropping[r] \subseteq marking[r]
       /\ dropping[r] # {} => pc[r] \in {"clean", "failed"}
  /\ \A r, x \in Requests : x \in marking[r] => assets[x] # None
  /\ \A r \in Requests : pc[r] \in {"stat", "dropBad", "markBad", "markUploaded"} =>
       assets[call[r].media] # None

PackageTypes ==
  /\ packages \in [Requests -> PackageRows \cup {None}]
  /\ links \subseteq {x \in Requests : packages[x] # None} \X Campaigns
  /\ orphans \in [Requests -> SUBSET Requests]

(* A call knows what it knew, and the others too.                          *)
LEMMA AgencyTyped ==
  ASSUME IInv, Path, AgencyTypes, NEW r \in Requests, AgencyStep(r)
  PROVE  AgencyTypes'
<1> DEFINE Told(o) == /\ pc[o] = "createAgency" => call[o].user \in AgencyAccounts
                      /\ pc[o] = "createStaff" => call[o].other \in AgencyAccounts
<1>1. /\ OnPath(r) /\ Knows(r) /\ r \in DOMAIN pc
      /\ pc[r] = "createAgency" => call[r].user \in AgencyAccounts
      /\ pc[r] = "createStaff" => call[r].other \in AgencyAccounts
      /\ None \notin Statuses \cup StaffRows
  BY AgencyAssumption DEF Path, IInv, AgencyTypes
<1>2. \A o \in Requests : Told(o)'
  <2>1. Moves(r)
    BY AgenciesMove
  <2>2. \A o \in Requests \ {r} : Told(o)'
    BY <2>1 DEF Moves, StepOf, AgencyTypes
  <2>3. Told(r)'
    <3>1. CASE ReceiveAgency(r)
      BY <2>1, <3>1, Fields DEF ReceiveAgency, StartAt, FirstAgencyStep, Path
    <3>2. CASE FindAgency(r)
      BY <1>1, <3>2 DEF FindAgency, Goto
    <3>3. CASE FindStaff(r)
      <4>1. /\ UNCHANGED call /\ pc'[r] = AfterStaff(call[r])
            /\ call[r].op = "inviteStaff" <=> StaffStep(call[r]) = "createStaff"
        BY <1>1, <3>3 DEF FindStaff, StaffStep, Goto
      <4>2. AfterStaff(call[r]) = "createStaff" => InvitationIsNew(call[r])
        BY <4>1 DEF AfterStaff
      <4>3. AfterStaff(call[r]) # "createAgency"
        BY DEF AfterStaff, StaffStep
      <4> QED
        BY <4>1, <4>2, <4>3 DEF InvitationIsNew
    <3>4. CASE \/ CreateAgency(r) \/ FindPendingAgency(r) \/ Decide(r) \/ MailDecision(r)
               \/ FindBadge(r) \/ CreateBadge(r) \/ RevokeBadge(r) \/ Guard(r)
               \/ CreateStaff(r) \/ MailStaff(r) \/ WriteStaff(r) \/ DeleteStaff(r)
      BY <1>1, <3>4 DEF CreateAgency, FindPendingAgency, Decide, MailDecision, FindBadge,
         CreateBadge, RevokeBadge, Guard, CreateStaff, MailStaff, WriteStaff, DeleteStaff, Goto
    <3> QED
      BY <3>1, <3>2, <3>3, <3>4 DEF AgencyStep
  <2> QED
    BY <2>2, <2>3
<1> HIDE DEF Told
<1>3. /\ agencies' \in [AgencyAccounts -> Statuses \cup {None}]
      /\ \A a \in AgencyAccounts : agencies[a] # None => agencies'[a] # None
      /\ reasons' \subseteq {a \in AgencyAccounts : agencies'[a] # None}
      /\ badges' \in [AgencyAccounts -> {"active", "revoked", None}]
      /\ staff' \in [StaffIds -> StaffRows \cup {None}]
  <2> USE DEF AgencyTypes, agencyTables
  <2>1. CASE \/ ReceiveAgency(r) \/ FindAgency(r) \/ FindPendingAgency(r) \/ MailDecision(r)
             \/ FindBadge(r) \/ Guard(r) \/ FindStaff(r) \/ MailStaff(r)
    BY <2>1 DEF ReceiveAgency, FindAgency, FindPendingAgency, MailDecision, FindBadge, Guard,
                FindStaff, MailStaff
  <2>2. CASE CreateAgency(r)
    <3>1. OwnerRow(call[r].user) \in StaffRows /\ "pending_verification" \in Statuses
      BY <1>1, <2>2 DEF OwnerRow, StaffRows, Permissions, Statuses, CreateAgency
    <3> QED
      BY <1>1, <2>2, <3>1 DEF CreateAgency, StaffIds
  <2>3. CASE Decide(r)
    BY <1>1, <2>3, Fields DEF Decide, Knows, OnPath, StepsOf, Answered, Statuses
  <2>4. CASE CreateBadge(r) \/ RevokeBadge(r)
    BY <1>1, <2>4 DEF CreateBadge, RevokeBadge
  <2>5. CASE CreateStaff(r)
    BY <1>1, <2>5, Fields DEF CreateStaff, OnPath, StepsOf, Answered, Permissions, StaffRows
  <2>6. CASE WriteStaff(r) \/ DeleteStaff(r)
    BY <1>1, <2>6, Fields DEF WriteStaff, DeleteStaff, OnPath, StepsOf, Answered, StaffRows
  <2> QED
    BY <2>1, <2>2, <2>3, <2>4, <2>5, <2>6 DEF AgencyStep
<1> QED
  BY <1>2, <1>3 DEF AgencyTypes, Told

(* Each component is busy with calls of its own, but media are cleaned up  *)
(* for packages.                                                           *)
LEMMA OperationsOfSteps ==
  ASSUME Path, NEW r \in Requests
  PROVE  /\ AgencyStep(r) => call'[r].op \in
              {"submitRegistration", "approve", "reject", "assignBadge", "revokeBadge",
               "inviteStaff", "updatePermission", "removeStaff", "resendInvite"}
         /\ ReviewStep(r) => call'[r].op \in {"review", "editReview", "removeReview"}
         /\ InviteStep(r) => call'[r].op \in {"inviteAdmin", "revokeInvite", "acceptInvite"}
         /\ MediaStep(r) => call'[r].op \in
              {"uploadUrl", "put", "confirm", "updatePackage", "removePackage"}
         /\ PackageStep(r) => call'[r].op \in
              {"createPackage", "updatePackage", "removePackage", "link", "unlink"}
<1> USE DEF Goto, OnPath, StepsOf, Answered
<1>0. OnPath(r) /\ r \in DOMAIN call
  BY DEF Path
<1>1. ASSUME NEW Kind, Begin(r, Kind)
      PROVE  call'[r] \in Kind
  BY <1>0, <1>1 DEF Begin
<1>2. ASSUME AgencyStep(r)
      PROVE  call'[r].op \in
              {"submitRegistration", "approve", "reject", "assignBadge", "revokeBadge",
               "inviteStaff", "updatePermission", "removeStaff", "resendInvite"}
  <2>1. CASE ReceiveAgency(r)
    BY <1>1, <2>1, Operations DEF ReceiveAgency
  <2>2. CASE \/ FindAgency(r) \/ CreateAgency(r) \/ FindPendingAgency(r) \/ Decide(r)
             \/ MailDecision(r) \/ FindBadge(r) \/ CreateBadge(r) \/ RevokeBadge(r)
    BY <1>0, <2>2 DEF FindAgency, CreateAgency, FindPendingAgency, Decide, MailDecision,
       FindBadge, CreateBadge, RevokeBadge
  <2>3. CASE \/ Guard(r) \/ FindStaff(r) \/ CreateStaff(r) \/ MailStaff(r) \/ WriteStaff(r)
             \/ DeleteStaff(r)
    BY <1>0, <2>3 DEF Guard, FindStaff, CreateStaff, MailStaff, WriteStaff, DeleteStaff
  <2> QED
    BY <1>2, <2>1, <2>2, <2>3 DEF AgencyStep
<1>3. ASSUME ReviewStep(r)
      PROVE  call'[r].op \in {"review", "editReview", "removeReview"}
  <2>1. CASE ReceiveReview(r)
    BY <1>1, <2>1, Operations DEF ReceiveReview
  <2>2. CASE ~ReceiveReview(r)
    BY <1>0, <1>3, <2>2 DEF ReviewStep, FindReviewed, FindReview, CreateReview, FindOwnReview,
       WriteReview, DeleteReview, Aggregate, StoreScore
  <2> QED
    BY <2>1, <2>2
<1>4. ASSUME InviteStep(r)
      PROVE  call'[r].op \in {"inviteAdmin", "revokeInvite", "acceptInvite"}
  <2>1. CASE ReceiveInvite(r)
    BY <1>1, <2>1, Operations DEF ReceiveInvite
  <2>2. CASE ~ReceiveInvite(r)
    BY <1>0, <1>4, <2>2 DEF InviteStep, CheckPlatformRole, CreateInvite, MailInvite,
       FindInvite, RevokeInvite, AcceptInvite, GrantRole
  <2> QED
    BY <2>1, <2>2
<1>5. ASSUME MediaStep(r)
      PROVE  call'[r].op \in {"uploadUrl", "put", "confirm", "updatePackage", "removePackage"}
  <2>1. CASE ReceiveMedia(r)
    BY <1>1, <2>1, Operations DEF ReceiveMedia
  <2>2. CASE ~ReceiveMedia(r)
    BY <1>0, <1>5, <2>2 DEF MediaStep, CreateAsset, Put, FindAsset, Stat, DropBad, MarkBad,
       MarkUploaded, DropFile, MarkDeleted, Cleaned, calls
  <2> QED
    BY <2>1, <2>2
<1>6. ASSUME PackageStep(r)
      PROVE  call'[r].op \in {"createPackage", "updatePackage", "removePackage", "link", "unlink"}
  <2>1. CASE ReceivePackage(r)
    BY <1>1, <2>1, Operations DEF ReceivePackage
  <2>2. CASE \/ FindApproved(r) \/ CreatePackage(r) \/ FindOwned(r) \/ UpdatePackage(r)
             \/ ReadMedia(r) \/ DeletePackage(r) \/ CleanUpOrphans(r)
    BY <1>0, <2>2 DEF FindApproved, CreatePackage, FindOwned, UpdatePackage, ReadMedia,
       DeletePackage, CleanUpOrphans, CleanUp
  <2>3. CASE FindActive(r) \/ FindCampaign(r) \/ FindLink(r) \/ CreateLink(r) \/ DeleteLink(r)
    BY <1>0, <2>3 DEF FindActive, FindCampaign, FindLink, CreateLink, DeleteLink
  <2> QED
    BY <1>6, <2>1, <2>2, <2>3 DEF PackageStep
<1> QED
  BY <1>2, <1>3, <1>4, <1>5, <1>6

(* Reviews: the agency is found before the review is written.              *)
LEMMA ReviewTyped ==
  ASSUME Path, ReviewTypes, NEW r \in Requests, ReviewStep(r)
  PROVE  ReviewTypes'
<1> USE DEF Goto, ReviewTypes, reviewing
<1>1. OnPath(r) /\ r \in DOMAIN pc /\ r \in DOMAIN call
  BY DEF Path
<1>2. Moves(r)
  BY ReviewsMove
<1>3. /\ reviews' \in [Requests -> ReviewRows \cup {None}]
      /\ about' \in [Requests -> AgencyAccounts \cup {None}]
      /\ \A o \in Requests \ {r} : about'[o] = about[o]
      /\ pc'[r] \in {"findReview", "createReview", "writeReview", "deleteReview", "aggregate",
                     "storeScore"} => about'[r] \in AgencyAccounts
  <2>1. CASE ReceiveReview(r)
    BY <1>1, <2>1 DEF ReceiveReview, StartAt
  <2>2. CASE FindReviewed(r)
    BY <1>1, <2>2, Fields DEF FindReviewed, OnPath, StepsOf, Answered
  <2>3. CASE FindReview(r) \/ Aggregate(r) \/ StoreScore(r)
    BY <1>1, <2>3 DEF FindReview, Aggregate, StoreScore
  <2>4. CASE CreateReview(r)
    BY <1>1, <2>4, Fields DEF CreateReview, OnPath, StepsOf, Answered, ReviewRows
  <2>5. CASE FindOwnReview(r)
    <3>1. call[r].review \in Requests
      BY <1>1, <2>5, Fields DEF FindOwnReview, OnPath, StepsOf, Answered
    <3>2. reviews[call[r].review] # None => reviews[call[r].review].agency \in AgencyAccounts
      BY <3>1 DEF ReviewRows
    <3> QED
      BY <1>1, <2>5, <3>2 DEF FindOwnReview
  <2>6. CASE WriteReview(r)
    BY <1>1, <2>6, Fields DEF WriteReview, OnPath, StepsOf, Answered, ReviewRows
  <2>7. CASE DeleteReview(r)
    BY <1>1, <2>7 DEF DeleteReview
  <2> QED
    BY <2>1, <2>2, <2>3, <2>4, <2>5, <2>6, <2>7 DEF ReviewStep
<1> QED
  BY <1>2, <1>3 DEF Moves, StepOf

LEMMA InviteTyped ==
  ASSUME Path, InviteTypes, NEW r \in Requests, InviteStep(r)
  PROVE  InviteTypes'
<1> USE DEF InviteTypes, inviting
<1>1. OnPath(r)
  BY DEF Path
<1>2. CASE \/ ReceiveInvite(r) \/ CheckPlatformRole(r) \/ CreateInvite(r) \/ MailInvite(r)
           \/ FindInvite(r)
  BY <1>2 DEF ReceiveInvite, CheckPlatformRole, CreateInvite, MailInvite, FindInvite
<1>3. CASE RevokeInvite(r) \/ AcceptInvite(r) \/ GrantRole(r)
  BY <1>1, <1>3, Fields DEF RevokeInvite, AcceptInvite, GrantRole, OnPath, StepsOf, Answered
<1> QED
  BY <1>2, <1>3 DEF InviteStep

LEMMA MediaUser ==
  ASSUME NEW c \in MarketCalls, c.op = "confirm"
  PROVE  c.user \in Owners
BY Operations DEF MarketCalls, MediaCalls

(* Media: an asset is never taken away.                                    *)
LEMMA MediaTyped ==
  ASSUME Path, MediaTypes, NEW r \in Requests, MediaStep(r)
  PROVE  MediaTypes'
<1> USE DEF Goto, media
<1>0. None \notin Assets
  BY MediaAssumption
<1>1. /\ OnPath(r) /\ r \in DOMAIN pc /\ r \in DOMAIN call
      /\ pc[r] \in {"findAsset", "stat", "dropBad", "markBad", "markUploaded"} =>
           call[r].media \in Requests
  BY Fields DEF Path, OnPath, StepsOf, Answered
<1>2. Moves(r)
  BY MediaMoves
<1>3. /\ assets' \in [Requests -> Assets \cup {None}]
      /\ \A x \in Requests : assets[x] # None => assets'[x] # None
  <2> USE DEF MediaTypes
  <2>1. CASE CreateAsset(r)
    BY <1>0, <1>1, <2>1, Fields DEF CreateAsset, OnPath, StepsOf, Answered, Assets
  <2>2. CASE MarkBad(r) \/ MarkUploaded(r)
    <3>1. assets[call[r].media] \in Assets /\ call[r].media \in Requests
      BY <1>1, <2>2 DEF MarkBad, MarkUploaded
    <3>2. PICK status \in {"uploaded", "deleted"} :
            assets' = [assets EXCEPT ![call[r].media].status = status]
      BY <2>2 DEF MarkBad, MarkUploaded, Mark
    <3> QED
      BY <1>0, <3>1, <3>2 DEF Assets
  <2>3. CASE MarkDeleted(r)
    <3>1. PICK x \in marking[r] : assets' = [assets EXCEPT ![x].status = "deleted"]
      BY <2>3 DEF MarkDeleted, Mark
    <3>2. x \in Requests /\ assets[x] \in Assets
      BY <3>1
    <3> QED
      BY <1>0, <3>1, <3>2 DEF Assets
  <2>4. CASE \/ ReceiveMedia(r) \/ Put(r) \/ FindAsset(r) \/ Stat(r) \/ DropBad(r)
             \/ DropFile(r) \/ Cleaned(r)
    BY <2>4 DEF ReceiveMedia, Put, FindAsset, Stat, DropBad, DropFile, Cleaned
  <2> QED
    BY <2>1, <2>2, <2>3, <2>4 DEF MediaStep
<1>4. objects' \in [Requests -> {"good", "bad", None}]
  <2>1. CASE Put(r)
    BY <1>1, <2>1, Fields DEF Put, OnPath, StepsOf, Answered, MediaTypes
  <2>2. CASE DropFile(r)
    BY <2>2 DEF DropFile, MediaTypes
  <2>3. CASE ~Put(r) /\ ~DropFile(r)
    BY <2>3 DEF MediaStep, ReceiveMedia, CreateAsset, FindAsset, Stat, DropBad, MarkBad,
       MarkUploaded, MarkDeleted, Cleaned, MediaTypes
  <2> QED
    BY <2>1, <2>2, <2>3
<1>5. /\ dropping' \in [Requests -> SUBSET Requests] /\ marking' \in [Requests -> SUBSET Requests]
      /\ \A o \in Requests : dropping'[o] \subseteq marking'[o]
      /\ \A o \in Requests \ {r} : dropping'[o] = dropping[o]
      /\ dropping'[r] # {} => pc'[r] \in {"clean", "failed"}
      /\ \A o, x \in Requests : x \in marking'[o] => assets[x] # None
  <2> USE DEF MediaTypes
  <2>1. CASE DropBad(r)
    BY <1>1, <2>1 DEF DropBad
  <2>2. CASE MarkBad(r)
    BY <1>1, <2>2 DEF MarkBad
  <2>3. CASE DropFile(r) \/ MarkDeleted(r)
    BY <1>1, <2>3 DEF DropFile, MarkDeleted, calls
  <2>4. CASE \/ ReceiveMedia(r) \/ CreateAsset(r) \/ Put(r) \/ FindAsset(r) \/ Stat(r)
             \/ MarkUploaded(r) \/ Cleaned(r)
    BY <1>1, <2>4 DEF ReceiveMedia, Begin, StartAt, CreateAsset, Put, FindAsset, Stat,
       MarkUploaded, Cleaned
  <2> QED
    BY <2>1, <2>2, <2>3, <2>4 DEF MediaStep
<1>6. pc'[r] \in {"stat", "dropBad", "markBad", "markUploaded"} =>
        assets'[call'[r].media] # None
  <2>1. CASE FindAsset(r)
    <3> DEFINE row == [owner |-> call[r].user, status |-> "pending"]
    <3>1. pc'[r] = "stat" => assets[call[r].media] = row
      BY <1>1, <2>1 DEF FindAsset
    <3>2. call[r].user \in Owners
      BY <1>1, <2>1, MediaUser DEF FindAsset, OnPath, StepsOf, Answered
    <3>3. row # None
      BY <1>0, <3>2 DEF Assets
    <3> QED
      BY <1>1, <1>3, <2>1, <3>1, <3>3 DEF FindAsset
  <2>2. CASE ReceiveMedia(r)
    BY <1>1, <2>2 DEF ReceiveMedia, StartAt, FirstMediaStep
  <2>3. CASE Stat(r) \/ DropBad(r)
    BY <1>1, <1>3, <2>3 DEF Stat, DropBad, MediaTypes
  <2>4. CASE \/ CreateAsset(r) \/ Put(r) \/ MarkBad(r) \/ MarkUploaded(r) \/ DropFile(r)
             \/ MarkDeleted(r) \/ Cleaned(r)
    BY <1>1, <2>4 DEF CreateAsset, Put, MarkBad, MarkUploaded, DropFile, MarkDeleted, Cleaned,
       calls
  <2> QED
    BY <2>1, <2>2, <2>3, <2>4 DEF MediaStep
<1>7. \A o \in Requests \ {r} : pc'[o] = pc[o] /\ call'[o] = call[o]
  BY <1>2 DEF Moves, StepOf
<1>8. \A o \in Requests : dropping'[o] # {} => pc'[o] \in {"clean", "failed"}
  BY <1>5, <1>7 DEF MediaTypes
<1>9. ASSUME NEW o \in Requests, pc'[o] \in {"stat", "dropBad", "markBad", "markUploaded"}
      PROVE  assets'[call'[o].media] # None
  <2>1. CASE o = r
    BY <1>6, <1>9, <2>1
  <2>2. CASE o # r
    <3>1. pc[o] = pc'[o] /\ call'[o] = call[o]
      BY <1>7, <2>2
    <3>2. call[o].media \in Requests
      BY <1>9, <3>1, Fields DEF Path, OnPath, StepsOf, Answered
    <3> QED
      BY <1>3, <1>9, <3>1, <3>2 DEF MediaTypes
  <2> QED
    BY <2>1, <2>2
<1>10. \A o, x \in Requests : x \in marking'[o] => assets'[x] # None
  BY <1>3, <1>5
<1> QED
  BY <1>3, <1>4, <1>5, <1>8, <1>9, <1>10 DEF MediaTypes

(* A package is cleaned up after by a call that has dropped nothing yet.   *)
LEMMA CleaningTyped ==
  ASSUME Path, MediaTypes, PackageTypes, NEW r \in Requests, PackageStep(r)
  PROVE  MediaTypes'
<1> USE DEF Goto
<1>1. /\ OnPath(r) /\ r \in DOMAIN pc /\ r \in DOMAIN call
      /\ \A o \in Requests \ {r} : pc'[o] = pc[o] /\ call'[o] = call[o]
      /\ pc'[r] \notin {"stat", "dropBad", "markBad", "markUploaded"}
  <2>1. Moves(r)
    BY PackagesMove
  <2> QED
    BY <2>1, OperationsOfSteps DEF Moves, StepOf, OnPath, StepsOf, Path, Answered
<1>2. CASE CleanUpOrphans(r)
  <2>1. /\ marking' = [marking EXCEPT ![r] = {x \in orphans[r] : assets[x] # None}]
        /\ dropping' = [dropping EXCEPT ![r] =
             {x \in orphans[r] : assets[x] # None /\ assets[x].status = "uploaded"}]
        /\ UNCHANGED <<assets, objects>> /\ pc'[r] = "clean"
    BY <1>1, <1>2 DEF CleanUpOrphans, CleanUp
  <2>2. /\ marking' \in [Requests -> SUBSET Requests]
        /\ dropping' \in [Requests -> SUBSET Requests]
        /\ \A o \in Requests : dropping'[o] \subseteq marking'[o]
        /\ \A o, x \in Requests : x \in marking'[o] => assets[x] # None
        /\ \A o \in Requests \ {r} : dropping'[o] = dropping[o]
    BY <2>1 DEF MediaTypes, PackageTypes
  <2> QED
    BY <1>1, <2>1, <2>2 DEF MediaTypes
<1>3. CASE UNCHANGED media
  <2>1. pc'[r] = pc[r] \/ pc[r] \notin {"clean", "failed"}
    BY <1>3 DEF PackageStep, ReceivePackage, Begin, FindApproved, CreatePackage, FindOwned,
       UpdatePackage, ReadMedia, DeletePackage, CleanUpOrphans, FindActive, FindCampaign,
       FindLink, CreateLink, DeleteLink
  <2> QED
    BY <1>1, <1>3, <2>1 DEF MediaTypes, media
<1> QED
  BY <1>2, <1>3 DEF PackageStep, ReceivePackage, FindApproved, CreatePackage, FindOwned,
     UpdatePackage, ReadMedia, DeletePackage, FindActive, FindCampaign, FindLink, CreateLink,
     DeleteLink, media

(* Packages: a link is to a package that is there.                         *)
LEMMA PackageTyped ==
  ASSUME Path, PackageTypes, NEW r \in Requests, PackageStep(r)
  PROVE  PackageTypes'
<1> USE DEF PackageTypes
<1>1. /\ OnPath(r) /\ None \notin PackageRows
  BY PackageAssumption DEF Path
<1>2. CASE CreatePackage(r)
  <2>1. [agency |-> call[r].user, active |-> call[r].active, media |-> call[r].media]
          \in PackageRows
    BY <1>1, <1>2, Fields DEF CreatePackage, OnPath, StepsOf, Answered, PackageRows
  <2> QED
    BY <1>1, <1>2, <2>1 DEF CreatePackage
<1>3. CASE UpdatePackage(r)
  <2> DEFINE c == call[r]
             x == call[r].package
             new == IF c.media = None THEN packages[x].media ELSE c.media
  <2>1. CASE IsPackage(x)
    <3>1. /\ x \in Requests /\ packages[x] \in PackageRows
          /\ c.active \in BOOLEAN /\ new \in SUBSET Requests
      BY <1>1, <1>3, <2>1, Fields DEF UpdatePackage, OnPath, StepsOf, Answered, IsPackage,
         PackageRows
    <3>2. packages' = [packages EXCEPT ![x] = [@ EXCEPT !.active = c.active, !.media = new]]
      BY <1>3, <2>1, <3>1 DEF UpdatePackage
    <3>3. [packages[x] EXCEPT !.active = c.active, !.media = new] \in PackageRows
      BY <3>1 DEF PackageRows
    <3>4. /\ packages' \in [Requests -> PackageRows \cup {None}]
          /\ \A p \in Requests : packages[p] # None => packages'[p] # None
      <4> HIDE DEF new
      <4> QED
        BY <1>1, <3>2, <3>3
    <3>5. orphans' \in [Requests -> SUBSET Requests]
      BY <1>3, <2>1, <3>1 DEF UpdatePackage, Replaced, PackageRows
    <3> QED
      BY <1>3, <3>4, <3>5 DEF UpdatePackage
  <2>2. CASE ~IsPackage(x)
    BY <1>3, <2>2 DEF UpdatePackage
  <2> QED
    BY <2>1, <2>2
<1>4. CASE ReadMedia(r)
  BY <1>1, <1>4, Fields DEF ReadMedia, OnPath, StepsOf, Answered, IsPackage, PackageRows
<1>5. CASE DeletePackage(r)
  BY <1>1, <1>5 DEF DeletePackage
<1>6. CASE CreateLink(r)
  BY <1>1, <1>6, Fields DEF CreateLink, OnPath, StepsOf, Answered, IsPackage, LinkOf
<1>7. CASE DeleteLink(r)
  BY <1>7 DEF DeleteLink
<1>8. CASE UNCHANGED catalogue
  BY <1>8 DEF catalogue
<1> QED
  BY <1>2, <1>3, <1>4, <1>5, <1>6, <1>7, <1>8 DEF PackageStep, ReceivePackage, FindApproved,
     FindOwned, CleanUpOrphans, FindActive, FindCampaign, FindLink, catalogue

-----------------------------------------------------------------------------
Scripted ==
  /\ load \in Loads
  /\ \A r \in Requests : call[r] \in Script[load][r] \cup {None}

Typed ==
  Scripted /\ AgencyTypes /\ ReviewTypes /\ InviteTypes /\ MediaTypes /\ PackageTypes

LEMMA ScriptedStep ==
  ASSUME Path, Scripted, NEW r \in Requests, StepOfMarket(r)
  PROVE  Scripted'
<1>1. Moves(r) /\ r \in DOMAIN call
  BY MarketMoves DEF Path
<1>2. ASSUME NEW Kind, Begin(r, Kind)
      PROVE  call'[r] \in Script[load][r]
  BY <1>1, <1>2 DEF Begin
<1>3. call'[r] \in Script[load][r] \/ call'[r] = call[r]
  <2>1. CASE AgencyStep(r)
    BY <1>2, <2>1 DEF AgencyStep, ReceiveAgency, FindAgency, CreateAgency, FindPendingAgency,
       Decide, MailDecision, FindBadge, CreateBadge, RevokeBadge, Guard, FindStaff,
       CreateStaff, MailStaff, WriteStaff, DeleteStaff, Goto
  <2>2. CASE ReviewStep(r)
    BY <1>2, <2>2 DEF ReviewStep, ReceiveReview, FindReviewed, FindReview, CreateReview,
       FindOwnReview, WriteReview, DeleteReview, Aggregate, StoreScore, Goto
  <2>3. CASE InviteStep(r)
    BY <1>2, <2>3 DEF InviteStep, ReceiveInvite, CheckPlatformRole, CreateInvite, MailInvite,
       FindInvite, RevokeInvite, AcceptInvite, GrantRole, Goto
  <2>4. CASE MediaStep(r)
    BY <1>2, <2>4 DEF MediaStep, ReceiveMedia, CreateAsset, Put, FindAsset, Stat, DropBad,
       MarkBad, MarkUploaded, DropFile, MarkDeleted, Cleaned, calls, Goto
  <2>5. CASE PackageStep(r)
    BY <1>2, <2>5 DEF PackageStep, ReceivePackage, FindApproved, CreatePackage, FindOwned,
       UpdatePackage, ReadMedia, DeletePackage, CleanUpOrphans, CleanUp, FindActive,
       FindCampaign, FindLink, CreateLink, DeleteLink, Goto
  <2>6. CASE Fail(r)
    BY <2>6 DEF Fail, Break, Goto
  <2> QED
    BY <2>1, <2>2, <2>3, <2>4, <2>5, <2>6 DEF StepOfMarket
<1> QED
  BY <1>1, <1>3 DEF Scripted, Moves, StepOf

(* Where a step leads, component by component.                             *)
LEMMA LeadsTo ==
  ASSUME Path, NEW r \in Requests, StepOfMarket(r)
  PROVE  /\ ~AgencyStep(r) => pc'[r] \notin AgencySteps
         /\ ~ReviewStep(r) => pc'[r] \notin ReviewSteps
         /\ ~InviteStep(r) => pc'[r] \notin InviteSteps
         /\ ~MediaStep(r) => pc'[r] \notin MediaSteps \ {"cleanup", "clean"}
         /\ ~PackageStep(r) => pc'[r] \notin PackageSteps \ {"cleanup"}
<1>1. Moves(r) /\ OnPath(r)'
  BY MarketMoves DEF Moves
<1>2. CASE Fail(r)
  BY <1>2 DEF Fail, Break, Goto, Path, AgencySteps, ReviewSteps, InviteSteps, MediaSteps,
     PackageSteps
<1> USE DEF OnPath, StepsOf, Answered, AgencySteps, ReviewSteps, InviteSteps, MediaSteps,
            PackageSteps
<1>3. CASE AgencyStep(r)
  BY <1>1, <1>3, OperationsOfSteps
<1>4. CASE ReviewStep(r)
  BY <1>1, <1>4, OperationsOfSteps
<1>5. CASE InviteStep(r)
  BY <1>1, <1>5, OperationsOfSteps
<1>6. CASE MediaStep(r)
  <2>1. r \in DOMAIN pc
    BY DEF Path
  <2>2. pc'[r] \in MediaSteps \cup Answered
    <3>1. CASE ReceiveMedia(r)
      BY <2>1, <3>1 DEF ReceiveMedia, StartAt, FirstMediaStep
    <3>2. CASE ~ReceiveMedia(r)
      BY <1>6, <2>1, <3>2 DEF MediaStep, CreateAsset, Put, FindAsset, Stat, DropBad, MarkBad,
         MarkUploaded, DropFile, MarkDeleted, Cleaned, calls, Goto
    <3> QED
      BY <3>1, <3>2
  <2> QED
    BY <1>6, <2>2
<1>7. CASE PackageStep(r)
  BY <1>1, <1>7, OperationsOfSteps
<1> QED
  BY <1>2, <1>3, <1>4, <1>5, <1>6, <1>7 DEF StepOfMarket

LEMMA TypedStep ==
  ASSUME IInv, Path, Typed, NEW r \in Requests, StepOfMarket(r)
  PROVE  Typed'
<1>1. /\ Moves(r)
      /\ \A o \in Requests \ {r} : pc'[o] = pc[o] /\ call'[o] = call[o]
  BY MarketMoves DEF Moves, StepOf
<1>2. AgencyTypes'
  <2>1. CASE AgencyStep(r)
    BY <2>1, AgencyTyped DEF Typed
  <2>2. CASE ~AgencyStep(r)
    <3>1. UNCHANGED agencyTables /\ pc'[r] \notin {"createAgency", "createStaff"}
      BY <2>2, LeadsTo DEF StepOfMarket, Fail, tables, AgencySteps
    <3> QED
      BY <1>1, <3>1 DEF Typed, AgencyTypes, agencyTables
  <2> QED
    BY <2>1, <2>2
<1>3. ReviewTypes'
  <2>1. CASE ReviewStep(r)
    BY <2>1, ReviewTyped DEF Typed
  <2>2. CASE ~ReviewStep(r)
    <3>1. UNCHANGED reviewing /\ pc'[r] \notin ReviewSteps
      BY <2>2, LeadsTo DEF StepOfMarket, Fail, tables
    <3> QED
      BY <1>1, <3>1 DEF Typed, ReviewTypes, reviewing, ReviewSteps
  <2> QED
    BY <2>1, <2>2
<1>4. InviteTypes'
  <2>1. CASE InviteStep(r)
    BY <2>1, InviteTyped DEF Typed
  <2>2. CASE ~InviteStep(r)
    <3>1. UNCHANGED inviting
      BY <2>2 DEF StepOfMarket, Fail, tables
    <3> QED
      BY <3>1 DEF Typed, InviteTypes, inviting
  <2> QED
    BY <2>1, <2>2
<1>5. MediaTypes'
  <2>1. CASE MediaStep(r) \/ PackageStep(r)
    BY <2>1, MediaTyped, CleaningTyped DEF Typed
  <2>2. CASE ~MediaStep(r) /\ ~PackageStep(r)
    <3>1. /\ UNCHANGED media
          /\ pc'[r] \notin {"stat", "dropBad", "markBad", "markUploaded"}
      BY <2>2, LeadsTo DEF StepOfMarket, Fail, tables, MediaSteps
    <3>2. pc[r] = "clean" => pc'[r] = "failed"
      BY <2>2 DEF StepOfMarket, Fail, Break, Goto, Path, AgencyStep, ReceiveAgency, Begin,
         FindAgency, CreateAgency, FindPendingAgency, Decide, MailDecision, FindBadge,
         CreateBadge, RevokeBadge, Guard, FindStaff, CreateStaff, MailStaff, WriteStaff,
         DeleteStaff, ReviewStep, ReceiveReview, FindReviewed, FindReview, CreateReview,
         FindOwnReview, WriteReview, DeleteReview, Aggregate, StoreScore, InviteStep,
         ReceiveInvite, CheckPlatformRole, CreateInvite, MailInvite, FindInvite,
         RevokeInvite, AcceptInvite, GrantRole
    <3>3. pc[r] # "failed"
      BY <2>2 DEF StepOfMarket, Fail, Break, Active, Answered, AgencyStep, ReceiveAgency,
         Begin, FindAgency, CreateAgency, FindPendingAgency, Decide, MailDecision, FindBadge,
         CreateBadge, RevokeBadge, Guard, FindStaff, CreateStaff, MailStaff, WriteStaff,
         DeleteStaff, ReviewStep, ReceiveReview, FindReviewed, FindReview, CreateReview,
         FindOwnReview, WriteReview, DeleteReview, Aggregate, StoreScore, InviteStep,
         ReceiveInvite, CheckPlatformRole, CreateInvite, MailInvite, FindInvite,
         RevokeInvite, AcceptInvite, GrantRole
    <3> QED
      BY <1>1, <3>1, <3>2, <3>3 DEF Typed, MediaTypes, media
  <2> QED
    BY <2>1, <2>2
<1>6. PackageTypes'
  <2>1. CASE PackageStep(r)
    BY <2>1, PackageTyped DEF Typed
  <2>2. CASE ~PackageStep(r)
    <3>1. UNCHANGED catalogue
      BY <2>2 DEF StepOfMarket, Fail, tables
    <3> QED
      BY <3>1 DEF Typed, PackageTypes, catalogue
  <2> QED
    BY <2>1, <2>2
<1> QED
  BY <1>2, <1>3, <1>4, <1>5, <1>6, ScriptedStep DEF Typed

(* Where a step comes from, component by component.                        *)
LEMMA ComesFrom ==
  ASSUME Path, NEW r \in Requests
  PROVE  /\ AgencyStep(r) => pc[r] \in {"idle"} \cup AgencySteps
         /\ ReviewStep(r) => pc[r] \in {"idle"} \cup ReviewSteps
         /\ InviteStep(r) => pc[r] \in {"idle"} \cup InviteSteps
         /\ MediaStep(r) => pc[r] \in {"idle"} \cup MediaSteps
         /\ PackageStep(r) => pc[r] \in {"idle"} \cup PackageSteps
         /\ Fail(r) => pc[r] \notin {"idle"} \cup Answered /\ pc'[r] = "failed"
<1>1. AgencyStep(r) => pc[r] \in {"idle"} \cup AgencySteps
  BY DEF AgencySteps, AgencyStep, ReceiveAgency, Begin, FindAgency, CreateAgency,
     FindPendingAgency, Decide, MailDecision, FindBadge, CreateBadge, RevokeBadge, Guard,
     FindStaff, CreateStaff, MailStaff, WriteStaff, DeleteStaff
<1>2. ReviewStep(r) => pc[r] \in {"idle"} \cup ReviewSteps
  BY DEF ReviewSteps, ReviewStep, ReceiveReview, Begin, FindReviewed, FindReview, CreateReview,
     FindOwnReview, WriteReview, DeleteReview, Aggregate, StoreScore
<1>3. InviteStep(r) => pc[r] \in {"idle"} \cup InviteSteps
  BY DEF InviteSteps, InviteStep, ReceiveInvite, Begin, CheckPlatformRole, CreateInvite,
     MailInvite, FindInvite, RevokeInvite, AcceptInvite, GrantRole
<1>4. MediaStep(r) => pc[r] \in {"idle"} \cup MediaSteps
  BY DEF MediaSteps, MediaStep, ReceiveMedia, Begin, CreateAsset, Put, FindAsset, Stat, DropBad,
     MarkBad, MarkUploaded, DropFile, MarkDeleted, Cleaned
<1>5. PackageStep(r) => pc[r] \in {"idle"} \cup PackageSteps
  BY DEF PackageSteps, PackageStep, ReceivePackage, Begin, FindApproved, CreatePackage,
     FindOwned, UpdatePackage, ReadMedia, DeletePackage, CleanUpOrphans, FindActive,
     FindCampaign, FindLink, CreateLink, DeleteLink
<1>6. Fail(r) => pc[r] \notin {"idle"} \cup Answered /\ pc'[r] = "failed"
  BY DEF Fail, Break, Goto, Active, Path
<1> QED
  BY <1>1, <1>2, <1>3, <1>4, <1>5, <1>6
-----------------------------------------------------------------------------
(* What a call may rely on while others are served with it.                *)
LEMMA OthersStay ==
  ASSUME EarlierIsOver, NEW r \in Requests, StepOf(r), NEW q \in Requests \ {r}
  PROVE  /\ pc'[q] = pc[q] /\ call'[q] = call[q] /\ earlier'[q] = earlier[q]
         /\ r \in Rivals(q)'
         /\ \A o \in Rivals(q) : o \in Rivals(q)' /\ call'[o] = call[o]
BY OthersMeet DEF StepOf, Rivals

LEMMA MoverStays ==
  ASSUME EarlierIsOver, NEW r \in Requests, StepOf(r), pc[r] # "idle", pc'[r] \notin Answered
  PROVE  /\ call'[r] = call[r] /\ earlier'[r] = earlier[r]
         /\ \A o \in Rivals(r) : o \in Rivals(r)' /\ pc'[o] = pc[o] /\ call'[o] = call[o]
BY RivalsStay DEF StepOf, Rivals

(* Calls that were over before another stay as they are.                   *)
LEMMA EarlierStays ==
  ASSUME EarlierIsOver, NEW r \in Requests, StepOf(r), NEW q \in Requests, NEW s \in earlier[q]
  PROVE  s \in Requests \ {r} /\ pc'[s] = pc[s] /\ call'[s] = call[s]
BY DEF EarlierIsOver, StepOf

-----------------------------------------------------------------------------
(* Invites.                                                                *)

(* The calls that have spent an invite.                                    *)
Spenders ==
  {r \in Requests : /\ pc[r] \in {"grantRole", "ok"}
                    /\ call[r].op \in {"revokeInvite", "acceptInvite"}}

(* No call that was over before r was received has spent its invite.       *)
InviteIsUnspent(r) ==
  \A s \in earlier[r] : ~(pc[s] = "ok" /\ Spends(call[s], call[r].invite))

(* An invite is issued once, and one that was spent is never pending.      *)
InviteOver ==
  /\ \A r \in Requests :
       /\ invites[r] # None => pc[r] \in {"mailInvite"} \cup Answered
       /\ pc[r] \in {"revokeInvite", "acceptInvite"} =>
            invites[call[r].invite] # None /\ InviteIsUnspent(r)
  /\ \A r \in Spenders : invites[call[r].invite] \in {"accepted", "revoked"}

LEMMA UnspentStays ==
  ASSUME EarlierIsOver, NEW r \in Requests, StepOf(r), NEW q \in Requests,
         InviteIsUnspent(q), call'[q] = call[q], earlier'[q] = earlier[q]
  PROVE  InviteIsUnspent(q)'
BY EarlierStays DEF InviteIsUnspent, Spends

(* What a step changes of the calls that have spent an invite.             *)
LEMMA SpendersStay ==
  ASSUME Path, NEW r \in Requests, StepOfMarket(r), r \notin Spenders' \ Spenders
  PROVE  \A o \in Spenders' : o \in Spenders /\ call'[o] = call[o]
<1>1. /\ \A o \in Requests \ {r} : pc'[o] = pc[o] /\ call'[o] = call[o]
      /\ pc[r] # "idle" => call'[r] = call[r]
  BY MarketMoves DEF Moves, StepOf
<1> QED
  BY <1>1 DEF Spenders

LEMMA InvitesOverlap ==
  ASSUME Path, EarlierIsOver, InviteTypes, InviteOver, NEW r \in Requests, InviteStep(r),
         StepOfMarket(r)
  PROVE  InviteOver'
<1> USE DEF Goto, Answered
<1>1. /\ OnPath(r) /\ r \in DOMAIN pc /\ r \in DOMAIN call /\ StepOf(r)
      /\ invites \in [Requests -> {"pending", "accepted", "revoked", None}]
      /\ None \notin {"pending", "accepted", "revoked"}
  BY AdminAssumption, MarketMoves DEF Path, InviteTypes, Moves
<1>2. \A q \in Requests \ {r} : /\ pc'[q] = pc[q] /\ call'[q] = call[q]
                                /\ pc'[q] \in {"revokeInvite", "acceptInvite"} =>
                                     InviteIsUnspent(q)'
  BY <1>1, OthersStay, UnspentStays DEF InviteOver
<1>3. \A o \in Spenders : call[o].invite \in Requests
  BY Fields DEF Spenders, Path, OnPath, StepsOf
<1>4. \A x \in Requests : invites[x] # None => invites'[x] # None
  BY <1>1 DEF InviteStep, ReceiveInvite, CheckPlatformRole, CreateInvite, MailInvite,
     FindInvite, RevokeInvite, AcceptInvite, GrantRole, inviting
<1>5. \A q \in Requests \ {r} :
        pc'[q] \in {"revokeInvite", "acceptInvite"} => invites'[call'[q].invite] # None
  <2>1. \A q \in Requests : pc[q] \in {"revokeInvite", "acceptInvite"} =>
          call[q].invite \in Requests
    BY Fields DEF Path, OnPath, StepsOf
  <2> QED
    BY <1>2, <1>4, <2>1 DEF InviteOver
<1>6. CASE ReceiveInvite(r) \/ CheckPlatformRole(r) \/ MailInvite(r) \/ GrantRole(r)
  <2>1. UNCHANGED invites /\ pc'[r] \notin {"revokeInvite", "acceptInvite"}
    BY <1>1, <1>6 DEF ReceiveInvite, StartAt, CheckPlatformRole, MailInvite, GrantRole, inviting
  <2>2. r \in Spenders' => r \in Spenders
    BY <1>1, <1>6 DEF ReceiveInvite, StartAt, CheckPlatformRole, MailInvite, GrantRole,
       Spenders, OnPath, StepsOf
  <2>3. invites[r] # None => pc'[r] \in {"mailInvite"} \cup Answered
    BY <1>1, <1>6 DEF ReceiveInvite, Begin, StartAt, CheckPlatformRole, MailInvite, GrantRole,
       InviteOver
  <2>4. \A o \in Spenders' : invites'[call'[o].invite] \in {"accepted", "revoked"}
    BY <2>1, <2>2, SpendersStay DEF InviteOver
  <2> QED
    BY <1>2, <1>5, <2>1, <2>3, <2>4 DEF InviteOver
<1>7. CASE CreateInvite(r)
  <2>1. /\ invites' = [invites EXCEPT ![r] = "pending"] /\ pc'[r] = "mailInvite"
        /\ pc[r] = "createInvite" /\ invites[r] = None
    BY <1>1, <1>7 DEF CreateInvite, InviteOver
  <2>2. \A o \in Spenders' : o \in Spenders /\ call'[o] = call[o] /\ call[o].invite # r
    BY <1>1, <2>1, SpendersStay DEF Spenders, InviteOver
  <2>3. \A o \in Requests \ {r} : invites'[o] = invites[o]
    BY <1>1, <2>1
  <2>4. \A o \in Spenders' : invites'[call'[o].invite] \in {"accepted", "revoked"}
    BY <1>3, <2>2, <2>3 DEF InviteOver
  <2> QED
    BY <1>2, <1>5, <2>1, <2>3, <2>4 DEF InviteOver
<1>8. CASE FindInvite(r)
  <2>1. /\ UNCHANGED invites /\ r \notin Spenders' /\ invites[r] = None
        /\ pc'[r] \in {"failed", "revokeInvite", "acceptInvite"} /\ pc[r] # "idle"
        /\ pc'[r] \in {"revokeInvite", "acceptInvite"} => invites[call[r].invite] = "pending"
        /\ UNCHANGED call
    BY <1>1, <1>8 DEF FindInvite, inviting, Spenders, InviteOver
  <2>2. pc'[r] \in {"revokeInvite", "acceptInvite"} => InviteIsUnspent(r)
    <3> SUFFICES ASSUME invites[call[r].invite] = "pending",
                        NEW s \in earlier[r], pc[s] = "ok", Spends(call[s], call[r].invite)
                 PROVE  FALSE
      BY <2>1 DEF InviteIsUnspent
    <3>1. s \in Spenders /\ call[s].invite = call[r].invite
      BY DEF Spenders, Spends, EarlierIsOver
    <3> QED
      BY <1>1, <3>1 DEF InviteOver
  <2>3. pc'[r] \in {"revokeInvite", "acceptInvite"} => InviteIsUnspent(r)'
    BY <1>1, <2>1, <2>2, MoverStays, UnspentStays
  <2>4. \A o \in Spenders' : invites'[call'[o].invite] \in {"accepted", "revoked"}
    BY <2>1, SpendersStay DEF InviteOver
  <2>5. \A q \in Requests : invites'[q] # None => pc'[q] \in {"mailInvite"} \cup Answered
    BY <1>2, <2>1 DEF InviteOver
  <2>6. \A q \in Requests : pc'[q] \in {"revokeInvite", "acceptInvite"} =>
          invites'[call'[q].invite] # None /\ InviteIsUnspent(q)'
    BY <1>1, <1>2, <1>5, <2>1, <2>3
  <2> QED
    BY <2>4, <2>5, <2>6 DEF InviteOver
<1>9. CASE RevokeInvite(r) \/ AcceptInvite(r)
  <2> DEFINE x == call[r].invite
  <2>1. /\ x \in Requests /\ call[r].op \in {"revokeInvite", "acceptInvite"}
        /\ UNCHANGED call /\ pc'[r] \in {"grantRole", "ok"} /\ invites[r] = None
    BY <1>1, <1>9, Fields DEF RevokeInvite, AcceptInvite, InviteOver, OnPath, StepsOf
  <2>2. PICK status \in {"accepted", "revoked"} : invites' = [invites EXCEPT ![x] = status]
    BY <1>9 DEF RevokeInvite, AcceptInvite
  <2>3. \A o \in Requests : invites'[o] = IF o = x THEN status ELSE invites[o]
    BY <1>1, <2>1, <2>2
  <2>4. x # r /\ pc[x] \in {"mailInvite"} \cup Answered
    BY <1>9, <2>1 DEF RevokeInvite, AcceptInvite, InviteOver
  <2>5. \A o \in Spenders' : invites'[call'[o].invite] \in {"accepted", "revoked"}
    BY <1>2, <1>3, <2>1, <2>3 DEF Spenders, InviteOver
  <2>6. \A o \in Requests : invites'[o] # None => pc'[o] \in {"mailInvite"} \cup Answered
    BY <1>2, <1>5, <2>1, <2>3, <2>4 DEF InviteOver
  <2> QED
    BY <1>2, <1>5, <2>1, <2>5, <2>6 DEF InviteOver
<1> QED
  BY <1>6, <1>7, <1>8, <1>9 DEF InviteStep
-----------------------------------------------------------------------------
(* Approvals.                                                              *)

(* No approval of the same agency was over before r was received.          *)
NotYetApproved(r) ==
  \A s \in earlier[r] :
    ~(pc[s] = "ok" /\ call[s].op = "approve" /\ call[s].agency = call[r].agency)

(* What was approved is not pending again, and has its badge in the end.   *)
AgencyOver ==
  \A r \in Requests :
    /\ pc[r] \in {"mailDecision", "findBadge", "createBadge", "ok"} /\ call[r].op = "approve" =>
         agencies[call[r].agency] \in {"approved", "rejected"}
    /\ pc[r] = "ok" /\ call[r].op = "approve" => badges[call[r].agency] # None
    /\ pc[r] = "decide" => NotYetApproved(r)

LEMMA NotYetApprovedStays ==
  ASSUME EarlierIsOver, NEW r \in Requests, StepOf(r), NEW q \in Requests,
         NotYetApproved(q), call'[q] = call[q], earlier'[q] = earlier[q]
  PROVE  NotYetApproved(q)'
BY EarlierStays DEF NotYetApproved

(* Who is decided on stays decided on, and who has a badge keeps the row.  *)
LEMMA DecisionsStay ==
  ASSUME IInv, AgencyTypes, NEW r \in Requests, AgencyStep(r)
  PROVE  \A a \in AgencyAccounts :
           /\ agencies[a] \in {"approved", "rejected"} =>
                agencies'[a] \in {"approved", "rejected"}
           /\ badges[a] # None => badges'[a] # None
           /\ agencies'[a] # agencies[a] =>
                agencies[a] = None \/ (pc[r] = "decide" /\ call[r].agency = a)
<1>1. None \notin {"pending_verification", "approved", "rejected", "active", "revoked"}
  BY AgencyAssumption DEF Statuses
<1>2. CASE CreateAgency(r)
  BY <1>1, <1>2 DEF CreateAgency, AgencyTypes
<1>3. CASE Decide(r)
  BY <1>1, <1>3 DEF Decide, AgencyTypes
<1>4. CASE CreateBadge(r) \/ RevokeBadge(r)
  BY <1>1, <1>4 DEF CreateBadge, RevokeBadge, AgencyTypes
<1>5. CASE ~CreateAgency(r) /\ ~Decide(r) /\ ~CreateBadge(r) /\ ~RevokeBadge(r)
  BY <1>5 DEF AgencyStep, ReceiveAgency, FindAgency, FindPendingAgency, MailDecision,
     FindBadge, Guard, FindStaff, CreateStaff, MailStaff, WriteStaff, DeleteStaff,
     agencyTables
<1> QED
  BY <1>2, <1>3, <1>4, <1>5

LEMMA AgenciesOverlap ==
  ASSUME IInv, Path, EarlierIsOver, AgencyTypes, AgencyOver, NEW r \in Requests, AgencyStep(r),
         StepOf(r)
  PROVE  AgencyOver'
<1> USE DEF Goto, Answered
<1>1. /\ OnPath(r) /\ r \in DOMAIN pc /\ r \in DOMAIN call
      /\ None \notin {"pending_verification", "approved", "rejected", "active", "revoked"}
  BY AgencyAssumption DEF Path, Statuses
<1>2. \A o \in Requests : pc[o] # "idle" /\ call[o].op \in {"approve", "reject", "assignBadge",
                                            "revokeBadge"} => call[o].agency \in AgencyAccounts
  BY Fields DEF Path, OnPath
<1>3. ASSUME NEW q \in Requests \ {r}
      PROVE  /\ pc'[q] \in {"mailDecision", "findBadge", "createBadge", "ok"}
                  /\ call'[q].op = "approve" =>
                    agencies'[call'[q].agency] \in {"approved", "rejected"}
             /\ pc'[q] = "ok" /\ call'[q].op = "approve" => badges'[call'[q].agency] # None
             /\ pc'[q] = "decide" => NotYetApproved(q)'
  <2>1. pc'[q] = pc[q] /\ call'[q] = call[q] /\ earlier'[q] = earlier[q]
    BY OthersStay
  <2>2. pc'[q] = "decide" => NotYetApproved(q)'
    BY <2>1, NotYetApprovedStays DEF AgencyOver
  <2>3. pc[q] \in {"mailDecision", "findBadge", "createBadge", "ok"} /\ call[q].op = "approve" =>
          call[q].agency \in AgencyAccounts
    BY <1>2
  <2> QED
    BY <2>1, <2>2, <2>3, DecisionsStay DEF AgencyOver
<1>4. /\ pc'[r] \in {"mailDecision", "findBadge", "createBadge", "ok"}
           /\ call'[r].op = "approve" => agencies'[call'[r].agency] \in {"approved", "rejected"}
      /\ pc'[r] = "ok" /\ call'[r].op = "approve" => badges'[call'[r].agency] # None
      /\ pc'[r] = "decide" => NotYetApproved(r)'
  <2>1. CASE ReceiveAgency(r)
    <3>1. call'[r] \in MarketCalls
      BY <2>1, AgenciesMove DEF Moves, OnPath, ReceiveAgency, StartAt, FirstAgencyStep, Path
    <3> QED
      BY <1>1, <2>1, <3>1 DEF ReceiveAgency, StartAt, FirstAgencyStep
  <2>2. CASE FindPendingAgency(r)
    <3>1. /\ UNCHANGED <<agencies, badges, call>> /\ pc'[r] \in {"decide", "failed"}
          /\ pc'[r] = "decide" => agencies[call[r].agency] = "pending_verification"
          /\ pc[r] # "idle"
      BY <1>1, <2>2 DEF FindPendingAgency, agencyTables
    <3>2. pc'[r] = "decide" => NotYetApproved(r)
      BY <1>1, <3>1 DEF AgencyOver, NotYetApproved, EarlierIsOver
    <3>3. pc'[r] = "decide" => NotYetApproved(r)'
      BY <3>1, <3>2, MoverStays, NotYetApprovedStays
    <3> QED
      BY <3>1, <3>3
  <2>3. CASE Decide(r)
    BY <1>1, <1>2, <2>3 DEF Decide, AgencyTypes, OnPath, StepsOf
  <2>4. CASE MailDecision(r) \/ FindBadge(r)
    BY <1>1, <2>4 DEF MailDecision, FindBadge, agencyTables, AgencyOver
  <2>5. CASE CreateBadge(r)
    BY <1>1, <1>2, <2>5 DEF CreateBadge, AgencyTypes, AgencyOver
  <2>6. CASE \/ FindAgency(r) \/ CreateAgency(r) \/ RevokeBadge(r) \/ Guard(r) \/ CreateStaff(r)
             \/ MailStaff(r) \/ WriteStaff(r) \/ DeleteStaff(r)
    BY <1>1, <2>6 DEF FindAgency, CreateAgency, RevokeBadge, Guard, CreateStaff, MailStaff,
       WriteStaff, DeleteStaff, OnPath, StepsOf
  <2>7. CASE FindStaff(r)
    BY <1>1, <2>7 DEF FindStaff, AfterStaff, StaffStep, OnPath, StepsOf
  <2> QED
    BY <2>1, <2>2, <2>3, <2>4, <2>5, <2>6, <2>7 DEF AgencyStep
<1> QED
  BY <1>3, <1>4 DEF AgencyOver

-----------------------------------------------------------------------------
(* Averages.                                                               *)

(* What AverageOf computes, of any rows.                                   *)
RowsOf(rows, a) == {x \in Requests : rows[x] # None /\ rows[x].agency = a}

RatingsIn(rows, a) == [x \in RowsOf(rows, a) |-> rows[x].rating]

AverageIn(rows, a) ==
  IF RowsOf(rows, a) = {} THEN None
  ELSE [sum |-> (CHOOSE sum : IsSum(sum, SUBSET RowsOf(rows, a), RatingsIn(rows, a)))
                  [RowsOf(rows, a)],
        count |-> Cardinality(RowsOf(rows, a))]

LEMMA AverageIs ==
  ASSUME NEW a
  PROVE  AverageOf(a) = AverageIn(reviews, a)
<1> DEFINE S == ReviewsOf(a)
           f == [x \in S |-> RatingOf(x)]
           it == CHOOSE sum : IsSum(sum, SUBSET S, f)
<1>1. S = RowsOf(reviews, a) /\ f = RatingsIn(reviews, a)
  BY DEF ReviewsOf, RowsOf, RatingsIn, RatingOf
<1>2. it = CHOOSE iter : iter =
             [s \in SUBSET S |-> IF s = {} THEN 0 ELSE RatingOf(CHOOSE x \in s : TRUE)
                                             + iter[s \ {CHOOSE x \in s : TRUE}]]
  BY DEF IsSum, Pick
<1>3. it[S] = MapThenSumSet(RatingOf, S)
  BY <1>2 DEF MapThenSumSet, MapThenFoldSet
<1>4. AverageOf(a) = IF S = {} THEN None ELSE [sum |-> it[S], count |-> Cardinality(S)]
  BY <1>3 DEF AverageOf
<1> HIDE DEF S, f
<1> QED
  BY <1>1, <1>4 DEF AverageIn

LEMMA AverageIsNext ==
  ASSUME NEW a
  PROVE  AverageOf(a)' = AverageIn(reviews', a)
<1> DEFINE S == ReviewsOf(a)'
           f == [x \in S |-> RatingOf(x)']
           it == CHOOSE sum : IsSum(sum, SUBSET S, f)
<1>1. S = RowsOf(reviews', a) /\ f = RatingsIn(reviews', a)
  BY DEF ReviewsOf, RowsOf, RatingsIn, RatingOf
<1>2. it = CHOOSE iter : iter =
             [s \in SUBSET S |-> IF s = {} THEN 0 ELSE RatingOf(CHOOSE x \in s : TRUE)'
                                             + iter[s \ {CHOOSE x \in s : TRUE}]]
  BY DEF IsSum, Pick
<1>3. it[S] = MapThenSumSet(RatingOf, ReviewsOf(a))'
  BY <1>2 DEF MapThenSumSet, MapThenFoldSet
<1>4. AverageOf(a)' = IF S = {} THEN None ELSE [sum |-> it[S], count |-> Cardinality(S)]
  BY <1>3 DEF AverageOf
<1> HIDE DEF S, f
<1> QED
  BY <1>1, <1>4 DEF AverageIn

(* The average of an agency changes only with a row of its own.            *)
LEMMA AverageMoves ==
  ASSUME NEW old, NEW new, NEW a,
         \A x \in Requests :
           \/ new[x] = old[x]
           \/ /\ old[x] = None \/ old[x].agency # a
              /\ new[x] = None \/ new[x].agency # a
  PROVE  AverageIn(new, a) = AverageIn(old, a)
<1>1. RowsOf(new, a) = RowsOf(old, a)
  BY DEF RowsOf
<1>2. RatingsIn(new, a) = RatingsIn(old, a)
  BY <1>1 DEF RatingsIn, RowsOf
<1> QED
  BY <1>1, <1>2 DEF AverageIn

(* A call that has set about changing the ratings of an agency.            *)
Spoils(o, a) == Rates(o) /\ about[o] = a /\ pc[o] \notin {"findReviewed", "findOwnReview"}

Rated == {"aggregate", "storeScore"} \cup Answered

(* A call changes reviews of the agency it is about only, and the average  *)
(* it has read is the one there is, but for calls served at the same time. *)
ReviewOver ==
  \A r \in Requests :
    /\ reviews[r] # None => pc[r] \in Rated
    /\ pc[r] \in {"findReview", "createReview"} => about[r] = call[r].agency
    /\ pc[r] \in {"writeReview", "deleteReview"} =>
         /\ pc[call[r].review] \in Rated
         /\ reviews[call[r].review] # None => reviews[call[r].review].agency = about[r]
    /\ pc[r] = "storeScore" => \/ average[r] = AverageIn(reviews, about[r])
                               \/ \E o \in Rivals(r) : Spoils(o, about[r])

(* A call goes on with the agency it is about.                             *)
LEMMA ReviewGoesOn ==
  ASSUME Path, ReviewTypes, NEW r \in Requests, StepOfMarket(r)
  PROVE  /\ pc[r] \in Rated => pc'[r] \in Rated
         /\ pc[r] # "idle" => pc'[r] \notin {"findReviewed", "findOwnReview"}
         /\ \A o \in Requests : about'[o] = about[o]
              \/ (o = r /\ pc[r] \in {"findReviewed", "findOwnReview"})
<1>1. Moves(r) /\ r \in DOMAIN pc
  BY MarketMoves DEF Path
<1>2. CASE ReviewStep(r)
  <2>1. /\ pc[r] \in Rated => pc'[r] \in Rated
        /\ pc[r] # "idle" => pc'[r] \notin {"findReviewed", "findOwnReview"}
    BY <1>1, <1>2 DEF ReviewStep, ReceiveReview, Begin, FindReviewed, FindReview, CreateReview,
       FindOwnReview, WriteReview, DeleteReview, Aggregate, StoreScore, Goto, Rated, Moves,
       StepOf, Answered
  <2>2. \A o \in Requests : about'[o] = about[o]
              \/ (o = r /\ pc[r] \in {"findReviewed", "findOwnReview"})
    BY <1>2 DEF ReviewStep, ReceiveReview, FindReviewed, FindReview, CreateReview,
       FindOwnReview, WriteReview, DeleteReview, Aggregate, StoreScore, reviewing, ReviewTypes
  <2> QED
    BY <2>1, <2>2
<1>3. CASE ~ReviewStep(r)
  <2>1. UNCHANGED about /\ pc'[r] \notin ReviewSteps
    BY <1>3, LeadsTo DEF StepOfMarket, Fail, tables, reviewing
  <2>2. pc[r] \in Rated => pc'[r] = "failed"
    BY <1>1, <1>3, ComesFrom DEF StepOfMarket, Rated, Moves, StepOf, Answered, AgencySteps,
       InviteSteps, MediaSteps, PackageSteps
  <2> QED
    BY <2>1, <2>2 DEF ReviewSteps, Rated, Answered
<1> QED
  BY <1>2, <1>3

LEMMA SpoilsStays ==
  ASSUME Path, ReviewTypes, NEW r \in Requests, StepOfMarket(r),
         NEW o \in Requests, NEW a, Spoils(o, a)
  PROVE  Spoils(o, a)'
<1>1. StepOf(r)
  BY MarketMoves DEF Moves
<1>2. CASE o = r
  BY <1>1, <1>2, ReviewGoesOn DEF Spoils, Rates, StepOf
<1>3. CASE o # r
  BY <1>1, <1>3, ReviewGoesOn DEF Spoils, Rates, StepOf
<1> QED
  BY <1>2, <1>3

(* A call that has met another which spoils its average still has.         *)
LEMMA SpoiledStays ==
  ASSUME Path, ReviewTypes, EarlierIsOver, NEW r \in Requests, StepOfMarket(r),
         NEW q \in Requests, pc[q] = "storeScore", pc'[q] = "storeScore",
         \E o \in Rivals(q) : Spoils(o, about[q])
  PROVE  \E o \in Rivals(q)' : Spoils(o, about[q])'
<1>1. StepOf(r)
  BY MarketMoves DEF Moves
<1>2. about'[q] = about[q]
  BY ReviewGoesOn
<1>3. PICK o \in Rivals(q) : Spoils(o, about[q])
  OBVIOUS
<1>4. o \in Rivals(q)' /\ o \in Requests
  BY <1>1, OthersStay, MoverStays DEF Rivals, Answered
<1>5. Spoils(o, about[q])'
  <2>1. ASSUME NEW a, Spoils(o, a)
        PROVE  Spoils(o, a)'
    BY <1>4, <2>1, SpoilsStays
  <2> QED
    BY <1>2, <1>3, <2>1 DEF Spoils
<1> QED
  BY <1>4, <1>5

(* What a step changes is one review, of the agency the call is about.     *)
LEMMA ReviewRowsMove ==
  ASSUME Path, ReviewTypes, ReviewOver, NEW r \in Requests, ReviewStep(r), StepOfMarket(r),
         NEW x \in Requests, reviews'[x] # reviews[x]
  PROVE  /\ Spoils(r, about[r])
         /\ reviews[x] = None \/ reviews[x].agency = about[r]
         /\ reviews'[x] = None \/ reviews'[x].agency = about[r]
         /\ reviews'[x] # None => reviews[x] # None \/ (x = r /\ pc'[r] = "aggregate")
<1>1. /\ OnPath(r) /\ r \in DOMAIN pc /\ None \notin ReviewRows
      /\ reviews \in [Requests -> ReviewRows \cup {None}]
  BY RatingAssumption DEF Path, ReviewTypes
<1>2. CASE CreateReview(r)
  <2>1. /\ x = r /\ about[r] = call[r].agency /\ pc[r] = "createReview"
        /\ reviews'[x] = [agency |-> call[r].agency, user |-> call[r].user,
                          rating |-> call[r].rating]
        /\ pc'[r] = "aggregate"
    BY <1>1, <1>2 DEF CreateReview, ReviewOver, Goto
  <2>2. call[r].op = "review"
    BY <1>1, <2>1 DEF OnPath, StepsOf, Answered
  <2>3. reviews[x] = None
    BY <2>1 DEF ReviewOver, Rated, Answered
  <2> QED
    BY <2>1, <2>2, <2>3 DEF Spoils, Rates
<1>3. CASE WriteReview(r)
  <2>1. /\ x = call[r].review /\ reviews[x] # None /\ call[r].rating # None
        /\ reviews' = [reviews EXCEPT ![x].rating = call[r].rating]
        /\ pc[r] = "writeReview"
    BY <1>1, <1>3 DEF WriteReview
  <2>2. reviews[x] \in ReviewRows /\ reviews[x].agency = about[r]
    BY <1>1, <2>1 DEF ReviewOver
  <2>3. reviews'[x] = [reviews[x] EXCEPT !.rating = call[r].rating]
    BY <1>1, <2>1
  <2>4. reviews'[x].agency = reviews[x].agency
    BY <2>2, <2>3 DEF ReviewRows
  <2>5. call[r].op = "editReview"
    BY <1>1, <2>1 DEF OnPath, StepsOf, Answered
  <2> QED
    BY <2>1, <2>2, <2>4, <2>5 DEF Spoils, Rates
<1>4. CASE DeleteReview(r)
  <2>1. x = call[r].review /\ reviews[x] # None /\ reviews'[x] = None /\ pc[r] = "deleteReview"
    BY <1>1, <1>4 DEF DeleteReview
  <2>2. call[r].op = "removeReview" /\ reviews[x].agency = about[r]
    BY <1>1, <2>1 DEF OnPath, StepsOf, Answered, ReviewOver
  <2> QED
    BY <2>1, <2>2 DEF Spoils, Rates
<1> QED
  BY <1>2, <1>3, <1>4 DEF ReviewStep, ReceiveReview, FindReviewed, FindReview, FindOwnReview,
     Aggregate, StoreScore, reviewing

(* While another call takes a step.                                        *)
LEMMA AveragesOverlap ==
  ASSUME Path, ReviewTypes, EarlierIsOver, ReviewOver, DOMAIN average = Requests,
         NEW r \in Requests, ReviewStep(r), StepOfMarket(r),
         NEW q \in Requests \ {r}, pc[q] = "storeScore"
  PROVE  average'[q] = AverageIn(reviews', about'[q])
           \/ \E o \in Rivals(q)' : Spoils(o, about[q])'
<1>1. /\ StepOf(r) /\ about'[q] = about[q] /\ average'[q] = average[q]
  BY MarketMoves, ReviewGoesOn DEF Moves, ReviewStep, ReceiveReview, FindReviewed, FindReview,
     CreateReview, FindOwnReview, WriteReview, DeleteReview, Aggregate, StoreScore, reviewing
<1>2. /\ pc'[q] = "storeScore" /\ r \in Rivals(q)'
  BY <1>1, OthersStay
<1>3. CASE \E o \in Rivals(q) : Spoils(o, about[q])
  BY <1>2, <1>3, SpoiledStays
<1>4. CASE average[q] = AverageIn(reviews, about[q]) /\ Spoils(r, about[q])
  <2>1. ASSUME NEW a, Spoils(r, a)
        PROVE  Spoils(r, a)'
    BY <2>1, SpoilsStays
  <2>2. Spoils(r, about[q])'
    BY <1>1, <1>4, <2>1 DEF Spoils
  <2> QED
    BY <1>2, <2>2
<1>5. CASE average[q] = AverageIn(reviews, about[q]) /\ ~Spoils(r, about[q])
  <2>1. ASSUME NEW x \in Requests, reviews'[x] # reviews[x]
        PROVE  /\ reviews[x] = None \/ reviews[x].agency # about[q]
               /\ reviews'[x] = None \/ reviews'[x].agency # about[q]
    BY <1>5, <2>1, ReviewRowsMove
  <2>2. AverageIn(reviews', about[q]) = AverageIn(reviews, about[q])
    BY <2>1, AverageMoves
  <2> QED
    BY <1>1, <1>5, <2>2
<1> QED
  BY <1>3, <1>4, <1>5 DEF ReviewOver

LEMMA ReviewsOverlap ==
  ASSUME Path, ReviewTypes, EarlierIsOver, ReviewOver, DOMAIN average = Requests,
         NEW r \in Requests, ReviewStep(r), StepOfMarket(r)
  PROVE  ReviewOver' /\ DOMAIN average' = Requests
<1>1. /\ StepOf(r) /\ OnPath(r) /\ r \in DOMAIN pc /\ r \in DOMAIN about
      /\ \A o \in Requests \ {r} : pc'[o] = pc[o] /\ call'[o] = call[o]
  BY MarketMoves DEF Moves, StepOf, Path, ReviewTypes
<1>2. \A o \in Requests : reviews'[o] # None => pc'[o] \in Rated
  <2> SUFFICES ASSUME NEW o \in Requests, reviews'[o] # None
               PROVE  pc'[o] \in Rated
    OBVIOUS
  <2>1. reviews[o] # None \/ (o = r /\ pc'[r] = "aggregate")
    BY ReviewRowsMove
  <2> QED
    BY <1>1, <2>1, ReviewGoesOn DEF ReviewOver, Rated
<1>3. \A o \in Requests :
        pc'[o] \in {"findReview", "createReview"} => about'[o] = call'[o].agency
  <2>1. pc'[r] \in {"findReview", "createReview"} => about'[r] = call'[r].agency
    BY <1>1 DEF ReviewStep, ReceiveReview, StartAt, FindReviewed, FindReview, CreateReview,
       FindOwnReview, WriteReview, DeleteReview, Aggregate, StoreScore, reviewing, Goto,
       ReviewOver
  <2> QED
    BY <1>1, <2>1, ReviewGoesOn DEF ReviewOver
<1>4. ASSUME NEW o \in Requests, pc'[o] \in {"writeReview", "deleteReview"}
      PROVE  /\ pc'[call'[o].review] \in Rated
             /\ reviews'[call'[o].review] # None =>
                  reviews'[call'[o].review].agency = about'[o]
  <2> DEFINE x == call'[o].review
  <2>1. /\ pc[o] # "idle" /\ call'[o] = call[o] /\ x \in Requests
        /\ o = r => FindOwnReview(r)
    <3>1. o = r => FindOwnReview(r) /\ pc[r] # "idle" /\ call'[r] = call[r]
      BY <1>1, <1>4 DEF ReviewStep, ReceiveReview, StartAt, FindReviewed, FindReview,
         CreateReview, FindOwnReview, WriteReview, DeleteReview, Aggregate, StoreScore, Goto
    <3>2. o # r => pc[o] # "idle" /\ call'[o] = call[o]
      BY <1>1, <1>4
    <3>3. pc[o] \in {"findOwnReview", "writeReview", "deleteReview"}
      BY <1>1, <1>4, <3>1 DEF FindOwnReview
    <3>4. call[o].review \in Requests
      BY <3>3, Fields DEF Path, OnPath, StepsOf, Answered
    <3> QED
      BY <3>1, <3>2, <3>4
  <2>2. CASE o = r
    <3>1. /\ reviews[x] # None /\ about'[r] = reviews[x].agency /\ UNCHANGED reviews
      BY <1>1, <1>4, <2>1, <2>2 DEF FindOwnReview, Goto
    <3>2. pc'[x] \in Rated
      BY <1>2, <2>1, <3>1
    <3> QED
      BY <2>2, <3>1, <3>2
  <2>3. CASE o # r
    <3>1. /\ pc[x] \in Rated /\ about'[o] = about[o]
          /\ reviews[x] # None => reviews[x].agency = about[o]
      BY <1>1, <1>4, <2>1, <2>3, ReviewGoesOn DEF ReviewOver
    <3>2. pc'[x] \in Rated
      BY <1>1, <2>1, <3>1, ReviewGoesOn
    <3>3. reviews'[x] # None => reviews[x] # None
      <4>1. ReviewStep(r) /\ pc[r] \in Rated => UNCHANGED reviews
        BY DEF ReviewStep, ReceiveReview, Begin, FindReviewed, FindReview, CreateReview,
           FindOwnReview, WriteReview, DeleteReview, Aggregate, StoreScore, Rated, Answered,
           reviewing
      <4> QED
        BY <2>1, <3>1, <4>1, ReviewRowsMove
    <3>4. reviews'[x] # None => reviews'[x].agency = about[o]
      BY <2>1, <3>1, <3>3, ReviewRowsMove
    <3> QED
      BY <3>1, <3>2, <3>4
  <2> QED
    BY <2>2, <2>3
<1>5. ASSUME NEW o \in Requests, pc'[o] = "storeScore"
      PROVE  \/ average'[o] = AverageIn(reviews', about'[o])
             \/ \E p \in Rivals(o)' : Spoils(p, about[o])'
  <2>1. CASE o # r
    BY <1>1, <1>5, <2>1, AveragesOverlap
  <2>2. CASE o = r
    <3>1. Aggregate(r)
      BY <1>1, <1>5, <2>2 DEF ReviewStep, ReceiveReview, StartAt, FindReviewed, FindReview,
         CreateReview, FindOwnReview, WriteReview, DeleteReview, StoreScore, Goto
    <3>2. average'[r] = AverageOf(about[r]) /\ UNCHANGED <<reviews, about>>
      BY <3>1 DEF Aggregate
    <3>3. AverageOf(about[r]) = AverageIn(reviews, about[r])
      BY AverageIs
    <3> QED
      BY <2>2, <3>2, <3>3
  <2> QED
    BY <2>1, <2>2
<1>6. DOMAIN average' = Requests
  BY DEF ReviewStep, ReceiveReview, FindReviewed, FindReview, CreateReview, FindOwnReview,
     WriteReview, DeleteReview, Aggregate, StoreScore, reviewing
<1> QED
  BY <1>2, <1>3, <1>4, <1>5, <1>6 DEF ReviewOver

-----------------------------------------------------------------------------
(* Media: a call that confirms an asset has found its file there, a        *)
(* clean-up is about media that its package had, and what is taken away is *)
(* about to be marked, all but for calls served at the same time.          *)
Takers(r, x) == \E o \in Rivals(r) : Removes(call[o], x)

MediaOver ==
  \A r \in Requests :
    /\ pc[r] = "markUploaded" => objects[call[r].media] # None \/ Takers(r, call[r].media)
    /\ pc[r] = "markBad" => marking[r] = {call[r].media}
    /\ marking[r] # {} => pc[r] \in {"markBad", "clean", "failed"}

(* A file is taken from the bucket by a confirmation or a clean-up only.   *)
LEMMA FilesAreTaken ==
  ASSUME Path, MediaTypes, NEW r \in Requests, MediaStep(r), StepOfMarket(r),
         NEW x \in Requests, objects[x] # None, objects'[x] = None
  PROVE  /\ Removes(call'[r], x) /\ x \in marking'[r]
         /\ pc[r] # "idle" /\ assets'[x] = assets[x]
<1>1. /\ OnPath(r) /\ r \in DOMAIN marking /\ None \notin {"good", "bad"} /\ StepOf(r)
      /\ objects \in [Requests -> {"good", "bad", None}]
  BY MediaAssumption, MarketMoves DEF Path, MediaTypes, Moves
<1>2. CASE Put(r)
  BY <1>1, <1>2, Fields DEF Put, OnPath, StepsOf, Answered
<1>3. CASE DropBad(r)
  <2>1. pc[r] = "dropBad" /\ call'[r] = call[r] /\ call[r].media = x /\ UNCHANGED assets
    BY <1>1, <1>3 DEF DropBad, Goto
  <2>2. call[r].op = "confirm"
    BY <1>1, <2>1 DEF OnPath, StepsOf, Answered
  <2> QED
    BY <1>1, <1>3, <2>1, <2>2 DEF DropBad, Removes
<1>4. CASE DropFile(r)
  <2>1. /\ pc[r] = "clean" /\ call'[r] = call[r] /\ marking'[r] = marking[r] /\ UNCHANGED assets
        /\ x \in dropping[r]
    BY <1>1, <1>4 DEF DropFile, calls
  <2>2. call[r].op \in {"updatePackage", "removePackage"}
    BY <1>1, <2>1 DEF OnPath, StepsOf, Answered
  <2> QED
    BY <2>1, <2>2 DEF Removes, MediaTypes
<1> QED
  BY <1>2, <1>3, <1>4 DEF MediaStep, ReceiveMedia, CreateAsset, FindAsset, Stat, MarkBad,
     MarkUploaded, MarkDeleted, Cleaned, media

LEMMA MediaOverlaps ==
  ASSUME Path, MediaTypes, EarlierIsOver, MediaOver, NEW r \in Requests, MediaStep(r),
         StepOfMarket(r)
  PROVE  MediaOver'
<1> USE DEF Goto, media
<1>1. /\ OnPath(r) /\ r \in DOMAIN pc /\ r \in DOMAIN call /\ StepOf(r)
      /\ None \notin {"good", "bad"}
      /\ \A q \in Requests : pc[q] = "markUploaded" => call[q].media \in Requests
  <2>1. \A q \in Requests : pc[q] = "markUploaded" => call[q].media \in Requests
    BY Fields DEF Path, OnPath, StepsOf, Answered
  <2>2. OnPath(r) /\ r \in DOMAIN pc /\ r \in DOMAIN call
    BY DEF Path
  <2> QED
    BY <2>1, <2>2, MediaAssumption, MarketMoves DEF Moves
<1>2. /\ \A o \in Requests \ {r} : marking'[o] = marking[o]
      /\ DOMAIN marking' = Requests
  BY DEF MediaStep, ReceiveMedia, CreateAsset, Put, FindAsset, Stat, DropBad, MarkBad,
     MarkUploaded, DropFile, MarkDeleted, Cleaned, MediaTypes
<1>3. ASSUME NEW q \in Requests \ {r}
      PROVE  /\ pc'[q] = "markUploaded" => \/ objects'[call'[q].media] # None
                                           \/ Takers(q, call[q].media)'
             /\ pc'[q] = "markBad" => marking'[q] = {call'[q].media}
             /\ marking'[q] # {} => pc'[q] \in {"markBad", "clean", "failed"}
  <2>1. /\ pc'[q] = pc[q] /\ call'[q] = call[q] /\ r \in Rivals(q)'
        /\ \A o \in Rivals(q) : o \in Rivals(q)' /\ call'[o] = call[o]
    BY <1>1, OthersStay
  <2>2. ASSUME pc[q] = "markUploaded"
        PROVE  objects'[call'[q].media] # None \/ Takers(q, call[q].media)'
    <3>1. CASE Takers(q, call[q].media)
      BY <2>1, <3>1 DEF Takers, Removes
    <3>2. CASE objects[call[q].media] # None
      <4>1. objects'[call[q].media] = None => Removes(call'[r], call[q].media)
        BY <1>1, <2>2, <3>2, FilesAreTaken
      <4> QED
        BY <2>1, <4>1 DEF Takers
    <3> QED
      BY <2>2, <3>1, <3>2 DEF MediaOver
  <2> QED
    BY <1>2, <2>1, <2>2 DEF MediaOver
<1>4. /\ pc'[r] = "markUploaded" => \/ objects'[call'[r].media] # None
                                    \/ Takers(r, call[r].media)'
      /\ pc'[r] = "markBad" => marking'[r] = {call'[r].media}
      /\ marking'[r] # {} => pc'[r] \in {"markBad", "clean", "failed"}
  <2> USE DEF MediaOver, MediaTypes
  <2>1. CASE ReceiveMedia(r) \/ CreateAsset(r) \/ Put(r) \/ FindAsset(r) \/ MarkUploaded(r)
    BY <1>1, <2>1 DEF ReceiveMedia, Begin, StartAt, FirstMediaStep, CreateAsset, Put, FindAsset,
       MarkUploaded
  <2>2. CASE Stat(r)
    BY <1>1, <2>2 DEF Stat
  <2>3. CASE DropBad(r) \/ MarkBad(r)
    BY <1>1, <2>3 DEF DropBad, MarkBad
  <2>4. CASE DropFile(r) \/ MarkDeleted(r)
    BY <1>1, <2>4 DEF DropFile, MarkDeleted, calls
  <2>5. CASE Cleaned(r)
    BY <1>1, <2>5 DEF Cleaned
  <2> QED
    BY <2>1, <2>2, <2>3, <2>4, <2>5 DEF MediaStep
<1>5. ASSUME NEW q \in Requests
      PROVE  /\ pc'[q] = "markUploaded" => \/ objects'[call'[q].media] # None
                                           \/ Takers(q, call[q].media)'
             /\ pc'[q] = "markBad" => marking'[q] = {call'[q].media}
             /\ marking'[q] # {} => pc'[q] \in {"markBad", "clean", "failed"}
  BY <1>3, <1>4
<1> QED
  BY <1>5 DEF MediaOver

(* Only a step that takes an asset for uploaded can lose its file.         *)
LEMMA LosesOnlyUploaded ==
  ASSUME Path, MediaTypes, MediaOver, NEW r \in Requests, MediaStep(r), StepOfMarket(r),
         NEW x \in Requests, IsLost(x)', ~IsLost(x)
  PROVE  pc[r] = "markUploaded" /\ call[r].media = x /\ objects[x] = None
<1> USE DEF Goto, media
<1>1. /\ OnPath(r) /\ r \in DOMAIN marking
      /\ \A y \in Requests : assets[y] # None => assets[y] \in Assets
      /\ \A o \in Requests \ {r} : marking'[o] = marking[o]
  BY DEF Path, MediaTypes, MediaStep, ReceiveMedia, CreateAsset, Put, FindAsset, Stat, DropBad,
     MarkBad, MarkUploaded, DropFile, MarkDeleted, Cleaned
<1>2. objects[x] = None
  BY FilesAreTaken DEF IsLost
<1>3. CASE x \in marking[r]
  <2>1. marking'[r] # marking[r]
    BY <1>3 DEF IsLost
  <2>2. pc[r] \in {"markBad", "clean"}
    BY <1>3, <2>1 DEF MediaOver, MediaStep, ReceiveMedia, Begin, CreateAsset, Put, FindAsset, Stat,
       DropBad, MarkBad, MarkUploaded, DropFile, MarkDeleted, Cleaned
  <2>3. CASE MarkBad(r)
    BY <1>1, <1>3, <2>3 DEF MarkBad, Mark, MediaOver, MediaTypes, IsLost, Assets
  <2>4. CASE MarkDeleted(r)
    <3>1. PICK y \in marking[r] : /\ marking' = [marking EXCEPT ![r] = @ \ {y}]
                                  /\ assets' = [assets EXCEPT ![y].status = "deleted"]
      BY <2>4 DEF MarkDeleted, Mark
    <3>2. y = x
      BY <1>1, <1>3, <3>1 DEF IsLost, MediaTypes
    <3>3. assets[x] # None /\ x \in DOMAIN assets
      BY <1>3 DEF MediaTypes
    <3> QED
      BY <1>1, <3>1, <3>2, <3>3 DEF IsLost, Assets
  <2> QED
    BY <2>1, <2>2, <2>3, <2>4 DEF MediaStep, ReceiveMedia, Begin, CreateAsset, Put, FindAsset,
       Stat, DropBad, MarkUploaded, DropFile, Cleaned
<1>4. CASE x \notin marking[r]
  <2>1. \A o \in Requests : x \notin marking[o]
    BY <1>1, <1>4 DEF IsLost
  <2>2. assets[x] = None \/ assets[x].status # "uploaded"
    BY <1>2, <2>1 DEF IsLost
  <2>3. assets'[x] # assets[x] /\ assets'[x].status = "uploaded"
    BY <2>2 DEF IsLost
  <2>4. CASE CreateAsset(r)
    BY <1>1, <2>3, <2>4 DEF CreateAsset, MediaTypes
  <2>5. CASE MarkBad(r)
    BY <1>1, <2>3, <2>5 DEF MarkBad, Mark, MediaTypes, Assets
  <2>6. CASE MarkUploaded(r)
    BY <1>2, <2>3, <2>6 DEF MarkUploaded, Mark, MediaTypes
  <2>7. CASE MarkDeleted(r)
    BY <1>1, <2>3, <2>7 DEF MarkDeleted, Mark, MediaTypes, Assets
  <2> QED
    BY <2>3, <2>4, <2>5, <2>6, <2>7 DEF MediaStep, ReceiveMedia, Put, FindAsset, Stat, DropBad,
       DropFile, Cleaned
<1> QED
  BY <1>2, <1>3, <1>4

-----------------------------------------------------------------------------
(* Packages.                                                               *)

(* Another call has changed the package that r cleans up after.            *)
Updaters(r) ==
  \E o \in Rivals(r) : call[o].op = "updatePackage" /\ call[o].package = call[r].package

(* A package is created once. What a call cleans up, its package had, and  *)
(* has no more, unless another call has changed it meanwhile.              *)
PackageOver ==
  \A r \in Requests :
    /\ packages[r] # None => pc[r] \in Answered
    /\ pc[r] \in {"updatePackage", "readMedia", "deletePackage", "cleanup", "clean"} =>
         pc[call[r].package] \in Answered
    /\ pc[r] = "clean" => marking[r] \subseteq orphans[r]
    /\ pc[r] \in {"cleanup", "clean"} /\ IsPackage(call[r].package) =>
         orphans[r] \cap packages[call[r].package].media = {} \/ Updaters(r)

(* Another call changes a package that is there only if it updates it.     *)
LEMMA PackagesMoveOn ==
  ASSUME Path, PackageTypes, PackageOver, NEW r \in Requests, PackageStep(r), StepOfMarket(r),
         NEW x \in Requests, pc[x] \in Answered, packages'[x] # packages[x]
  PROVE  packages'[x] = None \/ (call'[r].op = "updatePackage" /\ call'[r].package = x
                                   /\ packages[x] # None)
<1>1. /\ OnPath(r) /\ r \in DOMAIN pc /\ packages \in [Requests -> PackageRows \cup {None}]
  BY DEF Path, PackageTypes
<1>2. CASE CreatePackage(r)
  BY <1>1, <1>2 DEF CreatePackage, Answered
<1>3. CASE UpdatePackage(r)
  <2>1. /\ pc[r] = "updatePackage" /\ call'[r] = call[r] /\ call[r].package = x
        /\ packages[x] # None
    BY <1>1, <1>3 DEF UpdatePackage, Goto, IsPackage
  <2>2. call[r].op = "updatePackage"
    BY <1>1, <2>1 DEF OnPath, StepsOf, Answered
  <2> QED
    BY <2>1, <2>2
<1>4. CASE DeletePackage(r)
  BY <1>1, <1>4 DEF DeletePackage, IsPackage
<1> QED
  BY <1>2, <1>3, <1>4 DEF PackageStep, ReceivePackage, FindApproved, FindOwned, ReadMedia,
     CleanUpOrphans, FindActive, FindCampaign, FindLink, CreateLink, DeleteLink, catalogue

(* Other calls keep what they know, and so does one that is being served.  *)
LEMMA UpdatersStay ==
  ASSUME EarlierIsOver, NEW r \in Requests, StepOf(r), NEW q \in Requests,
         Updaters(q), pc[q] # "idle", pc'[q] \notin Answered
  PROVE  Updaters(q)'
<1>1. PICK o \in Rivals(q) : call[o].op = "updatePackage" /\ call[o].package = call[q].package
  BY DEF Updaters
<1>2. o \in Rivals(q)' /\ call'[o] = call[o]
  BY OthersStay, MoverStays
<1>3. call'[q] = call[q]
  BY DEF StepOf
<1> QED
  BY <1>1, <1>2, <1>3 DEF Updaters

LEMMA PackagesOverlap ==
  ASSUME Path, EarlierIsOver, PackageTypes, MediaTypes, MediaOver, PackageOver,
         NEW r \in Requests, PackageStep(r), StepOfMarket(r)
  PROVE  MediaOver' /\ PackageOver'
<1> USE DEF Goto
<1>1. /\ OnPath(r) /\ r \in DOMAIN pc /\ r \in DOMAIN call /\ StepOf(r)
      /\ None \notin PackageRows
  BY PackageAssumption, MarketMoves DEF Path, Moves
<1>2. \A q \in Requests \ {r} :
        /\ pc'[q] = pc[q] /\ call'[q] = call[q] /\ r \in Rivals(q)'
        /\ \A o \in Rivals(q) : o \in Rivals(q)' /\ call'[o] = call[o]
  BY <1>1, OthersStay
<1>3. \A q \in Requests :
        pc[q] \in {"updatePackage", "readMedia", "deletePackage", "cleanup", "clean"} =>
          call[q].package \in Requests
  BY Fields DEF Path, OnPath, StepsOf, Answered
<1>4. /\ UNCHANGED <<assets, objects>>
      /\ \A o \in Requests \ {r} : marking'[o] = marking[o] /\ orphans'[o] = orphans[o]
      /\ marking'[r] # marking[r] => CleanUpOrphans(r)
  BY DEF PackageStep, ReceivePackage, FindApproved, CreatePackage, FindOwned, UpdatePackage,
     ReadMedia, DeletePackage, CleanUpOrphans, CleanUp, FindActive, FindCampaign, FindLink,
     CreateLink, DeleteLink, media, catalogue, MediaTypes, PackageTypes
<1>5. MediaOver'
  <2>1. /\ pc'[r] \notin {"markUploaded", "markBad"}
        /\ pc[r] \notin {"markUploaded", "markBad", "clean", "failed"}
        /\ CleanUpOrphans(r) => pc'[r] = "clean"
    BY <1>1 DEF PackageStep, ReceivePackage, Begin, StartAt, FirstPackageStep, FindApproved,
       CreatePackage, FindOwned, UpdatePackage, ReadMedia, DeletePackage, CleanUpOrphans,
       CleanUp, FindActive, FindCampaign, FindLink, CreateLink, DeleteLink
  <2>2. \A q \in Requests : marking'[q] # {} => pc'[q] \in {"markBad", "clean", "failed"}
    BY <1>2, <1>4, <2>1 DEF MediaOver
  <2>3. \A q \in Requests \ {r} : Takers(q, call[q].media) => Takers(q, call[q].media)'
    BY <1>2 DEF Takers, Removes
  <2>4. \A q \in Requests : pc'[q] = "markUploaded" => \/ objects'[call'[q].media] # None
                                                       \/ Takers(q, call[q].media)'
    BY <1>2, <1>4, <2>1, <2>3 DEF MediaOver
  <2>5. \A q \in Requests : pc'[q] = "markBad" => marking'[q] = {call'[q].media}
    BY <1>2, <1>4, <2>1 DEF MediaOver
  <2> QED
    BY <2>2, <2>4, <2>5 DEF MediaOver
<1>6. \A q \in Requests : packages'[q] # None => pc'[q] \in Answered
  <2>1. packages'[r] # None => pc'[r] \in Answered
    BY <1>1 DEF PackageStep, ReceivePackage, Begin, FindApproved, CreatePackage, FindOwned,
       UpdatePackage, ReadMedia, DeletePackage, CleanUpOrphans, FindActive, FindCampaign,
       FindLink, CreateLink, DeleteLink, catalogue, PackageOver, Answered, PackageTypes,
       IsPackage
  <2>2. \A q \in Requests \ {r} : packages'[q] # None => packages[q] # None
    BY DEF PackageStep, ReceivePackage, FindApproved, CreatePackage, FindOwned, UpdatePackage,
       ReadMedia, DeletePackage, CleanUpOrphans, FindActive, FindCampaign, FindLink,
       CreateLink, DeleteLink, catalogue, PackageTypes, IsPackage
  <2> QED
    BY <1>2, <2>1, <2>2 DEF PackageOver
<1>7. \A q \in Requests : pc[q] \in Answered => pc'[q] = pc[q]
  BY <1>1 DEF StepOf
<1>8. ASSUME NEW q \in Requests \ {r}
      PROVE  /\ pc'[q] \in {"updatePackage", "readMedia", "deletePackage", "cleanup", "clean"} =>
                  pc'[call'[q].package] \in Answered
             /\ pc'[q] = "clean" => marking'[q] \subseteq orphans'[q]
             /\ pc'[q] \in {"cleanup", "clean"} /\ IsPackage(call[q].package)' =>
                  \/ orphans'[q] \cap packages'[call'[q].package].media = {}
                  \/ Updaters(q)'
  <2>1. pc'[q] = pc[q] /\ call'[q] = call[q] /\ orphans'[q] = orphans[q]
    BY <1>2, <1>4
  <2>2. pc'[q] \in {"updatePackage", "readMedia", "deletePackage", "cleanup", "clean"} =>
          pc[call[q].package] \in Answered /\ pc'[call[q].package] \in Answered
    BY <1>3, <1>7, <2>1 DEF PackageOver
  <2>3. pc'[q] = "clean" => marking'[q] \subseteq orphans'[q]
    BY <1>4, <2>1 DEF PackageOver
  <2>4. ASSUME pc'[q] \in {"cleanup", "clean"}, packages'[call[q].package] # None
        PROVE  orphans[q] \cap packages'[call[q].package].media = {} \/ Updaters(q)'
    <3> DEFINE x == call[q].package
    <3>1. x \in Requests /\ pc[x] \in Answered
      BY <1>3, <2>1, <2>2, <2>4
    <3>2. CASE packages'[x] # packages[x]
      <4>1. call'[r].op = "updatePackage" /\ call'[r].package = x
        BY <2>4, <3>1, <3>2, PackagesMoveOn
      <4> QED
        BY <1>2, <2>1, <4>1 DEF Updaters
    <3>3. CASE packages'[x] = packages[x]
      <4>1. orphans[q] \cap packages[x].media = {} \/ Updaters(q)
        BY <2>1, <2>4, <3>3 DEF PackageOver, IsPackage
      <4>2. Updaters(q) => Updaters(q)'
        BY <1>2, <2>1 DEF Updaters
      <4> QED
        BY <3>3, <4>1, <4>2
    <3> QED
      BY <3>2, <3>3
  <2> QED
    BY <2>1, <2>2, <2>3, <2>4 DEF IsPackage
<1>9. /\ pc'[r] \in {"updatePackage", "readMedia", "deletePackage", "cleanup", "clean"} =>
           pc'[call'[r].package] \in Answered
      /\ pc'[r] = "clean" => marking'[r] \subseteq orphans'[r]
      /\ pc'[r] \in {"cleanup", "clean"} /\ IsPackage(call[r].package)' =>
           orphans'[r] \cap packages'[call'[r].package].media = {} \/ Updaters(r)'
  <2>1. CASE FindOwned(r)
    <3>1. /\ pc[r] = "findOwned" /\ UNCHANGED call
          /\ pc'[r] \in {"updatePackage", "readMedia", "failed"}
          /\ pc'[r] # "failed" => packages[call[r].package] # None
      BY <1>1, <2>1 DEF FindOwned, IsPackage
    <3>2. call[r].package \in Requests
      BY <1>1, <3>1, Fields DEF OnPath, StepsOf, Answered
    <3>3. pc'[r] # "failed" => pc'[call[r].package] \in Answered
      BY <1>7, <3>1, <3>2 DEF PackageOver
    <3> QED
      BY <3>1, <3>3 DEF Answered
  <2>2. CASE UpdatePackage(r)
    <3> DEFINE x == call[r].package
    <3>1. /\ pc[r] = "updatePackage" /\ UNCHANGED call
          /\ pc'[r] \in {"ok", "cleanup", "failed"} /\ x \in Requests
      BY <1>1, <1>3, <2>2 DEF UpdatePackage
    <3>2. pc'[x] \in Answered
      BY <1>7, <3>1 DEF PackageOver
    <3>3. pc'[r] = "cleanup" => orphans'[r] \cap packages'[x].media = {}
      <4>1. CASE IsPackage(x) /\ call[r].media # None
        <5>1. /\ packages' = [packages EXCEPT ![x].active = call[r].active,
                                              ![x].media = call[r].media]
              /\ orphans'[r] = packages[x].media \ call[r].media
          BY <2>2, <4>1 DEF UpdatePackage, Replaced, PackageTypes
        <5>2. packages[x] \in PackageRows
          BY <3>1, <4>1 DEF PackageTypes, IsPackage
        <5>3. packages'[x].media = call[r].media
          BY <3>1, <5>1, <5>2 DEF PackageTypes, PackageRows
        <5> QED
          BY <5>1, <5>3
      <4>2. CASE ~(IsPackage(x) /\ call[r].media # None)
        BY <1>1, <2>2, <4>2 DEF UpdatePackage, PackageTypes
      <4> QED
        BY <4>1, <4>2
    <3> QED
      BY <3>1, <3>2, <3>3
  <2>3. CASE ReadMedia(r)
    <3>1. pc[r] = "readMedia" /\ UNCHANGED call /\ pc'[r] = "deletePackage"
      BY <1>1, <2>3 DEF ReadMedia
    <3>2. pc'[call[r].package] \in Answered
      BY <1>3, <1>7, <3>1 DEF PackageOver
    <3> QED
      BY <3>1, <3>2
  <2>4. CASE DeletePackage(r)
    <3>1. /\ pc[r] = "deletePackage" /\ UNCHANGED call /\ pc'[r] \in {"ok", "cleanup", "failed"}
          /\ pc'[r] = "cleanup" => packages'[call[r].package] = None
      BY <1>1, <1>3, <2>4 DEF DeletePackage, IsPackage, PackageTypes
    <3>2. pc'[call[r].package] \in Answered
      BY <1>3, <1>7, <3>1 DEF PackageOver
    <3> QED
      BY <3>1, <3>2 DEF IsPackage
  <2>5. CASE CleanUpOrphans(r)
    <3>1. /\ pc[r] = "cleanup" /\ pc'[r] = "clean" /\ UNCHANGED <<call, packages, orphans>>
          /\ marking'[r] \subseteq orphans[r]
      BY <1>1, <2>5 DEF CleanUpOrphans, CleanUp, catalogue, MediaTypes
    <3>2. pc'[call[r].package] \in Answered
      BY <1>3, <1>7, <3>1 DEF PackageOver
    <3>3. Updaters(r) => Updaters(r)'
      BY <1>1, <3>1, UpdatersStay DEF Answered
    <3> QED
      BY <3>1, <3>2, <3>3 DEF PackageOver, IsPackage
  <2>6. CASE \/ ReceivePackage(r) \/ FindApproved(r) \/ CreatePackage(r) \/ FindActive(r)
             \/ FindCampaign(r) \/ FindLink(r) \/ CreateLink(r) \/ DeleteLink(r)
    <3>1. pc'[r] \notin {"updatePackage", "readMedia", "deletePackage", "cleanup", "clean"}
      BY <1>1, <2>6 DEF ReceivePackage, StartAt, FirstPackageStep, FindApproved, CreatePackage,
         FindActive, FindCampaign, FindLink, CreateLink, DeleteLink
    <3> QED
      BY <3>1
  <2> QED
    BY <2>1, <2>2, <2>3, <2>4, <2>5, <2>6 DEF PackageStep
<1>10. ASSUME NEW q \in Requests
       PROVE  /\ pc'[q] \in {"updatePackage", "readMedia", "deletePackage", "cleanup", "clean"}
                   => pc'[call'[q].package] \in Answered
              /\ pc'[q] = "clean" => marking'[q] \subseteq orphans'[q]
              /\ pc'[q] \in {"cleanup", "clean"} /\ IsPackage(call[q].package)' =>
                   \/ orphans'[q] \cap packages'[call'[q].package].media = {}
                   \/ Updaters(q)'
  BY <1>8, <1>9
<1> QED
  BY <1>5, <1>6, <1>10 DEF PackageOver, IsPackage

(* A step of a clean-up or of a confirmation leaves this to packages.      *)
LEMMA CleaningOverlaps ==
  ASSUME Path, EarlierIsOver, MediaTypes, PackageOver, NEW r \in Requests, MediaStep(r),
         StepOfMarket(r), UNCHANGED catalogue
  PROVE  PackageOver'
<1> USE DEF Goto, media
<1>1. /\ r \in DOMAIN pc /\ StepOf(r) /\ UNCHANGED <<packages, orphans>>
  BY MarketMoves DEF Path, Moves, catalogue
<1>2. /\ \A q \in Requests \ {r} : marking'[q] = marking[q]
      /\ pc'[r] \notin {"updatePackage", "readMedia", "deletePackage", "cleanup"}
      /\ pc'[r] = "clean" => pc[r] = "clean" /\ marking'[r] \subseteq marking[r]
  BY <1>1 DEF MediaStep, ReceiveMedia, StartAt, FirstMediaStep, CreateAsset, Put, FindAsset,
     Stat, DropBad, MarkBad, MarkUploaded, DropFile, MarkDeleted, Cleaned, MediaTypes, calls
<1>3. ASSUME NEW q \in Requests
      PROVE  /\ packages'[q] # None => pc'[q] \in Answered
             /\ pc'[q] \in {"updatePackage", "readMedia", "deletePackage", "cleanup", "clean"} =>
                  pc[q] = pc'[q] /\ call'[q] = call[q]
             /\ pc[q] \in Answered => pc'[q] \in Answered
             /\ pc'[q] = "clean" => marking'[q] \subseteq orphans'[q]
  BY <1>1, <1>2 DEF PackageOver, StepOf, Answered
<1>4. ASSUME NEW q \in Requests, pc'[q] \in {"cleanup", "clean"}, IsPackage(call[q].package)'
      PROVE  orphans'[q] \cap packages'[call'[q].package].media = {} \/ Updaters(q)'
  <2>1. orphans[q] \cap packages[call[q].package].media = {} \/ Updaters(q)
    BY <1>1, <1>3, <1>4 DEF PackageOver, IsPackage
  <2>2. Updaters(q) => Updaters(q)'
    BY <1>1, <1>3, <1>4, UpdatersStay DEF Answered
  <2> QED
    BY <1>1, <1>3, <1>4, <2>1, <2>2
<1>5. \A q \in Requests :
        pc'[q] \in {"updatePackage", "readMedia", "deletePackage", "cleanup", "clean"} =>
          pc'[call'[q].package] \in Answered
  <2>1. \A q \in Requests :
          pc[q] \in {"updatePackage", "readMedia", "deletePackage", "cleanup", "clean"} =>
            call[q].package \in Requests
    BY Fields DEF Path, OnPath, StepsOf, Answered
  <2> QED
    BY <1>3, <2>1 DEF PackageOver
<1> QED
  BY <1>3, <1>4, <1>5 DEF PackageOver, IsPackage

-----------------------------------------------------------------------------
(* What each call relies on, however the calls overlap.                    *)
Overlap == InviteOver /\ AgencyOver /\ ReviewOver /\ MediaOver /\ PackageOver

LEMMA OverlapStep ==
  ASSUME IInv, Path, Typed, Overlap, DOMAIN average = Requests, EarlierIsOver,
         NEW r \in Requests, StepOfMarket(r)
  PROVE  Overlap' /\ DOMAIN average' = Requests
<1>1. /\ StepOf(r) /\ OnPath(r)' /\ r \in DOMAIN pc
      /\ \A o \in Requests \ {r} : pc'[o] = pc[o] /\ call'[o] = call[o]
  BY MarketMoves DEF Moves, StepOf, Path
<1>2. InviteOver'
  <2>1. CASE InviteStep(r)
    BY <2>1, InvitesOverlap DEF Typed, Overlap
  <2>2. CASE ~InviteStep(r)
    <3>1. UNCHANGED inviting /\ pc'[r] \notin InviteSteps
      BY <2>2, LeadsTo DEF StepOfMarket, Fail, tables
    <3>2. r \notin Spenders'
      BY <2>2, <3>1, OperationsOfSteps DEF StepOfMarket, Fail, Break, Goto, Spenders,
         InviteSteps, Path
    <3>3. invites[r] = None \/ pc'[r] \in Answered
      BY <2>2, ComesFrom DEF StepOfMarket, Overlap, InviteOver, Answered, AgencySteps,
         ReviewSteps, MediaSteps, PackageSteps
    <3>4. \A o \in Requests : invites'[o] # None => pc'[o] \in {"mailInvite"} \cup Answered
      BY <1>1, <3>1, <3>3 DEF Overlap, InviteOver, inviting, Answered
    <3>5. \A o \in Requests : pc'[o] \in {"revokeInvite", "acceptInvite"} =>
            invites'[call'[o].invite] # None /\ InviteIsUnspent(o)'
      BY <1>1, <3>1, OthersStay, UnspentStays DEF Overlap, InviteOver, InviteSteps, inviting
    <3>6. \A o \in Spenders' : o \in Spenders /\ call'[o] = call[o]
      BY <3>2, SpendersStay
    <3> QED
      BY <3>1, <3>4, <3>5, <3>6 DEF Overlap, InviteOver, inviting
  <2> QED
    BY <2>1, <2>2
<1>3. AgencyOver'
  <2>1. CASE AgencyStep(r)
    BY <1>1, <2>1, AgenciesOverlap DEF Typed, Overlap
  <2>2. CASE ~AgencyStep(r)
    <3>1. UNCHANGED agencyTables /\ pc'[r] \notin AgencySteps
      BY <2>2, LeadsTo DEF StepOfMarket, Fail, tables
    <3>2. ~(pc'[r] = "ok" /\ call'[r].op = "approve")
      BY <2>2, OperationsOfSteps DEF StepOfMarket, Fail, Break, Goto, Path
    <3>3. \A o \in Requests : pc'[o] = "decide" => NotYetApproved(o)'
      BY <1>1, <3>1, OthersStay, NotYetApprovedStays DEF Overlap, AgencyOver, AgencySteps
    <3> QED
      BY <1>1, <3>1, <3>2, <3>3 DEF Overlap, AgencyOver, agencyTables, AgencySteps
  <2> QED
    BY <2>1, <2>2
<1>4. ReviewOver' /\ DOMAIN average' = Requests
  <2>1. CASE ReviewStep(r)
    BY <2>1, ReviewsOverlap DEF Typed, Overlap
  <2>2. CASE ~ReviewStep(r)
    <3>1. UNCHANGED reviewing /\ pc'[r] \notin ReviewSteps
      BY <2>2, LeadsTo DEF StepOfMarket, Fail, tables
    <3>2. \A o \in Requests : pc[o] \in Rated => pc'[o] \in Rated
      BY <1>1, ReviewGoesOn DEF Typed
    <3>3. ASSUME NEW o \in Requests, pc'[o] \in {"writeReview", "deleteReview"}
          PROVE  /\ pc'[call'[o].review] \in Rated
                 /\ reviews'[call'[o].review] # None =>
                      reviews'[call'[o].review].agency = about'[o]
      <4>1. pc[o] = pc'[o] /\ call'[o] = call[o]
        BY <1>1, <3>1, <3>3 DEF ReviewSteps
      <4>2. call[o].review \in Requests
        BY <3>3, <4>1, Fields DEF Path, OnPath, StepsOf, Answered
      <4> QED
        BY <3>1, <3>2, <3>3, <4>1, <4>2 DEF Overlap, ReviewOver, reviewing
    <3>4. ASSUME NEW o \in Requests, pc'[o] = "storeScore"
          PROVE  \/ average'[o] = AverageIn(reviews', about'[o])
                 \/ \E p \in Rivals(o)' : Spoils(p, about[o])'
      <4>1. pc[o] = "storeScore"
        BY <1>1, <3>1, <3>4 DEF ReviewSteps
      <4>2. (\E p \in Rivals(o) : Spoils(p, about[o])) =>
               \E p \in Rivals(o)' : Spoils(p, about[o])'
        BY <3>4, <4>1, SpoiledStays DEF Typed
      <4> QED
        BY <3>1, <4>1, <4>2 DEF Overlap, ReviewOver, reviewing
    <3>5. \A o \in Requests :
            /\ reviews'[o] # None => pc'[o] \in Rated
            /\ pc'[o] \in {"findReview", "createReview"} => about'[o] = call'[o].agency
      BY <1>1, <3>1, <3>2 DEF Overlap, ReviewOver, reviewing, ReviewSteps
    <3> QED
      BY <3>1, <3>3, <3>4, <3>5 DEF ReviewOver, reviewing
  <2> QED
    BY <2>1, <2>2
<1>5. MediaOver' /\ PackageOver'
  <2>1. CASE PackageStep(r)
    BY <2>1, PackagesOverlap DEF Typed, Overlap
  <2>2. CASE MediaStep(r) /\ ~PackageStep(r)
    <3>1. UNCHANGED catalogue
      BY <2>2 DEF StepOfMarket, Fail, tables
    <3> QED
      BY <2>2, <3>1, MediaOverlaps, CleaningOverlaps DEF Typed, Overlap
  <2>3. CASE ~MediaStep(r) /\ ~PackageStep(r)
    <3>1. UNCHANGED <<media, catalogue>>
      BY <2>3 DEF StepOfMarket, Fail, tables
    <3>2. pc'[r] \notin (MediaSteps \cup PackageSteps)
      BY <1>1, <2>3, OperationsOfSteps, ComesFrom DEF StepOfMarket, OnPath, StepsOf, Answered,
         MediaSteps, PackageSteps
    <3>3. marking[r] = {} \/ pc'[r] = "failed"
      BY <2>3, ComesFrom DEF StepOfMarket, Overlap, MediaOver, AgencySteps, ReviewSteps,
         InviteSteps
    <3>4. \A o \in Requests : pc'[o] \in MediaSteps \cup PackageSteps =>
            pc'[o] = pc[o] /\ call'[o] = call[o]
      BY <1>1, <3>2
    <3>5. \A o \in Requests \ {r} :
            /\ Takers(o, call[o].media) => Takers(o, call[o].media)'
            /\ Updaters(o) => Updaters(o)'
      BY <1>1, OthersStay DEF Takers, Removes, Updaters
    <3>6. MediaOver'
      <4>1. \A o \in Requests : pc'[o] = "markUploaded" => \/ objects'[call'[o].media] # None
                                                           \/ Takers(o, call[o].media)'
        BY <1>1, <3>1, <3>2, <3>5 DEF Overlap, MediaOver, media, MediaSteps
      <4>2. \A o \in Requests : pc'[o] = "markBad" => marking'[o] = {call'[o].media}
        BY <1>1, <3>1, <3>2 DEF Overlap, MediaOver, media, MediaSteps
      <4>3. \A o \in Requests : marking'[o] # {} => pc'[o] \in {"markBad", "clean", "failed"}
        BY <1>1, <3>1, <3>3 DEF Overlap, MediaOver, media
      <4> QED
        BY <4>1, <4>2, <4>3 DEF MediaOver
    <3>7. PackageOver'
      <4>1. \A o \in Requests : pc[o] \in Answered => pc'[o] \in Answered
        BY <1>1 DEF StepOf
      <4>2. \A o \in Requests : packages'[o] # None => pc'[o] \in Answered
        BY <3>1, <4>1 DEF Overlap, PackageOver, catalogue
      <4>3. ASSUME NEW o \in Requests, pc'[o] \in {"updatePackage", "readMedia",
                   "deletePackage", "cleanup", "clean"}
            PROVE  /\ pc'[call'[o].package] \in Answered
                   /\ pc'[o] = "clean" => marking'[o] \subseteq orphans'[o]
                   /\ pc'[o] \in {"cleanup", "clean"} /\ IsPackage(call[o].package)' =>
                        \/ orphans'[o] \cap packages'[call'[o].package].media = {}
                        \/ Updaters(o)'
        <5>1. o # r /\ pc'[o] = pc[o] /\ call'[o] = call[o]
          BY <1>1, <3>2, <4>3 DEF MediaSteps, PackageSteps
        <5>2. call[o].package \in Requests
          BY <4>3, <5>1, Fields DEF Path, OnPath, StepsOf, Answered
        <5> QED
          BY <3>1, <3>5, <4>1, <4>3, <5>1, <5>2
             DEF Overlap, PackageOver, IsPackage, catalogue, media
      <4> QED
        BY <4>2, <4>3 DEF PackageOver, IsPackage
    <3> QED
      BY <3>6, <3>7
  <2> QED
    BY <2>1, <2>2, <2>3
<1> QED
  BY <1>2, <1>3, <1>4, <1>5 DEF Overlap

(* What the market keeps to, whatever calls overlap.                       *)
MarketInv == Path /\ Typed /\ DOMAIN average = Requests /\ EarlierIsOver /\ Overlap

LEMMA MarketAtFirst == Init => MarketInv
<1> SUFFICES ASSUME Init PROVE MarketInv
  OBVIOUS
<1> USE DEF Init, CallsInit, AgenciesInit, ReviewsInit, InvitesInit, MediaInit, PackagesInit
<1>1. Path /\ EarlierIsOver /\ Scripted /\ DOMAIN average = Requests
  BY DEF Path, OnPath, Scripted, EarlierIsOver
<1>2. AgencyTypes
  <2>1. \A a \in AgencyAccounts : OwnerRow(a) \in StaffRows
    BY DEF OwnerRow, StaffRows, Permissions
  <2>2. agencies \in [AgencyAccounts -> Statuses \cup {None}]
    BY AgencyAssumption
  <2>3. staff \in [StaffIds -> StaffRows \cup {None}]
    <3>1. \A x \in StaffIds : (IF x \in AgencyAccounts /\ agencies[x] # None
                               THEN OwnerRow(x) ELSE None) \in StaffRows \cup {None}
      BY <2>1
    <3> QED
      BY <3>1
  <2> QED
    BY <2>2, <2>3 DEF AgencyTypes
<1>3. ReviewTypes /\ InviteTypes
  BY AdminAssumption DEF ReviewTypes, InviteTypes
<1>4. MediaTypes
  <2>1. /\ assets \in [Requests -> Assets \cup {None}]
        /\ objects \in [Requests -> {"good", "bad", None}]
    BY MediaAssumption DEF Assets
  <2> QED
    BY <2>1 DEF MediaTypes
<1>5. PackageTypes
  BY DEF PackageTypes
<1>6. InviteOver /\ AgencyOver /\ ReviewOver
  BY DEF InviteOver, Spenders, AgencyOver, ReviewOver
<1>7. MediaOver /\ PackageOver
  BY DEF MediaOver, PackageOver
<1> QED
  BY <1>1, <1>2, <1>3, <1>4, <1>5, <1>6, <1>7 DEF MarketInv, Typed, Overlap

LEMMA MarketInvariant == Spec => []MarketInv
<1>1. ASSUME IInv, MarketInv, [Next]_vars
      PROVE  MarketInv'
  <2>1. ASSUME NEW r \in Requests, StepOfMarket(r)
        PROVE  MarketInv'
    <3>1. StepOf(r) /\ Path'
      BY <1>1, <2>1, MarketMoves DEF MarketInv, Moves
    <3>2. Typed' /\ EarlierIsOver'
      BY <1>1, <2>1, <3>1, TypedStep, EarlierStep DEF MarketInv
    <3>3. Overlap' /\ DOMAIN average' = Requests
      BY <1>1, <2>1, OverlapStep DEF MarketInv
    <3> QED
      BY <3>1, <3>2, <3>3 DEF MarketInv
  <2>2. CASE Done \/ UNCHANGED vars
    <3>1. UNCHANGED vars
      BY <2>2 DEF Done
    <3>2. Path' /\ EarlierIsOver'
      BY <1>1, <3>1 DEF MarketInv, vars, calls, Path, OnPath, Answered, EarlierIsOver
    <3>3. Typed'
      BY <1>1, <3>1 DEF MarketInv, Typed, Scripted, AgencyTypes, ReviewTypes, InviteTypes,
         MediaTypes, PackageTypes, vars, calls, tables, agencyTables, reviewing, inviting,
         catalogue, media
    <3>4. InviteOver' /\ AgencyOver'
      BY <1>1, <3>1 DEF MarketInv, Overlap, InviteOver, InviteIsUnspent, Spends, Spenders,
         AgencyOver, NotYetApproved, vars, calls, tables, agencyTables, inviting, Answered
    <3>5. ReviewOver'
      BY <1>1, <3>1 DEF MarketInv, Overlap, ReviewOver, Rated, Rivals, Spoils, Rates, vars, calls,
         tables, reviewing, Answered
    <3>6. MediaOver' /\ PackageOver'
      BY <1>1, <3>1 DEF MarketInv, Overlap, MediaOver, Takers, Rivals, Removes, PackageOver,
         Updaters, IsPackage, vars, calls, tables, catalogue, media, Answered
    <3> QED
      BY <1>1, <3>1, <3>2, <3>3, <3>4, <3>5, <3>6
         DEF MarketInv, Overlap, vars, tables, reviewing
  <2> QED
    BY <1>1, <2>1, <2>2 DEF Next, StepOfMarket
<1> QED
  BY Invariance, MarketAtFirst, <1>1, PTL DEF Spec

(* A step of the system is that of a call, or changes nothing.             *)
LEMMA SomeoneSteps ==
  ASSUME [Next]_vars
  PROVE  (\E r \in Requests : StepOfMarket(r)) \/ UNCHANGED vars
BY DEF Next, Done, StepOfMarket

(* An approval that was answered gave the agency its badge, and only a     *)
(* decision that was under way with it can change the agency again.        *)
ApprovalsHold ==
  \A r \in Requests : pc[r] = "ok" /\ call[r].op = "approve" =>
    LET a == call[r].agency IN
    /\ badges'[a] # None
    /\ \/ agencies'[a] = agencies[a]
       \/ \E o \in Requests : /\ pc[o] = "decide" /\ call[o].agency = a
                              /\ r \notin earlier[o]

THEOREM ApprovalsAreFinal == Spec => ApprovalIsFinal
<1>1. ASSUME IInv, MarketInv, [Next]_vars
      PROVE  ApprovalsHold
  <2> SUFFICES ASSUME NEW r \in Requests, pc[r] = "ok", call[r].op = "approve",
                      NEW a, a = call[r].agency
               PROVE  /\ badges'[a] # None
                      /\ \/ agencies'[a] = agencies[a]
                         \/ \E o \in Requests : /\ pc[o] = "decide" /\ call[o].agency = a
                                                /\ r \notin earlier[o]
    BY DEF ApprovalsHold
  <2>1. a \in AgencyAccounts
    BY <1>1, Fields DEF MarketInv, Path, OnPath
  <2>2. badges[a] # None /\ agencies[a] \in {"approved", "rejected"}
    BY <1>1 DEF MarketInv, Overlap, AgencyOver
  <2>3. CASE \E o \in Requests : AgencyStep(o)
    <3>1. PICK o \in Requests : AgencyStep(o)
      BY <2>3
    <3>2. /\ badges'[a] # None
          /\ agencies'[a] # agencies[a] => pc[o] = "decide" /\ call[o].agency = a
      BY <1>1, <2>1, <2>2, <3>1, DecisionsStay, AgencyAssumption DEF MarketInv, Typed, Statuses
    <3>3. pc[o] = "decide" /\ call[o].agency = a => r \notin earlier[o]
      BY <1>1 DEF MarketInv, Overlap, AgencyOver, NotYetApproved
    <3> QED
      BY <3>2, <3>3
  <2>4. CASE ~\E o \in Requests : AgencyStep(o)
    <3>1. UNCHANGED agencyTables
      BY <1>1, <2>4, SomeoneSteps DEF StepOfMarket, Fail, vars, tables
    <3> QED
      BY <2>2, <3>1 DEF agencyTables
  <2> QED
    BY <2>3, <2>4
<1> QED
  BY Invariance, MarketInvariant, <1>1, PTL DEF Spec, ApprovalIsFinal, ApprovalsHold

(* An invite that a call has spent serves no call that is received later.  *)
InvitesHold ==
  \A r \in Requests :
    pc[r] \in {"revokeInvite", "acceptInvite"} /\ pc'[r] \in {"ok", "grantRole"} =>
      \A s \in earlier[r] : ~(pc[s] = "ok" /\ Spends(call[s], call[r].invite))

THEOREM InvitesAreSpentOnce == Spec => InviteIsSpentOnce
<1>1. MarketInv => InvitesHold
  BY DEF MarketInv, Overlap, InviteOver, InviteIsUnspent, InvitesHold
<1> QED
  BY MarketInvariant, <1>1, PTL DEF InviteIsSpentOnce, InvitesHold

(* An asset that becomes lost was confirmed by a call that another one,    *)
(* served at the same time, has overtaken.                                 *)
UploadsHold ==
  \A x \in Requests : IsLost(x)' =>
    \/ IsLost(x)
    \/ \E r \in Requests : /\ pc[r] = "markUploaded" /\ call[r].media = x
                           /\ \E o \in Rivals(r) : Removes(call[o], x)

THEOREM UploadsAreStored == Spec => UploadedIsStored
<1>1. ASSUME MarketInv, [Next]_vars
      PROVE  UploadsHold
  <2> SUFFICES ASSUME NEW x \in Requests, IsLost(x)', ~IsLost(x)
               PROVE  \E r \in Requests : /\ pc[r] = "markUploaded" /\ call[r].media = x
                                          /\ \E o \in Rivals(r) : Removes(call[o], x)
    BY DEF UploadsHold
  <2>1. PICK r \in Requests : StepOfMarket(r)
    BY <1>1, SomeoneSteps DEF vars, tables, media, IsLost
  <2>2. CASE MediaStep(r)
    <3>1. pc[r] = "markUploaded" /\ call[r].media = x /\ objects[x] = None
      BY <1>1, <2>1, <2>2, LosesOnlyUploaded DEF MarketInv, Typed, Overlap
    <3>2. Takers(r, x)
      BY <1>1, <3>1 DEF MarketInv, Overlap, MediaOver
    <3> QED
      BY <3>1, <3>2 DEF Takers
  <2>3. CASE PackageStep(r)
    <3>1. /\ UNCHANGED <<assets, objects>>
          /\ \A o \in Requests \ {r} : marking'[o] = marking[o]
          /\ marking'[r] = marking[r] \/ pc[r] = "cleanup"
      BY <1>1, <2>3 DEF PackageStep, ReceivePackage, FindApproved, CreatePackage, FindOwned,
         UpdatePackage, ReadMedia, DeletePackage, CleanUpOrphans, CleanUp, FindActive,
         FindCampaign, FindLink, CreateLink, DeleteLink, media, MarketInv, Typed, MediaTypes
    <3>2. pc[r] = "cleanup" => marking[r] = {}
      BY <1>1 DEF MarketInv, Overlap, MediaOver
    <3> QED
      BY <3>1, <3>2 DEF IsLost
  <2>4. CASE ~MediaStep(r) /\ ~PackageStep(r)
    BY <2>1, <2>4 DEF StepOfMarket, Fail, tables, media, IsLost
  <2> QED
    BY <2>2, <2>3, <2>4
<1> QED
  BY MarketInvariant, <1>1, PTL DEF Spec, UploadedIsStored, UploadsHold

(* A clean-up takes no file that its package still shows, unless another   *)
(* call changes the package at the same time.                              *)
OrphansOnly ==
  \A r, x \in Requests :
    /\ pc[r] = "clean" /\ x \in marking[r] \ marking'[r]
    /\ IsPackage(call[r].package)
    => \/ x \notin packages[call[r].package].media
       \/ \E o \in Rivals(r) : /\ call[o].op = "updatePackage"
                               /\ call[o].package = call[r].package

THEOREM OrphansAreDeleted == Spec => OnlyOrphansAreDeleted
<1>1. MarketInv => OrphansOnly
  BY DEF MarketInv, Overlap, PackageOver, Updaters, OrphansOnly
<1> QED
  BY MarketInvariant, <1>1, PTL DEF OnlyOrphansAreDeleted, OrphansOnly

-----------------------------------------------------------------------------
(* Averages: there are finitely many reviews, so they have a sum.          *)
Averages == [sum : Nat, count : Nat \ {0}]

Reviewed == {x \in Requests : reviews[x] # None}

LEMMA AveragesAre ==
  ASSUME ReviewTypes, IsFiniteSet(Reviewed), NEW a
  PROVE  AverageOf(a) \in Averages \cup {None}
<1> DEFINE S == RowsOf(reviews, a)
           f == RatingsIn(reviews, a)
           it == CHOOSE sum : IsSum(sum, SUBSET S, f)
<1>1. IsFiniteSet(S)
  BY FS_Subset DEF RowsOf, Reviewed
<1>2. \A x \in S : f[x] \in Nat
  <2>1. \A x \in S : reviews[x] \in ReviewRows
    BY DEF RowsOf, ReviewTypes
  <2>2. \A row \in ReviewRows : row.rating \in Nat
    BY RatingAssumption DEF ReviewRows
  <2> QED
    BY <2>1, <2>2 DEF RatingsIn
<1>3. IsSum(it, SUBSET S, f)
  BY <1>1, SumExists
<1>4. it[S] \in Nat
  BY <1>1, <1>2, <1>3, SumIsNatural
<1>5. S # {} => Cardinality(S) \in Nat \ {0}
  BY <1>1, FS_CardinalityType, FS_EmptySet
<1> QED
  BY <1>4, <1>5, AverageIs DEF AverageIn, Averages

AverageTypes ==
  /\ IsFiniteSet(Reviewed)
  /\ reputation \in [AgencyAccounts -> Averages \cup {None}]
  /\ average \in [Requests -> Averages \cup {None}]

LEMMA AveragesInvariant == Spec => []AverageTypes
<1>1. Init => AverageTypes
  <2>1. Init => Reviewed = {}
    BY DEF Init, ReviewsInit, Reviewed
  <2> QED
    BY <2>1, FS_EmptySet DEF Init, ReviewsInit, AverageTypes
<1>2. ASSUME MarketInv, AverageTypes, [Next]_vars
      PROVE  AverageTypes'
  <2>1. CASE \E r \in Requests : ReviewStep(r)
    <3>1. PICK r \in Requests : ReviewStep(r)
      BY <2>1
    <3>2. CASE Aggregate(r)
      <4>1. AverageOf(about[r]) \in Averages \cup {None}
        BY <1>2, AveragesAre DEF MarketInv, Typed, AverageTypes
      <4>2. UNCHANGED <<reviews, reputation>>
        BY <3>2 DEF Aggregate
      <4>3. average' \in [Requests -> Averages \cup {None}]
        BY <1>2, <3>2, <4>1 DEF Aggregate, AverageTypes
      <4> QED
        BY <1>2, <4>2, <4>3 DEF AverageTypes, Reviewed
    <3>3. CASE StoreScore(r)
      <4>1. about[r] \in AgencyAccounts
        BY <1>2, <3>3 DEF StoreScore, MarketInv, Typed, ReviewTypes
      <4>2. UNCHANGED <<reviews, average>>
        BY <3>3 DEF StoreScore
      <4>3. reputation' \in [AgencyAccounts -> Averages \cup {None}]
        BY <1>2, <3>3, <4>1 DEF StoreScore, AverageTypes
      <4> QED
        BY <1>2, <4>2, <4>3 DEF AverageTypes, Reviewed
    <3>4. CASE ~Aggregate(r) /\ ~StoreScore(r)
      <4>1. UNCHANGED <<reputation, average>>
        BY <3>1, <3>4 DEF ReviewStep, ReceiveReview, FindReviewed, FindReview, CreateReview,
           FindOwnReview, WriteReview, DeleteReview, reviewing
      <4>2. \A x \in Requests : reviews[x] = None /\ x # r => reviews'[x] = None
        BY <1>2, <3>1, <3>4 DEF ReviewStep, ReceiveReview, FindReviewed, FindReview,
           CreateReview, FindOwnReview, WriteReview, DeleteReview, reviewing, MarketInv, Typed,
           ReviewTypes
      <4>3. Reviewed' \subseteq Reviewed \cup {r}
        BY <4>2 DEF Reviewed
      <4>4. IsFiniteSet(Reviewed')
        BY <1>2, <4>3, FS_AddElement, FS_Subset DEF AverageTypes
      <4> QED
        BY <1>2, <4>1, <4>4 DEF AverageTypes
    <3> QED
      BY <3>2, <3>3, <3>4
  <2>2. CASE ~\E r \in Requests : ReviewStep(r)
    <3>1. UNCHANGED <<reviews, reputation, average>>
      BY <1>2, <2>2 DEF Next, Done, Fail, vars, tables, reviewing
    <3> QED
      BY <1>2, <3>1 DEF AverageTypes, Reviewed
  <2> QED
    BY <2>1, <2>2
<1> QED
  BY MarketInvariant, <1>1, <1>2, PTL DEF Spec

PcIsFunction == pc = [r \in Requests |-> pc[r]]

LEMMA PcStaysFunction == Spec => []PcIsFunction
<1>1. Init => PcIsFunction
  BY DEF PcIsFunction, Init, CallsInit
<1>2. ASSUME PcIsFunction, [Next]_vars
      PROVE  PcIsFunction'
  <2> USE DEF PcIsFunction
  <2>1. ASSUME NEW r \in Requests, StepOfMarket(r)
        PROVE  pc' = [pc EXCEPT ![r] = pc'[r]]
    <3> SUFFICES \E step : pc' = [pc EXCEPT ![r] = step]
      BY <1>2
    <3> USE DEF Goto, StartAt
    <3>1. CASE AgencyStep(r)
      BY <3>1 DEF AgencyStep, ReceiveAgency, FindAgency, CreateAgency, FindPendingAgency,
         Decide, MailDecision, FindBadge, CreateBadge, RevokeBadge, Guard, FindStaff,
         CreateStaff, MailStaff, WriteStaff, DeleteStaff
    <3>2. CASE ReviewStep(r)
      BY <3>2 DEF ReviewStep, ReceiveReview, FindReviewed, FindReview, CreateReview,
         FindOwnReview, WriteReview, DeleteReview, Aggregate, StoreScore
    <3>3. CASE InviteStep(r)
      BY <3>3 DEF InviteStep, ReceiveInvite, CheckPlatformRole, CreateInvite, MailInvite,
         FindInvite, RevokeInvite, AcceptInvite, GrantRole
    <3>4. CASE MediaStep(r)
      <4>1. CASE DropFile(r) \/ MarkDeleted(r)
        <5>1. pc' = [pc EXCEPT ![r] = pc[r]]
          BY <1>2, <4>1 DEF DropFile, MarkDeleted, calls
        <5> QED
          BY <5>1
      <4>2. CASE ~DropFile(r) /\ ~MarkDeleted(r)
        BY <3>4, <4>2 DEF MediaStep, ReceiveMedia, CreateAsset, Put, FindAsset, Stat, DropBad,
           MarkBad, MarkUploaded, Cleaned
      <4> QED
        BY <4>1, <4>2
    <3>5. CASE PackageStep(r)
      BY <3>5 DEF PackageStep, ReceivePackage, FindApproved, CreatePackage, FindOwned,
         UpdatePackage, ReadMedia, DeletePackage, CleanUpOrphans, CleanUp, FindActive,
         FindCampaign, FindLink, CreateLink, DeleteLink
    <3>6. CASE Fail(r)
      BY <3>6 DEF Fail, Break
    <3> QED
      BY <2>1, <3>1, <3>2, <3>3, <3>4, <3>5, <3>6 DEF StepOfMarket
  <2>2. CASE Done \/ UNCHANGED vars
    BY <1>2, <2>2 DEF Done, vars, calls
  <2> QED
    BY <1>2, <2>1, <2>2 DEF Next, StepOfMarket
<1> QED
  BY <1>1, <1>2, PTL DEF Spec

LEMMA StepsAreSteps ==
  ASSUME NEW op
  PROVE  StepsOf(op) \subseteq
           AgencySteps \cup ReviewSteps \cup InviteSteps \cup MediaSteps \cup PackageSteps
BY DEF StepsOf, AgencySteps, ReviewSteps, InviteSteps, MediaSteps, PackageSteps

(* Every variable keeps to its type, whatever calls overlap: among others, *)
(* what is cleaned up or linked is there, and a reputation is an average.  *)
THEOREM TypeCorrect == Spec => []TypeOK
<1>1. MarketInv /\ AverageTypes /\ PcIsFunction => TypeOK
  <2> SUFFICES ASSUME MarketInv, AverageTypes, PcIsFunction
               PROVE  TypeOK
    OBVIOUS
  <2>1. /\ load \in Loads
        /\ pc \in [Requests -> {"idle"} \cup Answered \cup AgencySteps \cup ReviewSteps
                                 \cup InviteSteps \cup MediaSteps \cup PackageSteps]
        /\ \A r \in Requests : call[r] \in Script[load][r] \cup {None}
    <3>1. DOMAIN pc = Requests /\ \A r \in Requests : OnPath(r)
      BY DEF MarketInv, Path
    <3>2. \A r \in Requests :
            pc[r] \in {"idle"} \cup Answered \cup AgencySteps \cup ReviewSteps
                       \cup InviteSteps \cup MediaSteps \cup PackageSteps
      BY <3>1, StepsAreSteps DEF OnPath
    <3> QED
      BY <3>1, <3>2 DEF MarketInv, Typed, Scripted, PcIsFunction
  <2>2. /\ agencies \in [AgencyAccounts -> Statuses \cup {None}]
        /\ reasons \subseteq {a \in AgencyAccounts : agencies[a] # None}
        /\ badges \in [AgencyAccounts -> {"active", "revoked", None}]
        /\ staff \in [StaffIds -> StaffRows \cup {None}]
    BY DEF MarketInv, Typed, AgencyTypes
  <2>3. /\ reviews \in [Requests -> ReviewRows \cup {None}]
        /\ \A a \in AgencyAccounts : reputation[a] \in [sum : Nat, count : Nat \ {0}] \cup {None}
        /\ about \in [Requests -> AgencyAccounts \cup {None}]
        /\ invites \in [Requests -> {"pending", "accepted", "revoked", None}]
        /\ superAdmins \subseteq Admins
    BY DEF MarketInv, Typed, ReviewTypes, InviteTypes, AverageTypes, Averages
  <2>4. /\ assets \in [Requests -> Assets \cup {None}]
        /\ objects \in [Requests -> {"good", "bad", None}]
        /\ \A r \in Requests : dropping[r] \subseteq marking[r]
        /\ \A r \in Requests : marking[r] \subseteq {x \in Requests : assets[x] # None}
    BY DEF MarketInv, Typed, MediaTypes
  <2>5. /\ packages \in [Requests -> PackageRows \cup {None}]
        /\ links \subseteq {x \in Requests : packages[x] # None} \X Campaigns
        /\ orphans \in [Requests -> SUBSET Requests]
    BY DEF MarketInv, Typed, PackageTypes
  <2> QED
    BY <2>1, <2>2, <2>3, <2>4, <2>5 DEF TypeOK
<1> QED
  BY MarketInvariant, AveragesInvariant, PcStaysFunction, <1>1, PTL

(* A call that changes the ratings of an agency leaves its reputation at   *)
(* their average, unless another one changes them at the same time.        *)
ReputationsHold ==
  \A r \in Requests :
    Rates(r) /\ pc[r] # "ok" /\ pc'[r] = "ok" =>
      \/ reputation'[about[r]] = AverageOf(about[r])'
      \/ \E o \in Rivals(r) : Rates(o) /\ about[o] = about[r]

THEOREM ReputationsAreAverages == Spec => ReputationIsAverage
<1>1. ASSUME MarketInv, AverageTypes, [Next]_vars
      PROVE  ReputationsHold
  <2> SUFFICES ASSUME NEW r \in Requests, Rates(r), pc[r] # "ok", pc'[r] = "ok"
               PROVE  \/ reputation'[about[r]] = AverageOf(about[r])'
                      \/ \E o \in Rivals(r) : Rates(o) /\ about[o] = about[r]
    BY DEF ReputationsHold
  <2>1. PICK o \in Requests : StepOfMarket(o)
    BY <1>1, SomeoneSteps DEF vars, calls
  <2>2. o = r
    BY <1>1, <2>1, MarketMoves DEF MarketInv, Moves, StepOf
  <2>3. pc[r] # "idle"
    BY DEF Rates
  <2>4. ReviewStep(r)
    BY <1>1, <2>1, <2>2, <2>3, ComesFrom, ZenonT(60) DEF MarketInv, StepOfMarket, Rates, Path,
       OnPath, StepsOf, Answered, AgencySteps, InviteSteps, MediaSteps, PackageSteps
  <2>5. StoreScore(r)
    <3>1. OnPath(r) /\ r \in DOMAIN pc
      BY <1>1 DEF MarketInv, Path
    <3>2. WriteReview(r) => call[r].op = "editReview"
      BY <2>3, <3>1 DEF WriteReview, OnPath, StepsOf, Answered, Rates
    <3>3. ~WriteReview(r)
      BY <3>1, <3>2 DEF WriteReview, Goto, Rates
    <3> QED
      BY <2>3, <2>4, <3>1, <3>3 DEF ReviewStep, ReceiveReview, Begin, FindReviewed, FindReview,
         CreateReview, FindOwnReview, DeleteReview, Aggregate, Goto
  <2>6. about[r] \in AgencyAccounts
    BY <1>1, <2>5 DEF MarketInv, Typed, ReviewTypes, StoreScore
  <2>7. \/ average[r] = AverageIn(reviews, about[r])
        \/ \E p \in Rivals(r) : Spoils(p, about[r])
    BY <1>1, <2>5 DEF MarketInv, Overlap, ReviewOver, StoreScore
  <2>8. reputation'[about[r]] = average[r] /\ UNCHANGED <<reviews, about>>
    BY <1>1, <2>5, <2>6 DEF StoreScore, AverageTypes
  <2>9. AverageOf(about[r])' = AverageIn(reviews, about[r])
    <3>1. \A a : AverageOf(a)' = AverageIn(reviews', a)
      BY AverageIsNext
    <3>2. AverageOf(about[r])' = AverageIn(reviews', about[r])
      BY <2>8, <3>1 DEF AverageOf, ReviewsOf
    <3> QED
      BY <2>8, <3>2
  <2> QED
    BY <2>7, <2>8, <2>9 DEF Spoils
<1> QED
  BY MarketInvariant, AveragesInvariant, <1>1, PTL DEF Spec, ReputationIsAverage,
     ReputationsHold
=============================================================================
