-------------------------- MODULE MarketProperties --------------------------
(***************************************************************************)
(* What Marketplace is checked against, all of it for calls that overlap   *)
(* and break off anywhere. Where calls that are served at the same time    *)
(* spoil a promise, the property names them: earlier[r] and Rivals(r) are  *)
(* those that were over when r was received, and those that were not.      *)
(***************************************************************************)
EXTENDS Marketplace

(* Every variable holds a value of its kind.                               *)
TypeOK ==
  /\ load \in Loads
  /\ pc \in [Requests -> {"idle"} \cup Answered \cup AgencySteps \cup ReviewSteps
                           \cup InviteSteps \cup MediaSteps \cup PackageSteps]
  /\ \A r \in Requests : call[r] \in Script[load][r] \cup {None}
  /\ agencies \in [AgencyAccounts -> Statuses \cup {None}]
  /\ reasons \subseteq {a \in AgencyAccounts : agencies[a] # None}
  /\ badges \in [AgencyAccounts -> {"active", "revoked", None}]
  /\ staff \in [StaffIds -> StaffRows \cup {None}]
  /\ reviews \in [Requests -> ReviewRows \cup {None}]
  /\ \A a \in AgencyAccounts : reputation[a] \in [sum : Nat, count : Nat \ {0}] \cup {None}
  /\ about \in [Requests -> AgencyAccounts \cup {None}]
  /\ invites \in [Requests -> {"pending", "accepted", "revoked", None}]
  /\ superAdmins \subseteq Admins
  /\ assets \in [Requests -> Assets \cup {None}]
  /\ objects \in [Requests -> {"good", "bad", None}]
  /\ \A r \in Requests : dropping[r] \subseteq marking[r]
  /\ \A r \in Requests : marking[r] \subseteq {x \in Requests : assets[x] # None}
  /\ packages \in [Requests -> PackageRows \cup {None}]
  /\ links \subseteq {x \in Requests : packages[x] # None} \X Campaigns
  /\ orphans \in [Requests -> SUBSET Requests]

(* An agency never loses the owner who registered it, although owners      *)
(* change and remove rows of its staff and may make others owners.         *)
OwnerStays ==
  \A a \in AgencyAccounts : agencies[a] # None =>
    \E x \in StaffOf(a, a) : staff[x].permission = "owner"

(* An approval that was answered is final, unless a decision about the     *)
(* same agency was under way with it, and gave the agency its badge.       *)
ApprovalIsFinal ==
  [][\A r \in Requests : pc[r] = "ok" /\ call[r].op = "approve" =>
       LET a == call[r].agency IN
       /\ badges'[a] # None
       /\ \/ agencies'[a] = agencies[a]
          \/ \E o \in Requests : /\ pc[o] = "decide" /\ call[o].agency = a
                                 /\ r \notin earlier[o]]_vars

Rates(r) ==
  /\ pc[r] # "idle" /\ call[r].op \in {"review", "editReview", "removeReview"}
  /\ call[r].op = "editReview" => call[r].rating # None

(* A call that changes the ratings of an agency leaves its reputation at   *)
(* their average, unless another one changes them at the same time.        *)
ReputationIsAverage ==
  [][\A r \in Requests :
       Rates(r) /\ pc[r] # "ok" /\ pc'[r] = "ok" =>
         \/ reputation'[about[r]] = AverageOf(about[r])'
         \/ \E o \in Rivals(r) : Rates(o) /\ about[o] = about[r]]_vars

(* An invite serves one call: once one has accepted or revoked it, no call *)
(* that is received after the answer accepts or revokes it again.          *)
Spends(c, x) == c.op \in {"revokeInvite", "acceptInvite"} /\ c.invite = x

InviteIsSpentOnce ==
  [][\A r \in Requests :
       pc[r] \in {"revokeInvite", "acceptInvite"} /\ pc'[r] \in {"ok", "grantRole"} =>
         \A s \in earlier[r] : ~(pc[s] = "ok" /\ Spends(call[s], call[r].invite))]_vars

(* An asset that counts as uploaded, with no file in the bucket, and no    *)
(* call that is about to mark it as deleted or broke off before it did.    *)
IsLost(x) ==
  /\ assets[x] # None /\ assets[x].status = "uploaded" /\ objects[x] = None
  /\ \A r \in Requests : x \notin marking[r]

(* The calls that may take the file of an asset away.                      *)
Removes(c, x) ==
  \/ (c.op = "confirm" /\ c.media = x)
  \/ c.op \in {"updatePackage", "removePackage"}

(* The file of an uploaded asset is in the bucket: only a confirmation     *)
(* which another confirmation or a clean-up overtakes leaves it without.   *)
UploadedIsStored ==
  [][\A x \in Requests : IsLost(x)' =>
       \/ IsLost(x)
       \/ \E r \in Requests : /\ pc[r] = "markUploaded" /\ call[r].media = x
                              /\ \E o \in Rivals(r) : Removes(call[o], x)]_vars

(* What a package no longer shows is cleaned up, and nothing else: a call  *)
(* that changed a package never marks as deleted a file that this package  *)
(* still has, unless another call changes the package at the same time.    *)
(* (Two packages may show the same file, and then a change of the one      *)
(* takes it from the other.)                                               *)
OnlyOrphansAreDeleted ==
  [][\A r, x \in Requests :
       /\ pc[r] = "clean" /\ x \in marking[r] \ marking'[r]
       /\ IsPackage(call[r].package)
       => \/ x \notin packages[call[r].package].media
          \/ \E o \in Rivals(r) : /\ call[o].op = "updatePackage"
                                  /\ call[o].package = call[r].package]_vars
=============================================================================
