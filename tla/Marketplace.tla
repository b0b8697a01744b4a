---------------------------- MODULE Marketplace ----------------------------
(***************************************************************************)
(* Agencies and what hangs on their approval: the reviews they get and the *)
(* packages they offer, with the media of these; beside them the invites   *)
(* of the administrators who approve. Calls of all of them interleave at   *)
(* every await.                                                            *)
(***************************************************************************)
EXTENDS Reviews, AdminInvites, Packages

ASSUME MarketAssumption ==
  \A l \in Loads, r \in Requests :
    Script[l][r] \subseteq
      AgencyCalls \cup ReviewCalls \cup InviteCalls \cup MediaCalls \cup PackageCalls

tables == <<agencyTables, reviewing, inviting, catalogue, media>>
vars == <<calls, tables>>

Init ==
  /\ CallsInit /\ AgenciesInit /\ ReviewsInit /\ InvitesInit
  /\ MediaInit /\ PackagesInit

(* A crash or a failed query.                                              *)
Fail(r) == Break(r) /\ UNCHANGED tables

Done == AllAnswered /\ UNCHANGED vars

Next ==
  \/ Done
  \/ \E r \in Requests :
       \/ AgencyStep(r) /\ UNCHANGED <<reviewing, inviting, catalogue, media>>
       \/ ReviewStep(r) /\ UNCHANGED <<agencyTables, inviting, catalogue, media>>
       \/ InviteStep(r) /\ UNCHANGED <<agencyTables, reviewing, catalogue, media>>
       \/ MediaStep(r) /\ UNCHANGED <<agencyTables, reviewing, inviting, catalogue>>
       \/ PackageStep(r) /\ UNCHANGED <<agencyTables, reviewing, inviting>>
       \/ Fail(r)

Spec == Init /\ [][Next]_vars
=============================================================================
