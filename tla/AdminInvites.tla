---------------------------- MODULE AdminInvites ----------------------------
(***************************************************************************)
(* AdminInvitesService (src/src/modules/admin-invites): invitations to the *)
(* administration. Every call, that of the invited user too, is admitted   *)
(* by PlatformRoleGuard only for a super admin. An invite and its token    *)
(* are named by the call that created it; a token that has expired is a    *)
(* call that breaks off.                                                   *)
(***************************************************************************)
EXTENDS HttpCalls

CONSTANTS
  Admins,        \* users who may be, or become, super admins
  SuperAdmins    \* those who are at first

ASSUME AdminAssumption ==
  /\ SuperAdmins \subseteq Admins
  /\ None \notin {"pending", "accepted", "revoked"}

InviteCalls ==
  [op : {"inviteAdmin"}, user : Admins]
    \cup [op : {"revokeInvite", "acceptInvite"}, user : Admins, invite : Requests]

VARIABLES
  invites,      \* the status of each of admin_invites
  superAdmins   \* the users whose platform_role is super_admin

inviting == <<invites, superAdmins>>

InviteSteps ==
  {"platformRole", "createInvite", "mailInvite", "findInvite", "revokeInvite",
   "matchInvite", "acceptInvite", "grantRole"}

InvitesInit ==
  /\ invites = [r \in Requests |-> None]
  /\ superAdmins = SuperAdmins

ReceiveInvite(r) ==
  /\ Begin(r, InviteCalls) /\ StartAt(r, "platformRole")
  /\ UNCHANGED inviting

CheckPlatformRole(r) ==
  /\ pc[r] = "platformRole"
  /\ Goto(r, IF call[r].user \notin superAdmins THEN "failed"
             ELSE CASE call[r].op = "inviteAdmin"  -> "createInvite"
                    [] call[r].op = "revokeInvite" -> "findInvite"
                    [] OTHER                       -> "matchInvite")
  /\ UNCHANGED inviting

CreateInvite(r) ==
  /\ pc[r] = "createInvite"
  /\ invites' = [invites EXCEPT ![r] = "pending"]
  /\ Goto(r, "mailInvite")
  /\ UNCHANGED superAdmins

MailInvite(r) ==
  /\ pc[r] = "mailInvite"
  /\ Goto(r, "ok")
  /\ UNCHANGED inviting

(* Fault: an invite is found whatever has become of it.                    *)
FindAnyInvite(r) ==
  /\ pc[r] \in {"findInvite", "matchInvite"}
  /\ Goto(r, IF invites[call[r].invite] = None THEN "failed"
             ELSE IF pc[r] = "findInvite" THEN "revokeInvite" ELSE "acceptInvite")
  /\ UNCHANGED inviting

(* revoke and accept find the invite pending, ...                          *)
FindInvite(r) ==
  /\ pc[r] \in {"findInvite", "matchInvite"}
  /\ Goto(r, IF invites[call[r].invite] # "pending" THEN "failed"
             ELSE IF pc[r] = "findInvite" THEN "revokeInvite" ELSE "acceptInvite")
  /\ UNCHANGED inviting

(* ... and update it by its id, whatever has become of it meanwhile; ...   *)
RevokeInvite(r) ==
  /\ pc[r] = "revokeInvite"
  /\ invites' = [invites EXCEPT ![call[r].invite] = "revoked"]
  /\ Goto(r, "ok")
  /\ UNCHANGED superAdmins

AcceptInvite(r) ==
  /\ pc[r] = "acceptInvite"
  /\ invites' = [invites EXCEPT ![call[r].invite] = "accepted"]
  /\ Goto(r, "grantRole")
  /\ UNCHANGED superAdmins

(* ... the role is given by a statement of its own.                        *)
GrantRole(r) ==
  /\ pc[r] = "grantRole"
  /\ superAdmins' = superAdmins \cup {call[r].user}
  /\ Goto(r, "ok")
  /\ UNCHANGED invites

InviteStep(r) ==
  \/ ReceiveInvite(r) \/ CheckPlatformRole(r) \/ CreateInvite(r) \/ MailInvite(r)
  \/ FindInvite(r) \/ RevokeInvite(r) \/ AcceptInvite(r) \/ GrantRole(r)
=============================================================================
