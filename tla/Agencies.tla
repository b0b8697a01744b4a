------------------------------ MODULE Agencies ------------------------------
(***************************************************************************)
(* Agencies, their verification, their badges and their staff:             *)
(* AgenciesService and AgenciesStaffService (src/src/modules/agencies) and *)
(* VerifiedBadgesService (src/src/modules/verified-badges).                *)
(*                                                                         *)
(* An agency belongs to one account and is named by it. The row of its     *)
(* owner in agency_staff has the same name; another row is named by the    *)
(* call that created it. Notifications are sent on a best-effort basis and *)
(* change nothing here; mail may fail, and then the call fails after all   *)
(* it has written.                                                         *)
(***************************************************************************)
EXTENDS HttpCalls

CONSTANTS
  Users,
  AgencyAccounts,  \* the users whose role is agency
  AgenciesBefore   \* under each load, the status of the agencies there are at first

Statuses == {"pending_verification", "approved", "rejected"}
Permissions == {"owner", "admin", "support"}
StaffIds == AgencyAccounts \cup Requests
StaffRows == [agency : AgencyAccounts, user : AgencyAccounts, permission : Permissions]

ASSUME AgencyAssumption ==
  /\ AgencyAccounts \subseteq Users
  /\ AgencyAccounts \cap Requests = {}
  /\ DOMAIN AgenciesBefore = Loads
  /\ \A l \in Loads : AgenciesBefore[l] \in [AgencyAccounts -> Statuses \cup {None}]
  /\ None \notin Statuses \cup StaffRows \cup {"active", "revoked"}

AgencyCalls ==
  [op : {"submitRegistration"}, user : Users]
    \cup [op : {"approve", "reject", "assignBadge", "revokeBadge"}, agency : AgencyAccounts]
    \cup [op : {"inviteStaff"}, user : AgencyAccounts, other : Users,
          permission : {"admin", "support"}]
    \cup [op : {"updatePermission"}, user : AgencyAccounts, row : StaffIds,
          permission : Permissions]
    \cup [op : {"removeStaff", "resendInvite"}, user : AgencyAccounts, row : StaffIds]

VARIABLES
  agencies,  \* the status of the agency of each account
  reasons,   \* the agencies that have a reason of rejection
  badges,    \* verified_badges of agencies, unique per agency
  staff      \* agency_staff

agencyTables == <<agencies, reasons, badges, staff>>

AgencySteps ==
  {"findAgency", "createAgency", "findPendingAgency", "decide", "mailDecision",
   "findBadge", "createBadge", "revokeBadge", "guard", "findStaff", "createStaff",
   "mailStaff", "writeStaff", "deleteStaff"}

OwnerRow(u) == [agency |-> u, user |-> u, permission |-> "owner"]

AgenciesInit ==
  /\ agencies = AgenciesBefore[load]
  /\ reasons = {}
  /\ badges = [a \in AgencyAccounts |-> IF agencies[a] = "approved" THEN "active" ELSE None]
  /\ staff = [x \in StaffIds |->
       IF x \in AgencyAccounts /\ agencies[x] # None
       THEN OwnerRow(x) ELSE None]

StaffOf(a, u) ==
  {x \in StaffIds : staff[x] # None /\ staff[x].agency = a /\ staff[x].user = u}

FirstAgencyStep(c) ==
  CASE c.op = "submitRegistration"      -> "findAgency"
    [] c.op \in {"approve", "reject"}   -> "findPendingAgency"
    [] c.op = "assignBadge"             -> "findBadge"
    [] c.op = "revokeBadge"             -> "revokeBadge"
    [] OTHER                            -> "guard"

ReceiveAgency(r) ==
  /\ Begin(r, AgencyCalls) /\ StartAt(r, FirstAgencyStep(call'[r]))
  /\ UNCHANGED agencyTables

-----------------------------------------------------------------------------
(* submitRegistration: an agency account registers one agency, ...         *)
FindAgency(r) ==
  LET u == call[r].user IN
  /\ pc[r] = "findAgency"
  /\ Goto(r, IF u \in AgencyAccounts /\ agencies[u] = None THEN "createAgency"
             ELSE "failed")
  /\ UNCHANGED agencyTables

(* ... with its owner as the first of the staff.                           *)
CreateAgency(r) ==
  LET u == call[r].user IN
  /\ pc[r] = "createAgency"
  /\ IF agencies[u] = None
     THEN /\ agencies' = [agencies EXCEPT ![u] = "pending_verification"]
          /\ staff' = [staff EXCEPT ![u] = OwnerRow(u)]
          /\ Goto(r, "ok")
     ELSE Goto(r, "failed") /\ UNCHANGED <<agencies, staff>>
  /\ UNCHANGED <<reasons, badges>>

(* approve and reject read that the agency is pending, ...                 *)
FindPendingAgency(r) ==
  /\ pc[r] = "findPendingAgency"
  /\ Goto(r, IF agencies[call[r].agency] = "pending_verification" THEN "decide"
             ELSE "failed")
  /\ UNCHANGED agencyTables

(* ... update its status by its id, ...                                    *)
Decide(r) ==
  LET a == call[r].agency IN
  /\ pc[r] = "decide"
  /\ IF call[r].op = "approve"
     THEN agencies' = [agencies EXCEPT ![a] = "approved"] /\ UNCHANGED reasons
     ELSE /\ agencies' = [agencies EXCEPT ![a] = "rejected"]
          /\ reasons' = reasons \cup {a}
  /\ Goto(r, "mailDecision")
  /\ UNCHANGED <<badges, staff>>

(* Fault: an approval ends with its mail.                                  *)
MailOnly(r) ==
  /\ pc[r] = "mailDecision"
  /\ Goto(r, "ok")
  /\ UNCHANGED agencyTables

(* ... send a mail about it, and ...                                       *)
MailDecision(r) ==
  /\ pc[r] = "mailDecision"
  /\ Goto(r, IF call[r].op = "approve" THEN "findBadge" ELSE "ok")
  /\ UNCHANGED agencyTables

(* ... an approval assigns a badge: none may be active, ...                *)
FindBadge(r) ==
  /\ pc[r] = "findBadge"
  /\ Goto(r, IF badges[call[r].agency] = "active" THEN "failed" ELSE "createBadge")
  /\ UNCHANGED agencyTables

(* ... and the unique index admits none after one that was revoked.        *)
CreateBadge(r) ==
  LET a == call[r].agency IN
  /\ pc[r] = "createBadge"
  /\ IF badges[a] = None
     THEN badges' = [badges EXCEPT ![a] = "active"] /\ Goto(r, "ok")
     ELSE Goto(r, "failed") /\ UNCHANGED badges
  /\ UNCHANGED <<agencies, reasons, staff>>

RevokeBadge(r) ==
  LET a == call[r].agency IN
  /\ pc[r] = "revokeBadge"
  /\ IF badges[a] # None
     THEN badges' = [badges EXCEPT ![a] = "revoked"] /\ Goto(r, "ok")
     ELSE Goto(r, "failed") /\ UNCHANGED badges
  /\ UNCHANGED <<agencies, reasons, staff>>

-----------------------------------------------------------------------------
(* AgencyStaffPermissionGuard finds the agency that the caller owns and    *)
(* the caller among its staff, and the service reads that row once more:   *)
(* all of it is one step, since nothing changes the row of an owner.       *)
Guard(r) ==
  LET u == call[r].user IN
  /\ pc[r] = "guard"
  /\ Goto(r, IF agencies[u] # None /\ \E x \in StaffOf(u, u) : staff[x].permission = "owner"
             THEN "findStaff" ELSE "failed")
  /\ UNCHANGED agencyTables

InvitationIsNew(c) == c.other \in AgencyAccounts /\ StaffOf(c.user, c.other) = {}

(* Fault: owners may change their own row.                                 *)
EveryTarget(c) == staff[c.row] # None /\ staff[c.row].agency = c.user

(* A row of the agency; owners leave their own alone.                      *)
IsTarget(c) ==
  /\ staff[c.row] # None /\ staff[c.row].agency = c.user
  /\ c.op # "resendInvite" => staff[c.row].user # c.user

StaffStep(c) ==
  CASE c.op = "inviteStaff"      -> "createStaff"
    [] c.op = "removeStaff"      -> "deleteStaff"
    [] c.op = "updatePermission" ->
         IF staff[c.row].permission = c.permission THEN "ok" ELSE "writeStaff"
    [] OTHER                     -> "mailStaff"

AfterStaff(c) ==
  IF IF c.op = "inviteStaff" THEN InvitationIsNew(c) ELSE IsTarget(c)
  THEN StaffStep(c) ELSE "failed"

FindStaff(r) ==
  /\ pc[r] = "findStaff"
  /\ Goto(r, AfterStaff(call[r]))
  /\ UNCHANGED agencyTables

(* inviteStaff: who is invited belongs to the staff at once.               *)
CreateStaff(r) ==
  LET c == call[r] IN
  /\ pc[r] = "createStaff"
  /\ IF StaffOf(c.user, c.other) = {}
     THEN /\ staff' = [staff EXCEPT ![r] =
               [agency |-> c.user, user |-> c.other, permission |-> c.permission]]
          /\ Goto(r, "mailStaff")
     ELSE Goto(r, "failed") /\ UNCHANGED staff
  /\ UNCHANGED <<agencies, reasons, badges>>

MailStaff(r) ==
  /\ pc[r] = "mailStaff"
  /\ Goto(r, "ok")
  /\ UNCHANGED agencyTables

(* updateStaffPermission and removeStaff write the row if it is there.     *)
WriteStaff(r) ==
  LET c == call[r] IN
  /\ pc[r] = "writeStaff"
  /\ IF staff[c.row] # None
     THEN /\ staff' = [staff EXCEPT ![c.row].permission = c.permission]
          /\ Goto(r, "ok")
     ELSE Goto(r, "failed") /\ UNCHANGED staff
  /\ UNCHANGED <<agencies, reasons, badges>>

DeleteStaff(r) ==
  LET x == call[r].row IN
  /\ pc[r] = "deleteStaff"
  /\ IF staff[x] # None
     THEN staff' = [staff EXCEPT ![x] = None] /\ Goto(r, "ok")
     ELSE Goto(r, "failed") /\ UNCHANGED staff
  /\ UNCHANGED <<agencies, reasons, badges>>

AgencyStep(r) ==
  \/ ReceiveAgency(r)
  \/ FindAgency(r) \/ CreateAgency(r) \/ FindPendingAgency(r) \/ Decide(r)
  \/ MailDecision(r) \/ FindBadge(r) \/ CreateBadge(r) \/ RevokeBadge(r)
  \/ Guard(r) \/ FindStaff(r) \/ CreateStaff(r) \/ MailStaff(r)
  \/ WriteStaff(r) \/ DeleteStaff(r)
=============================================================================
