----------------------------- MODULE GroupTrips -----------------------------
(***************************************************************************)
(* GroupCampaignsService (src/src/modules/group-campaigns/                 *)
(* group-campaigns.service.ts): the members of one group trip, its chat,   *)
(* which ConversationsService keeps (ChatStore), and its money. The reads  *)
(* of an access check, of the campaign and of the membership, are one      *)
(* step. A member and an expense are named by the call that created them.  *)
(***************************************************************************)
EXTENDS ChatStore, FiniteSetsExt

CONSTANTS
  Creator,    \* the user who created the trip
  Amounts,    \* amounts of money
  Verified,   \* the users whose identity is verified
  HighValue   \* the least amount that needs it

GroupCalls ==
  [op : {"addMember", "removeMember"}, user : Users, other : Users]
    \cup [op : {"permit"}, user : Users, other : Users, may : BOOLEAN]
    \cup [op : {"contribute", "withdraw"}, user : Users, amount : Amounts]
    \cup [op : {"spend"}, user : Users, payer : Users, amount : Amounts]
    \cup [op : {"unspend"}, user : Users, expense : Requests]

Members == [id : Requests \cup {Creator}, role : {"admin", "member"}, canWithdraw : BOOLEAN]
Entries == [user : Users, amount : Amounts]

ASSUME GroupAssumption ==
  /\ Creator \in Users
  /\ Creator \notin Requests
  /\ Amounts \subseteq Nat \ {0}
  /\ Verified \subseteq Users
  /\ HighValue \in Nat

VARIABLES
  members,        \* group_members of the trip, unique per user
  conversation,   \* group_conversation_id
  contributions,  \* group_contributions, by the call that made each
  expenses,       \* group_expenses
  withdrawals,    \* withdrawal_requests of the trip
  chatSeen,       \* the conversation of the campaign a call has read
  memberRow       \* the id of the member it has found

money == <<contributions, expenses, withdrawals>>
group == <<members, conversation, money>>
groupLocal == <<chatSeen, memberRow>>

GroupSteps ==
  {"readCampaign", "findMember", "checkFriend", "insertMember", "chatAccess",
   "chatFriends", "chatJoin", "chatCreate", "link", "memberTarget",
   "deleteMember", "chatTarget", "chatLeave", "permit", "payer", "record",
   "sums", "requestWithdrawal", "unspend"}

(* create of a group campaign seeds its creator as administrator.          *)
GroupInit ==
  /\ members = [u \in Users |-> IF u = Creator
       THEN [id |-> Creator, role |-> "admin", canWithdraw |-> FALSE] ELSE None]
  /\ conversation = None
  /\ contributions = [r \in Requests |-> None]
  /\ expenses = [r \in Requests |-> None]
  /\ withdrawals = [r \in Requests |-> None]
  /\ chatSeen = [r \in Requests |-> None]
  /\ memberRow = [r \in Requests |-> None]

IsMember(u) == members[u] # None
IsAdmin(u) == IsMember(u) /\ members[u].role = "admin"

MayWithdraw(u) == IsMember(u) /\ (members[u].role = "admin" \/ members[u].canWithdraw)

Total(entries) ==
  MapThenSumSet(LAMBDA r : entries[r].amount, {r \in Requests : entries[r] # None})

Available == Total(contributions) - Total(expenses)

ReceiveGroup(r) ==
  /\ Begin(r, GroupCalls) /\ StartAt(r, "readCampaign")
  /\ UNCHANGED <<chat, group, groupLocal>>

(* assertMember, assertWithdrawPermission, assertAdmin; the creator stays. *)
Allowed(c) ==
  CASE c.op \in {"contribute", "spend"} -> IsMember(c.user)
    [] c.op = "withdraw" -> MayWithdraw(c.user)
    [] c.op = "removeMember" -> IsAdmin(c.user) /\ c.other # Creator
    [] OTHER -> IsAdmin(c.user)

NextGroupStep(c) ==
  CASE c.op = "addMember"                -> "findMember"
    [] c.op \in {"removeMember", "permit"} -> "memberTarget"
    [] c.op = "contribute"               -> "record"
    [] c.op = "spend"                    -> "payer"
    [] c.op = "withdraw"                 -> "sums"
    [] OTHER                             -> "unspend"

(* Fault: the conversation of the campaign is not read.                    *)
ReadMembership(r) ==
  /\ pc[r] = "readCampaign"
  /\ Goto(r, IF Allowed(call[r]) THEN NextGroupStep(call[r]) ELSE "failed")
  /\ UNCHANGED <<chat, group, groupLocal>>

(* The campaign is read here, its conversation used at the end of a call.  *)
ReadCampaign(r) ==
  /\ pc[r] = "readCampaign"
  /\ Goto(r, IF Allowed(call[r]) THEN NextGroupStep(call[r]) ELSE "failed")
  /\ chatSeen' = [chatSeen EXCEPT ![r] = conversation]
  /\ UNCHANGED <<chat, group, memberRow>>

-----------------------------------------------------------------------------
(* addMember                                                               *)

FindMember(r) ==
  /\ pc[r] = "findMember"
  /\ Goto(r, IF IsMember(call[r].other) THEN "failed" ELSE "checkFriend")
  /\ UNCHANGED <<chat, group, groupLocal>>

CheckFriend(r) ==
  /\ pc[r] = "checkFriend"
  /\ Goto(r, IF AreFriends(call[r].user, call[r].other) THEN "insertMember" ELSE "failed")
  /\ UNCHANGED <<chat, group, groupLocal>>

(* The unique index refuses a member who was added meanwhile.              *)
InsertMember(r) ==
  LET u == call[r].other IN
  /\ pc[r] = "insertMember"
  /\ IF IsMember(u)
     THEN Goto(r, "failed") /\ UNCHANGED members
     ELSE /\ members' = [members EXCEPT ![u] =
               [id |-> r, role |-> "member", canWithdraw |-> FALSE]]
          /\ Goto(r, IF chatSeen[r] # None THEN "chatAccess" ELSE "chatFriends")
  /\ UNCHANGED <<chat, conversation, money, groupLocal>>

(* The first member to be added opens the chat, as the campaign was read.  *)
ChatFriends(r) ==
  /\ pc[r] = "chatFriends"
  /\ Goto(r, IF ~AreFriends(call[r].user, call[r].other) THEN "failed"
             ELSE IF chatSeen[r] = None THEN "chatCreate" ELSE "chatJoin")
  /\ UNCHANGED <<chat, group, groupLocal>>

ChatCreate(r) ==
  /\ pc[r] = "chatCreate"
  /\ CreateConversation(r, "group", None, {call[r].user}, {call[r].other})
  /\ Goto(r, "link")
  /\ UNCHANGED <<group, groupLocal>>

Link(r) ==
  /\ pc[r] = "link"
  /\ conversation' = r
  /\ Goto(r, "ok")
  /\ UNCHANGED <<chat, members, money, groupLocal>>

(* Later ones are added to it, and removed ones leave it, with the access  *)
(* checks of ConversationsService.                                         *)
ChatAccess(r) ==
  /\ pc[r] = "chatAccess"
  /\ Goto(r, IF ~IsChatAdmin(chatSeen[r], call[r].user) THEN "failed"
             ELSE IF call[r].op = "addMember" THEN "chatFriends" ELSE "chatTarget")
  /\ UNCHANGED <<chat, group, groupLocal>>

ChatJoin(r) ==
  /\ pc[r] = "chatJoin"
  /\ Join(chatSeen[r], {call[r].other})
  /\ Goto(r, "ok")
  /\ UNCHANGED <<conversations, group, groupLocal>>

-----------------------------------------------------------------------------
(* removeMember and updateMemberWithdrawPermission, which find a row ...    *)
MemberTarget(r) ==
  LET u == call[r].other IN
  /\ pc[r] = "memberTarget"
  /\ IF IsMember(u)
     THEN /\ memberRow' = [memberRow EXCEPT ![r] = members[u].id]
          /\ Goto(r, IF call[r].op = "removeMember" THEN "deleteMember" ELSE "permit")
     ELSE Goto(r, "failed") /\ UNCHANGED memberRow
  /\ UNCHANGED <<chat, group, chatSeen>>

(* ... and write it by its id.                                             *)
RowIsThere(r) == IsMember(call[r].other) /\ members[call[r].other].id = memberRow[r]

(* Fault: who leaves the trip keeps its chat.                              *)
DeleteMemberOnly(r) ==
  /\ pc[r] = "deleteMember"
  /\ RowIsThere(r)
  /\ members' = [members EXCEPT ![call[r].other] = None]
  /\ Goto(r, "ok")
  /\ UNCHANGED <<chat, conversation, money, groupLocal>>

DeleteMember(r) ==
  /\ pc[r] = "deleteMember"
  /\ IF RowIsThere(r)
     THEN /\ members' = [members EXCEPT ![call[r].other] = None]
          /\ Goto(r, IF chatSeen[r] # None THEN "chatAccess" ELSE "ok")
     ELSE Goto(r, "failed") /\ UNCHANGED members
  /\ UNCHANGED <<chat, conversation, money, groupLocal>>

ChatTarget(r) ==
  /\ pc[r] = "chatTarget"
  /\ Goto(r, IF Live(chatSeen[r], call[r].other) THEN "chatLeave" ELSE "failed")
  /\ UNCHANGED <<chat, group, groupLocal>>

ChatLeave(r) ==
  /\ pc[r] = "chatLeave"
  /\ Leave(chatSeen[r], call[r].other)
  /\ Goto(r, "ok")
  /\ UNCHANGED <<conversations, group, groupLocal>>

Permit(r) ==
  /\ pc[r] = "permit"
  /\ IF RowIsThere(r)
     THEN /\ members' = [members EXCEPT ![call[r].other].canWithdraw = call[r].may]
          /\ Goto(r, "ok")
     ELSE Goto(r, "failed") /\ UNCHANGED members
  /\ UNCHANGED <<chat, conversation, money, groupLocal>>

-----------------------------------------------------------------------------
(* addContribution, addExpense, removeExpense and groupWithdraw.           *)

(* An expense is paid by a member. *)
Payer(r) ==
  /\ pc[r] = "payer"
  /\ Goto(r, IF IsMember(call[r].payer) THEN "record" ELSE "failed")
  /\ UNCHANGED <<chat, group, groupLocal>>

Record(r) ==
  LET c == call[r] IN
  /\ pc[r] = "record"
  /\ IF c.op = "contribute"
     THEN /\ contributions' = [contributions EXCEPT ![r] = [user |-> c.user, amount |-> c.amount]]
          /\ UNCHANGED expenses
     ELSE /\ expenses' = [expenses EXCEPT ![r] = [user |-> c.payer, amount |-> c.amount]]
          /\ UNCHANGED contributions
  /\ Goto(r, "ok")
  /\ UNCHANGED <<chat, members, conversation, withdrawals, groupLocal>>

(* An expense that is there is deleted. *)
Unspend(r) ==
  /\ pc[r] = "unspend"
  /\ IF expenses[call[r].expense] # None
     THEN expenses' = [expenses EXCEPT ![call[r].expense] = None] /\ Goto(r, "ok")
     ELSE Goto(r, "failed") /\ UNCHANGED expenses
  /\ UNCHANGED <<chat, members, conversation, contributions, withdrawals, groupLocal>>

(* What is available counts contributions and expenses, not withdrawals.   *)
Sums(r) ==
  /\ pc[r] = "sums"
  /\ Goto(r, IF /\ call[r].amount <= Available
                /\ call[r].amount >= HighValue => call[r].user \in Verified
             THEN "requestWithdrawal" ELSE "failed")
  /\ UNCHANGED <<chat, group, groupLocal>>

RequestWithdrawal(r) ==
  LET c == call[r] IN
  /\ pc[r] = "requestWithdrawal"
  /\ withdrawals' = [withdrawals EXCEPT ![r] = [user |-> c.user, amount |-> c.amount]]
  /\ Goto(r, "ok")
  /\ UNCHANGED <<chat, members, conversation, contributions, expenses, groupLocal>>

-----------------------------------------------------------------------------
GroupStep(r) ==
  \/ ReceiveGroup(r) \/ ReadCampaign(r) \/ FindMember(r) \/ CheckFriend(r)
  \/ InsertMember(r) \/ ChatFriends(r) \/ ChatCreate(r) \/ Link(r)
  \/ ChatAccess(r) \/ ChatJoin(r) \/ MemberTarget(r) \/ DeleteMember(r)
  \/ ChatTarget(r) \/ ChatLeave(r) \/ Permit(r) \/ Payer(r) \/ Record(r)
  \/ Unspend(r) \/ Sums(r) \/ RequestWithdrawal(r)
=============================================================================
