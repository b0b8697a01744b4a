-------------------------------- MODULE Chat --------------------------------
(***************************************************************************)
(* ConversationsService and MessagesService (src/src/modules/chat): opening*)
(* conversations, their participants, messages, receipts and read cursors. *)
(***************************************************************************)
EXTENDS ChatStore

ChatCalls ==
  [op : {"direct"}, user : Users, other : Users]
    \cup [op : {"group"}, user : Users, others : SUBSET Users]
    \cup [op : {"agency"}, user : Users, agency : Agencies]
    \cup [op : {"add"}, conversation : Requests, user : Users,
          others : SUBSET Users]
    \cup [op : {"remove"}, conversation : Requests, user : Users,
          other : Users]
    \cup [op : {"send", "list", "read"}, conversation : Requests,
          user : Users]

VARIABLES
  receipts,     \* message_receipts, as <<conversation, position, user>>
  readReceipts, \* those of them with status read
  readTo,       \* last_read_at of each participant
  staffReadTo,  \* agency_last_read_at
  todo          \* what a call still has to check or to write

receipting == <<receipts, readReceipts, readTo, staffReadTo>>

ChatSteps == {"checkFriends", "findDirect", "findAgency", "openConversation",
              "access", "join", "findTarget", "leave", "post", "touch",
              "page", "deliver", "collect", "receipt", "cursor"}

ChatInit ==
  /\ receipts = {}
  /\ readReceipts = {}
  /\ readTo = [c \in Requests |-> [u \in Users |-> 0]]
  /\ staffReadTo = [c \in Requests |-> 0]
  /\ todo = [r \in Requests |-> {}]

Todo(r, set) == todo' = [todo EXCEPT ![r] = set]

(* Those the caller must have as friends; a group leaves out himself.      *)
ToBefriend(c) ==
  CASE c.op = "direct" -> {c.other}
    [] c.op = "group"  -> c.others \ {c.user}
    [] c.op = "add"    -> c.others
    [] OTHER           -> {}

FirstChatStep(c) ==
  CASE c.op = "direct" -> IF c.user = c.other THEN "failed" ELSE "checkFriends"
    [] c.op = "group"  -> IF c.others = {} THEN "failed" ELSE "checkFriends"
    [] c.op = "agency" -> "findAgency"
    [] OTHER           -> "access"

ReceiveChat(r) ==
  /\ Begin(r, ChatCalls) /\ StartAt(r, FirstChatStep(call'[r]))
  /\ Todo(r, ToBefriend(call'[r]))
  /\ UNCHANGED <<chat, messaging, receipting>>

-----------------------------------------------------------------------------
(* Conversations.                                                          *)

(* areFriends, once for each user to be added. *)
CheckFriends(r) ==
  /\ pc[r] = "checkFriends"
  /\ \/ \E u \in todo[r] :
          IF AreFriends(call[r].user, u)
          THEN Todo(r, todo[r] \ {u}) /\ UNCHANGED calls
          ELSE Goto(r, "failed") /\ UNCHANGED todo
     \/ /\ todo[r] = {}
        /\ Goto(r, CASE call[r].op = "direct" -> "findDirect"
                     [] call[r].op = "group"  -> "openConversation"
                     [] OTHER                 -> "join")
        /\ UNCHANGED todo
  /\ UNCHANGED <<chat, messaging, receipting>>

(* Fault: an existing conversation is not looked for.                      *)
FindDirectNever(r) ==
  /\ pc[r] = "findDirect"
  /\ Goto(r, "openConversation")
  /\ UNCHANGED <<chat, messaging, receipting, todo>>

FindDirect(r) ==
  /\ pc[r] = "findDirect"
  /\ Goto(r, IF DirectOf(call[r].user, call[r].other) # {} THEN "ok" ELSE "openConversation")
  /\ UNCHANGED <<chat, messaging, receipting, todo>>

FindAgency(r) ==
  /\ pc[r] = "findAgency"
  /\ Goto(r, IF InboxOf(call[r].user, call[r].agency) # {} THEN "ok" ELSE "openConversation")
  /\ UNCHANGED <<chat, messaging, receipting, todo>>

OpenConversation(r) ==
  LET c == call[r] IN
  /\ pc[r] = "openConversation"
  /\ CASE c.op = "direct" ->
            CreateConversation(r, "direct", None, {}, {c.user, c.other})
       [] c.op = "group" ->
            CreateConversation(r, "group", None, {c.user}, c.others)
       [] c.op = "agency" ->
            CreateConversation(r, "agency", c.agency, {}, {c.user})
  /\ Goto(r, "ok")
  /\ UNCHANGED <<messaging, receipting, todo>>

(* Fault: anyone posts to a conversation.                                  *)
AccessOfAnyone(r) == call[r].conversation \in Opened

(* What the handlers check about the conversation they have access to.     *)
AfterAccess(r) ==
  LET c == call[r]
      group == conversations[c.conversation].type = "group"
  IN CASE c.op = "add" -> IF group /\ IsChatAdmin(c.conversation, c.user)
                          THEN "checkFriends" ELSE "failed"
       [] c.op = "remove" -> IF group /\ (c.other = c.user
                                          \/ IsChatAdmin(c.conversation, c.user))
                             THEN "findTarget" ELSE "failed"
       [] c.op = "send" -> "post"
       [] c.op = "list" -> "page"
       [] OTHER         -> "collect"

Granted(r) == HasAccess(call[r].conversation, call[r].user)

Access(r) ==
  /\ pc[r] = "access"
  /\ Goto(r, IF Granted(r) THEN AfterAccess(r) ELSE "failed")
  /\ UNCHANGED <<chat, messaging, receipting, todo>>

AddParticipant(r) ==
  /\ pc[r] = "join"
  /\ Join(call[r].conversation, call[r].others)
  /\ Goto(r, "ok")
  /\ UNCHANGED <<conversations, messaging, receipting, todo>>

FindTarget(r) ==
  /\ pc[r] = "findTarget"
  /\ Goto(r, IF Live(call[r].conversation, call[r].other) THEN "leave" ELSE "failed")
  /\ UNCHANGED <<chat, messaging, receipting, todo>>

RemoveParticipant(r) ==
  /\ pc[r] = "leave"
  /\ Leave(call[r].conversation, call[r].other)
  /\ Goto(r, "ok")
  /\ UNCHANGED <<conversations, messaging, receipting, todo>>

-----------------------------------------------------------------------------
(* Messages.                                                               *)

Post(r) ==
  /\ pc[r] = "post"
  /\ AppendMessage(r, call[r].conversation, call[r].user)
  /\ Goto(r, "touch")
  /\ UNCHANGED <<chat, receipting, todo>>

Touch(r) ==
  /\ pc[r] = "touch"
  /\ TouchConversation(r, call[r].conversation)
  /\ Goto(r, "ok")
  /\ UNCHANGED <<chat, receipting, todo>>

OfOthers(c, u) == {i \in Positions(c) : messages[c][i] # u}

(* list reads a page of messages ...                                       *)
Page(r) ==
  /\ pc[r] = "page"
  /\ Todo(r, OfOthers(call[r].conversation, call[r].user))
  /\ Goto(r, "deliver")
  /\ UNCHANGED <<chat, messaging, receipting>>

ReceiptsOf(r) == {call[r].conversation} \X todo[r] \X {call[r].user}

(* ... and upserts receipts for those of others, changing none that exists;*)
(* the upserts run side by side and any of them may fail.                  *)
Deliver(r) ==
  /\ pc[r] = "deliver"
  /\ \E done \in SUBSET ReceiptsOf(r) :
       /\ receipts' = receipts \cup done
       /\ Goto(r, IF done = ReceiptsOf(r) THEN "ok" ELSE "failed")
  /\ UNCHANGED <<chat, messaging, readReceipts, readTo, staffReadTo, todo>>

(* markRead reads the messages of others ...                               *)
Collect(r) ==
  /\ pc[r] = "collect"
  /\ Todo(r, OfOthers(call[r].conversation, call[r].user))
  /\ Goto(r, "receipt")
  /\ UNCHANGED <<chat, messaging, receipting>>

(* Fault: markRead does not touch existing receipts.                       *)
ReceiptIfNew(r) ==
  /\ pc[r] = "receipt"
  /\ receipts' = receipts \cup ReceiptsOf(r)
  /\ readReceipts' = readReceipts \cup (ReceiptsOf(r) \ receipts)
  /\ Goto(r, "cursor")
  /\ UNCHANGED <<chat, messaging, readTo, staffReadTo, todo>>

(* ... marks their receipts read, any of which may fail ...                *)
Receipt(r) ==
  /\ pc[r] = "receipt"
  /\ \E done \in SUBSET ReceiptsOf(r) :
       /\ receipts' = receipts \cup done
       /\ readReceipts' = readReceipts \cup done
       /\ Goto(r, IF done = ReceiptsOf(r) THEN "cursor" ELSE "failed")
  /\ UNCHANGED <<chat, messaging, readTo, staffReadTo, todo>>

(* ... and moves the read cursor of the participant, or that of the whole  *)
(* agency for its staff, to the present.                                   *)
Cursor(r) ==
  LET c == call[r].conversation IN
  /\ pc[r] = "cursor"
  /\ IF participants[c][call[r].user] # None
     THEN /\ readTo' = [readTo EXCEPT ![c][call[r].user] = Len(messages[c])]
          /\ UNCHANGED staffReadTo
     ELSE /\ staffReadTo' = [staffReadTo EXCEPT ![c] = Len(messages[c])]
          /\ UNCHANGED readTo
  /\ Goto(r, "ok")
  /\ UNCHANGED <<chat, messaging, receipts, readReceipts, todo>>

-----------------------------------------------------------------------------
ChatStep(r) ==
  \/ ReceiveChat(r) \/ CheckFriends(r) \/ FindDirect(r) \/ FindAgency(r)
  \/ OpenConversation(r) \/ Access(r) \/ AddParticipant(r) \/ FindTarget(r)
  \/ RemoveParticipant(r) \/ Post(r) \/ Touch(r) \/ Page(r) \/ Deliver(r)
  \/ Collect(r) \/ Receipt(r) \/ Cursor(r)
=============================================================================
