------------------------------ MODULE ChatStore ------------------------------
(***************************************************************************)
(* The conversations that ConversationsService and MessagesService         *)
(* (src/src/modules/chat) keep, and their queries and updates of them, one *)
(* operator for each statement. Chat, GroupTrips and TripRequests build    *)
(* their handlers from these. Time is the number of messages in a          *)
(* conversation: the message at position i is created at time i.           *)
(***************************************************************************)
EXTENDS Friends, Sequences

CONSTANTS
  Agencies,
  Staff       \* the users each agency has in agency_staff, which other
              \* services change: nobody joins or leaves here

Participants == [role : {"admin", "member"}, left : BOOLEAN]

Conversations == [type : {"direct", "group", "agency"},
                  agency : Agencies \cup {None}]

ASSUME StaffAssumption == Staff \in [Agencies -> SUBSET Users]

ASSUME ChatNoneAssumption ==
  None \notin Participants \cup Conversations \cup Requests \cup Users \cup Agencies

VARIABLES
  conversations,  \* conversations, each named by the call that created it
  participants,   \* conversation_participants, unique per user
  messages,       \* the senders of the messages of each conversation, in order
  lastMessage,    \* last_message_at
  sentAt          \* the time of the message a call has just sent

chat == <<conversations, participants>>
messaging == <<messages, lastMessage, sentAt>>

ChatStoreInit ==
  /\ conversations = [c \in Requests |-> None]
  /\ participants = [c \in Requests |-> [u \in Users |-> None]]
  /\ messages = [c \in Requests |-> <<>>]
  /\ lastMessage = [c \in Requests |-> 0]
  /\ sentAt = [r \in Requests |-> 0]

Opened == {c \in Requests : conversations[c] # None}

Live(c, u) == participants[c][u] # None /\ ~participants[c][u].left

IsStaff(c, u) ==
  /\ conversations[c].type = "agency"
  /\ u \in Staff[conversations[c].agency]

(* assertAccess: a participant who has not left, or staff of the agency.   *)
HasAccess(c, u) == c \in Opened /\ (Live(c, u) \/ IsStaff(c, u))

(* Administrators of a conversation are participants with that role.       *)
IsChatAdmin(c, u) == Live(c, u) /\ participants[c][u].role = "admin"

(* The conversations that create finds instead of making another one.      *)
DirectOf(u, v) ==
  {c \in Opened : conversations[c].type = "direct" /\ Live(c, u) /\ Live(c, v)}
InboxOf(u, a) ==
  {c \in Opened : conversations[c].agency = a /\ Live(c, u)}

(* A conversation with its participants, in one nested create.             *)
CreateConversation(c, type, agency, admins, others) ==
  /\ conversations' = [conversations EXCEPT ![c] = [type |-> type, agency |-> agency]]
  /\ participants' = [participants EXCEPT ![c] =
       [u \in Users |-> IF u \in admins THEN [role |-> "admin", left |-> FALSE]
                        ELSE IF u \in others THEN [role |-> "member", left |-> FALSE]
                        ELSE None]]

(* createMany with skipDuplicates: a row that is there stays as it is.     *)
Join(c, us) ==
  participants' = [participants EXCEPT ![c] =
    [u \in Users |-> IF u \in us /\ @[u] = None
                     THEN [role |-> "member", left |-> FALSE] ELSE @[u]]]

Leave(c, u) == participants' = [participants EXCEPT ![c][u].left = TRUE]

Positions(c) == DOMAIN messages[c]

(* MessagesService.send stores a message, and then ...                     *)
AppendMessage(r, c, u) ==
  /\ messages' = [messages EXCEPT ![c] = Append(@, u)]
  /\ sentAt' = [sentAt EXCEPT ![r] = Len(messages[c]) + 1]
  /\ UNCHANGED lastMessage

(* ... gives the conversation the time of this message.                    *)
TouchConversation(r, c) ==
  /\ lastMessage' = [lastMessage EXCEPT ![c] = sentAt[r]]
  /\ UNCHANGED <<messages, sentAt>>
=============================================================================
