-------------------------- MODULE SocialProperties --------------------------
(***************************************************************************)
(* What Social is checked against, for calls that overlap and break off    *)
(* anywhere. The code reads what it decides by in one statement and writes *)
(* in a later one, and no lock or index makes up for that: where calls     *)
(* that are served at the same time spoil a promise, the property names    *)
(* them. earlier[r] and Rivals(r) are the calls that were over when r was  *)
(* received, and those that were not.                                      *)
(***************************************************************************)
EXTENDS Social

Ledger == [Requests -> Entries \cup {None}]

(* No time that is kept of a conversation is ahead of its messages.        *)
TimesOf(c) == {lastMessage[c], staffReadTo[c]} \cup {readTo[c][u] : u \in Users}

(* Every variable holds a value of its kind; times are in the past,        *)
(* receipts are of messages, and a call that found or opened a             *)
(* conversation found one that is there.                                   *)
TypeOK ==
  /\ load \in Loads
  /\ pc \in [Requests -> {"idle"} \cup Answered
                           \cup FriendSteps \cup ChatSteps \cup GroupSteps \cup TripSteps]
  /\ \A r \in Requests : call[r] \in Script[load][r] \cup {None}
  /\ friendRequests \in [Requests -> FriendRows \cup {None}]
  /\ answering \in [Requests -> Requests \cup {None}]
  /\ conversations \in [Requests -> Conversations \cup {None}]
  /\ participants \in [Requests -> [Users -> Participants \cup {None}]]
  /\ messages \in [Requests -> Seq(Users)]
  /\ lastMessage \in [Requests -> Nat]
  /\ sentAt \in [Requests -> Nat]
  /\ receipts \subseteq Requests \X Nat \X Users
  /\ \A x \in receipts : x[2] \in Positions(x[1])
  /\ readReceipts \subseteq receipts
  /\ readTo \in [Requests -> [Users -> Nat]]
  /\ staffReadTo \in [Requests -> Nat]
  /\ \A c \in Requests : TimesOf(c) \subseteq 0..Len(messages[c])
  /\ \A r \in Requests : todo[r] \subseteq Users \cup Nat
  /\ members \in [Users -> Members \cup {None}]
  /\ conversation \in Opened \cup {None}
  /\ contributions \in Ledger /\ expenses \in Ledger /\ withdrawals \in Ledger
  /\ chatSeen \in [Requests -> Requests \cup {None}]
  /\ memberRow \in [Requests -> Requests \cup {Creator, None}]
  /\ tripRequests \in [Requests -> TripRequestRows \cup {None}]
  /\ past \in [Requests -> SUBSET Statuses]
  /\ inbox \in [Requests -> Opened \cup {None}]

-----------------------------------------------------------------------------
(* Friends.                                                                *)

(* A friendship begins with the consent of the one who was asked: a row is *)
(* waiting when it is created, and only a call of the addressee answers it.*)
(* An answer stands, unless two answers to the row were under way at once. *)
Answers(c, x) == c.op \in {"accept", "decline"} /\ c.row = x

ConsentOfAddressee ==
  [][\A x \in Requests : friendRequests'[x] # None =>
       IF friendRequests[x] = None
       THEN friendRequests'[x].status = "pending"
       ELSE \/ friendRequests'[x] = friendRequests[x]
            \/ \E r \in Requests :
                 /\ pc[r] = "respond" /\ Answers(call[r], x)
                 /\ call[r].user = friendRequests'[x].addressee
                 /\ friendRequests'[x].status = "accepted" => call[r].op = "accept"
                 /\ \/ friendRequests[x].status = "pending"
                    \/ \E o \in Rivals(r) : Answers(call[o], x)]_vars

-----------------------------------------------------------------------------
(* Conversations.                                                          *)

(* A message is from someone who has access to the conversation when it is *)
(* stored, whichever service stores it, or who had it when he sent the     *)
(* message and was being removed at the same time.                         *)
Expels(c, u) == c.op \in {"remove", "removeMember"} /\ c.other = u

PostedByParticipants ==
  [][\A c \in Requests : messages'[c] # messages[c] =>
       \E r \in Requests :
         /\ pc[r] \in {"post", "postFirst"}
         /\ messages'[c] = Append(messages[c], call[r].user)
         /\ \/ HasAccess(c, call[r].user)
            \/ /\ participants[c][call[r].user] # None
               /\ \E o \in Rivals(r) : Expels(call[o], call[r].user)]_vars

(* Two users share one direct conversation, and a user has one conversation*)
(* with an agency: a call that creates one, by itself or for a trip        *)
(* request, had no answered call before it whose conversation it should    *)
(* have returned.                                                          *)
ConversationsAreReused ==
  [][\A c \in Requests : conversations[c] = None /\ conversations'[c] # None =>
       /\ \A u, v \in Users : u # v /\ c \in DirectOf(u, v)' =>
            DirectOf(u, v) \cap earlier[c] = {}
       /\ \A u \in Users, a \in Agencies : c \in InboxOf(u, a)' =>
            InboxOf(u, a) \cap earlier[c] = {}]_vars

(* The message at position i of c was sent by call s.                      *)
Sent(s, c, i) ==
  /\ sentAt[s] = i
  /\ \/ call[s].op = "send" /\ call[s].conversation = c
     \/ call[s].op = "ask" /\ inbox[s] = c

(* The read cursor, behind which listForUser counts the unread, passes a   *)
(* message of another only when its receipt says read, or when it was sent *)
(* while the call that moves the cursor was being served.                  *)
UnreadIsCounted ==
  [][\A c \in Requests, u \in Users : \A i \in Positions(c) :
       readTo[c][u] < i /\ i <= readTo'[c][u] /\ messages[c][i] # u =>
         \/ <<c, i, u>> \in readReceipts
         \/ \E r \in Requests : /\ pc[r] = "cursor" /\ call[r].conversation = c
                                /\ call[r].user = u
                                /\ \E s \in Rivals(r) : Sent(s, c, i)]_vars

-----------------------------------------------------------------------------
(* Group trips.                                                            *)

(* The chat of the trip is opened once and every later member joins it: it *)
(* is replaced only by a call that was received before the one that opened *)
(* it was answered.                                                        *)
OneGroupChat ==
  [][\/ conversation' = conversation
     \/ /\ conversation' \in Requests
        /\ conversation = None \/ conversation \in Rivals(conversation')]_vars

(* When an administrator has removed a member with success, the member is  *)
(* not in the chat of the trip, unless someone was being added meanwhile.  *)
RemovedIsOutOfChat ==
  [][\A r \in Requests :
       pc[r] \in GroupSteps /\ pc'[r] = "ok" /\ call[r].op = "removeMember" =>
         \/ ~(conversation # None /\ Live(conversation, call[r].other))'
         \/ \E o \in Rivals(r) : call[o].op \in {"addMember", "add"}]_vars

(* When an administrator has added a member with success, and no call was  *)
(* served at the same time, the member is in the chat of the trip.         *)
AddedIsInChat ==
  [][\A r \in Requests :
       /\ pc[r] \in GroupSteps /\ pc'[r] = "ok" /\ call[r].op = "addMember"
       /\ Rivals(r) = {}
       => (conversation # None /\ Live(conversation, call[r].other))']_vars

-----------------------------------------------------------------------------
(* Trip requests.                                                          *)

(* The calls that may change the status of a request.                      *)
Moves(c, x) == c.op \in {"update", "cancel"} /\ c.request = x

Follows(old, new) ==
  \/ old = "pending" /\ new \in {"in_discussion", "declined", "cancelled"}
  \/ old = "in_discussion" /\ new \in {"confirmed", "declined", "cancelled"}
  \/ old = "confirmed" /\ new = "completed"

(* What is confirmed was discussed and what is completed was confirmed at  *)
(* some time, however the agency and the traveler race each other; and no  *)
(* call leaves the end of a request, or goes back, except one that read    *)
(* its status before a call that was served at the same time changed it.   *)
StagesAreNotSkipped ==
  [][\A x \in Made :
       LET old == tripRequests[x].status
           new == tripRequests'[x].status
       IN \/ new = old
          \/ Follows(old, new)
          \/ /\ \E was \in past[x] : Follows(was, new)
             /\ \E r \in Requests : /\ pc[r] = "updateTrip" /\ Moves(call[r], x)
                                    /\ \E o \in Rivals(r) : Moves(call[o], x)]_vars
=============================================================================
