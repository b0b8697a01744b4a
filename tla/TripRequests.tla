---------------------------- MODULE TripRequests ----------------------------
(***************************************************************************)
(* TripRequestsService (src/src/modules/trip-requests/                     *)
(* trip-requests.service.ts): a traveler's requests to agencies, the       *)
(* conversation each is discussed in (ChatStore) and their lifecycle. A    *)
(* trip request is named by the call that created it. Notifications are    *)
(* sent on a best-effort basis and change nothing here.                    *)
(***************************************************************************)
EXTENDS ChatStore

CONSTANT Approved  \* the agencies with status approved

Statuses == {"pending", "in_discussion", "confirmed", "completed", "declined",
             "cancelled"}

(* owned: the package is the agency's and the campaign the traveler's, or  *)
(* none is named.                                                          *)
TripCalls ==
  [op : {"ask"}, user : Users, agency : Agencies, owned : BOOLEAN]
    \cup [op : {"update"}, agency : Agencies, request : Requests, status : Statuses]
    \cup [op : {"cancel"}, user : Users, request : Requests]

TripRequestRows ==
  [traveler : Users, agency : Agencies, status : Statuses, conversation : Requests]

ASSUME TripAssumption == Approved \subseteq Agencies /\ None \notin TripRequestRows

VARIABLES
  tripRequests,  \* trip_requests
  past,          \* history: the statuses each request has had
  inbox          \* the conversation a call has found or opened

trips == <<tripRequests, past>>

TripSteps == {"checkTrip", "findInbox", "openInbox", "insertTrip", "postFirst",
              "touchInbox", "updateTrip"}

TripInit ==
  /\ tripRequests = [r \in Requests |-> None]
  /\ past = [r \in Requests |-> {}]
  /\ inbox = [r \in Requests |-> None]

Made == {x \in Requests : tripRequests[x] # None}

(* Fault: a request may be confirmed without a discussion.                 *)
TransitionsFromAnywhere ==
  [pending |-> {"in_discussion", "confirmed", "declined", "cancelled"},
   in_discussion |-> {"confirmed", "declined", "cancelled"},
   confirmed |-> {"completed"},
   completed |-> {}, declined |-> {}, cancelled |-> {}]

AllowedTransitions ==
  [pending |-> {"in_discussion", "declined", "cancelled"},
   in_discussion |-> {"confirmed", "declined", "cancelled"},
   confirmed |-> {"completed"},
   completed |-> {}, declined |-> {}, cancelled |-> {}]

(* What updateStatus and cancel check of the request they read.            *)
MayChange(c) ==
  /\ c.request \in Made
  /\ IF c.op = "update"
     THEN /\ tripRequests[c.request].agency = c.agency
          /\ c.status \in AllowedTransitions[tripRequests[c.request].status]
     ELSE /\ tripRequests[c.request].traveler = c.user
          /\ tripRequests[c.request].status \in {"pending", "in_discussion"}

ReceiveTrip(r) ==
  /\ Begin(r, TripCalls) /\ StartAt(r, "checkTrip")
  /\ UNCHANGED <<chat, messaging, trips, inbox>>

CheckTrip(r) ==
  LET c == call[r] IN
  /\ pc[r] = "checkTrip"
  /\ Goto(r, IF c.op = "ask"
             THEN IF c.agency \in Approved /\ c.owned THEN "findInbox" ELSE "failed"
             ELSE IF MayChange(c) THEN "updateTrip" ELSE "failed")
  /\ UNCHANGED <<chat, messaging, trips, inbox>>

(* conversations.create: the traveler's conversation with the agency is    *)
(* found ...                                                               *)
FindInbox(r) ==
  LET found == InboxOf(call[r].user, call[r].agency) IN
  /\ pc[r] = "findInbox"
  /\ \/ \E c \in found : /\ inbox' = [inbox EXCEPT ![r] = c]
                         /\ Goto(r, "insertTrip")
     \/ found = {} /\ Goto(r, "openInbox") /\ UNCHANGED inbox
  /\ UNCHANGED <<chat, messaging, trips>>

(* Fault: the conversation is used without waiting for it.                 *)
OpenLater(r) ==
  /\ pc[r] = "openInbox"
  /\ inbox' = [inbox EXCEPT ![r] = r]
  /\ Goto(r, "insertTrip")
  /\ UNCHANGED <<chat, messaging, trips>>

(* ... or opened. *)
OpenInbox(r) ==
  /\ pc[r] = "openInbox"
  /\ CreateConversation(r, "agency", call[r].agency, {}, {call[r].user})
  /\ inbox' = [inbox EXCEPT ![r] = r]
  /\ Goto(r, "insertTrip")
  /\ UNCHANGED <<messaging, trips>>

(* The unique index on conversation_id.                                    *)
Used(c) == \E x \in Made : tripRequests[x].conversation = c

InsertTrip(r) ==
  LET c == call[r] IN
  /\ pc[r] = "insertTrip"
  /\ IF Used(inbox[r])
     THEN Goto(r, "failed") /\ UNCHANGED trips
     ELSE /\ tripRequests' = [tripRequests EXCEPT ![r] =
               [traveler |-> c.user, agency |-> c.agency, status |-> "pending",
                conversation |-> inbox[r]]]
          /\ past' = [past EXCEPT ![r] = {"pending"}]
          /\ Goto(r, "postFirst")
  /\ UNCHANGED <<chat, messaging, inbox>>

(* messages.send: its check and its message are one step, for nobody       *)
(* leaves a conversation with an agency.                                   *)
PostFirst(r) ==
  /\ pc[r] = "postFirst"
  /\ IF HasAccess(inbox[r], call[r].user)
     THEN AppendMessage(r, inbox[r], call[r].user) /\ Goto(r, "touchInbox")
     ELSE Goto(r, "failed") /\ UNCHANGED messaging
  /\ UNCHANGED <<chat, trips, inbox>>

TouchInbox(r) ==
  /\ pc[r] = "touchInbox"
  /\ TouchConversation(r, inbox[r])
  /\ Goto(r, "ok")
  /\ UNCHANGED <<chat, trips, inbox>>

(* The request is updated by its id, whatever its status is by now.        *)
UpdateTrip(r) ==
  LET c == call[r]
      status == IF c.op = "update" THEN c.status ELSE "cancelled"
  IN /\ pc[r] = "updateTrip"
     /\ tripRequests' = [tripRequests EXCEPT ![c.request].status = status]
     /\ past' = [past EXCEPT ![c.request] = @ \cup {status}]
     /\ Goto(r, "ok")
     /\ UNCHANGED <<chat, messaging, inbox>>

TripStep(r) ==
  \/ ReceiveTrip(r) \/ CheckTrip(r) \/ FindInbox(r) \/ OpenInbox(r)
  \/ InsertTrip(r) \/ PostFirst(r) \/ TouchInbox(r) \/ UpdateTrip(r)
=============================================================================
