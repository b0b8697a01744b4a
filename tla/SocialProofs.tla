---------------------------- MODULE SocialProofs ----------------------------
(***************************************************************************)
(* Proofs about Social, for any users, agencies, calls and loads, and any  *)
(* number of calls at a time.                                              *)
(*   FriendsInv and TripsInv are about tables that one of the four services*)
(* writes, after reads that may be stale: the steps of that service keep   *)
(* them and the steps of the other three do not touch them.                *)
(*   Three services write conversations. Of these SocialInv holds: a       *)
(* conversation is opened once and grows, rows of participants and messages*)
(* stay, so what a call has once learnt of it (Known) remains true.        *)
(*   Met adds what a call has read that does not remain true by itself: it *)
(* is true when the call relies on it, or one of its rivals is a call that *)
(* may have changed it meanwhile. The properties follow from it.           *)
(***************************************************************************)
EXTENDS SocialProperties, Overlaps, TLAPS

Received == DOMAIN pc = Requests /\ DOMAIN call = Requests

(* A step of a call moves that call only, and to none of these steps.      *)
Elsewhere(r, held) ==
  /\ Received' /\ UNCHANGED load
  /\ \A o \in Requests \ {r} : pc'[o] = pc[o] /\ call'[o] = call[o]
  /\ pc'[r] \notin held

Befriends == {"idle"} \cup FriendSteps
Travels == {"idle"} \cup TripSteps

-----------------------------------------------------------------------------
(* Conversations and group trips.                                          *)
LEMMA ChatElsewhere ==
  ASSUME Received, NEW r \in Requests, ChatStep(r)
  PROVE  Elsewhere(r, Befriends \cup Travels)
<1> USE DEF Received, Goto, Elsewhere, Befriends, Travels, FriendSteps, TripSteps
<1>1. CASE ReceiveChat(r)
  BY <1>1 DEF ReceiveChat, FirstChatStep, Begin, StartAt
<1>2. CASE CheckFriends(r)
  BY <1>2 DEF CheckFriends, calls
<1>3. CASE FindDirect(r)
  BY <1>3 DEF FindDirect
<1>4. CASE FindAgency(r)
  BY <1>4 DEF FindAgency
<1>5. CASE OpenConversation(r)
  BY <1>5 DEF OpenConversation
<1>6. CASE Access(r)
  BY <1>6 DEF Access, AfterAccess
<1>7. CASE AddParticipant(r)
  BY <1>7 DEF AddParticipant
<1>8. CASE FindTarget(r)
  BY <1>8 DEF FindTarget
<1>9. CASE RemoveParticipant(r)
  BY <1>9 DEF RemoveParticipant
<1>10. CASE Post(r)
  BY <1>10 DEF Post
<1>11. CASE Touch(r)
  BY <1>11 DEF Touch
<1>12. CASE Page(r)
  BY <1>12 DEF Page
<1>13. CASE Deliver(r)
  BY <1>13 DEF Deliver
<1>14. CASE Collect(r)
  BY <1>14 DEF Collect
<1>15. CASE Receipt(r)
  BY <1>15 DEF Receipt
<1>16. CASE Cursor(r)
  BY <1>16 DEF Cursor
<1> QED
  BY <1>1, <1>2, <1>3, <1>4, <1>5, <1>6, <1>7, <1>8, <1>9, <1>10, <1>11, <1>12, <1>13,
     <1>14, <1>15, <1>16 DEF ChatStep

LEMMA GroupElsewhere ==
  ASSUME Received, NEW r \in Requests, GroupStep(r)
  PROVE  Elsewhere(r, Befriends \cup Travels)
<1> USE DEF Received, Goto, Elsewhere, Befriends, Travels, FriendSteps, TripSteps
<1>1. CASE ReceiveGroup(r)
  BY <1>1 DEF ReceiveGroup, Begin, StartAt
<1>2. CASE ReadCampaign(r)
  BY <1>2 DEF ReadCampaign, NextGroupStep
<1>3. CASE FindMember(r)
  BY <1>3 DEF FindMember
<1>4. CASE CheckFriend(r)
  BY <1>4 DEF CheckFriend
<1>5. CASE InsertMember(r)
  BY <1>5 DEF InsertMember
<1>6. CASE ChatFriends(r)
  BY <1>6 DEF ChatFriends
<1>7. CASE ChatCreate(r)
  BY <1>7 DEF ChatCreate
<1>8. CASE Link(r)
  BY <1>8 DEF Link
<1>9. CASE ChatAccess(r)
  BY <1>9 DEF ChatAccess
<1>10. CASE ChatJoin(r)
  BY <1>10 DEF ChatJoin
<1>11. CASE MemberTarget(r)
  BY <1>11 DEF MemberTarget
<1>12. CASE DeleteMember(r)
  BY <1>12 DEF DeleteMember
<1>13. CASE ChatTarget(r)
  BY <1>13 DEF ChatTarget
<1>14. CASE ChatLeave(r)
  BY <1>14 DEF ChatLeave
<1>15. CASE Permit(r)
  BY <1>15 DEF Permit
<1>16. CASE Payer(r)
  BY <1>16 DEF Payer
<1>17. CASE Record(r)
  BY <1>17 DEF Record
<1>18. CASE Unspend(r)
  BY <1>18 DEF Unspend
<1>19. CASE Sums(r)
  BY <1>19 DEF Sums
<1>20. CASE RequestWithdrawal(r)
  BY <1>20 DEF RequestWithdrawal
<1> QED
  BY <1>1, <1>2, <1>3, <1>4, <1>5, <1>6, <1>7, <1>8, <1>9, <1>10, <1>11, <1>12, <1>13,
     <1>14, <1>15, <1>16, <1>17, <1>18, <1>19, <1>20 DEF GroupStep

(* Friends and trip requests leave each other alone.                       *)
LEMMA FriendsElsewhere ==
  ASSUME Received, NEW r \in Requests, FriendsStep(r)
  PROVE  Elsewhere(r, Travels)
<1> USE DEF Received, Goto, Elsewhere, Travels, TripSteps
<1>1. CASE ReceiveFriend(r)
  BY <1>1 DEF ReceiveFriend, FirstFriendStep, Begin, StartAt
<1>2. CASE FindOpen(r)
  BY <1>2 DEF FindOpen
<1>3. CASE CreateRequest(r)
  BY <1>3 DEF CreateRequest
<1>4. CASE FindPending(r)
  BY <1>4 DEF FindPending
<1>5. CASE Respond(r)
  BY <1>5 DEF Respond
<1>6. CASE FindAccepted(r)
  BY <1>6 DEF FindAccepted
<1>7. CASE DeleteRequest(r)
  BY <1>7 DEF DeleteRequest
<1> QED
  BY <1>1, <1>2, <1>3, <1>4, <1>5, <1>6, <1>7 DEF FriendsStep

LEMMA TripsElsewhere ==
  ASSUME Received, NEW r \in Requests, TripStep(r)
  PROVE  Elsewhere(r, Befriends)
<1> USE DEF Received, Goto, Elsewhere, Befriends, FriendSteps
<1>1. CASE ReceiveTrip(r)
  BY <1>1 DEF ReceiveTrip, Begin, StartAt
<1>2. CASE CheckTrip(r)
  BY <1>2 DEF CheckTrip
<1>3. CASE FindInbox(r)
  BY <1>3 DEF FindInbox
<1>4. CASE OpenInbox(r)
  BY <1>4 DEF OpenInbox
<1>5. CASE InsertTrip(r)
  BY <1>5 DEF InsertTrip
<1>6. CASE PostFirst(r)
  BY <1>6 DEF PostFirst
<1>7. CASE TouchInbox(r)
  BY <1>7 DEF TouchInbox
<1>8. CASE UpdateTrip(r)
  BY <1>8 DEF UpdateTrip
<1> QED
  BY <1>1, <1>2, <1>3, <1>4, <1>5, <1>6, <1>7, <1>8 DEF TripStep

LEMMA FailElsewhere ==
  ASSUME Received, NEW r \in Requests, Fail(r)
  PROVE  Elsewhere(r, Befriends \cup Travels)
BY DEF Fail, Break, Goto, Received, Elsewhere, Befriends, Travels, FriendSteps, TripSteps

-----------------------------------------------------------------------------
(* Friend requests. A call that has made its row, or was over at first,    *)
(* makes no other.                                                         *)
Born(x) ==
  /\ pc[x] \notin {"findOpen", "createRequest"}
  /\ pc[x] = "idle" => Script[load][x] = {}

(* What a call may rely on at its step: the row it is about to answer is   *)
(* still there and its own to answer, or is gone for good.                 *)
Befriending(r) ==
  /\ pc[r] \in FriendSteps => call[r] \in FriendCalls
  /\ pc[r] \in {"findOpen", "createRequest"} =>
       call[r].op = "befriend" /\ call[r].user # call[r].other
  /\ pc[r] \in {"findPending", "respond"} => call[r].op \in {"accept", "decline"}
  /\ pc[r] = "respond" =>
       /\ answering[r] \in Requests
       /\ Born(answering[r])
       /\ friendRequests[answering[r]] # None =>
            friendRequests[answering[r]].addressee = call[r].user

FriendsInv ==
  /\ Received /\ load \in Loads
  /\ friendRequests \in [Requests -> FriendRows \cup {None}]
  /\ DOMAIN answering = Requests
  /\ \A x \in FriendRequestIds : Born(x)
  /\ \A r \in Requests : Befriending(r)

(* The steps of other services.                                            *)
LEMMA OthersBefriending ==
  ASSUME FriendsInv, NEW r \in Requests, Elsewhere(r, Befriends), UNCHANGED friendship
  PROVE  FriendsInv'
<1>1. \A x \in Requests : Born(x) => Born(x)'
  BY DEF Elsewhere, Befriends, FriendSteps, Born
<1>2. \A o \in Requests : Befriending(o)'
  <2> SUFFICES ASSUME NEW o \in Requests PROVE Befriending(o)'
    OBVIOUS
  <2>1. CASE o = r
    BY <2>1 DEF Elsewhere, Befriends, FriendSteps, Befriending
  <2>2. CASE o # r
    BY <1>1, <2>2 DEF FriendsInv, Elsewhere, Befriending, friendship
  <2> QED
    BY <2>1, <2>2
<1> QED
  BY <1>1, <1>2 DEF FriendsInv, Elsewhere, friendship, FriendRequestIds

(* The calls of the service have the fields that its steps read.           *)
LEMMA FriendFields ==
  ASSUME NEW c \in FriendCalls
  PROVE  /\ c.op \in {"befriend", "unfriend", "accept", "decline"}
         /\ c.user \in Users
         /\ c.op \in {"befriend", "unfriend"} => c.other \in Users
         /\ c.op \in {"accept", "decline"} => c.row \in Requests
BY DEF FriendCalls

(* A step of the service moves one call, and whoever has made a row has    *)
(* made it.                                                                *)
LEMMA FriendMoves ==
  ASSUME FriendsInv, NEW r \in Requests, FriendsStep(r)
  PROVE  /\ Received' /\ UNCHANGED load
         /\ \A o \in Requests \ {r} : pc'[o] = pc[o] /\ call'[o] = call[o]
         /\ \A x \in Requests : Born(x) => Born(x)'
<1>1. /\ Received' /\ UNCHANGED load
      /\ \A o \in Requests \ {r} : pc'[o] = pc[o] /\ call'[o] = call[o]
  BY FriendsElsewhere DEF FriendsInv, Elsewhere
<1>2. Born(r) => Born(r)'
  <2> USE DEF FriendsInv, Received, Born, Goto
  <2>1. CASE ReceiveFriend(r)
    BY <2>1 DEF ReceiveFriend, Begin
  <2>2. CASE FindOpen(r) \/ CreateRequest(r)
    BY <2>2 DEF FindOpen, CreateRequest
  <2>3. CASE FindPending(r) \/ Respond(r)
    BY <2>3 DEF FindPending, Respond
  <2>4. CASE FindAccepted(r) \/ DeleteRequest(r)
    BY <2>4 DEF FindAccepted, DeleteRequest
  <2> QED
    BY <2>1, <2>2, <2>3, <2>4 DEF FriendsStep
<1> QED
  BY <1>1, <1>2 DEF Born

(* The steps that write no row.                                            *)
LEMMA FriendReads ==
  ASSUME FriendsInv, NEW r \in Requests,
         ReceiveFriend(r) \/ FindOpen(r) \/ FindPending(r) \/ FindAccepted(r)
  PROVE  FriendsInv' /\ UNCHANGED friendRequests
<1>1. UNCHANGED friendRequests
  BY DEF ReceiveFriend, FindOpen, FindPending, FindAccepted, friendship
<1>2. DOMAIN answering' = Requests
  BY DEF FriendsInv, ReceiveFriend, FindOpen, FindPending, FindAccepted, friendship
<1>3. /\ Received' /\ UNCHANGED load
      /\ \A o \in Requests \ {r} : pc'[o] = pc[o] /\ call'[o] = call[o]
      /\ \A x \in Requests : Born(x) => Born(x)'
  BY FriendMoves DEF FriendsStep
<1>4. \A o \in Requests \ {r} : answering'[o] = answering[o]
  BY DEF FriendsInv, ReceiveFriend, FindOpen, FindPending, FindAccepted, friendship
<1>5. \A o \in Requests \ {r} : Befriending(o)'
  BY <1>1, <1>3, <1>4 DEF FriendsInv, Befriending
<1>6. Befriending(r)'
  <2> USE DEF FriendsInv, Received, Goto, FriendSteps
  <2>1. CASE ReceiveFriend(r)
    <3>1. PICK c \in FriendCalls : call' = [call EXCEPT ![r] = c]
      BY <2>1 DEF ReceiveFriend, Begin
    <3>2. call'[r] = c /\ pc'[r] = FirstFriendStep(c)
      BY <2>1, <3>1 DEF ReceiveFriend, StartAt
    <3> QED
      BY <3>2, FriendFields DEF FirstFriendStep, Befriending
  <2>2. CASE FindOpen(r)
    BY <2>2 DEF FindOpen, Befriending
  <2>3. CASE FindPending(r)
    <3>1. /\ pc[r] = "findPending" /\ call' = call
          /\ pc'[r] \in {"respond", "failed"}
      BY <2>3 DEF FindPending
    <3>2. pc'[r] = "respond" =>
            /\ call[r].row \in FriendRequestIds /\ answering'[r] = call[r].row
            /\ friendRequests[call[r].row].addressee = call[r].user
      BY <2>3 DEF FindPending, Answerable
    <3>3. pc'[r] = "respond" => call[r].row \in Requests /\ Born(call[r].row)
      BY <3>2 DEF FriendRequestIds
    <3>4. pc'[r] = "respond" => Born(call[r].row)'
      BY <1>3, <3>1, <3>3 DEF Born
    <3> QED
      BY <1>1, <3>1, <3>2, <3>3, <3>4 DEF Befriending, FriendRequestIds
  <2>4. CASE FindAccepted(r)
    BY <2>4 DEF FindAccepted, Befriending
  <2> QED
    BY <2>1, <2>2, <2>3, <2>4
<1> QED
  BY <1>1, <1>2, <1>3, <1>5, <1>6 DEF FriendsInv, FriendRequestIds

(* What a step may do to the rows.                                         *)
Rewrites(r) ==
  \A x \in Requests :
    \/ friendRequests'[x] = friendRequests[x]
    \/ friendRequests'[x] = None
    \/ pc[r] = "createRequest" /\ x = r /\ friendRequests'[x].status = "pending"
    \/ /\ pc[r] = "respond" /\ x = answering[r] /\ friendRequests[x] # None
       /\ friendRequests'[x].addressee = friendRequests[x].addressee
       /\ friendRequests'[x].status = "accepted" => call[r].op = "accept"

LEMMA FriendWrites ==
  ASSUME FriendsInv, NEW r \in Requests,
         CreateRequest(r) \/ Respond(r) \/ DeleteRequest(r)
  PROVE  FriendsInv' /\ Rewrites(r)
<1>1. UNCHANGED answering
  BY DEF CreateRequest, Respond, DeleteRequest
<1>2. /\ Received' /\ UNCHANGED load
      /\ \A o \in Requests \ {r} : pc'[o] = pc[o] /\ call'[o] = call[o]
      /\ \A x \in Requests : Born(x) => Born(x)'
  BY FriendMoves DEF FriendsStep
<1>3. pc'[r] \in {"ok", "failed"}
  BY DEF FriendsInv, Received, Goto, CreateRequest, Respond, DeleteRequest
<1>4. friendRequests' \in [Requests -> FriendRows \cup {None}] /\ Rewrites(r)
  <2>1. CASE CreateRequest(r)
    <3>1. call[r].user \in Users /\ call[r].other \in Users /\ call[r].user # call[r].other
      BY <2>1, FriendFields DEF CreateRequest, FriendsInv, Befriending, FriendSteps
    <3> QED
      BY <2>1, <3>1 DEF CreateRequest, FriendsInv, FriendRows, Rewrites
  <2>2. CASE Respond(r)
    <3>1. CASE friendRequests[answering[r]] = None
      BY <2>2, <3>1 DEF Respond, FriendsInv, FriendRequestIds, Rewrites
    <3>2. CASE friendRequests[answering[r]] # None
      <4>1. answering[r] \in Requests /\ friendRequests[answering[r]] \in FriendRows
        BY <2>2, <3>2 DEF Respond, FriendsInv, Befriending
      <4>2. PICK status \in {"accepted", "declined"} :
              /\ friendRequests' = [friendRequests EXCEPT ![answering[r]].status = status]
              /\ status = "accepted" => call[r].op = "accept"
        BY <2>2, <3>2, <4>1 DEF Respond, FriendRequestIds
      <4> QED
        BY <2>2, <3>2, <4>1, <4>2 DEF Respond, FriendsInv, FriendRows, Rewrites
    <3> QED
      BY <3>1, <3>2
  <2>3. CASE DeleteRequest(r)
    BY <2>3 DEF DeleteRequest, FriendsInv, Rewrites
  <2> QED
    BY <2>1, <2>2, <2>3
<1>5. \A o \in Requests : Befriending(o)'
  <2> SUFFICES ASSUME NEW o \in Requests PROVE Befriending(o)'
    OBVIOUS
  <2>1. CASE o = r
    BY <1>3, <2>1 DEF Befriending, FriendSteps
  <2>2. CASE o # r /\ pc[o] = "respond"
    <3>1. answering[o] \in Requests /\ Born(answering[o])
      BY <2>2 DEF FriendsInv, Befriending
    <3>2. friendRequests'[answering[o]] # None =>
            friendRequests[answering[o]] # None
              /\ friendRequests'[answering[o]].addressee = friendRequests[answering[o]].addressee
      BY <1>4, <3>1 DEF Rewrites, Born
    <3> QED
      BY <1>1, <1>2, <2>2, <3>1, <3>2 DEF FriendsInv, Befriending
  <2>3. CASE o # r /\ pc[o] # "respond"
    BY <1>2, <2>3 DEF FriendsInv, Befriending
  <2> QED
    BY <2>1, <2>2, <2>3
<1>6. \A x \in FriendRequestIds' : Born(x)'
  <2> SUFFICES ASSUME NEW x \in Requests, friendRequests'[x] # None
               PROVE  Born(x)'
    BY DEF FriendRequestIds
  <2>1. CASE x = r
    BY <1>3, <2>1 DEF Born
  <2>2. CASE x # r
    <3>1. friendRequests[x] # None
      BY <1>4, <2>2 DEF Rewrites
    <3> QED
      BY <1>2, <3>1 DEF FriendsInv, FriendRequestIds
  <2> QED
    BY <2>1, <2>2
<1> QED
  BY <1>1, <1>2, <1>4, <1>5, <1>6 DEF FriendsInv

(* A step of any service.                                                  *)
LEMMA StepBefriending ==
  ASSUME FriendsInv, [Next]_vars
  PROVE  /\ FriendsInv'
         /\ UNCHANGED friendRequests \/ \E r \in Requests : Rewrites(r)
<1>1. CASE UNCHANGED vars \/ Done
  <2>1. UNCHANGED <<load, pc, call, friendRequests, answering>>
    BY <1>1 DEF Done, vars, calls, tables, friendship
  <2> QED
    BY <2>1 DEF FriendsInv, Received, FriendRequestIds, Born, Befriending
<1>2. CASE \E r \in Requests : FriendsStep(r)
  <2>1. PICK r \in Requests : FriendsStep(r)
    BY <1>2
  <2>2. CASE ReceiveFriend(r) \/ FindOpen(r) \/ FindPending(r) \/ FindAccepted(r)
    BY <2>2, FriendReads
  <2>3. CASE CreateRequest(r) \/ Respond(r) \/ DeleteRequest(r)
    BY <2>3, FriendWrites
  <2> QED
    BY <2>1, <2>2, <2>3 DEF FriendsStep
<1>3. CASE \E r \in Requests : (ChatStep(r) \/ GroupStep(r) \/ TripStep(r) \/ Fail(r))
                                 /\ UNCHANGED friendship
  <2>1. PICK r \in Requests :
          (ChatStep(r) \/ GroupStep(r) \/ TripStep(r) \/ Fail(r)) /\ UNCHANGED friendship
    BY <1>3
  <2>2. Elsewhere(r, Befriends)
    BY <2>1, ChatElsewhere, GroupElsewhere, TripsElsewhere, FailElsewhere
    DEF FriendsInv, Elsewhere
  <2> QED
    BY <2>1, <2>2, OthersBefriending DEF friendship
<1> QED
  BY <1>1, <1>2, <1>3 DEF Next, Fail, tables

LEMMA InitBefriending == Init => FriendsInv
<1> SUFFICES ASSUME Init PROVE FriendsInv
  OBVIOUS
<1>1. /\ load \in Loads /\ pc = [r \in Requests |-> "idle"]
      /\ call = [r \in Requests |-> None]
      /\ friendRequests = FriendsBefore[load]
      /\ answering = [r \in Requests |-> None]
  BY DEF Init, CallsInit, FriendsInit
<1>2. \A x \in FriendRequestIds : Born(x)
  BY <1>1, FriendsAssumption DEF FriendRequestIds, Born
<1>3. \A r \in Requests : Befriending(r)
  BY <1>1 DEF Befriending, FriendSteps
<1> QED
  BY <1>1, <1>2, <1>3, FriendsAssumption DEF FriendsInv, Received

-----------------------------------------------------------------------------
(* Trip requests. A call that has made its request makes no other.         *)
Making == {"idle", "checkTrip", "findInbox", "openInbox", "insertTrip"}

(* What a call may rely on at its step: the request it has checked may     *)
(* have moved on since, but the stages it has been through remain.         *)
Travelling(r) ==
  /\ pc[r] \in TripSteps => call[r] \in TripCalls
  /\ pc[r] \in {"findInbox", "openInbox", "insertTrip"} => call[r].op = "ask"
  /\ pc[r] = "insertTrip" => inbox[r] \in Requests
  /\ pc[r] = "updateTrip" =>
       /\ call[r].op # "ask" /\ call[r].request \in Made
       /\ call[r].op = "update" =>
            /\ call[r].status = "confirmed" => "in_discussion" \in past[call[r].request]
            /\ call[r].status = "completed" => "confirmed" \in past[call[r].request]

Lawful(x) ==
  /\ pc[x] \notin Making
  /\ {"pending", tripRequests[x].status} \subseteq past[x]
  /\ "confirmed" \in past[x] => "in_discussion" \in past[x]
  /\ "completed" \in past[x] => "confirmed" \in past[x]

TripsInv ==
  /\ Received
  /\ tripRequests \in [Requests -> TripRequestRows \cup {None}]
  /\ past \in [Requests -> SUBSET Statuses]
  /\ DOMAIN inbox = Requests
  /\ \A x \in Made : Lawful(x)
  /\ \A r \in Requests : Travelling(r)

LEMMA TripFields ==
  ASSUME NEW c \in TripCalls
  PROVE  /\ c.op \in {"ask", "update", "cancel"}
         /\ c.op = "ask" => c.user \in Users /\ c.agency \in Agencies
         /\ c.op # "ask" => c.request \in Requests
         /\ c.op = "update" => c.status \in Statuses
BY DEF TripCalls

(* A stage is entered only from the one before it.                         *)
LEMMA Transitions ==
  ASSUME NEW s \in Statuses
  PROVE  /\ "confirmed" \in AllowedTransitions[s] => s = "in_discussion"
         /\ "completed" \in AllowedTransitions[s] => s = "confirmed"
<1>1. /\ AllowedTransitions["pending"] = {"in_discussion", "declined", "cancelled"}
      /\ AllowedTransitions["in_discussion"] = {"confirmed", "declined", "cancelled"}
      /\ AllowedTransitions["confirmed"] = {"completed"}
      /\ AllowedTransitions["completed"] = {}
      /\ AllowedTransitions["declined"] = {}
      /\ AllowedTransitions["cancelled"] = {}
  BY DEF AllowedTransitions
<1> QED
  BY <1>1 DEF Statuses

(* The steps of other services.                                            *)
LEMMA OthersTravelling ==
  ASSUME TripsInv, NEW r \in Requests, Elsewhere(r, Travels), UNCHANGED <<trips, inbox>>
  PROVE  TripsInv'
<1>1. UNCHANGED <<tripRequests, past, inbox>>
  BY DEF trips
<1>2. \A x \in Made' : Lawful(x)'
  <2> SUFFICES ASSUME NEW x \in Made PROVE Lawful(x)'
    BY <1>1 DEF Made
  <2>1. CASE x = r
    BY <1>1, <2>1 DEF TripsInv, Lawful, Made, Elsewhere, Travels, TripSteps, Making
  <2>2. CASE x # r
    BY <1>1, <2>2 DEF TripsInv, Lawful, Made, Elsewhere
  <2> QED
    BY <2>1, <2>2
<1>3. \A o \in Requests : Travelling(o)'
  <2> SUFFICES ASSUME NEW o \in Requests PROVE Travelling(o)'
    OBVIOUS
  <2>1. CASE o = r
    BY <2>1 DEF Elsewhere, Travels, TripSteps, Travelling
  <2>2. CASE o # r
    BY <1>1, <2>2 DEF TripsInv, Travelling, Made, Elsewhere
  <2> QED
    BY <2>1, <2>2
<1> QED
  BY <1>1, <1>2, <1>3 DEF TripsInv, Elsewhere

(* A step of the service moves one call.                                   *)
LEMMA TripMoves ==
  ASSUME TripsInv, NEW r \in Requests, TripStep(r)
  PROVE  Received' /\ \A o \in Requests \ {r} : pc'[o] = pc[o] /\ call'[o] = call[o]
BY TripsElsewhere DEF TripsInv, Elsewhere

(* The steps that write no request.                                        *)
LEMMA TripReads ==
  ASSUME TripsInv, NEW r \in Requests, TripStep(r), ~InsertTrip(r), ~UpdateTrip(r)
  PROVE  TripsInv'
<1> USE DEF Received, Goto
<1>1. UNCHANGED <<tripRequests, past>>
  BY DEF TripStep, ReceiveTrip, CheckTrip, FindInbox, OpenInbox, PostFirst, TouchInbox, trips
<1>2. Received' /\ \A o \in Requests \ {r} : pc'[o] = pc[o] /\ call'[o] = call[o]
  BY TripMoves
<1>3. DOMAIN inbox' = Requests /\ \A o \in Requests \ {r} : inbox'[o] = inbox[o]
  BY DEF TripsInv, TripStep, ReceiveTrip, CheckTrip, FindInbox, OpenInbox, PostFirst,
         TouchInbox
<1>4. pc[r] \in Making \/ pc'[r] \notin Making
  BY DEF TripsInv, TripStep, ReceiveTrip, CheckTrip, FindInbox, OpenInbox, PostFirst,
         TouchInbox, Making, Begin
<1>5. \A x \in Made' : Lawful(x)'
  BY <1>1, <1>2, <1>4 DEF TripsInv, Made, Lawful
<1>6. \A o \in Requests \ {r} : Travelling(o)'
  BY <1>1, <1>2, <1>3 DEF TripsInv, Made, Travelling
<1>7. Travelling(r)'
  <2> USE DEF TripsInv, TripSteps
  <2>1. CASE ReceiveTrip(r)
    <3>1. PICK c \in TripCalls : call' = [call EXCEPT ![r] = c]
      BY <2>1 DEF ReceiveTrip, Begin
    <3> QED
      BY <2>1, <3>1 DEF ReceiveTrip, StartAt, Travelling
  <2>2. CASE CheckTrip(r)
    <3>1. pc[r] = "checkTrip" /\ call' = call /\ call[r] \in TripCalls
          /\ pc'[r] \in {"findInbox", "updateTrip", "failed"}
      BY <2>2 DEF CheckTrip, Travelling
    <3>2. pc'[r] = "findInbox" => call[r].op = "ask"
      BY <2>2 DEF CheckTrip
    <3>3. pc'[r] = "updateTrip" => call[r].op # "ask" /\ MayChange(call[r])
      BY <2>2, <3>1, TripFields DEF CheckTrip
    <3>4. ASSUME pc'[r] = "updateTrip"
          PROVE  /\ call[r].request \in Made
                 /\ call[r].op = "update" =>
                      /\ call[r].status = "confirmed" =>
                           "in_discussion" \in past[call[r].request]
                      /\ call[r].status = "completed" =>
                           "confirmed" \in past[call[r].request]
      <4>1. call[r].request \in Made /\ Lawful(call[r].request)
            /\ tripRequests[call[r].request].status \in Statuses
        BY <3>3, <3>4 DEF MayChange, Made, TripRequestRows
      <4>2. call[r].op = "update" =>
              call[r].status \in AllowedTransitions[tripRequests[call[r].request].status]
        BY <3>3, <3>4 DEF MayChange
      <4> QED
        BY <4>1, <4>2, Transitions DEF Lawful
    <3> QED
      BY <1>1, <3>1, <3>2, <3>3, <3>4 DEF Travelling, Made
  <2>3. CASE FindInbox(r)
    BY <2>3 DEF FindInbox, InboxOf, Opened, Travelling
  <2>4. CASE OpenInbox(r)
    BY <2>4 DEF OpenInbox, Travelling
  <2>5. CASE PostFirst(r)
    BY <2>5 DEF PostFirst, Travelling
  <2>6. CASE TouchInbox(r)
    BY <2>6 DEF TouchInbox, Travelling
  <2> QED
    BY <2>1, <2>2, <2>3, <2>4, <2>5, <2>6 DEF TripStep
<1> QED
  BY <1>1, <1>2, <1>3, <1>5, <1>6, <1>7 DEF TripsInv

(* The two that do. Neither takes a stage from another request, and        *)
(* UpdateTrip takes none from its own.                                     *)
LEMMA TripWrites ==
  ASSUME TripsInv, NEW r \in Requests, InsertTrip(r) \/ UpdateTrip(r)
  PROVE  TripsInv'
<1>1. Received' /\ \A o \in Requests \ {r} : pc'[o] = pc[o] /\ call'[o] = call[o]
  BY TripMoves DEF TripStep
<1>2. UNCHANGED inbox /\ pc'[r] \in {"postFirst", "ok", "failed"} /\ call'[r] = call[r]
  BY DEF TripsInv, Received, InsertTrip, UpdateTrip, Goto
<1>3. /\ tripRequests' \in [Requests -> TripRequestRows \cup {None}]
      /\ past' \in [Requests -> SUBSET Statuses]
      /\ \A x \in Made : x \in Made' /\ past[x] \subseteq past'[x]
      /\ \A x \in Made' : Lawful(x)'
  <2>1. CASE InsertTrip(r)
    <3>1. /\ pc[r] = "insertTrip" /\ r \notin Made /\ inbox[r] \in Requests
          /\ call[r].user \in Users /\ call[r].agency \in Agencies
      BY <2>1, TripFields DEF InsertTrip, TripsInv, Travelling, TripSteps, Lawful, Making
    <3>2. CASE UNCHANGED trips
      <4>1. \A x \in Made : x # r
        BY <3>1
      <4> QED
        BY <1>1, <3>2, <4>1 DEF trips, TripsInv, Made, Lawful
    <3>3. CASE ~UNCHANGED trips
      <4>1. /\ tripRequests' = [tripRequests EXCEPT ![r] =
                 [traveler |-> call[r].user, agency |-> call[r].agency,
                  status |-> "pending", conversation |-> inbox[r]]]
            /\ past' = [past EXCEPT ![r] = {"pending"}]
        BY <2>1, <3>3 DEF InsertTrip
      <4>2. tripRequests'[r] \in TripRequestRows /\ tripRequests'[r].status = "pending"
            /\ past'[r] = {"pending"}
        BY <3>1, <4>1 DEF TripsInv, TripRequestRows, Statuses
      <4>3. \A x \in Requests \ {r} : tripRequests'[x] = tripRequests[x]
                                      /\ past'[x] = past[x]
        BY <4>1 DEF TripsInv
      <4>4. \A x \in Made' : Lawful(x)'
        BY <1>1, <1>2, <4>2, <4>3 DEF TripsInv, Made, Lawful, Making
      <4>5. \A x \in Made : x \in Made' /\ past[x] \subseteq past'[x]
        BY <3>1, <4>3 DEF Made
      <4> QED
        BY <4>1, <4>2, <4>4, <4>5 DEF TripsInv, Statuses
    <3> QED
      BY <3>2, <3>3
  <2>2. CASE UpdateTrip(r)
    <3>0. call[r] \in TripCalls /\ call[r].op # "ask"
      BY <2>2 DEF UpdateTrip, TripsInv, Travelling, TripSteps
    <3>1. PICK x \in Made, s \in Statuses :
            /\ tripRequests' = [tripRequests EXCEPT ![x].status = s]
            /\ past' = [past EXCEPT ![x] = @ \cup {s}]
            /\ s = "confirmed" => "in_discussion" \in past[x]
            /\ s = "completed" => "confirmed" \in past[x]
      <4>1. CASE call[r].op = "update"
        BY <2>2, <3>0, <4>1, TripFields DEF UpdateTrip, TripsInv, Travelling
      <4>2. CASE call[r].op # "update"
        BY <2>2, <3>0, <4>2 DEF UpdateTrip, TripsInv, Travelling, Statuses
      <4> QED
        BY <4>1, <4>2
    <3>2. x \in Requests
      BY DEF Made
    <3>3. tripRequests[x] \in TripRequestRows /\ tripRequests[x] # None
      BY <3>1, <3>2 DEF TripsInv, Made
    <3>4. /\ tripRequests'[x] \in TripRequestRows /\ tripRequests'[x].status = s
          /\ past'[x] = past[x] \cup {s}
      BY <3>1, <3>2, <3>3 DEF TripsInv, TripRequestRows
    <3>5. \A y \in Requests \ {x} : tripRequests'[y] = tripRequests[y] /\ past'[y] = past[y]
      BY <3>1 DEF TripsInv
    <3>6. tripRequests'[x] # None
      BY <3>4, TripAssumption
    <3>7. Made' = Made
      BY <3>3, <3>5, <3>6 DEF Made
    <3>8. \A y \in Made : pc'[y] \notin Making
      BY <1>1, <1>2 DEF TripsInv, Made, Lawful, Making
    <3>9. Lawful(x)'
      BY <3>1, <3>4, <3>8 DEF TripsInv, Lawful
    <3>10. \A y \in Made : y # x => Lawful(y)'
      BY <3>5, <3>8 DEF TripsInv, Made, Lawful
    <3>11. \A y \in Made : past[y] \subseteq past'[y]
      BY <3>4, <3>5 DEF Made
    <3> QED
      BY <3>1, <3>2, <3>4, <3>7, <3>9, <3>10, <3>11 DEF TripsInv
  <2> QED
    BY <2>1, <2>2
<1>4. \A o \in Requests : Travelling(o)'
  <2> SUFFICES ASSUME NEW o \in Requests PROVE Travelling(o)'
    OBVIOUS
  <2>1. CASE o = r
    BY <1>1, <1>2, <2>1, TripsElsewhere DEF TripsInv, Travelling, TripSteps, InsertTrip,
       UpdateTrip
  <2>2. CASE o # r
    BY <1>1, <1>2, <1>3, <2>2 DEF TripsInv, Travelling
  <2> QED
    BY <2>1, <2>2
<1> QED
  BY <1>1, <1>2, <1>3, <1>4 DEF TripsInv

LEMMA InitTravelling == Init => TripsInv
BY DEF Init, CallsInit, TripInit, TripsInv, Received, Made, Travelling, TripSteps

LEMMA StepTravelling ==
  ASSUME TripsInv, [Next]_vars
  PROVE  TripsInv'
<1>1. CASE UNCHANGED vars \/ Done
  <2>1. UNCHANGED <<pc, call, tripRequests, past, inbox>>
    BY <1>1 DEF Done, vars, calls, tables, tripRequesting, trips
  <2> QED
    BY <2>1 DEF TripsInv, Received, Made, Lawful, Travelling
<1>2. ASSUME NEW r \in Requests, TripStep(r) PROVE TripsInv'
  BY <1>2, TripReads, TripWrites
<1>3. ASSUME NEW r \in Requests, FriendsStep(r) \/ ChatStep(r) \/ GroupStep(r) \/ Fail(r),
             UNCHANGED tripRequesting
      PROVE  TripsInv'
  <2>1. Elsewhere(r, Travels)
    BY <1>3, ChatElsewhere, GroupElsewhere, FriendsElsewhere, FailElsewhere
    DEF TripsInv, Elsewhere
  <2> QED
    BY <1>3, <2>1, OthersTravelling DEF tripRequesting
<1> QED
  BY <1>1, <1>2, <1>3 DEF Next, Fail, tables

-----------------------------------------------------------------------------
(* Overlaps: what a step of one call does to those that are served with it.*)
LEMMA EarlierStep ==
  ASSUME EarlierIsOver, NEW r \in Requests, StepOf(r)
  PROVE  EarlierIsOver'
<1>1. earlier' \in [Requests -> SUBSET Requests]
  BY DEF EarlierIsOver, StepOf
<1>2. \A q \in Requests : \A o \in earlier'[q] : pc[o] \in Answered
  BY DEF EarlierIsOver, StepOf
<1> QED
  BY <1>1, <1>2 DEF EarlierIsOver, StepOf

(* The call that takes a step is a rival of all others that are served.    *)
LEMMA OthersMeet ==
  ASSUME EarlierIsOver, NEW r \in Requests, StepOf(r), NEW q \in Requests \ {r}
  PROVE  r \in Rivals(q)' /\ Rivals(q) \subseteq Rivals(q)' /\ earlier'[q] = earlier[q]
<1>1. earlier'[q] = earlier[q] /\ r \notin earlier[q]
  BY DEF EarlierIsOver, StepOf
<1> QED
  BY <1>1 DEF Rivals, StepOf

(* A call keeps its own rivals until it is answered.                       *)
LEMMA RivalsStay ==
  ASSUME EarlierIsOver, NEW r \in Requests, StepOf(r), pc[r] # "idle", pc'[r] \notin Answered
  PROVE  Rivals(r) \subseteq Rivals(r)' /\ earlier'[r] = earlier[r]
<1>1. earlier'[r] = earlier[r]
  BY DEF StepOf
<1> QED
  BY <1>1 DEF Rivals, StepOf

-----------------------------------------------------------------------------
(* Paths: a call keeps to the steps of its operation.                      *)
SocialCalls == FriendCalls \cup ChatCalls \cup GroupCalls \cup TripCalls

(* The calls have the fields that the steps read.                          *)
LEMMA ChatFields ==
  ASSUME NEW c \in ChatCalls
  PROVE  /\ c.op \in {"direct", "group", "agency", "add", "remove", "send", "list", "read"}
         /\ c.user \in Users
         /\ c.op \in {"direct", "remove"} => c.other \in Users
         /\ c.op \in {"group", "add"} => c.others \in SUBSET Users
         /\ c.op = "agency" => c.agency \in Agencies
         /\ c.op \in {"add", "remove", "send", "list", "read"} => c.conversation \in Requests
BY DEF ChatCalls

LEMMA GroupFields ==
  ASSUME NEW c \in GroupCalls
  PROVE  /\ c.op \in {"addMember", "removeMember", "permit", "contribute", "withdraw",
                      "spend", "unspend"}
         /\ c.user \in Users
         /\ c.op \in {"addMember", "removeMember", "permit"} => c.other \in Users
         /\ c.op = "permit" => c.may \in BOOLEAN
         /\ c.op \in {"contribute", "withdraw", "spend"} => c.amount \in Amounts
         /\ c.op = "spend" => c.payer \in Users
         /\ c.op = "unspend" => c.expense \in Requests
BY DEF GroupCalls

StepsOf(op) ==
  CASE op = "befriend"            -> {"findOpen", "createRequest"}
    [] op = "unfriend"            -> {"findAccepted", "deleteRequest"}
    [] op \in {"accept", "decline"} -> {"findPending", "respond"}
    [] op = "direct"              -> {"checkFriends", "findDirect", "openConversation"}
    [] op = "group"               -> {"checkFriends", "openConversation"}
    [] op = "agency"              -> {"findAgency", "openConversation"}
    [] op = "add"                 -> {"access", "checkFriends", "join"}
    [] op = "remove"              -> {"access", "findTarget", "leave"}
    [] op = "send"                -> {"access", "post", "touch"}
    [] op = "list"                -> {"access", "page", "deliver"}
    [] op = "read"                -> {"access", "collect", "receipt", "cursor"}
    [] op = "addMember"           -> {"readCampaign", "findMember", "checkFriend",
                                      "insertMember", "chatAccess", "chatFriends",
                                      "chatJoin", "chatCreate", "link"}
    [] op = "removeMember"        -> {"readCampaign", "memberTarget", "deleteMember",
                                      "chatAccess", "chatTarget", "chatLeave"}
    [] op = "permit"              -> {"readCampaign", "memberTarget", "permit"}
    [] op = "contribute"          -> {"readCampaign", "record"}
    [] op = "spend"               -> {"readCampaign", "payer", "record"}
    [] op = "withdraw"            -> {"readCampaign", "sums", "requestWithdrawal"}
    [] op = "unspend"             -> {"readCampaign", "unspend"}
    [] op = "ask"                 -> {"checkTrip", "findInbox", "openInbox", "insertTrip",
                                      "postFirst", "touchInbox"}
    [] op \in {"update", "cancel"} -> {"checkTrip", "updateTrip"}
    [] OTHER                      -> {}

(* The kind of call that takes a step, by the step.                        *)
LEMMA KindOfStep ==
  ASSUME NEW c \in SocialCalls, NEW s \in StepsOf(c.op)
  PROVE  /\ s \in FriendSteps <=> c \in FriendCalls
         /\ s \in ChatSteps <=> c \in ChatCalls
         /\ s \in GroupSteps <=> c \in GroupCalls
         /\ s \in TripSteps <=> c \in TripCalls
         /\ s \notin {"idle"} \cup Answered
<1> USE DEF StepsOf, FriendSteps, ChatSteps, GroupSteps, TripSteps, Answered
<1>1. CASE c \in FriendCalls
  BY <1>1, FriendFields, ChatFields, GroupFields, TripFields
<1>2. CASE c \in ChatCalls
  BY <1>2, FriendFields, ChatFields, GroupFields, TripFields
<1>3. CASE c \in GroupCalls
  BY <1>3, FriendFields, ChatFields, GroupFields, TripFields
<1>4. CASE c \in TripCalls
  BY <1>4, FriendFields, ChatFields, GroupFields, TripFields
<1> QED
  BY <1>1, <1>2, <1>3, <1>4 DEF SocialCalls

(* A call is at a step of its own operation.                               *)
OnPath(r) ==
  pc[r] # "idle" => call[r] \in SocialCalls /\ pc[r] \in StepsOf(call[r].op) \cup Answered

Path ==
  /\ pc = [r \in Requests |-> pc[r]] /\ DOMAIN call = Requests
  /\ \A r \in Requests : OnPath(r)

(* What every step of a call keeps to. A call that has opened a            *)
(* conversation opens no other one.                                        *)
Opening == ({"idle"} \cup FriendSteps \cup ChatSteps \cup GroupSteps \cup TripSteps)
             \ {"link", "insertTrip", "postFirst", "touchInbox"}

Proceeds(r) ==
  /\ StepOf(r)
  /\ pc' = [pc EXCEPT ![r] = pc'[r]] /\ DOMAIN call' = Requests
  /\ pc[r] \notin Opening => pc'[r] \notin Opening
  /\ OnPath(r)'

(* A call that is received.                                                *)
LEMMA BeginMoves ==
  ASSUME Path, NEW r \in Requests, NEW Ks, Begin(r, Ks), Ks \subseteq SocialCalls,
         NEW step, StartAt(r, step), step # "idle",
         step \in StepsOf(call'[r].op) \cup Answered
  PROVE  Proceeds(r) /\ call'[r] \in Ks
BY DEF Begin, StartAt, Path, OnPath, Proceeds, StepOf, Answered, Active, Opening

LEMMA FriendsMove ==
  ASSUME Path, NEW r \in Requests, FriendsStep(r)
  PROVE  Proceeds(r)
<1>1. CASE ReceiveFriend(r)
  <2>1. Begin(r, FriendCalls) /\ StartAt(r, FirstFriendStep(call'[r]))
    BY <1>1 DEF ReceiveFriend
  <2>2. call'[r] \in FriendCalls
    BY <2>1 DEF Begin, Path
  <2>3. /\ FirstFriendStep(call'[r]) # "idle"
        /\ FirstFriendStep(call'[r]) \in StepsOf(call'[r].op) \cup Answered
    BY <2>2, FriendFields DEF FirstFriendStep, StepsOf, Answered
  <2> QED
    BY <2>1, <2>3, BeginMoves DEF SocialCalls
<1> USE DEF Path, OnPath, Proceeds, StepOf, Goto, StepsOf, Answered, Active, Opening,
        FriendSteps, ChatSteps, GroupSteps, TripSteps
<1>2. CASE FindOpen(r) \/ CreateRequest(r)
  BY <1>2, ZenonT(60) DEF FindOpen, CreateRequest
<1>3. CASE FindPending(r) \/ Respond(r)
  BY <1>3, ZenonT(60) DEF FindPending, Respond
<1>4. CASE FindAccepted(r) \/ DeleteRequest(r)
  BY <1>4, ZenonT(60) DEF FindAccepted, DeleteRequest
<1> QED
  BY <1>1, <1>2, <1>3, <1>4 DEF FriendsStep

LEMMA ChatMoves ==
  ASSUME Path, NEW r \in Requests, ChatStep(r)
  PROVE  Proceeds(r)
<1>1. CASE ReceiveChat(r)
  <2>1. Begin(r, ChatCalls) /\ StartAt(r, FirstChatStep(call'[r]))
    BY <1>1 DEF ReceiveChat
  <2>2. call'[r] \in ChatCalls
    BY <2>1 DEF Begin, Path
  <2>3. /\ FirstChatStep(call'[r]) # "idle"
        /\ FirstChatStep(call'[r]) \in StepsOf(call'[r].op) \cup Answered
    BY <2>2, ChatFields DEF FirstChatStep, StepsOf, Answered
  <2> QED
    BY <2>1, <2>3, BeginMoves DEF SocialCalls
<1> USE DEF Path, OnPath, Proceeds, StepOf, Goto, StepsOf, Answered, Active, Opening,
        FriendSteps, ChatSteps, GroupSteps, TripSteps
<1>2. CASE CheckFriends(r)
  BY <1>2, ZenonT(60) DEF CheckFriends, calls
<1>3. CASE FindDirect(r) \/ FindAgency(r) \/ OpenConversation(r)
  BY <1>3, ZenonT(60) DEF FindDirect, FindAgency, OpenConversation
<1>4. CASE Access(r)
  BY <1>4, ZenonT(60) DEF Access, AfterAccess
<1>5. CASE AddParticipant(r) \/ FindTarget(r) \/ RemoveParticipant(r)
  BY <1>5, ZenonT(60) DEF AddParticipant, FindTarget, RemoveParticipant
<1>6. CASE Post(r) \/ Touch(r) \/ Page(r) \/ Deliver(r)
  BY <1>6, ZenonT(60) DEF Post, Touch, Page, Deliver
<1>7. CASE Collect(r) \/ Receipt(r) \/ Cursor(r)
  BY <1>7, ZenonT(60) DEF Collect, Receipt, Cursor
<1> QED
  BY <1>1, <1>2, <1>3, <1>4, <1>5, <1>6, <1>7 DEF ChatStep

LEMMA GroupMoves ==
  ASSUME Path, NEW r \in Requests, GroupStep(r)
  PROVE  Proceeds(r)
<1>1. CASE ReceiveGroup(r)
  <2>1. Begin(r, GroupCalls) /\ StartAt(r, "readCampaign")
    BY <1>1 DEF ReceiveGroup
  <2>2. call'[r] \in GroupCalls
    BY <2>1 DEF Begin, Path
  <2>3. "readCampaign" \in StepsOf(call'[r].op)
    BY <2>2, GroupFields DEF StepsOf
  <2> QED
    BY <2>1, <2>3, BeginMoves DEF SocialCalls
<1> USE DEF Path, OnPath, Proceeds, StepOf, Goto, StepsOf, Answered, Active, Opening,
        FriendSteps, ChatSteps, GroupSteps, TripSteps
<1>2. CASE ReadCampaign(r)
  <2>1. pc[r] = "readCampaign" /\ call[r] \in SocialCalls /\ pc[r] \in StepsOf(call[r].op)
    BY <1>2 DEF ReadCampaign
  <2>2. call[r] \in GroupCalls
    BY <2>1, KindOfStep
  <2>3. /\ NextGroupStep(call[r]) \in StepsOf(call[r].op)
        /\ NextGroupStep(call[r]) # "idle"
    BY <2>2, GroupFields DEF NextGroupStep
  <2>4. Goto(r, IF Allowed(call[r]) THEN NextGroupStep(call[r]) ELSE "failed")
    BY <1>2 DEF ReadCampaign
  <2> QED
    BY <2>1, <2>3, <2>4
<1>3. CASE FindMember(r) \/ CheckFriend(r) \/ InsertMember(r)
  BY <1>3, ZenonT(60) DEF FindMember, CheckFriend, InsertMember
<1>4. CASE ChatFriends(r) \/ ChatCreate(r) \/ Link(r)
  BY <1>4, ZenonT(60) DEF ChatFriends, ChatCreate, Link
<1>5. CASE ChatAccess(r) \/ ChatJoin(r)
  BY <1>5, ZenonT(60) DEF ChatAccess, ChatJoin
<1>6. CASE MemberTarget(r) \/ DeleteMember(r)
  BY <1>6, ZenonT(60) DEF MemberTarget, DeleteMember
<1>7. CASE ChatTarget(r) \/ ChatLeave(r) \/ Permit(r)
  BY <1>7, ZenonT(60) DEF ChatTarget, ChatLeave, Permit
<1>8. CASE Payer(r) \/ Record(r)
  BY <1>8, ZenonT(60) DEF Payer, Record
<1>9. CASE Unspend(r) \/ Sums(r) \/ RequestWithdrawal(r)
  BY <1>9, ZenonT(60) DEF Unspend, Sums, RequestWithdrawal
<1> QED
  BY <1>1, <1>2, <1>3, <1>4, <1>5, <1>6, <1>7, <1>8, <1>9 DEF GroupStep

LEMMA TripsMove ==
  ASSUME Path, NEW r \in Requests, TripStep(r)
  PROVE  Proceeds(r)
<1>1. CASE ReceiveTrip(r)
  <2>1. Begin(r, TripCalls) /\ StartAt(r, "checkTrip")
    BY <1>1 DEF ReceiveTrip
  <2>2. call'[r] \in TripCalls
    BY <2>1 DEF Begin, Path
  <2>3. "checkTrip" \in StepsOf(call'[r].op)
    BY <2>2, TripFields DEF StepsOf
  <2> QED
    BY <2>1, <2>3, BeginMoves DEF SocialCalls
<1> USE DEF Path, OnPath, Proceeds, StepOf, Goto, StepsOf, Answered, Active, Opening,
        FriendSteps, ChatSteps, GroupSteps, TripSteps
<1>2. CASE CheckTrip(r)
  BY <1>2, TripFields, KindOfStep, ZenonT(60) DEF CheckTrip
<1>3. CASE FindInbox(r) \/ OpenInbox(r) \/ InsertTrip(r)
  BY <1>3, ZenonT(60) DEF FindInbox, OpenInbox, InsertTrip
<1>4. CASE PostFirst(r) \/ TouchInbox(r) \/ UpdateTrip(r)
  BY <1>4, ZenonT(60) DEF PostFirst, TouchInbox, UpdateTrip
<1> QED
  BY <1>1, <1>2, <1>3, <1>4 DEF TripStep

(* A step of a call, whichever component it belongs to.                    *)
StepOfSocial(r) ==
  \/ FriendsStep(r) /\ UNCHANGED <<chat, mail, groupTrip, tripRequesting>>
  \/ ChatStep(r) /\ UNCHANGED <<friendship, groupTrip, tripRequesting>>
  \/ GroupStep(r) /\ UNCHANGED <<friendship, mail, tripRequesting>>
  \/ TripStep(r) /\ UNCHANGED <<friendship, receipting, todo, groupTrip>>
  \/ Fail(r)

LEMMA SocialMoves ==
  ASSUME Path, NEW r \in Requests, StepOfSocial(r)
  PROVE  Proceeds(r) /\ Path'
<1>1. CASE Fail(r)
  BY <1>1 DEF Fail, Break, Goto, StepOf, Proceeds, Path, OnPath, Answered, Active, Opening,
        FriendSteps, ChatSteps, GroupSteps, TripSteps
<1>2. Proceeds(r)
  BY <1>1, FriendsMove, ChatMoves, GroupMoves, TripsMove DEF StepOfSocial
<1> QED
  BY <1>2 DEF Proceeds, Path, OnPath, StepOf, Answered

-----------------------------------------------------------------------------
(* A call stays with its service.                                          *)
LEMMA StepsInService ==
  ASSUME NEW r \in Requests
  PROVE  /\ FriendsStep(r) => ReceiveFriend(r) \/ pc[r] \in FriendSteps
         /\ ChatStep(r) => ReceiveChat(r) \/ pc[r] \in ChatSteps
         /\ GroupStep(r) => ReceiveGroup(r) \/ pc[r] \in GroupSteps
         /\ TripStep(r) => ReceiveTrip(r) \/ pc[r] \in TripSteps
<1>1. FriendsStep(r) => ReceiveFriend(r) \/ pc[r] \in FriendSteps
  BY DEF FriendsStep, FriendSteps, FindOpen, CreateRequest, FindPending, Respond,
     FindAccepted, DeleteRequest
<1>2. ChatStep(r) => ReceiveChat(r) \/ pc[r] \in ChatSteps
  BY DEF ChatStep, ChatSteps, CheckFriends, FindDirect, FindAgency, OpenConversation,
     Access, AddParticipant, FindTarget, RemoveParticipant, Post, Touch, Page, Deliver,
     Collect, Receipt, Cursor
<1>3. GroupStep(r) => ReceiveGroup(r) \/ pc[r] \in GroupSteps
  BY DEF GroupStep, GroupSteps, ReadCampaign, FindMember, CheckFriend, InsertMember,
     ChatFriends, ChatCreate, Link, ChatAccess, ChatJoin, MemberTarget, DeleteMember,
     ChatTarget, ChatLeave, Permit, Payer, Record, Unspend, Sums, RequestWithdrawal
<1>4. TripStep(r) => ReceiveTrip(r) \/ pc[r] \in TripSteps
  BY DEF TripStep, TripSteps, CheckTrip, FindInbox, OpenInbox, InsertTrip, PostFirst,
     TouchInbox, UpdateTrip
<1> QED
  BY <1>1, <1>2, <1>3, <1>4

LEMMA ServiceStays ==
  ASSUME Path, NEW r \in Requests
  PROVE  /\ FriendsStep(r) => call'[r] \in FriendCalls /\ pc'[r] \in FriendSteps \cup Answered
         /\ ChatStep(r) => call'[r] \in ChatCalls /\ pc'[r] \in ChatSteps \cup Answered
         /\ GroupStep(r) => call'[r] \in GroupCalls /\ pc'[r] \in GroupSteps \cup Answered
         /\ TripStep(r) => call'[r] \in TripCalls /\ pc'[r] \in TripSteps \cup Answered
<1> USE DEF Path, Begin, Proceeds, StepOf, OnPath
<1>1. ASSUME NEW c \in SocialCalls, NEW s \in StepsOf(c.op) \cup Answered
      PROVE  /\ c \in FriendCalls => s \in FriendSteps \cup Answered
             /\ c \in ChatCalls => s \in ChatSteps \cup Answered
             /\ c \in GroupCalls => s \in GroupSteps \cup Answered
             /\ c \in TripCalls => s \in TripSteps \cup Answered
  BY KindOfStep
<1>2. /\ pc[r] \in FriendSteps => call[r] \in FriendCalls
      /\ pc[r] \in ChatSteps => call[r] \in ChatCalls
      /\ pc[r] \in GroupSteps => call[r] \in GroupCalls
      /\ pc[r] \in TripSteps => call[r] \in TripCalls
      /\ pc[r] \in FriendSteps \cup ChatSteps \cup GroupSteps \cup TripSteps => pc[r] # "idle"
  <2>1. pc[r] \in FriendSteps \cup ChatSteps \cup GroupSteps \cup TripSteps =>
          pc[r] \notin {"idle"} \cup Answered
    BY DEF FriendSteps, ChatSteps, GroupSteps, TripSteps, Answered
  <2> QED
    BY <2>1, KindOfStep
<1>3. FriendsStep(r) => call'[r] \in FriendCalls
  BY <1>2, FriendsMove, StepsInService DEF ReceiveFriend
<1>4. ChatStep(r) => call'[r] \in ChatCalls
  BY <1>2, ChatMoves, StepsInService DEF ReceiveChat
<1>5. GroupStep(r) => call'[r] \in GroupCalls
  BY <1>2, GroupMoves, StepsInService DEF ReceiveGroup
<1>6. TripStep(r) => call'[r] \in TripCalls
  BY <1>2, TripsMove, StepsInService DEF ReceiveTrip
<1>7. FriendsStep(r) \/ ChatStep(r) \/ GroupStep(r) \/ TripStep(r) =>
        /\ call'[r] \in SocialCalls
        /\ pc'[r] \in StepsOf(call'[r].op) \cup Answered
  BY FriendsMove, ChatMoves, GroupMoves, TripsMove
<1> QED
  BY <1>1, <1>3, <1>4, <1>5, <1>6, <1>7

-----------------------------------------------------------------------------
(* Conversations. A conversation is opened once, by the call it is named   *)
(* after, and grows: its participants stay in its table when they leave,   *)
(* and its messages stay.                                                  *)
IsGroup(c) == c \in Opened /\ conversations[c].type = "group"

In(c, u) == participants[c][u] # None

ConversationsAre ==
  /\ conversations \in [Requests -> Conversations \cup {None}]
  /\ participants \in [Requests -> [Users -> Participants \cup {None}]]
  /\ messages \in [Requests -> Seq(Users)]
  /\ DOMAIN sentAt = Requests
  /\ \A c \in Opened : pc[c] \notin Opening
  /\ \A c \in Opened : conversations[c].agency # None => conversations[c].type = "agency"
  /\ \A c \in Requests \ Opened : messages[c] = <<>> /\ \A u \in Users : ~In(c, u)

(* What a call may rely on at its step, whatever other calls do meanwhile. *)
ChatKnown(r) ==
  /\ pc[r] \in {"join", "findTarget", "leave"} => IsGroup(call[r].conversation)
  /\ pc[r] = "checkFriends" /\ call[r].op = "add" => IsGroup(call[r].conversation)
  /\ pc[r] = "leave" => In(call[r].conversation, call[r].other)
  /\ pc[r] = "post" =>
       /\ call[r].conversation \in Opened
       /\ In(call[r].conversation, call[r].user)
            \/ IsStaff(call[r].conversation, call[r].user)
  /\ pc[r] = "touch" => sentAt[r] \in 0..Len(messages[call[r].conversation])
  /\ pc[r] \in {"deliver", "receipt"} => todo[r] \subseteq Positions(call[r].conversation)

GroupKnown(r) ==
  /\ chatSeen[r] # None => IsGroup(chatSeen[r])
  /\ pc[r] \in {"chatAccess", "chatTarget", "chatLeave", "chatJoin"} => chatSeen[r] # None
  /\ pc[r] = "chatLeave" => In(chatSeen[r], call[r].other)
  /\ pc[r] = "link" => IsGroup(r)

TripKnown(r) ==
  /\ inbox[r] # None => inbox[r] \in Opened
  /\ pc[r] \in {"insertTrip", "postFirst", "touchInbox"} => inbox[r] # None
  /\ pc[r] = "touchInbox" => sentAt[r] \in 0..Len(messages[inbox[r]])

Known ==
  /\ DOMAIN todo = Requests /\ DOMAIN chatSeen = Requests /\ DOMAIN inbox = Requests
  /\ conversation # None => IsGroup(conversation)
  /\ \A r \in Requests : ChatKnown(r) /\ GroupKnown(r) /\ TripKnown(r)

Grows ==
  /\ \A c \in Opened : c \in Opened' /\ conversations'[c] = conversations[c]
  /\ \A c \in Requests, u \in Users : In(c, u) => In(c, u)'
  /\ \A c \in Requests :
       /\ Len(messages[c]) <= Len(messages'[c])
       /\ \A i \in Positions(c) : i \in Positions(c)' /\ messages'[c][i] = messages[c][i]

-----------------------------------------------------------------------------
(* Which steps change the conversations.                                   *)
LEMMA ChatChanges ==
  ASSUME NEW r \in Requests, StepOfSocial(r)
  PROVE  \/ UNCHANGED chat
         \/ /\ UNCHANGED messaging
            /\ \/ OpenConversation(r) \/ ChatCreate(r) \/ OpenInbox(r)
               \/ AddParticipant(r) \/ ChatJoin(r)
               \/ RemoveParticipant(r) \/ ChatLeave(r)
<1> USE DEF chat, messaging, mail, groupTrip, tables, tripRequesting
<1>1. CASE FriendsStep(r) /\ UNCHANGED <<chat, mail, groupTrip, tripRequesting>>
  BY <1>1
<1>2. CASE ChatStep(r)
  BY <1>2 DEF ChatStep, ReceiveChat, CheckFriends, FindDirect, FindAgency,
     OpenConversation, Access, AddParticipant, FindTarget, RemoveParticipant, Post, Touch,
     Page, Deliver, Collect, Receipt, Cursor
<1>3. CASE GroupStep(r) /\ UNCHANGED mail
  BY <1>3 DEF GroupStep, ReceiveGroup, ReadCampaign, FindMember, CheckFriend, InsertMember,
     ChatFriends, ChatCreate, Link, ChatAccess, ChatJoin, MemberTarget, DeleteMember,
     ChatTarget, ChatLeave, Permit, Payer, Record, Unspend, Sums, RequestWithdrawal
<1>4. CASE TripStep(r)
  BY <1>4 DEF TripStep, ReceiveTrip, CheckTrip, FindInbox, OpenInbox, InsertTrip,
     PostFirst, TouchInbox, UpdateTrip
<1>5. CASE Fail(r)
  BY <1>5 DEF Fail
<1> QED
  BY <1>1, <1>2, <1>3, <1>4, <1>5 DEF StepOfSocial

LEMMA MessageChanges ==
  ASSUME NEW r \in Requests, StepOfSocial(r)
  PROVE  UNCHANGED messaging \/ Post(r) \/ Touch(r) \/ PostFirst(r) \/ TouchInbox(r)
<1> USE DEF mail, groupTrip, tables, tripRequesting
<1>1. CASE (FriendsStep(r) \/ GroupStep(r)) /\ UNCHANGED mail
  BY <1>1
<1>2. CASE ChatStep(r)
  BY <1>2 DEF ChatStep, ReceiveChat, CheckFriends, FindDirect, FindAgency,
     OpenConversation, Access, AddParticipant, FindTarget, RemoveParticipant, Page,
     Deliver, Collect, Receipt, Cursor
<1>3. CASE TripStep(r)
  BY <1>3 DEF TripStep, ReceiveTrip, CheckTrip, FindInbox, OpenInbox, InsertTrip,
     UpdateTrip
<1>4. CASE Fail(r)
  BY <1>4 DEF Fail
<1> QED
  BY <1>1, <1>2, <1>3, <1>4 DEF StepOfSocial

(* Opening.                                                                *)
LEMMA OpensNew ==
  ASSUME Path, ConversationsAre, NEW r \in Requests, StepOfSocial(r),
         OpenConversation(r) \/ ChatCreate(r) \/ OpenInbox(r)
  PROVE  /\ r \notin Opened
         /\ \E t, a, admins, others :
              /\ CreateConversation(r, t, a, admins, others)
              /\ [type |-> t, agency |-> a] \in Conversations
              /\ a # None => t = "agency"
         /\ pc'[r] \notin Opening
<1>1. pc[r] \in {"openConversation", "chatCreate", "openInbox"}
      /\ pc'[r] \in {"ok", "link", "insertTrip"}
  BY DEF OpenConversation, ChatCreate, OpenInbox, Goto, Path
<1>2. r \notin Opened /\ pc'[r] \notin Opening
  BY <1>1 DEF ConversationsAre, Opening, ChatSteps, GroupSteps, TripSteps, FriendSteps
<1>3. call[r] \in SocialCalls /\ pc[r] \in StepsOf(call[r].op)
  BY <1>1 DEF Path, OnPath, Answered
<1>4. CASE OpenConversation(r)
  <2>1. call[r] \in ChatCalls /\ pc[r] = "openConversation"
    BY <1>3, <1>4, KindOfStep DEF OpenConversation, ChatSteps
  <2>2. call[r].op \in {"direct", "group", "agency"}
    BY <1>3, <2>1, ChatFields DEF StepsOf
  <2>3. CASE call[r].op = "direct"
    BY <1>2, <1>4, <2>3 DEF OpenConversation, Conversations
  <2>4. CASE call[r].op = "group"
    BY <1>2, <1>4, <2>4 DEF OpenConversation, Conversations
  <2>5. CASE call[r].op = "agency"
    <3>1. call[r].agency \in Agencies
      BY <2>1, <2>5, ChatFields
    <3> QED
      BY <1>2, <1>4, <2>5, <3>1 DEF OpenConversation, Conversations
  <2> QED
    BY <2>2, <2>3, <2>4, <2>5
<1>5. CASE ChatCreate(r)
  BY <1>2, <1>5 DEF ChatCreate, Conversations
<1>6. CASE OpenInbox(r)
  <2>1. call[r] \in TripCalls /\ call[r].op = "ask"
    BY <1>3, <1>6, KindOfStep, TripFields DEF OpenInbox, TripSteps, StepsOf
  <2>2. call[r].agency \in Agencies
    BY <2>1, TripFields
  <2> QED
    BY <1>2, <1>6, <2>2 DEF OpenInbox, Conversations
<1> QED
  BY <1>4, <1>5, <1>6

-----------------------------------------------------------------------------
(* How they grow.                                                          *)
LEMMA NewRows ==
  /\ [role |-> "admin", left |-> FALSE] \in Participants
  /\ [role |-> "member", left |-> FALSE] \in Participants
  /\ None \notin Participants /\ None \notin Conversations
BY ChatNoneAssumption DEF Participants

LEMMA CreateGrows ==
  ASSUME ConversationsAre, NEW r \in Requests, r \notin Opened, Proceeds(r), pc'[r] \notin Opening,
         NEW t, NEW a, NEW admins, NEW others, CreateConversation(r, t, a, admins, others),
         [type |-> t, agency |-> a] \in Conversations, a # None => t = "agency",
         UNCHANGED <<messages, sentAt>>
  PROVE  ConversationsAre' /\ Grows /\ conversations'[r] = [type |-> t, agency |-> a]
<1> USE DEF ConversationsAre, CreateConversation
<1>1. conversations'[r] = [type |-> t, agency |-> a]
      /\ \A c \in Requests \ {r} : conversations'[c] = conversations[c]
  OBVIOUS
<1>2. Opened' = Opened \cup {r}
  BY <1>1, NewRows DEF Opened
<1>3. participants' \in [Requests -> [Users -> Participants \cup {None}]]
      /\ \A c \in Requests \ {r} : participants'[c] = participants[c]
  BY NewRows
<1>4. conversations' \in [Requests -> Conversations \cup {None}]
  OBVIOUS
<1>5. \A c \in Opened' : pc'[c] \notin Opening
  BY <1>2 DEF Proceeds, StepOf, Opened
<1>6. \A c \in Opened' : conversations'[c].agency # None => conversations'[c].type = "agency"
  BY <1>1, <1>2 DEF Opened
<1>7. \A u \in Users : ~In(r, u)
  OBVIOUS
<1>8. Grows
  BY <1>1, <1>2, <1>3, <1>7 DEF Grows, In, Opened, Positions
<1> QED
  BY <1>1, <1>2, <1>3, <1>4, <1>5, <1>6, <1>8 DEF In

(* A row is added, or marked as left.                                      *)
LEMMA RowsGrow ==
  ASSUME ConversationsAre, NEW r \in Requests, Proceeds(r), NEW c \in Requests, IsGroup(c),
         UNCHANGED <<conversations, messages, sentAt>>,
         \/ \E us : Join(c, us)
         \/ \E u \in Users : In(c, u) /\ Leave(c, u)
  PROVE  ConversationsAre' /\ Grows
<1> USE DEF ConversationsAre
<1>1. Opened' = Opened
  BY DEF Opened
<1>2. \A d \in Opened : pc'[d] \notin Opening
  BY DEF Proceeds, StepOf, Opened
<1>3. /\ participants' \in [Requests -> [Users -> Participants \cup {None}]]
      /\ \A d \in Requests \ {c} : participants'[d] = participants[d]
      /\ \A u \in Users : In(c, u) => In(c, u)'
  <2>1. ASSUME NEW us, Join(c, us)
        PROVE  /\ participants' \in [Requests -> [Users -> Participants \cup {None}]]
               /\ \A d \in Requests \ {c} : participants'[d] = participants[d]
               /\ \A u \in Users : In(c, u) => In(c, u)'
    <3>1. participants' = [participants EXCEPT ![c] =
            [u \in Users |-> IF u \in us /\ participants[c][u] = None
                             THEN [role |-> "member", left |-> FALSE]
                             ELSE participants[c][u]]]
      BY <2>1 DEF Join
    <3> QED
      BY <3>1, NewRows DEF In
  <2>2. ASSUME NEW u \in Users, In(c, u), Leave(c, u)
        PROVE  /\ participants' \in [Requests -> [Users -> Participants \cup {None}]]
               /\ \A d \in Requests \ {c} : participants'[d] = participants[d]
               /\ \A v \in Users : In(c, v) => In(c, v)'
    <3>1. participants[c][u] \in Participants
      BY <2>2 DEF In
    <3>2. [participants[c][u] EXCEPT !.left = TRUE] \in Participants
      BY <3>1 DEF Participants
    <3>3. participants' = [participants EXCEPT ![c] =
            [participants[c] EXCEPT ![u] = [participants[c][u] EXCEPT !.left = TRUE]]]
      BY <2>2 DEF Leave
    <3> QED
      BY <3>2, <3>3, NewRows DEF In
  <2> QED
    BY <2>1, <2>2
<1>4. Grows
  <2>1. \A d \in Requests, u \in Users : In(d, u) => In(d, u)'
    BY <1>3 DEF In
  <2>2. \A d \in Requests :
          /\ Len(messages[d]) <= Len(messages'[d])
          /\ \A i \in Positions(d) : i \in Positions(d)' /\ messages'[d][i] = messages[d][i]
    <3> TAKE d \in Requests
    <3>1. messages[d] \in Seq(Users) /\ messages' = messages
      OBVIOUS
    <3> QED
      BY <3>1 DEF Positions
  <2> QED
    BY <1>1, <2>1, <2>2 DEF Grows
<1>5. \A d \in Requests \ Opened : messages'[d] = <<>> /\ \A u \in Users : ~In(d, u)'
  <2> TAKE d \in Requests \ Opened
  <2>1. messages[d] = <<>> /\ \A u \in Users : ~In(d, u)
    OBVIOUS
  <2>2. messages' = messages /\ participants'[d] = participants[d]
    BY <1>3 DEF IsGroup
  <2> HIDE DEF ConversationsAre
  <2> QED
    BY <2>1, <2>2 DEF In
<1>6. /\ conversations' \in [Requests -> Conversations \cup {None}]
      /\ messages' \in [Requests -> Seq(Users)] /\ DOMAIN sentAt' = Requests
      /\ \A d \in Opened' : conversations'[d].agency # None =>
                            conversations'[d].type = "agency"
  BY <1>1
<1> HIDE DEF ConversationsAre
<1>7. ConversationsAre'
  BY <1>1, <1>2, <1>3, <1>5, <1>6 DEF ConversationsAre
<1> QED
  BY <1>4, <1>7

LEMMA AppendGrows ==
  ASSUME ConversationsAre, NEW r \in Requests, Proceeds(r), NEW c \in Opened, NEW u \in Users,
         AppendMessage(r, c, u), UNCHANGED chat
  PROVE  /\ ConversationsAre' /\ Grows
         /\ sentAt'[r] = Len(messages'[c]) /\ Len(messages'[c]) = Len(messages[c]) + 1
         /\ messages'[c][Len(messages[c]) + 1] = u
         /\ \A d \in Requests \ {c} : messages'[d] = messages[d]
         /\ \A o \in Requests \ {r} : sentAt'[o] = sentAt[o]
<1> USE DEF ConversationsAre, AppendMessage, chat
<1>1. c \in Requests /\ messages[c] \in Seq(Users)
  BY DEF Opened
<1>2. messages'[c] = Append(messages[c], u) /\ \A d \in Requests \ {c} : messages'[d] = messages[d]
  BY <1>1
<1>3. /\ messages'[c] \in Seq(Users) /\ Len(messages'[c]) = Len(messages[c]) + 1
      /\ Positions(c)' = 1..Len(messages[c]) + 1
      /\ \A i \in Positions(c) : messages'[c][i] = messages[c][i]
      /\ messages'[c][Len(messages[c]) + 1] = u
  BY <1>1, <1>2 DEF Positions
<1>4. messages' \in [Requests -> Seq(Users)]
  BY <1>1, <1>3
<1>5. \A d \in Opened : pc'[d] \notin Opening
  BY DEF Proceeds, StepOf, Opened
<1>6. Grows
  <2>1. Positions(c) = 1..Len(messages[c]) /\ Len(messages[c]) \in Nat
    BY <1>1 DEF Positions
  <2> QED
    BY <1>2, <1>3, <2>1 DEF Grows, In, Opened, Positions
<1> QED
  BY <1>1, <1>2, <1>3, <1>4, <1>5, <1>6 DEF In, Opened

LEMMA StillGrows ==
  ASSUME ConversationsAre, NEW r \in Requests, Proceeds(r), UNCHANGED <<chat, messages>>,
         DOMAIN sentAt' = Requests
  PROVE  ConversationsAre' /\ Grows
<1>1. Opened' = Opened
  BY DEF Opened, chat
<1>2. \A d \in Opened : pc'[d] \notin Opening
  BY DEF Proceeds, StepOf, Opened, ConversationsAre
<1>3. Grows
  BY <1>1 DEF Grows, In, Positions, chat, ConversationsAre
<1> QED
  BY <1>1, <1>2, <1>3 DEF ConversationsAre, chat, In

LEMMA ConversationsStep ==
  ASSUME Path, ConversationsAre, Known, NEW r \in Requests, StepOfSocial(r)
  PROVE  ConversationsAre' /\ Grows
<1>1. Proceeds(r) /\ OnPath(r)
  BY SocialMoves DEF Path
<1>2. CASE /\ UNCHANGED messaging
           /\ OpenConversation(r) \/ ChatCreate(r) \/ OpenInbox(r)
  BY <1>1, <1>2, OpensNew, CreateGrows DEF messaging
<1>3. CASE /\ UNCHANGED messaging
           /\ AddParticipant(r) \/ ChatJoin(r) \/ RemoveParticipant(r) \/ ChatLeave(r)
  <2>1. UNCHANGED <<conversations, messages, sentAt>>
    BY <1>3 DEF AddParticipant, ChatJoin, RemoveParticipant, ChatLeave, messaging
  <2>2. CASE AddParticipant(r) \/ RemoveParticipant(r)
    <3>1. pc[r] \in {"join", "leave"} /\ call[r] \in ChatCalls
          /\ call[r].op \in {"add", "remove"} /\ (pc[r] = "leave" => call[r].op = "remove")
      BY <2>2, <1>1, KindOfStep, ChatFields
      DEF AddParticipant, RemoveParticipant, OnPath, Answered, ChatSteps, StepsOf
    <3>2. call[r].conversation \in Requests /\ IsGroup(call[r].conversation)
          /\ (pc[r] = "leave" => In(call[r].conversation, call[r].other) /\ call[r].other \in Users)
      BY <3>1, ChatFields DEF Known, ChatKnown
    <3>3. PICK c \in Requests : c = call[r].conversation
      BY <3>2
    <3>4. (\E us : Join(c, us)) \/ \E u \in Users : In(c, u) /\ Leave(c, u)
      BY <2>2, <3>2, <3>3 DEF AddParticipant, RemoveParticipant
    <3> QED
      BY <1>1, <1>3, <2>1, <3>2, <3>3, <3>4, RowsGrow
  <2>3. CASE ChatJoin(r) \/ ChatLeave(r)
    <3>1. pc[r] \in {"chatJoin", "chatLeave"} /\ call[r] \in GroupCalls
          /\ call[r].op \in {"addMember", "removeMember"}
      BY <2>3, <1>1, KindOfStep, GroupFields
      DEF ChatJoin, ChatLeave, OnPath, Answered, GroupSteps, StepsOf
    <3>2. chatSeen[r] \in Requests /\ IsGroup(chatSeen[r])
          /\ (pc[r] = "chatLeave" => In(chatSeen[r], call[r].other) /\ call[r].other \in Users)
      BY <3>1, GroupFields DEF Known, GroupKnown, IsGroup, Opened
    <3>3. PICK c \in Requests : c = chatSeen[r]
      BY <3>2
    <3>4. (\E us : Join(c, us)) \/ \E u \in Users : In(c, u) /\ Leave(c, u)
      BY <2>3, <3>2, <3>3 DEF ChatJoin, ChatLeave
    <3> QED
      BY <1>1, <1>3, <2>1, <3>2, <3>3, <3>4, RowsGrow
  <2> QED
    BY <1>3, <2>2, <2>3
<1>4. CASE UNCHANGED chat
  <2>1. CASE UNCHANGED messages
    <3>1. DOMAIN sentAt' = Requests
      BY <2>1, MessageChanges DEF messaging, ConversationsAre, Post, PostFirst, Touch, TouchInbox,
         AppendMessage, TouchConversation
    <3> QED
      BY <1>1, <1>4, <2>1, <3>1, StillGrows
  <2>2. CASE Post(r)
    <3>1. call[r].conversation \in Opened /\ call[r] \in ChatCalls /\ call[r].user \in Users
      BY <2>2, <1>1, KindOfStep, ChatFields DEF Post, Known, ChatKnown, OnPath, Answered,
         ChatSteps
    <3>2. PICK c \in Opened, u \in Users : c = call[r].conversation /\ u = call[r].user
      BY <3>1
    <3> QED
      BY <1>1, <1>4, <2>2, <3>2, AppendGrows DEF Post
  <2>3. CASE PostFirst(r)
    <3>1. inbox[r] \in Opened /\ call[r] \in TripCalls /\ call[r].user \in Users
      BY <2>3, <1>1, KindOfStep, TripFields DEF PostFirst, Known, TripKnown, OnPath, Answered,
         TripSteps, StepsOf
    <3>2. PICK c \in Opened, u \in Users : c = inbox[r] /\ u = call[r].user
      BY <3>1
    <3>3. AppendMessage(r, inbox[r], call[r].user) \/ UNCHANGED messaging
      BY <2>3 DEF PostFirst
    <3> QED
      BY <1>1, <1>4, <2>1, <3>2, <3>3, AppendGrows DEF messaging
  <2> QED
    BY <2>1, <2>2, <2>3, MessageChanges DEF messaging, Touch, TouchInbox, TouchConversation
<1> QED
  BY <1>2, <1>3, <1>4, ChatChanges

-----------------------------------------------------------------------------
(* What calls know stays true, for conversations grow.                     *)
LEMMA Persists ==
  ASSUME Grows, NEW c \in Opened
  PROVE  /\ c \in Opened'
         /\ IsGroup(c) => IsGroup(c)'
         /\ \A u \in Users : IsStaff(c, u) => IsStaff(c, u)'
         /\ \A u \in Users : In(c, u) => In(c, u)'
BY DEF Grows, IsGroup, IsStaff, Opened, In

LEMMA LocalsStay ==
  ASSUME Known, ConversationsAre, NEW r \in Requests, StepOfSocial(r)
  PROVE  /\ DOMAIN todo' = Requests /\ DOMAIN chatSeen' = Requests
         /\ DOMAIN inbox' = Requests /\ DOMAIN sentAt' = Requests
         /\ \A o \in Requests \ {r} : /\ todo'[o] = todo[o] /\ chatSeen'[o] = chatSeen[o]
                                      /\ inbox'[o] = inbox[o] /\ sentAt'[o] = sentAt[o]
<1> USE DEF Known, ConversationsAre, mail, groupTrip, tripRequesting, tables
<1>1. /\ DOMAIN sentAt' = Requests
      /\ \A o \in Requests \ {r} : sentAt'[o] = sentAt[o]
  BY MessageChanges DEF messaging, Post, PostFirst, Touch, TouchInbox, AppendMessage,
     TouchConversation
<1>2. CASE ChatStep(r) /\ UNCHANGED <<friendship, groupTrip, tripRequesting>>
  <2>1. UNCHANGED todo \/ \E set : Todo(r, set)
    BY <1>2 DEF ChatStep, ReceiveChat, CheckFriends, FindDirect, FindAgency,
       OpenConversation, Access, AddParticipant, FindTarget, RemoveParticipant, Post, Touch,
       Page, Deliver, Collect, Receipt, Cursor
  <2> QED
    BY <1>1, <1>2, <2>1 DEF Todo, groupLocal
<1>3. CASE GroupStep(r) /\ UNCHANGED <<friendship, mail, tripRequesting>>
  <2>1. UNCHANGED chatSeen \/ chatSeen' = [chatSeen EXCEPT ![r] = conversation]
    BY <1>3 DEF GroupStep, ReceiveGroup, ReadCampaign, FindMember, CheckFriend, InsertMember,
     ChatFriends, ChatCreate, Link, ChatAccess, ChatJoin, MemberTarget, DeleteMember, groupLocal,
     ChatTarget, ChatLeave, Permit, Payer, Record, Unspend, Sums, RequestWithdrawal
  <2> QED
    BY <1>1, <1>3, <2>1
<1>4. CASE TripStep(r) /\ UNCHANGED <<friendship, receipting, todo, groupTrip>>
  <2>1. UNCHANGED inbox \/ \E c : inbox' = [inbox EXCEPT ![r] = c]
    BY <1>4 DEF TripStep, ReceiveTrip, CheckTrip, FindInbox, OpenInbox, InsertTrip,
       PostFirst, TouchInbox, UpdateTrip
  <2> QED
    BY <1>1, <1>4, <2>1 DEF groupLocal
<1>5. CASE FriendsStep(r) /\ UNCHANGED <<chat, mail, groupTrip, tripRequesting>>
  BY <1>1, <1>5 DEF groupLocal
<1>6. CASE Fail(r)
  BY <1>1, <1>6 DEF Fail, groupLocal
<1> QED
  BY <1>2, <1>3, <1>4, <1>5, <1>6 DEF StepOfSocial

(* The calls that a step is not of.                                        *)
LEMMA OthersKnow ==
  ASSUME Path, ConversationsAre, Known, NEW r \in Requests, StepOfSocial(r),
         NEW o \in Requests \ {r}
  PROVE  ChatKnown(o)' /\ GroupKnown(o)' /\ TripKnown(o)'
<1>1. Grows
  BY ConversationsStep
<1>2. /\ pc'[o] = pc[o] /\ call'[o] = call[o]
      /\ todo'[o] = todo[o] /\ chatSeen'[o] = chatSeen[o]
      /\ inbox'[o] = inbox[o] /\ sentAt'[o] = sentAt[o]
  BY SocialMoves, LocalsStay DEF Proceeds, StepOf
<1>3. ChatKnown(o) /\ GroupKnown(o) /\ TripKnown(o) /\ OnPath(o)
  BY DEF Known, Path
<1>4. ASSUME pc[o] \in ChatSteps
      PROVE  call[o] \in ChatCalls /\ pc[o] \in StepsOf(call[o].op)
  BY <1>3, <1>4, KindOfStep DEF OnPath, ChatSteps, Answered
<1>5. ASSUME pc[o] \in GroupSteps
      PROVE  call[o] \in GroupCalls /\ pc[o] \in StepsOf(call[o].op)
  BY <1>3, <1>5, KindOfStep DEF OnPath, GroupSteps, Answered
<1>6. ChatKnown(o)'
  <2> DEFINE relies ==
        \/ pc[o] \in {"join", "findTarget", "leave", "post", "touch", "deliver", "receipt"}
        \/ pc[o] = "checkFriends" /\ call[o].op = "add"
  <2>1. CASE relies
    <3>1. call[o] \in ChatCalls /\ pc[o] \in StepsOf(call[o].op)
      BY <1>4, <2>1 DEF ChatSteps
    <3>2. /\ call[o].op \in {"add", "remove", "send", "list", "read"}
          /\ pc[o] = "leave" => call[o].op = "remove"
      BY <2>1, <3>1, ChatFields DEF StepsOf
    <3>3. call[o].conversation \in Requests /\ call[o].user \in Users
          /\ (pc[o] = "leave" => call[o].other \in Users)
      BY <3>1, <3>2, ChatFields
    <3>4. PICK c \in Requests, u \in Users : c = call[o].conversation /\ u = call[o].user
      BY <3>3
    <3>5. Len(messages[c]) \in Nat /\ Len(messages'[c]) \in Nat
          /\ Len(messages[c]) <= Len(messages'[c]) /\ Positions(c) \subseteq Positions(c)'
      BY <1>1, ConversationsStep DEF Grows, ConversationsAre
    <3>6. CASE \/ pc[o] \in {"join", "findTarget", "post"}
               \/ pc[o] = "checkFriends" /\ call[o].op = "add"
      BY <1>1, <1>2, <1>3, <3>4, <3>6, Persists DEF ChatKnown, IsGroup
    <3>7. CASE pc[o] = "leave"
      <4>1. PICK v \in Users : v = call[o].other
        BY <3>3, <3>7
      <4> QED
        BY <1>1, <1>2, <1>3, <3>4, <3>7, <4>1, Persists DEF ChatKnown, IsGroup
    <3>8. CASE pc[o] \in {"touch", "deliver", "receipt"}
      BY <1>2, <1>3, <3>4, <3>5, <3>8 DEF ChatKnown
    <3> QED
      BY <2>1, <3>6, <3>7, <3>8
  <2>2. CASE ~relies
    BY <1>2, <2>2 DEF ChatKnown
  <2> QED
    BY <2>1, <2>2
<1>7. GroupKnown(o)'
  <2>1. chatSeen[o] # None => IsGroup(chatSeen[o])'
    BY <1>1, <1>2, <1>3, Persists DEF GroupKnown, IsGroup
  <2>2. pc[o] = "link" => IsGroup(o)'
    BY <1>1, <1>3, Persists DEF GroupKnown, IsGroup
  <2>3. pc[o] = "chatLeave" => In(chatSeen[o], call[o].other)'
    <3> SUFFICES ASSUME pc[o] = "chatLeave"
                 PROVE  In(chatSeen[o], call[o].other)'
      OBVIOUS
    <3>1. call[o].other \in Users
      BY <1>5, GroupFields DEF GroupSteps, StepsOf
    <3>2. chatSeen[o] \in Opened
      BY <1>3 DEF GroupKnown, IsGroup
    <3>3. PICK c \in Opened, u \in Users : c = chatSeen[o] /\ u = call[o].other
      BY <3>1, <3>2
    <3> QED
      BY <1>1, <1>2, <1>3, <3>3, Persists DEF GroupKnown, In
  <2> QED
    BY <1>2, <1>3, <2>1, <2>2, <2>3 DEF GroupKnown
<1>8. TripKnown(o)'
  <2>1. inbox[o] # None => inbox[o] \in Opened'
    BY <1>1, <1>2, <1>3, Persists DEF TripKnown
  <2>2. inbox[o] # None => /\ Len(messages[inbox[o]]) <= Len(messages'[inbox[o]])
                           /\ Len(messages[inbox[o]]) \in Nat /\ Len(messages'[inbox[o]]) \in Nat
    BY <1>1, <1>3, ConversationsStep DEF Grows, TripKnown, Opened, ConversationsAre
  <2> QED
    BY <1>2, <1>3, <2>1, <2>2 DEF TripKnown
<1> QED
  BY <1>6, <1>7, <1>8

(* The call that takes the step.                                           *)
LEMMA ChatLearns ==
  ASSUME Path, ConversationsAre, Known, NEW r \in Requests, StepOfSocial(r)
  PROVE  ChatKnown(r)'
<1>1. Grows /\ Proceeds(r) /\ OnPath(r) /\ ChatKnown(r)
  BY ConversationsStep, SocialMoves DEF Path, Known
<1>2. CASE FriendsStep(r) \/ GroupStep(r) \/ TripStep(r) \/ Fail(r)
  <2>1. pc'[r] \in FriendSteps \cup GroupSteps \cup TripSteps \cup Answered
    BY <1>2, ServiceStays DEF Fail, Break, Goto, Path, Answered
  <2> QED
    BY <2>1 DEF ChatKnown, FriendSteps, GroupSteps, TripSteps, Answered
<1>3. CASE ChatStep(r)
  <2>1. CASE ReceiveChat(r)
    <3>1. call'[r] \in ChatCalls /\ pc'[r] = FirstChatStep(call'[r])
      BY <1>3, <2>1, ServiceStays DEF ReceiveChat, StartAt, Path
    <3>2. /\ pc'[r] \in {"failed", "checkFriends", "findAgency", "access"}
          /\ pc'[r] = "checkFriends" => call'[r].op # "add"
      BY <3>1 DEF FirstChatStep
    <3> QED
      BY <3>2 DEF ChatKnown
  <2>2. CASE pc[r] \in ChatSteps
    <3>1. call[r] \in ChatCalls /\ call'[r] = call[r] /\ pc[r] \in StepsOf(call[r].op)
      BY <1>1, <2>2, KindOfStep DEF OnPath, Answered, ChatSteps, Proceeds, StepOf
    <3>2. call[r].user \in Users
      BY <3>1, ChatFields
    <3> USE DEF Goto, Path
    <3>3. CASE CheckFriends(r)
      <4>1. pc[r] = "checkFriends" /\ pc'[r] \in {"checkFriends", "failed", "findDirect",
                                                 "openConversation", "join"}
            /\ (pc'[r] = "join" => call[r].op \notin {"direct", "group"})
        BY <3>3 DEF CheckFriends, calls
      <4>2. call[r].op \in {"direct", "group", "add"}
        BY <3>1, <4>1, ChatFields DEF StepsOf
      <4>3. IsGroup(call[r].conversation) /\ call[r].op = "add" => IsGroup(call[r].conversation)'
        BY <1>1, <3>1, Persists DEF IsGroup
      <4> QED
        BY <1>1, <3>1, <4>1, <4>2, <4>3 DEF ChatKnown, IsGroup
    <3>4. CASE FindDirect(r) \/ FindAgency(r) \/ OpenConversation(r)
      BY <3>4 DEF FindDirect, FindAgency, OpenConversation, ChatKnown
    <3>5. CASE Access(r)
      <4>1. pc'[r] \in {"checkFriends", "findTarget"} => IsGroup(call[r].conversation)
        BY <3>5 DEF Access, AfterAccess, Granted, HasAccess, IsGroup
      <4>2. pc'[r] = "post" =>
              /\ call[r].conversation \in Opened
              /\ In(call[r].conversation, call[r].user)
                   \/ IsStaff(call[r].conversation, call[r].user)
        BY <3>5 DEF Access, AfterAccess, Granted, HasAccess, Live, In
      <4>3. pc'[r] \in {"checkFriends", "findTarget", "post", "page", "collect", "failed"}
        BY <3>5 DEF Access, AfterAccess
      <4>4. IsGroup(call[r].conversation) => IsGroup(call[r].conversation)'
        BY <1>1, <3>1, Persists DEF IsGroup
      <4>5. call[r].conversation \in Opened =>
              /\ call[r].conversation \in Opened'
              /\ In(call[r].conversation, call[r].user) => In(call[r].conversation, call[r].user)'
              /\ IsStaff(call[r].conversation, call[r].user) =>
                   IsStaff(call[r].conversation, call[r].user)'
        <5>1. PICK u \in Users : u = call[r].user
          BY <3>2
        <5> QED
          BY <1>1, <3>1, <5>1, Persists DEF In, IsStaff
      <4> QED
        BY <3>1, <4>1, <4>2, <4>3, <4>4, <4>5 DEF ChatKnown, IsGroup
    <3>6. CASE AddParticipant(r) \/ RemoveParticipant(r)
      BY <3>6 DEF AddParticipant, RemoveParticipant, ChatKnown
    <3>7. CASE FindTarget(r)
      <4>1. IsGroup(call[r].conversation) /\ call[r].conversation \in Opened
        BY <1>1, <3>7 DEF FindTarget, ChatKnown, IsGroup
      <4>2. pc'[r] \in {"leave", "failed"} /\ call[r].op = "remove"
            /\ (pc'[r] = "leave" => In(call[r].conversation, call[r].other))
        BY <3>1, <3>7, ChatFields DEF FindTarget, Live, In, StepsOf
      <4>3. PICK c \in Opened, u \in Users : c = call[r].conversation /\ u = call[r].other
        BY <3>1, <4>1, <4>2, ChatFields
      <4>4. IsGroup(c)' /\ (In(c, u) => In(c, u)')
        BY <1>1, <4>1, <4>3, Persists
      <4> QED
        BY <3>1, <4>2, <4>3, <4>4 DEF ChatKnown
    <3>8. CASE Post(r)
      <4>1. call[r].conversation \in Opened
        BY <1>1, <3>8 DEF Post, ChatKnown
      <4>2. PICK c \in Opened, u \in Users : c = call[r].conversation /\ u = call[r].user
        BY <3>2, <4>1
      <4>3. sentAt'[r] = Len(messages'[c]) /\ ConversationsAre'
        BY <1>1, <3>8, <4>2, AppendGrows DEF Post
      <4>4. c \in Requests /\ pc'[r] = "touch"
        BY <3>8 DEF Opened, Post
      <4> QED
        BY <3>1, <4>2, <4>3, <4>4 DEF ChatKnown, ConversationsAre
    <3>9. CASE Touch(r) \/ Deliver(r) \/ Receipt(r) \/ Cursor(r)
      BY <3>9 DEF Touch, Deliver, Receipt, Cursor, ChatKnown
    <3>10. CASE Page(r) \/ Collect(r)
      <4>1. todo'[r] = OfOthers(call[r].conversation, call[r].user) /\ UNCHANGED messages
            /\ pc'[r] \in {"deliver", "receipt"}
        BY <3>10 DEF Page, Collect, Todo, messaging, Known
      <4> QED
        BY <3>1, <4>1 DEF ChatKnown, OfOthers, Positions
    <3> QED
      BY <1>3, <2>2, <3>3, <3>4, <3>5, <3>6, <3>7, <3>8, <3>9, <3>10
      DEF ChatStep, ReceiveChat, Begin, ChatSteps
  <2> QED
    BY <1>3, <2>1, <2>2, StepsInService
<1> QED
  BY <1>2, <1>3 DEF StepOfSocial

LEMMA GroupLearns ==
  ASSUME Path, ConversationsAre, Known, NEW r \in Requests, StepOfSocial(r)
  PROVE  GroupKnown(r)' /\ (conversation # None => IsGroup(conversation))'
<1>1. Grows /\ Proceeds(r) /\ OnPath(r) /\ GroupKnown(r) /\ ConversationsAre'
  BY ConversationsStep, SocialMoves DEF Path, Known
<1>2. ASSUME NEW c, c # None => IsGroup(c)
      PROVE  c # None => IsGroup(c)'
  BY <1>1, <1>2, Persists DEF IsGroup
<1>3. PICK seen, common : seen = chatSeen[r] /\ common = conversation
  OBVIOUS
<1>4. /\ seen # None => IsGroup(seen)'
      /\ common # None => IsGroup(common)'
  BY <1>1, <1>2, <1>3 DEF GroupKnown, Known
<1>5. CASE /\ FriendsStep(r) \/ ChatStep(r) \/ TripStep(r) \/ Fail(r)
           /\ UNCHANGED groupTrip
  <2>1. pc'[r] \in FriendSteps \cup ChatSteps \cup TripSteps \cup Answered
    BY <1>5, ServiceStays DEF Fail, Break, Goto, Path, Answered
  <2> QED
    BY <1>3, <1>4, <1>5, <2>1 DEF groupTrip, group, groupLocal, GroupKnown, FriendSteps,
       ChatSteps, TripSteps, Answered
<1>6. CASE GroupStep(r)
  <2>1. CASE ReceiveGroup(r)
    <3>1. pc'[r] = "readCampaign"
      BY <2>1 DEF ReceiveGroup, StartAt, Path
    <3> QED
      BY <1>3, <1>4, <2>1, <3>1 DEF ReceiveGroup, GroupKnown, group, groupLocal
  <2>2. CASE pc[r] \in GroupSteps
    <3>1. call[r] \in GroupCalls /\ call'[r] = call[r] /\ pc[r] \in StepsOf(call[r].op)
      BY <1>1, <2>2, KindOfStep DEF OnPath, Answered, GroupSteps, Proceeds, StepOf
    <3> USE DEF Goto, Path, group, groupLocal
    <3>2. CASE ReadCampaign(r)
      <4>1. /\ pc'[r] \in {"findMember", "memberTarget", "record", "payer", "sums", "unspend",
                           "failed"}
            /\ chatSeen'[r] = common /\ conversation' = common
        BY <1>3, <3>2 DEF ReadCampaign, NextGroupStep, Known
      <4> QED
        BY <1>4, <4>1 DEF GroupKnown
    <3>3. CASE \/ FindMember(r) \/ CheckFriend(r) \/ InsertMember(r) \/ ChatFriends(r)
               \/ ChatAccess(r) \/ ChatJoin(r) \/ MemberTarget(r) \/ DeleteMember(r)
      <4>1. /\ chatSeen' = chatSeen /\ conversation' = conversation
            /\ pc'[r] \notin {"link", "chatLeave"}
            /\ pc'[r] \in {"chatAccess", "chatTarget", "chatJoin"} => chatSeen[r] # None
        BY <1>1, <3>3 DEF FindMember, CheckFriend, InsertMember, ChatFriends, ChatAccess,
           ChatJoin, MemberTarget, DeleteMember, GroupKnown
      <4> QED
        BY <1>3, <1>4, <4>1 DEF GroupKnown
    <3>4. CASE ChatCreate(r)
      <4>1. /\ chatSeen' = chatSeen /\ conversation' = conversation /\ pc'[r] = "link"
            /\ CreateConversation(r, "group", None, {call[r].user}, {call[r].other})
        BY <3>4 DEF ChatCreate
      <4>2. conversations'[r] = [type |-> "group", agency |-> None]
        BY <4>1 DEF CreateConversation, ConversationsAre
      <4>3. IsGroup(r)'
        BY <1>1, <4>2, NewRows DEF ConversationsAre, IsGroup, Opened, Conversations
      <4> QED
        BY <1>3, <1>4, <4>1, <4>3 DEF GroupKnown
    <3>5. CASE Link(r)
      <4>1. chatSeen' = chatSeen /\ conversation' = r /\ pc'[r] = "ok" /\ IsGroup(r)
        BY <1>1, <3>5 DEF Link, GroupKnown
      <4>2. IsGroup(r)'
        BY <1>1, <4>1, Persists DEF IsGroup
      <4> QED
        BY <1>3, <1>4, <4>1, <4>2 DEF GroupKnown
    <3>6. CASE ChatTarget(r)
      <4>1. /\ chatSeen' = chatSeen /\ conversation' = conversation
            /\ pc[r] = "chatTarget" /\ pc'[r] \in {"chatLeave", "failed"}
            /\ pc'[r] = "chatLeave" => Live(chatSeen[r], call[r].other)
        BY <3>6 DEF ChatTarget
      <4>2. chatSeen[r] # None /\ chatSeen[r] \in Opened /\ call[r].other \in Users
        BY <1>1, <3>1, <4>1, GroupFields DEF GroupKnown, IsGroup, StepsOf
      <4>3. PICK c \in Opened, u \in Users : c = chatSeen[r] /\ u = call[r].other
        BY <4>2
      <4>4. In(c, u) => In(c, u)'
        BY <1>1, Persists
      <4>5. pc'[r] = "chatLeave" => In(c, u)
        BY <4>1, <4>3 DEF Live, In
      <4> QED
        BY <1>3, <1>4, <3>1, <4>1, <4>2, <4>3, <4>4, <4>5 DEF GroupKnown
    <3>7. CASE \/ ChatLeave(r) \/ Permit(r) \/ Payer(r) \/ Record(r)
               \/ Unspend(r) \/ Sums(r) \/ RequestWithdrawal(r)
      <4>1. /\ chatSeen' = chatSeen /\ conversation' = conversation
            /\ pc'[r] \in {"ok", "failed", "record", "requestWithdrawal"}
        BY <3>7 DEF ChatLeave, Permit, Payer, Record, Unspend, Sums, RequestWithdrawal
      <4> QED
        BY <1>3, <1>4, <4>1 DEF GroupKnown
    <3> QED
      BY <1>6, <2>2, <3>2, <3>3, <3>4, <3>5, <3>6, <3>7
      DEF GroupStep, ReceiveGroup, Begin, GroupSteps
  <2> QED
    BY <1>6, <2>1, <2>2, StepsInService
<1> QED
  BY <1>5, <1>6 DEF StepOfSocial, Fail, tables

LEMMA TripLearns ==
  ASSUME Path, ConversationsAre, Known, NEW r \in Requests, StepOfSocial(r)
  PROVE  TripKnown(r)'
<1>1. Grows /\ Proceeds(r) /\ OnPath(r) /\ TripKnown(r) /\ ConversationsAre'
  BY ConversationsStep, SocialMoves DEF Path, Known
<1>2. inbox[r] # None => inbox[r] \in Opened'
  BY <1>1, Persists DEF TripKnown
<1>3. CASE /\ FriendsStep(r) \/ ChatStep(r) \/ GroupStep(r) \/ Fail(r)
           /\ UNCHANGED inbox
  <2>1. pc'[r] \in FriendSteps \cup ChatSteps \cup GroupSteps \cup Answered
    BY <1>3, ServiceStays DEF Fail, Break, Goto, Path, Answered
  <2> QED
    BY <1>2, <1>3, <2>1 DEF TripKnown, FriendSteps, ChatSteps, GroupSteps, Answered
<1>4. CASE TripStep(r)
  <2> USE DEF Goto, Path
  <2>1. CASE ReceiveTrip(r)
    BY <1>2, <2>1 DEF ReceiveTrip, StartAt, TripKnown
  <2>2. CASE CheckTrip(r) \/ InsertTrip(r) \/ UpdateTrip(r)
    BY <1>1, <1>2, <2>2 DEF CheckTrip, InsertTrip, UpdateTrip, TripKnown
  <2>3. CASE FindInbox(r)
    <3>1. /\ inbox'[r] = inbox[r] \/ inbox'[r] \in Opened
          /\ pc'[r] \in {"insertTrip", "openInbox"}
          /\ pc'[r] = "insertTrip" => inbox'[r] \in Opened
      BY <2>3 DEF FindInbox, InboxOf, Known
    <3> QED
      BY <1>1, <1>2, <3>1, Persists, ChatNoneAssumption DEF TripKnown, Opened
  <2>4. CASE OpenInbox(r)
    <3>1. inbox'[r] = r /\ pc'[r] = "insertTrip" /\ r \in Opened'
      <4>1. conversations'[r] = [type |-> "agency", agency |-> call[r].agency]
        BY <2>4 DEF OpenInbox, CreateConversation, ConversationsAre
      <4>2. conversations'[r] # None
        <5>1. \E t, a, admins, others :
                /\ CreateConversation(r, t, a, admins, others)
                /\ [type |-> t, agency |-> a] \in Conversations
          BY <2>4, OpensNew
        <5> QED
          BY <5>1, NewRows DEF CreateConversation, ConversationsAre
      <4> QED
        BY <2>4, <4>2 DEF OpenInbox, Opened, Known
    <3> QED
      BY <3>1, ChatNoneAssumption DEF TripKnown
  <2>5. CASE PostFirst(r)
    <3>1. inbox[r] # None /\ inbox[r] \in Opened /\ inbox' = inbox /\ pc[r] = "postFirst"
          /\ pc'[r] \in {"touchInbox", "failed"}
      BY <1>1, <2>5 DEF PostFirst, TripKnown
    <3>2. call[r].user \in Users
      <4>1. call[r] \in TripCalls /\ pc[r] \in StepsOf(call[r].op)
        BY <1>1, <3>1, KindOfStep DEF OnPath, Answered, TripSteps
      <4> QED
        BY <3>1, <4>1, TripFields DEF StepsOf
    <3>3. PICK c \in Opened, u \in Users : c = inbox[r] /\ u = call[r].user
      BY <3>1, <3>2
    <3>4. pc'[r] = "touchInbox" => AppendMessage(r, c, u) /\ UNCHANGED chat
      BY <2>5, <3>3 DEF PostFirst
    <3>5. pc'[r] = "touchInbox" => sentAt'[r] = Len(messages'[c])
      BY <1>1, <3>4, AppendGrows
    <3>6. Len(messages'[c]) \in Nat
      BY <1>1 DEF ConversationsAre, Opened
    <3> QED
      BY <1>2, <3>1, <3>3, <3>5, <3>6 DEF TripKnown
  <2>6. CASE TouchInbox(r)
    BY <1>2, <2>6 DEF TouchInbox, TripKnown
  <2> QED
    BY <1>4, <2>1, <2>2, <2>3, <2>4, <2>5, <2>6 DEF TripStep
<1> QED
  BY <1>3, <1>4 DEF StepOfSocial, Fail, tables, tripRequesting

LEMMA KnownStep ==
  ASSUME Path, ConversationsAre, Known, NEW r \in Requests, StepOfSocial(r)
  PROVE  Known'
<1>1. \A o \in Requests \ {r} : ChatKnown(o)' /\ GroupKnown(o)' /\ TripKnown(o)'
  BY OthersKnow
<1>2. /\ ChatKnown(r)' /\ GroupKnown(r)' /\ TripKnown(r)'
      /\ (conversation # None => IsGroup(conversation))'
  BY ChatLearns, GroupLearns, TripLearns
<1>3. DOMAIN todo' = Requests /\ DOMAIN chatSeen' = Requests /\ DOMAIN inbox' = Requests
  BY LocalsStay
<1> QED
  BY <1>1, <1>2, <1>3 DEF Known

-----------------------------------------------------------------------------
(* Cursors and receipts.                                                   *)
CursorsAre ==
  /\ lastMessage \in [Requests -> Nat] /\ staffReadTo \in [Requests -> Nat]
  /\ sentAt \in [Requests -> Nat] /\ readTo \in [Requests -> [Users -> Nat]]
  /\ \A c \in Requests : /\ lastMessage[c] <= Len(messages[c])
                         /\ staffReadTo[c] <= Len(messages[c])
  /\ \A c \in Requests, u \in Users : /\ readTo[c][u] <= Len(messages[c])
                                      /\ ~In(c, u) => readTo[c][u] = 0

ReceiptsAre ==
  /\ \A x \in receipts : x \in Requests \X Nat \X Users /\ x[2] \in Positions(x[1])
  /\ readReceipts \subseteq receipts
  /\ \A r \in Requests : todo[r] \subseteq Users \cup Nat

(* The steps that read or mark messages as read.                           *)
LEMMA ReceiptChanges ==
  ASSUME NEW r \in Requests, StepOfSocial(r)
  PROVE  UNCHANGED receipting \/ Deliver(r) \/ Receipt(r) \/ Cursor(r)
<1> USE DEF mail, groupTrip, tables, tripRequesting
<1>1. CASE (FriendsStep(r) \/ GroupStep(r)) /\ UNCHANGED mail
  BY <1>1
<1>2. CASE ChatStep(r)
  BY <1>2 DEF ChatStep, ReceiveChat, CheckFriends, FindDirect, FindAgency,
     OpenConversation, Access, AddParticipant, FindTarget, RemoveParticipant, Page,
     Post, Touch, Collect
<1>3. CASE TripStep(r) /\ UNCHANGED receipting
  BY <1>3
<1>4. CASE Fail(r)
  BY <1>4 DEF Fail
<1> QED
  BY <1>1, <1>2, <1>3, <1>4 DEF StepOfSocial

LEMMA TodoChanges ==
  ASSUME ConversationsAre, Path, NEW r \in Requests, StepOfSocial(r)
  PROVE  UNCHANGED todo \/ \E set \in SUBSET (todo[r] \cup Users \cup Nat) : Todo(r, set)
<1> USE DEF mail, groupTrip, tables, tripRequesting
<1>1. CASE (FriendsStep(r) \/ GroupStep(r)) /\ UNCHANGED mail
  BY <1>1
<1>2. CASE TripStep(r) /\ UNCHANGED todo
  BY <1>2
<1>3. CASE Fail(r)
  BY <1>3 DEF Fail
<1>4. CASE ReceiveChat(r)
  <2>1. call'[r] \in ChatCalls
    BY <1>4 DEF ReceiveChat, Begin, Path
  <2>2. ToBefriend(call'[r]) \subseteq Users
    BY <2>1, ChatFields DEF ToBefriend
  <2> QED
    BY <1>4, <2>2 DEF ReceiveChat
<1>5. CASE ChatStep(r) /\ pc[r] \in ChatSteps
  <2>1. call[r] \in ChatCalls /\ pc[r] \in StepsOf(call[r].op)
    BY <1>5, KindOfStep DEF OnPath, Answered, ChatSteps, Path
  <2>2. CASE Page(r) \/ Collect(r)
    <3>1. call[r].conversation \in Requests
      BY <2>1, <2>2, ChatFields DEF StepsOf, Page, Collect
    <3>2. OfOthers(call[r].conversation, call[r].user) \subseteq Nat
      BY <3>1 DEF OfOthers, Positions, ConversationsAre
    <3> QED
      BY <2>2, <3>2 DEF Page, Collect
  <2> QED
    BY <1>5, <2>2 DEF ChatStep, ReceiveChat, Begin, CheckFriends, FindDirect, FindAgency,
     OpenConversation, Access, AddParticipant, FindTarget, RemoveParticipant,
     Post, Touch, Deliver, Receipt, Cursor, ChatSteps
<1> QED
  BY <1>1, <1>2, <1>3, <1>4, <1>5, StepsInService DEF StepOfSocial

(* What the calls of the messages service are at their steps.              *)
LEMMA MailCall ==
  ASSUME Path, NEW r \in Requests,
         pc[r] \in {"access", "post", "touch", "page", "deliver", "collect", "receipt", "cursor"}
  PROVE  /\ call[r] \in ChatCalls /\ pc[r] \in StepsOf(call[r].op)
         /\ call[r].conversation \in Requests /\ call[r].user \in Users
<1>1. call[r] \in ChatCalls /\ pc[r] \in StepsOf(call[r].op)
  BY KindOfStep DEF Path, OnPath, Answered, ChatSteps
<1>2. call[r].op \in {"add", "remove", "send", "list", "read"}
  BY <1>1, ChatFields DEF StepsOf
<1> QED
  BY <1>1, <1>2, ChatFields

LEMMA TimesStep ==
  ASSUME Path, ConversationsAre, Known, CursorsAre, NEW r \in Requests, StepOfSocial(r)
  PROVE  /\ sentAt' \in [Requests -> Nat] /\ lastMessage' \in [Requests -> Nat]
         /\ \A c \in Requests : lastMessage'[c] <= Len(messages'[c])
<1>1. Grows /\ ConversationsAre'
  BY ConversationsStep
<1>2. \A c \in Requests : /\ Len(messages[c]) \in Nat /\ Len(messages'[c]) \in Nat
                          /\ Len(messages[c]) <= Len(messages'[c])
  BY <1>1 DEF Grows, ConversationsAre
<1>3. \A c \in Requests : lastMessage[c] <= Len(messages'[c])
  BY <1>2 DEF CursorsAre
<1>4. CASE UNCHANGED <<lastMessage, sentAt>>
  BY <1>3, <1>4 DEF CursorsAre
<1>5. ASSUME NEW c \in Requests, NEW u, AppendMessage(r, c, u)
      PROVE  UNCHANGED lastMessage /\ sentAt' \in [Requests -> Nat]
  BY <1>2, <1>5 DEF AppendMessage, CursorsAre
<1>6. ASSUME NEW c \in Requests, TouchConversation(r, c), sentAt[r] \in 0..Len(messages[c])
      PROVE  /\ UNCHANGED sentAt /\ lastMessage' \in [Requests -> Nat]
             /\ \A d \in Requests : lastMessage'[d] <= Len(messages'[d])
  <2>1. sentAt[r] \in Nat /\ sentAt[r] <= Len(messages'[c])
    BY <1>2, <1>6
  <2>2. /\ lastMessage'[c] = sentAt[r]
        /\ \A d \in Requests \ {c} : lastMessage'[d] = lastMessage[d]
    BY <1>6 DEF TouchConversation, CursorsAre
  <2> QED
    BY <1>3, <1>6, <2>1, <2>2 DEF TouchConversation, CursorsAre
<1>7. CASE Post(r)
  <2>1. PICK c \in Requests, u \in Users : c = call[r].conversation /\ u = call[r].user
    BY <1>7, MailCall DEF Post
  <2> QED
    BY <1>3, <1>5, <1>7, <2>1 DEF Post, CursorsAre
<1>8. CASE Touch(r)
  <2>1. PICK c \in Requests : c = call[r].conversation
    BY <1>8, MailCall DEF Touch
  <2>2. sentAt[r] \in 0..Len(messages[c])
    BY <1>8, <2>1 DEF Touch, Known, ChatKnown
  <2> QED
    BY <1>6, <1>8, <2>1, <2>2 DEF Touch, CursorsAre
<1>9. CASE PostFirst(r)
  <2>1. inbox[r] \in Requests
    BY <1>9 DEF PostFirst, Known, TripKnown, Opened
  <2>2. PICK c \in Requests : c = inbox[r]
    BY <2>1
  <2> QED
    BY <1>3, <1>4, <1>5, <1>9, <2>2 DEF PostFirst, CursorsAre, messaging
<1>10. CASE TouchInbox(r)
  <2>1. inbox[r] \in Requests /\ sentAt[r] \in 0..Len(messages[inbox[r]])
    BY <1>10 DEF TouchInbox, Known, TripKnown, Opened
  <2>2. PICK c \in Requests : c = inbox[r]
    BY <2>1
  <2> QED
    BY <1>6, <1>10, <2>1, <2>2 DEF TouchInbox, CursorsAre
<1> QED
  BY <1>4, <1>7, <1>8, <1>9, <1>10, MessageChanges DEF messaging

LEMMA CursorsStep ==
  ASSUME Path, ConversationsAre, Known, CursorsAre, NEW r \in Requests, StepOfSocial(r)
  PROVE  CursorsAre'
<1>1. Grows /\ ConversationsAre'
  BY ConversationsStep
<1>2. \A c \in Requests : /\ Len(messages[c]) \in Nat /\ Len(messages'[c]) \in Nat
                          /\ Len(messages[c]) <= Len(messages'[c])
  BY <1>1 DEF Grows, ConversationsAre
<1>3. \A c \in Requests, u \in Users : ~In(c, u)' => ~In(c, u)
  BY <1>1 DEF Grows
<1>4. /\ \A c \in Requests : staffReadTo[c] <= Len(messages'[c])
      /\ \A c \in Requests, u \in Users : /\ readTo[c][u] <= Len(messages'[c])
                                          /\ ~In(c, u)' => readTo[c][u] = 0
  <2>1. \A c \in Requests : staffReadTo[c] \in Nat /\ staffReadTo[c] <= Len(messages[c])
    BY DEF CursorsAre
  <2>2. \A c \in Requests, u \in Users : readTo[c][u] \in Nat /\ readTo[c][u] <= Len(messages[c])
    BY DEF CursorsAre
  <2>3. \A c \in Requests, u \in Users : ~In(c, u)' => readTo[c][u] = 0
    BY <1>3 DEF CursorsAre
  <2>4. \A n, k, l \in Nat : n <= k /\ k <= l => n <= l
    OBVIOUS
  <2>5. \A c \in Requests : staffReadTo[c] <= Len(messages'[c])
    BY <1>2, <2>1, <2>4
  <2>6. \A c \in Requests, u \in Users : readTo[c][u] <= Len(messages'[c])
    BY <1>2, <2>2, <2>4
  <2> QED
    BY <2>3, <2>5, <2>6
<1>5. CASE UNCHANGED <<readTo, staffReadTo>>
  BY <1>4, <1>5, TimesStep DEF CursorsAre
<1>6. CASE Cursor(r)
  <2>1. PICK c \in Requests, u \in Users : c = call[r].conversation /\ u = call[r].user
    BY <1>6, MailCall DEF Cursor
  <2>2. CASE In(c, u)
    <3>1. readTo' = [readTo EXCEPT ![c] = [readTo[c] EXCEPT ![u] = Len(messages[c])]]
          /\ UNCHANGED staffReadTo
      BY <1>6, <2>1, <2>2 DEF Cursor, In
    <3>2. /\ readTo' \in [Requests -> [Users -> Nat]]
          /\ readTo'[c][u] = Len(messages[c])
          /\ \A d \in Requests, v \in Users : d # c \/ v # u => readTo'[d][v] = readTo[d][v]
      BY <1>2, <3>1 DEF CursorsAre
    <3>3. In(c, u)'
      BY <1>1, <2>2 DEF Grows
    <3>4. \A d \in Requests, v \in Users : /\ readTo'[d][v] <= Len(messages'[d])
                                           /\ ~In(d, v)' => readTo'[d][v] = 0
      <4> TAKE d \in Requests, v \in Users
      <4>1. CASE d = c /\ v = u
        BY <1>2, <3>2, <3>3, <4>1
      <4>2. CASE d # c \/ v # u
        BY <1>4, <3>2, <4>2
      <4> QED
        BY <4>1, <4>2
    <3> QED
      BY <1>4, <3>1, <3>2, <3>4, TimesStep DEF CursorsAre
  <2>3. CASE ~In(c, u)
    <3>1. staffReadTo' = [staffReadTo EXCEPT ![c] = Len(messages[c])] /\ UNCHANGED readTo
      BY <1>6, <2>1, <2>3 DEF Cursor, In
    <3>2. /\ staffReadTo' \in [Requests -> Nat]
          /\ staffReadTo'[c] = Len(messages[c])
          /\ \A d \in Requests \ {c} : staffReadTo'[d] = staffReadTo[d]
      BY <1>2, <3>1 DEF CursorsAre
    <3>3. \A d \in Requests : staffReadTo'[d] <= Len(messages'[d])
      BY <1>2, <1>4, <3>2
    <3> QED
      BY <1>4, <3>1, <3>2, <3>3, TimesStep DEF CursorsAre
  <2> QED
    BY <2>2, <2>3
<1>7. CASE Deliver(r) \/ Receipt(r)
  BY <1>5, <1>7 DEF Deliver, Receipt
<1> QED
  BY <1>5, <1>6, <1>7, ReceiptChanges DEF receipting

LEMMA ReceiptsStep ==
  ASSUME Path, ConversationsAre, Known, ReceiptsAre, NEW r \in Requests, StepOfSocial(r)
  PROVE  ReceiptsAre'
<1>1. Grows
  BY ConversationsStep
<1>2. \A o \in Requests : todo'[o] \subseteq Users \cup Nat
  <2>1. CASE UNCHANGED todo
    BY <2>1 DEF ReceiptsAre
  <2>2. ASSUME NEW set \in SUBSET (todo[r] \cup Users \cup Nat), Todo(r, set)
        PROVE  \A o \in Requests : todo'[o] \subseteq Users \cup Nat
    BY <2>2 DEF ReceiptsAre, Known, Todo
  <2> QED
    BY <2>1, <2>2, TodoChanges
<1>3. \A x \in receipts : x \in Requests \X Nat \X Users /\ x[2] \in Positions(x[1])'
  BY <1>1 DEF ReceiptsAre, Grows
<1>4. CASE UNCHANGED <<receipts, readReceipts>>
  BY <1>2, <1>3, <1>4 DEF ReceiptsAre, Positions
<1>5. CASE Deliver(r) \/ Receipt(r)
  <2>1. PICK c \in Requests, u \in Users : c = call[r].conversation /\ u = call[r].user
    BY <1>5, MailCall DEF Deliver, Receipt
  <2>2. todo[r] \subseteq Positions(c)
    BY <1>5, <2>1 DEF Deliver, Receipt, Known, ChatKnown
  <2>3. Positions(c) \subseteq Nat /\ Positions(c) \subseteq Positions(c)'
    BY <1>1 DEF Positions, ConversationsAre, Grows
  <2>4. \A x \in ReceiptsOf(r) : x \in Requests \X Nat \X Users /\ x[2] \in Positions(x[1])'
    BY <2>1, <2>2, <2>3 DEF ReceiptsOf
  <2>5. PICK done \in SUBSET ReceiptsOf(r) :
          /\ receipts' = receipts \cup done
          /\ readReceipts' = readReceipts \/ readReceipts' = readReceipts \cup done
    BY <1>5 DEF Deliver, Receipt
  <2> QED
    BY <1>2, <1>3, <2>4, <2>5 DEF ReceiptsAre
<1>6. CASE Cursor(r)
  BY <1>4, <1>6 DEF Cursor
<1> QED
  BY <1>4, <1>5, <1>6, ReceiptChanges DEF receipting

-----------------------------------------------------------------------------
(* The rest of the types.                                                  *)
GroupIs ==
  /\ members \in [Users -> Members \cup {None}]
  /\ contributions \in Ledger /\ expenses \in Ledger /\ withdrawals \in Ledger
  /\ memberRow \in [Requests -> Requests \cup {Creator, None}]

LocalsAre ==
  /\ load \in Loads
  /\ \A r \in Requests : call[r] \in Script[load][r] \cup {None}
  /\ answering \in [Requests -> Requests \cup {None}]
  /\ chatSeen \in [Requests -> Requests \cup {None}]
  /\ inbox \in [Requests -> Requests \cup {None}]

(* What the calls of the group trips service are at their steps.           *)
LEMMA GroupCall ==
  ASSUME Path, NEW r \in Requests, pc[r] \in GroupSteps
  PROVE  /\ call[r] \in GroupCalls /\ pc[r] \in StepsOf(call[r].op) /\ call[r].user \in Users
         /\ pc[r] \in {"findMember", "checkFriend", "insertMember", "chatAccess", "chatFriends",
                       "chatJoin", "chatCreate", "memberTarget", "deleteMember", "chatTarget",
                       "chatLeave", "permit"} => call[r].other \in Users
         /\ pc[r] = "permit" => call[r].may \in BOOLEAN
         /\ pc[r] = "record" => \/ call[r].op = "contribute" /\ call[r].amount \in Amounts
                                \/ /\ call[r].op = "spend" /\ call[r].amount \in Amounts
                                   /\ call[r].payer \in Users
         /\ pc[r] = "requestWithdrawal" => call[r].amount \in Amounts
         /\ pc[r] = "unspend" => call[r].expense \in Requests
<1>1. call[r] \in GroupCalls /\ pc[r] \in StepsOf(call[r].op)
  BY KindOfStep DEF Path, OnPath, Answered, GroupSteps
<1> QED
  BY <1>1, GroupFields DEF StepsOf

LEMMA GroupStays ==
  ASSUME Path, GroupIs, NEW r \in Requests, StepOfSocial(r)
  PROVE  GroupIs'
<1> USE DEF groupTrip, group, groupLocal, money
<1>1. CASE UNCHANGED groupTrip
  BY <1>1 DEF GroupIs, Ledger
<1>2. CASE GroupStep(r) /\ pc[r] \in GroupSteps
  <2>1. call[r] \in GroupCalls /\ call[r].user \in Users
    BY <1>2, GroupCall
  <2>2. CASE InsertMember(r)
    <3>1. call[r].other \in Users
      BY <2>2, <1>2, GroupCall DEF InsertMember
    <3>2. [id |-> r, role |-> "member", canWithdraw |-> FALSE] \in Members
      BY DEF Members
    <3> QED
      BY <2>2, <3>1, <3>2 DEF InsertMember, GroupIs, Ledger
  <2>3. CASE DeleteMember(r)
    BY <2>3 DEF DeleteMember, GroupIs, Ledger
  <2>4. CASE MemberTarget(r)
    <3>1. call[r].other \in Users
      BY <2>4, <1>2, GroupCall DEF MemberTarget
    <3>2. members[call[r].other] # None => members[call[r].other].id \in Requests \cup {Creator}
      BY <3>1 DEF GroupIs, Members
    <3> QED
      BY <2>4, <3>2 DEF MemberTarget, GroupIs, Ledger, IsMember
  <2>5. CASE Permit(r)
    <3>1. call[r].other \in Users /\ call[r].may \in BOOLEAN
      BY <2>5, <1>2, GroupCall DEF Permit
    <3>2. PICK u \in Users, may \in BOOLEAN : u = call[r].other /\ may = call[r].may
      BY <3>1
    <3>3. CASE members[u] # None
      <4>1. [members[u] EXCEPT !.canWithdraw = may] \in Members
        BY <3>3 DEF GroupIs, Members
      <4>2. members' = members
              \/ members' = [members EXCEPT ![u] = [members[u] EXCEPT !.canWithdraw = may]]
        BY <2>5, <3>2 DEF Permit
      <4> QED
        BY <2>5, <4>1, <4>2 DEF Permit, GroupIs, Ledger
    <3>4. CASE members[u] = None
      BY <2>5, <3>2, <3>4 DEF Permit, RowIsThere, IsMember, GroupIs, Ledger
    <3> QED
      BY <3>3, <3>4
  <2>6. CASE Record(r)
    <3>1. \/ /\ call[r].op = "contribute"
             /\ [user |-> call[r].user, amount |-> call[r].amount] \in Entries
          \/ /\ call[r].op # "contribute"
             /\ [user |-> call[r].payer, amount |-> call[r].amount] \in Entries
      BY <2>1, <2>6, <1>2, GroupCall DEF Record, Entries
    <3> QED
      BY <2>6, <3>1 DEF Record, GroupIs, Ledger
  <2>7. CASE RequestWithdrawal(r)
    <3>1. [user |-> call[r].user, amount |-> call[r].amount] \in Entries
      BY <2>1, <2>7, <1>2, GroupCall DEF RequestWithdrawal, Entries
    <3> QED
      BY <2>7, <3>1 DEF RequestWithdrawal, GroupIs, Ledger
  <2>8. CASE Unspend(r)
    BY <2>8 DEF Unspend, GroupIs, Ledger
  <2>9. CASE \/ ReadCampaign(r) \/ FindMember(r) \/ CheckFriend(r) \/ ChatFriends(r)
             \/ ChatCreate(r) \/ Link(r) \/ ChatAccess(r) \/ ChatJoin(r)
    BY <2>9 DEF ReadCampaign, FindMember, CheckFriend, ChatFriends, ChatCreate, Link,
       ChatAccess, ChatJoin, GroupIs, Ledger
  <2>10. CASE ChatTarget(r) \/ ChatLeave(r) \/ Payer(r) \/ Sums(r)
    BY <2>10 DEF ChatTarget, ChatLeave, Payer, Sums, GroupIs, Ledger
  <2>11. CASE ReceiveGroup(r)
    BY <2>11 DEF ReceiveGroup, GroupIs, Ledger
  <2> QED
    BY <1>2, <2>2, <2>3, <2>4, <2>5, <2>6, <2>7, <2>8, <2>9, <2>10, <2>11 DEF GroupStep
<1>3. CASE ReceiveGroup(r)
  BY <1>1, <1>3 DEF ReceiveGroup
<1> QED
  BY <1>1, <1>2, <1>3, StepsInService DEF StepOfSocial, Fail, tables

(* Whether it is received or moved on, a call is one of the script.        *)
LEMMA CallFromScript ==
  ASSUME Path, NEW r \in Requests, StepOfSocial(r),
         \A o \in Requests : call[o] \in Script[load][o] \cup {None}
  PROVE  \A o \in Requests : call'[o] \in Script[load'][o] \cup {None}
<1>1. Proceeds(r)
  BY SocialMoves
<1>2. CASE pc[r] # "idle"
  BY <1>1, <1>2 DEF Proceeds, StepOf
<1>3. CASE pc[r] = "idle"
  <2>1. pc[r] \notin FriendSteps \cup ChatSteps \cup GroupSteps \cup TripSteps
    BY <1>3 DEF FriendSteps, ChatSteps, GroupSteps, TripSteps
  <2>2. ReceiveFriend(r) \/ ReceiveChat(r) \/ ReceiveGroup(r) \/ ReceiveTrip(r)
    BY <1>3, <2>1, StepsInService DEF StepOfSocial, Fail, Break, Active
  <2>3. call'[r] \in Script[load][r]
    BY <2>2 DEF ReceiveFriend, ReceiveChat, ReceiveGroup, ReceiveTrip, Begin, Path
  <2> QED
    BY <1>1, <2>3 DEF Proceeds, StepOf
<1> QED
  BY <1>2, <1>3

LEMMA LocalsStep ==
  ASSUME Path, LocalsAre, conversation \in Requests \cup {None},
         NEW r \in Requests, StepOfSocial(r)
  PROVE  LocalsAre'
<1>1. UNCHANGED load /\ \A o \in Requests : call'[o] \in Script[load'][o] \cup {None}
  BY SocialMoves, CallFromScript DEF LocalsAre, Proceeds, StepOf
<1>2. answering' \in [Requests -> Requests \cup {None}]
  <2>1. CASE FriendsStep(r)
    BY <2>1 DEF FriendsStep, ReceiveFriend, FindOpen, CreateRequest, FindPending, Respond,
       FindAccepted, DeleteRequest, friendship, LocalsAre, FriendRequestIds, Accepted, Between
  <2>2. CASE UNCHANGED friendship
    BY <2>2 DEF friendship, LocalsAre
  <2> QED
    BY <2>1, <2>2 DEF StepOfSocial, Fail, tables
<1>3. chatSeen' \in [Requests -> Requests \cup {None}]
  <2>1. CASE GroupStep(r)
    <3>1. UNCHANGED chatSeen \/ chatSeen' = [chatSeen EXCEPT ![r] = conversation]
      BY <2>1 DEF GroupStep, ReceiveGroup, ReadCampaign, FindMember, CheckFriend, InsertMember,
     ChatFriends, ChatCreate, Link, ChatAccess, ChatJoin, MemberTarget, DeleteMember, groupLocal,
     ChatTarget, ChatLeave, Permit, Payer, Record, Unspend, Sums, RequestWithdrawal
    <3> QED
      BY <3>1 DEF LocalsAre
  <2>2. CASE UNCHANGED groupTrip
    BY <2>2 DEF groupTrip, groupLocal, LocalsAre
  <2> QED
    BY <2>1, <2>2 DEF StepOfSocial, Fail, tables
<1>4. inbox' \in [Requests -> Requests \cup {None}]
  <2>1. CASE TripStep(r)
    <3>1. UNCHANGED inbox \/ \E c \in Requests : inbox' = [inbox EXCEPT ![r] = c]
      BY <2>1 DEF TripStep, ReceiveTrip, CheckTrip, FindInbox, OpenInbox, InsertTrip,
       PostFirst, TouchInbox, UpdateTrip, InboxOf, Opened
    <3> QED
      BY <3>1 DEF LocalsAre
  <2>2. CASE UNCHANGED tripRequesting
    BY <2>2 DEF tripRequesting, LocalsAre
  <2> QED
    BY <2>1, <2>2 DEF StepOfSocial, Fail, tables
<1> QED
  BY <1>1, <1>2, <1>3, <1>4 DEF LocalsAre

-----------------------------------------------------------------------------
(* What holds of conversations, calls and tables whatever overlaps.        *)
SocialInv ==
  /\ Path /\ ConversationsAre /\ Known
  /\ CursorsAre /\ ReceiptsAre /\ GroupIs /\ LocalsAre

LEMMA SocialStep ==
  ASSUME SocialInv, NEW r \in Requests, StepOfSocial(r)
  PROVE  SocialInv'
<1>1. conversation \in Requests \cup {None}
  BY DEF SocialInv, Known, IsGroup, Opened
<1> QED
  BY <1>1, SocialMoves, ConversationsStep, KnownStep, CursorsStep, ReceiptsStep, GroupStays,
     LocalsStep DEF SocialInv

LEMMA SocialStutters ==
  ASSUME SocialInv, UNCHANGED vars
  PROVE  SocialInv'
<1> USE DEF vars, calls, tables, friendship, chat, mail, messaging, receipting, groupTrip, group,
        money, groupLocal, tripRequesting, trips
<1>1. Path'
  BY DEF SocialInv, Path, OnPath
<1>2. Opened' = Opened
  BY DEF Opened
<1>3. ConversationsAre'
  BY <1>2 DEF SocialInv, ConversationsAre, In
<1>4. /\ \A c : IsGroup(c)' = IsGroup(c) /\ Positions(c)' = Positions(c)
      /\ \A c, u : In(c, u)' = In(c, u) /\ IsStaff(c, u)' = IsStaff(c, u)
  BY <1>2 DEF IsGroup, Positions, In, IsStaff
<1>5. Known'
  <2>1. \A r \in Requests : ChatKnown(r)'
    BY <1>2, <1>4 DEF SocialInv, Known, ChatKnown
  <2>2. \A r \in Requests : GroupKnown(r)'
    BY <1>4 DEF SocialInv, Known, GroupKnown
  <2>3. \A r \in Requests : TripKnown(r)'
    BY <1>2 DEF SocialInv, Known, TripKnown
  <2> QED
    BY <1>4, <2>1, <2>2, <2>3 DEF SocialInv, Known
<1>6. CursorsAre' /\ ReceiptsAre'
  BY <1>4 DEF SocialInv, CursorsAre, ReceiptsAre
<1>7. GroupIs' /\ LocalsAre'
  BY DEF SocialInv, GroupIs, LocalsAre, Ledger
<1> QED
  BY <1>1, <1>3, <1>5, <1>6, <1>7 DEF SocialInv

LEMMA InitSocial == Init => SocialInv
<1> SUFFICES ASSUME Init PROVE SocialInv
  OBVIOUS
<1> USE DEF Init, CallsInit, FriendsInit, ChatStoreInit, ChatInit, GroupInit, TripInit
<1>1. Path
  BY DEF Path, OnPath
<1>2. Opened = {} /\ \A c \in Requests, u \in Users : ~In(c, u)
  BY DEF Opened, In
<1>3. ConversationsAre
  BY <1>2 DEF ConversationsAre
<1>4. Known
  BY DEF Known, ChatKnown, GroupKnown, TripKnown
<1>5. CursorsAre
  BY DEF CursorsAre
<1>6. ReceiptsAre /\ LocalsAre
  BY DEF ReceiptsAre, LocalsAre
<1>7. GroupIs
  BY GroupAssumption DEF GroupIs, Ledger, Members
<1> QED
  BY <1>1, <1>3, <1>4, <1>5, <1>6, <1>7 DEF SocialInv

LEMMA SocialTypes ==
  ASSUME SocialInv, FriendsInv, TripsInv
  PROVE  TypeOK
<1>1. pc \in [Requests -> {"idle"} \cup Answered
                \cup FriendSteps \cup ChatSteps \cup GroupSteps \cup TripSteps]
  <2>1. ASSUME NEW r \in Requests
        PROVE  pc[r] \in {"idle"} \cup Answered \cup FriendSteps \cup ChatSteps
                           \cup GroupSteps \cup TripSteps
    BY KindOfStep DEF SocialInv, Path, OnPath, SocialCalls
  <2> QED
    BY <2>1 DEF SocialInv, Path
<1>2. \A c \in Requests : TimesOf(c) \subseteq 0..Len(messages[c])
  <2>1. \A c \in Requests : Len(messages[c]) \in Nat
    BY DEF SocialInv, ConversationsAre
  <2> QED
    BY <2>1 DEF SocialInv, CursorsAre, TimesOf
<1>3. conversation \in Opened \cup {None}
  BY DEF SocialInv, Known, IsGroup
<1>4. inbox \in [Requests -> Opened \cup {None}]
  <2>1. \A r \in Requests : inbox[r] \in Opened \cup {None}
    BY DEF SocialInv, Known, TripKnown
  <2> QED
    BY <2>1 DEF SocialInv, LocalsAre
<1>5. receipts \subseteq Requests \X Nat \X Users /\ (\A x \in receipts : x[2] \in Positions(x[1]))
      /\ readReceipts \subseteq receipts /\ \A r \in Requests : todo[r] \subseteq Users \cup Nat
  BY DEF SocialInv, ReceiptsAre
<1> QED
  BY <1>1, <1>2, <1>3, <1>4, <1>5
  DEF TypeOK, SocialInv, ConversationsAre, CursorsAre, GroupIs, LocalsAre, FriendsInv, TripsInv

-----------------------------------------------------------------------------
(* What a call has read, and who may have changed it before the call       *)
(* writes.                                                                 *)
FriendMet(r) ==
  pc[r] = "respond" =>
    /\ call[r].row = answering[r]
    /\ \/ friendRequests[answering[r]] = None
       \/ friendRequests[answering[r]].status = "pending"
       \/ \E o \in Rivals(r) : Answers(call[o], answering[r])

StatusOf(c) == IF c.op = "update" THEN c.status ELSE "cancelled"

TripMet(r) ==
  pc[r] = "updateTrip" =>
    \E was \in past[call[r].request] :
      /\ Follows(was, StatusOf(call[r]))
      /\ \/ tripRequests[call[r].request].status = was
         \/ \E o \in Rivals(r) : Moves(call[o], call[r].request)

OpenMet(r) ==
  /\ pc[r] = "openConversation" /\ call[r].op = "direct" =>
       DirectOf(call[r].user, call[r].other) \cap earlier[r] = {}
  /\ pc[r] = "openConversation" /\ call[r].op = "agency" =>
       InboxOf(call[r].user, call[r].agency) \cap earlier[r] = {}
  /\ pc[r] = "openInbox" => InboxOf(call[r].user, call[r].agency) \cap earlier[r] = {}

(* In, for a participant who has left stays in the table.                  *)
MayPost(r, c, u) ==
  \/ HasAccess(c, u)
  \/ In(c, u) /\ \E o \in Rivals(r) : Expels(call[o], u)

PostMet(r) == pc[r] = "post" => MayPost(r, call[r].conversation, call[r].user)

SentMet(r, c, i) == \E s \in Rivals(r) : Sent(s, c, i)

MailMet(r) ==
  /\ pc[r] = "receipt" =>
       \A i \in OfOthers(call[r].conversation, call[r].user) :
         i \in todo[r] \/ SentMet(r, call[r].conversation, i)
  /\ pc[r] = "cursor" =>
       \A i \in OfOthers(call[r].conversation, call[r].user) :
         \/ <<call[r].conversation, i, call[r].user>> \in readReceipts
         \/ SentMet(r, call[r].conversation, i)

GroupMet(r) ==
  /\ pc[r] \in GroupSteps \ {"readCampaign"} =>
       chatSeen[r] = conversation \/ conversation \in Rivals(r)
  /\ pc[r] \in {"chatCreate", "link"} => chatSeen[r] = None

(* A call sends one message, at its end; and the chat of the trip was      *)
(* opened by a call that added a member.                                   *)
SendsOnce(r) == sentAt[r] # 0 => pc[r] \in {"touch", "touchInbox"} \cup Answered

OpenedByAdding ==
  conversation # None => pc[conversation] # "idle" /\ call[conversation].op = "addMember"

Base == SocialInv /\ FriendsInv /\ TripsInv /\ EarlierIsOver

Met ==
  /\ OpenedByAdding
  /\ \A r \in Requests : /\ FriendMet(r) /\ TripMet(r) /\ OpenMet(r) /\ PostMet(r)
                         /\ MailMet(r) /\ GroupMet(r) /\ SendsOnce(r)

(* Calls that a step is not of, and the call that it is of.                *)
LEMMA OthersStay ==
  ASSUME Base, NEW r \in Requests, StepOfSocial(r), NEW q \in Requests \ {r}
  PROVE  /\ pc'[q] = pc[q] /\ call'[q] = call[q] /\ earlier'[q] = earlier[q]
         /\ r \in Rivals(q)' /\ r \notin earlier[q]
         /\ \A o \in Rivals(q) : o \in Rivals(q)' /\ call'[o] = call[o]
<1>1. StepOf(r)
  BY SocialMoves DEF Base, SocialInv, Proceeds
<1>2. r \in Rivals(q)' /\ Rivals(q) \subseteq Rivals(q)' /\ earlier'[q] = earlier[q]
  BY <1>1, OthersMeet DEF Base
<1>3. r \notin earlier[q]
  BY <1>1, <1>2 DEF Rivals
<1>4. \A o \in Rivals(q) : call'[o] = call[o]
  BY <1>1 DEF Rivals, StepOf
<1> QED
  BY <1>1, <1>2, <1>3, <1>4 DEF StepOf

LEMMA MoverStays ==
  ASSUME Base, NEW r \in Requests, StepOfSocial(r), pc[r] # "idle", pc'[r] \notin Answered
  PROVE  /\ call'[r] = call[r] /\ earlier'[r] = earlier[r]
         /\ \A o \in Rivals(r) : o \in Rivals(r)' /\ call'[o] = call[o]
<1>1. StepOf(r)
  BY SocialMoves DEF Base, SocialInv, Proceeds
<1>2. Rivals(r) \subseteq Rivals(r)' /\ earlier'[r] = earlier[r]
  BY <1>1, RivalsStay DEF Base
<1>3. \A o \in Rivals(r) : call'[o] = call[o]
  BY <1>1 DEF Rivals, StepOf
<1> QED
  BY <1>1, <1>2, <1>3 DEF StepOf

(* The service whose steps a call has come to has taken the step.          *)
LEMMA ServiceOf ==
  ASSUME Base, NEW r \in Requests, StepOfSocial(r)
  PROVE  /\ pc'[r] \in FriendSteps =>
              FriendsStep(r) /\ UNCHANGED <<chat, mail, groupTrip, tripRequesting>>
         /\ pc'[r] \in ChatSteps =>
              ChatStep(r) /\ UNCHANGED <<friendship, groupTrip, tripRequesting>>
         /\ pc'[r] \in GroupSteps =>
              GroupStep(r) /\ UNCHANGED <<friendship, mail, tripRequesting>>
         /\ pc'[r] \in TripSteps =>
              TripStep(r) /\ UNCHANGED <<friendship, receipting, todo, groupTrip>>
<1>1. Path
  BY DEF Base, SocialInv
<1>2. Fail(r) => pc'[r] \in Answered
  BY <1>1 DEF Fail, Break, Goto, Path, Answered
<1>3. /\ FriendSteps \cap (ChatSteps \cup GroupSteps \cup TripSteps \cup Answered) = {}
      /\ ChatSteps \cap (GroupSteps \cup TripSteps \cup Answered) = {}
      /\ GroupSteps \cap (TripSteps \cup Answered) = {}
      /\ TripSteps \cap Answered = {}
  BY DEF FriendSteps, ChatSteps, GroupSteps, TripSteps, Answered
<1> QED
  BY <1>1, <1>2, <1>3, ServiceStays DEF StepOfSocial

-----------------------------------------------------------------------------
(* Friend requests.                                                        *)
LEMMA FriendChanges ==
  ASSUME FriendsInv, NEW r \in Requests, StepOfSocial(r)
  PROVE  /\ UNCHANGED friendRequests \/ Rewrites(r)
         /\ \A o \in Requests \ {r} : answering'[o] = answering[o]
<1>1. CASE UNCHANGED friendship
  BY <1>1 DEF friendship
<1>2. CASE ReceiveFriend(r) \/ FindOpen(r) \/ FindPending(r) \/ FindAccepted(r)
  <2>1. \A o \in Requests \ {r} : answering'[o] = answering[o]
    BY <1>2 DEF FriendsInv, ReceiveFriend, FindOpen, FindPending, FindAccepted, friendship
  <2> QED
    BY <1>2, <2>1, FriendReads
<1>3. CASE CreateRequest(r) \/ Respond(r) \/ DeleteRequest(r)
  <2>1. UNCHANGED answering
    BY <1>3 DEF CreateRequest, Respond, DeleteRequest
  <2> QED
    BY <1>3, <2>1, FriendWrites
<1> QED
  BY <1>1, <1>2, <1>3 DEF StepOfSocial, FriendsStep, Fail, tables

(* A call that answers a row names it.                                     *)
LEMMA AnswersItsRow ==
  ASSUME Base, NEW r \in Requests, pc[r] = "respond", FriendMet(r)
  PROVE  answering[r] \in Requests /\ Answers(call[r], answering[r])
<1>1. Befriending(r)
  BY DEF Base, FriendsInv
<1> QED
  BY <1>1 DEF Befriending, FriendMet, Answers

LEMMA OthersFriendMet ==
  ASSUME Base, NEW r \in Requests, StepOfSocial(r), FriendMet(r),
         NEW q \in Requests \ {r}, FriendMet(q)
  PROVE  FriendMet(q)'
<1> SUFFICES ASSUME pc[q] = "respond" PROVE FriendMet(q)'
  BY OthersStay DEF FriendMet
<1>1. /\ pc'[q] = pc[q] /\ call'[q] = call[q] /\ answering'[q] = answering[q]
      /\ r \in Rivals(q)' /\ \A o \in Rivals(q) : o \in Rivals(q)' /\ call'[o] = call[o]
  BY OthersStay, FriendChanges DEF Base
<1>2. PICK x \in Requests : x = answering[q]
  BY AnswersItsRow
<1>3. call[q].row = x
  BY <1>2 DEF FriendMet
<1>4. CASE \E o \in Rivals(q) : Answers(call[o], x)
  <2>1. \E o \in Rivals(q)' : Answers(call'[o], x)
    BY <1>1, <1>4
  <2> QED
    BY <1>1, <1>2, <1>3, <2>1 DEF FriendMet, Answers
<1>5. CASE friendRequests[x] = None \/ friendRequests[x].status = "pending"
  <2>1. CASE /\ pc[r] = "respond" /\ x = answering[r] /\ friendRequests[x] # None
    <3>1. Answers(call[r], x) /\ call'[r] = call[r]
      BY <2>1, AnswersItsRow, SocialMoves DEF Base, SocialInv, Proceeds, StepOf
    <3>2. \E o \in Rivals(q)' : Answers(call'[o], x)
      BY <1>1, <3>1
    <3> QED
      BY <1>1, <1>2, <1>3, <3>2 DEF FriendMet, Answers
  <2>2. CASE ~(pc[r] = "respond" /\ x = answering[r] /\ friendRequests[x] # None)
    <3>1. friendRequests'[x] = None \/ friendRequests'[x].status = "pending"
      BY <1>5, <2>2, FriendChanges DEF Rewrites, Base
    <3> QED
      BY <1>1, <1>2, <1>3, <3>1 DEF FriendMet
  <2> QED
    BY <2>1, <2>2
<1> QED
  BY <1>2, <1>4, <1>5 DEF FriendMet

LEMMA MoverFriendMet ==
  ASSUME Base, NEW r \in Requests, StepOfSocial(r)
  PROVE  FriendMet(r)'
<1> SUFFICES ASSUME pc'[r] = "respond" PROVE FriendMet(r)'
  BY DEF FriendMet
<1>1. FriendsStep(r) /\ Path
  BY ServiceOf DEF FriendSteps, Base, SocialInv
<1>2. FindPending(r)
  BY <1>1 DEF FriendsStep, ReceiveFriend, StartAt, FirstFriendStep, FindOpen, CreateRequest,
     Respond, FindAccepted, DeleteRequest, Goto, Path
<1>3. /\ call' = call /\ answering'[r] = call[r].row /\ UNCHANGED friendRequests
      /\ friendRequests[call[r].row].status = "pending"
  BY <1>1, <1>2 DEF FindPending, Goto, Path, Base, FriendsInv, Answerable
<1> QED
  BY <1>3 DEF FriendMet

-----------------------------------------------------------------------------
(* Trip requests.                                                          *)
LEMMA TripChanges ==
  ASSUME NEW r \in Requests, StepOfSocial(r)
  PROVE  UNCHANGED trips \/ InsertTrip(r) \/ UpdateTrip(r)
<1> USE DEF tripRequesting, tables
<1>1. CASE TripStep(r)
  BY <1>1 DEF TripStep, ReceiveTrip, CheckTrip, FindInbox, OpenInbox, PostFirst, TouchInbox
<1> QED
  BY <1>1 DEF StepOfSocial, Fail

(* What a step may do to the requests.                                     *)
Restages(r) ==
  \A x \in Made :
    \/ tripRequests'[x].status = tripRequests[x].status
    \/ /\ pc[r] = "updateTrip" /\ x = call[r].request
       /\ tripRequests'[x].status = StatusOf(call[r])

LEMMA TripsMoved ==
  ASSUME TripsInv, NEW r \in Requests, StepOfSocial(r)
  PROVE  /\ Restages(r)
         /\ \A x \in Made : past[x] \subseteq past'[x]
<1>1. CASE UNCHANGED trips
  BY <1>1 DEF trips, Restages
<1>2. CASE InsertTrip(r)
  <2>1. r \notin Made
    BY <1>2 DEF InsertTrip, TripsInv, Lawful, Making
  <2>2. \A x \in Requests \ {r} : tripRequests'[x] = tripRequests[x] /\ past'[x] = past[x]
    BY <1>2 DEF InsertTrip, TripsInv, trips
  <2> QED
    BY <2>1, <2>2 DEF Made, Restages
<1>3. CASE UpdateTrip(r)
  <2>1. PICK y, s : y = call[r].request /\ s = StatusOf(call[r])
    OBVIOUS
  <2>2. /\ tripRequests' = [tripRequests EXCEPT ![y].status = s]
        /\ past' = [past EXCEPT ![y] = @ \cup {s}] /\ pc[r] = "updateTrip"
    BY <1>3, <2>1 DEF UpdateTrip, StatusOf
  <2>3. \A x \in Made : tripRequests[x] \in TripRequestRows /\ x \in Requests
    BY DEF Made, TripsInv
  <2>4. \A x \in Made : x # y => tripRequests'[x] = tripRequests[x] /\ past'[x] = past[x]
    BY <2>2, <2>3 DEF TripsInv
  <2>5. y \in Made => tripRequests'[y].status = s /\ past'[y] = past[y] \cup {s}
    BY <2>2, <2>3 DEF TripsInv, TripRequestRows
  <2> QED
    BY <2>1, <2>2, <2>4, <2>5 DEF Restages
<1> QED
  BY <1>1, <1>2, <1>3, TripChanges

LEMMA MovesItsRequest ==
  ASSUME Base, NEW r \in Requests, pc[r] = "updateTrip"
  PROVE  call[r].request \in Made /\ Moves(call[r], call[r].request)
<1>1. Travelling(r) /\ call[r] \in TripCalls
  BY DEF Base, TripsInv, Travelling, TripSteps
<1> QED
  BY <1>1, TripFields DEF Travelling, Moves

LEMMA OthersTripMet ==
  ASSUME Base, NEW r \in Requests, StepOfSocial(r), NEW q \in Requests \ {r}, TripMet(q)
  PROVE  TripMet(q)'
<1> SUFFICES ASSUME pc[q] = "updateTrip" PROVE TripMet(q)'
  BY OthersStay DEF TripMet
<1>1. /\ pc'[q] = pc[q] /\ call'[q] = call[q]
      /\ r \in Rivals(q)' /\ \A o \in Rivals(q) : o \in Rivals(q)' /\ call'[o] = call[o]
  BY OthersStay
<1>2. PICK x \in Made : x = call[q].request
  BY MovesItsRequest
<1>3. PICK was \in past[x] :
        /\ Follows(was, StatusOf(call[q]))
        /\ tripRequests[x].status = was \/ \E o \in Rivals(q) : Moves(call[o], x)
  BY <1>2 DEF TripMet
<1>4. was \in past'[x] /\ Restages(r)
  BY TripsMoved DEF Base
<1>5. tripRequests'[x].status = was \/ \E o \in Rivals(q)' : Moves(call'[o], x)
  <2>1. CASE \E o \in Rivals(q) : Moves(call[o], x)
    BY <1>1, <2>1
  <2>2. CASE tripRequests'[x].status = tripRequests[x].status
    BY <1>1, <1>3, <2>2
  <2>3. CASE pc[r] = "updateTrip" /\ x = call[r].request
    <3>1. Moves(call[r], x) /\ call'[r] = call[r]
      BY <2>3, MovesItsRequest, SocialMoves DEF Base, SocialInv, Proceeds, StepOf
    <3> QED
      BY <1>1, <3>1
  <2> QED
    BY <1>4, <2>1, <2>2, <2>3 DEF Restages
<1>6. Follows(was, StatusOf(call'[q]))
  BY <1>1, <1>3
<1>7. /\ TripMet(q)' <=>
         (pc'[q] = "updateTrip" =>
            \E w \in past'[call'[q].request] :
              /\ Follows(w, StatusOf(call'[q]))
              /\ \/ tripRequests'[call'[q].request].status = w
                 \/ \E o \in Rivals(q)' : Moves(call'[o], call'[q].request))
  BY DEF TripMet, Follows, StatusOf, Moves
<1> QED
  BY <1>1, <1>2, <1>4, <1>5, <1>6, <1>7

LEMMA MoverTripMet ==
  ASSUME Base, NEW r \in Requests, StepOfSocial(r)
  PROVE  TripMet(r)'
<1> SUFFICES ASSUME pc'[r] = "updateTrip" PROVE TripMet(r)'
  BY DEF TripMet
<1>1. TripStep(r) /\ Path
  BY ServiceOf DEF TripSteps, Base, SocialInv
<1>2. CheckTrip(r)
  BY <1>1 DEF TripStep, ReceiveTrip, StartAt, FindInbox, OpenInbox, InsertTrip, PostFirst,
     TouchInbox, UpdateTrip, Goto, Path
<1>3. /\ call' = call /\ UNCHANGED trips /\ MayChange(call[r]) /\ call[r].op # "ask"
      /\ call[r] \in TripCalls
  BY <1>1, <1>2 DEF CheckTrip, Goto, Path, Base, TripsInv, Travelling, TripSteps
<1>4. PICK x \in Made : x = call[r].request
  BY <1>3 DEF MayChange
<1>5. tripRequests[x].status \in past[x] /\ tripRequests[x].status \in Statuses
  BY DEF Base, TripsInv, Lawful, Made, TripRequestRows
<1>6. Follows(tripRequests[x].status, StatusOf(call[r]))
  BY <1>3, <1>4, <1>5 DEF MayChange, AllowedTransitions, Statuses, Follows, StatusOf
<1> QED
  BY <1>3, <1>4, <1>5, <1>6 DEF TripMet, trips, Follows, StatusOf, Moves

-----------------------------------------------------------------------------
(* Conversations.                                                          *)

(* Only groups are joined and left.                                        *)
LEMMA RowsOfGroup ==
  ASSUME SocialInv, NEW r \in Requests,
         AddParticipant(r) \/ ChatJoin(r) \/ RemoveParticipant(r) \/ ChatLeave(r)
  PROVE  /\ UNCHANGED conversations
         /\ \E c \in Opened :
              /\ IsGroup(c)
              /\ \A d \in Requests \ {c} : participants'[d] = participants[d]
              /\ \A u \in Users : Live(c, u)' => Live(c, u) \/ ~In(c, u)
<1>1. UNCHANGED conversations
  BY DEF AddParticipant, ChatJoin, RemoveParticipant, ChatLeave
<1>2. PICK c : /\ IsGroup(c)
               /\ (\E us : Join(c, us)) \/ \E u : Leave(c, u)
  <2>1. CASE AddParticipant(r) \/ RemoveParticipant(r)
    <3>1. IsGroup(call[r].conversation)
      BY <2>1 DEF AddParticipant, RemoveParticipant, SocialInv, Known, ChatKnown
    <3> QED
      BY <2>1, <3>1 DEF AddParticipant, RemoveParticipant
  <2>2. CASE ChatJoin(r) \/ ChatLeave(r)
    <3>1. IsGroup(chatSeen[r])
      BY <2>2 DEF ChatJoin, ChatLeave, SocialInv, Known, GroupKnown
    <3> QED
      BY <2>2, <3>1 DEF ChatJoin, ChatLeave
  <2> QED
    BY <2>1, <2>2
<1>3. c \in Opened /\ c \in Requests /\ DOMAIN participants = Requests
      /\ DOMAIN participants[c] = Users
  BY <1>2 DEF IsGroup, Opened, SocialInv, ConversationsAre
<1>4. ASSUME NEW us, Join(c, us)
      PROVE  /\ \A d \in Requests \ {c} : participants'[d] = participants[d]
             /\ \A u \in Users : Live(c, u)' => Live(c, u) \/ ~In(c, u)
  BY <1>3, <1>4 DEF Join, Live, In
<1>5. ASSUME NEW v, Leave(c, v)
      PROVE  /\ \A d \in Requests \ {c} : participants'[d] = participants[d]
             /\ \A u \in Users : Live(c, u)' => Live(c, u) \/ ~In(c, u)
  BY <1>3, <1>5 DEF Leave, Live, In
<1> QED
  BY <1>1, <1>2, <1>3, <1>4, <1>5

(* What a step adds to what a call looks for is the conversation it opens. *)
LEMMA FoundBefore ==
  ASSUME SocialInv, NEW r \in Requests, StepOfSocial(r)
  PROVE  /\ \A u, v \in Users : DirectOf(u, v)' \subseteq DirectOf(u, v) \cup {r}
         /\ \A u \in Users, a \in Agencies : InboxOf(u, a)' \subseteq InboxOf(u, a) \cup {r}
<1>1. Path /\ ConversationsAre
  BY DEF SocialInv
<1>2. CASE UNCHANGED chat
  BY <1>2 DEF DirectOf, InboxOf, Opened, Live, chat
<1>3. CASE AddParticipant(r) \/ ChatJoin(r) \/ RemoveParticipant(r) \/ ChatLeave(r)
  <2>1. PICK c \in Opened :
          /\ IsGroup(c)
          /\ \A d \in Requests \ {c} : participants'[d] = participants[d]
    BY <1>3, RowsOfGroup
  <2>2. UNCHANGED conversations /\ Opened' = Opened
    BY <1>3, RowsOfGroup DEF Opened
  <2>3. conversations[c].type = "group" /\ conversations[c].agency = None
    BY <1>1, <2>1 DEF IsGroup, ConversationsAre
  <2>4. \A u, v \in Users : DirectOf(u, v)' \subseteq DirectOf(u, v)
    BY <2>1, <2>2, <2>3 DEF DirectOf, Live, Opened
  <2>5. \A u \in Users, a \in Agencies : InboxOf(u, a)' \subseteq InboxOf(u, a)
    BY <2>1, <2>2, <2>3, ChatNoneAssumption DEF InboxOf, Live, Opened
  <2> QED
    BY <2>4, <2>5
<1>4. CASE OpenConversation(r) \/ ChatCreate(r) \/ OpenInbox(r)
  <2>1. PICK t, a, admins, others : CreateConversation(r, t, a, admins, others)
    BY <1>1, <1>4, OpensNew
  <2>2. \A c \in Requests \ {r} : conversations'[c] = conversations[c]
                                  /\ participants'[c] = participants[c]
    BY <1>1, <2>1 DEF CreateConversation, ConversationsAre
  <2> QED
    BY <2>2 DEF DirectOf, InboxOf, Opened, Live
<1> QED
  BY <1>2, <1>3, <1>4, ChatChanges

(* What the calls that open a conversation are.                            *)
LEMMA OpenCall ==
  ASSUME SocialInv, NEW r \in Requests
  PROVE  /\ pc[r] = "openConversation" =>
              /\ call[r].op \in {"direct", "group", "agency"} /\ call[r].user \in Users
              /\ call[r].op = "direct" => call[r].other \in Users
              /\ call[r].op = "agency" => call[r].agency \in Agencies
         /\ pc[r] = "openInbox" => call[r].user \in Users /\ call[r].agency \in Agencies
<1>1. OnPath(r)
  BY DEF SocialInv, Path
<1>2. ASSUME pc[r] = "openConversation"
      PROVE  call[r] \in ChatCalls /\ pc[r] \in StepsOf(call[r].op)
  BY <1>1, <1>2, KindOfStep DEF OnPath, Answered, ChatSteps
<1>3. ASSUME pc[r] = "openInbox"
      PROVE  call[r] \in TripCalls /\ pc[r] \in StepsOf(call[r].op)
  BY <1>1, <1>3, KindOfStep DEF OnPath, Answered, TripSteps
<1> QED
  BY <1>2, <1>3, ChatFields, TripFields DEF StepsOf

LEMMA OthersOpenMet ==
  ASSUME Base, NEW r \in Requests, StepOfSocial(r), NEW q \in Requests \ {r}, OpenMet(q)
  PROVE  OpenMet(q)'
<1>1. /\ pc'[q] = pc[q] /\ call'[q] = call[q] /\ earlier'[q] = earlier[q]
      /\ r \notin earlier[q]
  BY OthersStay
<1>2. CASE pc[q] = "openConversation" /\ call[q].op = "direct"
  <2>1. PICK u \in Users, v \in Users : u = call[q].user /\ v = call[q].other
    BY <1>2, OpenCall DEF Base
  <2>2. DirectOf(u, v) \cap earlier[q] = {}
    BY <1>2, <2>1 DEF OpenMet
  <2>3. DirectOf(u, v)' \cap earlier'[q] = {}
    BY <1>1, <2>2, FoundBefore DEF Base
  <2> QED
    BY <1>1, <1>2, <2>1, <2>3 DEF OpenMet
<1>3. CASE \/ pc[q] = "openConversation" /\ call[q].op = "agency"
           \/ pc[q] = "openInbox"
  <2>1. PICK u \in Users, a \in Agencies : u = call[q].user /\ a = call[q].agency
    BY <1>3, OpenCall DEF Base
  <2>2. InboxOf(u, a) \cap earlier[q] = {}
    BY <1>3, <2>1 DEF OpenMet
  <2>3. InboxOf(u, a)' \cap earlier'[q] = {}
    BY <1>1, <2>2, FoundBefore DEF Base
  <2> QED
    BY <1>1, <1>3, <2>1, <2>3 DEF OpenMet
<1>4. CASE /\ pc[q] # "openInbox"
           /\ pc[q] # "openConversation" \/ call[q].op \notin {"direct", "agency"}
  BY <1>1, <1>4 DEF OpenMet
<1> QED
  BY <1>2, <1>3, <1>4

LEMMA MoverOpenMet ==
  ASSUME Base, NEW r \in Requests, StepOfSocial(r)
  PROVE  OpenMet(r)'
<1>1. Path
  BY DEF Base, SocialInv
<1>2. CASE pc'[r] = "openConversation"
  <2>1. ChatStep(r)
    BY <1>2, ServiceOf DEF ChatSteps
  <2>2. FindDirect(r) \/ FindAgency(r) \/ CheckFriends(r)
    BY <1>1, <1>2, <2>1 DEF ChatStep, ReceiveChat, StartAt, FirstChatStep, OpenConversation,
       Access, AfterAccess, AddParticipant, FindTarget, RemoveParticipant, Post, Touch, Page,
       Deliver, Collect, Receipt, Cursor, Goto, Path
  <2>3. call' = call /\ UNCHANGED chat /\ OnPath(r)
    BY <1>1, <2>2 DEF FindDirect, FindAgency, CheckFriends, Goto, calls, Path
  <2>4. pc[r] \in {"findDirect", "findAgency", "checkFriends"}
    BY <2>2 DEF FindDirect, FindAgency, CheckFriends
  <2>5. call[r] \in ChatCalls /\ pc[r] \in StepsOf(call[r].op)
    BY <2>3, <2>4, KindOfStep DEF OnPath, Answered, ChatSteps
  <2>6. CASE FindDirect(r)
    <3>1. call[r].op = "direct" /\ DirectOf(call[r].user, call[r].other) = {}
      BY <1>1, <1>2, <2>5, <2>6, ChatFields DEF FindDirect, StepsOf, Goto, Path
    <3>2. DirectOf(call[r].user, call[r].other)' = {}
      BY <2>3, <3>1 DEF chat, DirectOf, Opened, Live
    <3> QED
      BY <1>2, <2>3, <3>1, <3>2 DEF OpenMet
  <2>7. CASE FindAgency(r)
    <3>1. call[r].op = "agency" /\ InboxOf(call[r].user, call[r].agency) = {}
      BY <1>1, <1>2, <2>5, <2>7, ChatFields DEF FindAgency, StepsOf, Goto, Path
    <3>2. InboxOf(call[r].user, call[r].agency)' = {}
      BY <2>3, <3>1 DEF chat, InboxOf, Opened, Live
    <3> QED
      BY <1>2, <2>3, <3>1, <3>2 DEF OpenMet
  <2>8. CASE CheckFriends(r)
    <3>1. call[r].op = "group"
      BY <1>1, <1>2, <2>5, <2>8, ChatFields DEF CheckFriends, StepsOf, Goto, Path, calls
    <3> QED
      BY <1>2, <2>3, <3>1 DEF OpenMet
  <2> QED
    BY <2>2, <2>6, <2>7, <2>8
<1>3. CASE pc'[r] = "openInbox"
  <2>1. TripStep(r)
    BY <1>3, ServiceOf DEF TripSteps
  <2>2. FindInbox(r)
    BY <1>1, <1>3, <2>1 DEF TripStep, ReceiveTrip, StartAt, CheckTrip, OpenInbox, InsertTrip,
       PostFirst, TouchInbox, UpdateTrip, Goto, Path
  <2>3. call' = call /\ UNCHANGED chat /\ InboxOf(call[r].user, call[r].agency) = {}
    BY <1>1, <1>3, <2>2 DEF FindInbox, Goto, Path
  <2>4. InboxOf(call[r].user, call[r].agency)' = {}
    BY <2>3 DEF chat, InboxOf, Opened, Live
  <2> QED
    BY <1>3, <2>3, <2>4 DEF OpenMet
<1> QED
  BY <1>2, <1>3 DEF OpenMet

(* A conversation is opened by the call it is named after.                 *)
LEMMA OpenedNow ==
  ASSUME Base, NEW r \in Requests, StepOfSocial(r), NEW c \in Requests,
         conversations[c] = None, conversations'[c] # None
  PROVE  c = r /\ (OpenConversation(r) \/ ChatCreate(r) \/ OpenInbox(r))
<1>1. Path /\ ConversationsAre
  BY DEF Base, SocialInv
<1>2. OpenConversation(r) \/ ChatCreate(r) \/ OpenInbox(r)
  BY ChatChanges DEF chat, AddParticipant, ChatJoin, RemoveParticipant, ChatLeave
<1>3. PICK t, a, admins, others : CreateConversation(r, t, a, admins, others)
  BY <1>1, <1>2, OpensNew
<1> QED
  BY <1>1, <1>2, <1>3 DEF CreateConversation, ConversationsAre

LEMMA OpensForNone ==
  ASSUME Base, NEW r \in Requests, StepOfSocial(r), OpenMet(r),
         conversations[r] = None, conversations'[r] # None
  PROVE  /\ \A u, v \in Users : u # v /\ r \in DirectOf(u, v)' =>
              DirectOf(u, v) \cap earlier[r] = {}
         /\ \A u \in Users, a \in Agencies : r \in InboxOf(u, a)' =>
              InboxOf(u, a) \cap earlier[r] = {}
<1>1. Path /\ ConversationsAre
  BY DEF Base, SocialInv
<1>2. ASSUME NEW t, NEW a, NEW admins, NEW others, CreateConversation(r, t, a, admins, others)
      PROVE  /\ conversations'[r] = [type |-> t, agency |-> a]
             /\ \A u \in Users : Live(r, u)' => u \in admins \cup others
  BY <1>1, <1>2 DEF CreateConversation, ConversationsAre, Live
<1>3. CASE ChatCreate(r)
  <2>1. conversations'[r] = [type |-> "group", agency |-> None]
    BY <1>2, <1>3 DEF ChatCreate
  <2> QED
    BY <2>1, ChatNoneAssumption DEF DirectOf, InboxOf
<1>4. CASE OpenInbox(r)
  <2>1. /\ conversations'[r] = [type |-> "agency", agency |-> call[r].agency]
        /\ \A u \in Users : Live(r, u)' => u = call[r].user
    BY <1>2, <1>4 DEF OpenInbox
  <2>2. InboxOf(call[r].user, call[r].agency) \cap earlier[r] = {}
    BY <1>4 DEF OpenMet, OpenInbox
  <2>3. \A u, v \in Users : r \notin DirectOf(u, v)'
    BY <2>1 DEF DirectOf
  <2>4. \A u \in Users, a \in Agencies :
          r \in InboxOf(u, a)' => u = call[r].user /\ a = call[r].agency
    BY <2>1 DEF InboxOf
  <2> QED
    BY <2>2, <2>3, <2>4
<1>5. CASE OpenConversation(r)
  <2>1. pc[r] = "openConversation" /\ call[r].op \in {"direct", "group", "agency"}
    BY <1>5, OpenCall DEF OpenConversation, Base
  <2>2. CASE call[r].op = "direct"
    <3>1. CreateConversation(r, "direct", None, {}, {call[r].user, call[r].other})
      BY <1>5, <2>2 DEF OpenConversation
    <3>2. /\ conversations'[r] = [type |-> "direct", agency |-> None]
          /\ \A u \in Users : Live(r, u)' => u \in {call[r].user, call[r].other}
      BY <1>2, <3>1
    <3>3. DirectOf(call[r].user, call[r].other) \cap earlier[r] = {}
      BY <2>1, <2>2 DEF OpenMet
    <3>4. \A u, v : DirectOf(u, v) = DirectOf(v, u)
      BY DEF DirectOf
    <3>5. \A u, v \in Users : r \in DirectOf(u, v)' =>
            {u, v} \subseteq {call[r].user, call[r].other}
      BY <3>2 DEF DirectOf
    <3>6. \A u \in Users, a \in Agencies : r \notin InboxOf(u, a)'
      BY <3>2, ChatNoneAssumption DEF InboxOf
    <3>7. ASSUME NEW u \in Users, NEW v \in Users, u # v, r \in DirectOf(u, v)'
          PROVE  DirectOf(u, v) \cap earlier[r] = {}
      <4>1. \/ u = call[r].user /\ v = call[r].other
            \/ v = call[r].user /\ u = call[r].other
        BY <3>5, <3>7
      <4> QED
        BY <3>3, <3>4, <4>1
    <3> QED
      BY <3>6, <3>7
  <2>3. CASE call[r].op = "group"
    <3>1. CreateConversation(r, "group", None, {call[r].user}, call[r].others)
      BY <1>5, <2>3 DEF OpenConversation
    <3>2. conversations'[r] = [type |-> "group", agency |-> None]
      BY <1>2, <3>1
    <3> QED
      BY <3>2, ChatNoneAssumption DEF DirectOf, InboxOf
  <2>4. CASE call[r].op = "agency"
    <3>1. CreateConversation(r, "agency", call[r].agency, {}, {call[r].user})
      BY <1>5, <2>4 DEF OpenConversation
    <3>2. /\ conversations'[r] = [type |-> "agency", agency |-> call[r].agency]
          /\ \A u \in Users : Live(r, u)' => u = call[r].user
      BY <1>2, <3>1
    <3>3. InboxOf(call[r].user, call[r].agency) \cap earlier[r] = {}
      BY <2>1, <2>4 DEF OpenMet
    <3>4. \A u, v \in Users : r \notin DirectOf(u, v)'
      BY <3>2 DEF DirectOf
    <3>5. \A u \in Users, a \in Agencies :
            r \in InboxOf(u, a)' => u = call[r].user /\ a = call[r].agency
      BY <3>2 DEF InboxOf
    <3> QED
      BY <3>3, <3>4, <3>5
  <2> QED
    BY <2>1, <2>2, <2>3, <2>4
<1> QED
  BY <1>3, <1>4, <1>5, OpenedNow

-----------------------------------------------------------------------------
(* Who posts. Access is lost by being removed.                             *)
LEMMA LostByRemoval ==
  ASSUME Base, NEW r \in Requests, StepOfSocial(r), NEW c \in Opened, NEW u \in Users,
         Live(c, u), ~Live(c, u)'
  PROVE  pc[r] # "idle" /\ Expels(call[r], u)
<1>1. Path /\ ConversationsAre /\ Known /\ OnPath(r) /\ c \in Requests
  BY DEF Base, SocialInv, Path, Opened
<1>2. ~UNCHANGED chat
  BY DEF Live, chat
<1>3. ~(OpenConversation(r) \/ ChatCreate(r) \/ OpenInbox(r))
  <2> SUFFICES ASSUME OpenConversation(r) \/ ChatCreate(r) \/ OpenInbox(r) PROVE FALSE
    OBVIOUS
  <2>1. r \notin Opened /\ \E t, a, admins, others : CreateConversation(r, t, a, admins, others)
    BY <1>1, OpensNew
  <2>2. participants'[c] = participants[c]
    BY <1>1, <2>1 DEF CreateConversation, ConversationsAre
  <2> QED
    BY <2>2 DEF Live
<1>4. ASSUME NEW d \in Requests, NEW us, Join(d, us) PROVE FALSE
  BY <1>1, <1>4 DEF Join, Live, ConversationsAre
<1>5. ASSUME NEW d \in Requests, NEW v \in Users, Leave(d, v) PROVE v = u
  BY <1>1, <1>5 DEF Leave, Live, ConversationsAre
<1>6. AddParticipant(r) \/ ChatJoin(r) \/ RemoveParticipant(r) \/ ChatLeave(r)
  BY <1>2, <1>3, ChatChanges
<1>7. CASE AddParticipant(r) \/ RemoveParticipant(r)
  <2>1. pc[r] \in {"join", "leave"} /\ call[r] \in ChatCalls /\ pc[r] \in StepsOf(call[r].op)
    BY <1>1, <1>7, KindOfStep DEF AddParticipant, RemoveParticipant, OnPath, Answered, ChatSteps
  <2>2. /\ call[r].op \in {"add", "remove"} /\ call[r].conversation \in Requests
        /\ pc[r] = "leave" => call[r].op = "remove" /\ call[r].other \in Users
    BY <2>1, ChatFields DEF StepsOf
  <2> QED
    BY <1>4, <1>5, <1>7, <2>1, <2>2 DEF AddParticipant, RemoveParticipant, Expels
<1>8. CASE ChatJoin(r) \/ ChatLeave(r)
  <2>1. pc[r] \in {"chatJoin", "chatLeave"} /\ call[r] \in GroupCalls
        /\ pc[r] \in StepsOf(call[r].op) /\ call[r].other \in Users
    BY <1>1, <1>8, GroupCall DEF ChatJoin, ChatLeave, GroupSteps
  <2>2. /\ pc[r] = "chatLeave" => call[r].op = "removeMember"
        /\ chatSeen[r] \in Requests
    BY <1>1, <2>1, GroupFields DEF StepsOf, Known, GroupKnown, IsGroup, Opened
  <2> QED
    BY <1>4, <1>5, <1>8, <2>1, <2>2 DEF ChatJoin, ChatLeave, Expels
<1> QED
  BY <1>6, <1>7, <1>8

LEMMA OthersPostMet ==
  ASSUME Base, NEW r \in Requests, StepOfSocial(r), NEW q \in Requests \ {r}, PostMet(q)
  PROVE  PostMet(q)'
<1> SUFFICES ASSUME pc[q] = "post" PROVE PostMet(q)'
  BY OthersStay DEF PostMet
<1>1. /\ pc'[q] = pc[q] /\ call'[q] = call[q]
      /\ r \in Rivals(q)' /\ \A o \in Rivals(q) : o \in Rivals(q)' /\ call'[o] = call[o]
  BY OthersStay
<1>2. PICK c \in Requests, u \in Users : c = call[q].conversation /\ u = call[q].user
  BY MailCall DEF Base, SocialInv
<1>3. Grows /\ MayPost(q, c, u) /\ c \in Opened
  BY <1>2, ConversationsStep DEF Base, SocialInv, PostMet, Known, ChatKnown
<1>4. /\ In(c, u) => In(c, u)'
      /\ IsStaff(c, u) => IsStaff(c, u)'
  BY <1>3, Persists
<1>5. HasAccess(c, u)' \/ (In(c, u)' /\ \E o \in Rivals(q)' : Expels(call[o], u)')
  <2>1. CASE In(c, u) /\ \E o \in Rivals(q) : Expels(call[o], u)
    BY <1>1, <1>4, <2>1 DEF Expels
  <2>2. CASE IsStaff(c, u)
    BY <1>3, <1>4, <2>2, Persists DEF HasAccess
  <2>3. CASE Live(c, u)
    <3>1. CASE Live(c, u)'
      BY <1>3, <3>1, Persists DEF HasAccess
    <3>2. CASE ~Live(c, u)'
      <4>1. Expels(call[r], u) /\ call'[r] = call[r]
        BY <1>3, <2>3, <3>2, LostByRemoval, SocialMoves
        DEF Base, SocialInv, Proceeds, StepOf
      <4>2. In(c, u)'
        BY <1>3, <2>3, Persists DEF Live, In
      <4> QED
        BY <1>1, <4>1, <4>2 DEF Expels
    <3> QED
      BY <3>1, <3>2
  <2> QED
    BY <1>3, <2>1, <2>2, <2>3 DEF MayPost, HasAccess
<1>6. MayPost(q, c, u)'
  BY <1>5 DEF MayPost
<1> QED
  BY <1>1, <1>2, <1>6 DEF PostMet, MayPost

LEMMA MoverPostMet ==
  ASSUME Base, NEW r \in Requests, StepOfSocial(r)
  PROVE  PostMet(r)'
<1> SUFFICES ASSUME pc'[r] = "post" PROVE PostMet(r)'
  BY DEF PostMet
<1>1. ChatStep(r) /\ Path
  BY ServiceOf DEF ChatSteps, Base, SocialInv
<1>2. Access(r)
  BY <1>1 DEF ChatStep, ReceiveChat, StartAt, FirstChatStep, CheckFriends, FindDirect,
     FindAgency, OpenConversation, AddParticipant, FindTarget, RemoveParticipant, Post, Touch,
     Page, Deliver, Collect, Receipt, Cursor, Goto, Path, calls
<1>3. call' = call /\ UNCHANGED chat /\ HasAccess(call[r].conversation, call[r].user)
  BY <1>1, <1>2 DEF Access, Granted, Goto, Path
<1>4. HasAccess(call[r].conversation, call[r].user)'
  BY <1>3 DEF HasAccess, Opened, Live, IsStaff, chat
<1>5. MayPost(r, call[r].conversation, call[r].user)'
  BY <1>4 DEF MayPost
<1> QED
  BY <1>5 DEF PostMet

-----------------------------------------------------------------------------
(* Messages. A call that is at a step of a service takes it there.         *)
LEMMA ServiceFrom ==
  ASSUME NEW r \in Requests, StepOfSocial(r)
  PROVE  /\ pc[r] \in FriendSteps => FriendsStep(r) \/ Fail(r)
         /\ pc[r] \in ChatSteps => ChatStep(r) \/ Fail(r)
         /\ pc[r] \in GroupSteps => GroupStep(r) \/ Fail(r)
         /\ pc[r] \in TripSteps => TripStep(r) \/ Fail(r)
<1>1. /\ {"idle"} \cap (FriendSteps \cup ChatSteps \cup GroupSteps \cup TripSteps) = {}
      /\ FriendSteps \cap (ChatSteps \cup GroupSteps \cup TripSteps) = {}
      /\ ChatSteps \cap (GroupSteps \cup TripSteps) = {}
      /\ GroupSteps \cap TripSteps = {}
  BY DEF FriendSteps, ChatSteps, GroupSteps, TripSteps
<1>2. ReceiveFriend(r) \/ ReceiveChat(r) \/ ReceiveGroup(r) \/ ReceiveTrip(r) => pc[r] = "idle"
  BY DEF ReceiveFriend, ReceiveChat, ReceiveGroup, ReceiveTrip, Begin
<1> QED
  BY <1>1, <1>2, StepsInService DEF StepOfSocial

LEMMA SendsOnceStep ==
  ASSUME Base, NEW r \in Requests, StepOfSocial(r), NEW o \in Requests, SendsOnce(o)
  PROVE  SendsOnce(o)'
<1>1. Path /\ Known /\ ConversationsAre
  BY DEF Base, SocialInv
<1>2. CASE o # r
  BY <1>1, <1>2, OthersStay, LocalsStay DEF SendsOnce
<1>3. CASE o = r /\ (Post(r) \/ PostFirst(r))
  <2>1. pc'[r] \in {"touch", "touchInbox", "failed"}
    BY <1>1, <1>3 DEF Post, PostFirst, Goto, Path
  <2> QED
    BY <1>3, <2>1 DEF SendsOnce, Answered
<1>4. CASE o = r /\ ~(Post(r) \/ PostFirst(r))
  <2>1. sentAt' = sentAt
    BY <1>4, MessageChanges DEF messaging, Touch, TouchInbox, TouchConversation
  <2>2. SUFFICES ASSUME pc[r] \in {"touch", "touchInbox"} PROVE pc'[r] \in Answered
    BY <1>4, <2>1, SocialMoves DEF SendsOnce, Base, SocialInv, Proceeds, StepOf
  <2>3. CASE Fail(r)
    BY <1>1, <2>3 DEF Fail, Break, Goto, Path, Answered
  <2>4. CASE ChatStep(r)
    <3>1. Touch(r)
      BY <2>2, <2>4 DEF ChatStep, ReceiveChat, Begin, CheckFriends, FindDirect, FindAgency,
         OpenConversation, Access, AddParticipant, FindTarget, RemoveParticipant, Post, Page,
         Deliver, Collect, Receipt, Cursor
    <3> QED
      BY <1>1, <3>1 DEF Touch, Goto, Path, Answered
  <2>5. CASE TripStep(r)
    <3>1. TouchInbox(r)
      BY <2>2, <2>5 DEF TripStep, ReceiveTrip, Begin, CheckTrip, FindInbox, OpenInbox,
         InsertTrip, PostFirst, UpdateTrip
    <3> QED
      BY <1>1, <3>1 DEF TouchInbox, Goto, Path, Answered
  <2> QED
    BY <2>2, <2>3, <2>4, <2>5, ServiceFrom DEF ChatSteps, TripSteps
<1> QED
  BY <1>2, <1>3, <1>4

LEMMA InboxStays ==
  ASSUME NEW r \in Requests, StepOfSocial(r)
  PROVE  UNCHANGED inbox \/ FindInbox(r) \/ OpenInbox(r)
<1> USE DEF tripRequesting, tables
<1>1. CASE TripStep(r)
  BY <1>1 DEF TripStep, ReceiveTrip, CheckTrip, InsertTrip, PostFirst, TouchInbox, UpdateTrip
<1> QED
  BY <1>1 DEF StepOfSocial, Fail

(* Who has sent a message has sent it for good.                            *)
LEMMA SentStays ==
  ASSUME Base, NEW r \in Requests, StepOfSocial(r), NEW o \in Requests, SendsOnce(o),
         NEW c \in Requests, NEW i \in Positions(c), Sent(o, c, i)
  PROVE  Sent(o, c, i)'
<1>1. i # 0
  BY DEF Base, SocialInv, ConversationsAre, Positions
<1>2. sentAt[o] = i /\ pc[o] \in {"touch", "touchInbox"} \cup Answered
  BY <1>1 DEF Sent, SendsOnce
<1>3. sentAt'[o] = sentAt[o] /\ inbox'[o] = inbox[o] /\ call'[o] = call[o]
  <2>1. CASE o # r
    BY <2>1, OthersStay, LocalsStay DEF Base, SocialInv
  <2>2. CASE o = r
    <3>1. ~(Post(r) \/ PostFirst(r) \/ FindInbox(r) \/ OpenInbox(r))
      BY <1>2, <2>2 DEF Post, PostFirst, FindInbox, OpenInbox, Answered
    <3>2. sentAt' = sentAt /\ inbox' = inbox
      BY <3>1, MessageChanges, InboxStays
      DEF messaging, Touch, TouchInbox, TouchConversation
    <3>3. call'[r] = call[r]
      BY <1>2, <2>2, SocialMoves DEF Base, SocialInv, Proceeds, StepOf, Answered
    <3> QED
      BY <2>2, <3>2, <3>3
  <2> QED
    BY <2>1, <2>2
<1> QED
  BY <1>3 DEF Sent

(* A new message is sent by the call that takes the step.                  *)
LEMMA SentNow ==
  ASSUME Base, NEW r \in Requests, StepOfSocial(r),
         NEW c \in Requests, NEW i \in Positions(c)', i \notin Positions(c)
  PROVE  Sent(r, c, i)'
<1>1. Path /\ Known /\ ConversationsAre /\ ConversationsAre' /\ Proceeds(r) /\ OnPath(r)
  BY ConversationsStep, SocialMoves DEF Base, SocialInv, Path
<1>2. messages[c] \in Seq(Users) /\ messages'[c] \in Seq(Users) /\ messages'[c] # messages[c]
  BY <1>1 DEF ConversationsAre, Positions
<1>3. ASSUME NEW d \in Opened, NEW u \in Users, AppendMessage(r, d, u), UNCHANGED chat
      PROVE  c = d /\ sentAt'[r] = i
  <2>1. /\ sentAt'[r] = Len(messages'[d]) /\ Len(messages'[d]) = Len(messages[d]) + 1
        /\ \A e \in Requests \ {d} : messages'[e] = messages[e]
    BY <1>1, <1>3, AppendGrows
  <2>2. c = d
    BY <1>2, <2>1
  <2>3. i \in 1..Len(messages'[c]) /\ i \notin 1..Len(messages[c])
    BY <1>2 DEF Positions
  <2> QED
    BY <1>2, <2>1, <2>2, <2>3
<1>4. CASE Post(r)
  <2>1. call[r] \in ChatCalls /\ pc[r] \in StepsOf(call[r].op) /\ call[r].user \in Users
    BY <1>1, <1>4, MailCall DEF Post
  <2>2. call[r].op = "send" /\ call[r].conversation \in Opened
    BY <1>1, <1>4, <2>1, ChatFields DEF Post, StepsOf, Known, ChatKnown
  <2>3. PICK d \in Opened, u \in Users : d = call[r].conversation /\ u = call[r].user
    BY <2>1, <2>2
  <2>4. c = d /\ sentAt'[r] = i /\ call' = call
    BY <1>3, <1>4, <2>3 DEF Post, Goto
  <2> QED
    BY <2>2, <2>3, <2>4 DEF Sent
<1>5. CASE PostFirst(r)
  <2>1. call[r] \in TripCalls /\ pc[r] \in StepsOf(call[r].op) /\ pc[r] = "postFirst"
    BY <1>1, <1>5, KindOfStep DEF PostFirst, OnPath, Answered, TripSteps
  <2>2. call[r].op = "ask" /\ call[r].user \in Users /\ inbox[r] \in Opened
    BY <1>1, <2>1, TripFields DEF StepsOf, Known, TripKnown
  <2>3. PICK d \in Opened, u \in Users : d = inbox[r] /\ u = call[r].user
    BY <2>2
  <2>4. AppendMessage(r, d, u) /\ UNCHANGED chat /\ call' = call /\ inbox' = inbox
    BY <1>2, <1>5, <2>3 DEF PostFirst, Goto, messaging
  <2>5. c = d /\ sentAt'[r] = i
    BY <1>3, <2>4
  <2> QED
    BY <2>2, <2>3, <2>4, <2>5 DEF Sent
<1> QED
  BY <1>2, <1>4, <1>5, MessageChanges DEF messaging, Touch, TouchInbox, TouchConversation

(* Of the messages of others, those that were there and those that came.   *)
LEMMA OfOthersGrow ==
  ASSUME Base, NEW r \in Requests, StepOfSocial(r), NEW c \in Requests, NEW u \in Users,
         NEW i \in OfOthers(c, u)'
  PROVE  i \in Positions(c)' /\ (i \in OfOthers(c, u) \/ i \notin Positions(c))
BY ConversationsStep DEF Base, SocialInv, Grows, OfOthers, Positions

LEMMA OthersMailMet ==
  ASSUME Base, NEW r \in Requests, StepOfSocial(r), NEW q \in Requests \ {r}, MailMet(q),
         \A o \in Requests : SendsOnce(o)
  PROVE  MailMet(q)'
<1> SUFFICES ASSUME pc[q] \in {"receipt", "cursor"} PROVE MailMet(q)'
  BY OthersStay DEF MailMet
<1>1. /\ pc'[q] = pc[q] /\ call'[q] = call[q] /\ todo'[q] = todo[q]
      /\ r \in Rivals(q)' /\ \A o \in Rivals(q) : o \in Rivals(q)'
      /\ readReceipts \subseteq readReceipts'
  <2>1. readReceipts \subseteq readReceipts'
    BY ReceiptChanges DEF receipting, Deliver, Receipt, Cursor
  <2> QED
    BY <2>1, OthersStay, LocalsStay DEF Base, SocialInv
<1>2. PICK c \in Requests, u \in Users : c = call[q].conversation /\ u = call[q].user
  BY MailCall DEF Base, SocialInv
<1>3. ASSUME NEW i \in Positions(c), SentMet(q, c, i)
      PROVE  SentMet(q, c, i)'
  <2>1. PICK s \in Rivals(q) : Sent(s, c, i)
    BY <1>3 DEF SentMet
  <2>2. Sent(s, c, i)'
    BY <2>1, SentStays DEF Rivals
  <2> QED
    BY <1>1, <2>2 DEF SentMet
<1>4. ASSUME NEW i \in Positions(c)', i \notin Positions(c)
      PROVE  SentMet(q, c, i)'
  <2>1. Sent(r, c, i)'
    BY <1>4, SentNow
  <2> QED
    BY <1>1, <2>1 DEF SentMet
<1>5. OfOthers(c, u) \subseteq Positions(c)
  BY DEF OfOthers
<1>6. CASE pc[q] = "receipt"
  <2>1. \A i \in OfOthers(c, u)' : i \in todo'[q] \/ SentMet(q, c, i)'
    BY <1>1, <1>2, <1>3, <1>4, <1>5, <1>6, OfOthersGrow DEF MailMet
  <2> QED
    BY <1>1, <1>2, <1>6, <2>1 DEF MailMet, SentMet, Sent
<1>7. CASE pc[q] = "cursor"
  <2>1. \A i \in OfOthers(c, u)' : <<c, i, u>> \in readReceipts' \/ SentMet(q, c, i)'
    BY <1>1, <1>2, <1>3, <1>4, <1>5, <1>7, OfOthersGrow DEF MailMet
  <2> QED
    BY <1>1, <1>2, <1>7, <2>1 DEF MailMet, SentMet, Sent
<1> QED
  BY <1>6, <1>7

LEMMA MoverMailMet ==
  ASSUME Base, NEW r \in Requests, StepOfSocial(r), MailMet(r),
         \A o \in Requests : SendsOnce(o)
  PROVE  MailMet(r)'
<1> SUFFICES ASSUME pc'[r] \in {"receipt", "cursor"} PROVE MailMet(r)'
  BY DEF MailMet
<1>1. ChatStep(r) /\ Path /\ Known
  BY ServiceOf DEF ChatSteps, Base, SocialInv
<1>2. Collect(r) \/ Receipt(r)
  BY <1>1 DEF ChatStep, ReceiveChat, StartAt, FirstChatStep, CheckFriends, FindDirect,
     FindAgency, OpenConversation, Access, AfterAccess, AddParticipant, FindTarget,
     RemoveParticipant, Post, Touch, Page, Deliver, Cursor, Goto, Path, calls
<1>3. /\ call' = call /\ UNCHANGED messages
      /\ pc[r] # "idle" /\ pc'[r] \notin Answered
  BY <1>2 DEF Collect, Receipt, Goto, messaging, Answered
<1>4. PICK c \in Requests, u \in Users : c = call[r].conversation /\ u = call[r].user
  BY <1>1, <1>2, MailCall DEF Collect, Receipt
<1>5. OfOthers(c, u)' = OfOthers(c, u)
  BY <1>3 DEF OfOthers, Positions
<1>6. CASE Collect(r)
  <2>1. pc'[r] = "receipt" /\ todo'[r] = OfOthers(c, u)
    BY <1>1, <1>4, <1>6 DEF Collect, Todo, Known, Goto, Path
  <2> QED
    BY <1>3, <1>4, <1>5, <2>1 DEF MailMet
<1>7. CASE Receipt(r)
  <2>1. pc'[r] = "cursor" /\ {c} \X todo[r] \X {u} \subseteq readReceipts'
    BY <1>1, <1>4, <1>7 DEF Receipt, ReceiptsOf, Goto, Path
  <2>2. ASSUME NEW i \in OfOthers(c, u), SentMet(r, c, i)
        PROVE  SentMet(r, c, i)'
    <3>1. PICK s \in Rivals(r) : Sent(s, c, i)
      BY <2>2 DEF SentMet
    <3>2. Sent(s, c, i)'
      BY <3>1, SentStays DEF Rivals, OfOthers
    <3>3. s \in Rivals(r)'
      BY <1>3, MoverStays
    <3> QED
      BY <3>2, <3>3 DEF SentMet
  <2>3. \A i \in OfOthers(c, u) : i \in todo[r] \/ SentMet(r, c, i)
    BY <1>4, <1>7 DEF MailMet, Receipt
  <2>4. \A i \in OfOthers(c, u)' : <<c, i, u>> \in readReceipts' \/ SentMet(r, c, i)'
    BY <1>5, <2>1, <2>2, <2>3
  <2> QED
    BY <1>3, <1>4, <2>1, <2>4 DEF MailMet, SentMet, Sent
<1> QED
  BY <1>2, <1>6, <1>7

-----------------------------------------------------------------------------
(* The chat of the trip.                                                   *)
LEMMA LinkChanges ==
  ASSUME Base, NEW r \in Requests, StepOfSocial(r)
  PROVE  conversation' = conversation \/ (Link(r) /\ conversation' = r)
<1> USE DEF groupTrip, group, tables
<1>1. CASE GroupStep(r)
  BY <1>1 DEF GroupStep, ReceiveGroup, ReadCampaign, FindMember, CheckFriend, InsertMember,
     ChatFriends, ChatCreate, Link, ChatAccess, ChatJoin, MemberTarget, DeleteMember,
     ChatTarget, ChatLeave, Permit, Payer, Record, Unspend, Sums, RequestWithdrawal
<1> QED
  BY <1>1 DEF StepOfSocial, Fail

LEMMA OpenedByAddingStep ==
  ASSUME Base, NEW r \in Requests, StepOfSocial(r), OpenedByAdding
  PROVE  OpenedByAdding'
<1>1. StepOf(r) /\ Path
  BY SocialMoves DEF Base, SocialInv, Proceeds
<1>2. CASE conversation' = conversation
  <2>1. conversation # None => conversation \in Requests
    BY DEF Base, SocialInv, Known, IsGroup, Opened
  <2> QED
    BY <1>1, <1>2, <2>1 DEF OpenedByAdding, StepOf
<1>3. CASE Link(r) /\ conversation' = r
  <2>1. call[r] \in GroupCalls /\ pc[r] \in StepsOf(call[r].op) /\ pc[r] = "link"
    BY <1>1, <1>3, GroupCall DEF Link, GroupSteps
  <2>2. call[r].op = "addMember"
    BY <2>1, GroupFields DEF StepsOf
  <2> QED
    BY <1>1, <1>3, <2>1, <2>2 DEF OpenedByAdding, StepOf
<1> QED
  BY <1>2, <1>3, LinkChanges

LEMMA OthersGroupMet ==
  ASSUME Base, NEW r \in Requests, StepOfSocial(r), NEW q \in Requests \ {r}, GroupMet(q)
  PROVE  GroupMet(q)'
<1>1. /\ pc'[q] = pc[q] /\ chatSeen'[q] = chatSeen[q]
      /\ r \in Rivals(q)' /\ \A o \in Rivals(q) : o \in Rivals(q)'
  BY OthersStay, LocalsStay DEF Base, SocialInv
<1>2. chatSeen[q] = conversation \/ conversation \in Rivals(q) =>
        chatSeen[q] = conversation' \/ conversation' \in Rivals(q)'
  BY <1>1, LinkChanges
<1> QED
  BY <1>1, <1>2 DEF GroupMet

LEMMA MoverGroupMet ==
  ASSUME Base, NEW r \in Requests, StepOfSocial(r), GroupMet(r)
  PROVE  GroupMet(r)'
<1> SUFFICES ASSUME pc'[r] \in GroupSteps \ {"readCampaign"} PROVE GroupMet(r)'
  BY DEF GroupMet, GroupSteps
<1>1. GroupStep(r) /\ Path /\ Known
  BY ServiceOf DEF Base, SocialInv
<1>2. pc'[r] \notin Answered
  BY DEF GroupSteps, Answered
<1>3. ~Link(r) /\ ~ReceiveGroup(r)
  BY <1>1 DEF Link, ReceiveGroup, StartAt, Goto, Path, GroupSteps
<1>4. conversation' = conversation
  BY <1>3, LinkChanges
<1>5. CASE ReadCampaign(r)
  <2>1. chatSeen'[r] = conversation' /\ pc'[r] \notin {"chatCreate", "link"}
    BY <1>1, <1>4, <1>5 DEF ReadCampaign, NextGroupStep, Goto, Path, Known
  <2> QED
    BY <2>1 DEF GroupMet
<1>6. CASE ~ReadCampaign(r)
  <2>1. pc[r] \in GroupSteps /\ pc[r] # "idle"
    BY <1>1, <1>3, StepsInService DEF GroupSteps
  <2>2. /\ chatSeen' = chatSeen /\ pc[r] # "readCampaign"
        /\ pc'[r] \in {"chatCreate", "link"} => chatSeen[r] = None
    BY <1>1, <1>3, <1>6, <2>1 DEF GroupStep, FindMember, CheckFriend, InsertMember, ChatFriends,
       ChatCreate, ChatAccess, ChatJoin, MemberTarget, DeleteMember, ChatTarget, ChatLeave,
       Permit, Payer, Record, Unspend, Sums, RequestWithdrawal, Goto, Path, groupLocal, GroupMet
  <2>3. chatSeen[r] = conversation \/ conversation \in Rivals(r)
    BY <2>1, <2>2 DEF GroupMet
  <2>4. \A o \in Rivals(r) : o \in Rivals(r)'
    BY <1>2, <2>1, MoverStays
  <2> QED
    BY <1>4, <2>2, <2>3, <2>4 DEF GroupMet
<1> QED
  BY <1>5, <1>6

-----------------------------------------------------------------------------
(* All of it.                                                              *)
Inv == Base /\ Met

LEMMA InvStep ==
  ASSUME Inv, NEW r \in Requests, StepOfSocial(r)
  PROVE  Inv'
<1>1. Next /\ StepOf(r)
  BY SocialMoves DEF Next, StepOfSocial, Inv, Base, SocialInv, Proceeds
<1>2. SocialInv' /\ FriendsInv' /\ TripsInv' /\ EarlierIsOver'
  BY <1>1, SocialStep, StepBefriending, StepTravelling, EarlierStep DEF Inv, Base
<1>3. OpenedByAdding'
  BY OpenedByAddingStep DEF Inv, Met
<1>4. \A q \in Requests : FriendMet(q)' /\ TripMet(q)' /\ OpenMet(q)'
  <2> TAKE q \in Requests
  <2>1. CASE q = r
    BY <2>1, MoverFriendMet, MoverTripMet, MoverOpenMet DEF Inv
  <2>2. CASE q # r
    BY <2>2, OthersFriendMet, OthersTripMet, OthersOpenMet DEF Inv, Met
  <2> QED
    BY <2>1, <2>2
<1>5. \A q \in Requests : PostMet(q)' /\ MailMet(q)' /\ GroupMet(q)' /\ SendsOnce(q)'
  <2> TAKE q \in Requests
  <2>1. SendsOnce(q)'
    BY SendsOnceStep DEF Inv, Met
  <2>2. CASE q = r
    BY <2>1, <2>2, MoverPostMet, MoverMailMet, MoverGroupMet DEF Inv, Met
  <2>3. CASE q # r
    BY <2>1, <2>3, OthersPostMet, OthersMailMet, OthersGroupMet DEF Inv, Met
  <2> QED
    BY <2>2, <2>3
<1> QED
  BY <1>2, <1>3, <1>4, <1>5 DEF Inv, Base, Met

LEMMA InvStutters ==
  ASSUME Inv, UNCHANGED vars
  PROVE  Inv'
<1> USE DEF vars, calls, tables, friendship, chat, mail, messaging, receipting, groupTrip, group,
        groupLocal, tripRequesting, trips
<1>1. SocialInv' /\ FriendsInv' /\ TripsInv'
  BY SocialStutters, StepBefriending, StepTravelling DEF Inv, Base
<1>2. EarlierIsOver'
  BY DEF Inv, Base, EarlierIsOver
<1>3. /\ \A q : Rivals(q)' = Rivals(q)
      /\ Opened' = Opened
      /\ \A c : Positions(c)' = Positions(c)
      /\ \A c, u : /\ Live(c, u)' = Live(c, u)
                   /\ In(c, u)' = In(c, u) /\ IsStaff(c, u)' = IsStaff(c, u)
  BY DEF Rivals, Opened, Positions, Live, In, IsStaff
<1>4. /\ \A u, v : DirectOf(u, v)' = DirectOf(u, v)
      /\ \A u, a : InboxOf(u, a)' = InboxOf(u, a)
      /\ \A c, u : /\ HasAccess(c, u)' = HasAccess(c, u)
                   /\ OfOthers(c, u)' = OfOthers(c, u)
      /\ \A s, c, i : Sent(s, c, i)' = Sent(s, c, i)
  BY <1>3 DEF DirectOf, InboxOf, HasAccess, OfOthers, Sent
<1>5. \A q \in Requests : FriendMet(q)' /\ TripMet(q)' /\ OpenMet(q)'
  BY <1>3, <1>4 DEF Inv, Met, FriendMet, TripMet, OpenMet
<1>6. \A q \in Requests : PostMet(q)' /\ MailMet(q)'
  BY <1>3, <1>4 DEF Inv, Met, PostMet, MayPost, MailMet, SentMet
<1>7. \A q \in Requests : GroupMet(q)' /\ SendsOnce(q)'
  BY <1>3 DEF Inv, Met, GroupMet, SendsOnce
<1>8. OpenedByAdding'
  BY DEF Inv, Met, OpenedByAdding
<1> QED
  BY <1>1, <1>2, <1>5, <1>6, <1>7, <1>8 DEF Inv, Base, Met

LEMMA Invariance == Spec => []Inv
<1>1. Init => Inv
  <2> SUFFICES ASSUME Init PROVE Inv
    OBVIOUS
  <2>1. /\ \A r \in Requests : pc[r] = "idle" /\ sentAt[r] = 0
        /\ earlier = [r \in Requests |-> {}] /\ conversation = None
    BY DEF Init, CallsInit, ChatStoreInit, GroupInit
  <2>2. EarlierIsOver
    BY <2>1 DEF EarlierIsOver
  <2>3. Met
    BY <2>1 DEF Met, FriendMet, TripMet, OpenMet, PostMet, MailMet, GroupMet, SendsOnce,
       OpenedByAdding, GroupSteps
  <2> QED
    BY <2>2, <2>3, InitSocial, InitBefriending, InitTravelling DEF Inv, Base
<1>2. Inv /\ [Next]_vars => Inv'
  <2> SUFFICES ASSUME Inv, [Next]_vars PROVE Inv'
    OBVIOUS
  <2>1. CASE UNCHANGED vars
    BY <2>1, InvStutters
  <2>2. CASE \E r \in Requests : StepOfSocial(r)
    BY <2>2, InvStep
  <2> QED
    BY <2>1, <2>2 DEF Next, Done, StepOfSocial
<1> QED
  BY <1>1, <1>2, PTL DEF Spec

-----------------------------------------------------------------------------
(* What a step may do, and the properties.                                 *)

(* A friendship begins with the consent of the one who was asked, and an   *)
(* answer stands but for a race of two answers, however many requests,     *)
(* answers and deletions of the same row overlap.                          *)
ConsentHold ==
  \A x \in Requests : friendRequests'[x] # None =>
    IF friendRequests[x] = None
    THEN friendRequests'[x].status = "pending"
    ELSE \/ friendRequests'[x] = friendRequests[x]
         \/ \E r \in Requests :
              /\ pc[r] = "respond" /\ Answers(call[r], x)
              /\ call[r].user = friendRequests'[x].addressee
              /\ friendRequests'[x].status = "accepted" => call[r].op = "accept"
              /\ \/ friendRequests[x].status = "pending"
                 \/ \E o \in Rivals(r) : Answers(call[o], x)

THEOREM ConsentIsGiven == Spec => ConsentOfAddressee
<1>1. ASSUME Inv, [Next]_vars PROVE ConsentHold
  <2> SUFFICES ASSUME NEW x \in Requests, friendRequests'[x] # None,
                      friendRequests'[x] # friendRequests[x]
               PROVE  IF friendRequests[x] = None
                      THEN friendRequests'[x].status = "pending"
                      ELSE \E r \in Requests :
                        /\ pc[r] = "respond" /\ Answers(call[r], x)
                        /\ call[r].user = friendRequests'[x].addressee
                        /\ friendRequests'[x].status = "accepted" => call[r].op = "accept"
                        /\ \/ friendRequests[x].status = "pending"
                           \/ \E o \in Rivals(r) : Answers(call[o], x)
    BY DEF ConsentHold
  <2>1. PICK r \in Requests : Rewrites(r)
    BY <1>1, StepBefriending DEF Inv, Base
  <2>2. CASE pc[r] = "createRequest" /\ x = r /\ friendRequests'[x].status = "pending"
    <3>1. friendRequests[x] = None
      BY <1>1, <2>2 DEF Inv, Base, FriendsInv, FriendRequestIds, Born
    <3> QED
      BY <2>2, <3>1
  <2>3. CASE /\ pc[r] = "respond" /\ x = answering[r] /\ friendRequests[x] # None
             /\ friendRequests'[x].addressee = friendRequests[x].addressee
             /\ friendRequests'[x].status = "accepted" => call[r].op = "accept"
    <3>1. FriendMet(r) /\ Answers(call[r], x)
      BY <1>1, <2>3, AnswersItsRow DEF Inv, Met
    <3>2. call[r].user = friendRequests[x].addressee
      BY <1>1, <2>3 DEF Inv, Base, FriendsInv, Befriending
    <3> QED
      BY <2>3, <3>1, <3>2 DEF FriendMet
  <2> QED
    BY <2>1, <2>2, <2>3 DEF Rewrites
<1> QED
  BY Invariance, <1>1, PTL DEF Spec, ConsentOfAddressee, ConsentHold

(* However the agency and the traveler race each other, on however many    *)
(* requests, no stage is skipped, and only a race leaves the end of one.   *)
StagesHold ==
  \A x \in Made :
    LET old == tripRequests[x].status
        new == tripRequests'[x].status
    IN \/ new = old
       \/ Follows(old, new)
       \/ /\ \E was \in past[x] : Follows(was, new)
          /\ \E r \in Requests : /\ pc[r] = "updateTrip" /\ Moves(call[r], x)
                                 /\ \E o \in Rivals(r) : Moves(call[o], x)

THEOREM StagesAreKept == Spec => StagesAreNotSkipped
<1>1. ASSUME Inv, [Next]_vars PROVE StagesHold
  <2> SUFFICES ASSUME NEW x \in Made, tripRequests'[x].status # tripRequests[x].status
               PROVE  \/ Follows(tripRequests[x].status, tripRequests'[x].status)
                      \/ /\ \E was \in past[x] : Follows(was, tripRequests'[x].status)
                         /\ \E r \in Requests :
                              /\ pc[r] = "updateTrip" /\ Moves(call[r], x)
                              /\ \E o \in Rivals(r) : Moves(call[o], x)
    BY DEF StagesHold
  <2>1. PICK r \in Requests : StepOfSocial(r)
    BY <1>1 DEF Next, StepOfSocial, Done, vars, tables, tripRequesting, trips
  <2>2. /\ pc[r] = "updateTrip" /\ x = call[r].request
        /\ tripRequests'[x].status = StatusOf(call[r])
    BY <1>1, <2>1, TripsMoved DEF Restages, Inv, Base
  <2>3. TripMet(r) /\ Moves(call[r], x)
    BY <1>1, <2>2, MovesItsRequest DEF Inv, Met
  <2> QED
    BY <2>2, <2>3 DEF TripMet
<1> QED
  BY Invariance, <1>1, PTL DEF Spec, StagesAreNotSkipped, StagesHold

(* Whichever calls ask for it, two users share one direct conversation and *)
(* a user has one with an agency, but for calls that overlap.              *)
ReusedHold ==
  \A c \in Requests : conversations[c] = None /\ conversations'[c] # None =>
    /\ \A u, v \in Users : u # v /\ c \in DirectOf(u, v)' =>
         DirectOf(u, v) \cap earlier[c] = {}
    /\ \A u \in Users, a \in Agencies : c \in InboxOf(u, a)' =>
         InboxOf(u, a) \cap earlier[c] = {}

THEOREM ConversationsAreFound == Spec => ConversationsAreReused
<1>1. ASSUME Inv, [Next]_vars PROVE ReusedHold
  <2> SUFFICES ASSUME NEW c \in Requests, conversations[c] = None, conversations'[c] # None
               PROVE  /\ \A u, v \in Users : u # v /\ c \in DirectOf(u, v)' =>
                           DirectOf(u, v) \cap earlier[c] = {}
                      /\ \A u \in Users, a \in Agencies : c \in InboxOf(u, a)' =>
                           InboxOf(u, a) \cap earlier[c] = {}
    BY DEF ReusedHold
  <2>1. PICK r \in Requests : StepOfSocial(r)
    BY <1>1 DEF Next, StepOfSocial, Done, vars, tables, chat
  <2>2. c = r
    BY <1>1, <2>1, OpenedNow DEF Inv
  <2>3. OpenMet(c)
    BY <1>1 DEF Inv, Met
  <2> QED
    BY <1>1, <2>1, <2>2, <2>3, OpensForNone DEF Inv
<1> QED
  BY Invariance, <1>1, PTL DEF Spec, ConversationsAreReused, ReusedHold

(* What is posted, whichever service wrote it and however many calls       *)
(* overlap, is from someone with access, or on his way out.                *)
PostedHold ==
  \A c \in Requests : messages'[c] # messages[c] =>
    \E r \in Requests :
      /\ pc[r] \in {"post", "postFirst"}
      /\ messages'[c] = Append(messages[c], call[r].user)
      /\ \/ HasAccess(c, call[r].user)
         \/ /\ participants[c][call[r].user] # None
            /\ \E o \in Rivals(r) : Expels(call[o], call[r].user)

THEOREM OnlyParticipantsPost == Spec => PostedByParticipants
<1>1. ASSUME Inv, [Next]_vars PROVE PostedHold
  <2> SUFFICES ASSUME NEW c \in Requests, messages'[c] # messages[c]
               PROVE  \E r \in Requests :
                        /\ pc[r] \in {"post", "postFirst"}
                        /\ messages'[c] = Append(messages[c], call[r].user)
                        /\ MayPost(r, c, call[r].user)
    BY DEF PostedHold, MayPost, In
  <2>1. PICK r \in Requests : StepOfSocial(r)
    BY <1>1 DEF Next, StepOfSocial, Done, vars, tables, mail, messaging
  <2>2. messages \in [Requests -> Seq(Users)] /\ PostMet(r)
    BY <1>1 DEF Inv, Base, SocialInv, ConversationsAre, Met
  <2>3. CASE Post(r)
    <3>1. /\ messages' = [messages EXCEPT ![call[r].conversation] =
                            Append(messages[call[r].conversation], call[r].user)]
          /\ MayPost(r, call[r].conversation, call[r].user) /\ pc[r] = "post"
      BY <2>2, <2>3 DEF Post, AppendMessage, PostMet
    <3>2. c = call[r].conversation
      BY <2>2, <3>1
    <3> QED
      BY <2>2, <3>1, <3>2
  <2>4. CASE PostFirst(r)
    <3>1. /\ messages' = [messages EXCEPT ![inbox[r]] = Append(messages[inbox[r]], call[r].user)]
          /\ HasAccess(inbox[r], call[r].user) /\ pc[r] = "postFirst"
      BY <2>4 DEF PostFirst, AppendMessage, messaging
    <3>2. c = inbox[r]
      BY <2>2, <3>1
    <3> QED
      BY <2>2, <3>1, <3>2 DEF MayPost
  <2> QED
    BY <2>1, <2>3, <2>4, MessageChanges DEF messaging, Touch, TouchInbox, TouchConversation
<1> QED
  BY Invariance, <1>1, PTL DEF Spec, PostedByParticipants, PostedHold

(* What a participant has not read is behind his cursor, but for messages  *)
(* that were sent while he marked the others read.                         *)
UnreadHold ==
  \A c \in Requests, u \in Users : \A i \in Positions(c) :
    readTo[c][u] < i /\ i <= readTo'[c][u] /\ messages[c][i] # u =>
      \/ <<c, i, u>> \in readReceipts
      \/ \E r \in Requests : /\ pc[r] = "cursor" /\ call[r].conversation = c
                             /\ call[r].user = u
                             /\ \E s \in Rivals(r) : Sent(s, c, i)

THEOREM UnreadIsBehindCursor == Spec => UnreadIsCounted
<1>1. ASSUME Inv, [Next]_vars PROVE UnreadHold
  <2> SUFFICES ASSUME NEW c \in Requests, NEW u \in Users, NEW i \in Positions(c),
                      readTo[c][u] < i, i <= readTo'[c][u], messages[c][i] # u
               PROVE  \/ <<c, i, u>> \in readReceipts
                      \/ \E r \in Requests : /\ pc[r] = "cursor" /\ call[r].conversation = c
                                             /\ call[r].user = u
                                             /\ \E s \in Rivals(r) : Sent(s, c, i)
    BY DEF UnreadHold
  <2>1. /\ readTo \in [Requests -> [Users -> Nat]]
        /\ messages \in [Requests -> Seq(Users)]
    BY <1>1 DEF Inv, Base, SocialInv, ConversationsAre, CursorsAre
  <2>2. readTo'[c][u] # readTo[c][u]
    <3>1. readTo[c][u] \in Nat /\ i \in Nat
      BY <2>1 DEF Positions
    <3> QED
      BY <3>1
  <2>3. PICK r \in Requests : StepOfSocial(r)
    BY <1>1, <2>2 DEF Next, StepOfSocial, Done, vars, tables, mail, receipting
  <2>4. Cursor(r)
    BY <2>2, <2>3, ReceiptChanges DEF receipting, Deliver, Receipt
  <2>5. PICK d \in Requests, v \in Users : d = call[r].conversation /\ v = call[r].user
    BY <1>1, <2>4, MailCall DEF Cursor, Inv, Base, SocialInv
  <2>6. readTo' = readTo \/ readTo' = [readTo EXCEPT ![d][v] = Len(messages[d])]
    BY <2>4, <2>5 DEF Cursor
  <2>7. c = d /\ u = v
    BY <2>1, <2>2, <2>6
  <2>8. i \in OfOthers(c, u) /\ MailMet(r) /\ pc[r] = "cursor"
    BY <1>1, <2>4 DEF OfOthers, Inv, Met, Cursor
  <2> QED
    BY <2>5, <2>7, <2>8 DEF MailMet, SentMet
<1> QED
  BY Invariance, <1>1, PTL DEF Spec, UnreadIsCounted, UnreadHold

(* The chat of the trip is opened once, but for calls that overlap.        *)
OnceHold ==
  \/ conversation' = conversation
  \/ /\ conversation' \in Requests
     /\ conversation = None \/ conversation \in Rivals(conversation')

THEOREM ChatIsOpenedOnce == Spec => OneGroupChat
<1>1. ASSUME Inv, [Next]_vars PROVE OnceHold
  <2> SUFFICES ASSUME conversation' # conversation
               PROVE  /\ conversation' \in Requests
                      /\ conversation = None \/ conversation \in Rivals(conversation')
    BY DEF OnceHold
  <2>1. PICK r \in Requests : StepOfSocial(r)
    BY <1>1 DEF Next, StepOfSocial, Done, vars, tables, groupTrip, group
  <2>2. Link(r) /\ conversation' = r
    BY <1>1, <2>1, LinkChanges DEF Inv
  <2>3. GroupMet(r) /\ pc[r] = "link"
    BY <1>1, <2>2 DEF Inv, Met, Link
  <2> QED
    BY <2>2, <2>3 DEF GroupMet, GroupSteps
<1> QED
  BY Invariance, <1>1, PTL DEF Spec, OneGroupChat, OnceHold

(* Who is removed with success is out of the chat, whether he had left it  *)
(* already or not, unless he was being added meanwhile.                    *)
OutHold ==
  \A r \in Requests :
    pc[r] \in GroupSteps /\ pc'[r] = "ok" /\ call[r].op = "removeMember" =>
      \/ ~(conversation # None /\ Live(conversation, call[r].other))'
      \/ \E o \in Rivals(r) : call[o].op \in {"addMember", "add"}

THEOREM RemovedLeaveChat == Spec => RemovedIsOutOfChat
<1>1. ASSUME Inv, [Next]_vars PROVE OutHold
  <2> SUFFICES ASSUME NEW r \in Requests, pc[r] \in GroupSteps, pc'[r] = "ok",
                      call[r].op = "removeMember", conversation \notin Rivals(r)
               PROVE  ~(conversation # None /\ Live(conversation, call[r].other))'
    <3>1. \A r \in Requests : conversation \in Rivals(r) =>
            \E o \in Rivals(r) : call[o].op \in {"addMember", "add"}
      BY <1>1, ChatNoneAssumption DEF Inv, Met, OpenedByAdding, Rivals
    <3> QED
      BY <3>1 DEF OutHold
  <2>1. Path /\ Known /\ ConversationsAre /\ GroupMet(r)
    BY <1>1 DEF Inv, Base, SocialInv, Met
  <2>2. call[r] \in GroupCalls /\ pc[r] \in StepsOf(call[r].op)
    BY <2>1, GroupCall
  <2>3. pc[r] \in {"readCampaign", "memberTarget", "deleteMember", "chatAccess", "chatTarget",
                   "chatLeave"}
    BY <2>2 DEF StepsOf
  <2>4. GroupStep(r)
    <3>1. PICK o \in Requests : StepOfSocial(o)
      BY <1>1, <2>3 DEF Next, StepOfSocial, Done, vars, calls
    <3>2. o = r
      BY <2>1, <2>3, <3>1, SocialMoves DEF Proceeds, StepOf
    <3>3. ~Fail(r)
      BY <2>1 DEF Fail, Break, Goto, Path
    <3> QED
      BY <3>1, <3>2, <3>3, ServiceFrom
  <2>5. chatSeen[r] = conversation \/ pc[r] = "readCampaign"
    BY <2>1 DEF GroupMet
  <2> USE DEF Goto, Path, group, groupLocal
  <2>6. \/ DeleteMember(r) /\ chatSeen[r] = None
        \/ ChatLeave(r)
    BY <2>1, <2>2, <2>3, <2>4 DEF GroupStep, ReceiveGroup, ReadCampaign, NextGroupStep,
       FindMember, CheckFriend, InsertMember, ChatFriends, ChatCreate, Link, ChatAccess,
       ChatJoin, MemberTarget, DeleteMember, ChatTarget, ChatLeave, Permit, Payer, Record,
       Unspend, Sums, RequestWithdrawal, Begin
  <2>7. CASE DeleteMember(r) /\ chatSeen[r] = None
    BY <2>5, <2>7 DEF DeleteMember
  <2>8. CASE ChatLeave(r)
    <3>1. /\ Leave(chatSeen[r], call[r].other) /\ chatSeen[r] = conversation
          /\ conversation' = conversation /\ call' = call
          /\ chatSeen[r] \in Opened /\ In(chatSeen[r], call[r].other)
      BY <2>1, <2>5, <2>8 DEF ChatLeave, Known, GroupKnown, IsGroup
    <3>2. call[r].other \in Users
      BY <2>1, <2>8, GroupCall DEF ChatLeave
    <3>3. participants[conversation][call[r].other] \in Participants
      BY <2>1, <3>1, <3>2 DEF ConversationsAre, In, Opened
    <3>4. participants'[conversation][call[r].other].left
      BY <2>1, <3>1, <3>2, <3>3 DEF Leave, ConversationsAre, Opened, Participants
    <3> QED
      BY <3>1, <3>4 DEF Live
  <2> QED
    BY <2>6, <2>7, <2>8
<1> QED
  BY Invariance, <1>1, PTL DEF Spec, RemovedIsOutOfChat, OutHold

(* Every variable keeps to its kind, and no time, receipt or reference of  *)
(* a conversation is ahead of what is there.                               *)
THEOREM TypeCorrect == Spec => []TypeOK
<1>1. Inv => TypeOK
  BY SocialTypes DEF Inv, Base
<1> QED
  BY Invariance, <1>1, PTL
=============================================================================
