------------------------------- MODULE Friends -------------------------------
(***************************************************************************)
(* FriendsService (src/src/modules/friends/friends.service.ts): friend     *)
(* requests, their answers and unfriending. A row of friend_requests is    *)
(* named by the call that created it, so the id of a deleted row is not    *)
(* used again. The notification of a new request is sent on a best-effort  *)
(* basis and changes nothing here.                                         *)
(***************************************************************************)
EXTENDS HttpCalls

CONSTANTS
  Users,
  FriendsBefore  \* under each load, the friend requests there are at first

FriendCalls ==
  [op : {"befriend", "unfriend"}, user : Users, other : Users]
    \cup [op : {"accept", "decline"}, user : Users, row : Requests]

FriendRows ==
  {row \in [requester : Users, addressee : Users,
            status : {"pending", "accepted", "declined"}] :
     row.requester # row.addressee}

(* The rows there are at first are named by calls that are over.           *)
ASSUME FriendsAssumption ==
  /\ DOMAIN FriendsBefore = Loads
  /\ \A l \in Loads : FriendsBefore[l] \in [Requests -> FriendRows \cup {None}]
  /\ \A l \in Loads, x \in Requests : FriendsBefore[l][x] # None => Script[l][x] = {}
  /\ None \notin FriendRows

VARIABLES
  friendRequests,  \* friend_requests
  answering        \* the row a call has found and is about to write

friendship == <<friendRequests, answering>>

FriendSteps == {"findOpen", "createRequest", "findPending", "respond",
                "findAccepted", "deleteRequest"}

FriendsInit ==
  /\ friendRequests = FriendsBefore[load]
  /\ answering = [r \in Requests |-> None]

FriendRequestIds == {x \in Requests : friendRequests[x] # None}

(* The rows between two users, in either direction.                        *)
Between(u, v) ==
  {x \in FriendRequestIds :
     {friendRequests[x].requester, friendRequests[x].addressee} = {u, v}}

Accepted(u, v) == {x \in Between(u, v) : friendRequests[x].status = "accepted"}

AreFriends(u, v) == u # v /\ Accepted(u, v) # {}

(* A request that is waiting or has been accepted.                         *)
Open(u, v) == {x \in Between(u, v) : friendRequests[x].status # "declined"}

FirstFriendStep(c) ==
  CASE c.op = "befriend" -> IF c.user = c.other THEN "failed" ELSE "findOpen"
    [] c.op = "unfriend" -> "findAccepted"
    [] OTHER             -> "findPending"

ReceiveFriend(r) ==
  /\ Begin(r, FriendCalls) /\ StartAt(r, FirstFriendStep(call'[r]))
  /\ UNCHANGED friendship

(* sendRequest: an open request in either direction refuses another one.   *)
FindOpen(r) ==
  /\ pc[r] = "findOpen"
  /\ Goto(r, IF Open(call[r].user, call[r].other) = {} THEN "createRequest"
             ELSE "failed")
  /\ UNCHANGED friendship

(* The unique index on requester and addressee, declined rows included.    *)
Asked(u, v) ==
  \E x \in FriendRequestIds :
    friendRequests[x].requester = u /\ friendRequests[x].addressee = v

CreateRequest(r) ==
  /\ pc[r] = "createRequest"
  /\ IF Asked(call[r].user, call[r].other)
     THEN Goto(r, "failed") /\ UNCHANGED friendRequests
     ELSE /\ friendRequests' = [friendRequests EXCEPT ![r] =
               [requester |-> call[r].user, addressee |-> call[r].other,
                status |-> "pending"]]
          /\ Goto(r, "ok")
  /\ UNCHANGED answering

(* Fault: anyone may answer.                                               *)
AnsweredByAnyone(r, row) == row.status = "pending"

Answerable(r, row) == row.addressee = call[r].user /\ row.status = "pending"

(* findPendingRequestForAddressee, and ...                                 *)
FindPending(r) ==
  LET x == call[r].row IN
  /\ pc[r] = "findPending"
  /\ IF x \in FriendRequestIds /\ Answerable(r, friendRequests[x])
     THEN Goto(r, "respond") /\ answering' = [answering EXCEPT ![r] = x]
     ELSE Goto(r, "failed") /\ UNCHANGED answering
  /\ UNCHANGED friendRequests

(* ... accept or decline, which update the row by its id, if it is there.  *)
Respond(r) ==
  /\ pc[r] = "respond"
  /\ IF answering[r] \in FriendRequestIds
     THEN /\ friendRequests' = [friendRequests EXCEPT ![answering[r]].status =
                IF call[r].op = "accept" THEN "accepted" ELSE "declined"]
          /\ Goto(r, "ok")
     ELSE Goto(r, "failed") /\ UNCHANGED friendRequests
  /\ UNCHANGED answering

(* unfriend finds one accepted row ...                                     *)
FindAccepted(r) ==
  LET accepted == Accepted(call[r].user, call[r].other) IN
  /\ pc[r] = "findAccepted"
  /\ \/ \E x \in accepted : /\ answering' = [answering EXCEPT ![r] = x]
                            /\ Goto(r, "deleteRequest")
     \/ accepted = {} /\ Goto(r, "failed") /\ UNCHANGED answering
  /\ UNCHANGED friendRequests

(* ... and deletes it, if it is still there.                               *)
DeleteRequest(r) ==
  /\ pc[r] = "deleteRequest"
  /\ IF answering[r] \in FriendRequestIds
     THEN /\ friendRequests' = [friendRequests EXCEPT ![answering[r]] = None]
          /\ Goto(r, "ok")
     ELSE Goto(r, "failed") /\ UNCHANGED friendRequests
  /\ UNCHANGED answering

FriendsStep(r) ==
  \/ ReceiveFriend(r) \/ FindOpen(r) \/ CreateRequest(r) \/ FindPending(r)
  \/ Respond(r) \/ FindAccepted(r) \/ DeleteRequest(r)
=============================================================================
