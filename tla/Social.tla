------------------------------- MODULE Social -------------------------------
(***************************************************************************)
(* Friends, conversations, group trips and trip requests as one system:    *)
(* the components share their tables, friendships decide who may be added  *)
(* to a conversation, and a participant may leave the chat of a group trip *)
(* or write in the conversation of a trip request behind the back of the   *)
(* service that opened it. Calls of all four interleave at every await.    *)
(***************************************************************************)
EXTENDS Chat, GroupTrips, TripRequests

ASSUME ScriptAssumption ==
  \A l \in Loads, r \in Requests :
    Script[l][r] \subseteq FriendCalls \cup ChatCalls \cup GroupCalls \cup TripCalls

mail == <<messaging, receipting, todo>>
groupTrip == <<group, groupLocal>>
tripRequesting == <<trips, inbox>>
tables == <<friendship, chat, mail, groupTrip, tripRequesting>>
vars == <<calls, tables>>

Init ==
  /\ CallsInit /\ FriendsInit /\ ChatStoreInit
  /\ ChatInit /\ GroupInit /\ TripInit

(* A crash or a failed query. *)
Fail(r) == Break(r) /\ UNCHANGED tables

Done == AllAnswered /\ UNCHANGED vars

Next ==
  \/ Done
  \/ \E r \in Requests :
       \/ FriendsStep(r) /\ UNCHANGED <<chat, mail, groupTrip, tripRequesting>>
       \/ ChatStep(r) /\ UNCHANGED <<friendship, groupTrip, tripRequesting>>
       \/ GroupStep(r) /\ UNCHANGED <<friendship, mail, tripRequesting>>
       \/ TripStep(r) /\ UNCHANGED <<friendship, receipting, todo, groupTrip>>
       \/ Fail(r)

Spec == Init /\ [][Next]_vars
=============================================================================
