-------------------------- MODULE SessionLifecycle --------------------------
(***************************************************************************)
(* What the service promises of sessions (the rows of refresh_tokens): one *)
(* is opened for one account, for good; a session that replaces another is *)
(* opened for the same account when the other has ended; a step ends       *)
(* sessions of one account only; and what has ended stays so.              *)
(***************************************************************************)
CONSTANTS Ids, Users, None

VARIABLES state, owner, parent

lifecycle == <<state, owner, parent>>

Init ==
  /\ state = [x \in Ids |-> "none"]
  /\ owner = [x \in Ids |-> None]
  /\ parent = [x \in Ids |-> None]

Open(x, u, p) ==
  /\ state[x] = "none"
  /\ p # None => state[p] = "ended" /\ owner[p] = u
  /\ state' = [state EXCEPT ![x] = "live"]
  /\ owner' = [owner EXCEPT ![x] = u]
  /\ parent' = [parent EXCEPT ![x] = p]

End(u, xs) ==
  /\ \A x \in xs : state[x] # "none" /\ owner[x] = u
  /\ state' = [x \in Ids |-> IF x \in xs THEN "ended" ELSE state[x]]
  /\ UNCHANGED <<owner, parent>>

Next ==
  \E u \in Users :
    \/ \E x \in Ids, p \in Ids \cup {None} : Open(x, u, p)
    \/ \E xs \in SUBSET Ids : End(u, xs)

Spec == Init /\ [][Next]_lifecycle
=============================================================================
