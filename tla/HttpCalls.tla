------------------------------ MODULE HttpCalls ------------------------------
(***************************************************************************)
(* The calls that instances of the service (src/src/main.ts) answer. A     *)
(* call is an element of Requests; what it may turn out to be, and how     *)
(* many are served at the same time, is the load. A step of a call is the  *)
(* work between two awaits, so the steps of two calls interleave freely,   *)
(* and no call of the modules that extend this one locks a row.            *)
(***************************************************************************)
EXTENDS Integers, FiniteSets

CONSTANTS
  Requests,  \* the calls
  Loads,     \* the loads
  Script,    \* what each call may be under a load
  AtOnce,    \* how many calls are served at the same time under a load
  None       \* null

ASSUME LoadAssumption ==
  /\ DOMAIN Script = Loads
  /\ \A l \in Loads : DOMAIN Script[l] = Requests
  /\ AtOnce \in [Loads -> Nat \ {0}]

VARIABLES
  load,    \* the load, chosen once
  pc,      \* the step each call takes next
  call,    \* the call, once it is received
  earlier  \* history, which no step reads: while a call is served, the calls
           \* that were answered before it was received

calls == <<load, pc, call, earlier>>

Answered == {"ok", "failed"}

CallsInit ==
  /\ load \in Loads
  /\ pc = [r \in Requests |-> "idle"]
  /\ call = [r \in Requests |-> None]
  /\ earlier = [r \in Requests |-> {}]

Goto(r, step) ==
  /\ pc' = [pc EXCEPT ![r] = step]
  /\ earlier' = IF step \in Answered THEN [earlier EXCEPT ![r] = {}] ELSE earlier
  /\ UNCHANGED <<load, call>>

Active == {r \in Requests : pc[r] \notin {"idle"} \cup Answered}

(* The calls that are, or were, served at the same time as r, until now.   *)
Rivals(r) == {o \in Requests \ (earlier[r] \cup {r}) : pc[o] # "idle"}

(* A call is received, one of those that Kind has; StartAt is its first    *)
(* step.                                                                   *)
Begin(r, Kind) ==
  /\ pc[r] = "idle"
  /\ Cardinality(Active) < AtOnce[load]
  /\ \E c \in Script[load][r] \cap Kind : call' = [call EXCEPT ![r] = c]
  /\ UNCHANGED load

StartAt(r, step) ==
  /\ pc' = [pc EXCEPT ![r] = step]
  /\ earlier' = IF step \in Answered THEN earlier
                ELSE [earlier EXCEPT ![r] = {o \in Requests : pc[o] \in Answered}]

(* A crash or a failed query: the call ends where it is.                   *)
Break(r) == r \in Active /\ Goto(r, "failed")

AllAnswered == \A r \in Requests : pc[r] \in Answered \/ Script[load][r] = {}
=============================================================================
