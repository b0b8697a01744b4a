------------------------------ MODULE Overlaps ------------------------------
(***************************************************************************)
(* What the proofs about the modules that extend HttpCalls say of calls    *)
(* that overlap. A call that reads something in one step and relies on it  *)
(* in a later one is right as long as only its Rivals could have changed   *)
(* it meanwhile, and it keeps its rivals for as long as it is served.      *)
(***************************************************************************)
EXTENDS HttpCalls

(* Calls that were over when another was received are over.                *)
EarlierIsOver ==
  /\ earlier \in [Requests -> SUBSET Requests]
  /\ \A r \in Requests : \A o \in earlier[r] : pc[o] \in Answered

(* A step of one call: only that call moves, and has not been answered.    *)
StepOf(r) ==
  /\ pc[r] \notin Answered /\ pc'[r] # "idle"
  /\ \A o \in Requests \ {r} : pc'[o] = pc[o] /\ call'[o] = call[o]
  /\ pc[r] # "idle" => call'[r] = call[r]
  /\ earlier' = IF pc'[r] \in Answered
                THEN IF pc[r] = "idle" THEN earlier ELSE [earlier EXCEPT ![r] = {}]
                ELSE IF pc[r] = "idle"
                THEN [earlier EXCEPT ![r] = {o \in Requests : pc[o] \in Answered}]
                ELSE earlier
  /\ UNCHANGED load
=============================================================================
