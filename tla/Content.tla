------------------------------- MODULE Content -------------------------------
(***************************************************************************)
(* What users publish, report and are told of: Feed and Reports, and the   *)
(* Notifications that both write. Calls, runs of jobs and the pushes that  *)
(* no call waits for interleave at every await.                            *)
(***************************************************************************)
EXTENDS Feed, Reports

ASSUME ContentAssumption ==
  \A l \in Loads, r \in Requests :
    Script[l][r] \subseteq FeedCalls \cup ReportCalls \cup NotificationCalls

tables == <<feed, reporting, notifying>>
vars == <<calls, tables>>

Init == CallsInit /\ NotificationsInit /\ FeedInit /\ ReportsInit

(* A crash or a failed query, with what the call has not done yet.         *)
Fail(r) ==
  /\ Break(r)
  /\ telling' = [n \in NoteIds |-> IF n[1] = r THEN None ELSE telling[n]]
  /\ alerting' = [alerting EXCEPT ![r] = {}]
  /\ UNCHANGED <<feed, reports, notes, prefs, devices, pushes, dropping, sent, missed>>

Done == AllAnswered /\ pushes = {} /\ dropping = {} /\ UNCHANGED vars

Next ==
  \/ Done
  \/ Background /\ UNCHANGED <<feed, reporting>>
  \/ \E r \in Requests :
       \/ NotificationStep(r) /\ UNCHANGED <<feed, reporting>>
       \/ FeedStep(r) /\ UNCHANGED reporting
       \/ ReportStep(r) /\ UNCHANGED feed
       \/ Fail(r)

Spec == Init /\ [][Next]_vars
=============================================================================
