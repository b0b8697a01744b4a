-------------------------- MODULE ContentProperties --------------------------
(***************************************************************************)
(* What Content is checked against, for calls and jobs that overlap and    *)
(* break off anywhere. Where those that are served at the same time spoil  *)
(* a promise, the property names them: earlier[r] and Rivals(r) are those  *)
(* that were over when r was received, and those that were not.            *)
(***************************************************************************)
EXTENDS Content

Steps ==
  {"idle"} \cup Answered \cup NotificationSteps \cup FeedSteps \cup ReportSteps

(* The types of the tables, with their foreign keys.                       *)
TypeOK ==
  /\ load \in Loads /\ pc \in [Requests -> Steps]
  /\ items \in [Requests -> Items \cup {None}]
  /\ \A x \in Requests : items[x] # None /\ items[x].on # None =>
       items[items[x].on] # None /\ items[items[x].on].kind = "post"
  /\ \A l \in likes : items[l[1]] # None /\ l[2] \in Users
  /\ \A v \in views : items[v[1]].kind = "story" /\ v[2] \in Users
  /\ reports \in [Requests -> ReportRows \cup {None}]
  /\ alerting \in [Requests -> SUBSET Moderators]
  /\ notes \in [NoteIds -> Notes \cup {None}]
  /\ \A n \in NoteIds : telling[n] # None => pc[n[1]] = "telling"
  /\ prefs \in [Users -> {"on", "off", None}]
  /\ devices \in [Tokens -> Users \cup {None}]
  /\ pushes \subseteq Pushes /\ dropping \subseteq SUBSET Tokens
  /\ missed \subseteq Tokens

(* Users lose a device only when they unregister it or when a push to it   *)
(* did not arrive, whatever pushes and calls run meanwhile.                *)
DevicesAreKept ==
  [][\A t \in Tokens : devices[t] # None /\ devices'[t] = None =>
       \/ t \in missed
       \/ \E r \in Requests : /\ pc[r] = "unregister" /\ call[r].token = t
                              /\ call[r].user = devices[t]]_vars

(* The calls that push notification n: the one that made it, and its jobs. *)
PushesNote(r, n) == r = n[1] \/ (call[r].op = "dispatch" /\ call[r].note = n)

(* A notification that has a pushSentAt is not pushed again, whether the   *)
(* call that created it or a run of its job sent it, unless two of them    *)
(* are under way at once.                                                  *)
PushedOnce ==
  [][\A n \in NoteIds :
       notes[n] # None /\ notes[n].pushed /\ sent'[n] # sent[n] =>
         \E r \in Requests : /\ pc[r] \in {"telling", "jobPush"} /\ PushesNote(r, n)
                            /\ \E o \in Rivals(r) : PushesNote(o, n)]_vars

(* Retried and repeated jobs leave one report of a user about a post: a    *)
(* run creates none when there is one of a call that was answered, or of a *)
(* run that broke off, before this run began.                              *)
OneReportPerReader ==
  [][\A r \in Requests :
       reports[r] = None /\ reports'[r] # None /\ call[r].op = "intake" =>
         SameReports(call[r]) \cap earlier[r] = {}]_vars
=============================================================================
