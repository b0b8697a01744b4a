---------------------------- MODULE Notifications ----------------------------
(***************************************************************************)
(* Notifications, preferences and push devices (NotificationsService,      *)
(* NotificationPreferenceService, PushDeviceService,                       *)
(* NotificationBroadcastService) and the worker of the queue notifications *)
(* (NotificationDispatchProcessor), in src/src/modules/notifications.      *)
(*                                                                         *)
(* A notification is named by the call that made it and the user it is     *)
(* for. Its type is left out, so that a user has one preference; mail is   *)
(* sent on a best-effort basis and changes nothing here. A job is a call   *)
(* that names its notification, and a retry of it one more such call.      *)
(***************************************************************************)
EXTENDS HttpCalls

CONSTANTS
  Users,         \* the users, which are active; others are told nothing
  Tokens,        \* what Firebase knows devices by
  DevicesBefore  \* the owner each token has at first

NoteIds == Requests \X Users

(* Notifications; how far a call is with one.                              *)
Notes == [read : BOOLEAN, pushed : BOOLEAN]
Telling == {"pref", "create", "createQuietly", "tokens", "stamp"}

ASSUME DeviceAssumption ==
  /\ DevicesBefore \in [Tokens -> Users \cup {None}]
  /\ None \notin Users \cup Notes \cup Telling

NotificationCalls ==
  [op : {"broadcast"}, to : SUBSET Users]
    \cup [op : {"dispatch"}, note : NoteIds]
    \cup [op : {"register", "unregister"}, user : Users, token : Tokens]
    \cup [op : {"setPush"}, user : Users, push : {"on", "off"}]
    \cup [op : {"markAllRead"}, user : Users]
    \cup [op : {"markRead", "deleteNote"}, user : Users, note : NoteIds]

Pushes == [note : NoteIds, tokens : SUBSET Tokens]

VARIABLES
  notes,      \* notifications: whether they are read, and have a pushSentAt
  telling,    \* how far each call is with notifying each user
  prefs,      \* notification_preferences: whether pushes are on
  devices,    \* push_devices: the user of each token
  pushes,     \* pushes on their way, for which no call waits
  dropping,   \* the tokens each removeStaleTokens is about to remove
  sent,       \* history: how often each notification was given to Firebase
  missed      \* history: the tokens that some push did not reach

notifying == <<notes, telling, prefs, devices, pushes, dropping, sent, missed>>

NotificationSteps ==
  {"findTargets", "telling", "findNote", "jobPref", "jobTokens", "jobPush", "jobStamp",
   "register", "unregister", "setPush", "markAllRead", "findOwnNote", "writeNote"}

NotificationsInit ==
  /\ notes = [n \in NoteIds |-> None]
  /\ telling = [n \in NoteIds |-> None]
  /\ prefs = [u \in Users |-> None]
  /\ devices = DevicesBefore
  /\ pushes = {} /\ dropping = {}
  /\ sent = [n \in NoteIds |-> 0]
  /\ missed = {}

NewNote == [read |-> FALSE, pushed |-> FALSE]
DevicesOf(u) == {t \in Tokens : devices[t] = u}

FirstNotificationStep(c) ==
  CASE c.op = "broadcast"                  -> "findTargets"
    [] c.op = "dispatch"                   -> "findNote"
    [] c.op \in {"markRead", "deleteNote"} -> "findOwnNote"
    [] OTHER                               -> c.op

ReceiveNotification(r) ==
  /\ Begin(r, NotificationCalls) /\ StartAt(r, FirstNotificationStep(call'[r]))
  /\ UNCHANGED notifying

-----------------------------------------------------------------------------
(* A call goes on to notify users, each of them on its own, and is         *)
(* answered when it has done so or given up.                               *)
Tell(r, us) ==
  /\ telling' = [n \in NoteIds |-> IF n \in {r} \X us THEN "pref" ELSE telling[n]]
  /\ Goto(r, IF us = {} THEN "ok" ELSE "telling")

FindTargets(r) ==
  /\ pc[r] = "findTargets"
  /\ Tell(r, call[r].to)
  /\ UNCHANGED <<notes, prefs, devices, pushes, dropping, sent, missed>>

(* NotificationsService.create reads the preference, on if there is none,  *)
FindPreference(n) ==
  /\ telling[n] = "pref"
  /\ telling' = [telling EXCEPT ![n] =
        IF prefs[n[2]] = "off" THEN "createQuietly" ELSE "create"]
  /\ UNCHANGED <<calls, notes, prefs, devices, pushes, dropping, sent, missed>>

CreateNote(n) ==
  /\ telling[n] \in {"create", "createQuietly"}
  /\ notes' = [notes EXCEPT ![n] = NewNote]
  /\ telling' = [telling EXCEPT ![n] = IF telling[n] = "create" THEN "tokens" ELSE None]
  /\ UNCHANGED <<calls, prefs, devices, pushes, dropping, sent, missed>>

(* ... sends a push to the devices of the user, waiting for nothing, and   *)
PushNote(n) ==
  LET xs == DevicesOf(n[2]) IN
  /\ telling[n] = "tokens"
  /\ IF xs # {}
     THEN /\ pushes' = pushes \cup {[note |-> n, tokens |-> xs]}
          /\ sent' = [sent EXCEPT ![n] = @ + 1]
     ELSE UNCHANGED <<pushes, sent>>
  /\ telling' = [telling EXCEPT ![n] = "stamp"]
  /\ UNCHANGED <<calls, notes, prefs, devices, dropping, missed>>

(* ... records that, also when there was no device.                        *)
Stamped(n) ==
  IF notes[n] # None THEN [notes EXCEPT ![n].pushed = TRUE] ELSE notes

StampNote(n) ==
  /\ telling[n] = "stamp"
  /\ notes' = Stamped(n)
  /\ telling' = [telling EXCEPT ![n] = None]
  /\ UNCHANGED <<calls, prefs, devices, pushes, dropping, sent, missed>>

(* Whoever notifies goes on when a query fails.                            *)
GiveUp(n) ==
  /\ telling[n] # None
  /\ telling' = [telling EXCEPT ![n] = None]
  /\ UNCHANGED <<calls, notes, prefs, devices, pushes, dropping, sent, missed>>

Told(r) ==
  /\ pc[r] = "telling" /\ \A u \in Users : telling[<<r, u>>] = None
  /\ Goto(r, "ok")
  /\ UNCHANGED notifying

-----------------------------------------------------------------------------
(* Fault: all the tokens of a push that failed for one are dropped.        *)
AllFailed(p, reached) == IF p.tokens = reached THEN {} ELSE p.tokens

(* The tokens that a push did not reach.                                   *)
Failed(p, reached) == p.tokens \ reached

(* A push reaches some of its tokens; none while Firebase is out of reach. *)
SendPush(p) ==
  /\ \E reached \in SUBSET p.tokens :
       /\ missed' = missed \cup (p.tokens \ reached)
       /\ dropping' = dropping \cup ({Failed(p, reached)} \ {{}})
  /\ pushes' = pushes \ {p}
  /\ UNCHANGED <<calls, notes, telling, prefs, devices, sent>>

(* removeStaleTokens, which may fail, removes the others.                  *)
DropDevices(xs) ==
  /\ devices' \in {devices, [t \in Tokens |-> IF t \in xs THEN None ELSE devices[t]]}
  /\ dropping' = dropping \ {xs}
  /\ UNCHANGED <<calls, notes, telling, prefs, pushes, sent, missed>>

-----------------------------------------------------------------------------
(* Fault: the worker does not ask whether a push was sent.                 *)
FindAnyNote(r) ==
  /\ pc[r] = "findNote"
  /\ Goto(r, IF notes[call[r].note] = None THEN "ok" ELSE "jobPref")
  /\ UNCHANGED notifying

(* The worker skips a notification that is gone, or has been pushed, ...   *)
FindNote(r) ==
  LET n == call[r].note IN
  /\ pc[r] = "findNote"
  /\ Goto(r, IF notes[n] = None \/ notes[n].pushed THEN "ok" ELSE "jobPref")
  /\ UNCHANGED notifying

FindJobPreference(r) ==
  /\ pc[r] = "jobPref"
  /\ Goto(r, IF prefs[call[r].note[2]] = "off" THEN "jobStamp" ELSE "jobTokens")
  /\ UNCHANGED notifying

(* ... reads the tokens, if any, ...                                       *)
JobTokens(r) ==
  /\ pc[r] = "jobTokens"
  /\ Goto(r, IF DevicesOf(call[r].note[2]) = {} THEN "jobStamp" ELSE "jobPush")
  /\ UNCHANGED notifying

(* ... sends to them itself, keeping the tokens that fail, and ...         *)
JobPush(r) ==
  /\ pc[r] = "jobPush"
  /\ sent' = [sent EXCEPT ![call[r].note] = @ + 1]
  /\ Goto(r, "jobStamp")
  /\ UNCHANGED <<notes, telling, prefs, devices, pushes, dropping, missed>>

(* ... is done whether or not it can record that.                          *)
JobStamp(r) ==
  /\ pc[r] = "jobStamp"
  /\ notes' \in {notes, Stamped(call[r].note)}
  /\ Goto(r, "ok")
  /\ UNCHANGED <<telling, prefs, devices, pushes, dropping, sent, missed>>

-----------------------------------------------------------------------------
(* A token belongs to the user who registered it last, ...                 *)
Register(r) ==
  /\ pc[r] = "register"
  /\ devices' = [devices EXCEPT ![call[r].token] = call[r].user]
  /\ Goto(r, "ok")
  /\ UNCHANGED <<notes, telling, prefs, pushes, dropping, sent, missed>>

(* ... and is unregistered if it is that user's; if it is not, then by     *)
(* token nothing happens, and by id the device is not found.               *)
Unregister(r) ==
  LET c == call[r]
      owned == devices[c.token] = c.user
  IN
  /\ pc[r] = "unregister"
  /\ devices' = IF owned THEN [devices EXCEPT ![c.token] = None] ELSE devices
  /\ Goto(r, "ok") \/ (~owned /\ Goto(r, "failed"))
  /\ UNCHANGED <<notes, telling, prefs, pushes, dropping, sent, missed>>

SetPreference(r) ==
  /\ pc[r] = "setPush"
  /\ prefs' = [prefs EXCEPT ![call[r].user] = call[r].push]
  /\ Goto(r, "ok")
  /\ UNCHANGED <<notes, telling, devices, pushes, dropping, sent, missed>>

MarkAllRead(r) ==
  /\ pc[r] = "markAllRead"
  /\ notes' = [n \in NoteIds |->
        IF notes[n] # None /\ n[2] = call[r].user
        THEN [notes[n] EXCEPT !.read = TRUE] ELSE notes[n]]
  /\ Goto(r, "ok")
  /\ UNCHANGED <<telling, prefs, devices, pushes, dropping, sent, missed>>

FindOwnNote(r) ==
  LET n == call[r].note IN
  /\ pc[r] = "findOwnNote"
  /\ Goto(r, IF notes[n] # None /\ n[2] = call[r].user THEN "writeNote" ELSE "failed")
  /\ UNCHANGED notifying

(* markRead and delete write the notification if it is still there.        *)
WriteNote(r) ==
  LET n == call[r].note IN
  /\ pc[r] = "writeNote"
  /\ IF notes[n] # None
     THEN /\ notes' = [notes EXCEPT ![n] =
               IF call[r].op = "deleteNote" THEN None ELSE [@ EXCEPT !.read = TRUE]]
          /\ Goto(r, "ok")
     ELSE Goto(r, "failed") /\ UNCHANGED notes
  /\ UNCHANGED <<telling, prefs, devices, pushes, dropping, sent, missed>>

NotificationStep(r) ==
  \/ ReceiveNotification(r) \/ FindTargets(r) \/ Told(r)
  \/ FindNote(r) \/ FindJobPreference(r) \/ JobTokens(r) \/ JobPush(r) \/ JobStamp(r)
  \/ Register(r) \/ Unregister(r) \/ SetPreference(r) \/ MarkAllRead(r)
  \/ FindOwnNote(r) \/ WriteNote(r)

Background ==
  \/ \E n \in NoteIds :
       FindPreference(n) \/ CreateNote(n) \/ PushNote(n) \/ StampNote(n) \/ GiveUp(n)
  \/ \E p \in pushes : SendPush(p)
  \/ \E xs \in dropping : DropDevices(xs)
=============================================================================
