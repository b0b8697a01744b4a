---------------------------- MODULE ContentProofs ----------------------------
(***************************************************************************)
(* Proofs about Content, for any users, devices, calls and loads: a user   *)
(* loses a device only by the user's own call or when a push did not reach *)
(* it. Pushes run when nobody waits for them any more, and what they found *)
(* out is applied later still, to whoever has the token by then. Then the  *)
(* types of all variables, and what calls and runs of jobs rely on while   *)
(* others overlap: no second report of a reader, and no second push of a   *)
(* notification, but by those that were served at the same time.           *)
(***************************************************************************)
EXTENDS ContentProperties, Overlaps, TLAPS

(* What removeStaleTokens is about to drop was missed, and a registration  *)
(* is of a user.                                                           *)
DevicesInv ==
  /\ DOMAIN pc = Requests /\ DOMAIN call = Requests /\ DOMAIN devices = Tokens
  /\ \A xs \in dropping : xs \subseteq missed
  /\ \A r \in Requests : pc[r] = "register" => call[r].user \in Users

(* A step that leaves devices and pushes alone and registers nothing.      *)
Apart(r) ==
  /\ DOMAIN pc' = Requests /\ DOMAIN call' = Requests
  /\ \A o \in Requests \ {r} : pc'[o] = pc[o] /\ call'[o] = call[o]
  /\ pc'[r] # "register"
  /\ UNCHANGED <<devices, dropping, missed>>

LEMMA ApartKeeps ==
  ASSUME DevicesInv, NEW r \in Requests, Apart(r)
  PROVE  DevicesInv'
BY DEF DevicesInv, Apart

LEMMA FeedApart ==
  ASSUME DevicesInv, NEW r \in Requests, FeedStep(r)
  PROVE  Apart(r)
<1> USE DEF DevicesInv, Apart, Goto, notifying
<1>1. CASE ReceiveFeed(r)
  BY <1>1 DEF ReceiveFeed, FirstFeedStep, Begin, StartAt
<1>2. CASE FindItem(r) \/ EditItem(r)
  BY <1>2 DEF FindItem, AfterItem, EditItem
<1>3. CASE CreateItem(r)
  BY <1>3 DEF CreateItem, Tell
<1>4. CASE RemoveItem(r)
  BY <1>4 DEF RemoveItem
<1>5. CASE FindLike(r) \/ DeleteLike(r)
  BY <1>5 DEF FindLike, DeleteLike
<1>6. CASE CreateLike(r)
  BY <1>6 DEF CreateLike, Tell
<1>7. CASE FindView(r) \/ CreateView(r)
  BY <1>7 DEF FindView, CreateView
<1> QED
  BY <1>1, <1>2, <1>3, <1>4, <1>5, <1>6, <1>7 DEF FeedStep

LEMMA ReportsApart ==
  ASSUME DevicesInv, NEW r \in Requests, ReportStep(r)
  PROVE  Apart(r)
<1> USE DEF DevicesInv, Apart, Goto, notifying
<1>1. CASE ReceiveReport(r)
  BY <1>1 DEF ReceiveReport, FirstReportStep, Begin, StartAt
<1>2. CASE FileReport(r) \/ FindReport(r) \/ ReviewReport(r)
  BY <1>2 DEF FileReport, FindReport, ReviewReport
<1>3. CASE FindExisting(r) \/ CreateReport(r) \/ FindAdmins(r)
  BY <1>3 DEF FindExisting, CreateReport, FindAdmins
<1>4. CASE Alert(r)
  BY <1>4 DEF Alert
<1> QED
  BY <1>1, <1>2, <1>3, <1>4 DEF ReportStep

LEMMA NotesApart ==
  ASSUME DevicesInv, NEW r \in Requests, NotificationStep(r),
         ~ReceiveNotification(r), ~Register(r), ~Unregister(r)
  PROVE  Apart(r)
<1> USE DEF DevicesInv, Apart, Goto, notifying
<1>1. CASE FindTargets(r) \/ Told(r)
  BY <1>1 DEF FindTargets, Told, Tell
<1>2. CASE FindNote(r) \/ FindJobPreference(r) \/ JobTokens(r) \/ JobPush(r) \/ JobStamp(r)
  BY <1>2 DEF FindNote, FindJobPreference, JobTokens, JobPush, JobStamp
<1>3. CASE SetPreference(r) \/ MarkAllRead(r)
  BY <1>3 DEF SetPreference, MarkAllRead
<1>4. CASE FindOwnNote(r) \/ WriteNote(r)
  BY <1>4 DEF FindOwnNote, WriteNote
<1> QED
  BY <1>1, <1>2, <1>3, <1>4 DEF NotificationStep

-----------------------------------------------------------------------------
(* What a step may do to the devices.                                      *)
Loses ==
  \A t \in Tokens : devices[t] # None /\ devices'[t] = None =>
    \/ t \in missed
    \/ \E r \in Requests : /\ pc[r] = "unregister" /\ call[r].token = t
                           /\ call[r].user = devices[t]

LEMMA DeviceCalls ==
  ASSUME DevicesInv, NEW r \in Requests,
         ReceiveNotification(r) \/ Register(r) \/ Unregister(r)
  PROVE  DevicesInv' /\ Loses
<1> USE DEF DevicesInv, Goto, notifying
<1>1. CASE ReceiveNotification(r)
  <2>1. PICK c \in NotificationCalls : call' = [call EXCEPT ![r] = c]
    BY <1>1 DEF ReceiveNotification, Begin
  <2>2. c.op = "register" => c.user \in Users
    BY DEF NotificationCalls
  <2>3. FirstNotificationStep(c) = "register" => c.op = "register"
    BY DEF FirstNotificationStep
  <2>4. call'[r] = c /\ pc'[r] = FirstNotificationStep(c)
    BY <1>1, <2>1 DEF ReceiveNotification, StartAt, Begin
  <2>5. \A o \in Requests \ {r} : pc'[o] = pc[o] /\ call'[o] = call[o]
    BY <1>1, <2>1 DEF ReceiveNotification, StartAt
  <2>6. UNCHANGED <<devices, dropping, missed>>
        /\ DOMAIN pc' = Requests /\ DOMAIN call' = Requests
    BY <1>1, <2>1 DEF ReceiveNotification, StartAt
  <2>7. DevicesInv'
    BY <2>2, <2>3, <2>4, <2>5, <2>6
  <2> QED
    BY <2>6, <2>7 DEF Loses
<1>2. CASE Register(r)
  BY <1>2, DeviceAssumption DEF Register, Loses
<1>3. CASE Unregister(r)
  BY <1>3 DEF Unregister, Loses
<1> QED
  BY <1>1, <1>2, <1>3

LEMMA BackgroundStep ==
  ASSUME DevicesInv, Background
  PROVE  DevicesInv' /\ Loses
<1> USE DEF DevicesInv, calls
<1>1. ASSUME NEW n \in NoteIds,
             FindPreference(n) \/ CreateNote(n) \/ PushNote(n) \/ StampNote(n) \/ GiveUp(n)
      PROVE  DevicesInv' /\ Loses
  BY <1>1 DEF FindPreference, CreateNote, PushNote, StampNote, GiveUp, Loses
<1>2. ASSUME NEW p \in pushes, SendPush(p)
      PROVE  DevicesInv' /\ Loses
  <2>1. PICK reached \in SUBSET p.tokens :
          /\ missed' = missed \cup (p.tokens \ reached)
          /\ dropping' = dropping \cup ({Failed(p, reached)} \ {{}})
    BY <1>2 DEF SendPush
  <2>2. UNCHANGED <<pc, call, devices>>
    BY <1>2 DEF SendPush
  <2> QED
    BY <2>1, <2>2 DEF Failed, Loses
<1>3. ASSUME NEW xs \in dropping, DropDevices(xs)
      PROVE  DevicesInv' /\ Loses
  <2>1. /\ UNCHANGED devices
           \/ devices' = [t \in Tokens |-> IF t \in xs THEN None ELSE devices[t]]
        /\ dropping' = dropping \ {xs} /\ UNCHANGED <<pc, call, missed>>
    BY <1>3 DEF DropDevices
  <2> QED
    BY <2>1 DEF Loses
<1> QED
  BY <1>1, <1>2, <1>3 DEF Background

LEMMA DevicesStep ==
  ASSUME DevicesInv, [Next]_vars
  PROVE  DevicesInv' /\ Loses
<1>1. CASE UNCHANGED vars \/ Done
  BY <1>1 DEF Done, vars, calls, tables, notifying, DevicesInv, Loses
<1>2. ASSUME NEW r \in Requests, FeedStep(r) \/ ReportStep(r)
      PROVE  DevicesInv' /\ Loses
  BY <1>2, FeedApart, ReportsApart, ApartKeeps DEF Apart, Loses
<1>3. ASSUME NEW r \in Requests, NotificationStep(r)
      PROVE  DevicesInv' /\ Loses
  BY <1>3, NotesApart, ApartKeeps, DeviceCalls DEF Apart, Loses
<1>4. ASSUME NEW r \in Requests, Fail(r)
      PROVE  DevicesInv' /\ Loses
  BY <1>4 DEF Fail, Break, Goto, DevicesInv, Loses
<1> QED
  BY <1>1, <1>2, <1>3, <1>4, BackgroundStep DEF Next

(* Whatever calls, pushes and removals of stale tokens overlap, a user     *)
(* loses no device but by an own call or by a push that did not reach it.  *)
THEOREM DevicesStay == Spec => DevicesAreKept
<1>1. Init => DevicesInv
  BY DeviceAssumption DEF Init, CallsInit, NotificationsInit, DevicesInv
<1>2. DevicesInv /\ [Next]_vars => DevicesInv' /\ [Loses]_vars
  BY DevicesStep
<1> QED
  BY <1>1, <1>2, PTL DEF Spec, DevicesAreKept, Loses
-----------------------------------------------------------------------------
(* Overlaps: what a step of one call does to those that are served with it.*)
LEMMA EarlierStep ==
  ASSUME EarlierIsOver, NEW r \in Requests, StepOf(r)
  PROVE  EarlierIsOver'
<1>1. earlier' \in [Requests -> SUBSET Requests]
  BY DEF EarlierIsOver, StepOf
<1>2. \A q \in Requests : \A o \in earlier'[q] : pc[o] \in Answered
  BY DEF EarlierIsOver, StepOf
<1> QED
  BY <1>1, <1>2 DEF EarlierIsOver, StepOf

(* The call that takes a step is a rival of all others that are served.    *)
LEMMA OthersMeet ==
  ASSUME EarlierIsOver, NEW r \in Requests, StepOf(r), NEW q \in Requests \ {r}
  PROVE  r \in Rivals(q)' /\ Rivals(q) \subseteq Rivals(q)' /\ earlier'[q] = earlier[q]
<1>1. earlier'[q] = earlier[q] /\ r \notin earlier[q]
  BY DEF EarlierIsOver, StepOf
<1> QED
  BY <1>1 DEF Rivals, StepOf

(* A call keeps its own rivals until it is answered.                       *)
LEMMA RivalsStay ==
  ASSUME EarlierIsOver, NEW r \in Requests, StepOf(r), pc[r] # "idle", pc'[r] \notin Answered
  PROVE  Rivals(r) \subseteq Rivals(r)' /\ earlier'[r] = earlier[r]
<1>1. earlier'[r] = earlier[r]
  BY DEF StepOf
<1> QED
  BY <1>1 DEF Rivals, StepOf

-----------------------------------------------------------------------------
(* Paths: a call keeps to the steps of its operation.                      *)
ContentCalls == FeedCalls \cup ReportCalls \cup NotificationCalls

(* The calls have the fields that the steps read.                          *)
LEMMA Fields ==
  ASSUME NEW c \in ContentCalls
  PROVE  /\ c.op \in {"post", "story", "edit", "remove", "like", "unlike", "comment", "repost",
                      "view"} => c.user \in Users
         /\ c.op \in {"edit", "remove", "like", "unlike", "comment", "repost", "view"} =>
              c.item \in Requests
         /\ c.op \in {"report", "intake"} => c.user \in Users /\ c.target \in Requests
         /\ c.op = "reviewReport" => c.report \in Requests /\ c.status \in ReportStatuses
         /\ c.op = "broadcast" => c.to \in SUBSET Users
         /\ c.op \in {"dispatch", "markRead", "deleteNote"} => c.note \in NoteIds
         /\ c.op \in {"register", "unregister"} => c.user \in Users /\ c.token \in Tokens
         /\ c.op = "setPush" => c.user \in Users /\ c.push \in {"on", "off"}
         /\ c.op = "markAllRead" => c.user \in Users
<1>1. CASE c \in FeedCalls
  BY <1>1 DEF FeedCalls
<1>2. CASE c \in ReportCalls
  BY <1>2 DEF ReportCalls
<1>3. CASE c \in NotificationCalls
  BY <1>3 DEF NotificationCalls
<1> QED
  BY <1>1, <1>2, <1>3 DEF ContentCalls

LEMMA Operations ==
  ASSUME NEW c
  PROVE  /\ c \in FeedCalls => c.op \in
              {"post", "story", "edit", "remove", "like", "unlike", "comment", "repost", "view"}
         /\ c \in ReportCalls => c.op \in {"report", "intake", "reviewReport"}
         /\ c \in NotificationCalls => c.op \in
              {"broadcast", "dispatch", "register", "unregister", "setPush", "markAllRead",
               "markRead", "deleteNote"}
<1>1. c \in FeedCalls => c.op \in
        {"post", "story", "edit", "remove", "like", "unlike", "comment", "repost", "view"}
  BY DEF FeedCalls
<1>2. c \in ReportCalls => c.op \in {"report", "intake", "reviewReport"}
  BY DEF ReportCalls
<1>3. c \in NotificationCalls => c.op \in
        {"broadcast", "dispatch", "register", "unregister", "setPush", "markAllRead",
         "markRead", "deleteNote"}
  BY DEF NotificationCalls
<1> QED
  BY <1>1, <1>2, <1>3

StepsOf(op) ==
  CASE op \in {"post", "story"}     -> {"createItem"}
    [] op \in {"comment", "repost"} -> {"findItem", "createItem", "telling"}
    [] op = "edit"                  -> {"findItem", "editItem"}
    [] op = "remove"                -> {"findItem", "removeItem"}
    [] op = "like"                  -> {"findItem", "findLike", "createLike", "telling"}
    [] op = "unlike"                -> {"findLike", "deleteLike"}
    [] op = "view"                  -> {"findItem", "findView", "createView"}
    [] op = "report"                -> {"fileReport"}
    [] op = "intake"                -> {"findExisting", "createReport", "findAdmins", "alert"}
    [] op = "reviewReport"          -> {"findReport", "reviewReport"}
    [] op = "broadcast"             -> {"findTargets", "telling"}
    [] op = "dispatch"              -> {"findNote", "jobPref", "jobTokens", "jobPush", "jobStamp"}
    [] op \in {"markRead", "deleteNote"} -> {"findOwnNote", "writeNote"}
    [] op \in {"register", "unregister", "setPush", "markAllRead"} -> {op}
    [] OTHER                        -> {}

(* A call is at a step of its own operation.                               *)
OnPath(r) ==
  pc[r] # "idle" => call[r] \in ContentCalls /\ pc[r] \in StepsOf(call[r].op) \cup Answered

Path ==
  /\ pc = [r \in Requests |-> pc[r]] /\ DOMAIN call = Requests
  /\ \A r \in Requests : OnPath(r)

(* What every step of a call keeps to.                                     *)
Moves(r) ==
  /\ StepOf(r)
  /\ pc' = [pc EXCEPT ![r] = pc'[r]] /\ DOMAIN call' = Requests
  /\ pc[r] = "telling" => pc'[r] \in Answered
  /\ OnPath(r)'

(* A call that is received.                                                *)
LEMMA BeginMoves ==
  ASSUME Path, NEW r \in Requests, NEW Ks, Begin(r, Ks), Ks \subseteq ContentCalls,
         NEW step, StartAt(r, step), step # "idle",
         step \in StepsOf(call'[r].op) \cup Answered
  PROVE  Moves(r) /\ call'[r] \in Ks
BY DEF Begin, StartAt, Path, OnPath, Moves, StepOf, Answered

LEMMA FeedMoves ==
  ASSUME Path, NEW r \in Requests, FeedStep(r)
  PROVE  Moves(r)
<1>1. CASE ReceiveFeed(r)
  <2>1. Begin(r, FeedCalls) /\ StartAt(r, FirstFeedStep(call'[r]))
    BY <1>1 DEF ReceiveFeed
  <2>2. call'[r] \in FeedCalls
    BY <2>1 DEF Begin, Path
  <2>3. /\ FirstFeedStep(call'[r]) # "idle"
        /\ FirstFeedStep(call'[r]) \in StepsOf(call'[r].op)
    BY <2>2, Operations DEF FirstFeedStep, StepsOf
  <2> QED
    BY <2>1, <2>3, BeginMoves DEF ContentCalls
<1> USE DEF Path, OnPath, Moves, StepOf, Goto, StepsOf, Answered
<1>2. CASE FindItem(r) \/ EditItem(r)
  BY <1>2 DEF FindItem, AfterItem, EditItem
<1>3. CASE CreateItem(r)
  BY <1>3 DEF CreateItem, Tell, AuthorToTell
<1>4. CASE RemoveItem(r)
  BY <1>4 DEF RemoveItem
<1>5. CASE FindLike(r) \/ DeleteLike(r)
  BY <1>5 DEF FindLike, DeleteLike
<1>6. CASE CreateLike(r)
  BY <1>6 DEF CreateLike, Tell
<1>7. CASE FindView(r) \/ CreateView(r)
  BY <1>7 DEF FindView, CreateView
<1> QED
  BY <1>1, <1>2, <1>3, <1>4, <1>5, <1>6, <1>7 DEF FeedStep

LEMMA ReportsMove ==
  ASSUME Path, NEW r \in Requests, ReportStep(r)
  PROVE  Moves(r)
<1>1. CASE ReceiveReport(r)
  <2>1. Begin(r, ReportCalls) /\ StartAt(r, FirstReportStep(call'[r]))
    BY <1>1 DEF ReceiveReport
  <2>2. call'[r] \in ReportCalls
    BY <2>1 DEF Begin, Path
  <2>3. /\ FirstReportStep(call'[r]) # "idle"
        /\ FirstReportStep(call'[r]) \in StepsOf(call'[r].op) \cup Answered
    BY <2>2, Operations DEF FirstReportStep, StepsOf, Answered
  <2> QED
    BY <2>1, <2>3, BeginMoves DEF ContentCalls
<1> USE DEF Path, OnPath, Moves, StepOf, Goto, StepsOf, Answered
<1>2. CASE FileReport(r) \/ FindReport(r) \/ ReviewReport(r)
  BY <1>2 DEF FileReport, FindReport, ReviewReport
<1>3. CASE FindExisting(r) \/ CreateReport(r) \/ FindAdmins(r)
  BY <1>3 DEF FindExisting, CreateReport, FindAdmins
<1>4. CASE Alert(r)
  BY <1>4 DEF Alert
<1> QED
  BY <1>1, <1>2, <1>3, <1>4 DEF ReportStep

LEMMA NotesMove ==
  ASSUME Path, NEW r \in Requests, NotificationStep(r)
  PROVE  Moves(r)
<1>1. CASE ReceiveNotification(r)
  <2>1. Begin(r, NotificationCalls) /\ StartAt(r, FirstNotificationStep(call'[r]))
    BY <1>1 DEF ReceiveNotification
  <2>2. call'[r] \in NotificationCalls
    BY <2>1 DEF Begin, Path
  <2>3. /\ FirstNotificationStep(call'[r]) # "idle"
        /\ FirstNotificationStep(call'[r]) \in StepsOf(call'[r].op)
    BY <2>2, Operations DEF FirstNotificationStep, StepsOf
  <2> QED
    BY <2>1, <2>3, BeginMoves DEF ContentCalls
<1> USE DEF Path, OnPath, Moves, StepOf, Goto, StepsOf, Answered
<1>2. CASE FindTargets(r) \/ Told(r)
  BY <1>2 DEF FindTargets, Told, Tell
<1>3. CASE FindNote(r) \/ FindJobPreference(r) \/ JobTokens(r) \/ JobPush(r) \/ JobStamp(r)
  BY <1>3 DEF FindNote, FindJobPreference, JobTokens, JobPush, JobStamp
<1>4. CASE Register(r) \/ Unregister(r) \/ SetPreference(r) \/ MarkAllRead(r)
  BY <1>4 DEF Register, Unregister, SetPreference, MarkAllRead
<1>5. CASE FindOwnNote(r) \/ WriteNote(r)
  BY <1>5 DEF FindOwnNote, WriteNote
<1> QED
  BY <1>1, <1>2, <1>3, <1>4, <1>5 DEF NotificationStep

(* A step of a call, whichever component it belongs to.                    *)
StepOfContent(r) ==
  \/ NotificationStep(r) /\ UNCHANGED <<feed, reporting>>
  \/ FeedStep(r) /\ UNCHANGED reporting
  \/ ReportStep(r) /\ UNCHANGED feed
  \/ Fail(r)

LEMMA ContentMoves ==
  ASSUME Path, NEW r \in Requests, StepOfContent(r)
  PROVE  Moves(r) /\ Path'
<1>1. CASE Fail(r)
  BY <1>1 DEF Fail, Break, Goto, StepOf, Moves, Path, OnPath, Answered, Active
<1>2. Moves(r)
  BY <1>1, FeedMoves, ReportsMove, NotesMove DEF StepOfContent
<1> QED
  BY <1>2 DEF Moves, Path, OnPath, StepOf, Answered

-----------------------------------------------------------------------------
(* Types of the feed. A call that has made an item is done with it, so its *)
(* operation tells for ever what kind of item it was.                      *)
Made(x) == call[x] \in ContentCalls /\ pc[x] \in {"telling"} \cup Answered

IsA(x, kinds) == Made(x) /\ Kind(call[x].op) \in kinds

(* What a call about an item relies on.                                    *)
FeedKnown(r) ==
  /\ pc[r] = "createItem" /\ call[r].op \in {"comment", "repost"} =>
       IsA(call[r].item, {"post"})
  /\ pc[r] = "removeItem" => IsA(call[r].item, {"post", "comment"})
  /\ pc[r] \in {"findView", "createView"} =>
       items[call[r].item] # None /\ items[call[r].item].kind = "story"

ItemsAre ==
  /\ items \in [Requests -> Items \cup {None}]
  /\ \A x \in Requests : items[x] # None => IsA(x, {items[x].kind})
  /\ \A x \in Requests : items[x] # None /\ items[x].on # None =>
       items[items[x].on] # None /\ items[items[x].on].kind = "post"

ResponsesAre ==
  /\ \A l \in likes : l \in Requests \X Users /\ items[l[1]] # None
  /\ \A v \in views :
       v \in Requests \X Users /\ items[v[1]] # None /\ items[v[1]].kind = "story"

FeedTypes == ItemsAre /\ ResponsesAre /\ \A r \in Requests : FeedKnown(r)

LEMMA KindIs ==
  ASSUME NEW op
  PROVE  Kind(op) \in {"post", "comment", "story"}
BY DEF Kind

(* What is made stays made, whoever takes a step.                          *)
LEMMA StaysMade ==
  ASSUME Path, NEW r \in Requests, Moves(r), NEW x \in Requests, NEW kinds, IsA(x, kinds)
  PROVE  IsA(x, kinds)'
<1>1. CASE x = r
  <2>1. pc[r] = "telling" /\ call'[r] = call[r]
    BY <1>1 DEF IsA, Made, Moves, StepOf
  <2>2. pc'[r] \in {"telling"} \cup Answered
    BY <1>1, <2>1 DEF Moves
  <2> QED
    BY <1>1, <2>1, <2>2 DEF IsA, Made
<1>2. CASE x # r
  BY <1>2 DEF IsA, Made, Moves, StepOf
<1> QED
  BY <1>1, <1>2

(* An item that a call finds, or is about to make.                         *)
LEMMA Suited ==
  ASSUME Path, ItemsAre, NEW r \in Requests, call[r] \in ContentCalls, Suits(call[r]),
         call[r].op \in {"comment", "repost", "remove", "edit", "view", "like"}
  PROVE  LET x == call[r].item IN
         /\ items[x] \in Items
         /\ call[r].op = "view" => items[x].kind = "story"
         /\ call[r].op \in {"comment", "repost"} => IsA(x, {"post"})
         /\ call[r].op = "remove" => IsA(x, {"post", "comment"})
<1>1. call[r].item \in Requests
  BY Fields
<1>2. items[call[r].item] # None /\ items[call[r].item] \in Items
  BY <1>1 DEF Suits, ItemsAre
<1>3. IsA(call[r].item, {items[call[r].item].kind})
  BY <1>1, <1>2 DEF ItemsAre
<1>4. items[call[r].item].kind \in {"post", "comment", "story"}
  BY <1>2 DEF Items
<1> QED
  BY <1>1, <1>2, <1>3, <1>4 DEF Suits, IsA

(* What other calls know of items stays so, as long as stories stay.       *)
StoriesStay ==
  \A x \in Requests : items[x] # None /\ items[x].kind = "story" =>
    items'[x] # None /\ items'[x].kind = "story"

LEMMA OthersKnow ==
  ASSUME Path, \A o \in Requests : FeedKnown(o), NEW r \in Requests, Moves(r), StoriesStay,
         NEW o \in Requests \ {r}
  PROVE  FeedKnown(o)'
<1>1. pc'[o] = pc[o] /\ call'[o] = call[o] /\ OnPath(o)
  BY DEF Moves, StepOf, Path
<1>2. CASE pc[o] \in {"createItem", "removeItem", "findView", "createView"}
           /\ call[o].op \notin {"post", "story"}
  <2>1. call[o].item \in Requests
    BY <1>1, <1>2, Fields DEF OnPath, StepsOf, Answered
  <2>2. PICK x \in Requests : x = call[o].item
    BY <2>1
  <2>3. IsA(x, {"post"}) => IsA(x, {"post"})'
    BY StaysMade
  <2>4. IsA(x, {"post", "comment"}) => IsA(x, {"post", "comment"})'
    BY StaysMade
  <2> QED
    BY <1>1, <2>2, <2>3, <2>4 DEF FeedKnown, StoriesStay
<1>3. CASE pc[o] \notin {"createItem", "removeItem", "findView", "createView"}
  BY <1>1, <1>3 DEF FeedKnown
<1>4. CASE pc[o] = "createItem" /\ call[o].op \in {"post", "story"}
  BY <1>1, <1>4 DEF FeedKnown
<1> QED
  BY <1>1, <1>2, <1>3, <1>4 DEF OnPath, StepsOf, Answered

(* Steps that leave the items, or all of the feed, alone.                  *)
LEMMA ItemsStay ==
  ASSUME Path, FeedTypes, NEW r \in Requests, Moves(r), UNCHANGED items
  PROVE  ItemsAre' /\ \A o \in Requests \ {r} : FeedKnown(o)'
<1>1. \A x \in Requests : items'[x] # None => IsA(x, {items[x].kind})'
  <2> SUFFICES ASSUME NEW x \in Requests, items[x] # None
               PROVE  IsA(x, {items[x].kind})'
    OBVIOUS
  <2>1. PICK k : k = items[x].kind
    OBVIOUS
  <2> QED
    BY <2>1, StaysMade DEF FeedTypes, ItemsAre
<1> QED
  BY <1>1, OthersKnow DEF FeedTypes, ItemsAre, StoriesStay

LEMMA FeedStays ==
  ASSUME Path, FeedTypes, NEW r \in Requests, Moves(r), UNCHANGED feed, FeedKnown(r)'
  PROVE  FeedTypes'
BY ItemsStay DEF FeedTypes, ResponsesAre, feed

LEMMA FeedTyped ==
  ASSUME Path, FeedTypes, NEW r \in Requests, FeedStep(r)
  PROVE  FeedTypes'
<1>1. Moves(r) /\ OnPath(r) /\ OnPath(r)'
  BY FeedMoves DEF Path, Moves
<1>2. pc[r] # "idle" => call[r] \in ContentCalls /\ call'[r] = call[r]
  BY <1>1 DEF OnPath, Moves, StepOf
<1>3. r \in DOMAIN pc
  BY DEF Path
<1>4. CASE ReceiveFeed(r)
  <2>1. pc'[r] \in {"createItem", "findLike", "findItem"} /\ UNCHANGED feed
    BY <1>3, <1>4 DEF ReceiveFeed, StartAt, FirstFeedStep
  <2>2. pc'[r] = "createItem" => call'[r].op \in {"post", "story"}
    BY <1>3, <1>4 DEF ReceiveFeed, StartAt, FirstFeedStep
  <2> QED
    BY <1>1, <2>1, <2>2, FeedStays DEF FeedKnown
<1>5. CASE FindItem(r)
  <2>1. UNCHANGED feed /\ UNCHANGED call /\ pc[r] = "findItem"
    BY <1>5 DEF FindItem, Goto
  <2>2. /\ call[r] \in ContentCalls
        /\ call[r].op \in {"edit", "remove", "like", "view", "comment", "repost"}
    BY <1>1, <2>1 DEF OnPath, StepsOf, Answered
  <2>3. FeedKnown(r)'
    <3>1. CASE ~Suits(call[r])
      BY <1>3, <1>5, <3>1 DEF FindItem, Goto, FeedKnown
    <3>2. CASE Suits(call[r])
      <4>1. pc'[r] = AfterItem(call[r].op)
        BY <1>3, <1>5, <3>2 DEF FindItem, Goto
      <4>2. PICK x \in Requests : x = call[r].item
        BY <2>2, Fields
      <4>3. call[r].op \in {"comment", "repost"} => IsA(x, {"post"})'
        BY <1>1, <2>2, <3>2, <4>2, Suited, StaysMade DEF FeedTypes
      <4>4. call[r].op = "remove" => IsA(x, {"post", "comment"})'
        BY <1>1, <2>2, <3>2, <4>2, Suited, StaysMade DEF FeedTypes
      <4>5. call[r].op = "view" => items[call[r].item] # None /\ items[call[r].item].kind = "story"
        BY <2>2, <3>2, Suited, FeedAssumption DEF FeedTypes
      <4> QED
        BY <2>1, <2>2, <4>1, <4>2, <4>3, <4>4, <4>5 DEF FeedKnown, AfterItem, feed
    <3> QED
      BY <3>1, <3>2
  <2> QED
    BY <1>1, <2>1, <2>3, FeedStays
<1>6. CASE EditItem(r) \/ FindLike(r)
  <2>1. UNCHANGED feed /\ pc'[r] \in {"ok", "failed", "createLike", "deleteLike"}
    BY <1>3, <1>6 DEF EditItem, FindLike, Goto, feed
  <2> QED
    BY <1>1, <2>1, FeedStays DEF FeedKnown
<1>7. CASE FindView(r)
  <2>1. UNCHANGED <<feed, call>> /\ pc'[r] \in {"ok", "createView"} /\ pc[r] = "findView"
    BY <1>3, <1>7 DEF FindView, Goto
  <2>2. FeedKnown(r)'
    BY <2>1 DEF FeedTypes, FeedKnown, feed
  <2> QED
    BY <1>1, <2>1, <2>2, FeedStays
<1>8. CASE CreateItem(r)
  <2>1. /\ pc[r] = "createItem" /\ call'[r] = call[r] /\ call[r] \in ContentCalls
        /\ call[r].op \in {"post", "story", "comment", "repost"} /\ call[r].user \in Users
    BY <1>1, <1>2, <1>8, Fields DEF CreateItem, OnPath, StepsOf, Answered
  <2>2. items[r] = None
    BY <2>1 DEF FeedTypes, ItemsAre, IsA, Made, Answered
  <2>3. FeedKnown(r)'
    BY <1>3, <1>8 DEF CreateItem, Tell, Goto, FeedKnown
  <2>4. CASE items' = items
    BY <1>1, <1>8, <2>3, <2>4, FeedStays DEF CreateItem, feed
  <2>5. CASE items' # items
    <3> DEFINE on == IF call[r].op \in {"comment", "repost"} THEN call[r].item ELSE None
               new == [kind |-> Kind(call[r].op), author |-> call[r].user, on |-> on]
    <3>1. /\ on = None \/ items[on] # None
          /\ items' = [items EXCEPT ![r] = new]
          /\ pc'[r] \in {"ok", "telling"}
      BY <1>3, <1>8, <2>5 DEF CreateItem, Tell, Goto
    <3>2. on # None => on \in Requests /\ IsA(on, {"post"}) /\ on # r
      BY <2>1, <2>2, <3>1, Fields DEF FeedTypes, FeedKnown
    <3>3. on # None => items[on].kind = "post"
      BY <3>1, <3>2 DEF FeedTypes, ItemsAre, IsA
    <3>4. new \in Items /\ new # None
      BY <2>1, <3>2, KindIs, FeedAssumption DEF Items
    <3>5. new.kind = Kind(call[r].op) /\ new.on = on
      OBVIOUS
    <3> HIDE DEF new, on
    <3>6. /\ items' \in [Requests -> Items \cup {None}] /\ items'[r] = new
          /\ \A x \in Requests \ {r} : items'[x] = items[x]
      BY <3>1, <3>4 DEF FeedTypes, ItemsAre
    <3>7. \A x \in Requests : items'[x] # None => IsA(x, {items[x].kind})'
      <4>1. ASSUME NEW x \in Requests \ {r}, items'[x] # None
            PROVE  IsA(x, {items[x].kind})'
        <5>1. PICK k : k = items[x].kind
          OBVIOUS
        <5> QED
          BY <1>1, <3>6, <4>1, <5>1, StaysMade DEF FeedTypes, ItemsAre
      <4>2. IsA(r, {items[r].kind})'
        BY <2>1, <3>1, <3>5, <3>6 DEF IsA, Made, Answered
      <4> QED
        BY <4>1, <4>2
    <3>8. \A x \in Requests : items'[x] # None /\ items'[x].on # None =>
            items'[items'[x].on] # None /\ items'[items'[x].on].kind = "post"
      <4>1. \A x \in Requests \ {r} : items[x] # None /\ items[x].on # None =>
              items[x].on \in Requests \ {r}
        BY <2>2 DEF FeedTypes, ItemsAre, Items
      <4>2. \A x \in Requests \ {r} : items'[x] # None /\ items'[x].on # None =>
              items'[items'[x].on] # None /\ items'[items'[x].on].kind = "post"
        BY <3>6, <4>1 DEF FeedTypes, ItemsAre
      <4>3. items'[r].on # None =>
              items'[items'[r].on] # None /\ items'[items'[r].on].kind = "post"
        BY <3>1, <3>2, <3>3, <3>5, <3>6
      <4> QED
        BY <4>2, <4>3
    <3>9. ResponsesAre'
      <4>1. UNCHANGED <<likes, views>>
        BY <1>8 DEF CreateItem
      <4>2. \A l \in likes \cup views : l[1] \in Requests \ {r}
        BY <2>2 DEF FeedTypes, ResponsesAre
      <4> QED
        BY <3>6, <4>1, <4>2 DEF FeedTypes, ResponsesAre
    <3>10. \A o \in Requests \ {r} : FeedKnown(o)'
      <4>1. StoriesStay
        BY <2>2, <3>6 DEF StoriesStay
      <4> QED
        BY <1>1, <4>1, OthersKnow DEF FeedTypes
    <3> QED
      BY <2>3, <3>6, <3>7, <3>8, <3>9, <3>10 DEF FeedTypes, ItemsAre
  <2> QED
    BY <2>4, <2>5
<1>9. CASE RemoveItem(r)
  <2>1. /\ pc[r] = "removeItem" /\ call[r] \in ContentCalls /\ call[r].op = "remove"
    BY <1>1, <1>2, <1>9 DEF RemoveItem, OnPath, StepsOf, Answered
  <2>2. PICK x \in Requests : x = call[r].item
    BY <2>1, Fields
  <2>3. IsA(x, {"post", "comment"})
    BY <2>1, <2>2 DEF FeedTypes, FeedKnown
  <2>4. FeedKnown(r)'
    BY <1>3, <1>9 DEF RemoveItem, Goto, FeedKnown
  <2>5. CASE items[x] = None
    BY <1>1, <1>9, <2>2, <2>4, <2>5, FeedStays DEF RemoveItem, feed
  <2>6. CASE items[x] # None
    <3> DEFINE gone == {y \in Requests : /\ items[y] # None
                                        /\ \/ y = x
                                           \/ items[y].kind = "comment" /\ items[y].on = x}
    <3>1. /\ items' = [y \in Requests |->
               IF y \in gone THEN None
               ELSE IF items[y] # None /\ items[y].on = x THEN [items[y] EXCEPT !.on = None]
               ELSE items[y]]
          /\ likes' = {l \in likes : l[1] \notin gone} /\ UNCHANGED views
      BY <1>9, <2>2, <2>6 DEF RemoveItem
    <3>2. \A y \in gone : items[y].kind # "story"
      BY <2>3 DEF FeedTypes, ItemsAre, IsA
    <3>3. \A y \in Requests : items[y] # None => items[y] \in Items
      BY DEF FeedTypes, ItemsAre
    <3>4. \A i \in Items : LET j == [i EXCEPT !.on = None] IN
            j \in Items /\ j # None /\ j.kind = i.kind /\ j.on = None
      BY FeedAssumption DEF Items
    <3>5. \A y \in Requests : items'[y] # None =>
            /\ y \notin gone /\ items[y] # None
            /\ items'[y] \in Items /\ items'[y].kind = items[y].kind
            /\ items'[y].on # None => items'[y].on = items[y].on /\ items[y].on # x
      BY <3>1, <3>3, <3>4, FeedAssumption
    <3>6. \A y \in Requests : items[y] # None /\ y \notin gone =>
            items'[y] # None /\ items'[y].kind = items[y].kind
      BY <3>1, <3>3, <3>4
    <3>7. items' \in [Requests -> Items \cup {None}]
      BY <3>1, <3>3, <3>4
    <3>8. \A y \in Requests : items'[y] # None => IsA(y, {items[y].kind})'
      <4> SUFFICES ASSUME NEW y \in Requests, items'[y] # None
                   PROVE  IsA(y, {items[y].kind})'
        OBVIOUS
      <4>1. PICK k : k = items[y].kind
        OBVIOUS
      <4>2. IsA(y, {k})'
        BY <1>1, <3>5, <4>1, StaysMade DEF FeedTypes, ItemsAre
      <4>3. items'[y].kind = k
        BY <3>5, <4>1
      <4> QED
        BY <4>2, <4>3
    <3>9. \A y \in Requests : items'[y] # None /\ items'[y].on # None =>
            items'[items'[y].on] # None /\ items'[items'[y].on].kind = "post"
      <4> SUFFICES ASSUME NEW y \in Requests, items'[y] # None, items'[y].on # None
                   PROVE  items'[items'[y].on] # None /\ items'[items'[y].on].kind = "post"
        OBVIOUS
      <4>1. items'[y].on = items[y].on /\ items[y].on # x /\ items[y] # None
        BY <3>5
      <4>2. items[y].on \in Requests
        BY <3>3, <4>1 DEF Items
      <4>3. items[items[y].on] # None /\ items[items[y].on].kind = "post"
        BY <4>1 DEF FeedTypes, ItemsAre
      <4>4. items[y].on \notin gone
        BY <4>1, <4>3
      <4> QED
        BY <3>6, <4>1, <4>2, <4>3, <4>4
    <3>10. ResponsesAre'
      <4>1. \A l \in likes' : l \in Requests \X Users /\ items'[l[1]] # None
        BY <3>1, <3>6 DEF FeedTypes, ResponsesAre
      <4>2. \A v \in views' : /\ v \in Requests \X Users /\ items'[v[1]] # None
                               /\ items'[v[1]].kind = "story"
        BY <3>1, <3>2, <3>6 DEF FeedTypes, ResponsesAre
      <4> QED
        BY <4>1, <4>2 DEF ResponsesAre
    <3>11. \A o \in Requests \ {r} : FeedKnown(o)'
      <4>1. StoriesStay
        BY <3>2, <3>6 DEF StoriesStay
      <4> QED
        BY <1>1, <4>1, OthersKnow DEF FeedTypes
    <3> QED
      BY <2>4, <3>7, <3>8, <3>9, <3>10, <3>11 DEF FeedTypes, ItemsAre
  <2> QED
    BY <2>5, <2>6
<1>10. CASE CreateLike(r) \/ DeleteLike(r) \/ CreateView(r)
  <2>1. /\ pc[r] \in {"createLike", "deleteLike", "createView"} /\ UNCHANGED items
        /\ call[r] \in ContentCalls /\ call[r].op \in {"like", "unlike", "view"}
    BY <1>1, <1>2, <1>10 DEF CreateLike, DeleteLike, CreateView, OnPath, StepsOf, Answered
  <2>2. LikeOf(call[r]) \in Requests \X Users /\ LikeOf(call[r])[1] = call[r].item
    BY <2>1, Fields DEF LikeOf
  <2>3. FeedKnown(r)'
    BY <1>3, <1>10 DEF CreateLike, DeleteLike, CreateView, Goto, Tell, FeedKnown
  <2>4. ItemsAre' /\ \A o \in Requests \ {r} : FeedKnown(o)'
    BY <1>1, <2>1, ItemsStay
  <2>5. ResponsesAre'
    <3>1. CASE CreateLike(r)
      <4>1. /\ UNCHANGED views
            /\ \/ UNCHANGED likes
               \/ likes' = likes \cup {LikeOf(call[r])} /\ items[call[r].item] # None
        BY <3>1 DEF CreateLike
      <4> QED
        BY <2>1, <2>2, <4>1 DEF FeedTypes, ResponsesAre
    <3>2. CASE DeleteLike(r)
      <4>1. UNCHANGED views /\ likes' \subseteq likes
        BY <3>2 DEF DeleteLike
      <4> QED
        BY <2>1, <4>1 DEF FeedTypes, ResponsesAre
    <3>3. CASE CreateView(r)
      <4>1. UNCHANGED likes /\ (views' = views \/ views' = views \cup {LikeOf(call[r])})
        BY <3>3 DEF CreateView
      <4>2. items[call[r].item] # None /\ items[call[r].item].kind = "story"
        BY <3>3 DEF CreateView, FeedTypes, FeedKnown
      <4> QED
        BY <2>1, <2>2, <4>1, <4>2 DEF FeedTypes, ResponsesAre
    <3> QED
      BY <1>10, <3>1, <3>2, <3>3
  <2> QED
    BY <2>3, <2>4, <2>5 DEF FeedTypes
<1> QED
  BY <1>4, <1>5, <1>6, <1>7, <1>8, <1>9, <1>10 DEF FeedStep

-----------------------------------------------------------------------------
(* Types of the reports. A report stays, so that one that is found can be  *)
(* reviewed.                                                               *)
ReportTypes ==
  /\ reports \in [Requests -> ReportRows \cup {None}]
  /\ alerting \in [Requests -> SUBSET Moderators]
  /\ \A r \in Requests : pc[r] = "reviewReport" => reports[call[r].report] # None

LEMMA ReportsTyped ==
  ASSUME Path, ReportTypes, NEW r \in Requests, ReportStep(r)
  PROVE  ReportTypes'
<1>1. /\ Moves(r) /\ OnPath(r) /\ r \in DOMAIN pc
      /\ pc[r] # "idle" => call[r] \in ContentCalls /\ call'[r] = call[r]
  BY ReportsMove DEF Path, Moves, StepOf, OnPath
<1>2. \A o \in Requests \ {r} : pc'[o] = pc[o] /\ call'[o] = call[o] /\ OnPath(o)
  BY <1>1 DEF Moves, StepOf, Path
<1>3. \A o \in Requests : pc[o] = "reviewReport" => call[o].report \in Requests
  BY Fields DEF Path, OnPath, StepsOf, Answered
<1>4. CASE ReceiveReport(r)
  <2>1. pc'[r] # "reviewReport" /\ UNCHANGED reporting
    BY <1>1, <1>4 DEF ReceiveReport, StartAt, FirstReportStep
  <2> QED
    BY <1>2, <2>1 DEF ReportTypes, reporting
<1>5. CASE FileReport(r) \/ CreateReport(r)
  <2>1. call[r].user \in Users /\ call[r].target \in Requests
    BY <1>1, <1>5, Fields DEF FileReport, CreateReport, OnPath, StepsOf, Answered
  <2>2. NewReport(call[r]) \in ReportRows
    BY <2>1 DEF NewReport, ReportRows, ReportStatuses
  <2>3. /\ reports' = [reports EXCEPT ![r] = NewReport(call[r])] /\ UNCHANGED alerting
        /\ pc'[r] # "reviewReport"
    BY <1>1, <1>5 DEF FileReport, CreateReport, Goto
  <2> QED
    BY <1>2, <1>3, <2>2, <2>3, ReportAssumption DEF ReportTypes
<1>6. CASE FindReport(r)
  <2>1. /\ pc'[r] = "reviewReport" => reports[call[r].report] # None
        /\ UNCHANGED <<reporting, call>>
    BY <1>1, <1>6 DEF FindReport, Goto
  <2> QED
    BY <1>2, <2>1 DEF ReportTypes, reporting
<1>7. CASE ReviewReport(r)
  <2>1. PICK x \in Requests : x = call[r].report
    BY <1>3, <1>7 DEF ReviewReport
  <2>2. call[r].status \in ReportStatuses
    BY <1>1, <1>7, Fields DEF ReviewReport, OnPath, StepsOf, Answered
  <2>3. reports[x] \in ReportRows
    BY <1>7, <2>1 DEF ReviewReport, ReportTypes
  <2>4. [reports[x] EXCEPT !.status = call[r].status] \in ReportRows
    BY <2>2, <2>3 DEF ReportRows
  <2>5. /\ reports' = [reports EXCEPT ![x] = [reports[x] EXCEPT !.status = call[r].status]]
        /\ UNCHANGED alerting /\ pc'[r] # "reviewReport"
    BY <1>1, <1>7, <2>1 DEF ReviewReport, Goto, ReportTypes
  <2> QED
    BY <1>2, <1>3, <2>4, <2>5, ReportAssumption DEF ReportTypes
<1>8. CASE FindExisting(r) \/ FindAdmins(r) \/ Alert(r)
  <2>1. /\ pc'[r] # "reviewReport" /\ UNCHANGED reports
        /\ alerting' \in [Requests -> SUBSET Moderators]
    <3>1. CASE FindExisting(r)
      BY <1>1, <3>1 DEF FindExisting, Goto, ReportTypes, reporting
    <3>2. CASE FindAdmins(r)
      BY <1>1, <3>2 DEF FindAdmins, Goto, ReportTypes
    <3>3. CASE Alert(r)
      <4>1. PICK a : alerting' = [alerting EXCEPT ![r] = @ \ {a}]
        BY <3>3 DEF Alert
      <4>2. pc'[r] # "reviewReport" /\ UNCHANGED reports
        BY <1>1, <3>3 DEF Alert, Goto
      <4> QED
        BY <4>1, <4>2 DEF ReportTypes
    <3> QED
      BY <1>8, <3>1, <3>2, <3>3
  <2> QED
    BY <1>2, <2>1 DEF ReportTypes
<1> QED
  BY <1>4, <1>5, <1>6, <1>7, <1>8 DEF ReportStep

-----------------------------------------------------------------------------
(* Types of the notifications and pushes.                                  *)
NotesAre ==
  /\ notes \in [NoteIds -> Notes \cup {None}]
  /\ prefs \in [Users -> {"on", "off", None}]
  /\ devices \in [Tokens -> Users \cup {None}]
  /\ pushes \subseteq Pushes /\ dropping \subseteq SUBSET Tokens /\ missed \subseteq Tokens

TellingIs ==
  /\ telling \in [NoteIds -> Telling \cup {None}]
  /\ \A n \in NoteIds : telling[n] # None => pc[n[1]] = "telling"

LEMMA NotesOf ==
  ASSUME NEW note \in Notes
  PROVE  /\ [note EXCEPT !.read = TRUE] \in Notes
         /\ [note EXCEPT !.pushed = TRUE] \in Notes
BY DEF Notes

LEMMA StampedAre ==
  ASSUME notes \in [NoteIds -> Notes \cup {None}], NEW n \in NoteIds
  PROVE  Stamped(n) \in [NoteIds -> Notes \cup {None}]
<1>1. CASE notes[n] # None
  <2>1. [notes[n] EXCEPT !.pushed = TRUE] \in Notes
    BY <1>1, NotesOf
  <2>2. Stamped(n) = [notes EXCEPT ![n] = [notes[n] EXCEPT !.pushed = TRUE]]
    BY <1>1 DEF Stamped
  <2> QED
    BY <2>1, <2>2
<1> QED
  BY <1>1 DEF Stamped

(* A call has told whom it tells when it is answered.                      *)
LEMMA TellingStep ==
  ASSUME Path, TellingIs, NEW r \in Requests, Moves(r),
         UNCHANGED telling, pc[r] # "telling" \/ \A u \in Users : telling[<<r, u>>] = None
  PROVE  TellingIs'
<1>1. \A n \in NoteIds : n \in Requests \X Users
  BY DEF NoteIds
<1>2. \A n \in NoteIds : telling[n] # None => n[1] # r
  <2> SUFFICES ASSUME NEW n \in NoteIds, telling[n] # None, n[1] = r
               PROVE  FALSE
    OBVIOUS
  <2>1. n = <<r, n[2]>> /\ n[2] \in Users
    BY DEF NoteIds
  <2> QED
    BY <2>1 DEF TellingIs
<1> QED
  BY <1>1, <1>2 DEF TellingIs, Moves, StepOf

LEMMA TellTyped ==
  ASSUME Path, TellingIs, NEW r \in Requests, Moves(r), pc[r] # "telling",
         NEW us \in SUBSET Users, Tell(r, us)
  PROVE  TellingIs'
<1>1. telling' = [n \in NoteIds |-> IF n \in {r} \X us THEN "pref" ELSE telling[n]]
  BY DEF Tell
<1>2. us # {} => pc'[r] = "telling"
  BY DEF Tell, Goto, Path
<1>3. telling' \in [NoteIds -> Telling \cup {None}]
  BY <1>1 DEF TellingIs, Telling
<1>4. ASSUME NEW n \in NoteIds, telling'[n] # None
      PROVE  pc'[n[1]] = "telling"
  <2>1. CASE n \in {r} \X us
    BY <1>2, <2>1
  <2>2. CASE n \notin {r} \X us
    <3>1. telling[n] # None /\ n[1] \in Requests
      BY <1>1, <1>4, <2>2 DEF NoteIds
    <3> QED
      BY <3>1 DEF TellingIs, Moves, StepOf
  <2> QED
    BY <2>1, <2>2
<1> QED
  BY <1>3, <1>4 DEF TellingIs

NoteTypes == NotesAre /\ TellingIs

LEMMA NotesTyped ==
  ASSUME Path, NoteTypes, NEW r \in Requests, NotificationStep(r)
  PROVE  NoteTypes'
<1>1. /\ Moves(r) /\ OnPath(r) /\ r \in DOMAIN pc
      /\ pc[r] # "idle" => call[r] \in ContentCalls
  BY NotesMove DEF Path, OnPath
<1>2. UNCHANGED telling /\ pc[r] # "telling" => TellingIs'
  BY <1>1, TellingStep DEF NoteTypes
<1>3. CASE ReceiveNotification(r)
  BY <1>2, <1>3 DEF ReceiveNotification, Begin, notifying, NoteTypes, NotesAre
<1>4. CASE FindTargets(r)
  <2>1. call[r].to \in SUBSET Users
    BY <1>1, <1>4, Fields DEF FindTargets, OnPath, StepsOf, Answered
  <2>2. PICK us \in SUBSET Users : us = call[r].to
    BY <2>1
  <2>3. TellingIs'
    BY <1>1, <1>4, <2>2, TellTyped DEF FindTargets, NoteTypes
  <2> QED
    BY <1>4, <2>3 DEF FindTargets, NoteTypes, NotesAre
<1>5. CASE Told(r)
  <2>1. TellingIs'
    BY <1>1, <1>5, TellingStep DEF Told, NoteTypes, notifying
  <2> QED
    BY <1>5, <2>1 DEF Told, NoteTypes, NotesAre, notifying
<1>6. CASE FindNote(r) \/ FindJobPreference(r) \/ JobTokens(r) \/ JobPush(r)
           \/ FindOwnNote(r)
  BY <1>2, <1>6 DEF FindNote, FindJobPreference, JobTokens, JobPush, FindOwnNote, notifying,
     NoteTypes,
     NotesAre
<1>7. CASE JobStamp(r)
  <2>1. call[r].note \in NoteIds
    BY <1>1, <1>7, Fields DEF JobStamp, OnPath, StepsOf, Answered
  <2>2. Stamped(call[r].note) \in [NoteIds -> Notes \cup {None}]
    BY <2>1, StampedAre DEF NoteTypes, NotesAre
  <2> QED
    BY <1>2, <1>7, <2>2 DEF JobStamp, NoteTypes, NotesAre
<1>8. CASE Register(r)
  <2>1. call[r].user \in Users
    BY <1>1, <1>8, Fields DEF Register, OnPath, StepsOf, Answered
  <2> QED
    BY <1>2, <1>8, <2>1 DEF Register, NoteTypes, NotesAre
<1>9. CASE Unregister(r)
  BY <1>2, <1>9 DEF Unregister, NoteTypes, NotesAre
<1>10. CASE SetPreference(r)
  <2>1. call[r].push \in {"on", "off"}
    BY <1>1, <1>10, Fields DEF SetPreference, OnPath, StepsOf, Answered
  <2> QED
    BY <1>2, <1>10, <2>1 DEF SetPreference, NoteTypes, NotesAre
<1>11. CASE MarkAllRead(r)
  <2>1. notes' \in [NoteIds -> Notes \cup {None}]
    BY <1>11, NotesOf DEF MarkAllRead, NoteTypes, NotesAre
  <2> QED
    BY <1>2, <1>11, <2>1 DEF MarkAllRead, NoteTypes, NotesAre
<1>12. CASE WriteNote(r)
  <2>1. notes' \in [NoteIds -> Notes \cup {None}]
    <3>1. call[r].note \in NoteIds
      BY <1>1, <1>12, Fields DEF WriteNote, OnPath, StepsOf, Answered
    <3>2. PICK n \in NoteIds : n = call[r].note
      BY <3>1
    <3>3. CASE notes[n] # None
      <4>1. notes[n] \in Notes
        BY <3>3 DEF NoteTypes, NotesAre
      <4>2. PICK new \in Notes \cup {None} : notes' = [notes EXCEPT ![n] = new]
        BY <1>12, <3>2, <3>3, <4>1, NotesOf DEF WriteNote, NoteTypes, NotesAre
      <4> QED
        BY <4>2 DEF NoteTypes, NotesAre
    <3>4. CASE notes[n] = None
      BY <1>12, <3>2, <3>4 DEF WriteNote, NoteTypes, NotesAre
    <3> QED
      BY <3>3, <3>4
  <2> QED
    BY <1>2, <1>12, <2>1 DEF WriteNote, NoteTypes, NotesAre
<1> QED
  BY <1>3, <1>4, <1>5, <1>6, <1>7, <1>8, <1>9, <1>10, <1>11, <1>12 DEF NotificationStep

(* What the feed and the moderation queue do to notifications.             *)
LEMMA FeedTells ==
  ASSUME Path, FeedTypes, NoteTypes, NEW r \in Requests, FeedStep(r)
  PROVE  NoteTypes'
<1>1. Moves(r) /\ OnPath(r)
  BY FeedMoves DEF Path
<1>2. UNCHANGED telling /\ pc[r] # "telling" => TellingIs'
  BY <1>1, TellingStep DEF NoteTypes
<1>3. NotesAre'
  BY DEF FeedStep, ReceiveFeed, FindItem, CreateItem, EditItem, RemoveItem, FindLike,
     CreateLike, DeleteLike, FindView, CreateView, notifying, NoteTypes, NotesAre
<1>4. CASE telling' # telling /\ (CreateItem(r) \/ CreateLike(r))
  <2>1. /\ call[r] \in ContentCalls /\ call[r].op \in {"post", "story", "comment", "repost", "like"}
        /\ pc[r] # "telling"
    BY <1>1, <1>4 DEF CreateItem, CreateLike, OnPath, StepsOf, Answered
  <2>2. \/ call[r].op \in {"comment", "repost", "like"} /\ items[call[r].item] # None
           /\ Tell(r, AuthorToTell(r))
        \/ Tell(r, {})
    <3>1. CASE CreateItem(r)
      <4>1. CASE call[r].op \in {"comment", "repost"}
        BY <1>4, <2>1, <3>1, <4>1, FeedAssumption, Fields DEF CreateItem
      <4>2. CASE call[r].op \in {"post", "story"}
        BY <1>4, <3>1, <4>2 DEF CreateItem
      <4>3. call[r].op # "like"
        BY <1>1, <3>1 DEF CreateItem, OnPath, StepsOf, Answered
      <4> QED
        BY <2>1, <4>1, <4>2, <4>3
    <3>2. CASE CreateLike(r)
      <4>1. call[r].op = "like"
        BY <1>1, <3>2 DEF CreateLike, OnPath, StepsOf, Answered
      <4> QED
        BY <1>4, <3>2, <4>1 DEF CreateLike
    <3> QED
      BY <1>4, <3>1, <3>2
  <2>3. call[r].op \in {"comment", "repost", "like"} /\ items[call[r].item] # None =>
          AuthorToTell(r) \in SUBSET Users
    <3>1. call[r].op \in {"comment", "repost", "like"} => call[r].item \in Requests
      BY <2>1, Fields
    <3> QED
      BY <3>1 DEF AuthorToTell, FeedTypes, ItemsAre, Items
  <2>4. PICK us \in SUBSET Users : Tell(r, us)
    BY <2>2, <2>3
  <2> QED
    BY <1>1, <1>3, <2>1, <2>4, TellTyped DEF NoteTypes
<1>5. CASE UNCHANGED telling
  <2>1. pc[r] # "telling"
    BY DEF FeedStep, ReceiveFeed, Begin, FindItem, CreateItem, EditItem, RemoveItem, FindLike,
       CreateLike, DeleteLike, FindView, CreateView
  <2> QED
    BY <1>2, <1>3, <1>5, <2>1 DEF NoteTypes
<1>6. ~(CreateItem(r) \/ CreateLike(r)) => UNCHANGED telling
  BY DEF FeedStep, ReceiveFeed, FindItem, EditItem, RemoveItem, FindLike, DeleteLike,
     FindView, CreateView, notifying
<1> QED
  BY <1>4, <1>5, <1>6

LEMMA ReportsTell ==
  ASSUME Path, ReportTypes, NoteTypes, NEW r \in Requests, ReportStep(r)
  PROVE  NoteTypes'
<1>1. Moves(r)
  BY ReportsMove
<1>2. /\ UNCHANGED <<telling, prefs, devices, pushes, dropping, missed>>
      /\ pc[r] # "telling"
  BY DEF ReportStep, ReceiveReport, Begin, FileReport, FindReport, ReviewReport, FindExisting,
     CreateReport, FindAdmins, Alert, notifying
<1>3. TellingIs'
  BY <1>1, <1>2, TellingStep DEF NoteTypes
<1>4. notes' \in [NoteIds -> Notes \cup {None}]
  <2>1. CASE Alert(r)
    <3>1. PICK a \in alerting[r] : notes' = [notes EXCEPT ![<<r, a>>] = NewNote]
      BY <2>1 DEF Alert
    <3>2. NewNote \in Notes
      BY DEF NewNote, Notes
    <3> QED
      BY <3>1, <3>2 DEF NoteTypes, NotesAre
  <2>2. CASE ~Alert(r)
    BY <2>2 DEF ReportStep, ReceiveReport, FileReport, FindReport, ReviewReport, FindExisting,
       CreateReport, FindAdmins, notifying, NoteTypes, NotesAre
  <2> QED
    BY <2>1, <2>2
<1> QED
  BY <1>2, <1>3, <1>4 DEF NoteTypes, NotesAre

(* What no call waits for.                                                 *)
LEMMA BackgroundTyped ==
  ASSUME Path, NoteTypes, Background
  PROVE  NoteTypes'
<1> USE DEF NoteTypes, NotesAre, calls
<1>1. ASSUME NEW n \in NoteIds,
             FindPreference(n) \/ CreateNote(n) \/ PushNote(n) \/ StampNote(n) \/ GiveUp(n)
      PROVE  NoteTypes'
  <2>1. PICK way \in Telling \cup {None} : telling' = [telling EXCEPT ![n] = way]
    BY <1>1 DEF FindPreference, CreateNote, PushNote, StampNote, GiveUp, Telling
  <2>2. telling[n] # None /\ UNCHANGED <<pc, prefs, devices, dropping, missed>>
    BY <1>1, DeviceAssumption DEF FindPreference, CreateNote, PushNote, StampNote, GiveUp, Telling
  <2>3. TellingIs'
    BY <2>1, <2>2 DEF TellingIs
  <2>4. NewNote \in Notes
    BY DEF NewNote, Notes
  <2>5. notes' \in [NoteIds -> Notes \cup {None}]
    BY <1>1, <2>4, StampedAre DEF FindPreference, CreateNote, PushNote, StampNote, GiveUp
  <2>6. [note |-> n, tokens |-> DevicesOf(n[2])] \in Pushes
    BY DEF Pushes, DevicesOf
  <2>7. pushes' \subseteq Pushes
    BY <1>1, <2>6 DEF FindPreference, CreateNote, PushNote, StampNote, GiveUp
  <2> QED
    BY <2>2, <2>3, <2>5, <2>7
<1>2. ASSUME NEW p \in pushes, SendPush(p)
      PROVE  NoteTypes'
  <2>1. p.tokens \subseteq Tokens
    BY DEF Pushes
  <2>2. dropping' \subseteq SUBSET Tokens /\ missed' \subseteq Tokens /\ pushes' \subseteq Pushes
    BY <1>2, <2>1 DEF SendPush, Failed
  <2> QED
    BY <1>2, <2>2 DEF SendPush, TellingIs
<1>3. ASSUME NEW xs \in dropping, DropDevices(xs)
      PROVE  NoteTypes'
  <2>1. devices' \in [Tokens -> Users \cup {None}]
    BY <1>3 DEF DropDevices
  <2> QED
    BY <1>3, <2>1 DEF DropDevices, TellingIs
<1> QED
  BY <1>1, <1>2, <1>3 DEF Background

-----------------------------------------------------------------------------
(* The types together.                                                     *)
Typed == load \in Loads /\ Path /\ FeedTypes /\ ReportTypes /\ NoteTypes

LEMMA FailTyped ==
  ASSUME Typed, NEW r \in Requests, Fail(r)
  PROVE  Typed'
<1>1. Moves(r) /\ Path' /\ pc'[r] = "failed"
  BY ContentMoves DEF Typed, StepOfContent, Fail, Break, Goto, Path
<1>2. FeedTypes'
  BY <1>1, FeedStays DEF Fail, Typed, FeedKnown
<1>3. ReportTypes'
  <2>1. alerting' \in [Requests -> SUBSET Moderators] /\ UNCHANGED reports
    BY DEF Fail, Typed, ReportTypes
  <2>2. \A o \in Requests : pc'[o] = "reviewReport" => pc[o] = "reviewReport" /\ call'[o] = call[o]
    BY <1>1 DEF Moves, StepOf
  <2> QED
    BY <2>1, <2>2 DEF Typed, ReportTypes
<1>4. NoteTypes'
  <2>1. /\ telling' = [n \in NoteIds |-> IF n[1] = r THEN None ELSE telling[n]]
        /\ UNCHANGED <<notes, prefs, devices, pushes, dropping, missed>>
    BY DEF Fail
  <2>2. \A n \in NoteIds : telling'[n] # None => n[1] \in Requests \ {r} /\ telling[n] # None
    BY <2>1 DEF NoteIds
  <2>3. TellingIs'
    BY <1>1, <2>1, <2>2 DEF Typed, NoteTypes, TellingIs, Moves, StepOf
  <2> QED
    BY <2>1, <2>3 DEF Typed, NoteTypes, NotesAre
<1> QED
  BY <1>1, <1>2, <1>3, <1>4 DEF Typed, Moves, StepOf

LEMMA TypedStep ==
  ASSUME Typed, NEW r \in Requests, StepOfContent(r)
  PROVE  Typed'
<1>1. Moves(r) /\ Path' /\ load' = load
  BY ContentMoves DEF Typed, Moves, StepOf
<1>2. CASE Fail(r)
  BY <1>2, FailTyped
<1>3. CASE FeedStep(r) /\ UNCHANGED reporting
  <2>1. pc'[r] # "reviewReport"
    BY <1>1, <1>3 DEF FeedStep, ReceiveFeed, StartAt, FirstFeedStep, FindItem, AfterItem,
       CreateItem, EditItem, RemoveItem, FindLike, CreateLike, DeleteLike, FindView, CreateView,
       Tell, Goto, Typed, Path
  <2>2. ReportTypes'
    BY <1>1, <1>3, <2>1 DEF Typed, ReportTypes, reporting, Moves, StepOf
  <2> QED
    BY <1>1, <1>3, <2>2, FeedTyped, FeedTells DEF Typed
<1>4. CASE ReportStep(r) /\ UNCHANGED feed
  <2>1. pc'[r] \notin {"createItem", "removeItem", "findView", "createView"}
    BY <1>1, <1>4 DEF ReportStep, ReceiveReport, StartAt, FirstReportStep, FileReport,
       FindReport, ReviewReport, FindExisting, CreateReport, FindAdmins, Alert, Goto, Typed, Path
  <2>2. FeedTypes'
    BY <1>1, <1>4, <2>1, FeedStays DEF Typed, FeedKnown
  <2> QED
    BY <1>1, <1>4, <2>2, ReportsTyped, ReportsTell DEF Typed
<1>5. CASE NotificationStep(r) /\ UNCHANGED <<feed, reporting>>
  <2>1. pc'[r] \notin {"reviewReport", "createItem", "removeItem", "findView", "createView"}
    <3>1. CASE ReceiveNotification(r)
      <4>1. call'[r] \in NotificationCalls /\ pc'[r] = FirstNotificationStep(call'[r])
        BY <3>1 DEF ReceiveNotification, Begin, StartAt, Typed, Path
      <4> QED
        BY <4>1, Operations DEF FirstNotificationStep
    <3>2. CASE ~ReceiveNotification(r)
      BY <1>5, <3>2 DEF NotificationStep, FindTargets, Told, FindNote, FindJobPreference,
         JobTokens, JobPush, JobStamp, Register, Unregister, SetPreference, MarkAllRead,
         FindOwnNote, WriteNote, Tell, Goto, Typed, Path
    <3> QED
      BY <3>1, <3>2
  <2>2. FeedTypes'
    BY <1>1, <1>5, <2>1, FeedStays DEF Typed, FeedKnown
  <2>3. ReportTypes'
    BY <1>1, <1>5, <2>1 DEF Typed, ReportTypes, reporting, Moves, StepOf
  <2> QED
    BY <1>1, <1>5, <2>2, <2>3, NotesTyped DEF Typed
<1> QED
  BY <1>2, <1>3, <1>4, <1>5 DEF StepOfContent

LEMMA TypesAtFirst == Init => Typed
<1> SUFFICES ASSUME Init PROVE Typed
  OBVIOUS
<1> USE DEF Init, CallsInit, NotificationsInit, FeedInit, ReportsInit
<1>1. load \in Loads /\ Path
  BY DEF Path, OnPath
<1>2. FeedTypes
  BY DEF FeedTypes, ItemsAre, ResponsesAre, FeedKnown
<1>3. ReportTypes
  BY DEF ReportTypes
<1>4. NoteTypes
  BY DeviceAssumption DEF NoteTypes, NotesAre, TellingIs
<1> QED
  BY <1>1, <1>2, <1>3, <1>4 DEF Typed

LEMMA TypesInvariant == Spec => []Typed
<1>1. Init => Typed
  BY TypesAtFirst
<1>2. ASSUME Typed, [Next]_vars
      PROVE  Typed'
  <2>1. CASE \E r \in Requests : StepOfContent(r)
    BY <1>2, <2>1, TypedStep
  <2>2. CASE Background /\ UNCHANGED <<feed, reporting>>
    <3>1. UNCHANGED calls
      BY <2>2 DEF Background, FindPreference, CreateNote, PushNote, StampNote, GiveUp,
         SendPush, DropDevices
    <3>2. load' \in Loads /\ Path' /\ FeedTypes' /\ ReportTypes'
      BY <1>2, <2>2, <3>1 DEF calls, feed, reporting, Typed, Path, OnPath, FeedTypes, ItemsAre,
         ResponsesAre, FeedKnown, IsA, Made, ReportTypes
    <3> QED
      BY <1>2, <2>2, <3>2, BackgroundTyped DEF Typed
  <2>3. CASE Done \/ UNCHANGED vars
    <3>1. UNCHANGED vars
      BY <2>3 DEF Done
    <3>2. load' \in Loads /\ Path' /\ FeedTypes' /\ ReportTypes'
      BY <1>2, <3>1 DEF vars, tables, calls, feed, reporting, Typed, Path, OnPath, FeedTypes,
         ItemsAre, ResponsesAre, FeedKnown, IsA, Made, ReportTypes
    <3>3. NoteTypes'
      BY <1>2, <3>1 DEF vars, tables, calls, notifying, Typed, NoteTypes, NotesAre, TellingIs
    <3> QED
      BY <3>2, <3>3 DEF Typed
  <2> QED
    BY <1>2, <2>1, <2>2, <2>3 DEF Next, StepOfContent
<1> QED
  BY <1>1, <1>2, PTL DEF Spec

LEMMA StepsAreSteps ==
  ASSUME NEW op
  PROVE  StepsOf(op) \subseteq Steps
BY DEF StepsOf, Steps, FeedSteps, ReportSteps, NotificationSteps

(* Every variable keeps to its type, whatever calls, runs of jobs and      *)
(* pushes overlap: among others, the foreign keys of the feed hold, a post *)
(* that others refer to is a post, and only a call that is not answered    *)
(* yet notifies anybody.                                                   *)
THEOREM TypeCorrect == Spec => []TypeOK
<1>1. Typed => TypeOK
  <2> SUFFICES ASSUME Typed PROVE TypeOK
    OBVIOUS
  <2>1. load \in Loads /\ pc \in [Requests -> Steps]
    <3>1. \A r \in Requests : pc[r] \in Steps
      BY StepsAreSteps DEF Typed, Path, OnPath, Steps
    <3> QED
      BY <3>1 DEF Typed, Path
  <2>2. /\ items \in [Requests -> Items \cup {None}]
        /\ \A x \in Requests : items[x] # None /\ items[x].on # None =>
             items[items[x].on] # None /\ items[items[x].on].kind = "post"
        /\ \A l \in likes : items[l[1]] # None /\ l[2] \in Users
        /\ \A v \in views : items[v[1]].kind = "story" /\ v[2] \in Users
    BY DEF Typed, FeedTypes, ItemsAre, ResponsesAre
  <2>3. /\ reports \in [Requests -> ReportRows \cup {None}]
        /\ alerting \in [Requests -> SUBSET Moderators]
    BY DEF Typed, ReportTypes
  <2>4. /\ notes \in [NoteIds -> Notes \cup {None}]
        /\ \A n \in NoteIds : telling[n] # None => pc[n[1]] = "telling"
        /\ prefs \in [Users -> {"on", "off", None}]
        /\ devices \in [Tokens -> Users \cup {None}]
        /\ pushes \subseteq Pushes /\ dropping \subseteq SUBSET Tokens
        /\ missed \subseteq Tokens
    BY DEF Typed, NoteTypes, NotesAre, TellingIs
  <2> QED
    BY <2>1, <2>2, <2>3, <2>4 DEF TypeOK
<1> QED
  BY TypesInvariant, <1>1, PTL

-----------------------------------------------------------------------------
(* A run of the worker that is about to create a report has looked since   *)
(* it began, ...                                                           *)
ReportAwaited(r) == pc[r] = "createReport" => SameReports(call[r]) \cap earlier[r] = {}

(* ... and what is about to be pushed was not pushed before, unless        *)
(* another one that pushes it is under way.                                *)
Unpushed(n) == notes[n] = None \/ ~notes[n].pushed

PushAwaited(r, n) == Unpushed(n) \/ \E o \in Rivals(r) : PushesNote(o, n)

Awaiting ==
  /\ \A r \in Requests : ReportAwaited(r)
  /\ \A n \in NoteIds : telling[n] = "tokens" => PushAwaited(n[1], n)
  /\ \A r \in Requests :
       pc[r] \in {"jobPref", "jobTokens", "jobPush"} => PushAwaited(r, call[r].note)

LEMMA ReportsAwait ==
  ASSUME Typed, EarlierIsOver, \A o \in Requests : ReportAwaited(o), NEW r \in Requests,
         StepOfContent(r)
  PROVE  \A o \in Requests : ReportAwaited(o)'
<1>1. Moves(r) /\ StepOf(r) /\ OnPath(r) /\ r \in DOMAIN pc
  BY ContentMoves DEF Typed, Path, Moves
<1>2. pc'[r] = "createReport" => FindExisting(r)
  <2> SUFFICES ASSUME ~FindExisting(r)
               PROVE  pc'[r] # "createReport"
    OBVIOUS
  <2>1. CASE NotificationStep(r)
    <3>1. CASE ReceiveNotification(r)
      <4>1. call'[r] \in NotificationCalls /\ pc'[r] = FirstNotificationStep(call'[r])
        BY <1>1, <3>1 DEF ReceiveNotification, Begin, StartAt, Typed, Path
      <4> QED
        BY <4>1, Operations DEF FirstNotificationStep
    <3>2. CASE ~ReceiveNotification(r)
      BY <1>1, <2>1, <3>2 DEF NotificationStep, FindTargets, Told, FindNote, FindJobPreference,
         JobTokens, JobPush, JobStamp, Register, Unregister, SetPreference, MarkAllRead,
         FindOwnNote, WriteNote, Tell, Goto
    <3> QED
      BY <3>1, <3>2
  <2>2. CASE FeedStep(r)
    BY <1>1, <2>2 DEF FeedStep, ReceiveFeed, StartAt, FirstFeedStep, FindItem, AfterItem,
       CreateItem, EditItem, RemoveItem, FindLike, CreateLike, DeleteLike, FindView,
       CreateView, Tell, Goto
  <2>3. CASE ReportStep(r)
    BY <1>1, <2>3 DEF ReportStep, ReceiveReport, StartAt, FirstReportStep, FileReport,
       FindReport, ReviewReport, CreateReport, FindAdmins, Alert, Goto
  <2>4. CASE Fail(r)
    BY <1>1, <2>4 DEF Fail, Break, Goto
  <2> QED
    BY <2>1, <2>2, <2>3, <2>4 DEF StepOfContent
<1>3. \A x \in Requests \ {r} : reports'[x] # None =>
        /\ reports[x] # None
        /\ reports'[x].user = reports[x].user /\ reports'[x].target = reports[x].target
  <2>1. CASE ReviewReport(r)
    <3>1. /\ reports' = [reports EXCEPT ![call[r].report].status = call[r].status]
          /\ reports[call[r].report] # None
      BY <2>1 DEF ReviewReport, Typed, ReportTypes
    <3>2. \A row \in ReportRows : LET new == [row EXCEPT !.status = call[r].status] IN
            new.user = row.user /\ new.target = row.target
      BY DEF ReportRows
    <3> QED
      BY <3>1, <3>2 DEF Typed, ReportTypes
  <2>2. CASE ~ReviewReport(r)
    BY <2>2 DEF StepOfContent, reporting, ReportStep, ReceiveReport, FileReport, FindReport,
       FindExisting, CreateReport, FindAdmins, Alert, Fail, Typed, ReportTypes
  <2> QED
    BY <2>1, <2>2
<1>4. ASSUME NEW o \in Requests \ {r}
      PROVE  ReportAwaited(o)'
  <2>1. /\ r \notin earlier'[o] /\ earlier'[o] = earlier[o]
        /\ pc'[o] = pc[o] /\ call'[o] = call[o]
    BY <1>1, OthersMeet DEF Rivals, StepOf
  <2>2. \A x \in SameReports(call[o])' \cap earlier[o] : x \in SameReports(call[o])
    BY <1>3, <2>1 DEF SameReports
  <2> QED
    BY <2>1, <2>2 DEF ReportAwaited
<1>5. ReportAwaited(r)'
  <2>1. ASSUME FindExisting(r), pc'[r] = "createReport"
        PROVE  SameReports(call[r])' = {}
    BY <1>1, <2>1 DEF FindExisting, Goto, reporting, SameReports
  <2> QED
    BY <1>2, <2>1 DEF ReportAwaited
<1> QED
  BY <1>4, <1>5

-----------------------------------------------------------------------------
(* Only the call that made a notification and its jobs record a push.      *)
LEMMA StampsNotes ==
  ASSUME Typed, NEW r \in Requests, StepOfContent(r), NEW n \in NoteIds, Unpushed(n)
  PROVE  Unpushed(n)' \/ (pc[r] = "jobStamp" /\ PushesNote(r, n))
<1> USE DEF Typed, NoteTypes, NotesAre, Unpushed
<1>1. r \in DOMAIN pc /\ OnPath(r) /\ (notes[n] # None => notes[n] \in Notes)
  BY DEF Path
<1>2. ~NewNote.pushed
  BY DEF NewNote
<1>3. CASE JobStamp(r)
  <2>1. call[r].op = "dispatch" /\ pc[r] = "jobStamp"
    BY <1>1, <1>3 DEF JobStamp, OnPath, StepsOf, Answered
  <2>2. CASE call[r].note = n
    BY <2>1, <2>2 DEF PushesNote
  <2>3. CASE call[r].note # n
    BY <1>3, <2>3 DEF JobStamp, Stamped
  <2> QED
    BY <2>2, <2>3
<1>4. CASE MarkAllRead(r) \/ WriteNote(r)
  <2>1. \A note \in Notes : [note EXCEPT !.read = TRUE].pushed = note.pushed
    BY DEF Notes
  <2>2. CASE MarkAllRead(r)
    BY <1>1, <2>1, <2>2 DEF MarkAllRead
  <2>3. CASE WriteNote(r)
    <3>1. CASE call[r].note = n
      <4>1. CASE notes[n] = None
        BY <2>3, <3>1, <4>1 DEF WriteNote
      <4>2. CASE notes[n] # None
        <5>1. notes'[n] = None \/ notes'[n] = [notes[n] EXCEPT !.read = TRUE]
          BY <2>3, <3>1, <4>2 DEF WriteNote
        <5> QED
          BY <1>1, <2>1, <4>2, <5>1
      <4> QED
        BY <4>1, <4>2
    <3>2. CASE call[r].note # n
      <4>1. notes'[n] = notes[n]
        BY <2>3, <3>2 DEF WriteNote
      <4> QED
        BY <4>1
    <3> QED
      BY <3>1, <3>2
  <2> QED
    BY <1>4, <2>2, <2>3
<1>5. CASE Alert(r)
  BY <1>2, <1>5 DEF Alert
<1>6. CASE ~(JobStamp(r) \/ MarkAllRead(r) \/ WriteNote(r) \/ Alert(r))
  <2>1. UNCHANGED notes
    BY <1>6 DEF StepOfContent, NotificationStep, ReceiveNotification, FindTargets, Told, FindNote,
       FindJobPreference, JobTokens, JobPush, Register, Unregister, SetPreference,
       FindOwnNote, FeedStep, ReceiveFeed, FindItem, CreateItem, EditItem, RemoveItem, FindLike,
       CreateLike, DeleteLike, FindView, CreateView, ReportStep, ReceiveReport, FileReport,
       FindReport, ReviewReport, FindExisting, CreateReport, FindAdmins, Fail, notifying
  <2> QED
    BY <2>1
<1> QED
  BY <1>3, <1>4, <1>5, <1>6

(* While a notification waits for its push, the call that made it waits.   *)
LEMMA TellingWaits ==
  ASSUME Typed, NEW r \in Requests, StepOfContent(r), NEW n \in NoteIds,
         telling'[n] = "tokens"
  PROVE  telling[n] = "tokens" /\ pc[n[1]] = "telling" /\ n[1] \in Requests \ {r}
<1>1. None # "tokens"
  BY DeviceAssumption DEF Telling
<1>2. telling[n] = "tokens"
  <2>1. CASE NotificationStep(r)
    BY <2>1 DEF NotificationStep, ReceiveNotification, FindTargets, Told, FindNote,
       FindJobPreference, JobTokens, JobPush, JobStamp, Register, Unregister, SetPreference,
       MarkAllRead, FindOwnNote, WriteNote, Tell, notifying
  <2>2. CASE FeedStep(r)
    BY <2>2 DEF FeedStep, ReceiveFeed, FindItem, CreateItem, EditItem, RemoveItem, FindLike,
       CreateLike, DeleteLike, FindView, CreateView, Tell, notifying
  <2>3. CASE ReportStep(r)
    BY <2>3 DEF ReportStep, ReceiveReport, FileReport, FindReport, ReviewReport,
       FindExisting, CreateReport, FindAdmins, Alert, notifying
  <2>4. CASE Fail(r)
    BY <1>1, <2>4 DEF Fail
  <2> QED
    BY <2>1, <2>2, <2>3, <2>4 DEF StepOfContent
<1>3. pc[n[1]] = "telling" /\ n = <<n[1], n[2]>> /\ n[1] \in Requests /\ n[2] \in Users
  BY <1>1, <1>2 DEF Typed, NoteTypes, TellingIs, NoteIds
<1>4. ASSUME n[1] = r
      PROVE  FALSE
  <2>1. ~Told(r) /\ ~Fail(r)
    BY <1>1, <1>2, <1>3, <1>4 DEF Told, Fail
  <2> QED
    BY <1>3, <1>4, <2>1 DEF StepOfContent, NotificationStep, ReceiveNotification, Begin,
       FindTargets, FindNote, FindJobPreference, JobTokens, JobPush, JobStamp, Register,
       Unregister, SetPreference, MarkAllRead, FindOwnNote, WriteNote, FeedStep, ReceiveFeed,
       FindItem, CreateItem, EditItem, RemoveItem, FindLike, CreateLike, DeleteLike, FindView,
       CreateView, ReportStep, ReceiveReport, FileReport, FindReport, ReviewReport,
       FindExisting, CreateReport, FindAdmins, Alert
<1> QED
  BY <1>2, <1>3, <1>4

(* What others wait for, a step of a call does not spoil.                  *)
LEMMA OthersAwait ==
  ASSUME Typed, EarlierIsOver, NEW r \in Requests, StepOfContent(r), NEW n \in NoteIds,
         NEW q \in Requests \ {r}, PushAwaited(q, n)
  PROVE  PushAwaited(q, n)'
<1>1. /\ StepOf(r) /\ r \in Rivals(q)' /\ Rivals(q) \subseteq Rivals(q)'
      /\ pc[r] # "idle" => call'[r] = call[r]
  BY ContentMoves, OthersMeet DEF Typed, Moves, StepOf
<1>2. ASSUME NEW o \in Requests, pc[o] # "idle", PushesNote(o, n)
      PROVE  PushesNote(o, n)'
  BY <1>1, <1>2 DEF StepOf, PushesNote
<1>3. ASSUME NEW o \in Rivals(q), PushesNote(o, n)
      PROVE  PushAwaited(q, n)'
  BY <1>1, <1>2, <1>3 DEF PushAwaited, Rivals
<1>4. ASSUME Unpushed(n)
      PROVE  PushAwaited(q, n)'
  <2>1. CASE Unpushed(n)'
    BY <2>1 DEF PushAwaited
  <2>2. CASE pc[r] = "jobStamp" /\ PushesNote(r, n)
    BY <1>1, <1>2, <2>2 DEF PushAwaited
  <2> QED
    BY <1>4, <2>1, <2>2, StampsNotes
<1> QED
  BY <1>3, <1>4 DEF PushAwaited

LEMMA NotesAwait ==
  ASSUME Typed, EarlierIsOver, Awaiting, NEW r \in Requests, StepOfContent(r)
  PROVE  Awaiting'
<1>1. Moves(r) /\ StepOf(r) /\ OnPath(r) /\ r \in DOMAIN pc
  BY ContentMoves DEF Typed, Path, Moves
<1>2. \A n \in NoteIds : telling'[n] = "tokens" => PushAwaited(n[1], n)'
  <2> SUFFICES ASSUME NEW n \in NoteIds, telling'[n] = "tokens"
               PROVE  PushAwaited(n[1], n)'
    OBVIOUS
  <2>1. PICK q \in Requests \ {r} : q = n[1]
    BY TellingWaits
  <2>2. PushAwaited(q, n)
    BY <2>1, TellingWaits DEF Awaiting
  <2>3. PushAwaited(q, n)'
    BY <2>2, OthersAwait
  <2> QED
    BY <2>1, <2>3
<1>3. ASSUME NEW q \in Requests \ {r}, pc'[q] \in {"jobPref", "jobTokens", "jobPush"}
      PROVE  PushAwaited(q, call[q].note)'
  <2>1. pc[q] = pc'[q] /\ call'[q] = call[q] /\ OnPath(q)
    BY <1>1 DEF StepOf, Typed, Path
  <2>2. call[q].note \in NoteIds
    BY <1>3, <2>1, Fields DEF OnPath, StepsOf, Answered
  <2>3. PICK n \in NoteIds : n = call[q].note
    BY <2>2
  <2>4. PushAwaited(q, n)'
    BY <1>3, <2>1, <2>3, OthersAwait DEF Awaiting
  <2> QED
    BY <2>1, <2>3, <2>4
<1>4. ASSUME pc'[r] \in {"jobPref", "jobTokens", "jobPush"}
      PROVE  PushAwaited(r, call[r].note)'
  <2>1. FindNote(r) \/ FindJobPreference(r) \/ JobTokens(r)
    <3>1. CASE NotificationStep(r)
      <4>1. CASE ReceiveNotification(r)
        <5>1. call'[r] \in NotificationCalls /\ pc'[r] = FirstNotificationStep(call'[r])
          BY <1>1, <4>1 DEF ReceiveNotification, Begin, StartAt, Typed, Path
        <5> QED
          BY <1>4, <5>1, Operations DEF FirstNotificationStep
      <4>2. CASE ~ReceiveNotification(r)
        BY <1>1, <1>4, <3>1, <4>2 DEF NotificationStep, FindTargets, Told, FindNote,
           FindJobPreference, JobTokens, JobPush, JobStamp, Register, Unregister, SetPreference,
           MarkAllRead, FindOwnNote, WriteNote, Tell, Goto
      <4> QED
        BY <4>1, <4>2
    <3>2. CASE FeedStep(r)
      BY <1>1, <1>4, <3>2 DEF FeedStep, ReceiveFeed, StartAt, FirstFeedStep, FindItem, AfterItem,
         CreateItem, EditItem, RemoveItem, FindLike, CreateLike, DeleteLike, FindView,
         CreateView, Tell, Goto
    <3>3. CASE ReportStep(r)
      BY <1>1, <1>4, <3>3 DEF ReportStep, ReceiveReport, StartAt, FirstReportStep, FileReport,
         FindReport, ReviewReport, FindExisting, CreateReport, FindAdmins, Alert, Goto
    <3>4. CASE Fail(r)
      BY <1>1, <1>4, <3>4 DEF Fail, Break, Goto
    <3> QED
      BY <3>1, <3>2, <3>3, <3>4 DEF StepOfContent
  <2>2. UNCHANGED <<notes, call>> /\ pc[r] # "idle"
    BY <2>1 DEF FindNote, FindJobPreference, JobTokens, Goto, notifying
  <2>3. CASE FindNote(r)
    <3>1. Unpushed(call[r].note)
      BY <1>1, <1>4, <2>3 DEF FindNote, Goto, Unpushed
    <3> QED
      BY <2>2, <3>1 DEF PushAwaited, Unpushed
  <2>4. CASE FindJobPreference(r) \/ JobTokens(r)
    <3>1. PushAwaited(r, call[r].note)
      BY <2>4 DEF Awaiting, FindJobPreference, JobTokens
    <3>2. Rivals(r) \subseteq Rivals(r)'
      BY <1>1, <1>4, <2>2, RivalsStay DEF Answered
    <3> QED
      BY <2>2, <3>1, <3>2 DEF PushAwaited, Unpushed, PushesNote
  <2> QED
    BY <2>1, <2>3, <2>4
<1> QED
  BY <1>2, <1>3, <1>4, ReportsAwait DEF Awaiting

(* Meanwhile the call that tells is a rival of all others.                 *)
LEMMA BackgroundAwaits ==
  ASSUME Typed, EarlierIsOver, Awaiting, Background, UNCHANGED reporting
  PROVE  Awaiting'
<1>1. UNCHANGED <<pc, call, earlier, reports>>
  BY DEF Background, FindPreference, CreateNote, PushNote, StampNote, GiveUp,
     SendPush, DropDevices, calls, reporting
<1>2. \A o \in Requests : ReportAwaited(o)' /\ Rivals(o)' = Rivals(o)
  BY <1>1 DEF Awaiting, ReportAwaited, SameReports, Rivals
<1>3. ASSUME NEW n \in NoteIds,
             FindPreference(n) \/ CreateNote(n) \/ PushNote(n) \/ StampNote(n) \/ GiveUp(n)
      PROVE  Awaiting'
  <2>1. telling[n] # None
    BY <1>3, DeviceAssumption DEF FindPreference, CreateNote, PushNote, StampNote, GiveUp,
       Telling
  <2>2. pc[n[1]] = "telling" /\ n[1] \in Requests
    BY <2>1 DEF Typed, NoteTypes, TellingIs, NoteIds
  <2>3. \A m \in NoteIds \ {n} : telling'[m] = telling[m] /\ notes'[m] = notes[m]
    BY <1>3 DEF FindPreference, CreateNote, PushNote, StampNote, GiveUp, Stamped, Typed,
       NoteTypes, NotesAre, TellingIs
  <2>4. telling'[n] = "tokens" => Unpushed(n)'
    <3>1. telling'[n] = "tokens" => CreateNote(n)
      BY <1>3, DeviceAssumption DEF FindPreference, PushNote, StampNote, GiveUp, Telling,
         Typed, NoteTypes, TellingIs
    <3>2. CreateNote(n) => notes'[n] = NewNote
      BY DEF CreateNote, Typed, NoteTypes, NotesAre
    <3> QED
      BY <3>1, <3>2 DEF NewNote, Unpushed
  <2>5. \A m \in NoteIds : telling'[m] = "tokens" => PushAwaited(m[1], m)'
    <3>1. \A m \in NoteIds \ {n} : m[1] \in Requests /\
            (telling[m] = "tokens" => PushAwaited(m[1], m))
      BY DEF Awaiting, NoteIds
    <3> QED
      BY <1>1, <1>2, <2>3, <2>4, <3>1 DEF PushAwaited, Unpushed, PushesNote
  <2>6. ASSUME NEW q \in Requests, pc[q] \in {"jobPref", "jobTokens", "jobPush"}
        PROVE  PushAwaited(q, call[q].note)'
    <3>1. call[q].note \in NoteIds
      BY <2>6, Fields DEF Typed, Path, OnPath, StepsOf, Answered
    <3>2. CASE call[q].note = n
      <4>1. n[1] \in Rivals(q)
        BY <2>2, <2>6 DEF Rivals, EarlierIsOver, Answered
      <4> QED
        BY <1>1, <1>2, <3>2, <4>1 DEF PushAwaited, PushesNote
    <3>3. CASE call[q].note # n
      BY <1>1, <1>2, <2>3, <2>6, <3>1, <3>3 DEF Awaiting, PushAwaited, Unpushed, PushesNote
    <3> QED
      BY <3>2, <3>3
  <2> QED
    BY <1>1, <1>2, <2>5, <2>6 DEF Awaiting
<1>4. ASSUME (\E p \in pushes : SendPush(p)) \/ (\E xs \in dropping : DropDevices(xs))
      PROVE  Awaiting'
  <2>1. UNCHANGED <<notes, telling>>
    BY <1>4 DEF SendPush, DropDevices
  <2>2. \A n \in NoteIds : n[1] \in Requests
    BY DEF NoteIds
  <2> QED
    BY <1>1, <1>2, <2>1, <2>2 DEF Awaiting, PushAwaited, Unpushed, PushesNote
<1> QED
  BY <1>3, <1>4 DEF Background

(* What the calls keep to and rely on.                                     *)
ContentInv == Typed /\ DOMAIN sent = NoteIds /\ EarlierIsOver /\ Awaiting

LEMMA SentTyped ==
  ASSUME DOMAIN sent = NoteIds, [Next]_vars
  PROVE  DOMAIN sent' = NoteIds
<1>1. CASE Background
  BY <1>1 DEF Background, FindPreference, CreateNote, PushNote, StampNote, GiveUp, SendPush,
     DropDevices
<1>2. CASE \E r \in Requests : NotificationStep(r)
  BY <1>2 DEF NotificationStep, ReceiveNotification, FindTargets, Told, FindNote,
     FindJobPreference, JobTokens, JobPush, JobStamp, Register, Unregister, SetPreference,
     MarkAllRead, FindOwnNote, WriteNote, notifying
<1>3. CASE \E r \in Requests : FeedStep(r) \/ ReportStep(r)
  BY <1>3 DEF FeedStep, ReceiveFeed, FindItem, CreateItem, EditItem, RemoveItem, FindLike,
     CreateLike, DeleteLike, FindView, CreateView, ReportStep, ReceiveReport, FileReport,
     FindReport, ReviewReport, FindExisting, CreateReport, FindAdmins, Alert, notifying
<1>4. CASE (\E r \in Requests : Fail(r)) \/ Done \/ UNCHANGED vars
  BY <1>4 DEF Fail, Done, vars, tables, notifying
<1> QED
  BY <1>1, <1>2, <1>3, <1>4 DEF Next

LEMMA ContentInvariant == Spec => []ContentInv
<1>1. Init => ContentInv
  <2> SUFFICES ASSUME Init PROVE ContentInv
    OBVIOUS
  <2> QED
    BY TypesAtFirst, DeviceAssumption DEF Init, CallsInit, NotificationsInit, ReportsInit,
       ContentInv, EarlierIsOver, Awaiting, ReportAwaited, Telling
<1>2. ASSUME ContentInv, Typed', [Next]_vars
      PROVE  ContentInv'
  <2>1. ASSUME NEW r \in Requests, StepOfContent(r)
        PROVE  ContentInv'
    <3>1. StepOf(r)
      BY <1>2, <2>1, ContentMoves DEF ContentInv, Typed, Moves
    <3>2. EarlierIsOver'
      BY <1>2, <3>1, EarlierStep DEF ContentInv
    <3>3. Awaiting'
      BY <1>2, <2>1, NotesAwait DEF ContentInv
    <3> QED
      BY <1>2, <3>2, <3>3, SentTyped DEF ContentInv
  <2>2. CASE Background /\ UNCHANGED <<feed, reporting>>
    <3>1. UNCHANGED calls
      BY <2>2 DEF Background, FindPreference, CreateNote, PushNote, StampNote, GiveUp,
         SendPush, DropDevices
    <3>2. EarlierIsOver'
      BY <1>2, <3>1 DEF ContentInv, calls, EarlierIsOver
    <3>3. Awaiting'
      BY <1>2, <2>2, BackgroundAwaits DEF ContentInv
    <3> QED
      BY <1>2, <3>2, <3>3, SentTyped DEF ContentInv
  <2>3. CASE Done \/ UNCHANGED vars
    <3>1. UNCHANGED <<pc, call, earlier, reports, notes, telling>>
      BY <2>3 DEF Done, vars, calls, tables, reporting, notifying
    <3>2. EarlierIsOver'
      BY <1>2, <3>1 DEF ContentInv, EarlierIsOver
    <3>3. Awaiting'
      BY <1>2, <3>1 DEF ContentInv, Awaiting, ReportAwaited, SameReports, PushAwaited, Unpushed,
         Rivals, PushesNote
    <3> QED
      BY <1>2, <3>2, <3>3, SentTyped DEF ContentInv
  <2> QED
    BY <1>2, <2>1, <2>2, <2>3 DEF Next, StepOfContent
<1> QED
  BY TypesInvariant, <1>1, <1>2, PTL DEF Spec

(* However runs of a job are repeated, overlap and break off, a run makes  *)
(* no report that was there when it began.                                 *)
THEOREM ReadersReportOnce == Spec => OneReportPerReader
<1>1. ASSUME ContentInv, [Next]_vars
      PROVE  \A r \in Requests :
               reports[r] = None /\ reports'[r] # None /\ call[r].op = "intake" =>
                 SameReports(call[r]) \cap earlier[r] = {}
  <2> SUFFICES ASSUME NEW r \in Requests, reports[r] = None, reports'[r] # None,
                      call[r].op = "intake"
               PROVE  SameReports(call[r]) \cap earlier[r] = {}
    OBVIOUS
  <2>1. PICK o \in Requests : ReportStep(o)
    BY <1>1 DEF Next, Background, FindPreference, CreateNote, PushNote, StampNote, GiveUp,
       SendPush, DropDevices, reporting, Fail, Done, vars, tables
  <2>2. CASE CreateReport(o)
    BY <1>1, <2>2 DEF CreateReport, ContentInv, Typed, ReportTypes, Awaiting, ReportAwaited
  <2>3. CASE FileReport(o)
    <3>1. call[o].op = "report"
      BY <1>1, <2>3 DEF FileReport, ContentInv, Typed, Path, OnPath, StepsOf, Answered
    <3> QED
      BY <1>1, <2>3, <3>1 DEF FileReport, ContentInv, Typed, ReportTypes
  <2>4. CASE ReviewReport(o)
    BY <1>1, <2>4 DEF ReviewReport, ContentInv, Typed, ReportTypes
  <2> QED
    BY <2>1, <2>2, <2>3, <2>4 DEF ReportStep, ReceiveReport, FindReport, FindExisting,
       FindAdmins, Alert, reporting
<1> QED
  BY ContentInvariant, <1>1, PTL DEF Spec, OneReportPerReader

(* A notification that has a pushSentAt is pushed again only by a call or  *)
(* a job that met another one which pushes it.                             *)
PushesAgain ==
  \A n \in NoteIds :
    notes[n] # None /\ notes[n].pushed /\ sent'[n] # sent[n] =>
      \E r \in Requests : /\ pc[r] \in {"telling", "jobPush"} /\ PushesNote(r, n)
                         /\ \E o \in Rivals(r) : PushesNote(o, n)

THEOREM PushesAreOnce == Spec => PushedOnce
<1>1. ASSUME ContentInv, [Next]_vars
      PROVE  PushesAgain
  <2> SUFFICES ASSUME NEW n \in NoteIds, notes[n] # None, notes[n].pushed, sent'[n] # sent[n]
               PROVE  \E r \in Requests :
                        /\ pc[r] \in {"telling", "jobPush"} /\ PushesNote(r, n)
                        /\ \E o \in Rivals(r) : PushesNote(o, n)
    BY DEF PushesAgain
  <2>1. ~Unpushed(n)
    BY DEF Unpushed
  <2>2. (\E m \in NoteIds : PushNote(m)) \/ (\E r \in Requests : JobPush(r))
    <3>1. CASE Background
      BY <3>1 DEF Background, FindPreference, CreateNote, StampNote, GiveUp, SendPush,
         DropDevices
    <3>2. CASE \E r \in Requests : NotificationStep(r)
      BY <3>2 DEF NotificationStep, ReceiveNotification, FindTargets, Told, FindNote,
         FindJobPreference, JobTokens, JobStamp, Register, Unregister, SetPreference,
         MarkAllRead, FindOwnNote, WriteNote, notifying
    <3>3. CASE \E r \in Requests : FeedStep(r) \/ ReportStep(r)
      BY <3>3 DEF FeedStep, ReceiveFeed, FindItem, CreateItem, EditItem, RemoveItem, FindLike,
         CreateLike, DeleteLike, FindView, CreateView, ReportStep, ReceiveReport, FileReport,
         FindReport, ReviewReport, FindExisting, CreateReport, FindAdmins, Alert, notifying
    <3>4. CASE (\E r \in Requests : Fail(r)) \/ Done \/ UNCHANGED vars
      BY <3>4 DEF Fail, Done, vars, tables, notifying
    <3> QED
      BY <1>1, <3>1, <3>2, <3>3, <3>4 DEF Next
  <2>3. ASSUME NEW m \in NoteIds, PushNote(m)
        PROVE  m = n /\ telling[n] = "tokens"
    BY <1>1, <2>3 DEF PushNote, ContentInv
  <2>4. ASSUME NEW r \in Requests, JobPush(r)
        PROVE  call[r].note = n /\ call[r].op = "dispatch" /\ pc[r] = "jobPush"
    <3>1. call[r].op = "dispatch" /\ pc[r] = "jobPush"
      BY <1>1, <2>4 DEF JobPush, ContentInv, Typed, Path, OnPath, StepsOf, Answered
    <3> QED
      BY <1>1, <2>4, <3>1 DEF JobPush, ContentInv
  <2>5. CASE telling[n] = "tokens"
    <3>1. n[1] \in Requests /\ pc[n[1]] = "telling"
      BY <1>1, <2>5, DeviceAssumption DEF ContentInv, Typed, NoteTypes, TellingIs, NoteIds, Telling
    <3>2. PushAwaited(n[1], n)
      BY <1>1, <2>5 DEF ContentInv, Awaiting
    <3> QED
      BY <2>1, <3>1, <3>2 DEF PushAwaited, PushesNote
  <2>6. ASSUME NEW r \in Requests, JobPush(r)
        PROVE  /\ pc[r] \in {"telling", "jobPush"} /\ PushesNote(r, n)
               /\ \E o \in Rivals(r) : PushesNote(o, n)
    <3>1. PushAwaited(r, n)
      BY <1>1, <2>4, <2>6 DEF ContentInv, Awaiting
    <3> QED
      BY <2>1, <2>4, <2>6, <3>1 DEF PushAwaited, PushesNote
  <2> QED
    BY <2>2, <2>3, <2>5, <2>6
<1> QED
  BY ContentInvariant, <1>1, PTL DEF Spec, PushedOnce, PushesAgain
=============================================================================
