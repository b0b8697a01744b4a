------------------------------ MODULE MCContent ------------------------------
(***************************************************************************)
(* The loads under which TLC checks Content.                               *)
(***************************************************************************)
EXTENDS ContentProperties, TLC

CONSTANTS a, b, d,        \* users; b and d are super admins
          t1, t2,         \* tokens of devices of a
          r1, r2, r3, r4  \* calls

Act(op, u) == [op |-> op, user |-> u]
On(op, u, x) == [op |-> op, user |-> u, item |-> x]

Note(u) == <<r1, u>>
Broadcast(us) == [op |-> "broadcast", to |-> us]
Dispatch == [op |-> "dispatch", note |-> Note(a)]
Device(op, u) == [op |-> op, user |-> u, token |-> t1]
Push(u, p) == [op |-> "setPush", user |-> u, push |-> p]
OnNote(op, u) == [op |-> op, user |-> u, note |-> Note(a)]

Report(op, u) == [op |-> op, user |-> u, target |-> r1]
Review(x, status) == [op |-> "reviewReport", report |-> x, status |-> status]

Load(c1, c2, c3, c4) == r1 :> c1 @@ r2 :> c2 @@ r3 :> c3 @@ r4 :> c4

(* b and a respond to a post of a, which a may remove.                     *)
Responding ==
  Load({Act("post", a)},
       {On("like", b, r1), On("comment", b, r1), On("like", a, r1)},
       {On("like", b, r1), On("unlike", b, r1), On("repost", b, r1), On("edit", a, r1)},
       {On("remove", a, r1)})

Commenting ==
  Load({Act("post", a)}, {On("comment", b, r1)},
       {On("like", a, r2), On("edit", b, r2), On("remove", b, r2)},
       {On("remove", a, r1), On("remove", a, r2)})

Watching ==
  Load({Act("story", a)}, {On("view", b, r1), On("like", b, r1)},
       {On("view", b, r1), On("like", b, r1)}, {On("unlike", b, r1), On("remove", a, r1)})

(* A broadcast, whose notification of a is also the matter of a job.       *)
Notifying ==
  Load({Broadcast({a})}, {Dispatch, Device("unregister", a), Push(a, "off")},
       {Dispatch, Device("register", b), Device("unregister", b)},
       {Act("markAllRead", a), OnNote("deleteNote", a), OnNote("markRead", b)})

Reporting ==
  Load({Act("post", a)}, {Report("intake", b), Report("report", b)},
       {Report("report", a), Report("intake", b), Review(r2, "resolved")},
       {Report("intake", b), Review(r2, "pending")})

MCScript ==
  "responding" :> Responding @@ "commenting" :> Commenting @@ "watching" :> Watching
  @@ "notifying" :> Notifying @@ "reporting" :> Reporting
MCLoads == DOMAIN MCScript
MCAtOnce == [l \in MCLoads |-> 2]

MCDevicesBefore == t1 :> a @@ t2 :> a
=============================================================================
