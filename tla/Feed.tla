-------------------------------- MODULE Feed --------------------------------
(***************************************************************************)
(* PostsService, CommentsService and StoriesService (src/src/modules/feed):*)
(* posts, what users do with them, and whom that notifies.                 *)
(*                                                                         *)
(* Posts, comments and stories are items, named by the call that created   *)
(* them; the text of an item and its picture are left out. A story that    *)
(* has expired is a call that breaks off.                                  *)
(***************************************************************************)
EXTENDS Notifications

FeedCalls ==
  [op : {"post", "story"}, user : Users]
    \cup [op : {"edit", "remove", "like", "unlike"}, user : Users, item : Requests]
    \cup [op : {"comment", "repost", "view"}, user : Users, item : Requests]

(* on is the post that a comment is about or that a post reposts.          *)
Items ==
  [kind : {"post", "comment", "story"}, author : Users, on : Requests \cup {None}]

ASSUME FeedAssumption == None \notin Items \cup Requests

VARIABLES
  items,  \* posts, comments and stories
  likes,  \* post_likes, comment_likes and story_likes, unique per item and user
  views   \* story_views, unique per story and viewer

feed == <<items, likes, views>>

FeedSteps ==
  {"findItem", "createItem", "editItem", "removeItem", "findLike", "createLike",
   "deleteLike", "findView", "createView"}

FeedInit ==
  /\ items = [r \in Requests |-> None]
  /\ likes = {} /\ views = {}

FirstFeedStep(c) ==
  CASE c.op \in {"post", "story"} -> "createItem"
    [] c.op = "unlike"            -> "findLike"
    [] OTHER                      -> "findItem"

ReceiveFeed(r) ==
  /\ Begin(r, FeedCalls) /\ StartAt(r, FirstFeedStep(call'[r]))
  /\ UNCHANGED <<feed, notifying>>

(* Which items a call is about.                                            *)
Suits(c) ==
  LET i == items[c.item] IN
  /\ i # None
  /\ CASE c.op = "like"                  -> TRUE
       [] c.op = "view"                  -> i.kind = "story"
       [] c.op \in {"comment", "repost"} -> i.kind = "post"
       [] OTHER                          -> i.kind # "story" /\ i.author = c.user

AfterItem(op) ==
  CASE op = "edit"   -> "editItem"
    [] op = "remove" -> "removeItem"
    [] op = "like"   -> "findLike"
    [] op = "view"   -> "findView"
    [] OTHER         -> "createItem"

FindItem(r) ==
  /\ pc[r] = "findItem"
  /\ Goto(r, IF Suits(call[r]) THEN AfterItem(call[r].op) ELSE "failed")
  /\ UNCHANGED <<feed, notifying>>

Kind(op) == CASE op = "comment" -> "comment" [] op = "story" -> "story" [] OTHER -> "post"

(* The author of a post or comment is told who likes it, comments on it or *)
(* reposts it, unless that is the author.                                  *)
AuthorToTell(r) ==
  LET i == items[call[r].item] IN
  IF call[r].op \in {"like", "comment", "repost"} /\ i.kind # "story"
  THEN {i.author} \ {call[r].user} ELSE {}

(* create and repost; the foreign key refuses a post that is gone.         *)
CreateItem(r) ==
  LET c == call[r]
      on == IF c.op \in {"comment", "repost"} THEN c.item ELSE None
  IN
  /\ pc[r] = "createItem"
  /\ IF on = None \/ items[on] # None
     THEN /\ items' = [items EXCEPT ![r] =
               [kind |-> Kind(c.op), author |-> c.user, on |-> on]]
          /\ Tell(r, IF on = None THEN {} ELSE AuthorToTell(r))
     ELSE Goto(r, "failed") /\ UNCHANGED <<items, telling>>
  /\ UNCHANGED <<likes, views, notes, prefs, devices, pushes, dropping, sent, missed>>

EditItem(r) ==
  /\ pc[r] = "editItem"
  /\ Goto(r, IF items[call[r].item] = None THEN "failed" ELSE "ok")
  /\ UNCHANGED <<feed, notifying>>

(* Fault: the comments on a post outlive it.                               *)
RemoveItemOnly(r) ==
  /\ pc[r] = "removeItem"
  /\ items' = [items EXCEPT ![call[r].item] = None]
  /\ Goto(r, "ok")
  /\ UNCHANGED <<likes, views, notifying>>

(* remove: comments and likes go with a post, reposts lose it.             *)
RemoveItem(r) ==
  LET x == call[r].item
      gone == {y \in Requests : /\ items[y] # None
                                /\ \/ y = x
                                   \/ items[y].kind = "comment" /\ items[y].on = x}
  IN
  /\ pc[r] = "removeItem"
  /\ IF items[x] # None
     THEN /\ items' = [y \in Requests |->
               IF y \in gone THEN None
               ELSE IF items[y] # None /\ items[y].on = x THEN [items[y] EXCEPT !.on = None]
               ELSE items[y]]
          /\ likes' = {l \in likes : l[1] \notin gone}
          /\ Goto(r, "ok")
     ELSE Goto(r, "failed") /\ UNCHANGED <<items, likes>>
  /\ UNCHANGED <<views, notifying>>

-----------------------------------------------------------------------------
LikeOf(c) == <<c.item, c.user>>

(* A post or a comment can be unliked, a story cannot.                     *)
FindLike(r) ==
  LET c == call[r]
      liked == LikeOf(c) \in likes
      unlikable == c.op = "unlike" /\ items[c.item].kind # "story"
  IN
  /\ pc[r] = "findLike"
  /\ Goto(r, CASE c.op = "like" /\ ~liked -> "createLike"
               [] liked /\ unlikable    -> "deleteLike"
               [] OTHER                 -> "failed")
  /\ UNCHANGED <<feed, notifying>>

(* The unique index refuses a second like, and the foreign key one of an   *)
(* item that is gone.                                                      *)
CreateLike(r) ==
  LET c == call[r] IN
  /\ pc[r] = "createLike"
  /\ IF LikeOf(c) \notin likes /\ items[c.item] # None
     THEN likes' = likes \cup {LikeOf(c)} /\ Tell(r, AuthorToTell(r))
     ELSE Goto(r, "failed") /\ UNCHANGED <<likes, telling>>
  /\ UNCHANGED <<items, views, notes, prefs, devices, pushes, dropping, sent, missed>>

DeleteLike(r) ==
  LET l == LikeOf(call[r]) IN
  /\ pc[r] = "deleteLike"
  /\ IF l \in likes
     THEN likes' = likes \ {l} /\ Goto(r, "ok")
     ELSE Goto(r, "failed") /\ UNCHANGED likes
  /\ UNCHANGED <<items, views, notifying>>

(* A view that is there is answered with it.                               *)
FindView(r) ==
  /\ pc[r] = "findView"
  /\ Goto(r, IF LikeOf(call[r]) \in views THEN "ok" ELSE "createView")
  /\ UNCHANGED <<feed, notifying>>

CreateView(r) ==
  LET v == LikeOf(call[r]) IN
  /\ pc[r] = "createView"
  /\ IF v \notin views
     THEN views' = views \cup {v} /\ Goto(r, "ok")
     ELSE Goto(r, "failed") /\ UNCHANGED views
  /\ UNCHANGED <<items, likes, notifying>>

FeedStep(r) ==
  \/ ReceiveFeed(r) \/ FindItem(r) \/ CreateItem(r) \/ EditItem(r) \/ RemoveItem(r)
  \/ FindLike(r) \/ CreateLike(r) \/ DeleteLike(r) \/ FindView(r) \/ CreateView(r)
=============================================================================
