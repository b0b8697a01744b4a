----------------------------- MODULE MediaAssets -----------------------------
(***************************************************************************)
(* MediaAssetsService and StorageService (src/src/modules/storage): files  *)
(* that clients put in the bucket themselves, by a signed URL, and the row *)
(* of media_assets of each. An asset is named by the call that asked for   *)
(* its URL. What the purpose of an asset allows, its types and its size,   *)
(* is abstracted to files that are good and files that are not.            *)
(***************************************************************************)
EXTENDS HttpCalls

CONSTANTS
  Owners,       \* users who upload files
  AssetsBefore  \* the assets there are at first, of good files

MediaCalls ==
  [op : {"uploadUrl"}, user : Owners]
    \cup [op : {"put"}, user : Owners, media : Requests, file : {"good", "bad"}]
    \cup [op : {"confirm"}, user : Owners, media : Requests]

Assets == [owner : Owners, status : {"pending", "uploaded", "deleted"}]

ASSUME MediaAssumption ==
  /\ AssetsBefore \in [Requests -> Owners \cup {None}]
  /\ None \notin Assets \cup {"good", "bad"}

VARIABLES
  assets,    \* media_assets
  objects,   \* the file in the bucket under the key of each asset
  dropping,  \* the assets whose file a clean-up is about to delete
  marking    \* the assets a call is about to mark as deleted

media == <<assets, objects, dropping, marking>>

MediaSteps ==
  {"createAsset", "put", "findAsset", "stat", "dropBad", "markBad", "markUploaded",
   "cleanup", "clean"}

MediaInit ==
  /\ assets = [r \in Requests |-> IF AssetsBefore[r] = None THEN None
       ELSE [owner |-> AssetsBefore[r], status |-> "uploaded"]]
  /\ objects = [r \in Requests |-> IF AssetsBefore[r] = None THEN None ELSE "good"]
  /\ dropping = [r \in Requests |-> {}]
  /\ marking = [r \in Requests |-> {}]

FirstMediaStep(c) ==
  CASE c.op = "uploadUrl" -> "createAsset"
    [] c.op = "put"       -> "put"
    [] OTHER              -> "findAsset"

ReceiveMedia(r) ==
  /\ Begin(r, MediaCalls) /\ StartAt(r, FirstMediaStep(call'[r]))
  /\ UNCHANGED media

CreateAsset(r) ==
  /\ pc[r] = "createAsset"
  /\ assets' = [assets EXCEPT ![r] = [owner |-> call[r].user, status |-> "pending"]]
  /\ Goto(r, "ok")
  /\ UNCHANGED <<objects, dropping, marking>>

(* The client puts a file under the key it was given, the bucket takes it  *)
(* whatever the service thinks of the asset.                               *)
Put(r) ==
  LET c == call[r] IN
  /\ pc[r] = "put"
  /\ IF assets[c.media] # None
     THEN objects' = [objects EXCEPT ![c.media] = c.file] /\ Goto(r, "ok")
     ELSE Goto(r, "failed") /\ UNCHANGED objects
  /\ UNCHANGED <<assets, dropping, marking>>

(* confirmUpload: the asset is the caller's and is pending, ...            *)
FindAsset(r) ==
  LET c == call[r] IN
  /\ pc[r] = "findAsset"
  /\ Goto(r, IF assets[c.media] = [owner |-> c.user, status |-> "pending"] THEN "stat"
             ELSE "failed")
  /\ UNCHANGED media

(* Fault: any file will do, and none.                                      *)
StatNothing(r) ==
  /\ pc[r] = "stat"
  /\ Goto(r, "markUploaded")
  /\ UNCHANGED media

(* ... its file is there, and ...                                          *)
Stat(r) ==
  LET x == call[r].media IN
  /\ pc[r] = "stat"
  /\ Goto(r, CASE objects[x] = None  -> "failed"
               [] objects[x] = "bad" -> "dropBad"
               [] OTHER              -> "markUploaded")
  /\ UNCHANGED media

(* ... is deleted with its asset if it is not allowed.                     *)
DropBad(r) ==
  LET x == call[r].media IN
  /\ pc[r] = "dropBad"
  /\ objects' = [objects EXCEPT ![x] = None]
  /\ marking' = [marking EXCEPT ![r] = {x}]
  /\ Goto(r, "markBad")
  /\ UNCHANGED <<assets, dropping>>

Mark(x, status) == assets' = [assets EXCEPT ![x].status = status]

MarkBad(r) ==
  /\ pc[r] = "markBad"
  /\ Mark(call[r].media, "deleted")
  /\ marking' = [marking EXCEPT ![r] = {}]
  /\ Goto(r, "failed")
  /\ UNCHANGED <<objects, dropping>>

MarkUploaded(r) ==
  /\ pc[r] = "markUploaded"
  /\ Mark(call[r].media, "uploaded")
  /\ Goto(r, "ok")
  /\ UNCHANGED <<objects, dropping, marking>>

-----------------------------------------------------------------------------
(* cleanupMediaAssets(xs) reads the assets; those it has read as uploaded  *)
(* are in dropping until their file is deleted, all of them in marking     *)
(* until their row is updated, and each goes on by itself.                 *)
CleanUp(r, xs) ==
  /\ marking' = [marking EXCEPT ![r] = {x \in xs : assets[x] # None}]
  /\ dropping' = [dropping EXCEPT ![r] =
        {x \in xs : assets[x] # None /\ assets[x].status = "uploaded"}]
  /\ Goto(r, "clean")
  /\ UNCHANGED <<assets, objects>>

(* A file that cannot be deleted now is left in the bucket.                *)
DropFile(r) ==
  /\ pc[r] = "clean"
  /\ \E x \in dropping[r] :
       /\ dropping' = [dropping EXCEPT ![r] = @ \ {x}]
       /\ objects' \in {objects, [objects EXCEPT ![x] = None]}
  /\ UNCHANGED <<calls, assets, marking>>

MarkDeleted(r) ==
  /\ pc[r] = "clean"
  /\ \E x \in marking[r] \ dropping[r] :
       /\ marking' = [marking EXCEPT ![r] = @ \ {x}]
       /\ Mark(x, "deleted")
  /\ UNCHANGED <<calls, objects, dropping>>

Cleaned(r) ==
  /\ pc[r] = "clean" /\ marking[r] = {}
  /\ Goto(r, "ok")
  /\ UNCHANGED media

MediaStep(r) ==
  \/ ReceiveMedia(r) \/ CreateAsset(r) \/ Put(r) \/ FindAsset(r) \/ Stat(r)
  \/ DropBad(r) \/ MarkBad(r) \/ MarkUploaded(r)
  \/ DropFile(r) \/ MarkDeleted(r) \/ Cleaned(r)
=============================================================================
