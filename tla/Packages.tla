------------------------------ MODULE Packages ------------------------------
(***************************************************************************)
(* PackagesService (src/src/modules/packages/packages.service.ts): trips   *)
(* that agencies offer, the media shown with them and the campaigns that   *)
(* travelers link to them. A package is named by the call that created it; *)
(* its rows of package_media and package_campaign_links are deleted with   *)
(* it. Packages that are inactive or archived are not told apart.          *)
(***************************************************************************)
EXTENDS Agencies, MediaAssets

CONSTANTS
  Campaigns,
  CreatorOf   \* who created each campaign

(* media is None where it is not sent.                                     *)
PackageCalls ==
  [op : {"createPackage"}, user : AgencyAccounts, media : SUBSET Requests, active : BOOLEAN]
    \cup [op : {"updatePackage"}, user : AgencyAccounts, package : Requests,
          media : (SUBSET Requests) \cup {None}, active : BOOLEAN]
    \cup [op : {"removePackage"}, user : AgencyAccounts, package : Requests]
    \cup [op : {"link", "unlink"}, user : Users, package : Requests, campaign : Campaigns]

PackageRows == [agency : AgencyAccounts, active : BOOLEAN, media : SUBSET Requests]

ASSUME PackageAssumption ==
  /\ CreatorOf \in [Campaigns -> Users]
  /\ None \notin PackageRows

VARIABLES
  packages,  \* packages, with their package_media
  links,     \* package_campaign_links
  orphans    \* the media a call is about to clean up

catalogue == <<packages, links, orphans>>

PackageSteps ==
  {"findApproved", "createPackage", "findOwned", "updatePackage", "readMedia",
   "deletePackage", "cleanup", "findActive", "findLink", "createLink",
   "findCampaign", "deleteLink"}

PackagesInit ==
  /\ packages = [r \in Requests |-> None]
  /\ links = {}
  /\ orphans = [r \in Requests |-> {}]

IsPackage(x) == packages[x] # None

FirstPackageStep(c) ==
  CASE c.op = "createPackage" -> "findApproved"
    [] c.op = "link"          -> "findActive"
    [] c.op = "unlink"        -> "findCampaign"
    [] OTHER                  -> "findOwned"

ReceivePackage(r) ==
  /\ Begin(r, PackageCalls) /\ StartAt(r, FirstPackageStep(call'[r]))
  /\ UNCHANGED <<catalogue, media>>

(* create: resolveAgencyId and assertAgencyApproved, two reads of the row  *)
(* of the agency, of which only the second asks for what can change.       *)
FindApproved(r) ==
  /\ pc[r] = "findApproved"
  /\ Goto(r, IF agencies[call[r].user] = "approved" THEN "createPackage" ELSE "failed")
  /\ UNCHANGED <<catalogue, media>>

CreatePackage(r) ==
  LET c == call[r] IN
  /\ pc[r] = "createPackage"
  /\ packages' = [packages EXCEPT ![r] =
        [agency |-> c.user, active |-> c.active, media |-> c.media]]
  /\ Goto(r, "ok")
  /\ UNCHANGED <<links, orphans, media>>

(* findOwnedOrThrow.                                                       *)
FindOwned(r) ==
  LET c == call[r] IN
  /\ pc[r] = "findOwned"
  /\ Goto(r, IF IsPackage(c.package) /\ packages[c.package].agency = c.user
             THEN IF c.op = "updatePackage" THEN "updatePackage" ELSE "readMedia"
             ELSE "failed")
  /\ UNCHANGED <<catalogue, media>>

(* Fault: all the media a package had is cleaned up.                       *)
AllReplaced(old, new) == old

Replaced(old, new) == old \ new

(* update: one transaction, which fails if the package is gone.            *)
UpdatePackage(r) ==
  LET c == call[r]
      old == packages[c.package].media
      new == IF c.media = None THEN old ELSE c.media
  IN
  /\ pc[r] = "updatePackage"
  /\ IF IsPackage(c.package)
     THEN /\ packages' = [packages EXCEPT ![c.package].active = c.active,
                                          ![c.package].media = new]
          /\ orphans' = [orphans EXCEPT ![r] =
                IF c.media = None THEN {} ELSE Replaced(old, new)]
          /\ Goto(r, IF orphans'[r] = {} THEN "ok" ELSE "cleanup")
     ELSE Goto(r, "failed") /\ UNCHANGED <<packages, orphans>>
  /\ UNCHANGED <<links, media>>

(* remove reads the media of the package, ...                              *)
ReadMedia(r) ==
  LET x == call[r].package IN
  /\ pc[r] = "readMedia"
  /\ orphans' = [orphans EXCEPT ![r] = IF IsPackage(x) THEN packages[x].media ELSE {}]
  /\ Goto(r, "deletePackage")
  /\ UNCHANGED <<packages, links, media>>

(* Fault: the links of a package outlive it.                               *)
DeletePackageOnly(r) ==
  /\ pc[r] = "deletePackage"
  /\ packages' = [packages EXCEPT ![call[r].package] = None]
  /\ Goto(r, IF orphans[r] = {} THEN "ok" ELSE "cleanup")
  /\ UNCHANGED <<links, orphans, media>>

(* ... deletes the package and ...                                         *)
DeletePackage(r) ==
  LET x == call[r].package IN
  /\ pc[r] = "deletePackage"
  /\ IF IsPackage(x)
     THEN /\ packages' = [packages EXCEPT ![x] = None]
          /\ links' = {l \in links : l[1] # x}
          /\ Goto(r, IF orphans[r] = {} THEN "ok" ELSE "cleanup")
     ELSE Goto(r, "failed") /\ UNCHANGED <<packages, links>>
  /\ UNCHANGED <<orphans, media>>

(* ... has the media cleaned up.                                           *)
CleanUpOrphans(r) ==
  /\ pc[r] = "cleanup"
  /\ CleanUp(r, orphans[r])
  /\ UNCHANGED catalogue

-----------------------------------------------------------------------------
(* linkToCampaign: the package is active, ...                              *)
FindActive(r) ==
  LET x == call[r].package IN
  /\ pc[r] = "findActive"
  /\ Goto(r, IF IsPackage(x) /\ packages[x].active THEN "findCampaign" ELSE "failed")
  /\ UNCHANGED <<catalogue, media>>

(* ... the campaign is the caller's, for unlinkFromCampaign too, ...       *)
FindCampaign(r) ==
  /\ pc[r] = "findCampaign"
  /\ Goto(r, IF CreatorOf[call[r].campaign] = call[r].user THEN "findLink" ELSE "failed")
  /\ UNCHANGED <<catalogue, media>>

LinkOf(c) == <<c.package, c.campaign>>

FindLink(r) ==
  LET linked == LinkOf(call[r]) \in links IN
  /\ pc[r] = "findLink"
  /\ Goto(r, CASE call[r].op = "link" /\ ~linked  -> "createLink"
               [] call[r].op = "unlink" /\ linked -> "deleteLink"
               [] OTHER                           -> "failed")
  /\ UNCHANGED <<catalogue, media>>

(* ... and the unique index and the foreign key admit the link.            *)
CreateLink(r) ==
  LET link == LinkOf(call[r]) IN
  /\ pc[r] = "createLink"
  /\ IF link \notin links /\ IsPackage(link[1])
     THEN links' = links \cup {link} /\ Goto(r, "ok")
     ELSE Goto(r, "failed") /\ UNCHANGED links
  /\ UNCHANGED <<packages, orphans, media>>

DeleteLink(r) ==
  LET link == LinkOf(call[r]) IN
  /\ pc[r] = "deleteLink"
  /\ IF link \in links
     THEN links' = links \ {link} /\ Goto(r, "ok")
     ELSE Goto(r, "failed") /\ UNCHANGED links
  /\ UNCHANGED <<packages, orphans, media>>

PackageStep(r) ==
  \/ ReceivePackage(r) \/ FindApproved(r) \/ CreatePackage(r) \/ FindOwned(r)
  \/ UpdatePackage(r) \/ ReadMedia(r) \/ DeletePackage(r) \/ CleanUpOrphans(r)
  \/ FindActive(r) \/ FindCampaign(r) \/ FindLink(r) \/ CreateLink(r) \/ DeleteLink(r)
=============================================================================
