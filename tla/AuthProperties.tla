--------------------------- MODULE AuthProperties ---------------------------
(***************************************************************************)
(* What Auth is checked against. All of it holds for calls that overlap    *)
(* and break off; earlier[r] are the calls whose answers the caller of r   *)
(* may have known.                                                         *)
(***************************************************************************)
EXTENDS Auth

(* Every variable holds a value of its kind.                               *)
TypeOK ==
  /\ load \in Loads
  /\ pc \in [Requests -> {"idle"} \cup Answered \cup AuthSteps]
  /\ \A r \in Requests : call[r] \in Script[load][r] \cup {None}
  /\ accounts \in [Emails -> Accounts \cup {None}]
  /\ identities \in [Identities -> Emails \cup {None}]
  /\ twoFactor \in [Emails -> Factors]
  /\ codes \in Seq(Codes)
  /\ cooldowns \subseteq Emails \X CodeTypes
  /\ attempts \in [Emails -> Nat]
  /\ locked \subseteq Emails
  /\ sessions \in [Requests -> Sessions \cup {None}]
  /\ blacklist \subseteq Requests
  /\ who \in [Requests -> Emails \cup {None}]
  /\ read \in [Requests -> Accounts \cup {None}]
  /\ \A r \in Requests : picked[r] \subseteq DOMAIN codes
  /\ before \in [Requests -> SUBSET Requests]

(* The state of a session as SessionLifecycle knows it.                    *)
StateOf(x) ==
  IF sessions[x] = None THEN "none" ELSE IF sessions[x].revoked THEN "ended" ELSE "live"

Lifecycle == INSTANCE SessionLifecycle WITH
  Ids <- Requests, Users <- Emails,
  state <- [x \in Requests |-> StateOf(x)],
  owner <- [x \in Requests |-> IF sessions[x] = None THEN None ELSE sessions[x].user],
  parent <- [x \in Requests |-> IF sessions[x] = None THEN None ELSE sessions[x].parent]

(* Sessions keep the promise of SessionLifecycle, whatever calls overlap   *)
(* and wherever one of them breaks off: logins, rotations, logouts, resets *)
(* and deactivations write the same rows.                                  *)
SessionsHaveALifecycle == Lifecycle!Spec

(* A session that was there when someone logs out everywhere, resets the   *)
(* password or is deactivated does not outlast that call, whatever other   *)
(* calls do meanwhile.                                                     *)
SessionsEnd ==
  \A r \in Requests :
    pc[r] = "ok" /\ EndsSessions(call[r]) => before[r] \cap LiveOf(who[r]) = {}

UsesCode(c) == c.op \in {"verifyEmail", "loginCode", "reset"}

(* However calls overlap, a code that let a call through lets in none that *)
(* is received after the answer, and the code that a call issues leaves    *)
(* none of its type good that was issued before the call was received.     *)
CodesWorkOnce ==
  [][\A r \in Requests :
       /\ pc[r] \in AuthSteps /\ pc'[r] = "ok" /\ UsesCode(call[r]) =>
            \A s \in earlier[r] :
              pc[s] = "ok" /\ UsesCode(call[s]) => picked[r] # picked[s]
       /\ pc[r] = "createCode" /\ pc'[r] = "setCooldown" =>
            \A i \in Unused(who[r], TypeOfCode(call[r]))' : codes'[i].code \notin earlier[r]]_vars

(* A refresh token that was rotated is refused to every call that is       *)
(* received after the answer, also where the rotations of a token overlap: *)
(* each session has one successor, unless two were under way at once.      *)
RotatedOnce ==
  [][\A r \in Requests :
       sessions[r] = None /\ sessions'[r] # None /\ call[r].op = "refresh" =>
         \A x \in earlier[r] \cap Issued : sessions[x].parent # call[r].token]_vars

(* A social identity is linked to a traveler, although an account of       *)
(* another kind may be created at any time.                                *)
LinkedAccountsAreTravelers ==
  \A i \in Identities : identities[i] # None =>
    accounts[identities[i]] # None /\ accounts[identities[i]].role = "traveler"
=============================================================================
