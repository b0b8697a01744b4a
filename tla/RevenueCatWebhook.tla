-------------------------- MODULE RevenueCatWebhook --------------------------
(***************************************************************************)
(* RevenueCatWebhookService.processWebhook                                 *)
(* (src/src/modules/agencies/revenuecat-webhook.service.ts): the delivery  *)
(* of store events, which set the subscription tier of an agency or record *)
(* a donation, guarded against repetition by a cached result and a claim   *)
(* in Redis.                                                               *)
(*                                                                         *)
(* RevenueCat delivers an event again until it is answered with 200, so    *)
(* each element of Deliveries is a slot that serves one delivery after     *)
(* another. A step is the work between two awaits. The signature and the   *)
(* event id are valid: a delivery that fails those checks touches nothing. *)
(***************************************************************************)
EXTENDS Integers, FiniteSets

CONSTANTS
  Events,        \* event ids
  Users,         \* users with an account
  Owners,        \* users that own an agency from the start
  Campaigns,     \* campaigns a subscriber attribute may name
  Transactions,  \* store transactions
  Deliveries,    \* slots for deliveries that are served at the same time
  Worlds,        \* the circumstances the service may be in, see World
  None           \* null

Tiers == {"basic", "premium", "featured"}

(* mapped: the product names a donation, or an entitlement or the product  *)
(* of a subscription names a tier.                                         *)
EventData ==
  [kind : {"donation", "active", "ended", "unsupported"},
   mapped : BOOLEAN, tier : Tiers, transaction : Transactions,
   original : Users \cup {None}, user : Users \cup {None},
   aliases : SUBSET Users]

(* eventOf: what each event of this world says; maxFaults: a bound on      *)
(* failures, crashes and lost answers; slow: whether processing may take   *)
(* longer than the claim lives; expires: whether a result may expire while *)
(* it is still asked for; newOwners: users who may open an agency.         *)
ASSUME WorldsAssumption ==
  /\ Owners \subseteq Users
  /\ \A w \in Worlds :
       /\ DOMAIN w.eventOf \subseteq Events
       /\ \A e \in DOMAIN w.eventOf : w.eventOf[e] \in EventData
       /\ w.maxFaults \in Nat
       /\ {w.slow, w.expires} \subseteq BOOLEAN
       /\ w.newOwners \subseteq Users

ASSUME NoneAssumption == None \notin Users \cup Events

Donations == [id : Nat, transaction : Transactions, campaign : Campaigns]

VARIABLES
  world,      \* the circumstances, chosen once
  cached,     \* events whose result is under rc:evt:<id>
  claimed,    \* events with a key rc:claim:<id>
  agencies,   \* users that own an agency
  tier,       \* agencies.subscription_tier
  donations,  \* donations, each with its wallet row
  applied,    \* how often each event has taken effect (ghost, see Applied)
  pending,    \* events RevenueCat has not been answered 200 for
  faults,     \* failures so far
  pc,         \* the next step of each delivery
  event,      \* the event it carries
  target      \* the agency or the campaign it has found

store == <<agencies, tier, donations>>
redis == <<cached, claimed>>
vars == <<world, redis, store, applied, pending, faults, pc, event, target>>

Claiming == {"readCache", "claim", "recheck"}
Processing == {"findDonor", "findKey", "commit", "findOriginal", "findUser",
               "findAlias", "setTier", "reject", "storeResult"}
Steps == Claiming \cup Processing \cup {"idle", "finish", "release", "ok"}

EventOf == world.eventOf

Init ==
  /\ world \in Worlds
  /\ cached = {}
  /\ claimed = {}
  /\ agencies = Owners
  /\ tier = [u \in Users |-> "basic"]
  /\ donations = {}
  /\ applied = [e \in Events |-> 0]
  /\ pending = DOMAIN EventOf
  /\ faults = 0
  /\ pc = [d \in Deliveries |-> "idle"]
  /\ event = [d \in Deliveries |-> None]
  /\ target = [d \in Deliveries |-> None]

Data(d) == EventOf[event[d]]

Goto(d, step) == pc' = [pc EXCEPT ![d] = step]
Find(d, value) == target' = [target EXCEPT ![d] = value]

(* An event takes effect; the count stops at two. *)
Applied(d) ==
  applied' = [applied EXCEPT ![event[d]] = IF @ < 2 THEN @ + 1 ELSE @]

-----------------------------------------------------------------------------
(* Idempotency.                                                            *)

Receive(d) ==
  /\ pc[d] = "idle"
  /\ \E e \in pending : event' = [event EXCEPT ![d] = e]
  /\ Goto(d, "readCache")
  /\ Find(d, None)
  /\ UNCHANGED <<redis, store, applied, pending, faults>>

ReadCache(d) ==
  /\ pc[d] = "readCache"
  /\ Goto(d, IF event[d] \in cached THEN "ok" ELSE "claim")
  /\ UNCHANGED <<redis, store, applied, pending, faults, event, target>>

(* Where the claimed event goes. *)
Dispatch(d) ==
  CASE Data(d).kind = "unsupported" -> "storeResult"
    [] Data(d).kind = "donation" ->
         IF Data(d).mapped THEN "findDonor" ELSE "reject"
    [] OTHER -> "findOriginal"

(* SET NX: one delivery gets the claim. It does not look at the cache again.*)
Claim(d) ==
  /\ pc[d] = "claim"
  /\ claimed' = claimed \cup {event[d]}
  /\ Goto(d, IF event[d] \in claimed THEN "recheck" ELSE Dispatch(d))
  /\ UNCHANGED <<cached, store, applied, pending, faults, event, target>>

(* Fault: a delivery that loses the claim answers 200.                     *)
RecheckAnswersOk(d) ==
  /\ pc[d] = "recheck"
  /\ Goto(d, "ok")
  /\ UNCHANGED <<redis, store, applied, pending, faults, event, target>>

Recheck(d) ==
  /\ pc[d] = "recheck"
  /\ Goto(d, IF event[d] \in cached THEN "ok" ELSE "idle")
  /\ UNCHANGED <<redis, store, applied, pending, faults, event, target>>

(* The result, null for an unsupported event, goes to the cache ...        *)
StoreResult(d) ==
  /\ pc[d] = "storeResult"
  /\ cached' = cached \cup {event[d]}
  /\ Goto(d, "finish")
  /\ UNCHANGED <<claimed, store, applied, pending, faults, event, target>>

(* ... and the claim is deleted, whoever holds it now.                     *)
Finish(d) ==
  /\ pc[d] = "finish"
  /\ claimed' = claimed \ {event[d]}
  /\ Goto(d, "ok")
  /\ UNCHANGED <<cached, store, applied, pending, faults, event, target>>

(* A rejected event deletes the claim, throws, and has the catch block     *)
(* delete it once more.                                                    *)
Reject(d) ==
  /\ pc[d] = "reject"
  /\ claimed' = claimed \ {event[d]}
  /\ Goto(d, "release")
  /\ UNCHANGED <<cached, store, applied, pending, faults, event, target>>

Release(d) ==
  /\ pc[d] = "release"
  /\ claimed' = claimed \ {event[d]}
  /\ Goto(d, "idle")
  /\ UNCHANGED <<cached, store, applied, pending, faults, event, target>>

-----------------------------------------------------------------------------
(* Donations.                                                              *)

(* Fault: attributes that name no campaign are not refused.                *)
FindDonorOnly(d) ==
  /\ pc[d] = "findDonor"
  /\ Goto(d, "findKey")
  /\ UNCHANGED <<redis, store, applied, pending, faults, event, target>>

(* The donor is looked up, and the campaign in the attributes RevenueCat   *)
(* has for the subscriber now: the app may have changed them since the     *)
(* purchase. Attributes without a campaign end like a failed call (Fail).  *)
FindDonor(d) ==
  /\ pc[d] = "findDonor"
  /\ \/ /\ Data(d).user # None
        /\ \E c \in Campaigns : Find(d, c)
        /\ Goto(d, "findKey")
     \/ /\ Data(d).user = None
        /\ Goto(d, "release")
        /\ UNCHANGED target
  /\ UNCHANGED <<redis, store, applied, pending, faults, event>>

Donated(t) == \E donation \in donations : donation.transaction = t

(* recordDonation: a donation under the transaction's key is returned as   *)
(* it is ...                                                               *)
FindKey(d) ==
  /\ pc[d] = "findKey"
  /\ \/ /\ Donated(Data(d).transaction)
        /\ Applied(d)
        /\ Goto(d, "storeResult")
     \/ /\ ~Donated(Data(d).transaction)
        /\ Goto(d, "commit")
        /\ UNCHANGED applied
  /\ UNCHANGED <<redis, store, pending, faults, event, target>>

(* Fault: idempotency_key is not unique.                                   *)
NeverConflicts(d) == FALSE

Conflict(d) == Donated(Data(d).transaction)

(* ... and a new one is committed unless the unique key refuses it.        *)
CommitDonation(d) ==
  /\ pc[d] = "commit"
  /\ \/ /\ ~Conflict(d)
        /\ donations' = donations \cup
             {[id |-> Cardinality(donations), campaign |-> target[d],
               transaction |-> Data(d).transaction]}
        /\ Applied(d)
        /\ Goto(d, "storeResult")
     \/ /\ Conflict(d)
        /\ Goto(d, "release")
        /\ UNCHANGED <<donations, applied>>
  /\ UNCHANGED <<redis, agencies, tier, pending, faults, event, target>>

-----------------------------------------------------------------------------
(* Subscriptions.                                                          *)

(* Fault: an unmapped entitlement is not refused.                          *)
AgencyFoundMapped(d) == "setTier"

(* An active event must name a tier. *)
AgencyFound(d) ==
  IF Data(d).kind = "active" /\ ~Data(d).mapped THEN "reject" ELSE "setTier"

(* One lookup of the agency of a user, and where to go without one.        *)
Lookup(d, user, otherwise) ==
  IF user \in agencies
  THEN Find(d, user) /\ Goto(d, AgencyFound(d))
  ELSE Goto(d, otherwise) /\ UNCHANGED target

FindOriginal(d) ==
  /\ pc[d] = "findOriginal"
  /\ Lookup(d, Data(d).original, "findUser")
  /\ UNCHANGED <<redis, store, applied, pending, faults, event>>

FindUser(d) ==
  /\ pc[d] = "findUser"
  /\ Lookup(d, Data(d).user, "findAlias")
  /\ UNCHANGED <<redis, store, applied, pending, faults, event>>

(* One of the aliases that are users, not one of those with an agency.     *)
FindAlias(d) ==
  /\ pc[d] = "findAlias"
  /\ \/ \E user \in Data(d).aliases : Lookup(d, user, "reject")
     \/ Data(d).aliases = {} /\ Lookup(d, None, "reject")
  /\ UNCHANGED <<redis, store, applied, pending, faults, event>>

TierOf(d) == IF Data(d).kind = "active" THEN Data(d).tier ELSE "basic"

SetTier(d) ==
  /\ pc[d] = "setTier"
  /\ tier' = [tier EXCEPT ![target[d]] = TierOf(d)]
  /\ Applied(d)
  /\ Goto(d, "storeResult")
  /\ UNCHANGED <<redis, agencies, donations, pending, faults, event, target>>

-----------------------------------------------------------------------------
(* The environment.                                                        *)

(* RevenueCat is answered 200, or the answer is lost.                      *)
Answer(d) ==
  /\ pc[d] = "ok"
  /\ \/ pending' = pending \ {event[d]} /\ UNCHANGED faults
     \/ faults < world.maxFaults /\ faults' = faults + 1 /\ UNCHANGED pending
  /\ Goto(d, "idle")
  /\ UNCHANGED <<redis, store, applied, event, target>>

(* An operation on Redis, the database or RevenueCat fails: behind the     *)
(* claim the catch block releases it, before it the delivery just fails.   *)
Fail(d) ==
  /\ faults < world.maxFaults
  /\ pc[d] \notin {"idle", "ok"}
  /\ faults' = faults + 1
  /\ Goto(d, IF pc[d] \in Processing \cup {"finish"} THEN "release" ELSE "idle")
  /\ UNCHANGED <<redis, store, applied, pending, event, target>>

(* The instance dies; the claim stays. *)
Crash(d) ==
  /\ faults < world.maxFaults
  /\ pc[d] # "idle"
  /\ faults' = faults + 1
  /\ Goto(d, "idle")
  /\ UNCHANGED <<redis, store, applied, pending, event, target>>

Works(d, e) ==
  /\ event[d] = e
  /\ pc[d] \in Processing \cup {"finish", "release"}

(* Fault: the claim is set without EX.                                     *)
ClaimNeverExpires(e) == FALSE /\ UNCHANGED vars

(* CLAIM_TTL_SECONDS.                                                      *)
ClaimExpires(e) ==
  /\ e \in claimed
  /\ world.slow \/ \A d \in Deliveries : ~Works(d, e)
  /\ claimed' = claimed \ {e}
  /\ UNCHANGED <<cached, store, applied, pending, faults, pc, event, target>>

(* IDEMPOTENCY_TTL_SECONDS.                                                *)
ResultExpires(e) ==
  /\ world.expires
  /\ e \in cached
  /\ cached' = cached \ {e}
  /\ UNCHANGED <<claimed, store, applied, pending, faults, pc, event, target>>

(* A user opens an agency. *)
Register(u) ==
  /\ u \in world.newOwners \ agencies
  /\ agencies' = agencies \cup {u}
  /\ UNCHANGED <<redis, tier, donations, applied, pending, faults, pc, event,
                 target>>

Work(d) ==
  \/ ReadCache(d) \/ Claim(d) \/ Recheck(d) \/ StoreResult(d) \/ Finish(d)
  \/ Reject(d) \/ Release(d) \/ FindDonor(d) \/ FindKey(d)
  \/ CommitDonation(d) \/ FindOriginal(d) \/ FindUser(d) \/ FindAlias(d)
  \/ SetTier(d) \/ Answer(d)

(* Every event has been acknowledged.                                      *)
Done ==
  /\ pending = {}
  /\ \A d \in Deliveries : pc[d] = "idle"
  /\ UNCHANGED vars

Next ==
  /\ \/ \E d \in Deliveries : Receive(d) \/ Work(d) \/ Fail(d) \/ Crash(d)
     \/ \E e \in Events : ClaimExpires(e) \/ ResultExpires(e)
     \/ \E u \in Users : Register(u)
     \/ Done
  /\ UNCHANGED world

Spec == Init /\ [][Next]_vars

(* An instance goes on with what it has received, Redis expires claims,    *)
(* and RevenueCat goes on delivering what was not acknowledged.            *)
Fairness ==
  /\ \A d \in Deliveries : WF_vars(Work(d) /\ UNCHANGED world)
  /\ \A e \in Events :
       /\ WF_vars(ClaimExpires(e) /\ UNCHANGED world)
       /\ SF_vars(\E d \in Deliveries : Receive(d) /\ event'[d] = e /\ UNCHANGED world)

FairSpec == Spec /\ Fairness
=============================================================================
