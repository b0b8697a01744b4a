---------------------------- MODULE WebhookProofs ----------------------------
(***************************************************************************)
(* Proofs about RevenueCatWebhook, for any events, worlds and numbers of   *)
(* deliveries: what is acknowledged has taken effect, one purchase is      *)
(* donated once, and a paid tier has been paid for.                        *)
(***************************************************************************)
EXTENDS WebhookProperties, FiniteSetTheorems, TLAPS

Effective(e) == EventOf[e].kind = "unsupported" \/ applied[e] > 0

(* What a delivery may rely on at its step. *)
Knows(d) ==
  /\ pc[d] # "idle" => event[d] \in DOMAIN EventOf
  /\ pc[d] \in {"storeResult", "finish", "ok"} => Effective(event[d])
  /\ pc[d] \in {"findKey", "commit"} => target[d] \in Campaigns
  /\ pc[d] = "setTier" =>
       /\ target[d] \in Users
       /\ target[d] \in {Data(d).original, Data(d).user} \cup Data(d).aliases
       /\ Data(d).kind = "active" => Data(d).mapped

IInv ==
  /\ TypeOK /\ IsFiniteSet(donations) /\ pending \subseteq DOMAIN EventOf
  /\ OneDonationPerTransaction /\ AcknowledgedIsApplied /\ TierIsPaidFor
  /\ \A d \in Deliveries : Knows(d)

-----------------------------------------------------------------------------
(* The events of a world have the fields that the steps read.              *)
LEMMA EventFields ==
  ASSUME TypeOK, NEW e \in DOMAIN EventOf
  PROVE  /\ e \in Events
         /\ EventOf[e].kind \in {"donation", "active", "ended", "unsupported"}
         /\ EventOf[e].tier \in Tiers /\ EventOf[e].transaction \in Transactions
         /\ EventOf[e].aliases \subseteq Users
BY WorldsAssumption DEF TypeOK, EventOf, EventData

(* What a step of a delivery leaves alone of the others, and of the past.  *)
Alone(d) ==
  /\ world' = world
  /\ \A e \in Events : applied[e] > 0 => applied'[e] > 0
  /\ \A o \in Deliveries \ {d} :
       pc'[o] = pc[o] /\ event'[o] = event[o] /\ target'[o] = target[o]

(* The variables of a delivery after its step.                             *)
LocalsFit(d) ==
  /\ pc'[d] \in Steps /\ pc' = [pc EXCEPT ![d] = pc'[d]]
  /\ event'[d] \in Events \cup {None} /\ event' = [event EXCEPT ![d] = event'[d]]
  /\ target'[d] \in Users \cup Campaigns \cup {None}
  /\ target' = [target EXCEPT ![d] = target'[d]]

(* What a delivery relies on stays true while others go on.                *)
LEMMA OthersKnow ==
  ASSUME IInv, NEW d \in Deliveries, Alone(d)
  PROVE  \A o \in Deliveries \ {d} : Knows(o)'
<1> TAKE o \in Deliveries \ {d}
<1>1. Knows(o) /\ EventOf' = EventOf
  BY DEF IInv, Alone, EventOf
<1>2. pc[o] # "idle" => event[o] \in Events
  BY <1>1, EventFields DEF Knows, IInv
<1> QED
  BY <1>1, <1>2 DEF Knows, Alone, Data, Effective

(* A step that leaves donations, tiers and agencies alone.                 *)
LEMMA Plain ==
  ASSUME IInv, NEW d \in Deliveries, Alone(d), LocalsFit(d), Knows(d)',
         UNCHANGED <<donations, tier, agencies>>, applied' \in [Events -> 0..2],
         faults' \in 0..world.maxFaults, claimed' \subseteq Events,
         cached' \subseteq Events, pending' \subseteq pending, AcknowledgedIsApplied'
  PROVE  IInv'
<1>1. EventOf' = EventOf
  BY DEF Alone, EventOf
<1>2. \A e \in DOMAIN EventOf : e \in Events
  BY EventFields DEF IInv
<1>3. TypeOK'
  BY <1>2 DEF IInv, TypeOK, Alone, LocalsFit
<1>4. OneDonationPerTransaction'
  BY DEF IInv, OneDonationPerTransaction
<1>6. TierIsPaidFor'
  BY <1>1, <1>2 DEF IInv, TierIsPaidFor, Alone
<1>7. IsFiniteSet(donations)' /\ (pending \subseteq DOMAIN EventOf)'
  BY <1>1 DEF IInv
<1> QED
  BY <1>3, <1>4, <1>6, <1>7, OthersKnow DEF IInv

(* ... and that neither stores nor acknowledges anything.                  *)
LEMMA Quiet ==
  ASSUME IInv, NEW d \in Deliveries, Alone(d), LocalsFit(d), Knows(d)',
         UNCHANGED <<donations, tier, agencies, cached, pending, applied>>,
         faults' \in 0..world.maxFaults, claimed' \subseteq Events
  PROVE  IInv'
<1>1. AcknowledgedIsApplied'
  BY DEF IInv, AcknowledgedIsApplied, Alone, EventOf
<1> QED
  BY <1>1, Plain DEF IInv, TypeOK

(* An event that takes effect has, and no other is undone.                 *)
LEMMA Effects ==
  ASSUME TypeOK, NEW d \in Deliveries, event[d] \in Events, Applied(d)
  PROVE  /\ applied' \in [Events -> 0..2]
         /\ applied'[event[d]] > 0
         /\ \A e \in Events : applied[e] > 0 => applied'[e] > 0
BY DEF TypeOK, Applied

-----------------------------------------------------------------------------
(* Cache and claim.                                                        *)
LEMMA ClaimingSteps ==
  ASSUME IInv, NEW d \in Deliveries, UNCHANGED world,
         \/ Receive(d) \/ ReadCache(d) \/ Claim(d) \/ Recheck(d) \/ StoreResult(d)
         \/ Finish(d) \/ Reject(d) \/ Release(d)
  PROVE  IInv'
<1> USE DEF Goto, Find, store, redis
<1>t. TypeOK /\ Knows(d) /\ EventOf' = EventOf /\ world.maxFaults \in Nat
  BY WorldsAssumption DEF IInv, EventOf, TypeOK
<1>s. pc[d] # "idle" => event[d] \in DOMAIN EventOf /\ event[d] \in Events
  BY <1>t, EventFields DEF Knows
<1>1. CASE Receive(d)
  <2>1. LocalsFit(d) /\ Alone(d)
    BY <1>1, <1>t, <1>s DEF Receive, LocalsFit, Alone, TypeOK, Steps, Claiming, Processing
  <2>2. Knows(d)'
    BY <1>1, <1>t, <1>s, <2>1 DEF Receive, IInv, LocalsFit, Knows, Effective, Data,
      AcknowledgedIsApplied, TypeOK
  <2> QED
    BY <1>1, <1>t, <1>s, <2>1, <2>2, Quiet DEF Receive, Knows, TypeOK
<1>2. CASE ReadCache(d)
  <2>1. LocalsFit(d) /\ Alone(d)
    BY <1>2, <1>t, <1>s DEF ReadCache, LocalsFit, Alone, TypeOK, Steps, Claiming, Processing
  <2>2. Knows(d)'
    BY <1>2, <1>t, <1>s, <2>1 DEF ReadCache, IInv, LocalsFit, Knows, Effective, Data,
      AcknowledgedIsApplied, TypeOK
  <2> QED
    BY <1>2, <1>t, <1>s, <2>1, <2>2, Quiet DEF ReadCache, Knows, TypeOK
<1>3. CASE Claim(d)
  <2>1. LocalsFit(d) /\ Alone(d)
    BY <1>3, <1>t, <1>s DEF Claim, Dispatch, Data, LocalsFit, Alone, TypeOK, Steps,
       Claiming, Processing
  <2>2. Knows(d)'
    BY <1>3, <1>t, <1>s, <2>1 DEF Claim, Dispatch, Data, IInv, LocalsFit, Knows,
       Effective, Data,
      AcknowledgedIsApplied, TypeOK
  <2> QED
    BY <1>3, <1>t, <1>s, <2>1, <2>2, Quiet DEF Claim, Knows, TypeOK
<1>4. CASE Recheck(d)
  <2>1. LocalsFit(d) /\ Alone(d)
    BY <1>4, <1>t, <1>s DEF Recheck, LocalsFit, Alone, TypeOK, Steps, Claiming, Processing
  <2>2. Knows(d)'
    BY <1>4, <1>t, <1>s, <2>1 DEF Recheck, IInv, LocalsFit, Knows, Effective, Data,
      AcknowledgedIsApplied, TypeOK
  <2> QED
    BY <1>4, <1>t, <1>s, <2>1, <2>2, Quiet DEF Recheck, Knows, TypeOK
<1>5. CASE StoreResult(d)
  <2>1. LocalsFit(d) /\ Alone(d)
    BY <1>5, <1>t, <1>s DEF StoreResult, LocalsFit, Alone, TypeOK, Steps, Claiming,
       Processing
  <2>2. Knows(d)'
    BY <1>5, <1>t, <1>s, <2>1 DEF StoreResult, IInv, LocalsFit, Knows, Effective, Data,
      AcknowledgedIsApplied, TypeOK
  <2> QED
    <3>1. AcknowledgedIsApplied'
      BY <1>5, <1>t, <1>s DEF StoreResult, IInv, AcknowledgedIsApplied, Knows, Effective
    <3> QED
      BY <1>5, <1>t, <1>s, <2>1, <2>2, <3>1, Plain DEF StoreResult, TypeOK
<1>6. CASE Finish(d)
  <2>1. LocalsFit(d) /\ Alone(d)
    BY <1>6, <1>t, <1>s DEF Finish, LocalsFit, Alone, TypeOK, Steps, Claiming, Processing
  <2>2. Knows(d)'
    BY <1>6, <1>t, <1>s, <2>1 DEF Finish, IInv, LocalsFit, Knows, Effective, Data,
      AcknowledgedIsApplied, TypeOK
  <2> QED
    BY <1>6, <1>t, <1>s, <2>1, <2>2, Quiet DEF Finish, Knows, TypeOK
<1>7. CASE Reject(d)
  <2>1. LocalsFit(d) /\ Alone(d)
    BY <1>7, <1>t, <1>s DEF Reject, LocalsFit, Alone, TypeOK, Steps, Claiming, Processing
  <2>2. Knows(d)'
    BY <1>7, <1>t, <1>s, <2>1 DEF Reject, IInv, LocalsFit, Knows, Effective, Data,
      AcknowledgedIsApplied, TypeOK
  <2> QED
    BY <1>7, <1>t, <1>s, <2>1, <2>2, Quiet DEF Reject, Knows, TypeOK
<1>8. CASE Release(d)
  <2>1. LocalsFit(d) /\ Alone(d)
    BY <1>8, <1>t, <1>s DEF Release, LocalsFit, Alone, TypeOK, Steps, Claiming, Processing
  <2>2. Knows(d)'
    BY <1>8, <1>t, <1>s, <2>1 DEF Release, IInv, LocalsFit, Knows, Effective, Data,
      AcknowledgedIsApplied, TypeOK
  <2> QED
    BY <1>8, <1>t, <1>s, <2>1, <2>2, Quiet DEF Release, Knows, TypeOK
<1> QED
  BY <1>1, <1>2, <1>3, <1>4, <1>5, <1>6, <1>7, <1>8

-----------------------------------------------------------------------------
(* What a delivery finds out before it writes, and how it ends.            *)
LEMMA LookupSteps ==
  ASSUME IInv, NEW d \in Deliveries, UNCHANGED world,
         \/ FindDonor(d) \/ FindOriginal(d) \/ FindUser(d) \/ FindAlias(d)
         \/ Answer(d) \/ Fail(d) \/ Crash(d)
  PROVE  IInv'
<1> USE DEF Goto, Find, store, redis
<1>t. TypeOK /\ Knows(d) /\ EventOf' = EventOf /\ world.maxFaults \in Nat
  BY WorldsAssumption DEF IInv, EventOf, TypeOK
<1>s. pc[d] # "idle" => event[d] \in DOMAIN EventOf /\ event[d] \in Events
  BY <1>t, EventFields DEF Knows
<1>1. CASE FindDonor(d)
  <2>1. LocalsFit(d) /\ Alone(d)
    BY <1>1, <1>t, <1>s DEF FindDonor, Data, LocalsFit, Alone, TypeOK, Steps, Claiming,
       Processing
  <2>2. Knows(d)'
    BY <1>1, <1>t, <1>s, <2>1 DEF FindDonor, Data, IInv, LocalsFit, Knows, Effective, Data,
      AcknowledgedIsApplied, TypeOK
  <2> QED
    BY <1>1, <1>t, <1>s, <2>1, <2>2, Quiet DEF FindDonor, Knows, TypeOK
<1>2. CASE FindOriginal(d)
  <2>1. LocalsFit(d) /\ Alone(d)
    BY <1>2, <1>t, <1>s DEF FindOriginal, Lookup, AgencyFound, Data, LocalsFit, Alone,
       TypeOK, Steps, Claiming, Processing
  <2>2. Knows(d)'
    BY <1>2, <1>t, <1>s, <2>1 DEF FindOriginal, Lookup, AgencyFound, Data, IInv,
       LocalsFit, Knows, Effective, Data,
      AcknowledgedIsApplied, TypeOK
  <2> QED
    BY <1>2, <1>t, <1>s, <2>1, <2>2, Quiet DEF FindOriginal, Knows, TypeOK
<1>3. CASE FindUser(d)
  <2>1. LocalsFit(d) /\ Alone(d)
    BY <1>3, <1>t, <1>s DEF FindUser, Lookup, AgencyFound, Data, LocalsFit, Alone,
       TypeOK, Steps, Claiming, Processing
  <2>2. Knows(d)'
    BY <1>3, <1>t, <1>s, <2>1 DEF FindUser, Lookup, AgencyFound, Data, IInv, LocalsFit,
       Knows, Effective, Data,
      AcknowledgedIsApplied, TypeOK
  <2> QED
    BY <1>3, <1>t, <1>s, <2>1, <2>2, Quiet DEF FindUser, Knows, TypeOK
<1>4. CASE FindAlias(d)
  <2>1. LocalsFit(d) /\ Alone(d)
    BY <1>4, <1>t, <1>s DEF FindAlias, Lookup, AgencyFound, Data, LocalsFit, Alone,
       TypeOK, Steps, Claiming, Processing
  <2>a. pc'[d] \in {"setTier", "reject"}
    BY <1>4, <1>t DEF FindAlias, Lookup, AgencyFound, TypeOK
  <2>b. ASSUME pc'[d] = "setTier"
        PROVE  /\ target'[d] \in Users /\ target'[d] \in Data(d).aliases
               /\ Data(d).kind = "active" => Data(d).mapped
    <3>1. None \notin agencies
      BY <1>t, NoneAssumption DEF TypeOK
    <3>2. PICK user \in Data(d).aliases : Lookup(d, user, "reject")
      BY <1>4, <1>t, <2>b, <3>1 DEF FindAlias, Lookup, TypeOK
    <3> QED
      BY <1>t, <2>b, <3>2 DEF Lookup, AgencyFound, TypeOK
  <2>2. Knows(d)'
    BY <1>4, <1>t, <1>s, <2>a, <2>b DEF FindAlias, Knows, Data
  <2> QED
    BY <1>4, <1>t, <1>s, <2>1, <2>2, Quiet DEF FindAlias, Knows, TypeOK
<1>5. CASE Answer(d)
  <2>1. LocalsFit(d) /\ Alone(d)
    BY <1>5, <1>t, <1>s DEF Answer, LocalsFit, Alone, TypeOK, Steps, Claiming, Processing
  <2>2. Knows(d)'
    BY <1>5, <1>t, <1>s, <2>1 DEF Answer, IInv, LocalsFit, Knows, Effective, Data,
      AcknowledgedIsApplied, TypeOK
  <2> QED
    <3>1. AcknowledgedIsApplied'
      BY <1>5, <1>t, <1>s DEF Answer, IInv, AcknowledgedIsApplied, Knows, Effective
    <3> QED
      BY <1>5, <1>t, <1>s, <2>1, <2>2, <3>1, Plain DEF Answer, TypeOK
<1>6. CASE Fail(d)
  <2>1. LocalsFit(d) /\ Alone(d)
    BY <1>6, <1>t, <1>s DEF Fail, LocalsFit, Alone, TypeOK, Steps, Claiming, Processing
  <2>2. Knows(d)'
    BY <1>6, <1>t, <1>s, <2>1 DEF Fail, IInv, LocalsFit, Knows, Effective, Data,
      AcknowledgedIsApplied, TypeOK
  <2> QED
    BY <1>6, <1>t, <1>s, <2>1, <2>2, Quiet DEF Fail, Knows, TypeOK
<1>7. CASE Crash(d)
  <2>1. LocalsFit(d) /\ Alone(d)
    BY <1>7, <1>t, <1>s DEF Crash, LocalsFit, Alone, TypeOK, Steps, Claiming, Processing
  <2>2. Knows(d)'
    BY <1>7, <1>t, <1>s, <2>1 DEF Crash, IInv, LocalsFit, Knows, Effective, Data,
      AcknowledgedIsApplied, TypeOK
  <2> QED
    BY <1>7, <1>t, <1>s, <2>1, <2>2, Quiet DEF Crash, Knows, TypeOK
<1> QED
  BY <1>1, <1>2, <1>3, <1>4, <1>5, <1>6, <1>7

-----------------------------------------------------------------------------
(* A purchase is recorded, under its transaction's key.                    *)
LEMMA DonationSteps ==
  ASSUME IInv, NEW d \in Deliveries, UNCHANGED world, FindKey(d) \/ CommitDonation(d)
  PROVE  IInv'
<1> USE DEF Goto, store, redis
<1>t. TypeOK /\ Knows(d) /\ EventOf' = EventOf /\ event' = event /\ target' = target
  BY DEF IInv, EventOf, FindKey, CommitDonation
<1>s. event[d] \in DOMAIN EventOf /\ event[d] \in Events /\ Data(d).transaction \in Transactions
  BY <1>t, EventFields DEF Knows, Data, FindKey, CommitDonation
<1>l. /\ LocalsFit(d)
      /\ pc'[d] = "storeResult" => Applied(d)
      /\ pc'[d] # "storeResult" => applied' = applied /\ pc'[d] \in {"commit", "release"}
      /\ pc'[d] = "commit" => target[d] \in Campaigns
  BY <1>t, <1>s DEF FindKey, CommitDonation, LocalsFit, TypeOK, Steps, Claiming,
     Processing, Knows
<1>a. /\ applied' \in [Events -> 0..2]
      /\ \A e \in Events : applied[e] > 0 => applied'[e] > 0
      /\ pc'[d] = "storeResult" => applied'[event[d]] > 0
  BY <1>t, <1>s, <1>l, Effects DEF TypeOK
<1>b. Alone(d)
  BY <1>a, <1>l, <1>t DEF Alone, LocalsFit, TypeOK
<1>k. Knows(d)'
  BY <1>t, <1>s, <1>l, <1>a DEF Knows, Effective
<1>1. CASE donations' = donations
  <2>1. UNCHANGED <<cached, claimed, tier, agencies, pending, faults>>
    BY <1>1 DEF FindKey, CommitDonation
  <2>2. AcknowledgedIsApplied'
    BY <1>t, <1>a, <2>1, EventFields DEF IInv, AcknowledgedIsApplied
  <2> QED
    BY <1>1, <1>t, <1>l, <1>a, <1>b, <1>k, <2>1, <2>2, Plain DEF TypeOK
<1>2. CASE donations' # donations
  <2> DEFINE new == [id |-> Cardinality(donations), campaign |-> target[d],
                     transaction |-> Data(d).transaction]
  <2>1. /\ donations' = donations \cup {new} /\ ~Donated(Data(d).transaction)
        /\ UNCHANGED <<tier, agencies, cached, claimed, pending, faults>>
        /\ target[d] \in Campaigns
    BY <1>2, <1>t DEF FindKey, CommitDonation, Conflict, Knows
  <2>2. IsFiniteSet(donations) /\ Cardinality(donations) \in Nat
    BY FS_CardinalityType DEF IInv
  <2>3. new \in Donations /\ new.transaction = Data(d).transaction
    BY <1>s, <2>1, <2>2 DEF Donations
  <2> HIDE DEF new
  <2>4. IsFiniteSet(donations')
    BY <2>1, <2>2, FS_AddElement
  <2>5. TypeOK'
    BY <1>t, <1>l, <1>a, <2>1, <2>3 DEF TypeOK, LocalsFit
  <2>6. OneDonationPerTransaction'
    BY <2>1, <2>3 DEF IInv, OneDonationPerTransaction, Donated
  <2>7. \A e \in DOMAIN EventOf : e \in Events
    BY <1>t, EventFields
  <2>8. AcknowledgedIsApplied' /\ TierIsPaidFor'
    BY <1>t, <1>a, <2>1, <2>7 DEF IInv, AcknowledgedIsApplied, TierIsPaidFor
  <2> QED
    BY <1>t, <1>b, <1>k, <2>1, <2>4, <2>5, <2>6, <2>8, OthersKnow DEF IInv
<1> QED
  BY <1>1, <1>2

(* The tier of an agency is set, after the event has named its owner.      *)
LEMMA TierStep ==
  ASSUME IInv, NEW d \in Deliveries, UNCHANGED world, SetTier(d)
  PROVE  IInv'
<1> USE DEF Goto, store, redis
<1>t. /\ TypeOK /\ Knows(d) /\ EventOf' = EventOf
      /\ UNCHANGED <<event, target, agencies, donations, cached, claimed, pending, faults>>
  BY DEF IInv, EventOf, SetTier
<1>s. event[d] \in DOMAIN EventOf /\ event[d] \in Events /\ TierOf(d) \in Tiers
  BY <1>t, EventFields DEF Knows, Data, SetTier, TierOf, Tiers
<1>k. /\ target[d] \in Users
      /\ target[d] \in {Data(d).original, Data(d).user} \cup Data(d).aliases
      /\ Data(d).kind = "active" => Data(d).mapped
  BY <1>t DEF Knows, SetTier
<1>a. /\ applied' \in [Events -> 0..2]
      /\ \A e \in Events : applied[e] > 0 => applied'[e] > 0
      /\ applied'[event[d]] > 0
  BY <1>t, <1>s, Effects DEF SetTier
<1>1. LocalsFit(d) /\ Alone(d) /\ pc'[d] = "storeResult"
  BY <1>t, <1>a DEF SetTier, LocalsFit, Alone, TypeOK, Steps, Processing
<1>2. Knows(d)'
  BY <1>t, <1>s, <1>a, <1>1 DEF Knows, Effective
<1>3. TypeOK'
  BY <1>t, <1>s, <1>a, <1>k, <1>1 DEF SetTier, TypeOK, LocalsFit
<1>4. \A e \in DOMAIN EventOf : e \in Events
  BY <1>t, EventFields
<1>5. AcknowledgedIsApplied' /\ OneDonationPerTransaction'
  BY <1>t, <1>a, <1>4 DEF IInv, AcknowledgedIsApplied, OneDonationPerTransaction
<1>6. TierIsPaidFor'
  <2> SUFFICES ASSUME NEW u \in Users, tier'[u] # "basic"
               PROVE  \E e \in DOMAIN EventOf :
                        /\ applied'[e] > 0 /\ EventOf[e].kind = "active" /\ EventOf[e].mapped
                        /\ EventOf[e].tier = tier'[u]
                        /\ u \in {EventOf[e].original, EventOf[e].user} \cup EventOf[e].aliases
    BY <1>t DEF TierIsPaidFor
  <2>1. CASE u = target[d]
    <3>1. tier'[u] = TierOf(d)
      BY <1>t, <2>1 DEF SetTier, TypeOK
    <3>2. Data(d).kind = "active" /\ Data(d).tier = tier'[u]
      BY <3>1 DEF TierOf
    <3> QED
      BY <1>s, <1>k, <1>a, <2>1, <3>2 DEF Data
  <2>2. CASE u # target[d]
    <3>1. tier'[u] = tier[u]
      BY <1>t, <2>2 DEF SetTier, TypeOK
    <3> QED
      BY <1>a, <1>4, <3>1 DEF IInv, TierIsPaidFor
  <2> QED
    BY <2>1, <2>2
<1> QED
  BY <1>t, <1>1, <1>2, <1>3, <1>5, <1>6, OthersKnow DEF IInv

(* Redis forgets, users open agencies, or nothing happens.                 *)
LEMMA Surroundings ==
  ASSUME IInv, UNCHANGED <<world, tier, donations, applied, pending, faults, pc, event, target>>,
         claimed' \subseteq claimed, cached' \subseteq cached, agencies' \subseteq Users
  PROVE  IInv'
<1>1. TypeOK'
  BY DEF IInv, TypeOK
<1>2. EventOf' = EventOf
  BY DEF EventOf
<1>3. AcknowledgedIsApplied' /\ TierIsPaidFor' /\ OneDonationPerTransaction'
  BY <1>2 DEF IInv, AcknowledgedIsApplied, TierIsPaidFor, OneDonationPerTransaction
<1>4. \A d \in Deliveries : Knows(d)'
  BY <1>2 DEF IInv, Knows, Effective, Data
<1> QED
  BY <1>1, <1>2, <1>3, <1>4 DEF IInv

-----------------------------------------------------------------------------
(* Whatever claims, results, failures and crashes do, a delivery that gets *)
(* as far as its result has taken effect.                                  *)
THEOREM Invariance == Spec => []IInv
<1>1. Init => IInv
  <2> SUFFICES ASSUME Init PROVE IInv
    OBVIOUS
  <2>1. world.maxFaults \in Nat /\ DOMAIN EventOf \subseteq Events /\ Owners \subseteq Users
    BY WorldsAssumption DEF Init, EventOf
  <2>2. TypeOK
    BY <2>1 DEF Init, TypeOK, Tiers, Steps, EventOf
  <2>3. IsFiniteSet(donations)
    BY FS_EmptySet DEF Init
  <2>4. OneDonationPerTransaction /\ AcknowledgedIsApplied /\ TierIsPaidFor
    BY DEF Init, OneDonationPerTransaction, AcknowledgedIsApplied, TierIsPaidFor, EventOf
  <2>5. \A d \in Deliveries : Knows(d)
    BY DEF Init, Knows
  <2> QED
    BY <2>2, <2>3, <2>4, <2>5 DEF IInv, Init
<1>2. IInv /\ [Next]_vars => IInv'
  <2> SUFFICES ASSUME IInv, [Next]_vars PROVE IInv'
    OBVIOUS
  <2>1. ASSUME NEW d \in Deliveries, UNCHANGED world,
               Receive(d) \/ Work(d) \/ Fail(d) \/ Crash(d)
        PROVE  IInv'
    BY <2>1, ClaimingSteps, LookupSteps, DonationSteps, TierStep DEF Work
  <2>2. ASSUME NEW e \in Events, UNCHANGED world, ClaimExpires(e) \/ ResultExpires(e)
        PROVE  IInv'
    BY <2>2, Surroundings DEF ClaimExpires, ResultExpires, store, redis, IInv, TypeOK
  <2>3. ASSUME NEW u \in Users, UNCHANGED world, Register(u)
        PROVE  IInv'
    BY <2>3, Surroundings DEF Register, redis, IInv, TypeOK
  <2>4. CASE Done \/ UNCHANGED vars
    BY <2>4, Surroundings DEF Done, vars, store, redis, IInv, TypeOK
  <2> QED
    BY <2>1, <2>2, <2>3, <2>4 DEF Next
<1> QED
  BY <1>1, <1>2, PTL DEF Spec

(* Type correctness, a part of the invariant.                              *)
THEOREM TypeCorrect == Spec => []TypeOK
<1>1. IInv => TypeOK
  BY DEF IInv
<1> QED
  BY <1>1, Invariance, PTL

(* The provider never stops delivering an event that no instance has       *)
(* carried out.                                                            *)
THEOREM AcknowledgedHasEffect == Spec => []AcknowledgedIsApplied
<1>1. IInv => AcknowledgedIsApplied
  BY DEF IInv
<1> QED
  BY <1>1, Invariance, PTL

(* One purchase is one donation, however often it is delivered.            *)
THEOREM PurchasesAreDonatedOnce == Spec => []OneDonationPerTransaction
<1>1. IInv => OneDonationPerTransaction
  BY DEF IInv
<1> QED
  BY <1>1, Invariance, PTL

(* A paid tier comes from a purchase of that tier that names its agency.   *)
THEOREM TiersArePaidFor == Spec => []TierIsPaidFor
<1>1. IInv => TierIsPaidFor
  BY DEF IInv
<1> QED
  BY <1>1, Invariance, PTL
=============================================================================
