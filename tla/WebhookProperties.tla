-------------------------- MODULE WebhookProperties --------------------------
(***************************************************************************)
(* What RevenueCatWebhook is checked against.                              *)
(***************************************************************************)
EXTENDS RevenueCatWebhook

(* Every variable holds a value of its kind.                               *)
TypeOK ==
  /\ world \in Worlds
  /\ cached \subseteq Events
  /\ claimed \subseteq Events
  /\ agencies \subseteq Users
  /\ tier \in [Users -> Tiers]
  /\ donations \subseteq Donations
  /\ applied \in [Events -> 0..2]
  /\ pending \subseteq Events
  /\ faults \in 0..world.maxFaults
  /\ pc \in [Deliveries -> Steps]
  /\ event \in [Deliveries -> Events \cup {None}]
  /\ target \in [Deliveries -> Users \cup Campaigns \cup {None}]

(* One purchase is donated once, although claims expire under slow calls,  *)
(* results expire, instances die after the donation is committed, and two  *)
(* events may tell of one transaction.                                     *)
OneDonationPerTransaction ==
  \A donation, other \in donations :
    donation.transaction = other.transaction => donation = other

(* What RevenueCat has been answered 200 for has taken effect: no race     *)
(* between claim, cache and failure makes the provider stop delivering an  *)
(* event that no instance has carried out.                                 *)
AcknowledgedIsApplied ==
  \A e \in DOMAIN EventOf :
    e \in cached \/ e \notin pending =>
      EventOf[e].kind = "unsupported" \/ applied[e] > 0

(* Events that no check of the handler refuses.                            *)
Accepted(e) ==
  CASE EventOf[e].kind = "unsupported" -> TRUE
    [] EventOf[e].kind = "donation" -> EventOf[e].mapped
    [] EventOf[e].kind = "active" -> EventOf[e].mapped /\ EventOf[e].original \in Owners
    [] OTHER -> EventOf[e].original \in Owners

(* An agency has a paid tier only from a purchase of that tier that names  *)
(* the agency's owner and has been processed.                              *)
TierIsPaidFor ==
  \A u \in Users : tier[u] # "basic" =>
    \E e \in DOMAIN EventOf :
      /\ applied[e] > 0
      /\ EventOf[e].kind = "active"
      /\ EventOf[e].mapped
      /\ EventOf[e].tier = tier[u]
      /\ u \in {EventOf[e].original, EventOf[e].user} \cup EventOf[e].aliases

(* The claim prevents duplicate processing: an event takes effect once.    *)
AppliedOnce == \A e \in Events : applied[e] <= 1

(* An accepted event of a known user is acknowledged in the end, whatever  *)
(* the failures and crashes before: a claim that a dead instance has left  *)
(* behind does not block the event for good.                               *)
EventuallyAcknowledged ==
  <>(\A e \in DOMAIN EventOf :
       Accepted(e) /\ EventOf[e].user # None => e \notin pending)
=============================================================================
