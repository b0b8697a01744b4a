------------------------------ MODULE MCWebhook ------------------------------
(***************************************************************************)
(* Instances of RevenueCatWebhook for TLC.                                 *)
(***************************************************************************)
EXTENDS WebhookProperties, TLC

CONSTANTS a, b, c,        \* users
          c1, c2,         \* campaigns
          t1,             \* a store transaction
          e1, e2, e3, e4, \* events
          d1, d2          \* slots for deliveries

Event(kind, mapped, t, original, user, aliases) ==
  [kind |-> kind, mapped |-> mapped, tier |-> t, transaction |-> t1,
   original |-> original, user |-> user, aliases |-> aliases]

(* Two events that tell of one purchase. *)
TwoTellings ==
  e1 :> Event("donation", TRUE, "basic", None, a, {})
  @@ e2 :> Event("donation", TRUE, "basic", None, a, {})

(* A purchase and the end of a subscription of one agency. *)
BoughtAndEnded ==
  e1 :> Event("active", TRUE, "premium", a, a, {})
  @@ e2 :> Event("ended", TRUE, "premium", a, a, {})

(* Events that reach an agency by another name of its owner, that name no  *)
(* tier or no product, and one of an unsupported type. *)
Strangers ==
  e1 :> Event("active", TRUE, "featured", None, b, {a, c})
  @@ e2 :> Event("active", FALSE, "premium", a, b, {})
  @@ e3 :> Event("donation", FALSE, "basic", None, a, {})
  @@ e4 :> Event("unsupported", FALSE, "basic", None, None, {})

World(events, bound, slow, expires, opening) ==
  [eventOf |-> events, maxFaults |-> bound, slow |-> slow,
   expires |-> expires, newOwners |-> opening]

(* Slow calls outlive their claim; results that expire let a late delivery *)
(* process its event anew; faults are failures, crashes and lost answers.  *)
MCWorlds ==
  {World(TwoTellings, 1, FALSE, TRUE, {}), World(TwoTellings, 0, TRUE, TRUE, {}),
   World(BoughtAndEnded, 1, TRUE, TRUE, {}), World(BoughtAndEnded, 2, FALSE, FALSE, {}),
   World(Strangers, 0, FALSE, FALSE, {b, c})}
Calm == {World(BoughtAndEnded, 0, FALSE, FALSE, {})}
=============================================================================
