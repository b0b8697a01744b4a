------------------------------ MODULE MCWallet ------------------------------
(***************************************************************************)
(* Instances of Wallet for TLC. A script fixes which calls each request    *)
(* may be; the order and the interleaving of the requests are free.        *)
(***************************************************************************)
EXTENDS WalletProperties, TLC

CONSTANTS u1, u2, u3,             \* users
          c1,                     \* a campaign of u1
          k1, k2, k3,             \* idempotency keys
          r1, r2, r3, r4, r5, r6, r7   \* requests

MCCreator == (c1 :> u1)
MCFee == (1 :> 0 @@ 2 :> 1 @@ 3 :> 0)

Credit(u, k, a) ==
  [op |-> "credit", user |-> u, key |-> k, amount |-> a, currency |-> "USD"]
Donate(u, k, a, cur) ==
  [op |-> "donate", donor |-> u, campaign |-> c1, key |-> k, amount |-> a,
   currency |-> cur]
Withdraw(u, a, cur) ==
  [op |-> "request", user |-> u, amount |-> a, currency |-> cur]
Review(w, d) == [op |-> "review", withdrawal |-> w, decision |-> d]
Pay(w, k) == [op |-> "pay", withdrawal |-> w, key |-> k]
View(u) == [op |-> "view", user |-> u]

(* One withdrawal, reviewed by two admins and paid by a call and its retry,*)
(* next to a second withdrawal that is paid under a key of its own.        *)
Withdrawing ==
  r1 :> {Credit(u1, k1, 3)}
  @@ r2 :> {Withdraw(u1, 2, "USD"), Withdraw(u1, 1, "EUR")}
  @@ r3 :> {Review(r2, "approved"), Review(r2, "rejected")}
  @@ r4 :> {Review(r2, "approved"), Withdraw(u1, 3, "USD")}
  @@ r5 :> {Review(r4, "approved"), Pay(r2, k2)}
  @@ r6 :> {Pay(r2, k2), Pay(r4, k3)}
  @@ r7 :> {}

(* Donations of two travelers, the retry and a duplicate of one, an admin  *)
(* credit that is replayed with another body, and calls that open the same *)
(* wallet. The donation of 2 is charged a fee.                             *)
Donating ==
  r1 :> {Donate(u2, k1, 2, "USD")}
  @@ r2 :> {Donate(u2, k1, 2, "USD"), Donate(u2, k1, 1, "EUR"), Donate(u1, k1, 1, "USD")}
  @@ r3 :> {Donate(u3, k1, 1, "USD"), Donate(u2, k1, 2, "USD"), Credit(u1, k1, 1)}
  @@ r4 :> {Credit(u1, k1, 3), View(u1), Donate(u2, k2, 2, "USD")}
  @@ [r \in {r5, r6, r7} |-> {}]

(* A payment next to a donation that holds the same account.               *)
PayingWhileDonating ==
  r1 :> {Credit(u1, k1, 3)}
  @@ r2 :> {Withdraw(u1, 1, "USD")}
  @@ r3 :> {Review(r2, "approved")}
  @@ r4 :> {Pay(r2, k2)}
  @@ r5 :> {Donate(u2, k1, 2, "USD"), Donate(u2, k1, 3, "USD")}
  @@ [r \in {r6, r7} |-> {}]

MCScripts == {Withdrawing, Donating, PayingWhileDonating}

(* Two withdrawals of the whole balance. *)
TwoPayments ==
  {r1 :> {Credit(u1, k1, 2)}
   @@ r2 :> {Withdraw(u1, 2, "USD")}
   @@ r3 :> {Withdraw(u1, 2, "USD")}
   @@ r4 :> {Review(r2, "approved")}
   @@ r5 :> {Review(r3, "approved")}
   @@ r6 :> {Pay(r2, k2)}
   @@ r7 :> {Pay(r3, k3)}}

(* One withdrawal that two admins review and pay under keys of their own. *)
TwoAdmins ==
  {r1 :> {Credit(u1, k1, 3)}
   @@ r2 :> {Withdraw(u1, 1, "USD")}
   @@ r3 :> {Review(r2, "approved")}
   @@ r4 :> {Review(r2, "approved")}
   @@ r5 :> {Pay(r2, k2)}
   @@ r6 :> {Pay(r2, k3)}
   @@ r7 :> {}}
=============================================================================
