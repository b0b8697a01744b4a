-------------------------- MODULE WalletProperties --------------------------
(***************************************************************************)
(* What Wallet is checked and proved against.                              *)
(***************************************************************************)
EXTENDS Wallet, FiniteSetsExt

SumOver(S, value(_)) == MapThenSumSet(value, S)

(* Every variable holds a value of its kind: the rows of each table have   *)
(* their columns, and each request is at a step of its handler.            *)
TypeOK ==
  /\ accounts \subseteq Users
  /\ balance \in [Users -> Int]
  /\ ledger \subseteq Rows
  /\ donations \subseteq Donations
  /\ raised \in [Campaigns -> Nat]
  /\ withdrawals \in [WithdrawalIds -> Withdrawals \cup {None}]
  /\ pc \in [Requests -> Steps]
  /\ call \in [Requests -> Calls \cup {None}]
  /\ seen \in [Requests -> Int \cup {None}]
  /\ paidBy \in [Requests -> RowIds \cup {None}]

(* A retried call and a concurrent duplicate move money once: whatever the *)
(* interleaving of lookups and inserts, at most one row has a given key.   *)
OneRowPerKey ==
  \A row, other \in ledger : row.key = other.key => row = other

(* recordDonation is all or nothing: every donation has its credit to the  *)
(* campaign's creator, every such credit has its donation, and             *)
(* raised_amount is the sum of the campaign's donations.                   *)
DonationsMatchBooks ==
  /\ \A d \in donations :
       \E row \in ledger : /\ row.id = d.transaction
                           /\ row.kind = "donation"
                           /\ row.ref = d.id
                           /\ row.user = Creator[d.campaign]
                           /\ row.delta = d.amount
  /\ \A row \in ledger : row.kind = "donation" =>
       \E d \in donations : d.transaction = row.id
  /\ \A c \in Campaigns :
       raised[c] = SumOver({d \in donations : d.campaign = c}, LAMBDA d : d.amount)

(* Money leaves a wallet for a withdrawal only after an admin approved it: *)
(* the debit is the withdrawal's own amount, from its own user, and the    *)
(* request has been reviewed by the time the debit is in the ledger.       *)
DebitOnlyAfterReview ==
  \A row \in ledger : row.kind = "withdrawal_request" =>
    /\ row.ref \in WithdrawalIds
    /\ withdrawals[row.ref] # None
    /\ withdrawals[row.ref].status # "requested"
    /\ row.user = withdrawals[row.ref].user
    /\ row.delta = -withdrawals[row.ref].amount

(* Clients draw a fresh key for every operation and repeat it on retries   *)
(* only: two calls that share a ledger key are the same operation.         *)
SameOperation(c, d) ==
  /\ c.op = d.op
  /\ c.op = "pay" => c.withdrawal = d.withdrawal

Received == {r \in Requests : call[r] # None}

KeysNameOperations ==
  \A r, o \in Received :
    /\ Op(r) \in {"credit", "pay"}
    /\ Op(o) \in {"credit", "pay"}
    /\ call[r].key = call[o].key
    => SameOperation(call[r], call[o])

(* A paid withdrawal is linked to a committed row that no other withdrawal *)
(* is linked to and, when keys name operations, that row is its own debit: *)
(* markWithdrawalPaid never reports a payment that moved no money.         *)
PaidIsBackedByDebit ==
  \A w \in WithdrawalIds :
    withdrawals[w] # None /\ withdrawals[w].status = "paid" =>
      /\ \E row \in ledger :
           /\ row.id = withdrawals[w].transaction
           /\ KeysNameOperations =>
                row.kind = "withdrawal_request" /\ row.ref = w
      /\ \A v \in WithdrawalIds \ {w} : withdrawals[v] # None =>
           withdrawals[v].transaction # withdrawals[w].transaction

(* With a single key for each payment, a retry after a crash between the   *)
(* debit and the status update completes the payment without a second      *)
(* debit, even when the two overlap.                                       *)
OneKeyPerPayment ==
  \A r, o \in Received :
    Op(r) = "pay" /\ Op(o) = "pay" /\ call[r].withdrawal = call[o].withdrawal =>
      call[r].key = call[o].key

DebitsOf(w) ==
  {row \in ledger : row.kind = "withdrawal_request" /\ row.ref = w}

RetriedPaymentDebitsOnce ==
  OneKeyPerPayment => \A w \in WithdrawalIds : Cardinality(DebitsOf(w)) <= 1

(* A balance never goes below zero.                                        *)
NoOverdraft == \A u \in Users : balance[u] >= 0

(* A withdrawal that was paid is never debited again.                      *)
NoDoubleDebit == \A w \in WithdrawalIds : Cardinality(DebitsOf(w)) <= 1

(* The wallet implements its abstract ledger: cached_balance, which every  *)
(* handler moves in transactions of its own after stale reads, goes with   *)
(* the rows, one at a time, whatever crashes, retries and conflicts.       *)
Ledger == INSTANCE WalletLedger WITH ledger <- ledger, balance <- balance
LedgerSpec == Ledger!Spec

(* Why those hold: what each request may rely on at the step it has        *)
(* reached, in every state.                                                *)
StepsOf(op) ==
  CASE op = "view"    -> {"openAccount", "createAccount"}
    [] op = "request" -> {"openAccount", "createAccount", "checkIdentity",
                          "createWithdrawal"}
    [] op = "review"  -> {"readWithdrawal", "writeReview"}
    [] op = "credit"  -> {"deposit", "findKey", "findAccount", "write"}
    [] op = "donate"  -> {"findKey", "findCreator", "findAccount", "write",
                          "feeKey", "feeAccount", "feeWait"}
    [] op = "pay"     -> {"readWithdrawal", "findKey", "findAccount", "write",
                          "setPaid"}

(* A request is at a step of the call it carries.                          *)
AtStepOfCall ==
  \A r \in Requests : pc[r] # "idle" =>
    call[r] \in Calls /\ pc[r] \in StepsOf(Op(r)) \cup Answered

(* Past its status check a review or a payment has a reviewable or a       *)
(* reviewed withdrawal, whatever others have done to it since.             *)
PastStatusCheck ==
  \A r \in Requests :
    /\ pc[r] = "writeReview" => withdrawals[call[r].withdrawal] # None
    /\ pc[r] \in {"findKey", "findAccount", "write", "setPaid"} /\ Op(r) = "pay" =>
         /\ withdrawals[call[r].withdrawal] # None
         /\ withdrawals[call[r].withdrawal].status # "requested"
    /\ pc[r] = "setPaid" => paidBy[r] # None

(* Rows and requests are named after calls that have come to their end.    *)
NamesAreFresh ==
  /\ \A w \in WithdrawalIds : withdrawals[w] # None => pc[w] = "ok"
  /\ \A row \in ledger : pc[row.id[1]] \in {"ok", "failed", "setPaid"}

(* A donation that waits for its fee is the only one to hold the creator's *)
(* account, and nobody takes its key while it waits.                       *)
WaitingDonationIsAlone ==
  \A r \in Requests : HoldsLock(r) =>
    /\ Unlocked(r, Owner(r))
    /\ ~KeyInUse(LedgerKey(r))

IInv == /\ TypeOK
        /\ AtStepOfCall
        /\ PastStatusCheck
        /\ NamesAreFresh
        /\ WaitingDonationIsAlone
        /\ OneRowPerKey
        /\ DebitOnlyAfterReview

(* Every call an instance has accepted is answered, even one that waits    *)
(* behind a donation that waits for its own fee.                           *)
EveryCallAnswered ==
  []<>(\A r \in Requests : pc[r] \in {"idle"} \cup Answered)
=============================================================================
