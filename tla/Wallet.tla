------------------------------- MODULE Wallet -------------------------------
(***************************************************************************)
(* WalletService (src/src/modules/wallet/wallet.service.ts): admin credits,*)
(* donations with the optional platform fee, withdrawal requests, their    *)
(* review and their payment.                                               *)
(*                                                                         *)
(* Every element of Requests is one HTTP call served by a NestJS instance; *)
(* a client's retry is another element with the same idempotency key. A    *)
(* step is the work between two awaits. Reads see the committed database   *)
(* (READ COMMITTED); the writes of an interactive transaction take effect  *)
(* in the one step that commits them, where the unique indexes are checked.*)
(* The only transaction that stays open with its locks held while other    *)
(* steps happen is a donation that waits for its own fee (see FeeWait).    *)
(*                                                                         *)
(* Rows read by these handlers but owned by other services (the active     *)
(* flag of a user, the identity check of a profile, the answer of the      *)
(* funding provider) are read nondeterministically.                        *)
(***************************************************************************)
EXTENDS Integers, FiniteSets

CONSTANTS
  Users,       \* owners of wallets
  Campaigns,   \* campaigns that exist
  Creator,     \* the creator of each campaign
  Keys,        \* values of the Idempotency-Key header
  Amounts,     \* amounts a request may carry
  Fee,         \* the platform fee of each amount; 0 when the percentage is 0
  Threshold,   \* wallet.highValueWithdrawalThreshold
  Requests,    \* the calls the instances serve
  Scripts,     \* scripts: the calls each request may turn out to be
  None         \* null

WithdrawalIds == Requests   \* a request row is named by the call that made it

Calls ==
  [op : {"view"}, user : Users]
    \cup [op : {"credit"}, user : Users, key : Keys, amount : Amounts,
          currency : {"USD", "EUR"}]
    \cup [op : {"donate"}, donor : Users, campaign : Campaigns, key : Keys,
          amount : Amounts, currency : {"USD", "EUR"}]
    \cup [op : {"request"}, user : Users, amount : Amounts,
          currency : {"USD", "EUR"}]
    \cup [op : {"review"}, withdrawal : WithdrawalIds,
          decision : {"approved", "rejected"}]
    \cup [op : {"pay"}, withdrawal : WithdrawalIds, key : Keys]

ASSUME AmountsAssumption ==
  /\ Amounts \subseteq Nat \ {0}
  /\ Fee \in [Amounts -> Nat]
  /\ Threshold \in Nat

ASSUME CallsAssumption ==
  /\ Creator \in [Campaigns -> Users]
  /\ Scripts \subseteq [Requests -> SUBSET Calls]

(* Keys of wallet_transactions: the header as it is, the header scoped by  *)
(* donor and campaign for a donation, and the latter with "-fee" appended. *)
LedgerKeys == [header : Keys,
               scope : (Users \X Campaigns) \cup {None},
               fee : BOOLEAN]

RowIds == Requests \X {"main", "fee"}

Kinds == {"manual_admin_credit", "donation", "donation_fee",
          "withdrawal_request"}

Rows == [id : RowIds, key : LedgerKeys, user : Users, delta : Int,
         kind : Kinds, ref : Requests \cup {None}]

Donations == [id : Requests, campaign : Campaigns, amount : Amounts,
              transaction : RowIds]

Withdrawals == [user : Users, amount : Amounts,
                status : {"requested", "approved", "rejected", "paid"},
                transaction : RowIds \cup {None}]

ASSUME NoneAssumption ==
  /\ None \notin Int
  /\ None \notin RowIds
  /\ None \notin Withdrawals
  /\ None \notin Calls
  /\ None \notin Users \X Campaigns

VARIABLES
  accounts,    \* users that have a wallet_accounts row
  balance,     \* cached_balance
  ledger,      \* wallet_transactions
  donations,   \* donations
  raised,      \* campaigns.raised_amount
  withdrawals, \* withdrawal_requests
  pc,          \* the step each request takes next
  call,        \* the call each request carries
  seen,        \* the balance a request has read, None for no account
  paidBy       \* the transaction the debit of a payment returned

books == <<accounts, balance, ledger, donations, raised>>
local == <<call, seen, paidBy>>
vars == <<books, withdrawals, pc, local>>

Steps == {"idle", "openAccount", "createAccount", "checkIdentity",
          "createWithdrawal", "readWithdrawal", "writeReview", "deposit",
          "findKey", "findCreator", "findAccount", "write", "feeKey",
          "feeAccount", "feeWait", "setPaid", "ok", "failed"}

Answered == {"ok", "failed"}

Init ==
  /\ accounts = {}
  /\ balance = [u \in Users |-> 0]
  /\ ledger = {}
  /\ donations = {}
  /\ raised = [c \in Campaigns |-> 0]
  /\ withdrawals = [w \in WithdrawalIds |-> None]
  /\ pc = [r \in Requests |-> "idle"]
  /\ call = [r \in Requests |-> None]
  /\ seen = [r \in Requests |-> None]
  /\ paidBy = [r \in Requests |-> None]

-----------------------------------------------------------------------------
(* The transaction a call writes.                                          *)

Op(r) == call[r].op

(* The user whose account the call reads and moves. *)
Owner(r) == CASE Op(r) = "donate" -> Creator[call[r].campaign]
              [] Op(r) = "pay"    -> withdrawals[call[r].withdrawal].user
              [] OTHER            -> call[r].user

LedgerKey(r) ==
  [header |-> call[r].key,
   scope |-> IF Op(r) = "donate"
             THEN <<call[r].donor, call[r].campaign>> ELSE None,
   fee |-> FALSE]

FeeKey(r) == [LedgerKey(r) EXCEPT !.fee = TRUE]

(* Credits add their amount, the debit of a payment takes the request's.   *)
Delta(r) == IF Op(r) = "pay" THEN -withdrawals[call[r].withdrawal].amount
                             ELSE call[r].amount

FeeOf(r) == IF Op(r) = "donate" THEN Fee[call[r].amount] ELSE 0

Posting(r) ==
  [id |-> <<r, "main">>, key |-> LedgerKey(r), user |-> Owner(r),
   delta |-> Delta(r),
   kind |-> CASE Op(r) = "donate" -> "donation"
              [] Op(r) = "pay"    -> "withdrawal_request"
              [] OTHER            -> "manual_admin_credit",
   ref |-> CASE Op(r) = "donate" -> r
             [] Op(r) = "pay"    -> call[r].withdrawal
             [] OTHER            -> None]

FeePosting(r) ==
  [id |-> <<r, "fee">>, key |-> FeeKey(r), user |-> Owner(r),
   delta |-> -FeeOf(r), kind |-> "donation_fee", ref |-> r]

KeyInUse(key) == \E row \in ledger : row.key = key

(* The currency of an account is always USD, so any other one mismatches.  *)
CurrencyMatches(r) == Op(r) = "pay" \/ call[r].currency = "USD"

(* A donation that waits for its fee keeps the creator's account locked.   *)
HoldsLock(r) == pc[r] \in {"feeKey", "feeAccount", "feeWait"}
Unlocked(r, u) == \A o \in Requests \ {r} : HoldsLock(o) => Owner(o) # u

Goto(r, step) == pc' = [pc EXCEPT ![r] = step]
See(r, value) == seen' = [seen EXCEPT ![r] = value]

(* Fault: the row is inserted and the balance update forgotten.            *)
PostRowOnly(row) ==
  /\ ledger' = ledger \cup {row}
  /\ balance' = balance
  /\ accounts' = accounts \cup {row.user}

(* The inserts and updates of one committed transaction.                   *)
Post(row) ==
  /\ ledger' = ledger \cup {row}
  /\ balance' = [balance EXCEPT ![row.user] = @ + row.delta]
  /\ accounts' = accounts \cup {row.user}

-----------------------------------------------------------------------------
(* Handlers.                                                               *)

(* The calls a request may turn out to be, in a script of all calls so far.*)
Offered(r) ==
  UNION {s[r] : s \in {t \in Scripts :
                        \A o \in Requests : call[o] # None => call[o] \in t[o]}}

(* A request arrives. The controller refuses a donation to one's own       *)
(* campaign before it calls the service.                                   *)
Receive(r) ==
  /\ pc[r] = "idle"
  /\ \E c \in Offered(r) :
       /\ call' = [call EXCEPT ![r] = c]
       /\ Goto(r, CASE c.op \in {"view", "request"} -> "openAccount"
                    [] c.op \in {"review", "pay"}   -> "readWithdrawal"
                    [] c.op = "credit"              -> "deposit"
                    [] c.op = "donate" -> IF Creator[c.campaign] = c.donor
                                          THEN "failed" ELSE "findKey")
  /\ UNCHANGED <<books, withdrawals, seen, paidBy>>

(* adminCredit: the target user and the funding provider accept or refuse. *)
Deposit(r) ==
  /\ pc[r] = "deposit"
  /\ \E next \in {"findKey", "failed"} : Goto(r, next)
  /\ UNCHANGED <<books, withdrawals, local>>

(* What a request does with the account it has just read or created.       *)
AccountOpened(r, amountInAccount) ==
  CASE Op(r) = "view" -> "ok"
    [] Op(r) = "request" ->
         IF ~CurrencyMatches(r) \/ amountInAccount < call[r].amount
         THEN "failed"
         ELSE IF call[r].amount >= Threshold THEN "checkIdentity"
                                             ELSE "createWithdrawal"

(* getOrCreateWalletAccount outside a transaction: the lookup ...          *)
OpenAccount(r) ==
  /\ pc[r] = "openAccount"
  /\ \/ /\ Owner(r) \in accounts
        /\ See(r, balance[Owner(r)])
        /\ Goto(r, AccountOpened(r, balance[Owner(r)]))
     \/ /\ Owner(r) \notin accounts
        /\ See(r, None)
        /\ Goto(r, "createAccount")
  /\ UNCHANGED <<books, withdrawals, call, paidBy>>

(* ... and the insert, which the unique user_id refuses when another call  *)
(* has created the account since.                                          *)
CreateAccount(r) ==
  /\ pc[r] = "createAccount"
  /\ Unlocked(r, Owner(r))
  /\ \/ /\ Owner(r) \notin accounts
        /\ accounts' = accounts \cup {Owner(r)}
        /\ See(r, 0)
        /\ Goto(r, AccountOpened(r, 0))
     \/ /\ Owner(r) \in accounts
        /\ Goto(r, "failed")
        /\ UNCHANGED <<accounts, seen>>
  /\ UNCHANGED <<balance, ledger, donations, raised, withdrawals, call, paidBy>>

(* requestWithdrawal of a high amount: the profile is verified or not.     *)
CheckIdentity(r) ==
  /\ pc[r] = "checkIdentity"
  /\ \E next \in {"createWithdrawal", "failed"} : Goto(r, next)
  /\ UNCHANGED <<books, withdrawals, local>>

CreateWithdrawal(r) ==
  /\ pc[r] = "createWithdrawal"
  /\ withdrawals' = [withdrawals EXCEPT ![r] =
       [user |-> call[r].user, amount |-> call[r].amount,
        status |-> "requested", transaction |-> None]]
  /\ Goto(r, "ok")
  /\ UNCHANGED <<books, local>>

(* Fault: the payment does not check the status.                           *)
ReadAnyWithdrawal(r) ==
  LET w == withdrawals[call[r].withdrawal] IN
  /\ pc[r] = "readWithdrawal"
  /\ Goto(r, IF w = None THEN "failed"
             ELSE CASE Op(r) = "review" /\ w.status = "requested" -> "writeReview"
                    [] Op(r) = "pay"                              -> "findKey"
                    [] OTHER                                      -> "failed")
  /\ UNCHANGED <<books, withdrawals, local>>

(* reviewWithdrawal and markWithdrawalPaid check the status they read ...  *)
ReadWithdrawal(r) ==
  LET w == withdrawals[call[r].withdrawal] IN
  /\ pc[r] = "readWithdrawal"
  /\ Goto(r, IF w = None THEN "failed"
             ELSE CASE Op(r) = "review" /\ w.status = "requested" -> "writeReview"
                    [] Op(r) = "pay" /\ w.status = "approved"     -> "findKey"
                    [] OTHER                                      -> "failed")
  /\ UNCHANGED <<books, withdrawals, local>>

(* ... and write the row later by its id alone.                            *)
WriteReview(r) ==
  /\ pc[r] = "writeReview"
  /\ withdrawals' =
       [withdrawals EXCEPT ![call[r].withdrawal].status = call[r].decision]
  /\ Goto(r, "ok")
  /\ UNCHANGED <<books, local>>

(* Fault: a replayed payment reports a row of its own.                     *)
PostedAsOwn(r, rowId) ==
  IF Op(r) = "pay" THEN /\ Goto(r, "setPaid")
                        /\ paidBy' = [paidBy EXCEPT ![r] = <<r, "main">>]
                   ELSE Goto(r, "ok") /\ UNCHANGED paidBy

(* Where a call goes once its transaction has returned a ledger row.       *)
Posted(r, rowId) ==
  IF Op(r) = "pay" THEN /\ Goto(r, "setPaid")
                        /\ paidBy' = [paidBy EXCEPT ![r] = rowId]
                   ELSE Goto(r, "ok") /\ UNCHANGED paidBy

(* A transaction starts by looking its idempotency key up: a row under the *)
(* key is returned as if this call had written it.                         *)
FindKey(r) ==
  /\ pc[r] = "findKey"
  /\ \/ \E row \in ledger : row.key = LedgerKey(r) /\ Posted(r, row.id)
     \/ /\ ~KeyInUse(LedgerKey(r))
        /\ Goto(r, IF Op(r) = "donate" THEN "findCreator" ELSE "findAccount")
        /\ UNCHANGED paidBy
  /\ UNCHANGED <<books, withdrawals, call, seen>>

(* recordDonation: the creator may receive donations or not.               *)
FindCreator(r) ==
  /\ pc[r] = "findCreator"
  /\ \E next \in {"findAccount", "failed"} : Goto(r, next)
  /\ UNCHANGED <<books, withdrawals, local>>

(* The balance a debit is checked against is the one read here.            *)
FindAccount(r) ==
  LET found == IF Owner(r) \in accounts THEN balance[Owner(r)] ELSE None
      available == IF found = None THEN 0 ELSE found
  IN
  /\ pc[r] = "findAccount"
  /\ See(r, found)
  /\ Goto(r, IF CurrencyMatches(r) /\ (Op(r) = "pay" => available + Delta(r) >= 0)
             THEN "write" ELSE "failed")
  /\ UNCHANGED <<books, withdrawals, call, paidBy>>

(* Fault: idempotency_key is not unique.                                   *)
ConflictOnAccountOnly(r) == seen[r] = None /\ Owner(r) \in accounts

(* The unique indexes refuse a second row under a key and a second account.*)
Conflict(r) == \/ KeyInUse(LedgerKey(r))
               \/ seen[r] = None /\ Owner(r) \in accounts

(* Fault: raised_amount is forgotten.                                      *)
CommitWithoutRaised(r) ==
  /\ Post(Posting(r))
  /\ donations' = IF Op(r) = "donate"
                  THEN donations \cup
                         {[id |-> r, campaign |-> call[r].campaign,
                           amount |-> call[r].amount, transaction |-> <<r, "main">>]}
                  ELSE donations
  /\ UNCHANGED raised

Commit(r) ==
  /\ Post(Posting(r))
  /\ IF Op(r) = "donate"
     THEN /\ donations' = donations \cup
               {[id |-> r, campaign |-> call[r].campaign,
                 amount |-> call[r].amount, transaction |-> <<r, "main">>]}
          /\ raised' = [raised EXCEPT ![call[r].campaign] = @ + call[r].amount]
     ELSE UNCHANGED <<donations, raised>>

(* The writes of a transaction and its commit; a donation with a fee stays *)
(* open and calls debit, which runs on a connection of its own.            *)
Write(r) ==
  /\ pc[r] = "write"
  /\ Unlocked(r, Owner(r))
  /\ \/ /\ Conflict(r)
        /\ Goto(r, "failed")
        /\ UNCHANGED <<books, paidBy>>
     \/ /\ ~Conflict(r)
        /\ FeeOf(r) = 0
        /\ Commit(r)
        /\ Posted(r, <<r, "main">>)
     \/ /\ ~Conflict(r)
        /\ FeeOf(r) > 0
        /\ Goto(r, "feeKey")
        /\ UNCHANGED <<books, paidBy>>
  /\ UNCHANGED <<withdrawals, call, seen>>

(* The fee's transaction finds its key, and the donation commits, ...      *)
FeeFindKey(r) ==
  /\ pc[r] = "feeKey"
  /\ \/ KeyInUse(FeeKey(r)) /\ Commit(r) /\ Goto(r, "ok")
     \/ ~KeyInUse(FeeKey(r)) /\ Goto(r, "feeAccount") /\ UNCHANGED books
  /\ UNCHANGED <<withdrawals, local>>

(* ... or reads the balance without the donation, which is not committed:  *)
(* too small for the fee, it fails the donation.                           *)
FeeFindAccount(r) ==
  LET found == IF Owner(r) \in accounts THEN balance[Owner(r)] ELSE None IN
  /\ pc[r] = "feeAccount"
  /\ See(r, found)
  /\ Goto(r, IF found # None /\ found < FeeOf(r) THEN "failed" ELSE "feeWait")
  /\ UNCHANGED <<books, withdrawals, call, paidBy>>

(* Fault: the open transaction has no timeout.                             *)
FeeWaitForever(r) == pc[r] = "feeWait" /\ FALSE /\ UNCHANGED vars

(* The fee's update waits for the lock its own donation holds, and the     *)
(* donation for the fee, until the transaction timeout rolls the donation  *)
(* back. The released fee then commits, unless its own timeout, its key or *)
(* its account stop it.                                                    *)
FeeWait(r) ==
  /\ pc[r] = "feeWait"
  /\ Goto(r, "failed")
  /\ \/ UNCHANGED <<accounts, balance, ledger>>
     \/ /\ seen[r] # None
        /\ ~KeyInUse(FeeKey(r))
        /\ Post(FeePosting(r))
  /\ UNCHANGED <<donations, raised, withdrawals, local>>

(* markWithdrawalPaid after its debit; wallet_transaction_id is unique.    *)
SetPaid(r) ==
  /\ pc[r] = "setPaid"
  /\ \/ /\ \A w \in WithdrawalIds \ {call[r].withdrawal} :
             withdrawals[w] # None => withdrawals[w].transaction # paidBy[r]
        /\ withdrawals' = [withdrawals EXCEPT
             ![call[r].withdrawal].status = "paid",
             ![call[r].withdrawal].transaction = paidBy[r]]
        /\ Goto(r, "ok")
     \/ /\ \E w \in WithdrawalIds \ {call[r].withdrawal} :
             withdrawals[w] # None /\ withdrawals[w].transaction = paidBy[r]
        /\ Goto(r, "failed")
        /\ UNCHANGED withdrawals
  /\ UNCHANGED <<books, local>>

(* The instance crashes, its connection drops or a transaction times out:  *)
(* what the call has not committed is rolled back.                         *)
Fail(r) ==
  /\ pc[r] \notin {"idle"} \cup Answered
  /\ Goto(r, "failed")
  /\ UNCHANGED <<books, withdrawals, local>>

Work(r) ==
  \/ Deposit(r) \/ OpenAccount(r) \/ CreateAccount(r) \/ CheckIdentity(r)
  \/ CreateWithdrawal(r) \/ ReadWithdrawal(r) \/ WriteReview(r) \/ FindKey(r)
  \/ FindCreator(r) \/ FindAccount(r) \/ Write(r) \/ FeeFindKey(r)
  \/ FeeFindAccount(r) \/ FeeWait(r) \/ SetPaid(r)

(* Every call that arrived has been answered.                              *)
Done == /\ \A r \in Requests : pc[r] \in Answered \cup {"idle"}
        /\ UNCHANGED vars

Next == Done \/ \E r \in Requests : Receive(r) \/ Work(r) \/ Fail(r)

Spec == Init /\ [][Next]_vars

(* While some call can go on, an instance works on one: the event loop     *)
(* runs its continuations and the database answers or times out. No order  *)
(* among calls is assumed.                                                 *)
Fairness == WF_vars(\E r \in Requests : Work(r))

FairSpec == Spec /\ Fairness
=============================================================================
