---------------------------- MODULE WalletLedger ----------------------------
(***************************************************************************)
(* What the wallet promises, with every request, lock and crash hidden: a  *)
(* ledger of signed rows, one balance per user, and a single operation     *)
(* that inserts one row under a fresh idempotency key and moves the        *)
(* balance of the row's user by exactly the row's amount.                  *)
(***************************************************************************)
EXTENDS Integers

CONSTANTS
  Users,       \* owners of wallet accounts
  Rows         \* rows the ledger may hold: records with id, key, user, delta

VARIABLES
  ledger,      \* the rows of wallet_transactions
  balance      \* wallet_accounts.cached_balance, 0 while there is no account

vars == <<ledger, balance>>

Init == /\ ledger = {}
        /\ balance = [u \in Users |-> 0]

(* One row enters the books under a key no row has, together with the      *)
(* movement of the balance it records.                                     *)
Post(row) == /\ \A other \in ledger : other.key # row.key /\ other.id # row.id
             /\ ledger' = ledger \cup {row}
             /\ balance' = [balance EXCEPT ![row.user] = @ + row.delta]

Next == \E row \in ledger' \ ledger : row \in Rows /\ Post(row)

Spec == Init /\ [][Next]_vars
=============================================================================
