---------------------------- MODULE WalletProofs ----------------------------
(***************************************************************************)
(* Proofs about Wallet, for any users, campaigns, keys, amounts, fees and  *)
(* requests. IInv is the inductive invariant; each action preserves it.    *)
(***************************************************************************)
EXTENDS WalletProperties, ProofLemmas

USE DEF Answered, WithdrawalIds

(* What the step of a request says about the call it carries.              *)
LEMMA StepTellsCall ==
  ASSUME AtStepOfCall, NEW r \in Requests, pc[r] # "idle"
  PROVE  /\ call[r] \in Calls
         /\ pc[r] \in {"openAccount", "createAccount"} => Op(r) \in {"view", "request"}
         /\ pc[r] \in {"checkIdentity", "createWithdrawal"} => Op(r) = "request"
         /\ pc[r] = "readWithdrawal" => Op(r) \in {"review", "pay"}
         /\ pc[r] = "writeReview" => Op(r) = "review"
         /\ pc[r] = "deposit" => Op(r) = "credit"
         /\ pc[r] \in {"findKey", "findAccount", "write"} =>
              Op(r) \in {"credit", "donate", "pay"}
         /\ pc[r] = "findCreator" \/ HoldsLock(r) => Op(r) = "donate"
         /\ pc[r] = "setPaid" => Op(r) = "pay"
<1>1. call[r] \in Calls /\ pc[r] \in StepsOf(Op(r)) \cup Answered
  BY DEF AtStepOfCall
<1>2. Op(r) \in {"view", "credit", "donate", "request", "review", "pay"}
  BY <1>1 DEF Calls, Op
<1> QED
  BY <1>1, <1>2 DEF StepsOf, HoldsLock

(* The fields of a call, by its operation.                                 *)
LEMMA CallFields ==
  ASSUME NEW r \in Requests, call[r] \in Calls
  PROVE  /\ Op(r) \in {"view", "credit", "request"} => call[r].user \in Users
         /\ Op(r) \in {"credit", "donate", "request"} => call[r].amount \in Amounts
         /\ Op(r) \in {"credit", "donate", "pay"} => call[r].key \in Keys
         /\ Op(r) = "donate" => call[r].donor \in Users /\ call[r].campaign \in Campaigns
         /\ Op(r) \in {"review", "pay"} => call[r].withdrawal \in WithdrawalIds
         /\ Op(r) = "review" => call[r].decision \in {"approved", "rejected"}
  BY DEF Calls, Op

(* Amounts and fees are integers.                                          *)
LEMMA AmountsAreIntegers ==
  \A a \in Amounts : a \in Nat /\ a \in Int /\ Fee[a] \in Nat /\ -Fee[a] \in Int
<1>1. Amounts \subseteq Nat /\ Fee \in [Amounts -> Nat]
  BY AmountsAssumption
<1> QED
  BY <1>1

(* Inserting a row keeps the books typed.                                  *)
LEMMA PostKeepsTypes ==
  ASSUME TypeOK, NEW row \in Rows, Post(row)
  PROVE  /\ accounts' \subseteq Users
         /\ balance' \in [Users -> Int]
         /\ ledger' \subseteq Rows
<1>1. row.user \in Users /\ row.delta \in Int
  BY DEF Rows
<1> QED
  BY <1>1 DEF TypeOK, Post

(* What a request may turn out to be is a call.                            *)
LEMMA OfferedAreCalls == \A r \in Requests : Offered(r) \subseteq Calls
  BY CallsAssumption DEF Offered

LEMMA CommitKeepsTypes ==
  ASSUME TypeOK, NEW r \in Requests, Posting(r) \in Rows, call[r] \in Calls, Commit(r)
  PROVE  /\ accounts' \subseteq Users
         /\ balance' \in [Users -> Int]
         /\ ledger' \subseteq Rows
         /\ donations' \subseteq Donations
         /\ raised' \in [Campaigns -> Nat]
<1>1. /\ accounts' \subseteq Users
      /\ balance' \in [Users -> Int]
      /\ ledger' \subseteq Rows
  BY PostKeepsTypes DEF Commit
<1>2. CASE Op(r) = "donate"
  <2>1. /\ call[r].campaign \in Campaigns /\ call[r].amount \in Amounts
        /\ call[r].amount \in Nat
    BY <1>2, CallFields, AmountsAreIntegers
  <2> QED
    BY <1>1, <1>2, <2>1 DEF Commit, TypeOK, Donations, RowIds
<1>3. CASE Op(r) # "donate"
  BY <1>1, <1>3 DEF Commit, TypeOK
<1> QED
  BY <1>2, <1>3

(* A call that writes to the books has an owner, a key and an amount.      *)
LEMMA PostingIsRow ==
  ASSUME TypeOK, AtStepOfCall, PastStatusCheck,
         NEW r \in Requests, pc[r] = "write" \/ HoldsLock(r)
  PROVE  /\ Owner(r) \in Users
         /\ LedgerKey(r) \in LedgerKeys
         /\ Posting(r) \in Rows
         /\ Op(r) = "donate" => FeePosting(r) \in Rows /\ FeeKey(r) \in LedgerKeys
<1>1. call[r] \in Calls /\ Op(r) \in {"credit", "donate", "pay"}
  BY StepTellsCall DEF HoldsLock
<1>2. CASE Op(r) = "credit"
  <2>1. call[r].user \in Users /\ call[r].amount \in Int /\ call[r].key \in Keys
    BY <1>1, <1>2, CallFields, AmountsAreIntegers
  <2>2. Owner(r) = call[r].user /\ Delta(r) = call[r].amount
    BY <1>2 DEF Owner, Delta
  <2>3. LedgerKey(r) \in LedgerKeys
    BY <1>2, <2>1 DEF LedgerKey, LedgerKeys
  <2> QED
    BY <1>2, <2>1, <2>2, <2>3 DEF Posting, Rows, RowIds, Kinds
<1>3. CASE Op(r) = "donate"
  <2>1. /\ call[r].donor \in Users /\ call[r].campaign \in Campaigns
        /\ call[r].amount \in Amounts /\ call[r].key \in Keys
    BY <1>1, <1>3, CallFields
  <2>2. /\ Owner(r) = Creator[call[r].campaign] /\ Delta(r) = call[r].amount
        /\ FeeOf(r) = Fee[call[r].amount]
    BY <1>3 DEF Owner, Delta, FeeOf
  <2>3. Owner(r) \in Users /\ Delta(r) \in Int /\ -FeeOf(r) \in Int
    BY <2>1, <2>2, AmountsAreIntegers, CallsAssumption
  <2>4. LedgerKey(r) \in LedgerKeys /\ FeeKey(r) \in LedgerKeys
    BY <1>3, <2>1 DEF LedgerKey, FeeKey, LedgerKeys
  <2> QED
    BY <1>3, <2>3, <2>4 DEF Posting, FeePosting, Rows, RowIds, Kinds
<1>4. CASE Op(r) = "pay"
  <2>1. /\ call[r].withdrawal \in WithdrawalIds /\ call[r].key \in Keys
        /\ withdrawals[call[r].withdrawal] # None
    BY <1>1, <1>4, CallFields, StepTellsCall DEF PastStatusCheck, HoldsLock
  <2>2. withdrawals[call[r].withdrawal] \in Withdrawals
    BY <2>1 DEF TypeOK
  <2>3. Owner(r) \in Users /\ Delta(r) \in Int
    BY <1>4, <2>2, AmountsAreIntegers DEF Owner, Delta, Withdrawals
  <2>4. LedgerKey(r) \in LedgerKeys
    BY <1>4, <2>1 DEF LedgerKey, LedgerKeys
  <2> QED
    BY <1>4, <2>1, <2>3, <2>4 DEF Posting, Rows, RowIds, Kinds
<1> QED
  BY <1>1, <1>2, <1>3, <1>4

(* Every step keeps every variable typed.                                  *)
LEMMA TypeStep ==
  ASSUME TypeOK, AtStepOfCall, PastStatusCheck, [Next]_vars
  PROVE  TypeOK'
<1> USE DEF TypeOK
<1>0. CASE UNCHANGED vars
  BY <1>0 DEF vars, books, local
<1>1. CASE Done
  BY <1>1 DEF Done, vars, books, local
<1>2. ASSUME NEW r \in Requests, Receive(r)
      PROVE  TypeOK'
  <2>1. PICK c \in Offered(r) :
          /\ call' = [call EXCEPT ![r] = c]
          /\ Goto(r, CASE c.op \in {"view", "request"} -> "openAccount"
                       [] c.op \in {"review", "pay"}   -> "readWithdrawal"
                       [] c.op = "credit"              -> "deposit"
                       [] c.op = "donate" -> IF Creator[c.campaign] = c.donor
                                             THEN "failed" ELSE "findKey")
    BY <1>2 DEF Receive
  <2>2. c \in Calls
    BY OfferedAreCalls
  <2>3. c.op \in {"view", "credit", "donate", "request", "review", "pay"}
    BY <2>2 DEF Calls
  <2>4. pc' \in [Requests -> Steps]
    BY <2>1, <2>3 DEF Goto, Steps
  <2> QED
    BY <1>2, <2>1, <2>2, <2>4 DEF Receive, books
<1>3. ASSUME NEW r \in Requests, Fail(r)
      PROVE  TypeOK'
  BY <1>3 DEF Fail, Goto, Steps, books, local
<1>4. ASSUME NEW r \in Requests, Work(r)
      PROVE  TypeOK'
  <2> USE <1>4, StepTellsCall, CallFields DEF Goto, See, Steps, books, local
  <2>1. CASE Deposit(r)
    BY <2>1 DEF Deposit
  <2>2. CASE OpenAccount(r)
    BY <2>2 DEF OpenAccount, AccountOpened, Owner
  <2>3. CASE CreateAccount(r)
    BY <2>3 DEF CreateAccount, AccountOpened, Owner
  <2>4. CASE CheckIdentity(r)
    BY <2>4 DEF CheckIdentity
  <2>5. CASE CreateWithdrawal(r)
    BY <2>5 DEF CreateWithdrawal, Withdrawals
  <2>6. CASE ReadWithdrawal(r)
    BY <2>6 DEF ReadWithdrawal
  <2>7. CASE WriteReview(r)
    BY <2>7 DEF WriteReview, Withdrawals, PastStatusCheck
  <2>8. CASE FindKey(r)
    BY <2>8 DEF FindKey, Posted, Rows
  <2>9. CASE FindCreator(r)
    BY <2>9 DEF FindCreator
  <2>10. CASE FindAccount(r)
    BY <2>10 DEF FindAccount, Owner
  <2>11. CASE Write(r)
    <3>1. Posting(r) \in Rows /\ call[r] \in Calls
      BY <2>11, PostingIsRow DEF Write
    <3> QED
      BY <2>11, <3>1, CommitKeepsTypes DEF Write, Posted, RowIds
  <2>12. CASE FeeFindKey(r)
    <3>1. Posting(r) \in Rows /\ call[r] \in Calls
      BY <2>12, PostingIsRow DEF FeeFindKey, HoldsLock
    <3> QED
      BY <2>12, <3>1, CommitKeepsTypes DEF FeeFindKey
  <2>13. CASE FeeFindAccount(r)
    BY <2>13 DEF FeeFindAccount
  <2>14. CASE FeeWait(r)
    <3>1. FeePosting(r) \in Rows
      BY <2>14, PostingIsRow DEF FeeWait, HoldsLock
    <3> QED
      BY <2>14, <3>1, PostKeepsTypes DEF FeeWait
  <2>15. CASE SetPaid(r)
    BY <2>15 DEF SetPaid, Withdrawals, PastStatusCheck
  <2> QED
    BY <2>1, <2>2, <2>3, <2>4, <2>5, <2>6, <2>7, <2>8, <2>9, <2>10, <2>11,
       <2>12, <2>13, <2>14, <2>15 DEF Work
<1> QED
  BY <1>0, <1>1, <1>2, <1>3, <1>4 DEF Next

(* A step leaves a request at a step of its call.                          *)
LEMMA AtStepOfCallStep ==
  ASSUME TypeOK, AtStepOfCall, [Next]_vars
  PROVE  AtStepOfCall'
<1> USE DEF AtStepOfCall, Op
<1>0. CASE UNCHANGED vars
  BY <1>0 DEF vars, books, local
<1>1. CASE Done
  BY <1>1 DEF Done, vars, books, local
<1>2. ASSUME NEW r \in Requests, Receive(r)
      PROVE  AtStepOfCall'
  <2>1. PICK c \in Offered(r) :
          /\ call' = [call EXCEPT ![r] = c]
          /\ Goto(r, CASE c.op \in {"view", "request"} -> "openAccount"
                       [] c.op \in {"review", "pay"}   -> "readWithdrawal"
                       [] c.op = "credit"              -> "deposit"
                       [] c.op = "donate" -> IF Creator[c.campaign] = c.donor
                                             THEN "failed" ELSE "findKey")
    BY <1>2 DEF Receive
  <2>2. c \in Calls
    BY OfferedAreCalls
  <2>3. c.op \in {"view", "credit", "donate", "request", "review", "pay"}
    BY <2>2 DEF Calls
  <2>4. call'[r] \in Calls /\ pc'[r] \in StepsOf(Op(r)') \cup Answered
    BY <2>1, <2>2, <2>3 DEF Goto, TypeOK, StepsOf
  <2> QED
    BY <2>1, <2>4 DEF Goto, TypeOK
<1>3. ASSUME NEW r \in Requests, Fail(r)
      PROVE  AtStepOfCall'
  BY <1>3 DEF Fail, Goto, TypeOK, local
<1>4. ASSUME NEW r \in Requests, Work(r)
      PROVE  AtStepOfCall'
  <2>1. call' = call /\ pc[r] # "idle"
    BY <1>4 DEF Work, Deposit, OpenAccount, CreateAccount, CheckIdentity,
        CreateWithdrawal, ReadWithdrawal, WriteReview, FindKey, FindCreator,
        FindAccount, Write, FeeFindKey, FeeFindAccount, FeeWait, SetPaid, local
  <2>2. \A o \in Requests \ {r} : pc'[o] = pc[o]
    BY <1>4 DEF Work, Deposit, OpenAccount, CreateAccount, CheckIdentity,
        CreateWithdrawal, ReadWithdrawal, WriteReview, FindKey, FindCreator,
        FindAccount, Write, FeeFindKey, FeeFindAccount, FeeWait, SetPaid,
        Goto, Posted, TypeOK
  <2>3. pc'[r] \in StepsOf(Op(r)) \cup Answered
    <3> USE StepTellsCall DEF StepsOf, Goto, TypeOK
    <3>1. CASE Deposit(r) \/ CheckIdentity(r) \/ CreateWithdrawal(r)
               \/ ReadWithdrawal(r) \/ WriteReview(r) \/ FindCreator(r)
      <4>1. CASE Deposit(r)
        BY <4>1 DEF Deposit
      <4>2. CASE CheckIdentity(r) \/ CreateWithdrawal(r)
        BY <4>2 DEF CheckIdentity, CreateWithdrawal
      <4>3. CASE ReadWithdrawal(r)
        BY <4>3 DEF ReadWithdrawal
      <4>4. CASE WriteReview(r) \/ FindCreator(r)
        BY <4>4 DEF WriteReview, FindCreator
      <4> QED
        BY <3>1, <4>1, <4>2, <4>3, <4>4
    <3>2. CASE OpenAccount(r) \/ CreateAccount(r)
      BY <3>2 DEF OpenAccount, CreateAccount, AccountOpened
    <3>3. CASE FindKey(r) \/ FindAccount(r) \/ Write(r)
      <4>1. CASE FindKey(r)
        BY <4>1 DEF FindKey, Posted
      <4>2. CASE FindAccount(r)
        BY <4>2 DEF FindAccount
      <4>3. CASE Write(r)
        BY <4>3 DEF Write, Posted, FeeOf
      <4> QED
        BY <3>3, <4>1, <4>2, <4>3
    <3>4. CASE FeeFindKey(r) \/ FeeFindAccount(r) \/ FeeWait(r) \/ SetPaid(r)
      BY <3>4 DEF FeeFindKey, FeeFindAccount, FeeWait, SetPaid, HoldsLock
    <3> QED
      BY <1>4, <3>1, <3>2, <3>3, <3>4 DEF Work
  <2> QED
    BY <2>1, <2>2, <2>3
<1> QED
  BY <1>0, <1>1, <1>2, <1>3, <1>4 DEF Next

(* How a step may change the withdrawals and the requests: one request     *)
(* moves, away from a step that is not its last.                           *)
LEMMA OneRequestMoves ==
  ASSUME TypeOK, [Next]_vars
  PROVE  \/ UNCHANGED vars
         \/ \E r \in Requests :
              /\ Receive(r) \/ Work(r) \/ Fail(r)
              /\ pc[r] \notin Answered
              /\ \A o \in Requests \ {r} : /\ pc'[o] = pc[o]
                                           /\ call'[o] = call[o]
                                           /\ paidBy'[o] = paidBy[o]
<1> USE DEF TypeOK, Goto, Posted, local, vars
<1>1. CASE Done
  BY <1>1 DEF Done
<1>2. ASSUME NEW r \in Requests, Receive(r)
      PROVE  /\ pc[r] \notin Answered
             /\ \A o \in Requests \ {r} : /\ pc'[o] = pc[o]
                                          /\ call'[o] = call[o]
                                          /\ paidBy'[o] = paidBy[o]
  BY <1>2 DEF Receive
<1>3. ASSUME NEW r \in Requests, Work(r) \/ Fail(r)
      PROVE  /\ pc[r] \notin Answered
             /\ \A o \in Requests \ {r} : /\ pc'[o] = pc[o]
                                          /\ call'[o] = call[o]
                                          /\ paidBy'[o] = paidBy[o]
  BY <1>3 DEF Fail, Work, Deposit, OpenAccount, CreateAccount, CheckIdentity,
     CreateWithdrawal, ReadWithdrawal, WriteReview, FindKey, FindCreator,
     FindAccount, Write, FeeFindKey, FeeFindAccount, FeeWait, SetPaid
<1> QED
  BY <1>1, <1>2, <1>3 DEF Next

-----------------------------------------------------------------------------
(* How a step may change the ledger: not at all, or by one row under a key *)
(* that is not in use, named after the call that commits it.               *)
RowOf(r, row) ==
  \/ row = Posting(r) /\ Op(r) \in {"credit", "donate", "pay"}
  \/ row = FeePosting(r) /\ Op(r) = "donate"

PostsRow(r) ==
  /\ pc[r] \in {"write", "feeKey", "feeWait"}
  /\ pc'[r] \in {"ok", "setPaid", "failed"}
  /\ \/ pc[r] = "write" /\ Unlocked(r, Owner(r))
     \/ pc[r] # "write" /\ HoldsLock(r)
  /\ \E row \in Rows : /\ RowOf(r, row)
                       /\ ~KeyInUse(row.key)
                       /\ Post(row)
  /\ UNCHANGED <<withdrawals, call>>

LEMMA LedgerStep ==
  ASSUME IInv, [Next]_vars
  PROVE  \/ UNCHANGED <<ledger, balance>>
         \/ \E r \in Requests : PostsRow(r)
<1> USE DEF IInv
<1>1. CASE UNCHANGED vars
  BY <1>1 DEF vars, books
<1>2. ASSUME NEW r \in Requests, Receive(r) \/ Work(r) \/ Fail(r)
      PROVE  \/ UNCHANGED <<ledger, balance>>
             \/ PostsRow(r)
  <2>1. CASE Write(r)
    <3>1. CASE UNCHANGED books
      BY <3>1 DEF books
    <3>2. CASE ~Conflict(r) /\ Commit(r) /\ Posted(r, <<r, "main">>)
      <4>1. Posting(r) \in Rows /\ Op(r) \in {"credit", "donate", "pay"}
        BY <2>1, PostingIsRow, StepTellsCall DEF Write
      <4>2. Post(Posting(r)) /\ ~KeyInUse(Posting(r).key)
        BY <3>2 DEF Commit, Conflict, Posting
      <4>3. pc'[r] \in {"ok", "setPaid"}
        BY <3>2 DEF Posted, Goto, TypeOK
      <4> QED
        BY <2>1, <4>1, <4>2, <4>3 DEF PostsRow, RowOf, Write
    <3> QED
      BY <2>1, <3>1, <3>2 DEF Write
  <2>2. CASE FeeFindKey(r)
    <3>1. CASE UNCHANGED books
      BY <3>1 DEF books
    <3>2. CASE Commit(r) /\ Goto(r, "ok")
      <4>1. Posting(r) \in Rows /\ Op(r) = "donate" /\ HoldsLock(r)
        BY <2>2, PostingIsRow, StepTellsCall DEF FeeFindKey, HoldsLock
      <4>2. Post(Posting(r)) /\ ~KeyInUse(Posting(r).key)
        BY <3>2, <4>1 DEF Commit, WaitingDonationIsAlone, Posting
      <4>3. pc'[r] = "ok"
        BY <3>2 DEF Goto, TypeOK
      <4> QED
        BY <2>2, <4>1, <4>2, <4>3 DEF PostsRow, RowOf, FeeFindKey, local
    <3> QED
      BY <2>2, <3>1, <3>2 DEF FeeFindKey
  <2>3. CASE FeeWait(r)
    <3>1. CASE UNCHANGED <<accounts, balance, ledger>>
      BY <3>1
    <3>2. CASE ~KeyInUse(FeeKey(r)) /\ Post(FeePosting(r))
      <4>1. FeePosting(r) \in Rows /\ Op(r) = "donate" /\ HoldsLock(r)
        BY <2>3, PostingIsRow, StepTellsCall DEF FeeWait, HoldsLock
      <4>2. ~KeyInUse(FeePosting(r).key) /\ pc'[r] = "failed"
        BY <2>3, <3>2 DEF FeePosting, FeeWait, Goto, TypeOK
      <4> QED
        BY <2>3, <3>2, <4>1, <4>2 DEF PostsRow, RowOf, FeeWait, local
    <3> QED
      BY <2>3, <3>1, <3>2 DEF FeeWait
  <2> QED
    BY <1>2, <2>1, <2>2, <2>3 DEF Work, Receive, Fail, Deposit, OpenAccount,
       CreateAccount, CheckIdentity, CreateWithdrawal, ReadWithdrawal,
       WriteReview, FindKey, FindCreator, FindAccount, FeeFindAccount, SetPaid,
       books
<1> QED
  BY <1>1, <1>2, OneRequestMoves

(* How a step may change the withdrawals: not at all, by a new one, or by  *)
(* the status of one that exists, which is never "requested" again.        *)
LEMMA WithdrawalStep ==
  ASSUME IInv, [Next]_vars
  PROVE  \/ UNCHANGED withdrawals
         \/ \E r \in Requests : CreateWithdrawal(r) /\ withdrawals[r] = None
         \/ \E w \in WithdrawalIds :
              /\ withdrawals[w] # None
              /\ withdrawals'[w].status # "requested"
              /\ withdrawals'[w].user = withdrawals[w].user
              /\ withdrawals'[w].amount = withdrawals[w].amount
              /\ withdrawals'[w] \in Withdrawals
              /\ \A v \in WithdrawalIds \ {w} : withdrawals'[v] = withdrawals[v]
              /\ UNCHANGED ledger
<1> USE DEF IInv
<1>1. CASE UNCHANGED vars
  BY <1>1 DEF vars
<1>2. ASSUME NEW r \in Requests, Receive(r) \/ Work(r) \/ Fail(r)
      PROVE  \/ UNCHANGED withdrawals
             \/ CreateWithdrawal(r) /\ withdrawals[r] = None
             \/ \E w \in WithdrawalIds :
                  /\ withdrawals[w] # None
                  /\ withdrawals'[w].status # "requested"
                  /\ withdrawals'[w].user = withdrawals[w].user
                  /\ withdrawals'[w].amount = withdrawals[w].amount
                  /\ withdrawals'[w] \in Withdrawals
                  /\ \A v \in WithdrawalIds \ {w} : withdrawals'[v] = withdrawals[v]
                  /\ UNCHANGED ledger
  <2> DEFINE target == call[r].withdrawal
  <2>1. CASE CreateWithdrawal(r)
    BY <2>1 DEF CreateWithdrawal, NamesAreFresh
  <2>2. CASE WriteReview(r)
    <3>1. /\ target \in WithdrawalIds
          /\ call[r].decision \in {"approved", "rejected"}
          /\ withdrawals[target] # None
      BY <2>2, StepTellsCall, CallFields DEF WriteReview, PastStatusCheck
    <3>2. withdrawals[target] \in Withdrawals
      BY <3>1 DEF TypeOK
    <3>3. withdrawals' = [withdrawals EXCEPT ![target] =
                            [@ EXCEPT !.status = call[r].decision]]
      BY <2>2 DEF WriteReview
    <3>4. withdrawals' \in [WithdrawalIds -> Withdrawals \cup {None}]
      BY TypeStep DEF TypeOK
    <3>5. withdrawals'[target] = [withdrawals[target] EXCEPT !.status = call[r].decision]
      BY <3>1, <3>3 DEF TypeOK
    <3>6. \A v \in WithdrawalIds \ {target} : withdrawals'[v] = withdrawals[v]
      BY <3>1, <3>3 DEF TypeOK
    <3>7. UNCHANGED ledger
      BY <2>2 DEF WriteReview, books
    <3> QED
      BY <3>1, <3>2, <3>5, <3>6, <3>7 DEF Withdrawals
  <2>3. CASE SetPaid(r)
    <3>1. /\ target \in WithdrawalIds
          /\ withdrawals[target] # None
          /\ paidBy[r] \in RowIds
      BY <2>3, StepTellsCall, CallFields DEF SetPaid, PastStatusCheck, TypeOK
    <3>2. withdrawals[target] \in Withdrawals
      BY <3>1 DEF TypeOK
    <3>3. CASE UNCHANGED withdrawals
      BY <3>3
    <3>4. CASE withdrawals' = [withdrawals EXCEPT ![target].status = "paid",
                                                  ![target].transaction = paidBy[r]]
      <4>1. withdrawals'[target] = [withdrawals[target] EXCEPT !.status = "paid",
                                                               !.transaction = paidBy[r]]
        BY <3>1, <3>4 DEF TypeOK
      <4>2. \A v \in WithdrawalIds \ {target} : withdrawals'[v] = withdrawals[v]
        BY <3>1, <3>4 DEF TypeOK
      <4>3. UNCHANGED ledger
        BY <2>3 DEF SetPaid, books
      <4> QED
        BY <3>1, <3>2, <4>1, <4>2, <4>3 DEF Withdrawals
    <3> QED
      BY <2>3, <3>3, <3>4 DEF SetPaid
  <2> QED
    BY <1>2, <2>1, <2>2, <2>3 DEF Work, Receive, Fail, Deposit, OpenAccount,
       CreateAccount, CheckIdentity, ReadWithdrawal, FindKey, FindCreator,
       FindAccount, Write, FeeFindKey, FeeFindAccount, FeeWait
<1> QED
  BY <1>1, <1>2, OneRequestMoves DEF vars

-----------------------------------------------------------------------------
(* Each part of IInv is preserved.                                         *)

LEMMA PastStatusCheckStep ==
  ASSUME IInv, [Next]_vars
  PROVE  PastStatusCheck'
<1> USE DEF IInv
<1>1. \A w \in WithdrawalIds : withdrawals[w] # None =>
        /\ withdrawals'[w] # None
        /\ withdrawals[w].status # "requested" => withdrawals'[w].status # "requested"
  <2>1. ASSUME NEW r \in Requests, CreateWithdrawal(r), withdrawals[r] = None
        PROVE  \A w \in WithdrawalIds : withdrawals[w] # None =>
                 withdrawals'[w] = withdrawals[w]
    BY <2>1 DEF CreateWithdrawal, TypeOK
  <2> QED
    BY <2>1, WithdrawalStep, NoneAssumption
<1>2. CASE UNCHANGED vars
  BY <1>2 DEF vars, local, PastStatusCheck, Op
<1>3. ASSUME NEW r \in Requests,
             Receive(r) \/ Work(r) \/ Fail(r),
             \A o \in Requests \ {r} : /\ pc'[o] = pc[o]
                                       /\ call'[o] = call[o]
                                       /\ paidBy'[o] = paidBy[o]
      PROVE  PastStatusCheck'
  <2> DEFINE Past(o) ==
        /\ pc[o] = "writeReview" => withdrawals[call[o].withdrawal] # None
        /\ pc[o] \in {"findKey", "findAccount", "write", "setPaid"} /\ Op(o) = "pay" =>
             /\ withdrawals[call[o].withdrawal] # None
             /\ withdrawals[call[o].withdrawal].status # "requested"
        /\ pc[o] = "setPaid" => paidBy[o] # None
  <2>1. \A o \in Requests : Past(o)
    BY DEF PastStatusCheck
  <2>2. \A o \in Requests :
          /\ pc[o] = "writeReview" => call[o].withdrawal \in WithdrawalIds
          /\ /\ pc[o] \in {"findKey", "findAccount", "write", "setPaid"}
             /\ Op(o) = "pay"
             => call[o].withdrawal \in WithdrawalIds
    BY StepTellsCall, CallFields
  <2>3. ASSUME NEW o \in Requests \ {r}
        PROVE  Past(o)'
    <3>1. pc'[o] = pc[o] /\ call'[o] = call[o] /\ paidBy'[o] = paidBy[o]
      BY <1>3
    <3>2. Past(o)
      BY <2>1
    <3>3. CASE pc[o] = "writeReview"
      <4>1. call[o].withdrawal \in WithdrawalIds
        BY <2>2, <3>3
      <4> QED
        BY <1>1, <3>1, <3>2, <3>3, <4>1
    <3>4. CASE /\ pc[o] \in {"findKey", "findAccount", "write", "setPaid"}
               /\ call[o].op = "pay"
      <4>1. call[o].withdrawal \in WithdrawalIds
        BY <2>2, <3>4 DEF Op
      <4> QED
        BY <1>1, <3>1, <3>2, <3>4, <4>1 DEF Op
    <3>5. CASE /\ pc[o] \in {"findKey", "findAccount", "write"}
               /\ call[o].op # "pay"
      BY <3>1, <3>2, <3>5 DEF Op
    <3> QED
      BY <3>1, <3>2, <3>3, <3>4, <3>5 DEF Op
  <2>4. Past(r)'
    <3>1. CASE Receive(r)
      <4>1. PICK c \in Offered(r) :
              /\ call' = [call EXCEPT ![r] = c]
              /\ Goto(r, CASE c.op \in {"view", "request"} -> "openAccount"
                           [] c.op \in {"review", "pay"}   -> "readWithdrawal"
                           [] c.op = "credit"              -> "deposit"
                           [] c.op = "donate" -> IF Creator[c.campaign] = c.donor
                                                 THEN "failed" ELSE "findKey")
        BY <3>1 DEF Receive
      <4>2. c.op \in {"view", "credit", "donate", "request", "review", "pay"}
        BY OfferedAreCalls DEF Calls
      <4>3. /\ pc'[r] \in {"openAccount", "readWithdrawal", "deposit", "failed", "findKey"}
            /\ c.op = "pay" => pc'[r] = "readWithdrawal"
            /\ call'[r] = c
        BY <4>1, <4>2 DEF Goto, TypeOK
      <4> QED
        BY <4>3 DEF Op
    <3>2. CASE Fail(r)
      BY <3>2 DEF Fail, Goto, TypeOK
    <3>3. CASE ReadWithdrawal(r)
      <4>1. Op(r) \in {"review", "pay"} /\ UNCHANGED <<call, withdrawals>>
        BY <3>3, StepTellsCall DEF ReadWithdrawal, local
      <4> QED
        BY <3>3, <4>1 DEF ReadWithdrawal, Goto, TypeOK, Op
    <3>4. CASE FindKey(r) \/ Write(r)
      <4>1. UNCHANGED <<call, withdrawals>> /\ Op(r) \in {"credit", "donate", "pay"}
        BY <3>4, StepTellsCall DEF FindKey, Write
      <4>2. pc'[r] = "setPaid" => paidBy'[r] # None /\ Op(r) = "pay"
        BY <3>4, NoneAssumption DEF FindKey, Write, Posted, Goto, TypeOK, Rows, RowIds
      <4>3. pc'[r] # "writeReview"
        BY <3>4 DEF FindKey, Write, Posted, Goto, TypeOK
      <4> QED
        BY <3>4, <2>1, <4>1, <4>2, <4>3 DEF Op, FindKey, Write
    <3>5. CASE FindAccount(r)
      BY <3>5, <2>1 DEF FindAccount, Goto, TypeOK, Op
    <3>6. CASE Deposit(r) \/ FindCreator(r)
      <4>1. Op(r) # "pay" /\ UNCHANGED call /\ pc'[r] \in {"findKey", "findAccount", "failed"}
        BY <3>6, StepTellsCall DEF Deposit, FindCreator, Goto, TypeOK, local
      <4> QED
        BY <4>1 DEF Op
    <3>7. CASE OpenAccount(r) \/ CreateAccount(r) \/ CheckIdentity(r)
               \/ CreateWithdrawal(r) \/ WriteReview(r) \/ FeeFindKey(r)
               \/ FeeFindAccount(r) \/ FeeWait(r) \/ SetPaid(r)
      <4>1. pc'[r] \in {"ok", "failed", "checkIdentity", "createWithdrawal",
                        "createAccount", "feeAccount", "feeWait"}
        <5>1. CASE OpenAccount(r) \/ CreateAccount(r)
          BY <5>1, StepTellsCall DEF OpenAccount, CreateAccount, AccountOpened,
             Goto, TypeOK
        <5> QED
          BY <3>7, <5>1 DEF CheckIdentity, CreateWithdrawal, WriteReview,
             FeeFindKey, FeeFindAccount, FeeWait, SetPaid, Goto, TypeOK
      <4> QED
        BY <4>1
    <3> QED
      BY <1>3, <3>1, <3>2, <3>3, <3>4, <3>5, <3>6, <3>7 DEF Work
  <2> QED
    BY <2>3, <2>4 DEF PastStatusCheck
<1> QED
  BY <1>2, <1>3, OneRequestMoves

LEMMA NamesAreFreshStep ==
  ASSUME IInv, [Next]_vars
  PROVE  NamesAreFresh'
<1> USE DEF IInv, NamesAreFresh
<1>1. \A o \in Requests : /\ pc[o] = "ok" => pc'[o] = "ok"
                          /\ pc[o] \in {"ok", "failed", "setPaid"} =>
                               pc'[o] \in {"ok", "failed", "setPaid"}
  <2>1. ASSUME NEW r \in Requests, Work(r), pc[r] = "setPaid"
        PROVE  pc'[r] \in {"ok", "failed"}
    BY <2>1 DEF Work, Deposit, OpenAccount, CreateAccount, CheckIdentity,
       CreateWithdrawal, ReadWithdrawal, WriteReview, FindKey, FindCreator,
       FindAccount, Write, FeeFindKey, FeeFindAccount, FeeWait, SetPaid, Goto,
       TypeOK
  <2>2. ASSUME NEW r \in Requests, Receive(r) \/ Fail(r), pc[r] = "setPaid"
        PROVE  pc'[r] = "failed"
    BY <2>2 DEF Receive, Fail, Goto, TypeOK
  <2> QED
    BY <2>1, <2>2, OneRequestMoves DEF vars
<1>2. \A w \in WithdrawalIds : withdrawals'[w] # None => pc'[w] = "ok"
  <2>1. CASE UNCHANGED withdrawals
    BY <1>1, <2>1
  <2>2. ASSUME NEW r \in Requests, CreateWithdrawal(r)
        PROVE  \A w \in WithdrawalIds : withdrawals'[w] # None => pc'[w] = "ok"
    BY <1>1, <2>2 DEF CreateWithdrawal, Goto, TypeOK
  <2> QED
    BY <1>1, <2>1, <2>2, WithdrawalStep
<1>3. \A row \in ledger' : pc'[row.id[1]] \in {"ok", "failed", "setPaid"}
  <2>1. \A row \in ledger : row.id[1] \in Requests
    BY DEF TypeOK, Rows, RowIds
  <2>2. CASE UNCHANGED ledger
    BY <1>1, <2>1, <2>2
  <2>3. ASSUME NEW r \in Requests, PostsRow(r)
        PROVE  \A row \in ledger' : pc'[row.id[1]] \in {"ok", "failed", "setPaid"}
    BY <1>1, <2>1, <2>3 DEF PostsRow, RowOf, Post, Posting, FeePosting
  <2> QED
    BY <2>2, <2>3, LedgerStep
<1> QED
  BY <1>2, <1>3

LEMMA OneRowPerKeyStep ==
  ASSUME IInv, [Next]_vars
  PROVE  OneRowPerKey'
<1>1. CASE UNCHANGED ledger
  BY <1>1 DEF IInv, OneRowPerKey
<1>2. ASSUME NEW r \in Requests, PostsRow(r)
      PROVE  OneRowPerKey'
  BY <1>2 DEF IInv, OneRowPerKey, PostsRow, KeyInUse, Post
<1> QED
  BY <1>1, <1>2, LedgerStep

LEMMA DebitOnlyAfterReviewStep ==
  ASSUME IInv, [Next]_vars
  PROVE  DebitOnlyAfterReview'
<1> USE DEF IInv
<1>1. CASE UNCHANGED <<ledger, withdrawals>>
  BY <1>1 DEF DebitOnlyAfterReview
<1>2. ASSUME NEW r \in Requests, PostsRow(r)
      PROVE  DebitOnlyAfterReview'
  <2>1. PICK row \in Rows : RowOf(r, row) /\ Post(row)
    BY <1>2 DEF PostsRow
  <2>2. ASSUME row.kind = "withdrawal_request"
        PROVE  /\ row.ref \in WithdrawalIds
               /\ withdrawals[row.ref] # None
               /\ withdrawals[row.ref].status # "requested"
               /\ row.user = withdrawals[row.ref].user
               /\ row.delta = -withdrawals[row.ref].amount
    <3>1. Op(r) = "pay" /\ row = Posting(r)
      BY <2>1, <2>2 DEF RowOf, Posting, FeePosting
    <3>2. pc[r] = "write"
      BY <1>2, <3>1, StepTellsCall DEF PostsRow
    <3>3. call[r].withdrawal \in WithdrawalIds
      BY <3>1, <3>2, StepTellsCall, CallFields
    <3> QED
      BY <3>1, <3>2, <3>3 DEF Posting, PastStatusCheck, Owner, Delta
  <2> QED
    BY <1>2, <2>1, <2>2 DEF PostsRow, Post, DebitOnlyAfterReview
<1>3. ASSUME NEW r \in Requests, CreateWithdrawal(r), withdrawals[r] = None
      PROVE  DebitOnlyAfterReview'
  <2>1. UNCHANGED ledger
    BY <1>3 DEF CreateWithdrawal, books
  <2>2. \A w \in WithdrawalIds : withdrawals[w] # None => withdrawals'[w] = withdrawals[w]
    BY <1>3 DEF CreateWithdrawal, TypeOK
  <2>3. \A row \in ledger : row.kind = "withdrawal_request" => row.ref \in WithdrawalIds
    BY DEF DebitOnlyAfterReview
  <2> QED
    BY <2>1, <2>2, <2>3 DEF DebitOnlyAfterReview
<1>4. ASSUME UNCHANGED ledger,
             NEW w \in WithdrawalIds,
             withdrawals[w] # None,
             withdrawals'[w].status # "requested",
             withdrawals'[w].user = withdrawals[w].user,
             withdrawals'[w].amount = withdrawals[w].amount,
             withdrawals'[w] \in Withdrawals,
             \A v \in WithdrawalIds \ {w} : withdrawals'[v] = withdrawals[v]
      PROVE  DebitOnlyAfterReview'
  <2>1. \A row \in ledger : row.kind = "withdrawal_request" =>
          /\ withdrawals'[row.ref].status # "requested"
          /\ withdrawals'[row.ref].user = withdrawals[row.ref].user
          /\ withdrawals'[row.ref].amount = withdrawals[row.ref].amount
          /\ withdrawals'[row.ref] # None
    BY <1>4, NoneAssumption DEF DebitOnlyAfterReview
  <2> QED
    BY <1>4, <2>1 DEF DebitOnlyAfterReview
<1> QED
  BY <1>1, <1>2, <1>3, <1>4, LedgerStep, WithdrawalStep DEF PostsRow

(* Two donations that share a ledger key are to the same campaign, so they *)
(* need the same account: whoever holds it keeps the other one out.        *)
LEMMA SameKeySameOwner ==
  ASSUME AtStepOfCall, NEW r \in Requests, NEW o \in Requests,
         pc[r] # "idle", Op(r) \in {"credit", "donate", "pay"},
         HoldsLock(o), LedgerKey(r) = LedgerKey(o)
  PROVE  Owner(r) = Owner(o)
<1>1. call[r] \in Calls /\ call[o] \in Calls /\ Op(o) = "donate"
  BY StepTellsCall DEF HoldsLock
<1>2. call[o].donor \in Users /\ call[o].campaign \in Campaigns
  BY <1>1, CallFields
<1>3. LedgerKey(o).scope = <<call[o].donor, call[o].campaign>>
  BY <1>1 DEF LedgerKey
<1>4. LedgerKey(r).scope # None
  BY <1>2, <1>3, NoneAssumption
<1>5. Op(r) = "donate"
  BY <1>4 DEF LedgerKey
<1>6. LedgerKey(r).scope = <<call[r].donor, call[r].campaign>>
  BY <1>5 DEF LedgerKey
<1>7. call[r].campaign = call[o].campaign
  BY <1>3, <1>6
<1> QED
  BY <1>1, <1>5, <1>7 DEF Owner

LEMMA WaitingDonationIsAloneStep ==
  ASSUME IInv, [Next]_vars
  PROVE  WaitingDonationIsAlone'
<1> USE DEF IInv
<1>1. CASE UNCHANGED vars
  BY <1>1 DEF vars, books, local, WaitingDonationIsAlone, HoldsLock, Unlocked,
     Owner, KeyInUse, LedgerKey, Op
<1>2. ASSUME NEW r \in Requests,
             Receive(r) \/ Work(r) \/ Fail(r),
             \A o \in Requests \ {r} : pc'[o] = pc[o] /\ call'[o] = call[o]
      PROVE  WaitingDonationIsAlone'
  (* The account and the key of a holder do not change. *)
  <2>1. ASSUME NEW o \in Requests, HoldsLock(o)'
        PROVE  /\ call'[o] = call[o]
               /\ Op(o) = "donate"
               /\ Owner(o)' = Owner(o)
               /\ LedgerKey(o)' = LedgerKey(o)
               /\ o # r => HoldsLock(o)
               /\ ~HoldsLock(o) => Write(r) /\ o = r
    <3>1. CASE o # r
      <4>1. HoldsLock(o)
        BY <1>2, <2>1, <3>1 DEF HoldsLock
      <4>2. Op(o) = "donate" /\ call'[o] = call[o]
        BY <1>2, <3>1, <4>1, StepTellsCall DEF HoldsLock
      <4> QED
        BY <3>1, <4>1, <4>2 DEF Owner, LedgerKey, Op
    <3>2. CASE o = r
      <4>1. ~Receive(r) /\ ~Fail(r)
        <5>1. Receive(r) => pc'[r] \in {"openAccount", "readWithdrawal", "deposit",
                                        "failed", "findKey"}
          <6>1. ASSUME Receive(r)
                PROVE  pc'[r] \in {"openAccount", "readWithdrawal", "deposit",
                                   "failed", "findKey"}
            <7>1. PICK c \in Offered(r) :
                    Goto(r, CASE c.op \in {"view", "request"} -> "openAccount"
                              [] c.op \in {"review", "pay"}   -> "readWithdrawal"
                              [] c.op = "credit"              -> "deposit"
                              [] c.op = "donate" -> IF Creator[c.campaign] = c.donor
                                                    THEN "failed" ELSE "findKey")
              BY <6>1 DEF Receive
            <7>2. c.op \in {"view", "credit", "donate", "request", "review", "pay"}
              BY OfferedAreCalls DEF Calls
            <7> QED
              BY <7>1, <7>2 DEF Goto, TypeOK
          <6> QED
            BY <6>1
        <5> QED
          BY <2>1, <3>2, <5>1 DEF Fail, HoldsLock, Goto, TypeOK
      <4>2. Write(r) \/ FeeFindKey(r) \/ FeeFindAccount(r)
        <5>1. ~OpenAccount(r) /\ ~CreateAccount(r)
          BY <2>1, <3>2, StepTellsCall DEF OpenAccount, CreateAccount,
             AccountOpened, HoldsLock, Goto, TypeOK
        <5> QED
          BY <1>2, <2>1, <3>2, <4>1, <5>1 DEF Work, Deposit, CheckIdentity,
             CreateWithdrawal, ReadWithdrawal, WriteReview, FindKey, Posted,
             FindCreator, FindAccount, FeeWait, SetPaid, HoldsLock, Goto, TypeOK
      <4>3. call' = call
        BY <4>2 DEF Write, FeeFindKey, FeeFindAccount, local
      <4>4. Op(r) = "donate"
        <5>1. AtStepOfCall'
          BY AtStepOfCallStep
        <5> QED
          BY <2>1, <3>2, <4>3, <5>1, CallFields DEF AtStepOfCall, HoldsLock,
             StepsOf, Op, Calls
      <4>5. Write(r) \/ HoldsLock(r)
        BY <4>2 DEF FeeFindKey, FeeFindAccount, HoldsLock
      <4> QED
        BY <3>2, <4>3, <4>4, <4>5 DEF Owner, LedgerKey, Op
    <3> QED
      BY <3>1, <3>2
  <2>2. ASSUME NEW o \in Requests, HoldsLock(o)'
        PROVE  Unlocked(o, Owner(o))'
    <3> SUFFICES ASSUME NEW p \in Requests \ {o}, HoldsLock(p)'
                 PROVE  Owner(p)' # Owner(o)'
      BY DEF Unlocked
    <3>1. Owner(p)' = Owner(p) /\ Owner(o)' = Owner(o)
      BY <2>1, <2>2
    <3>2. CASE HoldsLock(o) /\ HoldsLock(p)
      BY <3>1, <3>2 DEF WaitingDonationIsAlone, Unlocked
    <3>3. CASE ~HoldsLock(o)
      BY <2>1, <2>2, <3>1, <3>3 DEF Write, Unlocked
    <3>4. CASE ~HoldsLock(p)
      BY <2>1, <2>2, <3>1, <3>4 DEF Write, Unlocked
    <3> QED
      BY <3>2, <3>3, <3>4
  <2>3. ASSUME NEW o \in Requests, HoldsLock(o)'
        PROVE  ~KeyInUse(LedgerKey(o))'
    <3>1. ~KeyInUse(LedgerKey(o))
      BY <2>1, <2>3 DEF WaitingDonationIsAlone, Write, Conflict, HoldsLock, Goto,
         TypeOK, Posted
    <3>2. CASE UNCHANGED ledger
      BY <2>1, <2>3, <3>1, <3>2 DEF KeyInUse
    <3>3. ASSUME NEW q \in Requests, PostsRow(q)
          PROVE  ~KeyInUse(LedgerKey(o))'
      <4>1. PICK row \in Rows : RowOf(q, row) /\ Post(row)
        BY <3>3 DEF PostsRow
      <4>2. q # o
        BY <2>3, <3>3 DEF PostsRow, HoldsLock
      <4>3. HoldsLock(o)
        <5>1. q = r
          BY <1>2, <3>3 DEF PostsRow
        <5> QED
          BY <2>1, <2>3, <4>2, <5>1
      <4>4. row.key # LedgerKey(o)
        <5>1. CASE row = FeePosting(q)
          BY <5>1 DEF FeePosting, FeeKey, LedgerKey
        <5>2. CASE row = Posting(q) /\ Op(q) \in {"credit", "donate", "pay"}
          <6>1. Owner(q) # Owner(o)
            BY <3>3, <4>2, <4>3 DEF PostsRow, Unlocked, WaitingDonationIsAlone
          <6> QED
            BY <3>3, <4>3, <5>2, <6>1, SameKeySameOwner DEF PostsRow, Posting
        <5> QED
          BY <4>1, <5>1, <5>2 DEF RowOf
      <4> QED
        BY <2>1, <2>3, <3>1, <4>1, <4>4 DEF KeyInUse, Post
    <3> QED
      BY <3>2, <3>3, LedgerStep
  <2> QED
    BY <2>2, <2>3 DEF WaitingDonationIsAlone
<1> QED
  BY <1>1, <1>2, OneRequestMoves

-----------------------------------------------------------------------------
(* The inductive invariant, and what follows from it.                      *)

LEMMA IInvInit == Init => IInv
  BY CallsAssumption DEF Init, IInv, TypeOK, AtStepOfCall, PastStatusCheck,
     NamesAreFresh, WaitingDonationIsAlone, HoldsLock, OneRowPerKey,
     DebitOnlyAfterReview, Steps

LEMMA IInvStep == IInv /\ [Next]_vars => IInv'
  BY TypeStep, AtStepOfCallStep, PastStatusCheckStep, NamesAreFreshStep,
     WaitingDonationIsAloneStep, OneRowPerKeyStep, DebitOnlyAfterReviewStep
     DEF IInv

(* Every request stays within what its step may rely on.                   *)
THEOREM Invariance == Spec => []IInv
  BY IInvInit, IInvStep, PTL DEF Spec

(* Every variable keeps its type.                                          *)
THEOREM TypeCorrect == Spec => []TypeOK
<1>1. IInv => TypeOK
  BY DEF IInv
<1> QED
  BY <1>1, Invariance, PTL

(* A retried or duplicated call moves money at most once.                  *)
THEOREM KeysAreUnique == Spec => []OneRowPerKey
<1>1. IInv => OneRowPerKey
  BY DEF IInv
<1> QED
  BY <1>1, Invariance, PTL

(* No withdrawal is debited before an admin has reviewed it, nor for       *)
(* another amount or from another user than its own.                       *)
THEOREM DebitsFollowReviews == Spec => []DebitOnlyAfterReview
<1>1. IInv => DebitOnlyAfterReview
  BY DEF IInv
<1> QED
  BY <1>1, Invariance, PTL

(* The wallet implements the abstract ledger: whatever requests, locks and *)
(* crashes do, the books change one row and its amount at a time.          *)
THEOREM ImplementsLedger == Spec => LedgerSpec
<1>1. Init => Ledger!Init
  BY DEF Init, Ledger!Init
<1>2. IInv /\ [Next]_vars => [Ledger!Next]_(Ledger!vars)
  <2> SUFFICES ASSUME IInv, [Next]_vars
               PROVE  [Ledger!Next]_(Ledger!vars)
    OBVIOUS
  <2>1. CASE UNCHANGED <<ledger, balance>>
    BY <2>1 DEF Ledger!vars
  <2>2. ASSUME NEW r \in Requests, PostsRow(r)
        PROVE  Ledger!Next
    <3>1. PICK row \in Rows : RowOf(r, row) /\ ~KeyInUse(row.key) /\ Post(row)
      BY <2>2 DEF PostsRow
    <3>2. row.id[1] = r
      BY <3>1 DEF RowOf, Posting, FeePosting
    <3>3. \A other \in ledger : other.key # row.key /\ other.id # row.id
      BY <2>2, <3>1, <3>2 DEF IInv, NamesAreFresh, PostsRow, KeyInUse
    <3>4. row \in ledger' \ ledger
      BY <3>1, <3>3 DEF Post
    <3> QED
      BY <3>1, <3>3, <3>4 DEF Ledger!Next, Ledger!Post, Post
  <2> QED
    BY <2>1, <2>2, LedgerStep
<1> QED
  BY <1>1, <1>2, Invariance, PTL DEF Spec, LedgerSpec, Ledger!Spec

-----------------------------------------------------------------------------
(* Payments. A row under an unscoped key tells the call that wrote it, and *)
(* a transaction that a withdrawal is linked to tells a payment of it.     *)
Writer(row) == row.id[1]

RowsTellCalls ==
  \A row \in ledger :
    /\ row.kind = "withdrawal_request" =>
         /\ Op(Writer(row)) = "pay" /\ row.ref = call[Writer(row)].withdrawal
         /\ row.key = LedgerKey(Writer(row))
    /\ row.key.scope = None /\ ~row.key.fee =>
         /\ row.key = LedgerKey(Writer(row)) /\ Op(Writer(row)) \in {"credit", "pay"}
         /\ Op(Writer(row)) = "pay" => row.kind = "withdrawal_request"

(* The row a payment was told of when it looked its key up or committed.   *)
HasRow(r, transaction) ==
  \E row \in ledger : row.id = transaction /\ row.key = LedgerKey(r)

PaysFor(r, w) == pc[r] # "idle" /\ Op(r) = "pay" /\ call[r].withdrawal = w

Linked(w) == withdrawals[w] # None /\ withdrawals[w].transaction # None

PaymentInv ==
  /\ RowsTellCalls
  /\ \A r \in Requests : pc[r] = "setPaid" => HasRow(r, paidBy[r])
  /\ \A w \in WithdrawalIds :
       /\ withdrawals[w] # None /\ withdrawals[w].status = "paid" => Linked(w)
       /\ Linked(w) =>
            /\ \E r \in Requests : PaysFor(r, w) /\ HasRow(r, withdrawals[w].transaction)
            /\ \A v \in WithdrawalIds \ {w} : withdrawals[v] # None =>
                 withdrawals[v].transaction # withdrawals[w].transaction

(* A call that has come remains what it is.                                *)
LEMMA CallsStay ==
  ASSUME IInv, [Next]_vars, NEW o \in Requests, pc[o] # "idle"
  PROVE  pc'[o] # "idle" /\ call'[o] = call[o]
<1> USE DEF IInv, TypeOK, Goto, local
<1>1. CASE UNCHANGED vars
  BY <1>1 DEF vars
<1>2. ASSUME NEW r \in Requests, Receive(r) \/ Work(r) \/ Fail(r),
             (pc'[o] = pc[o] /\ call'[o] = call[o]) \/ o = r
      PROVE  pc'[o] # "idle" /\ call'[o] = call[o]
  <2>1. CASE Receive(r) \/ Fail(r)
    BY <1>2, <2>1 DEF Receive, Fail
  <2>2. CASE \/ Deposit(r) \/ CreateWithdrawal(r) \/ ReadWithdrawal(r) \/ WriteReview(r)
             \/ CheckIdentity(r) \/ FindCreator(r) \/ FindAccount(r) \/ SetPaid(r)
    BY <1>2, <2>2 DEF Deposit, CreateWithdrawal, ReadWithdrawal, WriteReview,
       CheckIdentity, FindCreator, FindAccount, SetPaid
  <2>3. CASE \/ FindKey(r) \/ Write(r) \/ FeeFindKey(r) \/ FeeFindAccount(r) \/ FeeWait(r)
    BY <1>2, <2>3 DEF FindKey, Write, FeeFindKey, FeeFindAccount, FeeWait, Posted
  <2>4. CASE OpenAccount(r) \/ CreateAccount(r)
    <3>1. Op(r) \in {"view", "request"} /\ pc[r] \in {"openAccount", "createAccount"}
      BY <2>4, StepTellsCall DEF OpenAccount, CreateAccount
    <3>2. \A n : AccountOpened(r, n) # "idle"
      BY <3>1 DEF AccountOpened
    <3> QED
      BY <1>2, <2>4, <3>2 DEF OpenAccount, CreateAccount
  <2> QED
    BY <1>2, <2>1, <2>2, <2>3, <2>4 DEF Work
<1> QED
  BY <1>1, <1>2, OneRequestMoves

LEMMA RowsTellCallsStep ==
  ASSUME IInv, RowsTellCalls, [Next]_vars
  PROVE  RowsTellCalls'
<1>1. \A row \in ledger : Writer(row) \in Requests /\ pc[Writer(row)] # "idle"
  BY DEF IInv, TypeOK, Rows, RowIds, Writer, NamesAreFresh
<1>2. \A row \in ledger : call'[Writer(row)] = call[Writer(row)]
  BY <1>1, CallsStay
<1>3. CASE UNCHANGED ledger
  BY <1>2, <1>3 DEF RowsTellCalls, Op, LedgerKey, Writer
<1>4. ASSUME NEW r \in Requests, PostsRow(r)
      PROVE  RowsTellCalls'
  <2>1. PICK row \in Rows : RowOf(r, row) /\ Post(row)
    BY <1>4 DEF PostsRow
  <2>2. call[r] \in Calls /\ UNCHANGED call
    BY <1>4, StepTellsCall DEF PostsRow, IInv
  <2>3. Op(r) = "donate" => <<call[r].donor, call[r].campaign>> # None
    BY <2>2, CallFields, NoneAssumption
  <2>4. /\ row.kind = "withdrawal_request" =>
             Op(r) = "pay" /\ row.ref = call[r].withdrawal /\ row.key = LedgerKey(r)
        /\ row.key.scope = None /\ ~row.key.fee =>
             /\ row.key = LedgerKey(r) /\ Op(r) \in {"credit", "pay"}
             /\ Op(r) = "pay" => row.kind = "withdrawal_request"
        /\ Writer(row) = r
    <3>1. CASE row = Posting(r) /\ Op(r) \in {"credit", "donate", "pay"}
      BY <2>3, <3>1 DEF Posting, LedgerKey, Writer
    <3>2. CASE row = FeePosting(r) /\ Op(r) = "donate"
      BY <3>2 DEF FeePosting, LedgerKey, FeeKey, Writer
    <3> QED
      BY <2>1, <3>1, <3>2 DEF RowOf
  <2> QED
    BY <2>1, <2>2, <2>4 DEF RowsTellCalls, Post, Op, LedgerKey, Writer
<1> QED
  BY <1>3, <1>4, LedgerStep

LEMMA RowsStay ==
  ASSUME IInv, [Next]_vars, NEW r \in Requests, pc[r] # "idle"
  PROVE  \A transaction : HasRow(r, transaction) => HasRow(r, transaction)'
<1>1. ledger \subseteq ledger'
  BY LedgerStep DEF PostsRow, Post
<1>2. LedgerKey(r)' = LedgerKey(r)
  BY CallsStay DEF LedgerKey, Op
<1> QED
  BY <1>1, <1>2 DEF HasRow

(* A payment that goes on to report has its row.                           *)
LEMMA ReportsItsRow ==
  ASSUME IInv, PaymentInv, [Next]_vars, NEW r \in Requests, pc'[r] = "setPaid"
  PROVE  HasRow(r, paidBy[r])'
<1> USE DEF IInv, TypeOK, Goto, local
<1>1. CASE pc[r] = "setPaid" /\ paidBy'[r] = paidBy[r]
  <2>1. HasRow(r, paidBy[r])
    BY <1>1 DEF PaymentInv
  <2> QED
    BY <1>1, <2>1, RowsStay DEF HasRow
<1>2. CASE FindKey(r)
  <2>1. PICK row \in ledger : row.key = LedgerKey(r) /\ paidBy'[r] = row.id
    BY <1>2 DEF FindKey, Posted
  <2>2. HasRow(r, row.id) /\ pc[r] # "idle"
    BY <1>2, <2>1 DEF HasRow, FindKey
  <2> QED
    BY <2>1, <2>2, RowsStay DEF HasRow
<1>3. CASE Write(r)
  <2>1. /\ Post(Posting(r)) /\ paidBy'[r] = <<r, "main">> /\ UNCHANGED call
    BY <1>3 DEF Write, Commit, Posted
  <2>2. Posting(r).id = <<r, "main">> /\ Posting(r).key = LedgerKey(r)
    BY DEF Posting
  <2>3. LedgerKey(r)' = LedgerKey(r)
    BY <2>1 DEF LedgerKey, Op
  <2> QED
    BY <2>1, <2>2, <2>3 DEF Post, HasRow
<1>4. CASE UNCHANGED vars
  BY <1>1, <1>4 DEF vars
<1>5. ASSUME NEW o \in Requests, Receive(o) \/ Work(o) \/ Fail(o),
             o # r => pc'[r] = pc[r] /\ paidBy'[r] = paidBy[r]
      PROVE  (pc[r] = "setPaid" /\ paidBy'[r] = paidBy[r]) \/ FindKey(r) \/ Write(r)
  <2>1. CASE o # r
    BY <1>5, <2>1
  <2>2. CASE o = r /\ (Receive(r) \/ Fail(r))
    <3>1. \A c \in Calls : c.op \in {"view", "request", "review", "pay", "credit", "donate"}
      BY DEF Calls
    <3> QED
      BY <2>2, <3>1, OfferedAreCalls DEF Receive, Fail
  <2>3. CASE o = r /\ \/ Deposit(r) \/ CreateWithdrawal(r) \/ ReadWithdrawal(r)
                      \/ WriteReview(r) \/ CheckIdentity(r) \/ FindCreator(r)
                      \/ FindAccount(r) \/ SetPaid(r)
    BY <2>3 DEF Deposit, CreateWithdrawal, ReadWithdrawal, WriteReview, CheckIdentity,
       FindCreator, FindAccount, SetPaid
  <2>4. CASE o = r /\ (FeeFindKey(r) \/ FeeFindAccount(r) \/ FeeWait(r))
    BY <2>4 DEF FeeFindKey, FeeFindAccount, FeeWait
  <2>5. CASE o = r /\ (OpenAccount(r) \/ CreateAccount(r))
    <3>1. Op(r) \in {"view", "request"}
      BY <2>5, StepTellsCall DEF OpenAccount, CreateAccount
    <3>2. \A n : AccountOpened(r, n) # "setPaid"
      BY <3>1 DEF AccountOpened
    <3> QED
      BY <2>5, <3>2 DEF OpenAccount, CreateAccount
  <2> QED
    BY <1>5, <2>1, <2>2, <2>3, <2>4, <2>5 DEF Work
<1> QED
  BY <1>1, <1>2, <1>3, <1>4, <1>5, OneRequestMoves

(* How a step may link a withdrawal: not at all, or by SetPaid.            *)
Links(r) ==
  /\ pc[r] = "setPaid" /\ Op(r) = "pay" /\ call[r].withdrawal \in WithdrawalIds
  /\ withdrawals'[call[r].withdrawal].transaction = paidBy[r]
  /\ \A v \in WithdrawalIds \ {call[r].withdrawal} :
       /\ withdrawals'[v] = withdrawals[v]
       /\ withdrawals[v] # None => withdrawals[v].transaction # paidBy[r]

Unlinked(w) ==
  \/ withdrawals'[w] = withdrawals[w]
  \/ withdrawals'[w].status # "paid" /\ withdrawals'[w].transaction = None
  \/ /\ withdrawals[w] # None /\ withdrawals'[w].status # "paid"
     /\ withdrawals'[w].transaction = withdrawals[w].transaction

LEMMA LinkStep ==
  ASSUME IInv, [Next]_vars
  PROVE  \/ \A w \in WithdrawalIds : Unlinked(w)
         \/ \E r \in Requests : Links(r)
<1> USE DEF IInv
<1>1. CASE UNCHANGED withdrawals
  BY <1>1 DEF Unlinked
<1>2. ASSUME NEW r \in Requests, CreateWithdrawal(r)
      PROVE  \A w \in WithdrawalIds : Unlinked(w)
  BY <1>2 DEF CreateWithdrawal, TypeOK, Unlinked
<1>3. ASSUME NEW r \in Requests, WriteReview(r)
      PROVE  \A w \in WithdrawalIds : Unlinked(w)
  <2>1. /\ call[r].withdrawal \in WithdrawalIds /\ withdrawals[call[r].withdrawal] # None
        /\ call[r].decision \in {"approved", "rejected"}
    BY <1>3, StepTellsCall, CallFields DEF WriteReview, PastStatusCheck
  <2>2. withdrawals[call[r].withdrawal] \in Withdrawals
    BY <2>1 DEF TypeOK
  <2>3. withdrawals' = [withdrawals EXCEPT ![call[r].withdrawal] =
                          [@ EXCEPT !.status = call[r].decision]]
    BY <1>3 DEF WriteReview
  <2>4. /\ withdrawals'[call[r].withdrawal] =
             [withdrawals[call[r].withdrawal] EXCEPT !.status = call[r].decision]
        /\ \A v \in WithdrawalIds \ {call[r].withdrawal} : withdrawals'[v] = withdrawals[v]
    BY <2>1, <2>3 DEF TypeOK
  <2> QED
    BY <2>1, <2>2, <2>4 DEF Withdrawals, Unlinked
<1>4. ASSUME NEW r \in Requests, SetPaid(r)
      PROVE  UNCHANGED withdrawals \/ Links(r)
  <2>1. /\ call[r].withdrawal \in WithdrawalIds /\ withdrawals[call[r].withdrawal] # None
        /\ pc[r] = "setPaid" /\ Op(r) = "pay"
    BY <1>4, StepTellsCall, CallFields DEF SetPaid, PastStatusCheck
  <2>2. withdrawals[call[r].withdrawal] \in Withdrawals
    BY <2>1 DEF TypeOK
  <2>3. CASE /\ withdrawals' = [withdrawals EXCEPT ![call[r].withdrawal].status = "paid",
                                     ![call[r].withdrawal].transaction = paidBy[r]]
             /\ \A v \in WithdrawalIds \ {call[r].withdrawal} :
                  withdrawals[v] # None => withdrawals[v].transaction # paidBy[r]
    <3>1. withdrawals'[call[r].withdrawal] =
            [withdrawals[call[r].withdrawal] EXCEPT !.status = "paid",
                                                    !.transaction = paidBy[r]]
      BY <2>1, <2>3 DEF TypeOK
    <3>2. \A v \in WithdrawalIds \ {call[r].withdrawal} : withdrawals'[v] = withdrawals[v]
      BY <2>1, <2>3 DEF TypeOK
    <3> QED
      <4>1. withdrawals'[call[r].withdrawal].transaction = paidBy[r]
        BY <2>2, <3>1 DEF Withdrawals
      <4> QED
        BY <2>1, <2>3, <3>2, <4>1 DEF Links
  <2> QED
    BY <1>4, <2>3 DEF SetPaid
<1>5. ASSUME NEW r \in Requests, Receive(r) \/ Work(r) \/ Fail(r)
      PROVE  UNCHANGED withdrawals \/ CreateWithdrawal(r) \/ WriteReview(r) \/ SetPaid(r)
  BY <1>5 DEF Work, Receive, Fail, Deposit, OpenAccount, CreateAccount, CheckIdentity,
     ReadWithdrawal, FindKey, FindCreator, FindAccount, Write, FeeFindKey,
     FeeFindAccount, FeeWait
<1> QED
  BY <1>1, <1>2, <1>3, <1>4, <1>5, OneRequestMoves DEF vars

LEMMA PaymentStep ==
  ASSUME IInv, PaymentInv, [Next]_vars
  PROVE  PaymentInv'
<1>1. RowsTellCalls'
  BY RowsTellCallsStep DEF PaymentInv
<1>2. \A r \in Requests : pc'[r] = "setPaid" => HasRow(r, paidBy[r])'
  BY ReportsItsRow
<1>3. ASSUME NEW r \in Requests, NEW w \in WithdrawalIds, PaysFor(r, w)
      PROVE  PaysFor(r, w)' /\ \A t : HasRow(r, t) => HasRow(r, t)'
  BY <1>3, CallsStay, RowsStay DEF PaysFor, Op
<1>4. CASE \A w \in WithdrawalIds : Unlinked(w)
  <2> SUFFICES ASSUME NEW w \in WithdrawalIds
      PROVE /\ (withdrawals[w] # None /\ withdrawals[w].status = "paid" => Linked(w))'
            /\ Linked(w)' =>
                 /\ \E r \in Requests :
                      PaysFor(r, w)' /\ HasRow(r, withdrawals[w].transaction)'
                 /\ \A v \in WithdrawalIds \ {w} : withdrawals'[v] # None =>
                      withdrawals'[v].transaction # withdrawals'[w].transaction
    BY <1>1, <1>2 DEF PaymentInv
  <2>1. (withdrawals[w] # None /\ withdrawals[w].status = "paid" => Linked(w))'
    BY <1>4 DEF Unlinked, PaymentInv, Linked
  <2>2. ASSUME Linked(w)'
        PROVE  Linked(w) /\ withdrawals'[w].transaction = withdrawals[w].transaction
    BY <1>4, <2>2 DEF Unlinked, Linked
  <2>3. ASSUME Linked(w)'
        PROVE  \E r \in Requests :
                 PaysFor(r, w)' /\ HasRow(r, withdrawals[w].transaction)'
    <3>1. PICK r \in Requests : PaysFor(r, w) /\ HasRow(r, withdrawals[w].transaction)
      BY <2>2, <2>3 DEF PaymentInv
    <3>2. HasRow(r, withdrawals[w].transaction)'
      BY <1>3, <2>2, <2>3, <3>1 DEF HasRow
    <3> QED
      BY <1>3, <3>1, <3>2
  <2>4. ASSUME Linked(w)', NEW v \in WithdrawalIds \ {w}, withdrawals'[v] # None
        PROVE  withdrawals'[v].transaction # withdrawals'[w].transaction
    BY <1>4, <2>2, <2>4 DEF Unlinked, Linked, PaymentInv
  <2> QED
    BY <2>1, <2>3, <2>4
<1>5. ASSUME NEW r \in Requests, Links(r)
      PROVE  PaymentInv'
  <2>1. PICK w \in WithdrawalIds : w = call[r].withdrawal
    BY <1>5 DEF Links
  <2>2. /\ PaysFor(r, w) /\ HasRow(r, paidBy[r])
        /\ withdrawals'[w].transaction = paidBy[r]
        /\ paidBy[r] # None
    BY <1>5, <2>1 DEF Links, PaysFor, PaymentInv, IInv, PastStatusCheck
  <2>3. /\ \A v \in WithdrawalIds \ {w} : withdrawals'[v] = withdrawals[v]
        /\ \A v \in WithdrawalIds \ {w} :
             withdrawals[v] # None => withdrawals[v].transaction # paidBy[r]
    BY <1>5, <2>1 DEF Links
  <2>4. HasRow(r, withdrawals[w].transaction)'
    BY <1>3, <2>2 DEF HasRow
  <2>5. ASSUME NEW v \in WithdrawalIds \ {w}
        PROVE /\ (withdrawals[v] # None /\ withdrawals[v].status = "paid" => Linked(v))'
              /\ Linked(v)' =>
                   /\ \E o \in Requests :
                        PaysFor(o, v)' /\ HasRow(o, withdrawals[v].transaction)'
                   /\ \A x \in WithdrawalIds \ {v} : withdrawals'[x] # None =>
                        withdrawals'[x].transaction # withdrawals'[v].transaction
    <3>1. (withdrawals[v] # None /\ withdrawals[v].status = "paid" => Linked(v))'
      BY <2>3 DEF PaymentInv, Linked
    <3>2. ASSUME Linked(v)'
          PROVE  \E o \in Requests :
                   PaysFor(o, v)' /\ HasRow(o, withdrawals[v].transaction)'
      <4>1. Linked(v) /\ withdrawals'[v].transaction = withdrawals[v].transaction
        BY <2>3, <3>2 DEF Linked
      <4>2. PICK o \in Requests : PaysFor(o, v) /\ HasRow(o, withdrawals[v].transaction)
        BY <4>1 DEF PaymentInv
      <4>3. HasRow(o, withdrawals[v].transaction)'
        BY <1>3, <4>1, <4>2 DEF HasRow
      <4> QED
        BY <1>3, <4>2, <4>3
    <3>3. ASSUME Linked(v)', NEW x \in WithdrawalIds \ {v}, withdrawals'[x] # None
          PROVE  withdrawals'[x].transaction # withdrawals'[v].transaction
      BY <2>2, <2>3, <3>3 DEF Linked, PaymentInv
    <3> QED
      BY <3>1, <3>2, <3>3
  <2>6. /\ (withdrawals[w] # None /\ withdrawals[w].status = "paid" => Linked(w))'
        /\ PaysFor(r, w)'
        /\ \A v \in WithdrawalIds \ {w} : withdrawals'[v] # None =>
             withdrawals'[v].transaction # withdrawals'[w].transaction
    BY <1>3, <2>2, <2>3 DEF Linked
  <2> QED
    BY <1>1, <1>2, <2>4, <2>5, <2>6 DEF PaymentInv
<1> QED
  BY <1>4, <1>5, LinkStep

-----------------------------------------------------------------------------
(* The invariant says what is promised of payments.                        *)
LEMMA ReceivedAre ==
  ASSUME IInv, NEW r \in Requests, pc[r] # "idle"
  PROVE  r \in Received
BY NoneAssumption DEF IInv, AtStepOfCall, Received

LEMMA PaidIsBacked ==
  ASSUME IInv, PaymentInv
  PROVE  PaidIsBackedByDebit
<1> SUFFICES ASSUME NEW w \in WithdrawalIds, Linked(w)
    PROVE /\ \E row \in ledger :
               /\ row.id = withdrawals[w].transaction
               /\ KeysNameOperations => row.kind = "withdrawal_request" /\ row.ref = w
          /\ \A v \in WithdrawalIds \ {w} : withdrawals[v] # None =>
               withdrawals[v].transaction # withdrawals[w].transaction
  BY DEF PaymentInv, PaidIsBackedByDebit
<1>1. PICK r \in Requests : PaysFor(r, w) /\ HasRow(r, withdrawals[w].transaction)
  BY DEF PaymentInv
<1>2. PICK row \in ledger : row.id = withdrawals[w].transaction /\ row.key = LedgerKey(r)
  BY <1>1 DEF HasRow
<1>3. PICK o \in Requests : o = Writer(row) /\ pc[o] # "idle"
  BY <1>2 DEF IInv, TypeOK, Rows, RowIds, Writer, NamesAreFresh
<1>4. /\ Op(o) \in {"credit", "pay"} /\ row.key = LedgerKey(o)
      /\ Op(o) = "pay" => row.kind = "withdrawal_request" /\ row.ref = call[o].withdrawal
  BY <1>1, <1>2, <1>3 DEF PaysFor, LedgerKey, PaymentInv, RowsTellCalls
<1>5. call[o].key = call[r].key /\ Op(r) = "pay" /\ call[r].withdrawal = w
  BY <1>1, <1>2, <1>4 DEF LedgerKey, PaysFor
<1>6. r \in Received /\ o \in Received
  BY <1>1, <1>3, ReceivedAre DEF PaysFor
<1>7. KeysNameOperations => row.kind = "withdrawal_request" /\ row.ref = w
  BY <1>4, <1>5, <1>6 DEF KeysNameOperations, SameOperation, Op
<1> QED
  BY <1>2, <1>7 DEF PaymentInv

LEMMA OneDebit ==
  ASSUME IInv, PaymentInv
  PROVE  RetriedPaymentDebitsOnce
<1> SUFFICES ASSUME OneKeyPerPayment, NEW w \in WithdrawalIds
             PROVE  Cardinality(DebitsOf(w)) <= 1
  BY DEF RetriedPaymentDebitsOnce
<1>1. ASSUME NEW row \in DebitsOf(w), NEW other \in DebitsOf(w)
      PROVE  row = other
  <2>1. PICK r \in Requests, o \in Requests :
          r = Writer(row) /\ pc[r] # "idle" /\ o = Writer(other) /\ pc[o] # "idle"
    BY DEF DebitsOf, IInv, TypeOK, Rows, RowIds, Writer, NamesAreFresh
  <2>2. /\ Op(r) = "pay" /\ call[r].withdrawal = w /\ row.key = LedgerKey(r)
        /\ Op(o) = "pay" /\ call[o].withdrawal = w /\ other.key = LedgerKey(o)
    BY <2>1 DEF DebitsOf, PaymentInv, RowsTellCalls
  <2>3. call[r].key = call[o].key
    BY <2>1, <2>2, ReceivedAre DEF OneKeyPerPayment
  <2>4. row.key = other.key
    BY <2>2, <2>3 DEF LedgerKey
  <2> QED
    BY <2>4 DEF DebitsOf, IInv, OneRowPerKey
<1>2. CASE DebitsOf(w) = {}
  BY <1>2, FS_EmptySet
<1>3. CASE DebitsOf(w) # {}
  <2>1. PICK row : DebitsOf(w) = {row}
    BY <1>1, <1>3
  <2>2. Cardinality(DebitsOf(w)) = 1
    BY <2>1, FS_Singleton
  <2> QED
    BY <2>2
<1> QED
  BY <1>2, <1>3

(* What payments rely on: the rows that they are told of, and for whom.    *)
THEOREM PaymentInvariance == Spec => []PaymentInv
<1>1. Init => PaymentInv
  BY DEF Init, PaymentInv, RowsTellCalls, Linked
<1>2. IInv /\ PaymentInv /\ [Next]_vars => PaymentInv'
  BY PaymentStep
<1> QED
  BY Invariance, <1>1, <1>2, PTL DEF Spec

(* However payments, their retries, reviews and crashes interleave, what   *)
(* is reported as paid has moved its money.                                *)
THEOREM PaymentsAreBacked == Spec => []PaidIsBackedByDebit
<1>1. IInv /\ PaymentInv => PaidIsBackedByDebit
  BY PaidIsBacked
<1> QED
  BY <1>1, Invariance, PaymentInvariance, PTL

(* A payment with a key of its own is debited once, however often, and at  *)
(* whatever step of an earlier try, it is repeated.                        *)
THEOREM RetriesDebitOnce == Spec => []RetriedPaymentDebitsOnce
<1>1. IInv /\ PaymentInv => RetriedPaymentDebitsOnce
  BY OneDebit
<1> QED
  BY <1>1, Invariance, PaymentInvariance, PTL

-----------------------------------------------------------------------------
(* Donations. A donation, its row and what it raises are committed in one  *)
(* step, by a call that has no row yet.                                    *)
AmountOf == [d \in Donations |-> d.amount]

DonationsTo(c) == {d \in donations : d.campaign = c}

Total(S) == SumOver(S, LAMBDA d : d.amount)

DonationOf(r) == [id |-> r, campaign |-> call[r].campaign,
                  amount |-> call[r].amount, transaction |-> <<r, "main">>]

Credits(row, d) == /\ row.id = d.transaction
                   /\ row.kind = "donation"
                   /\ row.ref = d.id
                   /\ row.user = Creator[d.campaign]
                   /\ row.delta = d.amount

DonationInv ==
  /\ IsFiniteSet(donations)
  /\ \A d \in donations : \E row \in ledger : Credits(row, d)
  /\ \A row \in ledger : row.kind = "donation" =>
       \E d \in donations : d.transaction = row.id
  /\ \A c \in Campaigns : raised[c] = Total(DonationsTo(c))

Donates(r) ==
  /\ pc[r] \in {"write", "feeKey"}
  /\ Op(r) = "donate"
  /\ call[r] \in Calls
  /\ Post(Posting(r))
  /\ donations' = donations \cup {DonationOf(r)}
  /\ raised' = [raised EXCEPT ![call[r].campaign] = @ + call[r].amount]

NoDonation ==
  /\ UNCHANGED <<donations, raised>>
  /\ ledger \subseteq ledger'
  /\ \A row \in ledger' \ ledger : row.kind # "donation"

(* How a step may change the donations: not at all, or by the one of a     *)
(* call that commits it.                                                   *)
LEMMA DonationStep ==
  ASSUME IInv, [Next]_vars
  PROVE  NoDonation \/ \E r \in Requests : Donates(r)
<1> USE DEF IInv
<1>1. CASE UNCHANGED vars
  BY <1>1 DEF vars, books, NoDonation
<1>2. ASSUME NEW r \in Requests, Receive(r) \/ Work(r) \/ Fail(r)
      PROVE  NoDonation \/ Donates(r)
  <2>1. ASSUME Commit(r), pc[r] \in {"write", "feeKey"}
        PROVE  NoDonation \/ Donates(r)
    <3>1. call[r] \in Calls
      BY <2>1, StepTellsCall
    <3>2. CASE Op(r) = "donate"
      BY <2>1, <3>1, <3>2 DEF Commit, Donates, DonationOf
    <3>3. CASE Op(r) # "donate"
      <4>1. Posting(r).kind # "donation" /\ UNCHANGED <<donations, raised>>
        BY <2>1, <3>3 DEF Commit, Posting
      <4> QED
        BY <2>1, <4>1 DEF Commit, Post, NoDonation
    <3> QED
      BY <3>2, <3>3
  <2>2. CASE Write(r)
    BY <2>1, <2>2 DEF Write, books, NoDonation
  <2>3. CASE FeeFindKey(r)
    BY <2>1, <2>3 DEF FeeFindKey, books, NoDonation
  <2>4. CASE FeeWait(r)
    <3>1. FeePosting(r).kind # "donation"
      BY DEF FeePosting
    <3> QED
      BY <2>4, <3>1 DEF FeeWait, Post, NoDonation
  <2> QED
    BY <1>2, <2>2, <2>3, <2>4 DEF Work, Receive, Fail, Deposit, OpenAccount,
       CreateAccount, CheckIdentity, CreateWithdrawal, ReadWithdrawal,
       WriteReview, FindKey, FindCreator, FindAccount, FeeFindAccount, SetPaid,
       books, NoDonation
<1> QED
  BY <1>1, <1>2, OneRequestMoves

(* What SumOver adds up is a sum as SumTakes knows it.                     *)
LEMMA SumOverIsSum ==
  ASSUME NEW S, S \subseteq Donations, IsFiniteSet(S)
  PROVE  \E sum : /\ IsSum(sum, SUBSET S, AmountOf)
                  /\ sum[S] = Total(S)
<1> DEFINE Adds(sum) ==
             sum = [s \in SUBSET S |->
                      IF s = {} THEN 0 ELSE (CHOOSE x \in s : TRUE).amount
                                              + sum[s \ {CHOOSE x \in s : TRUE}]]
           it == CHOOSE sum : Adds(sum)
<1>1. \A s \in SUBSET S : s # {} => AmountOf[Pick(s)] = (CHOOSE x \in s : TRUE).amount
  BY DEF Pick, AmountOf
<1>2. \A sum : IsSum(sum, SUBSET S, AmountOf) <=> Adds(sum)
  BY <1>1 DEF IsSum, Pick
<1> HIDE DEF Adds
<1>3. \E sum : Adds(sum)
  <2>1. \E sum : IsSum(sum, SUBSET S, AmountOf)
    BY SumExists
  <2> QED
    BY <1>2, <2>1
<1>4. Adds(it)
  BY <1>3
<1>5. IsSum(it, SUBSET S, AmountOf)
  BY <1>2, <1>4
<1>6. it[S] = Total(S)
  BY DEF Adds, Total, SumOver, MapThenSumSet, MapThenFoldSet
<1> QED
  BY <1>5, <1>6

LEMMA EmptySum == Total({}) = 0
<1>1. PICK sum : /\ IsSum(sum, SUBSET {}, AmountOf)
                 /\ sum[{}] = Total({})
  BY SumOverIsSum, FS_EmptySet
<1>2. sum[{}] = 0
  BY <1>1 DEF IsSum
<1> QED
  BY <1>1, <1>2

(* A donation adds its amount to the total, whichever is counted first.    *)
LEMMA SumWithOneMore ==
  ASSUME NEW S, S \subseteq Donations, IsFiniteSet(S), NEW d \in Donations, d \notin S
  PROVE  Total(S \cup {d}) = d.amount + Total(S)
<1>1. PICK low : IsSum(low, SUBSET S, AmountOf) /\ low[S] = Total(S)
  BY SumOverIsSum
<1>2. PICK T : T = S \cup {d}
  OBVIOUS
<1>3. T \subseteq Donations /\ IsFiniteSet(T) /\ S \in SUBSET T /\ d \in T /\ T \ {d} = S
  BY <1>2, FS_AddElement
<1>4. PICK high : IsSum(high, SUBSET T, AmountOf) /\ high[T] = Total(T)
  BY <1>3, SumOverIsSum
<1>5. \A x \in T : AmountOf[x] \in Nat
  <2>1. \A x \in Donations : AmountOf[x] \in Amounts
    BY DEF AmountOf, Donations
  <2> QED
    BY <1>3, <2>1, AmountsAreIntegers
<1>6. Takes(high, T, AmountOf)
  BY <1>3, <1>4, <1>5, SumTakes
<1>7. Agree(low, high, S)
  BY <1>1, <1>3, <1>4, SumsAgree
<1>8. high[T] = AmountOf[d] + high[T \ {d}]
  BY <1>3, <1>6 DEF Takes
<1> QED
  BY <1>1, <1>2, <1>3, <1>4, <1>7, <1>8 DEF AmountOf, Agree

LEMMA DonationInvStep ==
  ASSUME IInv, DonationInv, [Next]_vars
  PROVE  DonationInv'
<1> USE DEF DonationInv
<1>1. CASE NoDonation
  BY <1>1 DEF NoDonation, DonationsTo
<1>2. ASSUME NEW r \in Requests, Donates(r)
      PROVE  DonationInv'
  <2>1. /\ call[r].campaign \in Campaigns /\ call[r].amount \in Amounts
        /\ DonationOf(r) \in Donations
        /\ Owner(r) = Creator[call[r].campaign]
    <3>1. call[r].campaign \in Campaigns /\ call[r].amount \in Amounts
      BY <1>2, CallFields DEF Donates
    <3> QED
      BY <1>2, <3>1 DEF Donates, DonationOf, Donations, RowIds, Owner
  <2>2. DonationOf(r) \notin donations
    <3>1. ASSUME DonationOf(r) \in donations
          PROVE  FALSE
      <4>1. PICK row \in ledger : row.id = <<r, "main">>
        BY <3>1 DEF Credits, DonationOf
      <4> QED
        BY <1>2, <4>1 DEF IInv, NamesAreFresh, Donates
    <3> QED
      BY <3>1
  <2>3. IsFiniteSet(donations')
    BY <1>2, FS_AddElement DEF Donates
  <2>4. /\ Posting(r).id = <<r, "main">> /\ Posting(r).kind = "donation"
        /\ Posting(r).ref = r /\ Posting(r).user = Owner(r)
        /\ Posting(r).delta = call[r].amount
    BY <1>2 DEF Donates, Posting, Delta
  <2>5. ledger' = ledger \cup {Posting(r)} /\ donations' = donations \cup {DonationOf(r)}
    BY <1>2 DEF Donates, Post
  <2>6. ASSUME NEW d \in donations'
        PROVE  \E row \in ledger' : Credits(row, d)
    <3>1. CASE d \in donations
      BY <2>5, <3>1
    <3>2. CASE d = DonationOf(r)
      BY <2>1, <2>4, <2>5, <3>2 DEF DonationOf, Credits
    <3> QED
      BY <2>5, <3>1, <3>2
  <2>7. ASSUME NEW row \in ledger', row.kind = "donation"
        PROVE  \E d \in donations' : d.transaction = row.id
    <3>1. CASE row \in ledger
      BY <2>5, <2>7, <3>1
    <3>2. CASE row = Posting(r)
      <4>1. DonationOf(r).transaction = row.id /\ DonationOf(r) \in donations'
        BY <2>4, <2>5, <3>2 DEF DonationOf
      <4> QED
        BY <4>1
    <3> QED
      BY <2>5, <3>1, <3>2
  <2>8. ASSUME NEW c \in Campaigns
        PROVE  raised'[c] = Total({d \in donations' : d.campaign = c})
    <3>1. PICK S : S = {d \in donations : d.campaign = c}
      OBVIOUS
    <3>2. /\ S \subseteq Donations /\ IsFiniteSet(S) /\ DonationOf(r) \notin S
          /\ raised[c] = Total(S)
      BY <2>2, <3>1, FS_Subset DEF IInv, TypeOK, DonationsTo
    <3>3. DonationOf(r).campaign = call[r].campaign /\ DonationOf(r).amount = call[r].amount
      BY DEF DonationOf
    <3>4. CASE c = call[r].campaign
      <4>1. {d \in donations' : d.campaign = c} = S \cup {DonationOf(r)}
        BY <2>5, <3>1, <3>3, <3>4
      <4>2. PICK e : e = DonationOf(r)
        OBVIOUS
      <4>3. Total(S \cup {e}) = e.amount + Total(S)
        BY <2>1, <3>2, <4>2, SumWithOneMore
      <4>4. raised'[c] = raised[c] + call[r].amount
        BY <1>2, <3>4 DEF Donates, IInv, TypeOK
      <4>5. raised[c] \in Nat /\ call[r].amount \in Nat
        BY <2>1, AmountsAreIntegers DEF IInv, TypeOK
      <4>6. Total(S \cup {e}) = call[r].amount + raised[c]
        BY <3>2, <3>3, <4>2, <4>3
      <4>7. raised'[c] = Total(S \cup {e})
        BY <4>4, <4>5, <4>6
      <4> QED
        BY <4>1, <4>2, <4>7
    <3>5. CASE c # call[r].campaign
      <4>1. {d \in donations' : d.campaign = c} = S
        BY <2>5, <3>1, <3>3, <3>5
      <4>2. raised'[c] = raised[c]
        BY <1>2, <3>5 DEF Donates, IInv, TypeOK
      <4> QED
        BY <3>2, <4>1, <4>2
    <3> QED
      BY <3>4, <3>5
  <2> QED
    BY <2>3, <2>6, <2>7, <2>8 DEF DonationsTo
<1> QED
  BY <1>1, <1>2, DonationStep

(* Every donation has its credit to the campaign's creator and every such  *)
(* credit its donation, and what a campaign has raised is the sum of its   *)
(* donations, however calls interleave, fail and are retried.              *)
THEOREM DonationsAreBooked == Spec => []DonationsMatchBooks
<1>1. Init => DonationInv
  <2> SUFFICES ASSUME Init
               PROVE  DonationInv
    OBVIOUS
  <2>1. IsFiniteSet(donations)
    BY FS_EmptySet DEF Init
  <2>2. \A c \in Campaigns : raised[c] = 0 /\ DonationsTo(c) = {}
    BY DEF Init, DonationsTo
  <2>3. \A c \in Campaigns : raised[c] = Total(DonationsTo(c))
    BY <2>2, EmptySum
  <2> QED
    BY <2>1, <2>3 DEF Init, DonationInv
<1>2. IInv /\ DonationInv /\ [Next]_vars => DonationInv'
  BY DonationInvStep
<1>3. DonationInv => DonationsMatchBooks
  BY DEF DonationInv, DonationsMatchBooks, Credits, DonationsTo, Total
<1> QED
  BY <1>1, <1>2, <1>3, Invariance, PTL DEF Spec
=============================================================================
