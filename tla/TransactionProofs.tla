------------------------- MODULE TransactionProofs --------------------------
(***************************************************************************)
(* Proofs about TransactionManager, for every set of threads and accounts, *)
(* every script and every amount.                                          *)
(***************************************************************************)
EXTENDS TransactionProperties, TLAPS

-----------------------------------------------------------------------------
(***************************************************************************)
(* What the place a call has reached says about the call.                  *)
(***************************************************************************)
OpPlaces == Places \ {"idle", "query", "read", "owner", "open", "return"}

\* The call passed the tests made before an account is locked.
Passed(c) ==
    /\ Ends(c) \subseteq DOMAIN accounts
    /\ c.op = "transfer" => c.id # c.to
    /\ c.op \in {"deposit", "withdraw", "transfer"} => c.amount > 0

PassedInv ==
    \A t \in Threads :
      pc[t] \in {"lock", "try", "decide", "apply", "credit"} => Passed(call[t])

PlaceInv ==
    \A t \in Threads :
      /\ pc[t] # "idle" => WellFormed(call[t])
      /\ pc[t] \in {"query", "read"} => call[t].op \in QueryOp
      /\ pc[t] \in {"owner", "open"} => call[t].op \in BankOp
      /\ pc[t] \in OpPlaces => call[t].op \in Op
      /\ pc[t] \in {"try", "credit"} => call[t].op = "transfer"
      /\ pc[t] \in {"record", "store", "index"} => tx_id[t] \in TxIds

CallInv == PlaceInv /\ PassedInv

\* A call that is not answered early names open accounts and a positive amount.
LEMMA EarlyReplyPassed ==
    ASSUME NEW c \in CallRecords
    PROVE  EarlyReply(c) = NoReply <=> Passed(c)
BY SMT DEF EarlyReply, NoReply, Reply, Value, Missing, CallRecords, Balances,
           Passed, Ends

LEMMA EarlyReplyType ==
    ASSUME NEW c \in CallRecords
    PROVE  EarlyReply(c) \in Replies
BY SMT DEF EarlyReply, NoReply, Reply, Value, Replies, ReplyStatus,
           TransactionStatus, AccountOperationStatus

LEMMA VerdictType ==
    ASSUME TypeOK, NEW c \in CallRecords, Passed(c)
    PROVE  Verdict(c) \in Replies
<1>1. accounts[c.id] \in Accounts
  BY DEF TypeOK, AccountsOK, Passed, Ends
<1>2. /\ accounts[c.id].balance \in Int
      /\ accounts[c.id].customer_id \in Int
      /\ accounts[c.id].state \in AccountState
  BY <1>1, ConstantsAreAmounts DEF Accounts, Balances
<1>3. /\ DepositVerdict(accounts[c.id], c.amount) \in ReplyStatus
      /\ WithdrawVerdict(accounts[c.id], c.amount) \in ReplyStatus
      /\ TransferVerdict(accounts[c.id], accounts[c.to], c.amount) \in ReplyStatus
      /\ FreezeVerdict(accounts[c.id]) \in ReplyStatus
      /\ UnfreezeVerdict(accounts[c.id]) \in ReplyStatus
      /\ CloseVerdict(accounts[c.id]) \in ReplyStatus
  BY SMT DEF DepositVerdict, WithdrawVerdict, TransferVerdict, FreezeVerdict,
     UnfreezeVerdict, CloseVerdict, ReplyStatus, TransactionStatus,
     AccountOperationStatus
<1>4. accounts[c.id].state \in ReplyStatus
  BY <1>2 DEF ReplyStatus
<1>5. /\ \A status \in ReplyStatus : Reply(status) \in Replies
      /\ \A n \in Int : Value(n) \in Replies
  BY DEF Reply, Value, Replies, ReplyStatus
<1> QED
  BY <1>2, <1>3, <1>4, <1>5 DEF Verdict

\* Crediting and debiting keep a balance within the range of an int64_t.
LEMMA AppliedType ==
    ASSUME TypeOK, NEW c \in CallRecords, Passed(c)
    PROVE  Applied(c) \in Accounts
<1>1. accounts[c.id] \in Accounts
  BY DEF TypeOK, AccountsOK, Passed, Ends
<1>2. c.amount \in Balances
  BY DEF CallRecords
<1> QED
  BY <1>1, <1>2, ConstantsAreAmounts
  DEF Applied, Deposited, Credit, Debit, DebitSucceeds, Insufficient, Wrap,
      Freeze, Unfreeze, Close, Accounts, AccountState, Balances

LEMMA CreditType ==
    ASSUME NEW account \in Accounts, NEW amount \in Balances
    PROVE  Credit(account, amount) \in Accounts
BY ConstantsAreAmounts DEF Credit, Wrap, Accounts, Balances

LEMMA PushBackType ==
    ASSUME NEW feed \in Seq(TxIds), Len(feed) <= recent_capacity, NEW id \in TxIds
    PROVE  /\ PushBack(feed, id) \in Seq(TxIds)
           /\ Len(PushBack(feed, id)) <= recent_capacity
BY LedgerConstants, ThreadsDistinct DEF PushBack

-----------------------------------------------------------------------------
\* No step but an opening changes which accounts there are; none takes one away.
LEMMA DomainKept ==
    ASSUME NEW t \in Threads, Invoke(t) \/ Step(t), ~OpenAccount(t)
    PROVE  DOMAIN accounts' = DOMAIN accounts
BY DEF Invoke, Step, LockBank, Check, LockAccount, TryOther, BackOff, Decide, Apply,
   CreditDest, Update, Stamp, TakeId, LockRecords, StoreRecord, IndexRecord,
   LockForQuery, Read, OwnBank, Return, shared

\* A call begins at the entrance of its operation.
LEMMA Begins ==
    ASSUME NEW t \in Threads, Invoke(t)
    PROVE  \E place \in {"bank", "query", "owner"} : pc' = [pc EXCEPT ![t] = place]
<1>1. PICK c : pc' = [pc EXCEPT ![t] = Entrance(c)]
  BY DEF Invoke, GoTo
<1>2. Entrance(c) \in {"bank", "query", "owner"}
  BY DEF Entrance
<1> QED
  BY <1>1, <1>2

LEMMA AccountsGrow ==
    ASSUME [Next]_vars
    PROVE  DOMAIN accounts \subseteq DOMAIN accounts'
<1>1. CASE UNCHANGED vars
  BY <1>1 DEF vars, shared
<1>2. ASSUME NEW t \in Threads, OpenAccount(t)
      PROVE  DOMAIN accounts \subseteq DOMAIN accounts'
  BY <1>2 DEF OpenAccount, Put
<1> QED
  BY <1>1, <1>2, DomainKept DEF Next, Step, Done

LEMMA AccountsChange ==
    ASSUME [Next]_vars
    PROVE  \/ accounts' = accounts
           \/ \E t \in Threads : Apply(t) \/ CreditDest(t) \/ OpenAccount(t)
BY DEF Next, Step, Done, vars, shared, Invoke, LockBank, Check, LockAccount, TryOther,
   BackOff, Decide, Stamp, TakeId, LockRecords, StoreRecord, IndexRecord,
   LockForQuery, Read, OwnBank, Return

\* What an opening does to the map of accounts.
LEMMA Opened ==
    ASSUME NEW t \in Threads, OpenAccount(t)
    PROVE  \/ accounts' = accounts
           \/ \E a \in AccountIds \ DOMAIN accounts :
                /\ DOMAIN accounts' = DOMAIN accounts \cup {a}
                /\ accounts'[a] = NewAccount(call[t].id)
                /\ \A b \in DOMAIN accounts : accounts'[b] = accounts[b]
BY DEF OpenAccount, Put

LEMMA AccountsStep ==
    ASSUME TypeOK, CallInv, [Next]_vars
    PROVE  AccountsOK'
<1>1. CASE accounts' = accounts
  BY <1>1 DEF TypeOK, AccountsOK
<1>2. ASSUME NEW t \in Threads, Apply(t)
      PROVE  AccountsOK'
  <2>1. call[t] \in CallRecords /\ Passed(call[t]) /\ call[t].id \in DOMAIN accounts
    BY <1>2 DEF Apply, TypeOK, CallInv, PassedInv, Passed, Ends
  <2>2. Applied(call[t]) \in Accounts
    BY <2>1, AppliedType
  <2> QED
    BY <1>2, <2>1, <2>2 DEF Apply, Update, TypeOK, AccountsOK
<1>3. ASSUME NEW t \in Threads, CreditDest(t)
      PROVE  AccountsOK'
  <2>1. call[t].to \in DOMAIN accounts /\ call[t].amount \in Balances
    BY <1>3
    DEF CreditDest, TypeOK, CallInv, PassedInv, PlaceInv, Passed, Ends, CallRecords
  <2>2. Credit(accounts[call[t].to], call[t].amount) \in Accounts
    BY <2>1, CreditType DEF TypeOK, AccountsOK
  <2> QED
    BY <1>3, <2>1, <2>2 DEF CreditDest, Update, TypeOK, AccountsOK
<1>4. ASSUME NEW t \in Threads, OpenAccount(t), accounts' # accounts
      PROVE  AccountsOK'
  <2>1. PICK a \in AccountIds \ DOMAIN accounts :
          accounts' = Put(accounts, a, NewAccount(call[t].id))
    BY <1>4 DEF OpenAccount
  <2>2. NewAccount(call[t].id) \in Accounts
    BY ConstantsAreAmounts
    DEF TypeOK, CallRecords, NewAccount, Accounts, AccountState, Balances
  <2> QED
    BY <2>1, <2>2 DEF Put, TypeOK, AccountsOK
<1> QED
  BY <1>1, <1>2, <1>3, <1>4, AccountsChange

\* The accounts a call found stay there.
LEMMA PassedKept ==
    ASSUME [Next]_vars, NEW t \in Threads, call'[t] = call[t], Passed(call[t])
    PROVE  Passed(call[t])'
BY AccountsGrow DEF Passed, Ends

LEMMA PassedStep ==
    ASSUME TypeOK, CallInv, [Next]_vars
    PROVE  PassedInv'
<1> SUFFICES ASSUME NEW u \in Threads,
                    pc'[u] \in {"lock", "try", "decide", "apply", "credit"}
             PROVE  Passed(call[u])'
  BY DEF PassedInv
<1> USE DEF TypeOK, CallInv, PassedInv, GoTo, shared
<1>1. CASE UNCHANGED vars
  BY <1>1, PassedKept DEF vars
<1>2. ASSUME NEW t \in Threads, Invoke(t) \/ Step(t), t # u
      PROVE  Passed(call[u])'
  <2>1. pc'[u] = pc[u] /\ call'[u] = call[u]
    BY <1>2 DEF Invoke, Step, LockBank, Check, LockAccount, TryOther, BackOff, Decide,
       Apply, CreditDest, Stamp, TakeId, LockRecords, StoreRecord, IndexRecord,
       LockForQuery, Read, OwnBank, OpenAccount, Return
  <2> QED
    BY <2>1, PassedKept
<1>3. CASE Check(u)
  <2>1. EarlyReply(call[u]) = NoReply /\ call'[u] = call[u]
    BY <1>3 DEF Check
  <2>2. Passed(call[u])
    BY <2>1, EarlyReplyPassed
  <2> QED
    BY <2>1, <2>2, PassedKept
<1>4. CASE (Invoke(u) \/ Step(u)) /\ ~Check(u)
  <2>1. Step(u)
    BY <1>4 DEF Invoke, Entrance
  <2>2. pc[u] \in {"lock", "try", "decide", "apply", "credit"} /\ call'[u] = call[u]
    BY <1>4, <2>1 DEF Step, LockBank, LockAccount, TryOther, BackOff, Decide,
       Apply, CreditDest, Stamp, TakeId, LockRecords, StoreRecord, IndexRecord,
       LockForQuery, Read, OwnBank, OpenAccount, Return
  <2> QED
    BY <2>2, PassedKept
<1> QED
  BY <1>1, <1>2, <1>3, <1>4 DEF Next, Done

LEMMA TypeInit == Init => TypeOK /\ CallInv
BY ConstantsAreAmounts, LedgerConstants, ThreadsDistinct, ScriptsAreCalls
DEF Init, LedgerInit, TypeOK, CallInv, PlaceInv, PassedInv, AccountsOK, OpPlaces, Places, Locks, Free, Stored, Records,
    Times, TxIds, Accounts, AccountState, NewAccount, Balances, NoReply, Reply,
    Replies, ReplyStatus, CallRecords, Op

LEMMA TypeStep ==
    ASSUME TypeOK, CallInv, [Next]_vars
    PROVE  TypeOK' /\ CallInv'
<1> AccountsOK'
  BY AccountsStep
<1> USE ConstantsAreAmounts, LedgerConstants, ThreadsDistinct, ScriptsAreCalls
    DEF TypeOK, CallInv, PlaceInv, PassedInv, OpPlaces, Places, Locks, shared,
        ledger, GoTo, Respond
<1>1. CASE UNCHANGED vars
  <2>1. TypeOK'
    BY <1>1 DEF vars, Stored
  <2>2. PlaceInv'
    BY <1>1 DEF vars
  <2> QED
    BY <2>1, <2>2, PassedStep
<1>2. ASSUME NEW t \in Threads, Invoke(t)
      PROVE  TypeOK' /\ PlaceInv'
  <2>1. PICK c \in Script[t][made[t] + 1] :
            /\ call' = [call EXCEPT ![t] = c]
            /\ GoTo(t, Entrance(c))
            /\ tx_id' = [tx_id EXCEPT ![t] = IF c.op \in Op THEN 0 ELSE @]
    BY <1>2 DEF Invoke
  <2>2. c \in CallRecords /\ WellFormed(c)
    <3>1. Script[t] \in Seq(SUBSET {d \in CallRecords : WellFormed(d)})
      OBVIOUS
    <3>2. made[t] + 1 \in 1 .. Len(Script[t])
      BY <1>2, <3>1 DEF Invoke
    <3>3. Script[t][made[t] + 1] \in SUBSET {d \in CallRecords : WellFormed(d)}
      BY <3>1, <3>2
    <3> QED
      BY <3>3
  <2>3. NoReply \in Replies
    BY DEF NoReply, Reply, Replies, ReplyStatus
  <2>4. /\ c.op \in Op => Entrance(c) = "bank"
        /\ c.op \in QueryOp => Entrance(c) = "query"
        /\ c.op \in BankOp => Entrance(c) = "owner"
    BY DEF Entrance, Op, QueryOp, BankOp
  <2> c.op \in Op \cup QueryOp \cup BankOp
    BY <2>2 DEF CallRecords
  <2>5. TypeOK'
    <3>1. call' \in [Threads -> CallRecords]
      BY <2>1, <2>2
    <3>2. tx_id' \in [Threads -> Nat]
      <4>1. (IF c.op \in Op THEN 0 ELSE tx_id[t]) \in Nat
        OBVIOUS
      <4> QED
        BY <2>1, <4>1
    <3>3. made' \in [Threads -> Nat]
      BY <1>2 DEF Invoke
    <3>4. reply' \in [Threads -> Replies]
      BY <1>2, <2>3 DEF Invoke
    <3>5. pc' \in [Threads -> Places]
      BY <2>1, <2>4
    <3> QED
      BY <1>2, <3>1, <3>2, <3>3, <3>4, <3>5 DEF Invoke, Stored
  <2>6. PlaceInv'
    BY <1>2, <2>1, <2>2, <2>4 DEF Invoke
  <2> QED
    BY <2>5, <2>6
<1>3. ASSUME NEW t \in Threads, LockBank(t)
      PROVE  TypeOK' /\ PlaceInv'
  <2>1. TypeOK'
    BY <1>3 DEF LockBank, Share, Stored
  <2>2. PlaceInv'
    BY <1>3 DEF LockBank, Share, Stored
  <2> QED
    BY <2>1, <2>2
<1>4. ASSUME NEW t \in Threads, Check(t)
      PROVE  TypeOK' /\ PlaceInv'
  <2>1. EarlyReply(call[t]) \in Replies
    BY EarlyReplyType
  <2>2. call[t] \in CallRecords /\ (EarlyReply(call[t]) = NoReply <=> Passed(call[t]))
    BY EarlyReplyPassed
  <2> QED
    BY <1>4, <2>1, <2>2 DEF Check, Stored
<1>5. ASSUME NEW t \in Threads, LockAccount(t)
      PROVE  TypeOK' /\ PlaceInv'
  <2>1. TypeOK'
    BY <1>5 DEF LockAccount, AfterFirstLock, Stored
  <2>2. PlaceInv'
    BY <1>5 DEF LockAccount, AfterFirstLock, Stored
  <2> QED
    BY <2>1, <2>2
<1>6. ASSUME NEW t \in Threads, TryOther(t)
      PROVE  TypeOK' /\ PlaceInv'
  <2>1. TypeOK'
    BY <1>6 DEF TryOther, Stored
  <2>2. PlaceInv'
    BY <1>6 DEF TryOther, Stored
  <2> QED
    BY <2>1, <2>2
<1>7. ASSUME NEW t \in Threads, BackOff(t)
      PROVE  TypeOK' /\ PlaceInv'
  <2>1. TypeOK'
    BY <1>7 DEF BackOff, Unlocked, Stored
  <2>2. PlaceInv'
    BY <1>7 DEF BackOff, Unlocked, Stored
  <2> QED
    BY <2>1, <2>2
<1>8. ASSUME NEW t \in Threads, Decide(t)
      PROVE  TypeOK' /\ PlaceInv'
  <2>1. Verdict(call[t]) \in Replies
    BY <1>8, VerdictType DEF Decide
  <2> QED
    BY <1>8, <2>1 DEF Decide, Stored
<1>9. ASSUME NEW t \in Threads, Apply(t)
      PROVE  TypeOK' /\ PlaceInv'
  <2>1. reply' \in [Threads -> Replies]
    BY <1>9 DEF Apply, Reply, Replies, ReplyStatus, TransactionStatus
  <2>2. AfterApply(call[t]) \in {"return", "credit", "stamp"}
        /\ (AfterApply(call[t]) = "credit" => call[t].op = "transfer")
    BY DEF AfterApply
  <2> QED
    BY <1>9, <2>1, <2>2 DEF Apply, Stored
<1>10. ASSUME NEW t \in Threads, CreditDest(t)
       PROVE  TypeOK' /\ PlaceInv'
  BY <1>10 DEF CreditDest, Stored
<1>11. ASSUME NEW t \in Threads, Stamp(t)
       PROVE  TypeOK' /\ PlaceInv'
  <2>1. TypeOK'
    BY <1>11 DEF Stamp, Stored
  <2>2. PlaceInv'
    BY <1>11 DEF Stamp, Stored
  <2> QED
    BY <2>1, <2>2
<1>12. ASSUME NEW t \in Threads, TakeId(t)
       PROVE  TypeOK' /\ PlaceInv'
  <2>1. TypeOK'
    <3>1. next_tx_id' \in TxIds /\ tx_id' \in [Threads -> Nat]
      BY <1>12 DEF TakeId, FreshId, TxIds
    <3>2. pc' \in [Threads -> Places]
      BY <1>12 DEF TakeId
    <3> QED
      BY <1>12, <3>1, <3>2 DEF TakeId, Stored
  <2>2. PlaceInv'
    BY <1>12 DEF TakeId, FreshId, TxIds, Stored
  <2> QED
    BY <2>1, <2>2
<1>13. ASSUME NEW t \in Threads, LockRecords(t)
       PROVE  TypeOK' /\ PlaceInv'
  BY <1>13 DEF LockRecords, Own, Stored
<1>14. ASSUME NEW t \in Threads, StoreRecord(t)
       PROVE  TypeOK' /\ PlaceInv'
  <2> DEFINE r == RecordOf(t)
  <2>1. tx_id[t] \in TxIds /\ r \in Records
    BY <1>14 DEF StoreRecord, RecordOf, Records, CallRecords, WellFormed, Replies
  <2>2. /\ Stored' = Stored \cup {tx_id[t]}
        /\ transactions' \in [Stored' -> Records]
    BY <1>14, <2>1 DEF StoreRecord, Store, Put, Stored
  <2>3. recent_feed' \in Seq(TxIds) /\ Len(recent_feed') <= recent_capacity
    BY <1>14, <2>1, PushBackType DEF StoreRecord, Store
  <2> QED
    BY <1>14, <2>1, <2>2, <2>3 DEF StoreRecord, Store
<1>15. ASSUME NEW t \in Threads, IndexRecord(t)
       PROVE  TypeOK' /\ PlaceInv'
  <2> DEFINE r == RecordOf(t)
  <2>1. tx_id[t] \in TxIds /\ r \in Records
    BY <1>15 DEF IndexRecord, RecordOf, Records, CallRecords, WellFormed, Replies
  <2>2. /\ index_by_time' \in [Times -> Seq(TxIds)]
        /\ history_by_src' \in [AccountIds -> Seq(TxIds)]
        /\ history_by_dest' \in [AccountIds -> Seq(TxIds)]
    <3>1. /\ r.timestamp \in Times
          /\ r.src_id \in AccountIds \cup {0}
          /\ r.dest_id \in AccountIds \cup {0}
      BY <2>1 DEF Records
    <3>2. \A s \in Seq(TxIds) : Append(s, tx_id[t]) \in Seq(TxIds)
      BY <2>1
    <3> QED
      BY <1>15, <3>1, <3>2 DEF IndexRecord, Index, AppendTo
  <2>3. record_mtx' \in [readers : SUBSET Threads, writer : Threads \cup {NoThread}]
    BY <1>15 DEF IndexRecord, Disown
  <2> QED
    BY <1>15, <2>1, <2>2, <2>3 DEF IndexRecord, Index, Stored
<1>16. ASSUME NEW t \in Threads, LockForQuery(t)
       PROVE  TypeOK' /\ PlaceInv'
  BY <1>16 DEF LockForQuery, Share, Stored
<1>17. ASSUME NEW t \in Threads, Read(t)
       PROVE  TypeOK' /\ PlaceInv'
  <2>1. Reply("records") \in Replies
    BY DEF Reply, Replies, ReplyStatus
  <2> QED
    BY <1>17, <2>1 DEF Read, Unshare, Stored
<1>18. ASSUME NEW t \in Threads, Return(t)
       PROVE  TypeOK' /\ PlaceInv'
  BY <1>18 DEF Return, Unlocked, Unshare, Stored
<1>19. ASSUME NEW t \in Threads, OwnBank(t)
       PROVE  TypeOK' /\ PlaceInv'
  BY <1>19 DEF OwnBank, Own, Stored
<1>20. ASSUME NEW t \in Threads, OpenAccount(t)
       PROVE  TypeOK' /\ PlaceInv'
  <2>1. PICK n \in Int : reply' = [reply EXCEPT ![t] = Value(n)]
    BY <1>20 DEF OpenAccount
  <2>2. Value(n) \in Replies
    BY DEF Value, Replies, ReplyStatus
  <2> QED
    BY <1>20, <2>1, <2>2 DEF OpenAccount, Disown, Stored
<1> QED
  BY <1>1, <1>2, <1>3, <1>4, <1>5, <1>6, <1>7, <1>8, <1>9, <1>10, <1>11, <1>12,
     <1>13, <1>14, <1>15, <1>16, <1>17, <1>18, <1>19, <1>20, PassedStep
  DEF Next, Step, Done

\* Every variable keeps its type, whatever the threads do.
THEOREM TypeCorrect == Spec => []TypeOK
<1>1. TypeOK /\ CallInv /\ [Next]_vars => TypeOK' /\ CallInv'
  BY TypeStep
<1> QED
  BY TypeInit, <1>1, PTL DEF Spec

-----------------------------------------------------------------------------
(***************************************************************************)
(* Who holds which lock, told from the place each call has reached.        *)
(***************************************************************************)
HoldsBank(t) ==
    \/ pc[t] \in OpPlaces \ {"bank"}
    \/ pc[t] = "return" /\ call[t].op \in Op

\* From the moment a call has all its account locks to the moment it returns.
Inside(t) ==
    \/ AtWork(t)
    \/ /\ pc[t] \in {"stamp", "id", "record", "store", "index", "return"}
       /\ call[t].op \in Op
       /\ Passed(call[t])

BankLockInv ==
    /\ bank_mtx.readers = {t \in Threads : HoldsBank(t)}
    /\ \A t \in Threads : bank_mtx.writer = t <=> pc[t] = "open"
    /\ bank_mtx.writer # NoThread => bank_mtx.readers = {}

RecordLockInv ==
    /\ record_mtx.readers = {t \in Threads : pc[t] = "read"}
    /\ \A t \in Threads : record_mtx.writer = t <=> pc[t] \in {"store", "index"}
    /\ record_mtx.writer # NoThread => record_mtx.readers = {}

AccountLockInv ==
    \A t \in Threads :
      /\ \A a \in AccountIds : mtx[a] = t =>
           a \in Ends(call[t]) /\ (pc[t] = "try" \/ Inside(t))
      /\ Inside(t) => \A a \in Ends(call[t]) : mtx[a] = t
      /\ pc[t] = "try" => \E a \in Ends(call[t]) : mtx[a] = t

LEMMA LockInit == Init => BankLockInv /\ RecordLockInv /\ AccountLockInv
BY LedgerConstants, ThreadsDistinct
DEF Init, LedgerInit, BankLockInv, RecordLockInv, AccountLockInv, HoldsBank,
    Inside, AtWork, OpPlaces, Free

LEMMA BankLockStep ==
    ASSUME TypeOK, CallInv, BankLockInv, [Next]_vars
    PROVE  BankLockInv'
<1> USE ThreadsDistinct
    DEF BankLockInv, HoldsBank, OpPlaces, Places, GoTo, shared, TypeOK, CallInv, PlaceInv
<1>1. CASE UNCHANGED vars
  BY <1>1 DEF vars
<1>2. ASSUME NEW t \in Threads, Invoke(t)
      PROVE  BankLockInv'
  <2>1. /\ bank_mtx' = bank_mtx
        /\ pc[t] = "idle"
        /\ \A u \in Threads \ {t} : call'[u] = call[u]
    BY <1>2 DEF Invoke
  <2> PICK place \in {"bank", "query", "owner"} : pc' = [pc EXCEPT ![t] = place]
    BY <1>2, Begins, Zenon
  <2>2. \A u \in Threads : (HoldsBank(u)' <=> HoldsBank(u))
                             /\ (pc'[u] = "open" <=> pc[u] = "open")
    BY <2>1
  <2> QED
    BY <2>1, <2>2
<1>3. ASSUME NEW t \in Threads, LockBank(t)
      PROVE  BankLockInv'
  BY <1>3 DEF LockBank, CanShare, Share, Locks
<1>4. ASSUME NEW t \in Threads, Return(t)
      PROVE  BankLockInv'
  BY <1>4 DEF Return, Unshare, Locks
<1>5. ASSUME NEW t \in Threads, OwnBank(t)
      PROVE  BankLockInv'
  BY <1>5 DEF OwnBank, CanOwn, Own, Locks
<1>6. ASSUME NEW t \in Threads, OpenAccount(t)
      PROVE  BankLockInv'
  <2>1. call[t].op \notin Op
    BY <1>6 DEF OpenAccount, Op, BankOp
  <2> QED
    BY <1>6, <2>1 DEF OpenAccount, Disown, Locks
<1>7. ASSUME NEW t \in Threads, Step(t), ~LockBank(t), ~Return(t), ~OwnBank(t),
             ~OpenAccount(t)
      PROVE  BankLockInv'
  <2>1. UNCHANGED <<bank_mtx, call>>
    BY <1>7 DEF Step, Check, LockAccount, TryOther, BackOff, Decide, Apply, CreditDest,
       Stamp, TakeId, LockRecords, StoreRecord, IndexRecord, LockForQuery, Read
  <2>2. CASE LockForQuery(t) \/ Read(t)
    <3>1. call[t].op \notin Op
      BY <2>2 DEF LockForQuery, Read, Op, QueryOp
    <3>2. \A u \in Threads : (HoldsBank(u)' <=> HoldsBank(u))
                               /\ (pc'[u] = "open" <=> pc[u] = "open")
      BY <2>1, <2>2, <3>1 DEF LockForQuery, Read
    <3> QED
      BY <2>1, <3>2
  <2>3. CASE ~LockForQuery(t) /\ ~Read(t)
    <3>1. /\ pc[t] \in OpPlaces \ {"bank"}
          /\ \E place \in (OpPlaces \ {"bank"}) \cup {"return"} :
               pc' = [pc EXCEPT ![t] = place]
      BY <1>7, <2>3 DEF Step, Check, LockAccount, AfterFirstLock, TryOther, BackOff,
         Decide, Apply, AfterApply, CreditDest, Stamp, TakeId, LockRecords,
         StoreRecord, IndexRecord
    <3>2. call[t].op \in Op
      BY <3>1
    <3>3. \A u \in Threads : (HoldsBank(u)' <=> HoldsBank(u))
                               /\ (pc'[u] = "open" <=> pc[u] = "open")
      BY <2>1, <3>1, <3>2
    <3> QED
      BY <2>1, <3>3
  <2> QED
    BY <2>2, <2>3
<1> QED
  BY <1>1, <1>2, <1>3, <1>4, <1>5, <1>6, <1>7 DEF Next, Done

LEMMA RecordLockStep ==
    ASSUME TypeOK, CallInv, RecordLockInv, [Next]_vars
    PROVE  RecordLockInv'
<1> USE LedgerConstants, ThreadsDistinct DEF RecordLockInv, TypeOK, GoTo, shared
<1>1. CASE UNCHANGED vars
  BY <1>1 DEF vars
<1>2. ASSUME NEW t \in Threads, LockRecords(t)
      PROVE  RecordLockInv'
  BY <1>2 DEF LockRecords, CanOwn, Own, Locks
<1>3. ASSUME NEW t \in Threads, StoreRecord(t)
      PROVE  RecordLockInv'
  BY <1>3 DEF StoreRecord
<1>4. ASSUME NEW t \in Threads, IndexRecord(t)
      PROVE  RecordLockInv'
  BY <1>4 DEF IndexRecord, Disown, Locks
<1>5. ASSUME NEW t \in Threads, LockForQuery(t)
      PROVE  RecordLockInv'
  BY <1>5 DEF LockForQuery, CanShare, Share, Locks
<1>6. ASSUME NEW t \in Threads, Read(t)
      PROVE  RecordLockInv'
  BY <1>6 DEF Read, Unshare, Locks
<1>7. ASSUME NEW t \in Threads, Invoke(t) \/ Step(t),
             ~LockRecords(t), ~StoreRecord(t), ~IndexRecord(t), ~LockForQuery(t),
             ~Read(t)
      PROVE  RecordLockInv'
  <2>1. UNCHANGED record_mtx
    BY <1>7 DEF Step, Invoke, LockBank, Check, LockAccount, TryOther, BackOff, Decide,
       Apply, CreditDest, Stamp, TakeId, OwnBank, OpenAccount, Return
  <2>2. /\ pc[t] \notin {"read", "store", "index"}
        /\ \E place : pc' = [pc EXCEPT ![t] = place]
                      /\ place \notin {"read", "store", "index"}
    BY <1>7 DEF Step, Invoke, Entrance, LockBank, Check, LockAccount, AfterFirstLock, TryOther,
       BackOff, Decide, Apply, AfterApply, CreditDest, Stamp, TakeId, OwnBank, OpenAccount, Return
  <2> QED
    BY <2>1, <2>2
<1> QED
  BY <1>1, <1>2, <1>3, <1>4, <1>5, <1>6, <1>7 DEF Next, Done, Step

\* A step of t that neither takes nor releases an account lock, and after which
\* t still has all its account locks or still has none, keeps AccountLockInv.
LEMMA AccountLockFrame ==
    ASSUME TypeOK, AccountLockInv, NEW t \in Threads,
           UNCHANGED <<mtx, call>>, DOMAIN accounts' = DOMAIN accounts,
           NEW place, pc' = [pc EXCEPT ![t] = place],
           pc[t] # "try", place # "try", Inside(t)' <=> Inside(t)
    PROVE  AccountLockInv'
<1>1. \A u \in Threads : (Inside(u)' <=> Inside(u)) /\ (pc'[u] = "try" <=> pc[u] = "try")
  BY DEF TypeOK, Inside, AtWork, Passed, Ends
<1>2. \A u \in Threads : Ends(call[u])' = Ends(call[u])
  BY DEF Ends
<1> QED
  BY <1>1, <1>2 DEF AccountLockInv

LEMMA AccountLockStep ==
    ASSUME TypeOK, CallInv, BankLockInv, AccountLockInv, [Next]_vars
    PROVE  AccountLockInv'
<1> USE LedgerConstants, ThreadsDistinct, ScriptsAreCalls
    DEF CallInv, AccountsOK
<1>1. CASE UNCHANGED vars
  BY <1>1 DEF vars, shared, AccountLockInv, Inside, AtWork, Passed, Ends
<1>2. ASSUME NEW t \in Threads, Invoke(t)
      PROVE  AccountLockInv'
  <2>0. DOMAIN accounts' = DOMAIN accounts
    BY <1>2, DomainKept DEF Step, OpenAccount, Invoke
  <2>1. ~Inside(t) /\ pc[t] # "try" /\ ~Inside(t)' /\ pc'[t] # "try" /\ mtx' = mtx
    BY <1>2, Begins DEF Invoke, Inside, AtWork, TypeOK, shared
  <2>2. \A u \in Threads \ {t} : pc'[u] = pc[u] /\ call'[u] = call[u]
    BY <1>2 DEF Invoke, TypeOK, GoTo
  <2> QED
    BY <2>0, <2>1, <2>2 DEF AccountLockInv, Inside, AtWork, Passed, Ends
<1>3. ASSUME NEW t \in Threads, LockAccount(t)
      PROVE  AccountLockInv'
  <2>0. DOMAIN accounts' = DOMAIN accounts
    BY <1>3, DomainKept DEF Step, OpenAccount, LockAccount
  <2>1. PICK a \in Ends(call[t]) : mtx[a] = NoThread /\ mtx' = [mtx EXCEPT ![a] = t]
    BY <1>3 DEF LockAccount, Available
  <2>2. /\ pc[t] = "lock" /\ ~Inside(t)
        /\ pc' = [pc EXCEPT ![t] = AfterFirstLock(call[t])]
        /\ call' = call
    BY <1>3 DEF LockAccount, GoTo, Inside, AtWork
  <2>3. Ends(call[t]) \subseteq AccountIds
    BY <2>2 DEF PassedInv, Passed, TypeOK
  <2>4. pc'[t] = "decide" => Ends(call[t]) = {a}
    BY <2>1, <2>2 DEF AfterFirstLock, Ends, TypeOK
  <2>5. \A u \in Threads \ {t} : pc'[u] = pc[u] /\ \A b \in AccountIds :
          mtx'[b] = u <=> mtx[b] = u
    BY <2>1, <2>2, <2>3 DEF TypeOK
  <2>6. \A u \in Threads \ {t} : Inside(u)' <=> Inside(u)
    BY <2>0, <2>2, <2>5 DEF Inside, AtWork, Passed, Ends
  <2>7. \A b \in AccountIds : mtx'[b] = t <=> b = a
    BY <2>1, <2>2, <2>3 DEF TypeOK, AccountLockInv
  <2>8. pc'[t] \in {"try", "decide"} /\ (pc'[t] = "decide" <=> Inside(t)')
    BY <2>2 DEF AfterFirstLock, Inside, AtWork, TypeOK
  <2>9. \A u \in Threads : Ends(call[u])' = Ends(call[u])
        /\ (Inside(u) => Ends(call[u]) \subseteq AccountIds)
        /\ (pc[u] = "try" => Ends(call[u]) \subseteq AccountIds)
    BY <2>2 DEF Ends, Inside, AtWork, PassedInv, PlaceInv, Passed, TypeOK
  <2>10. ASSUME NEW u \in Threads \ {t}
         PROVE  /\ \A b \in AccountIds : mtx'[b] = u =>
                     b \in Ends(call[u])' /\ (pc'[u] = "try" \/ Inside(u)')
                /\ Inside(u)' => \A b \in Ends(call[u])' : mtx'[b] = u
                /\ pc'[u] = "try" => \E b \in Ends(call[u])' : mtx'[b] = u
    BY <2>5, <2>6, <2>9 DEF AccountLockInv
  <2>11. /\ \A b \in AccountIds : mtx'[b] = t =>
              b \in Ends(call[t])' /\ (pc'[t] = "try" \/ Inside(t)')
         /\ Inside(t)' => \A b \in Ends(call[t])' : mtx'[b] = t
         /\ pc'[t] = "try" => \E b \in Ends(call[t])' : mtx'[b] = t
    BY <2>1, <2>3, <2>4, <2>7, <2>8, <2>9
  <2> QED
    BY <2>10, <2>11 DEF AccountLockInv
<1>4. ASSUME NEW t \in Threads, TryOther(t)
      PROVE  AccountLockInv'
  <2>0. DOMAIN accounts' = DOMAIN accounts
    BY <1>4, DomainKept DEF Step, OpenAccount, TryOther
  <2>1. PICK a \in Ends(call[t]) : mtx[a] = NoThread /\ mtx' = [mtx EXCEPT ![a] = t]
    BY <1>4 DEF TryOther, Available
  <2>2. /\ pc[t] = "try" /\ call' = call
        /\ pc' = [pc EXCEPT ![t] = "decide"]
    BY <1>4 DEF TryOther, GoTo
  <2>3. Ends(call[t]) \subseteq AccountIds
    BY <2>2 DEF PassedInv, Passed, TypeOK
  <2>4. \A b \in Ends(call[t]) : mtx'[b] = t
    <3>1. PICK b \in Ends(call[t]) : mtx[b] = t
      BY <2>2 DEF AccountLockInv
    <3>2. Ends(call[t]) = {a, b}
      BY <2>1, <3>1 DEF Ends
    <3> QED
      BY <2>1, <2>3, <3>1, <3>2 DEF TypeOK
  <2>5. \A u \in Threads \ {t} : pc'[u] = pc[u] /\ \A b \in AccountIds :
          mtx'[b] = u <=> mtx[b] = u
    BY <2>1, <2>2, <2>3 DEF TypeOK
  <2>6. \A u \in Threads \ {t} : Inside(u)' <=> Inside(u)
    BY <2>0, <2>2, <2>5 DEF Inside, AtWork, Passed, Ends
  <2>7. \A b \in AccountIds : mtx'[b] = t => b \in Ends(call[t])
    BY <2>1, <2>3 DEF TypeOK, AccountLockInv
  <2>8. pc'[t] = "decide" /\ Inside(t)'
    BY <2>2 DEF Inside, AtWork, TypeOK
  <2>9. \A u \in Threads : Ends(call[u])' = Ends(call[u])
        /\ (Inside(u) => Ends(call[u]) \subseteq AccountIds)
        /\ (pc[u] = "try" => Ends(call[u]) \subseteq AccountIds)
    BY <2>2 DEF Ends, Inside, AtWork, PassedInv, PlaceInv, Passed, TypeOK
  <2>10. ASSUME NEW u \in Threads \ {t}
         PROVE  /\ \A b \in AccountIds : mtx'[b] = u =>
                     b \in Ends(call[u])' /\ (pc'[u] = "try" \/ Inside(u)')
                /\ Inside(u)' => \A b \in Ends(call[u])' : mtx'[b] = u
                /\ pc'[u] = "try" => \E b \in Ends(call[u])' : mtx'[b] = u
    BY <2>5, <2>6, <2>9 DEF AccountLockInv
  <2>11. /\ \A b \in AccountIds : mtx'[b] = t =>
              b \in Ends(call[t])' /\ (pc'[t] = "try" \/ Inside(t)')
         /\ Inside(t)' => \A b \in Ends(call[t])' : mtx'[b] = t
         /\ pc'[t] = "try" => \E b \in Ends(call[t])' : mtx'[b] = t
    BY <2>4, <2>7, <2>8, <2>9
  <2> QED
    BY <2>10, <2>11 DEF AccountLockInv
<1>5. ASSUME NEW t \in Threads, BackOff(t) \/ Return(t)
      PROVE  AccountLockInv'
  <2>0. DOMAIN accounts' = DOMAIN accounts
    BY <1>5, DomainKept DEF Step, OpenAccount, BackOff, Return
  <2>1. mtx' = Unlocked(t) /\ call' = call
    BY <1>5 DEF BackOff, Return
  <2>2. PICK place \in {"lock", "idle"} : pc' = [pc EXCEPT ![t] = place]
    BY <1>5 DEF BackOff, Return, GoTo
  <2>3. \A u \in Threads : Ends(call[u])' = Ends(call[u])
        /\ (Inside(u) => Ends(call[u]) \subseteq AccountIds)
        /\ (pc[u] = "try" => Ends(call[u]) \subseteq AccountIds)
    BY <2>1 DEF Ends, Inside, AtWork, PassedInv, PlaceInv, Passed, TypeOK
  <2>4. \A u \in Threads \ {t} : pc'[u] = pc[u] /\ \A b \in AccountIds :
          mtx'[b] = u <=> mtx[b] = u
    BY <2>1, <2>2 DEF TypeOK, Unlocked
  <2>5. \A u \in Threads \ {t} : Inside(u)' <=> Inside(u)
    BY <2>0, <2>1, <2>4 DEF Inside, AtWork, Passed, Ends
  <2>6. /\ ~Inside(t)' /\ pc'[t] # "try"
        /\ \A b \in AccountIds : mtx'[b] # t
    BY <2>1, <2>2 DEF Inside, AtWork, TypeOK, Unlocked
  <2>7. ASSUME NEW u \in Threads \ {t}
        PROVE  /\ \A a \in AccountIds : mtx'[a] = u =>
                    a \in Ends(call[u])' /\ (pc'[u] = "try" \/ Inside(u)')
               /\ Inside(u)' => \A a \in Ends(call[u])' : mtx'[a] = u
               /\ pc'[u] = "try" => \E a \in Ends(call[u])' : mtx'[a] = u
    <3>1. /\ Inside(u)' <=> Inside(u)
          /\ pc'[u] = pc[u]
          /\ Ends(call[u])' = Ends(call[u])
          /\ \A b \in AccountIds : mtx'[b] = u <=> mtx[b] = u
      BY <2>3, <2>4, <2>5
    <3>2. Inside(u) \/ pc[u] = "try" => Ends(call[u]) \subseteq AccountIds
      BY <2>3
    <3> QED
      BY <3>1, <3>2 DEF AccountLockInv
  <2> QED
    BY <2>6, <2>7 DEF AccountLockInv
<1>6. ASSUME NEW t \in Threads, LockBank(t) \/ Check(t) \/ LockForQuery(t) \/ Read(t)
      PROVE  AccountLockInv'
  <2>0. DOMAIN accounts' = DOMAIN accounts
    BY <1>6, DomainKept DEF Step, OpenAccount, LockBank, Check, LockForQuery, Read
  <2>1. UNCHANGED <<mtx, call>>
    BY <1>6 DEF LockBank, Check, LockForQuery, Read, shared
  <2>2. PICK place \in {"check", "lock", "stamp", "return", "read"} :
          pc' = [pc EXCEPT ![t] = place]
    BY <1>6 DEF LockBank, Check, LockForQuery, Read, GoTo
  <2>3. pc[t] \in {"bank", "check", "query", "read"}
    BY <1>6 DEF LockBank, Check, LockForQuery, Read
  <2>4. ~Inside(t)'
    <3>1. CASE LockBank(t) \/ LockForQuery(t)
      BY <3>1 DEF LockBank, LockForQuery, GoTo, Inside, AtWork, TypeOK
    <3>2. CASE Check(t)
      <4>1. Passed(call[t]) => pc'[t] = "lock"
        BY <3>2, EarlyReplyPassed DEF Check, GoTo, TypeOK
      <4>2. pc'[t] \in {"lock", "stamp", "return"}
        BY <3>2 DEF Check, GoTo, TypeOK
      <4> QED
        BY <2>0, <2>1, <4>1, <4>2 DEF Inside, AtWork, Passed, Ends
    <3>3. CASE Read(t)
      <4>1. call[t].op \notin Op /\ pc'[t] = "return"
        BY <3>3 DEF Read, GoTo, PlaceInv, Op, QueryOp, TypeOK
      <4> QED
        BY <2>1, <4>1 DEF Inside, AtWork
    <3> QED
      BY <1>6, <3>1, <3>2, <3>3
  <2> QED
    BY <2>0, <2>1, <2>2, <2>3, <2>4, AccountLockFrame DEF Inside, AtWork
<1>7. ASSUME NEW t \in Threads,
             Decide(t) \/ Apply(t) \/ CreditDest(t) \/ Stamp(t) \/ TakeId(t)
               \/ LockRecords(t) \/ StoreRecord(t) \/ IndexRecord(t)
      PROVE  AccountLockInv'
  <2>0. DOMAIN accounts' = DOMAIN accounts
    BY <1>7, DomainKept DEF Step, OpenAccount, Decide, Apply, CreditDest, Stamp,
        TakeId, LockRecords, StoreRecord, IndexRecord
  <2>1. UNCHANGED <<mtx, call>>
    BY <1>7 DEF Decide, Apply, CreditDest, Stamp, TakeId, LockRecords, StoreRecord,
       IndexRecord, shared
  <2>2. PICK place \in {"apply", "credit", "stamp", "id", "record", "store", "index",
                        "return"} : pc' = [pc EXCEPT ![t] = place]
    BY <1>7 DEF Decide, Apply, AfterApply, CreditDest, Stamp, TakeId, LockRecords,
       StoreRecord, IndexRecord, GoTo
  <2>3. pc[t] \in {"decide", "apply", "credit", "stamp", "id", "record", "store", "index"}
    BY <1>7 DEF Decide, Apply, CreditDest, Stamp, TakeId, LockRecords, StoreRecord,
       IndexRecord
  <2>4. pc[t] \in {"stamp", "id", "record", "store", "index"} =>
          pc'[t] \in {"stamp", "id", "record", "store", "index", "return"}
    BY <1>7 DEF Decide, Apply, CreditDest, Stamp, TakeId, LockRecords, StoreRecord,
       IndexRecord, GoTo, TypeOK
  <2>5. call[t].op \in Op
    BY <2>3 DEF PlaceInv, OpPlaces, Places
  <2>6. AtWork(t) => Passed(call[t])
    BY DEF AtWork, PassedInv
  <2>7. Inside(t)' <=> Inside(t)
    BY <2>0, <2>1, <2>2, <2>3, <2>4, <2>5, <2>6 DEF Inside, AtWork, Passed, Ends, TypeOK
  <2> QED
    BY <2>0, <2>1, <2>2, <2>3, <2>7, AccountLockFrame
<1>8. ASSUME NEW t \in Threads, OwnBank(t)
      PROVE  AccountLockInv'
  <2>0. DOMAIN accounts' = DOMAIN accounts
    BY <1>8, DomainKept DEF Step, OwnBank
  <2>1. /\ UNCHANGED <<mtx, call>>
        /\ pc' = [pc EXCEPT ![t] = "open"] /\ pc[t] = "owner"
    BY <1>8 DEF OwnBank, GoTo
  <2>2. ~Inside(t) /\ ~Inside(t)'
    BY <2>1 DEF Inside, AtWork, TypeOK
  <2> QED
    BY <2>0, <2>1, <2>2, AccountLockFrame
<1>9. ASSUME NEW t \in Threads, OpenAccount(t)
      PROVE  AccountLockInv'
  <2>1. /\ UNCHANGED <<mtx, call>>
        /\ pc' = [pc EXCEPT ![t] = "return"] /\ pc[t] = "open"
    BY <1>9 DEF OpenAccount, GoTo
  <2>2. \A u \in Threads : ~HoldsBank(u)
    BY <2>1 DEF BankLockInv, TypeOK
  <2>3. \A u \in Threads : ~Inside(u) /\ pc[u] # "try"
    BY <2>2 DEF Inside, AtWork, HoldsBank, OpPlaces, Places
  <2>4. call[t].op \notin Op
    BY <2>1 DEF PlaceInv, Op, BankOp
  <2>5. \A u \in Threads : ~Inside(u)' /\ pc'[u] # "try"
    BY <2>1, <2>2, <2>4 DEF Inside, AtWork, HoldsBank, OpPlaces, Places, TypeOK
  <2> QED
    BY <2>1, <2>3, <2>5 DEF AccountLockInv
<1> QED
  BY <1>1, <1>2, <1>3, <1>4, <1>5, <1>6, <1>7, <1>8, <1>9 DEF Next, Step, Done

LockInv == BankLockInv /\ RecordLockInv /\ AccountLockInv

Inv == TypeOK /\ CallInv /\ LockInv

LEMMA InvInvariant == Spec => []Inv
<1>1. Init => Inv
  BY TypeInit, LockInit DEF Inv, LockInv
<1>2. Inv /\ [Next]_vars => Inv'
  BY TypeStep, BankLockStep, RecordLockStep, AccountLockStep DEF Inv, LockInv
<1> QED
  BY <1>1, <1>2, PTL DEF Spec

\* A call in the bank holds bank_mtx shared, and nobody opens an account.
LEMMA InBankExcludes ==
    ASSUME Inv, NEW t \in Threads, NEW u \in Threads, pc[t] = "open"
    PROVE  ~InBank(u)
<1>1. bank_mtx.writer # NoThread
  BY ThreadsDistinct DEF Inv, LockInv, BankLockInv
<1>2. ~HoldsBank(u)
  BY <1>1 DEF Inv, LockInv, BankLockInv
<1> QED
  BY <1>2 DEF InBank, HoldsBank, OpPlaces, Places

LEMMA LocksExclude == Inv => MutualExclusion
<1> SUFFICES ASSUME Inv, NEW t \in Threads, NEW u \in Threads, t # u
             PROVE  /\ AtWork(t) /\ AtWork(u) => Ends(call[t]) \cap Ends(call[u]) = {}
                    /\ pc[t] \in {"store", "index"} =>
                         pc[u] \notin {"store", "index", "read"}
                    /\ pc[t] = "open" => pc[u] # "open" /\ ~InBank(u)
  BY DEF MutualExclusion
<1>1. ASSUME AtWork(t), AtWork(u)
      PROVE  Ends(call[t]) \cap Ends(call[u]) = {}
  <2>1. Ends(call[t]) \subseteq AccountIds
    BY <1>1 DEF Inv, CallInv, PassedInv, AtWork, Passed, TypeOK, AccountsOK
  <2> QED
    BY <1>1, <2>1 DEF Inv, LockInv, AccountLockInv, Inside
<1>2. pc[t] \in {"store", "index"} => pc[u] \notin {"store", "index", "read"}
  BY LedgerConstants, ThreadsDistinct DEF Inv, LockInv, RecordLockInv
<1>3. pc[t] = "open" => pc[u] # "open"
  BY DEF Inv, LockInv, BankLockInv
<1>4. pc[t] = "open" => ~InBank(u)
  BY InBankExcludes
<1> QED
  BY <1>1, <1>2, <1>3, <1>4

\* No two calls are at work on one account, nobody reads records while they are
\* written, and nobody is in the bank while an account is opened, for any number
\* of threads and accounts.
THEOREM MutualExclusionHolds == Spec => []MutualExclusion
BY InvInvariant, LocksExclude, PTL

-----------------------------------------------------------------------------
(***************************************************************************)
(* No deadlock.  A call that waits for record_mtx waits for one that has   *)
(* it, and that one waits for nothing.  A call that waits for an account   *)
(* waits for one that has it, and that one waits for record_mtx at most.   *)
(* A call that waits for bank_mtx waits for an opening, which waits for    *)
(* nothing, or is an opening and waits for a call in the bank, and of      *)
(* those one runs.                                                         *)
(***************************************************************************)
LEMMA RecordHolderRuns ==
    ASSUME Inv, ~CanOwn(record_mtx)
    PROVE  \E t \in Threads : pc[t] # "idle" /\ ~Blocked(t)
<1>1. \E t \in Threads : pc[t] \in {"store", "index", "read"}
  BY DEF Inv, LockInv, RecordLockInv, CanOwn, TypeOK, Locks
<1> QED
  BY <1>1 DEF Blocked

LEMMA AccountHolderRuns ==
    ASSUME Inv, NEW a \in AccountIds, mtx[a] # NoThread
    PROVE  \E t \in Threads : pc[t] # "idle" /\ ~Blocked(t)
<1>1. PICK u \in Threads : mtx[a] = u
  BY DEF Inv, TypeOK
<1>2. pc[u] \in {"try", "decide", "apply", "credit", "stamp", "id", "record", "store",
                 "index", "return"}
  BY <1>1 DEF Inv, LockInv, AccountLockInv, Inside, AtWork
<1>3. CASE pc[u] = "record" /\ ~CanOwn(record_mtx)
  BY <1>3, RecordHolderRuns
<1>4. CASE ~(pc[u] = "record" /\ ~CanOwn(record_mtx))
  BY <1>2, <1>4 DEF Blocked, GivesUp
<1> QED
  BY <1>3, <1>4

\* A call past the lock on the bank runs, or waits for one that does.
LEMMA InBankRuns ==
    ASSUME Inv, NEW t \in Threads, HoldsBank(t)
    PROVE  \E u \in Threads : pc[u] # "idle" /\ ~Blocked(u)
<1>1. CASE ~Blocked(t)
  BY <1>1 DEF HoldsBank, OpPlaces, Places
<1>2. CASE Blocked(t) /\ pc[t] = "lock"
  <2>1. call[t].id \in AccountIds /\ mtx[call[t].id] # NoThread
    BY <1>2 DEF Blocked, Available, Ends, Inv, CallInv, PassedInv, Passed, TypeOK,
       AccountsOK
  <2> QED
    BY <2>1, AccountHolderRuns
<1>3. CASE Blocked(t) /\ pc[t] = "record"
  BY <1>3, RecordHolderRuns DEF Blocked
<1>4. Blocked(t) => pc[t] \in {"lock", "record"}
  BY DEF Blocked, GivesUp, HoldsBank, OpPlaces, Places
<1> QED
  BY <1>1, <1>2, <1>3, <1>4

LEMMA InvNoDeadlock == Inv => NoDeadlock
<1> SUFFICES ASSUME Inv, NEW t \in Threads, pc[t] # "idle", Blocked(t)
             PROVE  \E u \in Threads : pc[u] # "idle" /\ ~Blocked(u)
  BY DEF NoDeadlock
<1>1. ASSUME NEW u \in Threads, pc[u] = "open"
      PROVE  pc[u] # "idle" /\ ~Blocked(u)
  BY <1>1 DEF Blocked
<1>2. CASE pc[t] \in {"bank", "owner"}
  <2>1. CASE bank_mtx.writer # NoThread
    <3>1. PICK u \in Threads : bank_mtx.writer = u
      BY <2>1 DEF Inv, TypeOK, Locks
    <3> QED
      BY <1>1, <3>1 DEF Inv, LockInv, BankLockInv
  <2>2. CASE bank_mtx.writer = NoThread
    <3>1. bank_mtx.readers # {}
      BY <1>2, <2>2 DEF Blocked, CanShare, CanOwn
    <3>2. \E u \in Threads : HoldsBank(u)
      BY <3>1 DEF Inv, LockInv, BankLockInv
    <3> QED
      BY <3>2, InBankRuns
  <2> QED
    BY <2>1, <2>2
<1>3. CASE pc[t] = "query"
  BY <1>3, RecordHolderRuns DEF Blocked, CanShare, CanOwn
<1>4. CASE pc[t] \in {"lock", "try", "record"}
  BY <1>4, InBankRuns DEF HoldsBank, OpPlaces, Places
<1> QED
  BY <1>2, <1>3, <1>4 DEF Blocked

\* Whatever calls are in progress, one of them is not waiting for a lock.
THEOREM DeadlockFree == Spec => []NoDeadlock
BY InvInvariant, InvNoDeadlock, PTL

-----------------------------------------------------------------------------
(***************************************************************************)
(* Transaction ids.                                                        *)
(***************************************************************************)
LEMMA IdsInit == Init => EveryIdAccountedFor
BY DEF Init, LedgerInit, EveryIdAccountedFor, Stored, Writing

LEMMA IdsStep ==
    ASSUME Inv, EveryIdAccountedFor, [Next]_vars
    PROVE  EveryIdAccountedFor'
<1> USE DEF Inv, TypeOK, TxIds, GoTo, shared, ledger
<1>1. CASE UNCHANGED vars
  BY <1>1 DEF vars, EveryIdAccountedFor, Writing, Stored
<1>2. ASSUME NEW t \in Threads, TakeId(t)
      PROVE  EveryIdAccountedFor'
  <2>1. /\ Writing' = Writing \cup {t} /\ t \notin Writing
        /\ Stored' = Stored
        /\ next_tx_id' = next_tx_id + 1
        /\ tx_id' = [tx_id EXCEPT ![t] = next_tx_id]
    BY <1>2 DEF TakeId, FreshId, Writing, Stored
  <2>2. \A u \in Writing : tx_id'[u] = tx_id[u] /\ tx_id[u] # next_tx_id
    <3>1. \A u \in Writing : tx_id[u] \in 1 .. next_tx_id - 1
      BY DEF EveryIdAccountedFor
    <3> QED
      BY <2>1, <3>1 DEF Writing
  <2>3. tx_id'[t] = next_tx_id /\ next_tx_id \notin Stored
    BY <2>1 DEF EveryIdAccountedFor
  <2>4. 1 .. next_tx_id' - 1 = (1 .. next_tx_id - 1) \cup {next_tx_id}
    BY <2>1
  <2>5. {tx_id'[u] : u \in Writing'} = {tx_id[u] : u \in Writing} \cup {next_tx_id}
    BY <2>1, <2>2, <2>3
  <2>6. Stored' \cup {tx_id'[u] : u \in Writing'} = 1 .. next_tx_id' - 1
    BY <2>1, <2>4, <2>5 DEF EveryIdAccountedFor
  <2>7. ASSUME NEW u \in Writing'
        PROVE  /\ tx_id'[u] \notin Stored'
               /\ \A v \in Writing' \ {u} : tx_id'[u] # tx_id'[v]
    BY <2>1, <2>2, <2>3 DEF EveryIdAccountedFor
  <2> QED
    BY <2>6, <2>7 DEF EveryIdAccountedFor
<1>3. ASSUME NEW t \in Threads, StoreRecord(t)
      PROVE  EveryIdAccountedFor'
  <2>1. /\ Writing' = Writing \ {t} /\ t \in Writing
        /\ Stored' = Stored \cup {tx_id[t]}
        /\ UNCHANGED <<next_tx_id, tx_id>>
    BY <1>3 DEF StoreRecord, Store, Put, Writing, Stored
  <2> QED
    BY <2>1 DEF EveryIdAccountedFor
<1>4. ASSUME NEW t \in Threads, Invoke(t) \/ Step(t), ~TakeId(t), ~StoreRecord(t)
      PROVE  EveryIdAccountedFor'
  <2>1. UNCHANGED next_tx_id /\ Stored' = Stored
    BY <1>4 DEF Invoke, Step, LockBank, Check, LockAccount, TryOther, BackOff, Decide,
       Apply, CreditDest, Stamp, LockRecords, IndexRecord, LockForQuery, Read, OwnBank,
       OpenAccount, Return, Stored
  <2>2. Writing' = Writing
    <3>1. CASE Invoke(t)
      BY <3>1, Begins DEF Invoke, Writing
    <3>2. CASE Step(t)
      BY <1>4, <3>2 DEF Step, LockBank, Check, LockAccount, AfterFirstLock, TryOther,
         BackOff, Decide, Apply, AfterApply, CreditDest, Stamp, LockRecords,
         IndexRecord, LockForQuery, Read, OwnBank, OpenAccount, Return, Writing
    <3> QED
      BY <1>4, <3>1, <3>2
  <2>3. \A u \in Writing : tx_id'[u] = tx_id[u]
    BY <1>4 DEF Invoke, Step, LockBank, Check, LockAccount, TryOther, BackOff, Decide,
       Apply, CreditDest, Stamp, LockRecords, IndexRecord, LockForQuery, Read, OwnBank,
       OpenAccount, Return, Writing
  <2>4. {tx_id'[u] : u \in Writing'} = {tx_id[u] : u \in Writing}
    BY <2>2, <2>3
  <2>5. ASSUME NEW u \in Writing'
        PROVE  /\ tx_id'[u] \notin Stored'
               /\ \A v \in Writing' \ {u} : tx_id'[u] # tx_id'[v]
    BY <2>1, <2>2, <2>3 DEF EveryIdAccountedFor
  <2> QED
    BY <2>1, <2>4, <2>5 DEF EveryIdAccountedFor
<1> QED
  BY <1>1, <1>2, <1>3, <1>4 DEF Next, Step, Done

\* No transaction id is lost or used twice, however many threads take them.
THEOREM IdsAccountedFor == Spec => []EveryIdAccountedFor
<1>1. Inv /\ EveryIdAccountedFor /\ [Next]_vars => EveryIdAccountedFor'
  BY IdsStep
<1> QED
  BY InvInvariant, IdsInit, <1>1, PTL DEF Spec

-----------------------------------------------------------------------------
(***************************************************************************)
(* Decisions.  A call acts only on a decision to grant it, and what it     *)
(* decided stays right because the accounts it looked at are locked.       *)
(***************************************************************************)
DecisionInv ==
    /\ DecisionStillRight
    /\ \A t \in Threads : pc[t] = "apply" => Granted(reply[t])

\* A verdict looks at nothing but the ends of its call.
LEMMA VerdictFrame ==
    ASSUME NEW t \in Threads, call'[t] = call[t],
           \A a \in Ends(call[t]) : accounts'[a] = accounts[a]
    PROVE  Verdict(call[t])' = Verdict(call[t])
<1>1. accounts'[call[t].id] = accounts[call[t].id]
  BY DEF Ends
<1>2. CASE call[t].op = "transfer"
  <2>1. accounts'[call[t].to] = accounts[call[t].to]
    BY <1>2 DEF Ends
  <2> QED
    BY <1>1, <1>2, <2>1 DEF Verdict
<1>3. CASE call[t].op # "transfer"
  BY <1>1, <1>3 DEF Verdict
<1> QED
  BY <1>2, <1>3

\* An apply or credit step of t leaves the accounts of every other call at work.
LEMMA OthersUntouched ==
    ASSUME Inv, NEW t \in Threads, Apply(t) \/ CreditDest(t),
           NEW u \in Threads \ {t}, AtWork(u)
    PROVE  /\ \A a \in Ends(call[u]) : accounts'[a] = accounts[a]
           /\ call'[u] = call[u] /\ pc'[u] = pc[u] /\ reply'[u] = reply[u]
<1>1. \E a \in Ends(call[t]) : \E account : accounts' = [accounts EXCEPT ![a] = account]
  BY DEF Apply, CreditDest, Update, Ends, Inv, CallInv, PlaceInv
<1>2. AtWork(t)
  BY DEF Apply, CreditDest, AtWork
<1>3. Ends(call[t]) \cap Ends(call[u]) = {}
  BY <1>2, LocksExclude DEF MutualExclusion
<1>4. \A a \in Ends(call[u]) : accounts'[a] = accounts[a]
  BY <1>1, <1>3 DEF Inv, CallInv, PassedInv, Passed, AtWork, TypeOK
<1> QED
  BY <1>4 DEF Apply, CreditDest, GoTo, Respond, Inv, TypeOK

LEMMA OthersDecision ==
    ASSUME Inv, DecisionInv, NEW t \in Threads, Apply(t) \/ CreditDest(t),
           NEW u \in Threads \ {t}
    PROVE  /\ pc'[u] = "apply" => reply'[u] = Verdict(call[u])' /\ Granted(reply'[u])
           /\ pc'[u] = "credit" => accounts'[call'[u].to].state # "CLOSED"
<1>1. pc'[u] = pc[u]
  BY DEF Apply, CreditDest, GoTo, Inv, TypeOK
<1>2. CASE AtWork(u)
  <2>1. /\ \A a \in Ends(call[u]) : accounts'[a] = accounts[a]
        /\ call'[u] = call[u] /\ reply'[u] = reply[u]
    BY <1>2, OthersUntouched
  <2>2. Verdict(call[u])' = Verdict(call[u])
    BY <2>1, VerdictFrame
  <2>3. pc[u] = "credit" => call[u].to \in Ends(call[u])
    BY DEF Inv, CallInv, PlaceInv, Ends
  <2> QED
    BY <1>1, <2>1, <2>2, <2>3 DEF DecisionInv, DecisionStillRight
<1> QED
  BY <1>1, <1>2 DEF AtWork

LEMMA DecisionStep ==
    ASSUME Inv, DecisionInv, [Next]_vars
    PROVE  DecisionInv'
<1> USE DEF DecisionInv, DecisionStillRight
<1>1. CASE UNCHANGED vars
  <2>1. \A t \in Threads : Verdict(call[t])' = Verdict(call[t])
    BY <1>1, VerdictFrame DEF vars, shared
  <2> QED
    BY <1>1, <2>1 DEF vars, shared
<1>2. ASSUME NEW t \in Threads, Apply(t)
      PROVE  DecisionInv'
  <2>1. \A u \in Threads \ {t} :
          /\ pc'[u] = "apply" => reply'[u] = Verdict(call[u])' /\ Granted(reply'[u])
          /\ pc'[u] = "credit" => accounts'[call'[u].to].state # "CLOSED"
    BY <1>2, OthersDecision
  <2>2. pc'[t] # "apply"
    BY <1>2 DEF Apply, AfterApply, GoTo, Inv, TypeOK
  <2>3. pc'[t] = "credit" => accounts'[call'[t].to].state # "CLOSED"
    <3>1. SUFFICES ASSUME pc'[t] = "credit"
                   PROVE  accounts'[call'[t].to].state # "CLOSED"
      OBVIOUS
    <3>2. call[t].op = "transfer" /\ call'[t] = call[t] /\ pc[t] = "apply"
      BY <1>2, <3>1 DEF Apply, AfterApply, GoTo, Inv, TypeOK
    <3>3. call[t].id # call[t].to /\ call[t].to \in DOMAIN accounts
      BY <3>2 DEF Inv, CallInv, PassedInv, Passed, Ends, TypeOK
    <3>4. reply[t] = Reply(TransferVerdict(accounts[call[t].id], accounts[call[t].to],
                                           call[t].amount))
      BY <3>2 DEF Verdict
    <3>5. accounts[call[t].to].state # "CLOSED"
      BY <3>2, <3>4 DEF Reply, Granted, TransferVerdict
    <3>6. accounts'[call[t].to] = accounts[call[t].to]
      BY <1>2, <3>3 DEF Apply, Update, Inv, TypeOK
    <3> QED
      BY <3>2, <3>5, <3>6
  <2> QED
    BY <2>1, <2>2, <2>3
<1>3. ASSUME NEW t \in Threads, CreditDest(t)
      PROVE  DecisionInv'
  <2>1. \A u \in Threads \ {t} :
          /\ pc'[u] = "apply" => reply'[u] = Verdict(call[u])' /\ Granted(reply'[u])
          /\ pc'[u] = "credit" => accounts'[call'[u].to].state # "CLOSED"
    BY <1>3, OthersDecision
  <2>2. pc'[t] = "stamp"
    BY <1>3 DEF CreditDest, GoTo, Inv, TypeOK
  <2> QED
    BY <2>1, <2>2
<1>4. ASSUME NEW t \in Threads, Decide(t)
      PROVE  DecisionInv'
  <2>1. \A u \in Threads : Verdict(call[u])' = Verdict(call[u])
    BY <1>4, VerdictFrame DEF Decide, shared
  <2>2. /\ pc'[t] = "apply" => Granted(Verdict(call[t]))
        /\ pc'[t] # "credit"
        /\ reply'[t] = Verdict(call[t])
        /\ accounts' = accounts /\ call' = call
    BY <1>4 DEF Decide, GoTo, Respond, shared, Inv, TypeOK
  <2>3. \A u \in Threads \ {t} : pc'[u] = pc[u] /\ reply'[u] = reply[u]
    BY <1>4 DEF Decide, GoTo, Respond, Inv, TypeOK
  <2> QED
    BY <2>1, <2>2, <2>3
<1>5. ASSUME NEW t \in Threads, Invoke(t) \/ Step(t),
             ~Apply(t), ~CreditDest(t), ~Decide(t), ~OpenAccount(t)
      PROVE  DecisionInv'
  <2>1. /\ accounts' = accounts
        /\ pc'[t] \notin {"apply", "credit"}
        /\ \A u \in Threads \ {t} : /\ pc'[u] = pc[u] /\ call'[u] = call[u]
                                    /\ reply'[u] = reply[u]
    <3>1. CASE Invoke(t)
      <4> PICK place \in {"bank", "query", "owner"} : pc' = [pc EXCEPT ![t] = place]
        BY <3>1, Begins, Zenon
      <4> QED
        BY <3>1 DEF Invoke, Respond, shared, Inv, TypeOK
    <3>2. CASE Step(t)
      BY <1>5, <3>2 DEF Step, LockBank, Check, LockAccount, AfterFirstLock, TryOther,
         BackOff, Stamp, TakeId, LockRecords, StoreRecord, IndexRecord, LockForQuery,
         Read, OwnBank, Return, GoTo, Respond, shared, Inv, TypeOK
    <3> QED
      BY <1>5, <3>1, <3>2
  <2>2. \A u \in Threads \ {t} : Verdict(call[u])' = Verdict(call[u])
    BY <2>1, VerdictFrame
  <2> QED
    BY <2>1, <2>2
<1>6. ASSUME NEW t \in Threads, OpenAccount(t)
      PROVE  DecisionInv'
  <2>1. \A u \in Threads : ~InBank(u)
    BY <1>6, InBankExcludes DEF OpenAccount
  <2>2. \A u \in Threads : pc'[u] \notin {"apply", "credit"}
    BY <1>6, <2>1 DEF OpenAccount, GoTo, InBank, Inv, TypeOK
  <2> QED
    BY <2>2
<1> QED
  BY <1>1, <1>2, <1>3, <1>4, <1>5, <1>6 DEF Next, Step, Done

LEMMA DecisionInvariant == Spec => []DecisionInv
<1>1. Init => DecisionInv
  BY DEF Init, DecisionInv, DecisionStillRight
<1>2. Inv /\ DecisionInv /\ [Next]_vars => DecisionInv'
  BY DecisionStep
<1> QED
  BY InvInvariant, <1>1, <1>2, PTL DEF Spec

\* What a call decided is still right when it acts on it, however many threads
\* compete for its accounts.
THEOREM DecisionsHold == Spec => []DecisionStillRight
<1>1. DecisionInv => DecisionStillRight
  BY DEF DecisionInv
<1> QED
  BY DecisionInvariant, <1>1, PTL

-----------------------------------------------------------------------------
(***************************************************************************)
(* Missing accounts.  A call that says so holds bank_mtx, which keeps      *)
(* openAccount out until the call returns.                                 *)
(***************************************************************************)
MissingInv ==
    /\ MissingStaysMissing
    /\ \A t \in Threads : pc[t] = "bank" => reply[t] = NoReply

\* With the accounts it needs in its hands a call no longer says so.
LEMMA VerdictFindsAccounts ==
    ASSUME Inv, NEW c \in CallRecords, Passed(c)
    PROVE  Verdict(c).status # "FAILED_ACCOUNT_NOT_FOUND"
<1>1. accounts[c.id].state \in AccountState
  BY DEF Passed, Ends, Inv, TypeOK, AccountsOK, Accounts
<1> QED
  BY <1>1 DEF Verdict, DepositVerdict, WithdrawVerdict, TransferVerdict, FreezeVerdict,
     UnfreezeVerdict, CloseVerdict, Reply, Value, AccountState

LEMMA EarlyReplyMisses ==
    ASSUME NEW c \in CallRecords, EarlyReply(c).status = "FAILED_ACCOUNT_NOT_FOUND"
    PROVE  \E a \in Ends(c) : Missing(a)
BY SMT DEF EarlyReply, NoReply, Reply, Value, Ends

LEMMA MissingStep ==
    ASSUME Inv, MissingInv, [Next]_vars
    PROVE  MissingInv'
<1> USE DEF MissingInv, MissingStaysMissing
<1>1. CASE UNCHANGED vars
  BY <1>1 DEF vars, shared, InBank, Ends, Missing
<1>2. ASSUME NEW t \in Threads, OpenAccount(t)
      PROVE  MissingInv'
  <2>1. \A u \in Threads : ~InBank(u)
    BY <1>2, InBankExcludes DEF OpenAccount
  <2>2. call[t].op \notin Op
    BY <1>2 DEF OpenAccount, Inv, CallInv, PlaceInv, Op, BankOp
  <2>3. \A u \in Threads : ~InBank(u)' /\ (pc'[u] = "bank" => u # t /\ pc[u] = "bank")
    BY <1>2, <2>1, <2>2 DEF OpenAccount, GoTo, InBank, Inv, TypeOK
  <2> QED
    BY <1>2, <2>3 DEF OpenAccount, Respond, Inv, TypeOK
<1>3. ASSUME NEW t \in Threads, Invoke(t) \/ Step(t), ~OpenAccount(t)
      PROVE  MissingInv'
  <2>1. DOMAIN accounts' = DOMAIN accounts
    BY <1>3, DomainKept
  <2>2. \A u \in Threads \ {t} :
          pc'[u] = pc[u] /\ call'[u] = call[u] /\ reply'[u] = reply[u]
    BY <1>3 DEF Invoke, Step, LockBank, Check, LockAccount, TryOther, BackOff, Decide,
       Apply, CreditDest, Stamp, TakeId, LockRecords, StoreRecord, IndexRecord,
       LockForQuery, Read, OwnBank, Return, GoTo, Respond, shared, Inv, TypeOK
  <2>3. ASSUME NEW u \in Threads \ {t}
        PROVE  /\ InBank(u)' /\ reply'[u].status = "FAILED_ACCOUNT_NOT_FOUND" =>
                    \E a \in Ends(call[u])' : Missing(a)'
               /\ pc'[u] = "bank" => reply'[u] = NoReply
    BY <2>1, <2>2 DEF InBank, Ends, Missing
  <2>4. pc'[t] = "bank" => reply'[t] = NoReply
    <3>1. CASE Invoke(t)
      BY <3>1 DEF Invoke, Respond, Inv, TypeOK
    <3>2. CASE Step(t)
      BY <1>3, <3>2 DEF Step, LockBank, Check, LockAccount, AfterFirstLock, TryOther,
         BackOff, Decide, Apply, AfterApply, CreditDest, Stamp, TakeId, LockRecords,
         StoreRecord, IndexRecord, LockForQuery, Read, OwnBank, Return, GoTo, Inv,
         TypeOK
    <3> QED
      BY <1>3, <3>1, <3>2
  <2>5. InBank(t)' /\ reply'[t].status = "FAILED_ACCOUNT_NOT_FOUND" =>
          \E a \in Ends(call[t])' : Missing(a)'
    <3>1. CASE Invoke(t)
      <4>1. reply'[t].status = "none"
        BY <3>1 DEF Invoke, Respond, NoReply, Reply, Inv, TypeOK
      <4> QED
        BY <4>1
    <3>2. CASE LockBank(t)
      <4>1. reply'[t].status = "none"
        BY <3>2 DEF LockBank, NoReply, Reply
      <4> QED
        BY <4>1
    <3>3. CASE Check(t)
      <4>1. /\ reply'[t] = EarlyReply(call[t]) /\ call' = call
            /\ call[t] \in CallRecords
        BY <3>3 DEF Check, Respond, Inv, TypeOK
      <4> QED
        BY <2>1, <4>1, EarlyReplyMisses DEF Ends, Missing
    <3>4. CASE Decide(t)
      <4>1. /\ reply'[t] = Verdict(call[t])
            /\ call[t] \in CallRecords /\ Passed(call[t])
        BY <3>4 DEF Decide, Respond, Inv, TypeOK, CallInv, PassedInv
      <4> QED
        BY <4>1, VerdictFindsAccounts
    <3>5. CASE Apply(t)
      <4>1. /\ reply'[t].status = "FAILED_ACCOUNT_NOT_FOUND" => reply'[t] = reply[t]
            /\ call' = call /\ InBank(t)
        BY <3>5 DEF Apply, Respond, Reply, InBank, Inv, TypeOK
      <4> QED
        BY <2>1, <4>1 DEF Ends, Missing
    <3>6. CASE Step(t) /\ ~LockBank(t) /\ ~Check(t) /\ ~Decide(t) /\ ~Apply(t)
      <4>1. InBank(t)' => InBank(t) /\ reply'[t] = reply[t] /\ call' = call
        <5>1. CASE LockForQuery(t) \/ Read(t) \/ OwnBank(t)
          BY <5>1 DEF LockForQuery, Read, OwnBank, GoTo, InBank, Inv, TypeOK, CallInv,
             PlaceInv, Op, QueryOp
        <5>2. CASE ~(LockForQuery(t) \/ Read(t) \/ OwnBank(t))
          BY <1>3, <3>6, <5>2 DEF Step, LockAccount, TryOther, BackOff, CreditDest,
             Stamp, TakeId, LockRecords, StoreRecord, IndexRecord, Return, GoTo,
             shared, InBank, Inv, TypeOK
        <5> QED
          BY <5>1, <5>2
      <4> QED
        BY <2>1, <4>1 DEF Ends, Missing
    <3> QED
      BY <1>3, <3>1, <3>2, <3>3, <3>4, <3>5, <3>6
  <2> QED
    BY <2>3, <2>4, <2>5
<1> QED
  BY <1>1, <1>2, <1>3 DEF Next, Done

\* A call that was told an account does not exist is told the truth until it
\* returns, whoever opens accounts meanwhile.
THEOREM MissingHolds == Spec => []MissingStaysMissing
<1>1. Init => MissingInv
  BY DEF Init, MissingInv, MissingStaysMissing, InBank
<1>2. Inv /\ MissingInv /\ [Next]_vars => MissingInv'
  BY MissingStep
<1>3. MissingInv => MissingStaysMissing
  BY DEF MissingInv
<1> QED
  BY InvInvariant, <1>1, <1>2, <1>3, PTL DEF Spec

-----------------------------------------------------------------------------
(***************************************************************************)
(* The life of an account.                                                 *)
(***************************************************************************)
LegalChange(op, before, after) ==
    /\ after.state # before.state => <<op, before.state, after.state>> \in Arrows
    /\ after.state = "CLOSED" => after.balance = 0 \/ after = before

LEMMA AppliedLegally ==
    ASSUME Inv, DecisionInv, NEW t \in Threads, Apply(t)
    PROVE  /\ call[t].id \in DOMAIN accounts
           /\ LegalChange(call[t].op, accounts[call[t].id], Applied(call[t]))
<1> DEFINE c == call[t]
           account == accounts[c.id]
<1>1. c \in CallRecords /\ c.op \in Op /\ Passed(c)
  BY DEF Apply, Inv, TypeOK, CallInv, PlaceInv, PassedInv, OpPlaces, Places
<1>2. c.id \in DOMAIN accounts /\ account \in Accounts
  BY <1>1 DEF Passed, Ends, Inv, TypeOK, AccountsOK
<1>3. account.state \in AccountState
  BY <1>2 DEF Accounts
<1>4. reply[t] = Verdict(c) /\ Granted(reply[t])
  BY DEF Apply, DecisionInv, DecisionStillRight
<1>5. CASE c.op = "deposit"
  <2>1. account.state # "CLOSED"
    BY <1>4, <1>5 DEF Verdict, DepositVerdict, Reply, Granted
  <2>2. Applied(c) = Deposited(account, c.amount)
    BY <1>5 DEF Applied
  <2> QED
    BY <1>2, <1>3, <1>5, <2>1, <2>2
    DEF Deposited, Credit, Unfreeze, LegalChange, Arrows, Accounts, AccountState
<1>6. CASE c.op \in {"withdraw", "transfer"}
  <2>1. account.state = "ACTIVE"
    <3>1. CASE c.op = "withdraw"
      BY <1>3, <1>4, <3>1
      DEF Verdict, WithdrawVerdict, Reply, Granted, AccountState
    <3>2. CASE c.op = "transfer"
      BY <1>4, <3>2 DEF Verdict, TransferVerdict, Reply, Granted
    <3> QED
      BY <1>6, <3>1, <3>2
  <2>2. Applied(c) = Debit(account, c.amount)
    BY <1>6 DEF Applied
  <2> QED
    BY <1>2, <2>1, <2>2 DEF Debit, LegalChange, Accounts
<1>7. CASE c.op = "freeze"
  <2>1. account.state = "ACTIVE"
    BY <1>3, <1>4, <1>7 DEF Verdict, FreezeVerdict, Reply, Granted, AccountState
  <2> QED
    BY <1>2, <1>7, <2>1 DEF Applied, Freeze, LegalChange, Arrows, Accounts
<1>8. CASE c.op = "unfreeze"
  <2>1. account.state = "FROZEN"
    BY <1>3, <1>4, <1>8 DEF Verdict, UnfreezeVerdict, Reply, Granted, AccountState
  <2> QED
    BY <1>2, <1>8, <2>1 DEF Applied, Unfreeze, LegalChange, Arrows, Accounts
<1>9. CASE c.op = "close"
  <2>1. account.state \in {"ACTIVE", "FROZEN"} /\ account.balance = 0
    BY <1>3, <1>4, <1>9 DEF Verdict, CloseVerdict, Reply, Granted, AccountState
  <2> QED
    BY <1>2, <1>9, <2>1 DEF Applied, Close, LegalChange, Arrows, Accounts
<1>10. CASE c.op \in {"getBalance", "getAccountState", "getAccountCustomerId"}
  BY <1>3, <1>4, <1>10 DEF Verdict, Value, Reply, Granted, AccountState
<1> QED
  BY <1>1, <1>2, <1>5, <1>6, <1>7, <1>8, <1>9, <1>10 DEF Op

\* The account's state stays, or a call at its last step takes one of the arrows.
ArrowTaken(a) ==
    accounts'[a].state # accounts[a].state =>
      \E t \in Threads :
        /\ pc[t] = "apply" /\ call[t].id = a
        /\ <<call[t].op, accounts[a].state, accounts'[a].state>> \in Arrows

ClosedEmptied(a) ==
    accounts'[a].state = "CLOSED" =>
      accounts'[a].balance = 0 \/ accounts'[a] = accounts[a]

LEMMA EveryChangeLegal ==
    ASSUME Inv, DecisionInv, [Next]_vars, NEW a \in DOMAIN accounts
    PROVE  ArrowTaken(a) /\ ClosedEmptied(a)
<1> USE DEF ArrowTaken, ClosedEmptied
<1>1. CASE accounts' = accounts
  BY <1>1
<1>2. ASSUME NEW t \in Threads, Apply(t)
      PROVE  ArrowTaken(a) /\ ClosedEmptied(a)
  <2>1. accounts' = [accounts EXCEPT ![call[t].id] = Applied(call[t])] /\ pc[t] = "apply"
    BY <1>2 DEF Apply, Update
  <2>2. CASE a = call[t].id
    <3>1. LegalChange(call[t].op, accounts[a], accounts'[a])
      BY <1>2, <2>1, <2>2, AppliedLegally
    <3> QED
      BY <2>1, <2>2, <3>1 DEF LegalChange
  <2>3. CASE a # call[t].id
    BY <2>1, <2>3
  <2> QED
    BY <2>2, <2>3
<1>3. ASSUME NEW t \in Threads, CreditDest(t)
      PROVE  ArrowTaken(a) /\ ClosedEmptied(a)
  <2>1. accounts' = [accounts EXCEPT ![call[t].to] =
                       Credit(accounts[call[t].to], call[t].amount)]
    BY <1>3 DEF CreditDest, Update
  <2>2. accounts[call[t].to].state # "CLOSED"
    BY <1>3 DEF CreditDest, DecisionInv, DecisionStillRight
  <2>3. accounts[a] \in Accounts
    BY DEF Inv, TypeOK, AccountsOK
  <2> QED
    BY <2>1, <2>2, <2>3 DEF Credit, Accounts
<1>4. ASSUME NEW t \in Threads, OpenAccount(t)
      PROVE  ArrowTaken(a) /\ ClosedEmptied(a)
  BY <1>4, Opened
<1> QED
  BY <1>1, <1>2, <1>3, <1>4, AccountsChange

\* An account that was not there before the step is a new one.
LEMMA NewcomerIsNew ==
    ASSUME [Next]_vars, NEW a \in DOMAIN accounts', a \notin DOMAIN accounts
    PROVE  accounts'[a].state = "PENDING" /\ accounts'[a].balance = 0
<1>1. PICK t \in Threads : OpenAccount(t)
  <2>1. CASE UNCHANGED vars
    BY <2>1 DEF vars, shared
  <2> QED
    BY <2>1, DomainKept DEF Next, Step, Done
<1>2. PICK b \in AccountIds \ DOMAIN accounts :
        accounts' = Put(accounts, b, NewAccount(call[t].id))
  BY <1>1 DEF OpenAccount
<1>3. accounts'[a] = NewAccount(call[t].id)
  BY <1>2 DEF Put
<1> QED
  BY <1>3 DEF NewAccount

\* Accounts move along the arrows of the state machine only, and each arrow is
\* taken by its own operation on that account: nothing reopens a closed account
\* and nothing but a deposit to it opens a pending one.
THEOREM LifecycleHolds == Spec => Lifecycle
<1>1. Inv /\ DecisionInv /\ [Next]_vars =>
        [\A a \in DOMAIN accounts :
           accounts'[a].state # accounts[a].state =>
             \E t \in Threads :
               /\ pc[t] = "apply" /\ call[t].id = a
               /\ <<call[t].op, accounts[a].state, accounts'[a].state>> \in Arrows]_vars
  BY EveryChangeLegal DEF ArrowTaken
<1> QED
  BY InvInvariant, DecisionInvariant, <1>1, PTL DEF Spec, Lifecycle

\* A closed account is empty and stays so: no deposit or transfer that was
\* granted before the account closed reaches it after.
THEOREM ClosedStaysEmpty == Spec => []ClosedIsEmpty
<1>1. Init => ClosedIsEmpty
  BY DEF Init, ClosedIsEmpty, NewAccount
<1>2. Inv /\ DecisionInv /\ ClosedIsEmpty /\ [Next]_vars => ClosedIsEmpty'
  <2> SUFFICES ASSUME Inv, DecisionInv, ClosedIsEmpty, [Next]_vars,
                      NEW a \in DOMAIN accounts', accounts'[a].state = "CLOSED"
               PROVE  accounts'[a].balance = 0
    BY DEF ClosedIsEmpty
  <2>1. CASE a \in DOMAIN accounts
    BY <2>1, EveryChangeLegal DEF ClosedEmptied, ClosedIsEmpty
  <2>2. CASE a \notin DOMAIN accounts
    BY <2>2, NewcomerIsNew
  <2> QED
    BY <2>1, <2>2
<1> QED
  BY InvInvariant, DecisionInvariant, <1>1, <1>2, PTL DEF Spec

-----------------------------------------------------------------------------
(***************************************************************************)
(* Overdrafts.                                                             *)
(***************************************************************************)
LEMMA CreditNoOverdraft ==
    ASSUME NEW account \in Accounts, account.balance >= 0, NEW amount \in Balances,
           account.balance + amount <= IntMax
    PROVE  Credit(account, amount).balance >= 0
BY ConstantsAreAmounts DEF Credit, Wrap, Accounts, Balances

LEMMA AppliedNoOverdraft ==
    ASSUME NEW c \in CallRecords, NEW account \in Accounts, accounts[c.id] = account,
           account.balance >= 0,
           c.op = "deposit" => account.balance + c.amount <= IntMax
    PROVE  Applied(c).balance >= 0
<1>1. c.amount \in Balances
  BY DEF CallRecords
<1>2. CASE c.op = "deposit"
  <2>1. Credit(account, c.amount).balance >= 0
    BY <1>1, <1>2, CreditNoOverdraft
  <2>2. Credit(account, c.amount) \in Accounts
    BY <1>1, CreditType
  <2> QED
    BY <1>2, <2>1, <2>2 DEF Applied, Deposited, Unfreeze, Accounts
<1>3. CASE c.op \in {"withdraw", "transfer"}
  BY <1>1, <1>3, ConstantsAreAmounts
  DEF Applied, Debit, DebitSucceeds, Insufficient, Accounts, Balances
<1>4. CASE c.op \notin {"deposit", "withdraw", "transfer"}
  BY <1>4 DEF Applied, Freeze, Unfreeze, Close, Accounts
<1> QED
  BY <1>2, <1>3, <1>4

\* As long as no credit overflows, no account is overdrawn: no interleaving of
\* withdrawals and transfers takes a balance below zero.
THEOREM NoOverdraftHolds == Spec /\ []CreditFits => []NoOverdraft
<1>1. Init => NoOverdraft
  BY DEF Init, NoOverdraft, NewAccount
<1>2. Inv /\ CreditFits /\ NoOverdraft /\ [Next]_vars => NoOverdraft'
  <2> SUFFICES ASSUME Inv, CreditFits, NoOverdraft, [Next]_vars,
                      NEW a \in DOMAIN accounts'
               PROVE  accounts'[a].balance >= 0
    BY DEF NoOverdraft
  <2>0. CASE a \notin DOMAIN accounts
    BY <2>0, NewcomerIsNew
  <2> SUFFICES ASSUME a \in DOMAIN accounts
               PROVE  accounts'[a].balance >= 0
    BY <2>0
  <2>1. CASE accounts' = accounts
    BY <2>1 DEF NoOverdraft
  <2>2. ASSUME NEW t \in Threads, Apply(t)
        PROVE  accounts'[a].balance >= 0
    <3>1. /\ accounts' = [accounts EXCEPT ![call[t].id] = Applied(call[t])]
          /\ pc[t] = "apply"
      BY <2>2 DEF Apply, Update
    <3>2. CASE a = call[t].id
      <4>1. accounts[a] \in Accounts /\ call[t] \in CallRecords
        BY DEF Inv, TypeOK, AccountsOK
      <4>2. Applied(call[t]).balance >= 0
        BY <3>1, <3>2, <4>1, AppliedNoOverdraft DEF CreditFits, NoOverdraft
      <4> QED
        BY <3>1, <3>2, <4>2
    <3> QED
      BY <3>1, <3>2 DEF NoOverdraft
  <2>3. ASSUME NEW t \in Threads, CreditDest(t)
        PROVE  accounts'[a].balance >= 0
    <3>1. /\ accounts' = [accounts EXCEPT ![call[t].to] =
                            Credit(accounts[call[t].to], call[t].amount)]
          /\ pc[t] = "credit"
      BY <2>3 DEF CreditDest, Update
    <3>2. CASE a = call[t].to
      <4>1. accounts[a] \in Accounts /\ call[t].amount \in Balances
        BY DEF Inv, TypeOK, AccountsOK, CallRecords
      <4>2. Credit(accounts[a], call[t].amount).balance >= 0
        BY <3>1, <3>2, <4>1, CreditNoOverdraft DEF CreditFits, NoOverdraft
      <4> QED
        BY <3>1, <3>2, <4>2
    <3> QED
      BY <3>1, <3>2 DEF NoOverdraft
  <2>4. ASSUME NEW t \in Threads, OpenAccount(t)
        PROVE  accounts'[a].balance >= 0
    BY <2>4, Opened DEF NoOverdraft
  <2> QED
    BY <2>1, <2>2, <2>3, <2>4, AccountsChange
<1> QED
  BY InvInvariant, <1>1, <1>2, PTL DEF Spec
=============================================================================
