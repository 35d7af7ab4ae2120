------------------------- MODULE TransactionManager -------------------------
(***************************************************************************)
(* TransactionManager under concurrent clients, and the one operation of   *)
(* Bank that changes what it works on: openAccount, which adds to its map  *)
(* of accounts.  Every thread runs the calls of its script one after the   *)
(* other; a call takes one step per lock it takes, per piece of shared     *)
(* state it touches and per scope it leaves, so that calls of several      *)
(* threads interleave as the locks of the code let them.  pc[t] names the  *)
(* place the call of thread t has reached:                                 *)
(*                                                                         *)
(*   idle -> bank -> check -> lock (-> try) -> decide -> apply (-> credit) *)
(*        -> stamp -> id -> record -> store -> index -> return -> idle     *)
(*   idle -> query -> read -> return -> idle                               *)
(*   idle -> owner -> open -> return -> idle                               *)
(***************************************************************************)
EXTENDS Account, Ledger

CONSTANTS
    Owner,      \* the accounts open at the start, each with its customer
    Script      \* Script[t][n]: the calls thread t may make as its n-th (bound)

Op == {"deposit", "withdraw", "transfer", "freeze", "unfreeze", "close",
       "getBalance", "getAccountState", "getAccountCustomerId"}
QueryOp == {"queryByAccount", "queryBySrc", "queryByDest", "queryByTime",
            "getRecentTransactions", "countTransactionsPerWindow"}
BankOp == {"openAccount"}

(***************************************************************************)
(* A call and its arguments: id and to are account ids (the two times of   *)
(* queryByTime, the window and the step of the count, the customer an      *)
(* account is opened for), amount is an int64_t (the limit of the feed, a  *)
(* size_t).                                                                *)
(***************************************************************************)
CallRecords ==
    [op : Op \cup QueryOp \cup BankOp, id : Nat, to : Nat, amount : Balances]

\* A range that ends before it starts is undefined in queryByTime: its iterator
\* never meets the end it runs towards.  No caller asks for one.
WellFormed(c) ==
    /\ c.op \in Op => {c.id, c.to} \subseteq AccountIds \cup {0}
    /\ c.op \in {"queryByAccount", "queryBySrc", "queryByDest"} =>
         c.id \in AccountIds
    /\ c.op = "queryByTime" => {c.id, c.to} \subseteq Times /\ c.id <= c.to
    /\ c.op = "getRecentTransactions" => c.amount >= 0

TransactionStatus ==
    {"SUCCESS", "FAILED_INSUFFICIENT_FUNDS", "FAILED_ACCOUNT_NOT_FOUND",
     "FAILED_ACCOUNT_FROZEN", "FAILED_INVALID_STATE", "FAILED_INVALID_AMOUNT",
     "FAILED_ACCOUNT_PENDING", "FAILED_ACCOUNT_CLOSED",
     "FAILED_ACCOUNT_NOT_ACTIVE", "FAILED_SAME_ACCOUNT"}
AccountOperationStatus ==
    {"OK", "FAILED_INVALID_STATE", "FAILED_BALANCE_NOT_ZERO",
     "FAILED_ACCOUNT_PENDING", "FAILED_ACCOUNT_NOT_FOUND",
     "FAILED_ALREADY_FROZEN", "FAILED_ALREADY_ACTIVE", "FAILED_ALREADY_CLOSED"}

\* What a call answers.  "none" is no answer yet, "value" a number, "nullopt"
\* an empty optional and "records" the records, or the counts, in answer[t].
ReplyStatus ==
    TransactionStatus \cup AccountOperationStatus \cup AccountState
        \cup {"none", "value", "nullopt", "records"}
Replies == [status : ReplyStatus, value : Int]

Reply(status) == [status |-> status, value |-> 0]
Value(n) == [status |-> "value", value |-> n]
NoReply == Reply("none")

ASSUME ScriptsAreCalls ==
    /\ DOMAIN Owner \subseteq AccountIds
    /\ \A a \in DOMAIN Owner : Owner[a] \in Nat
    /\ Script \in [Threads -> Seq(SUBSET {c \in CallRecords : WellFormed(c)})]

\* A process has finitely many threads and its memory holds finitely many accounts.
ASSUME FinitelyMany == IsFiniteSet(Threads) /\ IsFiniteSet(DOMAIN Owner)

VARIABLES
    accounts, bank_mtx, mtx, now,           \* shared
    pc, made, call, reply, stamp, tx_id, answer   \* of each thread

shared == <<accounts, bank_mtx, mtx, now, next_tx_id, record_mtx>>
vars == <<shared, ledger, pc, made, call, reply, stamp, tx_id, answer>>

Init ==
    /\ LedgerInit
    /\ accounts = [a \in DOMAIN Owner |-> NewAccount(Owner[a])]
    /\ bank_mtx = Free
    /\ mtx = [a \in AccountIds |-> NoThread]
    /\ now = 0
    /\ pc = [t \in Threads |-> "idle"]
    /\ made = [t \in Threads |-> 0]
    /\ call = [t \in Threads |->
                 [op |-> "getBalance", id |-> 0, to |-> 0, amount |-> 0]]
    /\ reply = [t \in Threads |-> NoReply]
    /\ stamp = [t \in Threads |-> 0]
    /\ tx_id = [t \in Threads |-> 0]
    /\ answer = [t \in Threads |-> << >>]

GoTo(t, place) == pc' = [pc EXCEPT ![t] = place]
Respond(t, r) == reply' = [reply EXCEPT ![t] = r]

-----------------------------------------------------------------------------
(***************************************************************************)
(* The rules of the execute functions, as functions of a call and the      *)
(* accounts it sees.                                                       *)
(***************************************************************************)
Missing(a) == a \notin DOMAIN accounts

\* The answer given before any account is locked, "none" when there is none.
EarlyReply(c) ==
    LET money == c.op \in {"deposit", "withdraw", "transfer"}
    IN  IF c.op = "transfer" /\ c.id = c.to THEN Reply("FAILED_SAME_ACCOUNT")
        ELSE IF money /\ c.amount <= 0 THEN Reply("FAILED_INVALID_AMOUNT")
        ELSE IF ~Missing(c.id) /\ ~(c.op = "transfer" /\ Missing(c.to))
             THEN NoReply
        ELSE IF c.op = "getBalance" THEN Value(0)
        ELSE IF c.op \in {"getAccountState", "getAccountCustomerId"}
             THEN Reply("nullopt")
        ELSE Reply("FAILED_ACCOUNT_NOT_FOUND")

DepositVerdict(account, amount) ==
    CASE account.state = "CLOSED" -> "FAILED_ACCOUNT_CLOSED"
      [] account.state = "PENDING" /\ amount < MinDeposit ->
           "FAILED_ACCOUNT_PENDING"
      [] OTHER -> "SUCCESS"

WithdrawVerdict(account, amount) ==
    CASE account.state = "CLOSED" -> "FAILED_ACCOUNT_CLOSED"
      [] account.state = "PENDING" -> "FAILED_ACCOUNT_PENDING"
      [] account.state = "FROZEN" -> "FAILED_ACCOUNT_FROZEN"
      [] OTHER -> IF Insufficient(account, amount)
                   THEN "FAILED_INSUFFICIENT_FUNDS" ELSE "SUCCESS"

\* Bug variant: a frozen account may send.
TransferVerdict_Frozen(src, dest, amount) ==
    IF src.state \in {"PENDING", "CLOSED"} THEN "FAILED_ACCOUNT_NOT_ACTIVE"
    ELSE IF dest.state = "CLOSED" THEN "FAILED_ACCOUNT_CLOSED"
    ELSE IF Insufficient(src, amount) THEN "FAILED_INSUFFICIENT_FUNDS"
    ELSE "SUCCESS"

TransferVerdict(src, dest, amount) ==
    IF src.state # "ACTIVE" THEN "FAILED_ACCOUNT_NOT_ACTIVE"
    ELSE IF dest.state = "CLOSED" THEN "FAILED_ACCOUNT_CLOSED"
    ELSE IF Insufficient(src, amount) THEN "FAILED_INSUFFICIENT_FUNDS"
    ELSE "SUCCESS"

FreezeVerdict(account) ==
    CASE account.state = "CLOSED" -> "FAILED_ALREADY_CLOSED"
      [] account.state = "PENDING" -> "FAILED_ACCOUNT_PENDING"
      [] account.state = "FROZEN" -> "FAILED_ALREADY_FROZEN"
      [] OTHER -> "OK"

\* Bug variant: a closed account is not told from a frozen one.
UnfreezeVerdict_Closed(account) ==
    CASE account.state = "ACTIVE" -> "FAILED_ALREADY_ACTIVE"
      [] account.state = "PENDING" -> "FAILED_INVALID_STATE"
      [] OTHER -> "OK"

UnfreezeVerdict(account) ==
    CASE account.state = "CLOSED" -> "FAILED_ALREADY_CLOSED"
      [] account.state = "ACTIVE" -> "FAILED_ALREADY_ACTIVE"
      [] account.state = "PENDING" -> "FAILED_INVALID_STATE"
      [] OTHER -> "OK"

CloseVerdict(account) ==
    CASE account.state = "PENDING" -> "FAILED_ACCOUNT_PENDING"
      [] account.state = "CLOSED" -> "FAILED_ALREADY_CLOSED"
      [] OTHER -> IF account.balance # 0 THEN "FAILED_BALANCE_NOT_ZERO" ELSE "OK"

\* The answer given with the locks held: the verdict, or what a getter reads.
Verdict(c) ==
    LET account == accounts[c.id]
    IN  CASE c.op = "deposit" -> Reply(DepositVerdict(account, c.amount))
          [] c.op = "withdraw" -> Reply(WithdrawVerdict(account, c.amount))
          [] c.op = "transfer" ->
               Reply(TransferVerdict(account, accounts[c.to], c.amount))
          [] c.op = "freeze" -> Reply(FreezeVerdict(account))
          [] c.op = "unfreeze" -> Reply(UnfreezeVerdict(account))
          [] c.op = "close" -> Reply(CloseVerdict(account))
          [] c.op = "getBalance" ->
               Value(IF account.state = "CLOSED" THEN -1 ELSE account.balance)
          [] c.op = "getAccountState" -> Reply(account.state)
          [] OTHER -> Value(account.customer_id)

Granted(r) == r.status \in {"SUCCESS", "OK"}

\* Which answers leave a TransactionRecord behind, and which record.
Recorded(c, r) ==
    \/ /\ c.op \in {"deposit", "withdraw"}
       /\ r.status \in {"SUCCESS", "FAILED_ACCOUNT_CLOSED", "FAILED_ACCOUNT_PENDING",
                        "FAILED_ACCOUNT_FROZEN", "FAILED_INSUFFICIENT_FUNDS"}
    \/ /\ c.op = "transfer"
       /\ r.status \notin {"FAILED_SAME_ACCOUNT", "FAILED_INVALID_AMOUNT"}

\* Bug variant: the two ends of a transfer change places.
RecordOf_Swapped(t) ==
    LET c == call[t]
    IN  [timestamp |-> stamp[t],
         src_id |-> IF c.op = "transfer" THEN c.to ELSE 0,
         dest_id |-> c.id,
         amount |-> c.amount,
         status |-> reply[t].status]

RecordOf(t) ==
    LET c == call[t]
    IN  [timestamp |-> stamp[t],
         src_id |-> IF c.op = "transfer" THEN c.id ELSE 0,
         dest_id |-> IF c.op = "transfer" THEN c.to ELSE c.id,
         amount |-> c.amount,
         status |-> reply[t].status]

-----------------------------------------------------------------------------
(***************************************************************************)
(* A call begins.                                                          *)
(***************************************************************************)
Entrance(c) ==
    CASE c.op \in Op -> "bank"
      [] c.op \in QueryOp -> "query"
      [] OTHER -> "owner"

Invoke(t) ==
    /\ pc[t] = "idle"
    /\ made[t] < Len(Script[t])
    /\ \E c \in Script[t][made[t] + 1] :
         /\ call' = [call EXCEPT ![t] = c]
         /\ GoTo(t, Entrance(c))
         /\ tx_id' = [tx_id EXCEPT ![t] = IF c.op \in Op THEN 0 ELSE @]
    /\ made' = [made EXCEPT ![t] = @ + 1]
    /\ Respond(t, NoReply)
    /\ UNCHANGED <<shared, ledger, stamp, answer>>

LockBank(t) ==
    /\ pc[t] = "bank"
    /\ CanShare(bank_mtx)
    /\ bank_mtx' = Share(bank_mtx, t)
    /\ GoTo(t, "check")
    /\ UNCHANGED <<accounts, mtx, now, next_tx_id, record_mtx, ledger,
                   made, call, reply, stamp, tx_id, answer>>

\* The tests made before an account is locked.  A transfer that names an
\* account that does not exist is recorded; the other early returns are not.
Check(t) ==
    LET r == EarlyReply(call[t])
    IN  /\ pc[t] = "check"
        /\ Respond(t, r)
        /\ GoTo(t, IF r = NoReply THEN "lock"
                   ELSE IF Recorded(call[t], r) THEN "stamp" ELSE "return")
        /\ UNCHANGED <<shared, ledger, made, call, stamp, tx_id, answer>>

-----------------------------------------------------------------------------
(***************************************************************************)
(* Account locks.  A scoped_lock of one mutex waits for it.  A scoped_lock *)
(* of two waits for one of them, tries the other, and when that one is     *)
(* taken lets go of the first and starts over, with either of the two.     *)
(***************************************************************************)
Ends(c) == IF c.op = "transfer" THEN {c.id, c.to} ELSE {c.id}

\* Bug variant: the account's mutex keeps nobody out.
Available_Always(a) == TRUE

Available(a) == mtx[a] = NoThread

\* Where a thread stands that has taken one of the mutexes its call needs.
AfterFirstLock(c) == IF c.op = "transfer" THEN "try" ELSE "decide"

LockAccount(t) ==
    /\ pc[t] = "lock"
    /\ \E a \in Ends(call[t]) :
         /\ Available(a)
         /\ mtx' = [mtx EXCEPT ![a] = t]
    /\ GoTo(t, AfterFirstLock(call[t]))
    /\ UNCHANGED <<accounts, bank_mtx, now, next_tx_id, record_mtx, ledger,
                   made, call, reply, stamp, tx_id, answer>>

TryOther(t) ==
    /\ pc[t] = "try"
    /\ \E a \in Ends(call[t]) :
         /\ Available(a)
         /\ mtx' = [mtx EXCEPT ![a] = t]
    /\ GoTo(t, "decide")
    /\ UNCHANGED <<accounts, bank_mtx, now, next_tx_id, record_mtx, ledger,
                   made, call, reply, stamp, tx_id, answer>>

Unlocked(t) == [a \in AccountIds |-> IF mtx[a] = t THEN NoThread ELSE mtx[a]]

\* Bug variant: the first mutex is held while the second is waited for.
GivesUp_Never(t) == FALSE

GivesUp(t) == \A a \in Ends(call[t]) : ~Available(a)

BackOff(t) ==
    /\ pc[t] = "try"
    /\ GivesUp(t)
    /\ mtx' = Unlocked(t)
    /\ GoTo(t, "lock")
    /\ UNCHANGED <<accounts, bank_mtx, now, next_tx_id, record_mtx, ledger,
                   made, call, reply, stamp, tx_id, answer>>

-----------------------------------------------------------------------------
(***************************************************************************)
(* With its account locks held a call decides first and acts after it.     *)
(***************************************************************************)
Decide(t) ==
    LET r == Verdict(call[t])
    IN  /\ pc[t] = "decide"
        /\ Respond(t, r)
        /\ GoTo(t, IF Granted(r) THEN "apply"
                   ELSE IF Recorded(call[t], r) THEN "stamp" ELSE "return")
        /\ UNCHANGED <<shared, ledger, made, call, stamp, tx_id, answer>>

Update(a, account) == accounts' = [accounts EXCEPT ![a] = account]

\* A deposit large enough to have been granted also opens a pending account.
\* credit() refuses only an amount that is not positive, which was answered before
\* any account was locked: FAILED_INVALID_STATE is never the answer of a deposit.
Deposited(account, amount) ==
    LET credited == Credit(account, amount)
    IN  IF credited.state = "PENDING" THEN Unfreeze(credited) ELSE credited

Applied(c) ==
    LET account == accounts[c.id]
    IN  CASE c.op = "deposit" -> Deposited(account, c.amount)
          [] c.op \in {"withdraw", "transfer"} -> Debit(account, c.amount)
          [] c.op = "freeze" -> Freeze(account)
          [] c.op = "unfreeze" -> Unfreeze(account)
          [] OTHER -> Close(account)

\* A withdrawal whose debit() fails answers FAILED_INVALID_STATE and records
\* nothing; a transfer does not look at what debit() answers.
DebitRefused(c) ==
    c.op = "withdraw" /\ ~DebitSucceeds(accounts[c.id], c.amount)

AfterApply(c) ==
    IF DebitRefused(c) THEN "return"
    ELSE IF c.op = "transfer" THEN "credit"
    ELSE IF c.op \in {"deposit", "withdraw"} THEN "stamp" ELSE "return"

Apply(t) ==
    LET c == call[t]
    IN  /\ pc[t] = "apply"
        /\ Update(c.id, Applied(c))
        /\ Respond(t, IF DebitRefused(c) THEN Reply("FAILED_INVALID_STATE")
                                         ELSE reply[t])
        /\ GoTo(t, AfterApply(c))
        /\ UNCHANGED <<bank_mtx, mtx, now, next_tx_id, record_mtx, ledger,
                       made, call, stamp, tx_id, answer>>

CreditDest(t) ==
    LET c == call[t]
    IN  /\ pc[t] = "credit"
        /\ Update(c.to, Credit(accounts[c.to], c.amount))
        /\ GoTo(t, "stamp")
        /\ UNCHANGED <<bank_mtx, mtx, now, next_tx_id, record_mtx, ledger,
                       made, call, reply, stamp, tx_id, answer>>

-----------------------------------------------------------------------------
(***************************************************************************)
(* The record: its timestamp, its id, and the three steps of writeRecord.  *)
(* All of it happens before the account locks are released.                *)
(***************************************************************************)
\* Bug variant: the accounts are unlocked before the record is made.
Stamp_Unlocked(t) ==
    /\ pc[t] = "stamp"
    /\ \E later \in {now + d : d \in ClockSteps} \cap Times :
         /\ now' = later
         /\ stamp' = [stamp EXCEPT ![t] = later]
    /\ mtx' = Unlocked(t)
    /\ GoTo(t, "id")
    /\ UNCHANGED <<accounts, bank_mtx, next_tx_id, record_mtx, ledger,
                   made, call, reply, tx_id, answer>>

Stamp(t) ==
    /\ pc[t] = "stamp"
    /\ \E later \in {now + d : d \in ClockSteps} \cap Times :
         /\ now' = later
         /\ stamp' = [stamp EXCEPT ![t] = later]
    /\ GoTo(t, "id")
    /\ UNCHANGED <<accounts, bank_mtx, mtx, next_tx_id, record_mtx, ledger,
                   made, call, reply, tx_id, answer>>

\* Bug variant: the id is the number of records stored, plus one.
FreshId_FromSize == Cardinality(DOMAIN transactions) + 1

FreshId == next_tx_id

TakeId(t) ==
    /\ pc[t] = "id"
    /\ tx_id' = [tx_id EXCEPT ![t] = FreshId]
    /\ next_tx_id' = next_tx_id + 1
    /\ GoTo(t, "record")
    /\ UNCHANGED <<accounts, bank_mtx, mtx, now, record_mtx, ledger,
                   made, call, reply, stamp, answer>>

LockRecords(t) ==
    /\ pc[t] = "record"
    /\ CanOwn(record_mtx)
    /\ record_mtx' = Own(record_mtx, t)
    /\ GoTo(t, "store")
    /\ UNCHANGED <<accounts, bank_mtx, mtx, now, next_tx_id, ledger,
                   made, call, reply, stamp, tx_id, answer>>

StoreRecord(t) ==
    /\ pc[t] = "store"
    /\ Store(tx_id[t], RecordOf(t))
    /\ GoTo(t, "index")
    /\ UNCHANGED <<shared, index_by_time, history_by_src, history_by_dest,
                   made, call, reply, stamp, tx_id, answer>>

IndexRecord(t) ==
    /\ pc[t] = "index"
    /\ Index(tx_id[t], RecordOf(t))
    /\ record_mtx' = Disown(record_mtx)
    /\ GoTo(t, "return")
    /\ UNCHANGED <<accounts, bank_mtx, mtx, now, next_tx_id,
                   transactions, recent_feed,
                   made, call, reply, stamp, tx_id, answer>>

-----------------------------------------------------------------------------
(***************************************************************************)
(* The queries read the record store under its shared lock alone.          *)
(***************************************************************************)
LockForQuery(t) ==
    /\ pc[t] = "query"
    /\ CanShare(record_mtx)
    /\ record_mtx' = Share(record_mtx, t)
    /\ GoTo(t, "read")
    /\ UNCHANGED <<accounts, bank_mtx, mtx, now, next_tx_id, ledger,
                   made, call, reply, stamp, tx_id, answer>>

QueryAnswer(c) ==
    CASE c.op = "queryByAccount" -> QueryByAccount(c.id)
      [] c.op = "queryBySrc" -> history_by_src[c.id]
      [] c.op = "queryByDest" -> history_by_dest[c.id]
      [] c.op = "queryByTime" -> QueryByTime(c.id, c.to)
      [] c.op = "countTransactionsPerWindow" -> CountPerWindow(c.id, c.to)
      [] OTHER -> Recent(c.amount)

Read(t) ==
    /\ pc[t] = "read"
    /\ answer' = [answer EXCEPT ![t] = QueryAnswer(call[t])]
    /\ record_mtx' = Unshare(record_mtx, t)
    /\ Respond(t, Reply("records"))
    /\ GoTo(t, "return")
    /\ UNCHANGED <<accounts, bank_mtx, mtx, now, next_tx_id, ledger,
                   made, call, stamp, tx_id>>

-----------------------------------------------------------------------------
(***************************************************************************)
(* Bank::openAccount, with bank_mtx to itself.  The counter of Bank gives  *)
(* an id nobody has; the customer may be unknown, and then 0 is answered.  *)
(* When AccountIds are used up (a bound) every customer is unknown.        *)
(***************************************************************************)
OwnBank(t) ==
    /\ pc[t] = "owner"
    /\ CanOwn(bank_mtx)
    /\ bank_mtx' = Own(bank_mtx, t)
    /\ GoTo(t, "open")
    /\ UNCHANGED <<accounts, mtx, now, next_tx_id, record_mtx, ledger,
                   made, call, reply, stamp, tx_id, answer>>

OpenAccount(t) ==
    /\ pc[t] = "open"
    /\ \/ \E a \in AccountIds \ DOMAIN accounts :
            /\ accounts' = Put(accounts, a, NewAccount(call[t].id))
            /\ Respond(t, Value(a))
       \/ UNCHANGED accounts /\ Respond(t, Value(0))
    /\ bank_mtx' = Disown(bank_mtx)
    /\ GoTo(t, "return")
    /\ UNCHANGED <<mtx, now, next_tx_id, record_mtx, ledger,
                   made, call, stamp, tx_id, answer>>

-----------------------------------------------------------------------------
\* The scopes end: the account locks are released, and the bank's after them.
Return(t) ==
    /\ pc[t] = "return"
    /\ mtx' = Unlocked(t)
    /\ bank_mtx' = Unshare(bank_mtx, t)
    /\ GoTo(t, "idle")
    /\ UNCHANGED <<accounts, now, next_tx_id, record_mtx, ledger,
                   made, call, reply, stamp, tx_id, answer>>

\* The steps of a call that has begun.
Step(t) ==
    \/ LockBank(t) \/ Check(t)
    \/ LockAccount(t) \/ TryOther(t) \/ BackOff(t)
    \/ Decide(t) \/ Apply(t) \/ CreditDest(t)
    \/ Stamp(t) \/ TakeId(t)
    \/ LockRecords(t) \/ StoreRecord(t) \/ IndexRecord(t)
    \/ LockForQuery(t) \/ Read(t)
    \/ OwnBank(t) \/ OpenAccount(t)
    \/ Return(t)

\* Every script has run to its end: the one way to stop that is not a deadlock.
Done ==
    /\ \A t \in Threads : pc[t] = "idle" /\ made[t] = Len(Script[t])
    /\ UNCHANGED vars

Next == (\E t \in Threads : Invoke(t) \/ Step(t)) \/ Done

Spec == Init /\ [][Next]_vars
=============================================================================
