----------------------- MODULE TransactionProperties ------------------------
(***************************************************************************)
(* What TransactionManager must keep true whatever its clients do and      *)
(* however their calls interleave.                                         *)
(***************************************************************************)
EXTENDS TransactionManager, FiniteSetsExt, SequencesExt

-----------------------------------------------------------------------------
(***************************************************************************)
(* Types.                                                                  *)
(***************************************************************************)
Stored == DOMAIN transactions

Places == {"idle", "bank", "check", "lock", "try", "decide", "apply", "credit",
           "stamp", "id", "record", "store", "index", "query", "read",
           "owner", "open", "return"}

Records == [timestamp : Times, src_id : AccountIds \cup {0},
            dest_id : AccountIds \cup {0}, amount : Balances,
            status : ReplyStatus]

\* The map of accounts holds accounts under the ids in use.
AccountsOK ==
    /\ DOMAIN accounts \subseteq AccountIds
    /\ accounts \in [DOMAIN accounts -> Accounts]

\* Every variable holds a value of its C++ type: a balance fits an int64_t, a
\* history holds transaction ids, a mutex belongs to one thread or to none; and
\* the recent feed never grows past its capacity.
TypeOK ==
    /\ AccountsOK
    /\ bank_mtx \in Locks
    /\ mtx \in [AccountIds -> Threads \cup {NoThread}]
    /\ record_mtx \in Locks
    /\ Stored \subseteq TxIds
    /\ transactions \in [Stored -> Records]
    /\ recent_feed \in Seq(TxIds) /\ Len(recent_feed) <= recent_capacity
    /\ index_by_time \in [Times -> Seq(TxIds)]
    /\ history_by_src \in [AccountIds -> Seq(TxIds)]
    /\ history_by_dest \in [AccountIds -> Seq(TxIds)]
    /\ now \in Times
    /\ next_tx_id \in TxIds
    /\ pc \in [Threads -> Places]
    /\ made \in [Threads -> Nat]
    /\ call \in [Threads -> CallRecords]
    /\ reply \in [Threads -> Replies]
    /\ stamp \in [Threads -> Times]
    /\ tx_id \in [Threads -> Nat]

-----------------------------------------------------------------------------
(***************************************************************************)
(* Money.                                                                  *)
(***************************************************************************)
\* A transfer has debited its source and not yet credited its destination.
InFlight(t) == IF pc[t] = "credit" THEN call[t].amount ELSE 0

\* The money the bank holds for all its customers.
Total ==
    SumFunction([a \in DOMAIN accounts |-> accounts[a].balance])
      + SumFunction([t \in Threads |-> InFlight(t)])

\* Only deposits and withdrawals change the bank's total, by their own amount:
\* no interleaving of transfers creates or destroys money (executeTransfer
\* checks the balance, then calls debit() and credit() and looks at neither
\* answer).
MoneyOnlyMoves ==
    [][\/ Total' = Total
       \/ \E t \in Threads :
            /\ pc[t] = "apply"
            /\ \/ call[t].op = "deposit" /\ Total' = Total + call[t].amount
               \/ call[t].op = "withdraw" /\ Total' = Total - call[t].amount
      ]_vars

\* A call is at work on its accounts between the checks and the last change.
AtWork(t) == pc[t] \in {"decide", "apply", "credit"}

\* The places of a call that works on the bank's map of accounts: from the
\* search for an account to the end of the scope that holds bank_mtx.
InBank(t) ==
    \/ pc[t] \in {"check", "lock", "try", "decide", "apply", "credit", "stamp",
                   "id", "record", "store", "index"}
    \/ pc[t] = "return" /\ call[t].op \in Op

\* No two calls are ever at work on the same account, no call writes records
\* while another writes or reads them, and no account is opened while another
\* call has an iterator into the map of accounts: what the mutex of an Account,
\* record_mtx and bank_mtx are there for.
MutualExclusion ==
    \A t, u \in Threads : t # u =>
      /\ AtWork(t) /\ AtWork(u) => Ends(call[t]) \cap Ends(call[u]) = {}
      /\ pc[t] \in {"store", "index"} => pc[u] \notin {"store", "index", "read"}
      /\ pc[t] = "open" => pc[u] # "open" /\ ~InBank(u)

\* What a call decided with its accounts locked is still right when it acts on
\* it: nothing it looked at has changed in between, and the account a transfer
\* credits has not been closed since it was looked at.
DecisionStillRight ==
    \A t \in Threads :
      /\ pc[t] = "apply" => reply[t] = Verdict(call[t])
      /\ pc[t] = "credit" => accounts[call[t].to].state # "CLOSED"

\* A call that was told an account does not exist is told the truth until it
\* returns: openAccount does not add the account between the search for it and
\* the answer, nor before the record of a transfer says that it was missing.
MissingStaysMissing ==
    \A t \in Threads :
      InBank(t) /\ reply[t].status = "FAILED_ACCOUNT_NOT_FOUND" =>
        \E a \in Ends(call[t]) : Missing(a)

\* The assumption under which sums of money are sums of numbers: no credit that
\* is about to happen exceeds what an int64_t holds.  The code does not test it; it
\* is so as long as no more than that was ever paid in, because no interleaving of
\* withdrawals and transfers gathers more money than there is.
CreditFits ==
    \A t \in Threads :
      /\ pc[t] = "apply" /\ call[t].op = "deposit" =>
           accounts[call[t].id].balance + call[t].amount <= IntMax
      /\ pc[t] = "credit" =>
           accounts[call[t].to].balance + call[t].amount <= IntMax

\* The assumption under which the histories tell the balances: a record of a
\* withdrawal names the account as its destination, as that of a deposit does.
NothingWithdrawn ==
    \A t \in Threads : ~(pc[t] = "apply" /\ call[t].op = "withdraw")

\* No account is overdrawn, whatever withdrawals and transfers race for its
\* balance after their checks.
NoOverdraft == \A a \in DOMAIN accounts : accounts[a].balance >= 0

\* A closed account is empty: no credit that was decided before the account
\* closed lands in it after (executeCloseAccount asks for a balance of zero).
ClosedIsEmpty ==
    \A a \in DOMAIN accounts :
      accounts[a].state = "CLOSED" => accounts[a].balance = 0

\* Which operation makes which transition of an account.
Arrows ==
    {<<"deposit", "PENDING", "ACTIVE">>, <<"freeze", "ACTIVE", "FROZEN">>,
     <<"unfreeze", "FROZEN", "ACTIVE">>, <<"close", "ACTIVE", "CLOSED">>,
     <<"close", "FROZEN", "CLOSED">>}

\* The state machine of an account, whatever calls race for it: a pending
\* account is opened by a deposit to it and by nothing else, only a freeze
\* freezes and only an unfreeze undoes it, closed accounts stay closed, and
\* nothing becomes pending again.
Lifecycle ==
    [][\A a \in DOMAIN accounts :
         accounts'[a].state # accounts[a].state =>
           \E t \in Threads :
             /\ pc[t] = "apply" /\ call[t].id = a
             /\ <<call[t].op, accounts[a].state, accounts'[a].state>> \in Arrows]_vars

(***************************************************************************)
(* Every call takes effect at one moment.  A transfer in flight has not    *)
(* happened yet: its source still holds the amount, its answer is not      *)
(* given.                                                                  *)
(***************************************************************************)
Leaving(a) ==
    \E t \in Threads : pc[t] = "credit" /\ call[t].id = a

LeavingAmount(a) ==
    IF Leaving(a)
    THEN call[CHOOSE t \in Threads : pc[t] = "credit" /\ call[t].id = a].amount
    ELSE 0

CONSTANT NoCall

ASSUME NoCallIsNoCall == NoCall \notin CallRecords

Scripted == UNION {UNION Range(Script[t]) : t \in Threads}

\* The accounts as if no transfer in flight had happened, the calls in progress
\* and the answers that are certain to be given.
SettledAccounts ==
    [a \in DOMAIN accounts |->
       [accounts[a] EXCEPT !.balance = @ + LeavingAmount(a)]]
PendingCalls == [t \in Threads |-> IF pc[t] = "idle" THEN NoCall ELSE call[t]]
AnswersGiven ==
    [t \in Threads |-> IF pc[t] \in {"apply", "credit"} THEN NoReply ELSE reply[t]]

Atomic == INSTANCE AtomicBank WITH
    Calls <- Scripted,
    accounts <- SettledAccounts,
    pending <- PendingCalls,
    answered <- AnswersGiven

\* The execute functions implement the abstract bank: each call takes effect at
\* one moment between its start and its answer, in full or not at all, and its
\* answer is the right one for that moment: a refusal names a reason that is true.
TakesEffectAtomically == Atomic!Spec

-----------------------------------------------------------------------------
(***************************************************************************)
(* Records.                                                                *)
(***************************************************************************)
\* The threads that hold a transaction id and have not stored its record yet.
Writing == {t \in Threads : pc[t] \in {"record", "store"}}

\* No id is lost and none is used twice: each id handed out is either the key
\* of a stored record or in the hands of exactly one thread about to store it
\* (next_tx_id is taken long before record_mtx).
EveryIdAccountedFor ==
    /\ Stored \cup {tx_id[t] : t \in Writing} = 1 .. next_tx_id - 1
    /\ \A t \in Writing :
         /\ tx_id[t] \notin Stored
         /\ \A u \in Writing \ {t} : tx_id[t] # tx_id[u]

\* While nobody writes, the indexes say exactly what the records say: every
\* record is found once under its time, its source and its destination, and
\* queryByTime answers with exactly the records of the range, ends included.
\* Whether the clock was set back in between makes no difference.
IndexesAgree ==
    CanShare(record_mtx) =>
      /\ \A a \in AccountIds :
           /\ IsInjective(history_by_src[a])
           /\ Range(history_by_src[a]) = {i \in Stored : transactions[i].src_id = a}
           /\ IsInjective(history_by_dest[a])
           /\ Range(history_by_dest[a]) = {i \in Stored : transactions[i].dest_id = a}
      /\ \A from \in Times : \A until \in from .. MaxTime :
           LET found == QueryByTime(from, until)
           IN  /\ IsInjective(found)
               /\ Range(found) = {i \in Stored : Timestamp(i) \in from .. until}

Smaller(m, n) == IF m < n THEN m ELSE n

\* The recent feed is the end of the story every account's history tells: it
\* never exceeds its capacity, never evicts early, holds no record twice, and
\* where it keeps a record of an account it keeps every later one of that
\* account's history behind it.
FeedIsRecent ==
    CanShare(record_mtx) =>
      /\ Len(recent_feed) = Smaller(Cardinality(Stored), recent_capacity)
      /\ IsInjective(recent_feed)
      /\ \A a \in AccountIds : \A history \in {history_by_src[a], history_by_dest[a]} :
           \A i, j \in 1 .. Len(history) : \A p \in 1 .. Len(recent_feed) :
             i < j /\ recent_feed[p] = history[i] =>
               \E q \in p + 1 .. Len(recent_feed) : recent_feed[q] = history[j]

\* A record written with the accounts' locks held: all of them but those of
\* transfers that name an account that does not exist.
Locked(id) == transactions[id].status # "FAILED_ACCOUNT_NOT_FOUND"

InTimeOrder(s) ==
    \A i, j \in 1 .. Len(s) : i < j => Timestamp(s[i]) <= Timestamp(s[j])

ClockMaySetBack == \E d \in ClockSteps : d < 0

\* The records written under an account's lock stand in its history in the
\* order in which the calls took effect: place and id agree, because the record
\* is written before the lock is released, and so does the timestamp unless the
\* clock was set back (system_clock is not steady).
LockedHistoryInOrder ==
    \A a \in AccountIds : \A history \in {history_by_src[a], history_by_dest[a]} :
      \A i, j \in 1 .. Len(history) :
        i < j /\ Locked(history[i]) /\ Locked(history[j]) =>
          /\ history[i] < history[j]
          /\ Timestamp(history[i]) <= Timestamp(history[j]) \/ ClockMaySetBack

\* queryByAccount lists every record of an account once and keeps the order of
\* each of its two histories, even where a clock that was set back left them out
\* of time order; where both are in time order its answer is.
MergeKeepsHistories ==
    CanShare(record_mtx) =>
      \A a \in AccountIds :
        LET merged == QueryByAccount(a)
            sides == {history_by_src[a], history_by_dest[a]}
        IN  /\ Len(merged) = Len(history_by_src[a]) + Len(history_by_dest[a])
            /\ Range(merged) = UNION {Range(side) : side \in sides}
            /\ \A side \in sides : \A i, j \in 1 .. Len(side) : i < j =>
                 \E p, q \in 1 .. Len(merged) :
                   p < q /\ merged[p] = side[i] /\ merged[q] = side[j]
            /\ (\A side \in sides : InTimeOrder(side)) => InTimeOrder(merged)

\* The counts by definition: a bucket every step ticks from the first record to
\* the last, and the records in each from its start to its end, both included.
CountsByDefinition(window, step) ==
    LET times == {Timestamp(i) : i \in Stored}
        bucket(k) == Min(times) + (k - 1) * step
    IN  [k \in 1 .. (Max(times) - Min(times)) \div step + 1 |->
           Cardinality({i \in Stored :
                          Timestamp(i) \in bucket(k) .. bucket(k) + window})]

\* The two pointers of countTransactionsPerWindow, which never go back, count
\* every window right: windows that overlap, windows that leave gaps, records of
\* equal times, and records that a clock set back put before older ones.
WindowCountsRight ==
    CanShare(record_mtx) /\ Stored # {} =>
      \A window, step \in 1 .. MaxTime + 1 :
        CountPerWindow(window, step) = CountsByDefinition(window, step)

\* A client that has just been answered finds its own transaction when it asks:
\* the record is complete, in every index, before the call returns.  The recent
\* feed may leave it out for newer ones, of which it then gives all it can.
Asked(t, op) == pc[t] = "return" /\ call[t].op = op

ReadYourWrites ==
    \A t \in Threads : tx_id[t] # 0 =>
      LET mine == transactions[tx_id[t]]
      IN  /\ Asked(t, "queryByAccount") /\ call[t].id \in {mine.src_id, mine.dest_id}
               => Contains(answer[t], tx_id[t])
          /\ Asked(t, "queryBySrc") /\ call[t].id = mine.src_id
               => Contains(answer[t], tx_id[t])
          /\ Asked(t, "queryByDest") /\ call[t].id = mine.dest_id
               => Contains(answer[t], tx_id[t])
          /\ Asked(t, "getRecentTransactions") /\ ~Contains(answer[t], tx_id[t])
               => Len(answer[t]) = Smaller(call[t].amount, recent_capacity)

Successful(history) ==
    {i \in Range(history) : transactions[i].status = "SUCCESS"}

Amounts(ids) == SumFunction([i \in ids |-> transactions[i].amount])

\* The books balance: what an account received less what it sent, over its
\* successful records, is what it holds whenever no call has it locked.
BooksBalance ==
    \A a \in DOMAIN accounts :
      Available(a) =>
        accounts[a].balance = Amounts(Successful(history_by_dest[a]))
                                - Amounts(Successful(history_by_src[a]))

-----------------------------------------------------------------------------
(***************************************************************************)
(* What the documentation says of the records and the code does not do.    *)
(***************************************************************************)
\* "No Silent Failures: Every operation - even failed ones - produces a
\* TransactionRecord" (README.md): a call that changes accounts or was refused
\* leaves a record behind by the time it returns.
NoSilentFailures ==
    \A t \in Threads :
      pc[t] = "return" /\ call[t].op \in {"deposit", "withdraw", "transfer"} =>
        tx_id[t] \in Stored

\* "Combines source and destination results, sorted by timestamp" (README.md):
\* the answer of queryByAccount is in time order.
AccountHistorySorted ==
    \A t \in Threads : Asked(t, "queryByAccount") => InTimeOrder(answer[t])

\* "PENDING - A fresh account. The only thing you can do is deposit at least
\* 500 to activate it" (README.md): a pending account holds no money.
PendingIsEmpty ==
    \A a \in DOMAIN accounts :
      accounts[a].state = "PENDING" => accounts[a].balance = 0

-----------------------------------------------------------------------------
(***************************************************************************)
(* Progress.                                                               *)
(***************************************************************************)
\* The call of t waits for a lock another call holds.
Blocked(t) ==
    \/ pc[t] = "bank" /\ ~CanShare(bank_mtx)
    \/ pc[t] = "lock" /\ \A a \in Ends(call[t]) : ~Available(a)
    \/ pc[t] = "try" /\ (\A a \in Ends(call[t]) : ~Available(a)) /\ ~GivesUp(t)
    \/ pc[t] = "record" /\ ~CanOwn(record_mtx)
    \/ pc[t] = "query" /\ ~CanShare(record_mtx)
    \/ pc[t] = "owner" /\ ~CanOwn(bank_mtx)

\* The calls in progress never all wait for each other: account locks are
\* taken before record_mtx, and no call waits for a second account lock while
\* it holds one.
NoDeadlock ==
    (\E t \in Threads : pc[t] # "idle") =>
      \E t \in Threads : pc[t] # "idle" /\ ~Blocked(t)

(***************************************************************************)
(* Every thread that can run does run.  Two transfers in opposite          *)
(* directions may take one mutex each, fail on the other's and start over; *)
(* strong fairness of TryOther says that they do not fall into step for    *)
(* ever.                                                                   *)
(***************************************************************************)
Fairness == \A t \in Threads : WF_vars(Step(t)) /\ SF_vars(TryOther(t))

FairSpec == Spec /\ Fairness

\* Every call returns, whoever competes for its locks.
EveryCallReturns ==
    \A t \in Threads : pc[t] # "idle" ~> pc[t] = "idle"
=============================================================================
