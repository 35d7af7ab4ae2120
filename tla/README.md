# BankingSystem in TLA+

A verification development of the C++ banking system in `../src`: TLA+ modules
translated from its code, TLC configurations that check them on small instances,
and theorems that TLAPS proves for every value of the constants. Paths such as
`TransactionManager.cpp:429` are relative to `src/src` (`src/include` for `.h`).

## 1. The system

The program is a desktop application. A Qt window (GUI thread) sends requests to a
`BackendWorker` on a thread of its own; the worker calls one `Bank`; the bank routes
every operation on accounts to its `TransactionManager`; the manager changes
`Account` objects and keeps a `TransactionRecord` of what it did.

| Part | State it keeps | Operations | Talks to |
|---|---|---|---|
| `Account` | balance, state, owner; a `std::mutex` its friend takes | debit, credit, freeze, unfreeze, close, getters | called by TransactionManager with the mutex held |
| `TransactionManager`, operations | none of its own: it refers to the bank's map of accounts and `bank_mtx` | nine `execute...` functions | `bank_mtx` shared, then the account mutexes, then `record_mtx` |
| `TransactionManager`, record store | `transactions`, `recent_feed`, `index_by_time`, `history_by_src`, `history_by_dest`, `next_tx_id`, `record_mtx` | `writeRecord`, six queries | `writeRecord` by the operations; queries by any client, under `record_mtx` alone |
| `Bank` | accounts, customers, national ids, lazily sorted name index, `bank_mtx`, id counters | register, open account, prefix search, lookups; routers | `bank_mtx` exclusively for the first three, shared for lookups |
| `Customer` | name, national id, account ids | addAccountID, removeAccount, getters | called by Bank |
| `BackendWorker` | the bank | one slot per request, each emitting one answer | queued signals in both directions: first in, first out |
| `SessionManager`, `MainWindow`, `LoginScreen` | who is logged in, which screen is shown | enterAdmin, enterCustomerSession, logout | answers of `onLookupCustomer` open customer sessions |
| Dashboards | copies of the data last received | request and show | both dashboards are connected to the same answers |
| Table models, `main.cpp` | rows to draw | formatting | none |

### What is hard about it

* **Threads.** The classes are written for concurrent callers: a readers-writer lock
  in front of the bank, a mutex per account, a readers-writer lock in front of the
  records, atomic id counters. The repository's README (line 25) says why: "so they
  stay consistent if the program ever runs in a multi-threaded environment", and the
  CMake project is named ConcurrentBankingSystem. The shipped window calls them from
  one worker thread; the model has any number of client threads, which is what the
  locks are there for and what a test of this code would hardly reach.
* **Check, then act.** Every operation tests the state and balance of its accounts
  and acts afterwards; a transfer ignores the answers of `debit()` and `credit()`.
* **Order.** Timestamp, transaction id and place in the histories are taken at three
  different moments. What makes them agree is the account's mutex, and one path,
  a transfer that names a missing account, records without it.
* **Several containers, one truth.** `writeRecord` updates five containers.
* **Deadlock and waiting.** A transfer takes two mutexes in no fixed order with
  `std::scoped_lock`, and then `record_mtx` while holding both.
* **Limits.** The feed's capacity; the inclusive end of a time range; the width of
  a balance; overlapping windows counted with two pointers that only move forward.
* **The clock.** Timestamps come from `system_clock`, which may be set back.
* **Asynchronous answers.** An answer can arrive after the session it was requested
  for has ended, or inside a handler that waits for a message box.
* **Lazy data.** The name index is sorted by the first search after a registration;
  the dashboards show copies of what the bank said when it was last asked.

There are no crashes to recover from (nothing is persisted), no lost or duplicated
messages (queued signals between two threads of one process) and no timeouts.
`PROJECT.json` lists every hazard with its line and the properties that cover it.

### What makes each part correct

* Account: never overdrawn; the state machine is followed; a closed account is empty.
* Operations: each call takes effect at one moment, in full or not at all, with the
  right answer for that moment; money only moves; no deadlock; every call returns.
* Record store: no record lost, no id used twice; indexes and records say the same;
  an account's history is in the order in which calls took effect; the feed is its
  most recent part; the books balance; a client finds its own transaction; merging two
  histories loses nothing; windowed counts count what they say.
* Bank: every registry call takes effect at one moment, with the right answer for that
  moment; one customer per national id; every account is in exactly its owner's list;
  a prefix search finds exactly the names that start with the prefix; the map of
  accounts does not move under an operation that points into it.
* Desktop: a customer pays from its own accounts only; when nothing is under way, what
  is shown is current and belongs to who is logged in; every login is answered; rows are
  never replaced by older ones; every transaction is on its customer's page once, and
  the totals are the bank's money.

## 2. Modules

| Module | Models | Size of a step |
|---|---|---|
| `Account` | `Account.cpp`: accounts as records, methods as functions on them | |
| `SharedMutex` | `std::shared_mutex`: readers and writer | |
| `Ledger` | the record store: state, lock, `writeRecord`, six queries | parameterised by thread and record |
| `TransactionManager` | the nine `execute...` functions, the queries and `Bank::openAccount`, composed of the three above, run by concurrent clients | one step per lock, per access to shared state, per scope left |
| `AtomicBank` | the abstract specification: what a bank promises its callers | one step per call |
| `TransactionProperties` | invariants, action properties, refinement mapping, fairness, liveness | |
| `Displays` | what `BackendWorker` puts together from several calls and the dashboards add up, with its properties | functions of a state |
| `MC_Transactions` | instances for TLC | |
| `TransactionProofs` | theorems: types, locks, decisions, life cycle | |
| `AtomicityProofs` | theorem: the operations implement `AtomicBank` | |
| `RecordProofs` | theorems about the indexes, histories, feed and queries | |
| `SumProofs` | lemmas: what a sum over a finite set does when one value changes | |
| `MoneyProofs` | theorems about sums of money, and about `Displays` | |
| `Bank` | the registry of `Bank.cpp` and `Customer.cpp`: registering, opening, lookups, the name index, the routed operations as readers of `bank_mtx` | one step per lock, per container changed |
| `AtomicRegistry` | the abstract specification of the registry: customers and owners, numbered as they are made | one step per call |
| `BankProperties`, `MC_Bank` | its properties, the refinement mapping and instances | |
| `BankProofs`, `RegistryProofs` | its theorems; that it implements `AtomicRegistry` | |
| `Desktop` | `SessionManager`, `MainWindow`, `LoginScreen`, both dashboards, `BackendWorker`: two queues, the session, what the widgets hold | one step per click, per request served, per answer delivered |
| `DesktopProperties`, `MC_Desktop` | its properties and instances | |
| `DesktopProofs` | its theorems | |

The three state machines meet at narrow interfaces. `Bank` and `TransactionManager`
share `bank_mtx` and the map of accounts: `Bank` has the registry with the routed
operations reduced to readers of the lock, `TransactionManager` has the operations with
the one call that changes the map under them, `openAccount`, as a client call of its own
(its customer is taken as given; whether there is such a customer is `Bank`'s business).
`Desktop` calls the bank from one thread, so a slot of the worker is one step there; that
calls are atomic to their callers is what `TakesEffectAtomically` and `RegistryIsAtomic`
show. `Displays` looks at `TransactionManager` with the worker's eyes: slots that make
several calls in a row, with nobody else calling in between, are functions of the state.

### How the state corresponds

`accounts` is `Bank::accounts` (balance, state and owner; the account id is the key).
`bank_mtx` and `record_mtx` are records of the set of readers and of the writer,
`mtx[a]` is the owner of the account's mutex. `transactions`, `recent_feed`,
`history_by_src`, `history_by_dest` and `next_tx_id` are the members of the same
names; a history holds transaction ids, as in the code, and the feed holds the ids of
the records it copies (a stored record never changes). `index_by_time` is a multimap:
one sequence per timestamp, in insertion order, which is how `std::multimap` keeps
equal keys. `now` is `system_clock`: a stamp reads it after it moved by a member of
`ClockSteps`, a constant, which has negative members where the clock may be set back.

`pc[t]` is the place thread `t` has reached in its call; `call`, `reply`, `stamp` and
`tx_id` are the call's arguments and locals, `answer` what a query returned. `made`
counts the calls of the thread's script. The functions share one path,

    idle -> bank -> check -> lock (-> try) -> decide -> apply (-> credit)
         -> stamp -> id -> record -> store -> index -> return -> idle
    idle -> query -> read -> return -> idle
    idle -> owner -> open -> return -> idle

because the code does: shared lock, tests that need no account (`EarlyReply`), account
locks, tests under the locks (`Verdict`), the change (`Apply`, `CreditDest`), the
record (`Stamp`, `TakeId`, then `writeRecord` as `LockRecords`, `StoreRecord`,
`IndexRecord`), and the end of the scopes (`Return`). Each function leaves the path
where its early returns do. `writeRecord` is two steps on purpose: between them a
reader that ignored the lock would see a record missing from the indexes. The last path
is `openAccount`: it waits until no call is in the bank, and no call enters before the
account is in the map.

The mapping to `AtomicBank` undoes what is half done: `SettledAccounts` gives the money of
a transfer in flight back to its source, `PendingCalls` holds a call until it has taken
effect and `AnswersGiven` what it was told. A refusal of the abstract bank carries a code
that is true of the call at that moment (`Reason`: that an account is missing, closed or
frozen, that the balance does not cover the amount); which of several true codes is given
is left to the code. An opening may answer 0 at any moment, since whether the customer is
known is not part of this abstraction: `AtomicRegistry` says when. The merge of `queryByAccount` is given by how
far into the sending side it has come after `n` records (`SrcIndex`, the loop's `src_idx`),
which is the same merge and can be reasoned about; for the same reason `AccountsOf` is the
ascending listing of a customer's accounts, which is the order of its list in the code
because ids grow.

In `Bank`, `customers`, `national_id_to_customer`, `accounts` (of which only the owner
matters), the two id counters, `name_index` and its flag are the members of the same
names. Names are sequences of bytes, compared as unsigned, as `std::string` compares
them; `std::sort` may leave equal names in any order, an unordered map lists its keys in
any order. A binary search ends at the partition point of the index where it has one;
where it has none, as in an index that is not sorted, it may end anywhere, since
`std::lower_bound` and `std::upper_bound` promise nothing then. An operation that is routed to `TransactionManager`
holds its iterator (place `inside`) until it returns. The mapping to `AtomicRegistry` makes
a customer known when its name is in the index and an account when it is in the map, the
last step of its operation under the lock; the index itself has no counterpart.

In `Desktop`, `requests` and `answers` are the event queues of the two threads,
`registered` and `owners` say which customers and accounts the bank has, `filed` each
customer's list of accounts; `session` is `SessionManager`, `combo` is `m_fromAccountCombo`, `shown` the rows in the
models of the two dashboards, `boxes` the open message boxes with the top one first. The
rows are reduced to whose they are and to a version, which grows when the bank's data of
that kind changes. `QMessageBox::information` does not return until it is dismissed but
delivers events meanwhile: `OperationResult` pushes a box and `Dismiss`, which pops it,
is the rest of that handler. Both dashboards get every answer in consecutive events;
the two deliveries are one step, since only the visible one does anything.

`std::scoped_lock` of two mutexes is modelled by the algorithm the standard libraries
use: wait for either, try the other, and on failure release and start over.

Definitions named after another one with a suffix, such as `CanOwn_WithReaders` next
to `CanOwn`, are not part of the model: each is that definition with one plausible
bug, and the property listed with it in `PROJECT.json` fails once it takes the
definition's place. They show that every property can notice something.

### Choices and abstractions

* Formatting and logging are left out, and so are names outside `Bank`. Amounts, ids
  and times are small integers.
* A call that releases its locks does so in one step (`Return`). Between releasing an
  account's mutex and leaving `bank_mtx`, the code lets other calls take the account but
  still keeps `openAccount` out; neither sees anything of the call that is ending, which
  touches nothing more.
* In `Desktop` a transaction or an account operation that the bank could do may succeed
  or fail: which of the two is `TransactionManager`'s business. Closed accounts, which
  `onRequestAllAccounts` leaves out, are part of the version.
* `removeAccount` and `setName` of `Customer` have no caller and are left out.
* Closing the window ends the worker's loop and drops the requests still queued; with
  the process goes the bank, so there is nothing left to be wrong about.
* Signed overflow in `credit()` is undefined in C++. `Account.cpp` is compiled on its
  own, so the addition wraps: `Wrap`. `IntMax` is a constant.
* Two records get timestamps that differ by a member of `ClockSteps`: 0 or 1 in most
  runs, anything in `clock`.
* The page of a customer's transactions is sorted by `std::sort` after it is gathered;
  the sorting is left out, and so is the limit of 200 of the administrator's.
* Arguments a caller cannot give are excluded by the assumption `ScriptsAreCalls`, and so
  is a time range whose end is before its start: `queryByTime` would iterate past the end
  of the map, nothing in the program passes it a range, and nothing says what is meant. Ids
  that name no account, and non-positive amounts, are included.

## 3. What is checked

Clients follow scripts: `Script[t][n]` is the set of calls thread `t` may make as its
n-th, so a run covers every choice and every interleaving. Accounts 1 and 2 are open
(pending, empty) at the start, account 3 once a client opens it, where one does. `MinDeposit` is 2 (500 in the
code: only its comparison with an amount matters), the feed keeps 2 records.

| Run | Specification | What it shows |
|---|---|---|
| `money` | `Spec`, 2 clients, 3 calls each | `TakesEffectAtomically` (the system implements `AtomicBank`), `MoneyOnlyMoves`, `NoOverdraft`, `CreditFits`, `ClosedIsEmpty`, `DecisionStillRight`, `MissingStaysMissing`, `TotalsAddUp`, `Lifecycle` |
| `records` | `Spec`, 2 clients, 3 calls each, 2 clock values | `TypeOK`, `EveryIdAccountedFor`, `IndexesAgree`, `FeedIsRecent`, `LockedHistoryInOrder`, `ReadYourWrites`, `BooksBalance`, `StatementIsComplete` |
| `clock` | `Spec`, 2 clients, a clock set to any of 4 values between two records | `IndexesAgree`, `MergeKeepsHistories`, `WindowCountsRight` |
| `progress` | `FairSpec`, 3 clients | `NoDeadlock`, `MutualExclusion`, `EveryCallReturns` |
| `silent_failures` | `Spec` | violated: `NoSilentFailures` |
| `account_history_order` | `Spec` | violated: `AccountHistorySorted` |
| `pending_money` | `Spec` | violated: `PendingIsEmpty` |
| `withdrawal_books` | `Spec` | violated: `BooksBalance` with successful withdrawals |
| `registry` | `Spec` of `Bank`, 3 clients | `RegistryIsAtomic` (it implements `AtomicRegistry`), `TypeOK`, `NationalIdsUnique`, `AccountsFiled`, `SearchIsExact`, `IteratorsStayValid` |
| `unicode_names` | `Spec` of `Bank` | violated: `SearchIsExact` for a name outside ASCII |
| `desktop` | `FairSpec` of `Desktop`, 8 clicks | `TypeOK`, `SelectableIsOwned`, `AdminSeesEverything`, `BalancesAreCurrent`, `RowsNeverOlder`, `LoginAnswered` |
| `my_accounts` | `Spec` of `Desktop`, 5 clicks | violated: `MyAccounts` |

TLC also looks for deadlocks in the runs of `TransactionManager` and `Bank`; the only
states without a step are those where all scripts have ended, which `Done` marks. The
user of the desktop may stop at any time, so its runs have no deadlock check.

### Why the bounds are enough

* Two clients: every lock protects against one other holder, and every race in the
  code is between a call and one other. Three clients in `progress`: a cycle of waits
  over two accounts and `record_mtx`, and a reader that keeps a writer out.
* Three calls each: a call that opens an account, one that changes it, and one that
  observes or closes it. `MoneyScript` has transfers in both directions, closing and
  freezing against transfers into and out of the same account, amounts equal to,
  below and above the balance, and calls refused at every test.
* Two accounts open and one missing: both ends of a transfer, and the early return.
  Opening the third races the calls that name it, so that a call may miss it, find it, or
  be told that it is missing while `openAccount` waits.
* `MaxTime` 1: two records with equal and two with different timestamps; 0 where time
  does not matter. `clock` has four times and up to four records at any of them, so that
  histories are in any order and gaps lie between buckets; every reachable store is
  counted with every window and step up to the range of times, overlapping and apart. `recent_capacity` 2: up to four records, so the feed evicts twice.
* `registry`: three clients, because two registrations of one national id race and a
  third searches or holds an iterator. Four names, two of them with a common prefix and
  different cases; up to four entries in the index, so a range starts and ends inside it; a
  registration after a search, so the index is sorted more than once. Ids nobody has are
  asked for too.
* `desktop`: eight clicks are an administrator who registers two customers and opens an
  account, a logout, and then two logins that overlap and a click in the last session, or
  one login, a logout and the administrator again while the customer's rows are still on
  their way. The worker may be any number of steps behind, so every overlap of queues,
  boxes and clicks occurs.
* `progress`: the clients may fund their accounts first, so that transfers in opposite
  directions are refused in some runs and debit and credit in others.
* `IntMax` in `money` is 7, which is all that its script may deposit, and a balance of 7
  is reached: a credit that finds more than was paid in, because a call acted on an account
  it had not locked, wraps at once and `NoOverdraft` and `CreditFits` see it. In the other
  runs it is 100 and never reached. What happens when more is deposited than an `int64_t`
  holds is the subject of an assumption, not of a run (see section 4).

### Fairness

`FairSpec` adds weak fairness of the steps of each thread: a thread that stays able
to run runs. Nothing is assumed of the step that begins a call. Two transfers in
opposite directions may each take one mutex, fail on the other and start over, in
step; strong fairness of `TryOther` says that this does not repeat for ever, which
holds of threads on a real machine and which `std::scoped_lock` relies on too. The
scripts are finite, so the run does not show that a writer wins `record_mtx` against
an endless stream of readers: `std::shared_mutex` does not promise it.

In `Desktop`, `FairSpec` is weak fairness of the worker and of the window's event loop:
both threads run `exec()` of a loop that takes the next event. Nothing is assumed of the
user, who may leave a box open for ever: `LoginAnswered` holds all the same, for every
national id that may be typed, whichever other logins are under way.

### Findings

1. **Failures without a record.** `executeDeposit` and the others return before any
   record is made for bad amounts, equal ends and, except in a transfer, missing
   accounts. The README (line 244) promises a record for every operation.
2. **Account history out of order.** A transfer to a missing account takes its
   timestamp and writes its record without the source's mutex. Another transfer of
   the same source can be stamped later and stored earlier; `queryByAccount` merges
   two histories it takes to be sorted and its answer is not sorted (line 266 says
   it is). `LockedHistoryInOrder` shows that all other records are in order.
3. **Money in pending accounts.** A transfer may credit a pending account, with any
   amount, and leaves it pending. The README (line 81) allows nothing but the first
   deposit of the minimum.
4. **Withdrawals look like deposits.** A withdrawal is recorded with its account as
   destination and no source, so `history_by_src` misses it (lines 264-265) and
   received less sent does not give the balance. `AuditLogModel.cpp:74` has a colour for
   amounts with a source and no destination, which no record ever has. `records` shows that the books do
   balance as long as no withdrawal succeeds.
5. **Names outside ASCII.** `searchCustomerPrefix` ends its range at the prefix followed
   by byte 0x7F. Every byte of a UTF-8 character outside ASCII is above it, so "Al" does
   not find "Alí". For names in ASCII `registry` shows that the search is exact.
6. **Everybody's rows on "My Accounts".** Log in, and enter the admin panel before the
   answer; if the box of an earlier admin operation opens before it too, the session
   starts under the box. Dismissing it asks for all data, and the customer's page, which
   is visible now, takes it. `MyAccounts` fails, and stays so until the next refresh.
   What the window shows is still current (`BalancesAreCurrent`).

The documents differ from the code in two more places, where the code is right and no run
is needed to see it:

* The flowchart of the README (lines 232 and 234) unlocks the accounts before the record is
  saved. The code saves it with the accounts locked, and has to: `Stamp_Unlocked`, which
  does as the flowchart says, breaks `LockedHistoryInOrder`.
* The README (line 258), and a comment at `TransactionManager.cpp:175`, say that a
  transfer locks the account with the smaller id first. `std::scoped_lock` takes either
  first and backs off, as the README says at line 245; `NoDeadlock` and
  `EveryCallReturns` are checked for that.

## 4. What is proved

TLAPS proves, for any threads, accounts, scripts and bounds, every safety invariant and
action property the passing runs check, and that the two detailed state machines of the
bank implement their abstract ones. The only limits are
the assumptions and hypotheses below.

| Theorem | Module | States |
|---|---|---|
| `TypeCorrect` | `TransactionProofs` | `Spec => []TypeOK` |
| `MutualExclusionHolds` | | `Spec => []MutualExclusion` |
| `DeadlockFree` | | `Spec => []NoDeadlock` |
| `IdsAccountedFor` | | `Spec => []EveryIdAccountedFor` |
| `DecisionsHold` | | `Spec => []DecisionStillRight` |
| `MissingHolds` | | `Spec => []MissingStaysMissing` |
| `LifecycleHolds` | | `Spec => Lifecycle` |
| `ClosedStaysEmpty` | | `Spec => []ClosedIsEmpty` |
| `NoOverdraftHolds` | | `Spec /\ []CreditFits => []NoOverdraft` |
| `OperationsAreAtomic` | `AtomicityProofs` | `Spec /\ []CreditFits => TakesEffectAtomically` |
| `IndexesAlwaysAgree` | `RecordProofs` | `Spec => []IndexesAgree` |
| `HistoriesInOrder` | | `Spec => []LockedHistoryInOrder` |
| `FeedStaysRecent` | | `Spec => []FeedIsRecent` |
| `MergesKeepHistories` | | `Spec => []MergeKeepsHistories` |
| `ClientsReadTheirWrites` | | `Spec => []ReadYourWrites` |
| `WindowsAreCounted` | | `Spec => []WindowCountsRight` |
| `MoneyIsConserved` | `MoneyProofs` | `Spec /\ []CreditFits => MoneyOnlyMoves` |
| `BooksAreBalanced` | | `Spec /\ []CreditFits /\ []NothingWithdrawn => []BooksBalance` |
| `TotalsAreRight` | | `Spec => []TotalsAddUp` |
| `StatementsAreComplete` | | `Spec => []StatementIsComplete` |
| `RegistryInvariant` | `BankProofs` | `Spec => []BankInv` |
| `RegistryTypes` | | `Spec => []TypeOK` |
| `OneCustomerPerNationalId` | | `Spec => []NationalIdsUnique` |
| `AccountsAreFiled` | | `Spec => []AccountsFiled` |
| `IteratorsAreSafe` | | `Spec => IteratorsStayValid` |
| `SearchesAreExact` | | `AsciiNames /\ Spec => []SearchIsExact` |
| `RegistryImplementsAtomic` | `RegistryProofs` | `AsciiNames /\ Spec => RegistryIsAtomic` |
| `DesktopInvariant` | `DesktopProofs` | `Spec => []DesktopInv` |
| `DesktopTypes` | | `Spec => []TypeOK` |
| `OwnAccountsOnly` | | `Spec => []SelectableIsOwned` |
| `AdministratorSeesAll` | | `Spec => []AdminSeesEverything` |
| `ShownBalancesAreCurrent` | | `Spec => []BalancesAreCurrent` |
| `NeverOlderRows` | | `Spec => RowsNeverOlder` |

### Assumptions and hypotheses

The constants' assumptions are `ConstantsAreAmounts` (the minimum deposit is positive
and a balance can hold it), `LedgerConstants` (account ids are positive, the feed has
room for one record, the clock may stand still), `ThreadsDistinct`, `ScriptsAreCalls`,
`RegistryScripts` and `UserScript` (scripts hold calls and clicks with arguments of their
types; the accounts open at the start are among the ids), `FinitelyMany` (there are
finitely many threads, and accounts at the start: a sum over infinitely many would mean
nothing) and `NoCallIsNoCall`. TLC evaluates them in the runs of the modules that
declare them.

Four theorems have a hypothesis about the behaviour, and two about the names:

* `CreditFits`: no credit about to happen exceeds what an `int64_t` holds. The code does
  not test it (`Account.cpp:27`), and without it a balance wraps below zero, which
  overdraws an account and loses money. The run `money` checks it, with deposits that
  add up to exactly the largest balance.
* `NothingWithdrawn`: no withdrawal is about to succeed. A withdrawal's record names its
  account as destination (finding 4), so the books of an account with one do not balance;
  the run `withdrawal_books` refutes `BooksBalance` without the hypothesis. `records` has
  deposits and transfers that succeed, and a withdrawal that is refused.
* `AsciiNames`: the names in the scripts have bytes below 127. The end of the range that
  `searchCustomerPrefix` looks through is right for those names only (finding 5); the run
  `unicode_names` refutes `SearchIsExact` without it.

### The argument, component by component

**Operations.** `MutualExclusion` and `DecisionStillRight` are not inductive: they say
nothing about who holds which lock. The inductive invariant is

    Inv == TypeOK /\ CallInv /\ LockInv

where `CallInv` relates the place a call has reached to its arguments and accounts
(past `check`, the accounts it needs exist, and nothing takes an account away again) and
`LockInv` ties every lock to the places of the threads: the readers of `bank_mtx` are the
calls in the bank, its writer is the one `openAccount` at work, the owner of an account's
mutex is a thread whose call names that account and has reached a place where it holds
it, and whoever stands between `store` and `index` is the writer of `record_mtx`. Two
calls at work on one account would then both own its mutex. `NoDeadlock` follows by
looking at the lock nearest to the end of the path that someone waits for: the holder
of `record_mtx` waits for nothing, a thread that holds account mutexes waits for
`record_mtx` at most. `DecisionStillRight` needs that a step of another thread leaves
the locked accounts alone; `ClosedIsEmpty` and `Lifecycle` follow from it, because a
call acts only on verdicts that are still right. `MissingStaysMissing` follows from the
lock of the bank: only `openAccount` adds an account, and while it does nobody is between
the search for an account and the answer that it is missing.

**Atomicity.** Under the mapping above, a call starts when it is made, takes effect in
the abstract bank where it acts (a transfer where it credits its destination; a refusal
and a getter where the verdict is reached), and ends when it returns; every other step is
a stutter. The step that acts needs `DecisionStillRight`, `CreditFits`, and `AnswerInv`,
that a call has no answer before it has decided. The proof found a slip in the
abstract specification that the instances had not: two arms of a `CASE` overlapped, so
that the state it promised was not determined. The arms are disjoint now.

**Money.** `Total` is two sums, over the accounts and over the transfers in flight.
`SumProofs` derives from the definition of `FoldFunction` what a sum over a finite set
does when one value changes or the set grows; every step then changes at most one value
of each. For the books, `BalanceInv` says of every account that its balance is what it
received less what it sent plus what calls at work have moved and not yet filed
(`UnfiledOf`); whoever has something unfiled has the account locked, so for an account
that is available the last sum is zero.

**Records.** `IndexInv`: each index lists, once each, exactly the records that are
filed, which are the stored ones but for that of the call between `store` and `index`;
whoever gets `record_mtx` shared finds nobody there. `OrderInv`: a call that knows its
accounts, and has drawn its id, has an id above all records filed for those
accounts with the accounts locked, and a stamp not before theirs unless the clock may be
set back. `FeedInv`: the feed is as long as it can be, and what it has kept of a history
is the history's end. `MineReadInv`: the record a client was told of is stored. The
merge is proved from `SrcIndex` alone: each of its steps moves on one side, neither side
is passed, so each record of both sides has a place and the places keep the order.
For the counts, the records found are in time order, so those a pointer may pass for a
limit are a beginning of the list; the limits go up from bucket to bucket, so a pointer
that goes on from where it stood stops where it would have stopped from the first record
(`PointersStop`), and the places of the two pointers enclose the records of the window.

**Displays.** `AccountsOf` exists, because a finite set of numbers can be listed in
ascending order. The totals split the accounts into those shown as they are and the
closed ones, which `ClosedIsEmpty` says hold nothing. A customer's page joins histories
that list what `IndexInv` says, and gathering lists each record once.

**Registry.** `BankInv` has a part for each pair of containers that must agree: who holds
`bank_mtx` and where (`LockInv`), ids without gaps (`IdsInv`), national ids and customers
(`NationalIdsInv`), accounts and their owners' lists but for the account that is filed and
not yet in the map (`FiledInv`), customers and the name index but for the one not yet
indexed (`NamesInv`), and the index and its flag (`SortedInv`). A search is exact because
in a sorted index the entries below the bounds come first, and because of the names in
ASCII those between the bounds are the ones with the prefix (`PrefixIsRange`).

**Desktop.** `DesktopInv` speaks of what is under way. `OwnersInv`: every answer in the
queue that finds a customer carries accounts of that customer. `OrderInv`: rows are sent in
the order of their versions, after those shown and before those the bank has.
`WhoseInv`: the last rows requested or sent to the administrator are everybody's.
`CurrentInv`: where the visible dashboard is not current, a request, an answer or a box
whose dismissal asks for rows is on its way; `RefusalsInv` and `BoxInv` are what it needs of
operations that fail and of boxes over another screen.

Facts about recursive functions (the merge, ranges of times, sums, gathered pages) are
proved by a smallest counterexample, from the well-foundedness of `<` on the natural
numbers and of inclusion on finite sets.

### Model-checked only

* `EveryCallReturns` and `LoginAnswered`: liveness under fairness is beyond the prover.
* What findings refute, of course: `NoSilentFailures`, `AccountHistorySorted`,
  `PendingIsEmpty`, `MyAccounts`, and `BooksBalance` and `SearchIsExact` without their
  hypotheses.

## 5. What is not modelled, and the plan

Not modelled for good: the table models, dialogs' layout and style sheets
(presentation), formatting of timestamps and messages, memory management.

Not modelled either: `removeAccount` and `setName` of `Customer`, which nothing calls; the
text of messages, which is why nothing is said of a registration that reports success for
a national id that is taken (`BackendWorker.cpp:109`); the pages and form fields of the
dashboards; a bank shared by two workers, which nothing in the program makes.

Next: `CreditFits` from the scripts. It holds when all amounts that may be deposited add
up to no more than `IntMax`, by `MoneyIsConserved`; `NothingWithdrawn` likewise, from
scripts without withdrawals.
