-------------------------- MODULE AtomicityProofs ---------------------------
(***************************************************************************)
(* TransactionManager implements AtomicBank: every step of a call maps to  *)
(* the one step in which the abstract call takes effect, to its beginning, *)
(* to its end or to none, whatever the other calls are doing.              *)
(***************************************************************************)
EXTENDS TransactionProofs

-----------------------------------------------------------------------------
(***************************************************************************)
(* Answers.  A call has an answer from the step that decides it, and a     *)
(* transfer that has debited its source will be answered with SUCCESS: its *)
(* source is locked, active and not overdrawn until it is done.            *)
(***************************************************************************)
Undecided == {"bank", "check", "lock", "try", "decide", "query", "read", "owner", "open"}
Decided == {"stamp", "id", "record", "store", "index", "return"}

SourceDebited(t) ==
    /\ reply[t] = Reply("SUCCESS")
    /\ accounts[call[t].id].state = "ACTIVE"
    /\ accounts[call[t].id].balance >= 0

AnswerInv ==
    \A t \in Threads :
      /\ pc[t] \in Undecided => reply[t] = NoReply
      /\ pc[t] \in Decided => reply[t] # NoReply
      /\ pc[t] = "credit" => SourceDebited(t)

\* A step of t leaves the calls of the other threads where they are.
LEMMA OthersStay ==
    ASSUME Inv, NEW t \in Threads, Invoke(t) \/ Step(t), NEW u \in Threads \ {t}
    PROVE  pc'[u] = pc[u] /\ call'[u] = call[u] /\ reply'[u] = reply[u]
<1>1. CASE Invoke(t)
  BY <1>1 DEF Invoke, GoTo, Respond, Inv, TypeOK
<1>2. CASE Step(t)
  BY <1>2 DEF Step, LockBank, Check, LockAccount, TryOther, BackOff, Decide, Apply,
     CreditDest, Stamp, TakeId, LockRecords, StoreRecord, IndexRecord, LockForQuery,
     Read, OwnBank, OpenAccount, Return, GoTo, Respond, Inv, TypeOK
<1> QED
  BY <1>1, <1>2

\* A verdict is an answer.
LEMMA VerdictAnswers ==
    ASSUME Inv, NEW c \in CallRecords, Passed(c)
    PROVE  Verdict(c) # NoReply
<1>1. accounts[c.id].state \in AccountState
  BY DEF Passed, Ends, Inv, TypeOK, AccountsOK, Accounts
<1> QED
  BY <1>1 DEF Verdict, DepositVerdict, WithdrawVerdict, TransferVerdict, FreezeVerdict,
     UnfreezeVerdict, CloseVerdict, Reply, Value, NoReply, AccountState

\* A transfer is granted when its source is active and covers the amount; the
\* debit leaves it so.
LEMMA TransferDebits ==
    ASSUME Inv, NEW c \in CallRecords, Passed(c), c.op = "transfer", Granted(Verdict(c))
    PROVE  /\ Verdict(c) = Reply("SUCCESS")
           /\ accounts[c.id].state = "ACTIVE"
           /\ c.amount <= accounts[c.id].balance
           /\ accounts[c.to].state # "CLOSED"
           /\ Applied(c) = [accounts[c.id] EXCEPT !.balance = @ - c.amount]
<1>1. accounts[c.id] \in Accounts /\ c.amount \in Balances /\ c.amount > 0
  BY DEF Passed, Ends, Inv, TypeOK, AccountsOK, CallRecords
<1>2. Verdict(c) = Reply(TransferVerdict(accounts[c.id], accounts[c.to], c.amount))
  BY DEF Verdict
<1>3. TransferVerdict(accounts[c.id], accounts[c.to], c.amount) = "SUCCESS"
  BY <1>2 DEF TransferVerdict, Granted, Reply
<1>4. /\ accounts[c.id].state = "ACTIVE" /\ accounts[c.to].state # "CLOSED"
      /\ ~Insufficient(accounts[c.id], c.amount)
  BY <1>3 DEF TransferVerdict
<1>5. c.amount <= accounts[c.id].balance
  BY <1>1, <1>4, ConstantsAreAmounts DEF Insufficient, Accounts, Balances
<1>6. Applied(c) = Debit(accounts[c.id], c.amount)
  BY DEF Applied
<1> QED
  BY <1>1, <1>2, <1>3, <1>4, <1>5, <1>6 DEF Debit, DebitSucceeds

\* What an answered or half-done call of another thread rests on stays.
LEMMA OthersAnswer ==
    ASSUME Inv, AnswerInv, NEW t \in Threads, Invoke(t) \/ Step(t),
           NEW u \in Threads \ {t}, pc[u] = "credit"
    PROVE  SourceDebited(u)'
<1>1. pc'[u] = pc[u] /\ call'[u] = call[u] /\ reply'[u] = reply[u]
  BY OthersStay
<1>2. AtWork(u) /\ call[u].id \in Ends(call[u]) /\ call[u].id \in DOMAIN accounts
  BY DEF AtWork, Ends, Inv, CallInv, PassedInv, Passed
<1>3. CASE Apply(t) \/ CreditDest(t)
  BY <1>1, <1>2, <1>3, OthersUntouched DEF AnswerInv, SourceDebited
<1>4. CASE OpenAccount(t)
  BY <1>1, <1>2, <1>4, Opened DEF AnswerInv, SourceDebited
<1>5. CASE ~Apply(t) /\ ~CreditDest(t) /\ ~OpenAccount(t)
  <2>1. accounts' = accounts
    BY <1>5 DEF Invoke, Step, LockBank, Check, LockAccount, TryOther, BackOff, Decide,
       Stamp, TakeId, LockRecords, StoreRecord, IndexRecord, LockForQuery, Read,
       OwnBank, Return, shared
  <2> QED
    BY <1>1, <2>1 DEF AnswerInv, SourceDebited
<1> QED
  BY <1>3, <1>4, <1>5

\* The step of a call keeps its own part of the invariant.
LEMMA OwnAnswer ==
    ASSUME Inv, DecisionInv, AnswerInv, NEW t \in Threads, Invoke(t) \/ Step(t)
    PROVE  /\ pc'[t] \in Undecided => reply'[t] = NoReply
           /\ pc'[t] \in Decided => reply'[t] # NoReply
           /\ pc'[t] = "credit" => SourceDebited(t)'
<1> USE DEF Undecided, Decided, GoTo, Respond
<1> /\ pc \in [Threads -> Places] /\ reply \in [Threads -> Replies]
    /\ call[t] \in CallRecords
  BY DEF Inv, TypeOK
<1>1. CASE Invoke(t)
  BY <1>1, Begins, Zenon DEF Invoke
<1>2. CASE LockBank(t) \/ LockAccount(t) \/ TryOther(t) \/ BackOff(t) \/ LockForQuery(t)
             \/ OwnBank(t)
  BY <1>2 DEF LockBank, LockAccount, AfterFirstLock, TryOther, BackOff, LockForQuery,
     OwnBank, AnswerInv
<1>3. CASE Check(t)
  BY <1>3 DEF Check
<1>4. CASE Decide(t)
  <2>1. Verdict(call[t]) # NoReply
    BY <1>4, VerdictAnswers DEF Decide, Inv, CallInv, PassedInv
  <2> QED
    BY <1>4, <2>1 DEF Decide
<1>5. CASE Apply(t)
  <2>1. reply[t] = Verdict(call[t]) /\ Granted(reply[t]) /\ pc[t] = "apply"
    BY <1>5 DEF Apply, DecisionInv, DecisionStillRight
  <2>2. call[t].op # "transfer" => pc'[t] \in Decided
    BY <1>5 DEF Apply, AfterApply
  <2>3. reply'[t] # NoReply
    BY <1>5, <2>1 DEF Apply, NoReply, Reply, Granted
  <2>4. ASSUME call[t].op = "transfer"
        PROVE  pc'[t] = "credit" /\ SourceDebited(t)'
    <3>1. Passed(call[t]) /\ call[t].id \in DOMAIN accounts
      BY <2>1 DEF Inv, CallInv, PassedInv, Passed, Ends
    <3>2. /\ pc'[t] = "credit" /\ reply'[t] = reply[t] /\ call' = call
          /\ accounts'[call[t].id] = Applied(call[t])
      BY <1>5, <2>4, <3>1 DEF Apply, AfterApply, DebitRefused, Update
    <3>3. accounts[call[t].id].balance \in Int /\ call[t].amount \in Int
      BY <3>1, ConstantsAreAmounts
      DEF Inv, TypeOK, AccountsOK, Accounts, CallRecords, Balances
    <3>4. /\ reply[t] = Reply("SUCCESS")
          /\ accounts[call[t].id].state = "ACTIVE"
          /\ call[t].amount <= accounts[call[t].id].balance
          /\ accounts'[call[t].id] =
               [accounts[call[t].id] EXCEPT !.balance = @ - call[t].amount]
      BY <2>1, <2>4, <3>1, <3>2, TransferDebits
    <3>5. accounts[call[t].id] \in Accounts
      BY <3>1 DEF Inv, TypeOK, AccountsOK
    <3>6. /\ accounts'[call[t].id].state = "ACTIVE"
          /\ accounts'[call[t].id].balance =
               accounts[call[t].id].balance - call[t].amount
      BY <3>4, <3>5 DEF Accounts
    <3> QED
      BY <3>2, <3>3, <3>4, <3>6 DEF SourceDebited
  <2> QED
    BY <2>2, <2>3, <2>4
<1>6. CASE CreditDest(t)
  BY <1>6 DEF CreditDest, AnswerInv, SourceDebited, Reply, NoReply
<1>7. CASE Stamp(t) \/ TakeId(t) \/ LockRecords(t) \/ StoreRecord(t) \/ IndexRecord(t)
             \/ Return(t)
  BY <1>7 DEF Stamp, TakeId, LockRecords, StoreRecord, IndexRecord, Return, AnswerInv
<1>8. CASE Read(t) \/ OpenAccount(t)
  BY <1>8 DEF Read, OpenAccount, Reply, Value, NoReply
<1> QED
  BY <1>1, <1>2, <1>3, <1>4, <1>5, <1>6, <1>7, <1>8 DEF Step

LEMMA AnswerStep ==
    ASSUME Inv, DecisionInv, AnswerInv, [Next]_vars
    PROVE  AnswerInv'
<1>1. CASE UNCHANGED vars
  BY <1>1 DEF vars, shared, AnswerInv, SourceDebited
<1>2. ASSUME NEW t \in Threads, Invoke(t) \/ Step(t)
      PROVE  AnswerInv'
  <2>1. \A u \in Threads \ {t} :
          /\ pc'[u] = pc[u] /\ reply'[u] = reply[u]
          /\ pc[u] = "credit" => SourceDebited(u)'
    BY <1>2, OthersStay, OthersAnswer
  <2> QED
    BY <1>2, <2>1, OwnAnswer DEF AnswerInv
<1> QED
  BY <1>1, <1>2 DEF Next, Done

LEMMA AnswerInvariant == Spec => []AnswerInv
<1>1. Init => AnswerInv
  BY DEF Init, AnswerInv, Undecided, Decided
<1>2. Inv /\ DecisionInv /\ AnswerInv /\ [Next]_vars => AnswerInv'
  BY AnswerStep
<1> QED
  BY InvInvariant, DecisionInvariant, <1>1, <1>2, PTL DEF Spec

-----------------------------------------------------------------------------
(***************************************************************************)
(* The money in flight.  At most one transfer is on its way from an        *)
(* account, because it has the account locked; and none is from an account *)
(* another call is at work on.                                             *)
(***************************************************************************)
LEMMA LeavingIsAmount ==
    Inv => \A v \in Threads :
             pc[v] = "credit" => LeavingAmount(call[v].id) = call[v].amount
<1> SUFFICES ASSUME Inv, NEW t \in Threads, pc[t] = "credit"
             PROVE  LeavingAmount(call[t].id) = call[t].amount
  OBVIOUS
<1> DEFINE from(u) == pc[u] = "credit" /\ call[u].id = call[t].id
<1>1. \A u \in Threads : from(u) => u = t
  <2> SUFFICES ASSUME NEW u \in Threads, from(u), u # t
               PROVE  FALSE
    OBVIOUS
  <2>1. AtWork(t) /\ AtWork(u)
    BY DEF AtWork
  <2>2. Ends(call[t]) \cap Ends(call[u]) = {}
    BY <2>1, LocksExclude DEF MutualExclusion
  <2> QED
    BY <2>2 DEF Ends
<1>2. (CHOOSE u \in Threads : from(u)) = t
  BY <1>1
<1> QED
  BY <1>2 DEF LeavingAmount, Leaving

LEMMA NothingLeaving ==
    \A a : ~Leaving(a) => LeavingAmount(a) = 0
BY DEF LeavingAmount

LEMMA NothingLeavesOthers ==
    ASSUME Inv, NEW t \in Threads, AtWork(t), NEW a \in Ends(call[t]),
           pc[t] = "credit" => a # call[t].id
    PROVE  LeavingAmount(a) = 0
<1>1. ASSUME NEW u \in Threads, pc[u] = "credit", call[u].id = a
      PROVE  FALSE
  <2>1. u # t /\ AtWork(u) /\ a \in Ends(call[u])
    BY <1>1 DEF AtWork, Ends
  <2> QED
    BY <2>1, LocksExclude DEF MutualExclusion
<1> QED
  BY <1>1, NothingLeaving DEF Leaving

\* What leaves an account changes only with the calls in flight.
LEMMA LeavingFrame ==
    ASSUME Inv, Inv', NEW a,
           \A u \in Threads : pc[u] = "credit" /\ call[u].id = a <=>
                              pc'[u] = "credit" /\ call'[u].id = a,
           \A u \in Threads : pc[u] = "credit" /\ call[u].id = a => call'[u] = call[u]
    PROVE  LeavingAmount(a)' = LeavingAmount(a)
<1>1. CASE Leaving(a)
  <2>1. PICK u \in Threads : pc[u] = "credit" /\ call[u].id = a
    BY <1>1 DEF Leaving
  <2>2. LeavingAmount(a) = call[u].amount
    BY <2>1, LeavingIsAmount
  <2>3. (\A v \in Threads :
           pc[v] = "credit" => LeavingAmount(call[v].id) = call[v].amount)'
    BY LeavingIsAmount, PTL
  <2>4. pc'[u] = "credit" /\ call'[u].id = a /\ call'[u].amount = call[u].amount
    BY <2>1
  <2>5. LeavingAmount(a)' = call'[u].amount
    BY <2>3, <2>4
  <2> QED
    BY <2>2, <2>4, <2>5
<1>2. CASE ~Leaving(a)
  <2>1. ~Leaving(a)'
    BY <1>2 DEF Leaving
  <2> QED
    BY <1>2, <2>1 DEF LeavingAmount
<1> QED
  BY <1>1, <1>2

LEMMA LeavingIsInt ==
    ASSUME Inv, NEW a
    PROVE  LeavingAmount(a) \in Int
<1>1. \A t \in Threads : call[t].amount \in Int
  BY ConstantsAreAmounts DEF Inv, TypeOK, CallRecords, Balances
<1> QED
  BY <1>1, LeavingIsAmount, NothingLeaving DEF Leaving

\* An account in the settled books.
LEMMA Settled ==
    ASSUME Inv, NEW a \in DOMAIN accounts
    PROVE  /\ accounts[a] \in Accounts
           /\ SettledAccounts[a].customer_id = accounts[a].customer_id
           /\ SettledAccounts[a].state = accounts[a].state
           /\ SettledAccounts[a].balance = accounts[a].balance + LeavingAmount(a)
           /\ LeavingAmount(a) = 0 => SettledAccounts[a] = accounts[a]
<1>1. accounts[a] \in Accounts
  BY DEF Inv, TypeOK, AccountsOK
<1>2. accounts[a].balance \in Int
  BY <1>1, ConstantsAreAmounts DEF Accounts, Balances
<1>3. SettledAccounts[a] = [accounts[a] EXCEPT !.balance = @ + LeavingAmount(a)]
  BY DEF SettledAccounts
<1>4. LeavingAmount(a) = 0 => accounts[a].balance + LeavingAmount(a) = accounts[a].balance
  BY <1>2
<1> QED
  BY <1>1, <1>3, <1>4 DEF Accounts

LEMMA SettledDomain == DOMAIN SettledAccounts = DOMAIN accounts
BY DEF SettledAccounts

-----------------------------------------------------------------------------
(***************************************************************************)
(* Verdicts.  What a call answers is what the abstract bank would answer   *)
(* at that moment.                                                         *)
(***************************************************************************)
\* With its accounts locked a call is granted exactly when it may be.
LEMMA GrantedMeansMay ==
    ASSUME Inv, NEW c \in CallRecords, c.op \in Atomic!Changes, Passed(c),
           \A a \in Ends(c) : SettledAccounts[a] = accounts[a]
    PROVE  Granted(Verdict(c)) <=> Atomic!May(c)
<1> DEFINE account == accounts[c.id]
<1>1. /\ account \in Accounts /\ SettledAccounts[c.id] = account
      /\ Atomic!Exists(c.id) /\ c.amount \in Int
  <2>1. c.id \in DOMAIN accounts /\ SettledAccounts[c.id] = account
    BY DEF Passed, Ends
  <2>2. account \in Accounts
    BY <2>1 DEF Inv, TypeOK, AccountsOK
  <2>3. Atomic!Exists(c.id)
    BY <2>1, SettledDomain DEF Atomic!Exists
  <2>4. c.amount \in Int
    BY ConstantsAreAmounts DEF CallRecords, Balances
  <2> QED
    BY <2>1, <2>2, <2>3, <2>4
<1>2. account.balance \in Int /\ account.state \in AccountState
  BY <1>1, ConstantsAreAmounts DEF Accounts, Balances
<1>3. Atomic!State(c.id) = account.state /\ Atomic!Balance(c.id) = account.balance
  BY <1>1 DEF Atomic!State, Atomic!Balance
<1> USE <1>1, <1>2, <1>3, ConstantsAreAmounts
    DEF Granted, Reply, Passed, Verdict, Atomic!May, AccountState, Insufficient
<1>4. CASE c.op = "deposit"
  BY <1>4 DEF DepositVerdict, Atomic!MayDeposit
<1>5. CASE c.op = "withdraw"
  BY <1>5 DEF WithdrawVerdict, Atomic!MayWithdraw
<1>6. CASE c.op = "transfer"
  <2>1. c.to \in DOMAIN accounts /\ SettledAccounts[c.to] = accounts[c.to]
    BY <1>6 DEF Ends
  <2>2. Atomic!Exists(c.to) /\ Atomic!State(c.to) = accounts[c.to].state
    BY <2>1, SettledDomain DEF Atomic!Exists, Atomic!State
  <2> QED
    BY <1>6, <2>2 DEF TransferVerdict, Atomic!MayTransfer, Atomic!MayWithdraw
<1>7. CASE c.op = "freeze"
  BY <1>7 DEF FreezeVerdict, Atomic!MayFreeze
<1>8. CASE c.op = "unfreeze"
  BY <1>8 DEF UnfreezeVerdict, Atomic!MayUnfreeze
<1>9. CASE c.op = "close"
  BY <1>9 DEF CloseVerdict, Atomic!MayClose
<1> HIDE <1>1, <1>2, <1>3, ConstantsAreAmounts
    DEF Granted, Reply, Passed, Verdict, Atomic!May, AccountState, Insufficient
<1> QED
  BY <1>4, <1>5, <1>6, <1>7, <1>8, <1>9 DEF Atomic!Changes

\* What a granted call answers.
LEMMA GrantedReply ==
    ASSUME Inv, NEW c \in CallRecords, c.op \in Atomic!Changes, Passed(c),
           Granted(Verdict(c))
    PROVE  Verdict(c) = Reply(IF c.op \in Atomic!Moves THEN "SUCCESS" ELSE "OK")
<1>1. accounts[c.id].state \in AccountState
  BY DEF Passed, Ends, Inv, TypeOK, AccountsOK, Accounts
<1> USE <1>1 DEF Verdict, Granted, Reply, AccountState, Atomic!Moves
<1>2. CASE c.op = "deposit"
  BY <1>2 DEF DepositVerdict
<1>3. CASE c.op = "withdraw"
  BY <1>3 DEF WithdrawVerdict
<1>4. CASE c.op = "transfer"
  BY <1>4 DEF TransferVerdict
<1>5. CASE c.op = "freeze"
  BY <1>5 DEF FreezeVerdict
<1>6. CASE c.op = "unfreeze"
  BY <1>6 DEF UnfreezeVerdict
<1>7. CASE c.op = "close"
  BY <1>7 DEF CloseVerdict
<1> HIDE <1>1 DEF Verdict, Granted, Reply, AccountState, Atomic!Moves
<1> QED
  BY <1>2, <1>3, <1>4, <1>5, <1>6, <1>7 DEF Atomic!Changes

\* A refusal answers with a code, and the code is a reason in the settled books.
Justified(c, r) ==
    \E status \in Atomic!Refusals : Atomic!Reason(status, c) /\ r = Reply(status)

\* A refused call is told a reason that is true while its accounts are locked.
LEMMA RefusalIsTrue ==
    ASSUME Inv, NEW c \in CallRecords, c.op \in Atomic!Changes, Passed(c),
           \A a \in Ends(c) : SettledAccounts[a] = accounts[a],
           ~Granted(Verdict(c))
    PROVE  Justified(c, Verdict(c))
<1> DEFINE account == accounts[c.id]
<1>1. /\ account.state \in AccountState /\ account.balance \in Int /\ c.amount \in Int
      /\ Atomic!Exists(c.id) /\ Atomic!State(c.id) = account.state
      /\ Atomic!Balance(c.id) = account.balance
  <2>1. c.id \in DOMAIN accounts /\ SettledAccounts[c.id] = account
    BY DEF Passed, Ends
  <2>2. account \in Accounts
    BY <2>1 DEF Inv, TypeOK, AccountsOK
  <2>3. c.amount \in Int
    BY ConstantsAreAmounts DEF CallRecords, Balances
  <2>4. account.state \in AccountState /\ account.balance \in Int
    BY <2>2, ConstantsAreAmounts DEF Accounts, Balances
  <2> QED
    BY <2>1, <2>3, <2>4, SettledDomain DEF Atomic!Exists, Atomic!State, Atomic!Balance
<1> HIDE DEF account
<1> USE <1>1 DEF Verdict, Granted, Reply, AccountState, Atomic!Refusals, Justified,
                 Atomic!Reason, Atomic!InState, Atomic!Involved, Insufficient, account
<1>2. CASE c.op = "deposit"
  BY <1>2 DEF DepositVerdict
<1>3. CASE c.op = "withdraw"
  BY <1>3 DEF WithdrawVerdict
<1>4. CASE c.op = "transfer"
  <2>1. c.to \in DOMAIN accounts /\ SettledAccounts[c.to] = accounts[c.to]
    BY <1>4 DEF Passed, Ends
  <2>2. Atomic!Exists(c.to) /\ Atomic!State(c.to) = accounts[c.to].state
    BY <2>1, SettledDomain DEF Atomic!Exists, Atomic!State
  <2> QED
    BY <1>4, <2>2 DEF TransferVerdict
<1>5. CASE c.op = "freeze"
  BY <1>5 DEF FreezeVerdict
<1>6. CASE c.op = "unfreeze"
  BY <1>6 DEF UnfreezeVerdict
<1>7. CASE c.op = "close"
  BY <1>7 DEF CloseVerdict
<1> HIDE <1>1 DEF Verdict, Granted, Reply, AccountState, Atomic!Refusals, Justified,
                  Atomic!Reason, Atomic!InState, Atomic!Involved, Insufficient, account
<1> QED
  BY <1>2, <1>3, <1>4, <1>5, <1>6, <1>7 DEF Atomic!Changes

\* A getter is granted nothing.
LEMMA GettersAskOnly ==
    ASSUME Inv, NEW c \in CallRecords, c.op \in Op, c.op \notin Atomic!Changes, Passed(c)
    PROVE  ~Granted(Verdict(c))
<1>1. accounts[c.id].state \in AccountState
  BY DEF Passed, Ends, Inv, TypeOK, AccountsOK, Accounts
<1> QED
  BY <1>1 DEF Verdict, Granted, Reply, Value, AccountState, Op, Atomic!Changes

\* A call that is answered before any account is locked may not be granted.
LEMMA EarlyMeansMayNot ==
    ASSUME NEW c \in CallRecords, c.op \in Atomic!Changes, ~Passed(c)
    PROVE  ~Atomic!May(c) /\ Justified(c, EarlyReply(c))
<1>1. c.amount \in Int
  BY ConstantsAreAmounts DEF CallRecords, Balances
<1>2. ~Atomic!May(c)
  BY <1>1, SettledDomain
  DEF Passed, Ends, Atomic!May, Atomic!MayDeposit, Atomic!MayWithdraw,
      Atomic!MayTransfer, Atomic!MayFreeze, Atomic!MayUnfreeze, Atomic!MayClose,
      Atomic!Exists, Atomic!Changes
<1>3. EarlyReply(c) # NoReply
  BY EarlyReplyPassed
<1>4. \A a : Atomic!Exists(a) <=> ~Missing(a)
  BY SettledDomain DEF Atomic!Exists, Missing
<1>5. Justified(c, EarlyReply(c))
  BY <1>3, <1>4
  DEF EarlyReply, Justified, Atomic!Reason, Atomic!Changes, Atomic!Moves,
      Atomic!Refusals, Atomic!Involved
<1> QED
  BY <1>2, <1>5

-----------------------------------------------------------------------------
(***************************************************************************)
(* What the steps of a call are to the abstract bank.                      *)
(***************************************************************************)
LEMMA NothingInFlight == Init => \A a : LeavingAmount(a) = 0
BY NothingLeaving DEF Init, Leaving

LEMMA InitMaps == Init => Atomic!Init
<1> SUFFICES ASSUME Init
             PROVE  Atomic!Init
  OBVIOUS
<1>1. SettledAccounts = [a \in DOMAIN Owner |-> NewAccount(Owner[a])]
  <2>1. accounts = [a \in DOMAIN Owner |-> NewAccount(Owner[a])]
    BY DEF Init
  <2>2. SettledAccounts = [a \in DOMAIN Owner |-> [NewAccount(Owner[a]) EXCEPT !.balance = @ + 0]]
    BY <2>1, NothingInFlight DEF SettledAccounts
  <2>3. ASSUME NEW a
        PROVE  [NewAccount(Owner[a]) EXCEPT !.balance = @ + 0] = NewAccount(Owner[a])
    BY DEF NewAccount
  <2> QED
    BY <2>2, <2>3
<1>2. PendingCalls = [t \in Threads |-> NoCall]
  BY DEF Init, PendingCalls
<1>3. AnswersGiven = [t \in Threads |-> Atomic!None]
  BY DEF Init, AnswersGiven, NoReply, Reply, Atomic!None
<1> QED
  BY <1>1, <1>2, <1>3 DEF Atomic!Init, Atomic!New, NewAccount

\* A step that touches no account, and neither starts a flight nor ends one,
\* leaves the settled books as they are.
LEMMA BooksStay ==
    ASSUME Inv, Inv', NEW t \in Threads, Invoke(t) \/ Step(t),
           accounts' = accounts, pc[t] # "credit", pc'[t] # "credit"
    PROVE  SettledAccounts' = SettledAccounts
<1>1. \A u \in Threads : pc[u] = "credit" <=> pc'[u] = "credit"
  BY OthersStay
<1>2. \A u \in Threads : pc[u] = "credit" => call'[u] = call[u]
  BY OthersStay
<1>3. \A a \in DOMAIN accounts : LeavingAmount(a)' = LeavingAmount(a)
  BY <1>1, <1>2, LeavingFrame
<1> QED
  BY <1>3 DEF SettledAccounts

\* Until it returns a call is pending, and it has no answer before it is decided.
LEMMA CallMaps ==
    ASSUME Inv, AnswerInv, NEW t \in Threads, Step(t), ~Return(t)
    PROVE  /\ call'[t] = call[t] /\ call[t] \in CallRecords
           /\ PendingCalls' = PendingCalls
           /\ PendingCalls[t] = call[t] /\ PendingCalls[t] # NoCall
           /\ AnswersGiven' = [AnswersGiven EXCEPT ![t] = AnswersGiven'[t]]
           /\ pc[t] \in Undecided \cup {"apply", "credit"} =>
                AnswersGiven[t] = Atomic!None
<1>1. /\ pc[t] \notin {"idle", "return"} /\ pc'[t] # "idle" /\ call' = call
      /\ call[t] \in CallRecords
  BY DEF Step, LockBank, Check, LockAccount, AfterFirstLock, TryOther, BackOff, Decide,
     Apply, AfterApply, CreditDest, Stamp, TakeId, LockRecords, StoreRecord, IndexRecord,
     LockForQuery, Read, OwnBank, OpenAccount, GoTo, Inv, TypeOK
<1>2. \A u \in Threads \ {t} : pc'[u] = pc[u] /\ reply'[u] = reply[u]
  BY OthersStay
<1>3. PendingCalls' = PendingCalls /\ PendingCalls[t] = call[t]
  BY <1>1, <1>2 DEF PendingCalls
<1>4. PendingCalls[t] # NoCall
  BY <1>1, <1>3, NoCallIsNoCall
<1>5. AnswersGiven' = [AnswersGiven EXCEPT ![t] = AnswersGiven'[t]]
  BY <1>2 DEF AnswersGiven
<1>6. pc[t] \in Undecided \cup {"apply", "credit"} => AnswersGiven[t] = Atomic!None
  BY DEF AnswersGiven, AnswerInv, NoReply, Reply, Atomic!None
<1> QED
  BY <1>1, <1>3, <1>4, <1>5, <1>6

\* A step that neither touches an account nor answers is none of the abstract bank.
LEMMA QuietMaps ==
    ASSUME Inv, Inv', AnswerInv, NEW t \in Threads, Step(t), ~Return(t),
           accounts' = accounts, pc[t] # "credit", pc'[t] # "credit",
           AnswersGiven'[t] = AnswersGiven[t]
    PROVE  UNCHANGED Atomic!vars
<1>1. AnswersGiven' = AnswersGiven
  BY CallMaps DEF AnswersGiven
<1> QED
  BY <1>1, BooksStay, CallMaps DEF Atomic!vars

LEMMA InvokeMaps ==
    ASSUME Inv, Inv', NEW t \in Threads, Invoke(t)
    PROVE  Atomic!Begin(t)
<1>1. PICK c \in Script[t][made[t] + 1] :
        /\ pc[t] = "idle" /\ pc' = [pc EXCEPT ![t] = Entrance(c)]
        /\ made[t] < Len(Script[t])
        /\ call' = [call EXCEPT ![t] = c]
        /\ reply' = [reply EXCEPT ![t] = NoReply]
        /\ accounts' = accounts
  BY DEF Invoke, GoTo, Respond, shared
<1>2. Entrance(c) \in {"bank", "query", "owner"}
  BY DEF Entrance
<1>3. c \in Scripted
  <2>1. /\ Script[t] \in Seq(SUBSET {d \in CallRecords : WellFormed(d)})
        /\ made[t] \in Nat
    BY ScriptsAreCalls DEF Inv, TypeOK
  <2>2. Script[t][made[t] + 1] \in Range(Script[t])
    BY <1>1, <2>1 DEF Range
  <2> QED
    BY <2>2 DEF Scripted
<1>4. /\ pc'[t] \in {"bank", "query", "owner"} /\ call'[t] = c /\ reply'[t] = NoReply
      /\ \A u \in Threads \ {t} :
           pc'[u] = pc[u] /\ call'[u] = call[u] /\ reply'[u] = reply[u]
  BY <1>1, <1>2 DEF Inv, TypeOK
<1>5. PendingCalls[t] = NoCall /\ PendingCalls' = [PendingCalls EXCEPT ![t] = c]
  BY <1>1, <1>4 DEF PendingCalls
<1>6. AnswersGiven' = [AnswersGiven EXCEPT ![t] = Atomic!None]
  BY <1>4 DEF AnswersGiven, NoReply, Reply, Atomic!None
<1>7. SettledAccounts' = SettledAccounts
  BY <1>1, <1>4, BooksStay
<1> QED
  BY <1>3, <1>5, <1>6, <1>7 DEF Atomic!Begin

LEMMA ReturnMaps ==
    ASSUME Inv, Inv', AnswerInv, NEW t \in Threads, Return(t)
    PROVE  Atomic!Finish(t)
<1>1. /\ pc[t] = "return" /\ pc'[t] = "idle" /\ call' = call /\ reply' = reply
      /\ accounts' = accounts
  BY DEF Return, GoTo, Inv, TypeOK
<1>2. \A u \in Threads \ {t} : pc'[u] = pc[u]
  BY OthersStay DEF Step
<1>3. PendingCalls[t] = call[t] /\ call[t] \in CallRecords
  BY <1>1 DEF PendingCalls, Inv, TypeOK
<1>4. PendingCalls' = [PendingCalls EXCEPT ![t] = NoCall]
  BY <1>1, <1>2 DEF PendingCalls
<1>5. AnswersGiven' = AnswersGiven /\ AnswersGiven[t] # Atomic!None
  BY <1>1, <1>2 DEF AnswersGiven, AnswerInv, Decided, NoReply, Reply, Atomic!None
<1>6. SettledAccounts' = SettledAccounts
  BY <1>1, BooksStay DEF Step
<1> QED
  BY <1>3, <1>4, <1>5, <1>6, NoCallIsNoCall DEF Atomic!Finish

\* An early answer is a refusal, or what a getter finds of a missing account.
LEMMA CheckMaps ==
    ASSUME Inv, Inv', AnswerInv, NEW t \in Threads, Check(t)
    PROVE  Atomic!TakeEffect(t) \/ UNCHANGED Atomic!vars
<1> DEFINE c == call[t]
<1>1. /\ pc[t] = "check" /\ accounts' = accounts /\ reply'[t] = EarlyReply(c)
      /\ pc'[t] \in {"lock", "stamp", "return"} /\ Step(t) /\ ~Return(t)
  BY DEF Check, Step, Return, GoTo, Respond, shared, Inv, TypeOK
<1>2. AnswersGiven'[t] = EarlyReply(c)
  BY <1>1 DEF AnswersGiven
<1>3. /\ c \in CallRecords /\ PendingCalls' = PendingCalls /\ PendingCalls[t] = c
      /\ c # NoCall /\ AnswersGiven[t] = Atomic!None
      /\ AnswersGiven' = [AnswersGiven EXCEPT ![t] = EarlyReply(c)]
  BY <1>1, <1>2, CallMaps DEF Undecided
<1>4. SettledAccounts' = SettledAccounts
  BY <1>1, BooksStay
<1>5. CASE Passed(c)
  <2>1. EarlyReply(c) = NoReply
    BY <1>3, <1>5, EarlyReplyPassed
  <2>2. AnswersGiven'[t] = AnswersGiven[t]
    BY <1>2, <1>3, <2>1 DEF NoReply, Reply, Atomic!None
  <2> QED
    BY <1>1, <2>2, QuietMaps
<1>6. CASE ~Passed(c) /\ c.op \in Atomic!Changes
  <2>1. ~Atomic!May(c) /\ Justified(c, EarlyReply(c))
    BY <1>3, <1>6, EarlyMeansMayNot
  <2>2. Atomic!Refuse(t)
    BY <1>3, <1>4, <1>6, <2>1 DEF Atomic!Refuse, Atomic!Answer, Reply, Justified
  <2> QED
    BY <1>3, <2>2 DEF Atomic!TakeEffect
<1>7. CASE ~Passed(c) /\ c.op \notin Atomic!Changes
  <2>1. c.op \in {"getBalance", "getAccountState", "getAccountCustomerId"}
    BY <1>1, <1>7 DEF Inv, CallInv, PlaceInv, OpPlaces, Places, Op, Atomic!Changes
  <2>2. c.id \notin DOMAIN accounts
    BY <1>7, <2>1 DEF Passed, Ends
  <2>3. ~Atomic!Exists(c.id)
    BY <2>2, SettledDomain DEF Atomic!Exists
  <2>4. EarlyReply(c) = IF c.op = "getBalance" THEN Value(0) ELSE Reply("nullopt")
    BY <2>1, <2>2 DEF EarlyReply, Missing
  <2>5. Atomic!Look(t)
    BY <1>3, <1>4, <2>1, <2>3, <2>4 DEF Atomic!Look, Atomic!Answer, Reply, Value
  <2> QED
    BY <1>3, <2>5 DEF Atomic!TakeEffect
<1> QED
  BY <1>5, <1>6, <1>7

\* The accounts a call is at work on are in the settled books as they are.
LEMMA SettledWhereAtWork ==
    ASSUME Inv, NEW t \in Threads, pc[t] \in {"decide", "apply"}
    PROVE  /\ Passed(call[t]) /\ call[t].id \in DOMAIN accounts
           /\ \A a \in Ends(call[t]) : SettledAccounts[a] = accounts[a]
<1>1. Passed(call[t]) /\ AtWork(t)
  BY DEF AtWork, Inv, CallInv, PassedInv
<1>2. \A a \in Ends(call[t]) : a \in DOMAIN accounts /\ LeavingAmount(a) = 0
  BY <1>1, NothingLeavesOthers DEF Passed
<1> QED
  BY <1>1, <1>2, Settled DEF Ends

\* A decision to grant a call is not its effect yet; one to refuse it, and what
\* a getter reads, is.
LEMMA DecideMaps ==
    ASSUME Inv, Inv', AnswerInv, NEW t \in Threads, Decide(t)
    PROVE  Atomic!TakeEffect(t) \/ UNCHANGED Atomic!vars
<1> DEFINE c == call[t]
<1>1. /\ pc[t] = "decide" /\ accounts' = accounts /\ reply'[t] = Verdict(c)
      /\ Granted(Verdict(c)) => pc'[t] = "apply"
      /\ ~Granted(Verdict(c)) => pc'[t] \in {"stamp", "return"}
      /\ Step(t) /\ ~Return(t)
  BY DEF Decide, Step, Return, GoTo, Respond, shared, Inv, TypeOK
<1>2. /\ c \in CallRecords /\ PendingCalls' = PendingCalls /\ PendingCalls[t] = c
      /\ c # NoCall /\ AnswersGiven[t] = Atomic!None
      /\ AnswersGiven' = [AnswersGiven EXCEPT ![t] = AnswersGiven'[t]]
  BY <1>1, CallMaps DEF Undecided
<1>3. Passed(c) /\ \A a \in Ends(c) : SettledAccounts[a] = accounts[a]
  BY <1>1, SettledWhereAtWork
<1>4. SettledAccounts' = SettledAccounts
  BY <1>1, BooksStay
<1>5. CASE Granted(Verdict(c))
  <2>1. AnswersGiven'[t] = AnswersGiven[t]
    BY <1>1, <1>2, <1>5 DEF AnswersGiven, NoReply, Reply, Atomic!None
  <2> QED
    BY <1>1, <1>5, <2>1, QuietMaps
<1>6. CASE ~Granted(Verdict(c))
  <2>1. AnswersGiven' = [AnswersGiven EXCEPT ![t] = Verdict(c)]
    <3>1. AnswersGiven'[t] = Verdict(c)
      BY <1>1, <1>6 DEF AnswersGiven
    <3> QED
      BY <1>2, <3>1
  <2>2. CASE c.op \in Atomic!Changes
    <3>1. ~Atomic!May(c) /\ Justified(c, Verdict(c))
      BY <1>2, <1>3, <1>6, <2>2, GrantedMeansMay, RefusalIsTrue
    <3>2. Atomic!Refuse(t)
      BY <1>2, <1>4, <2>1, <2>2, <3>1 DEF Atomic!Refuse, Atomic!Answer, Reply, Justified
    <3> QED
      BY <1>2, <3>2 DEF Atomic!TakeEffect
  <2>3. CASE c.op \notin Atomic!Changes
    <3>1. c.op \in {"getBalance", "getAccountState", "getAccountCustomerId"}
      BY <1>1, <2>3 DEF Inv, CallInv, PlaceInv, OpPlaces, Places, Op, Atomic!Changes
    <3>2. c.id \in DOMAIN accounts /\ SettledAccounts[c.id] = accounts[c.id]
      BY <1>3 DEF Passed, Ends
    <3>3. /\ Atomic!Exists(c.id) /\ Atomic!State(c.id) = accounts[c.id].state
          /\ Atomic!Balance(c.id) = accounts[c.id].balance
      BY <3>2, SettledDomain DEF Atomic!Exists, Atomic!State, Atomic!Balance
    <3>4. ASSUME c.op = "getBalance"
          PROVE  Atomic!Look(t)
      <4>1. Verdict(c) = [status |-> "value",
                          value |-> IF Atomic!State(c.id) = "CLOSED" THEN -1
                                    ELSE Atomic!Balance(c.id)]
        BY <3>3, <3>4 DEF Verdict, Value
      <4> QED
        BY <1>2, <1>4, <2>1, <3>3, <3>4, <4>1 DEF Atomic!Look, Atomic!Answer
    <3>5. ASSUME c.op = "getAccountState"
          PROVE  Atomic!Look(t)
      <4>1. Verdict(c) = [status |-> Atomic!State(c.id), value |-> 0]
        BY <3>3, <3>5 DEF Verdict, Reply
      <4> QED
        BY <1>2, <1>4, <2>1, <3>3, <3>5, <4>1 DEF Atomic!Look, Atomic!Answer
    <3>6. ASSUME c.op = "getAccountCustomerId"
          PROVE  Atomic!Look(t)
      <4>1. Verdict(c) = [status |-> "value",
                          value |-> SettledAccounts[c.id].customer_id]
        BY <3>2, <3>6 DEF Verdict, Value
      <4> QED
        BY <1>2, <1>4, <2>1, <3>3, <3>6, <4>1 DEF Atomic!Look, Atomic!Answer
    <3>7. Atomic!Look(t)
      BY <3>1, <3>4, <3>5, <3>6
    <3> QED
      BY <1>2, <3>7 DEF Atomic!TakeEffect
  <2> QED
    BY <2>2, <2>3
<1> QED
  BY <1>5, <1>6

\* A query answers with records.
LEMMA ReadMaps ==
    ASSUME Inv, Inv', AnswerInv, NEW t \in Threads, Read(t)
    PROVE  Atomic!TakeEffect(t)
<1> DEFINE c == call[t]
<1>1. /\ pc[t] = "read" /\ accounts' = accounts /\ reply'[t] = Reply("records")
      /\ pc'[t] = "return" /\ Step(t) /\ ~Return(t)
  BY DEF Read, Step, Return, GoTo, Respond, Inv, TypeOK
<1>2. AnswersGiven'[t] = Reply("records")
  BY <1>1 DEF AnswersGiven
<1>3. /\ PendingCalls' = PendingCalls /\ PendingCalls[t] = c
      /\ c # NoCall /\ AnswersGiven[t] = Atomic!None
      /\ AnswersGiven' = [AnswersGiven EXCEPT ![t] = Reply("records")]
  BY <1>1, <1>2, CallMaps DEF Undecided
<1>4. SettledAccounts' = SettledAccounts
  BY <1>1, BooksStay
<1>5. c.op \in QueryOp
  BY <1>1 DEF Inv, CallInv, PlaceInv
<1>6. Atomic!Look(t)
  BY <1>3, <1>4, <1>5 DEF Atomic!Look, Atomic!Answer, Atomic!Changes, QueryOp, Reply
<1> QED
  BY <1>3, <1>6 DEF Atomic!TakeEffect

\* A new account is in the settled books as it is: no transfer knew it.
LEMMA OpenMaps ==
    ASSUME Inv, Inv', AnswerInv, NEW t \in Threads, OpenAccount(t)
    PROVE  Atomic!TakeEffect(t)
<1> DEFINE c == call[t]
<1>1. /\ pc[t] = "open" /\ pc'[t] = "return" /\ Step(t) /\ ~Return(t)
  BY DEF OpenAccount, Step, Return, GoTo, Inv, TypeOK
<1>2. AnswersGiven'[t] = reply'[t]
  BY <1>1 DEF AnswersGiven
<1>3. /\ PendingCalls' = PendingCalls /\ PendingCalls[t] = c
      /\ c # NoCall /\ AnswersGiven[t] = Atomic!None
      /\ AnswersGiven' = [AnswersGiven EXCEPT ![t] = reply'[t]]
  BY <1>1, <1>2, CallMaps DEF Undecided
<1>4. c.op = "openAccount"
  BY <1>1 DEF Inv, CallInv, PlaceInv, BankOp
<1>5. CASE accounts' = accounts /\ reply'[t] = Value(0)
  <2>1. SettledAccounts' = SettledAccounts
    BY <1>1, <1>5, BooksStay
  <2>2. Atomic!Open(t)
    BY <1>3, <1>4, <1>5, <2>1 DEF Atomic!Open, Atomic!Answer, Value
  <2> QED
    BY <1>3, <2>2 DEF Atomic!TakeEffect
<1>6. ASSUME NEW a \in AccountIds \ DOMAIN accounts,
             accounts' = Put(accounts, a, NewAccount(c.id)), reply'[t] = Value(a)
      PROVE  Atomic!TakeEffect(t)
  <2>1. \A u \in Threads : pc[u] # "credit" /\ pc'[u] # "credit"
    <3>1. \A u \in Threads : ~InBank(u)
      BY <1>1, InBankExcludes
    <3> QED
      BY <1>1, <3>1, OthersStay DEF InBank
  <2>2. \A b \in DOMAIN accounts \cup {a} : LeavingAmount(b) = 0
    BY <2>1, NothingLeaving DEF Leaving
  <2>3. \A b \in DOMAIN accounts \cup {a} : LeavingAmount(b)' = 0
    BY <2>1 DEF LeavingAmount, Leaving
  <2>4. SettledAccounts' =
          [b \in DOMAIN accounts \cup {a} |->
             [accounts'[b] EXCEPT !.balance = @ + LeavingAmount(b)']]
    BY <1>6 DEF SettledAccounts, Put
  <2>5. ASSUME NEW b \in DOMAIN accounts, b # a
        PROVE  [accounts'[b] EXCEPT !.balance = @ + LeavingAmount(b)'] = SettledAccounts[b]
    BY <1>6, <2>2, <2>3, <2>5 DEF SettledAccounts, Put
  <2>6. [accounts'[a] EXCEPT !.balance = @ + LeavingAmount(a)'] = Atomic!New(c.id)
    <3>1. accounts'[a] = NewAccount(c.id) /\ LeavingAmount(a)' = 0
      BY <1>6, <2>3 DEF Put
    <3> QED
      BY <3>1 DEF NewAccount, Atomic!New
  <2>7. SettledAccounts' =
          [b \in DOMAIN SettledAccounts \cup {a} |->
             IF b = a THEN Atomic!New(c.id) ELSE SettledAccounts[b]]
    BY <2>4, <2>5, <2>6, SettledDomain
  <2>8. Atomic!Open(t)
    BY <1>3, <1>4, <1>6, <2>7, SettledDomain DEF Atomic!Open, Atomic!Answer, Value
  <2> QED
    BY <1>3, <2>8 DEF Atomic!TakeEffect
<1> QED
  BY <1>5, <1>6 DEF OpenAccount, Respond, Inv, TypeOK

\* A call takes effect when the settled books show its effect and its answer says
\* so, one account at a time.
LEMMA GrantMaps ==
    ASSUME Inv, NEW t \in Threads, PendingCalls[t] # NoCall, PendingCalls' = PendingCalls,
           AnswersGiven[t] = Atomic!None, Atomic!May(PendingCalls[t]),
           AnswersGiven' = [AnswersGiven EXCEPT ![t] =
             Reply(IF PendingCalls[t].op \in Atomic!Moves THEN "SUCCESS" ELSE "OK")],
           DOMAIN accounts' = DOMAIN accounts,
           \A a \in DOMAIN accounts :
             SettledAccounts'[a] =
               [SettledAccounts[a] EXCEPT
                  !.balance = @ + Atomic!Gain(PendingCalls[t], a),
                  !.state = Atomic!NewState(PendingCalls[t], a)]
    PROVE  Atomic!TakeEffect(t)
<1>1. SettledAccounts' =
        [a \in DOMAIN SettledAccounts |->
           [SettledAccounts[a] EXCEPT
              !.balance = @ + Atomic!Gain(PendingCalls[t], a),
              !.state = Atomic!NewState(PendingCalls[t], a)]]
  <2>1. DOMAIN SettledAccounts = DOMAIN accounts
    BY SettledDomain
  <2>2. SettledAccounts' = [a \in DOMAIN accounts |-> SettledAccounts'[a]]
    BY DEF SettledAccounts
  <2> QED
    BY <2>1, <2>2, Zenon
<1>2. Atomic!Grant(t)
  BY <1>1 DEF Atomic!Grant, Atomic!Answer, Reply
<1> QED
  BY <1>2 DEF Atomic!TakeEffect

\* Where a call gains nothing and changes no state it leaves an account as it was.
LEMMA NoGain ==
    ASSUME Inv, NEW c, NEW a \in DOMAIN accounts,
           Atomic!Gain(c, a) = 0, Atomic!NewState(c, a) = Atomic!State(a)
    PROVE  [SettledAccounts[a] EXCEPT !.balance = @ + Atomic!Gain(c, a),
                                      !.state = Atomic!NewState(c, a)]
             = SettledAccounts[a]
<1>1. SettledAccounts[a] = [accounts[a] EXCEPT !.balance = @ + LeavingAmount(a)]
  BY DEF SettledAccounts
<1>2. accounts[a] \in Accounts /\ LeavingAmount(a) \in Int /\ accounts[a].balance \in Int
  <2>1. accounts[a] \in Accounts
    BY DEF Inv, TypeOK, AccountsOK
  <2>2. accounts[a].balance \in Int
    BY <2>1, ConstantsAreAmounts DEF Accounts, Balances
  <2> QED
    BY <2>1, <2>2, LeavingIsInt
<1>3. SettledAccounts[a] \in [customer_id : Nat, balance : Int, state : AccountState]
  BY <1>1, <1>2 DEF Accounts
<1>4. SettledAccounts[a].balance + Atomic!Gain(c, a) = SettledAccounts[a].balance
  BY <1>3
<1>5. Atomic!NewState(c, a) = SettledAccounts[a].state
  BY DEF Atomic!State
<1> QED
  BY <1>3, <1>4, <1>5

\* What a call other than a transfer does to its account is what it is granted.
LEMMA AppliedIsGain ==
    ASSUME Inv, NEW c \in CallRecords, c.op \in Atomic!Changes, c.op # "transfer",
           Passed(c), Granted(Verdict(c)), SettledAccounts[c.id] = accounts[c.id],
           c.op = "deposit" => accounts[c.id].balance + c.amount <= IntMax
    PROVE  /\ ~DebitRefused(c)
           /\ Applied(c) =
                [accounts[c.id] EXCEPT !.balance = @ + Atomic!Gain(c, c.id),
                                       !.state = Atomic!NewState(c, c.id)]
<1> DEFINE account == accounts[c.id]
<1>1. account \in Accounts /\ c.amount \in Int
  BY ConstantsAreAmounts
  DEF Passed, Ends, Inv, TypeOK, AccountsOK, CallRecords, Balances
<1>2. account.balance \in Int /\ account.state \in AccountState
  BY <1>1, ConstantsAreAmounts DEF Accounts, Balances
<1>3. Atomic!State(c.id) = account.state
  BY DEF Atomic!State
<1> USE <1>1, <1>2, <1>3 DEF Accounts
<1>4. CASE c.op = "deposit"
  <2>1. Credit(account, c.amount) = [account EXCEPT !.balance = @ + c.amount]
    BY <1>4, ConstantsAreAmounts DEF Credit, Wrap, Passed
  <2> QED
    BY <1>4, <2>1 DEF Applied, DebitRefused, Deposited, Unfreeze,
       Atomic!Gain, Atomic!NewState
<1>5. CASE c.op = "withdraw"
  <2>1. WithdrawVerdict(account, c.amount) = "SUCCESS"
    BY <1>5 DEF Verdict, Granted, Reply, WithdrawVerdict
  <2>2. DebitSucceeds(account, c.amount)
    BY <1>5, <2>1 DEF WithdrawVerdict, DebitSucceeds, Passed, AccountState
  <2> QED
    BY <1>5, <2>2 DEF Applied, DebitRefused, Debit, Atomic!Gain, Atomic!NewState
<1>6. CASE c.op = "freeze"
  <2>1. Atomic!Gain(c, c.id) = 0 /\ Atomic!NewState(c, c.id) = "FROZEN"
    BY <1>6 DEF Atomic!Gain, Atomic!NewState
  <2>2. Applied(c) = [account EXCEPT !.state = "FROZEN"] /\ ~DebitRefused(c)
    BY <1>6 DEF Applied, DebitRefused, Freeze
  <2>3. account.balance + Atomic!Gain(c, c.id) = account.balance
    BY <2>1
  <2> QED
    BY <2>1, <2>2, <2>3
<1>7. CASE c.op = "unfreeze"
  <2>1. Atomic!Gain(c, c.id) = 0 /\ Atomic!NewState(c, c.id) = "ACTIVE"
    BY <1>7 DEF Atomic!Gain, Atomic!NewState
  <2>2. Applied(c) = [account EXCEPT !.state = "ACTIVE"] /\ ~DebitRefused(c)
    BY <1>7 DEF Applied, DebitRefused, Unfreeze
  <2>3. account.balance + Atomic!Gain(c, c.id) = account.balance
    BY <2>1
  <2> QED
    BY <2>1, <2>2, <2>3
<1>8. CASE c.op = "close"
  <2>1. Atomic!Gain(c, c.id) = 0 /\ Atomic!NewState(c, c.id) = "CLOSED"
    BY <1>8 DEF Atomic!Gain, Atomic!NewState
  <2>2. Applied(c) = [account EXCEPT !.state = "CLOSED"] /\ ~DebitRefused(c)
    BY <1>8 DEF Applied, DebitRefused, Close
  <2>3. account.balance + Atomic!Gain(c, c.id) = account.balance
    BY <2>1
  <2> QED
    BY <2>1, <2>2, <2>3
<1> QED
  BY <1>4, <1>5, <1>6, <1>7, <1>8 DEF Atomic!Changes

\* The one change a call other than a transfer makes is its effect.
LEMMA ApplyMaps ==
    ASSUME Inv, Inv', DecisionInv, AnswerInv, CreditFits, NEW t \in Threads, Apply(t),
           call[t].op # "transfer"
    PROVE  Atomic!TakeEffect(t)
<1> DEFINE c == call[t]
<1>1. /\ pc[t] = "apply" /\ reply[t] = Verdict(c) /\ Granted(Verdict(c))
      /\ accounts' = [accounts EXCEPT ![c.id] = Applied(c)]
      /\ Step(t) /\ ~Return(t)
  BY DEF Apply, Step, Return, Update, DecisionInv, DecisionStillRight
<1>2. /\ c \in CallRecords /\ PendingCalls' = PendingCalls /\ PendingCalls[t] = c
      /\ c # NoCall /\ AnswersGiven[t] = Atomic!None
      /\ AnswersGiven' = [AnswersGiven EXCEPT ![t] = AnswersGiven'[t]]
  BY <1>1, CallMaps
<1>3. /\ Passed(c) /\ c.id \in DOMAIN accounts
      /\ \A a \in Ends(c) : SettledAccounts[a] = accounts[a]
  BY <1>1, SettledWhereAtWork
<1>4. c.op \in Atomic!Changes
  <2>1. c.op \in Op
    BY <1>1 DEF Inv, CallInv, PlaceInv, OpPlaces, Places
  <2> QED
    BY <1>1, <1>2, <1>3, <2>1, GettersAskOnly
<1>5. /\ ~DebitRefused(c)
      /\ Applied(c) = [accounts[c.id] EXCEPT !.balance = @ + Atomic!Gain(c, c.id),
                                             !.state = Atomic!NewState(c, c.id)]
  <2>1. c.op = "deposit" => accounts[c.id].balance + c.amount <= IntMax
    BY <1>1 DEF CreditFits
  <2> QED
    BY <1>1, <1>2, <1>3, <1>4, <2>1, AppliedIsGain DEF Ends
<1>6. pc'[t] \in {"stamp", "return"} /\ reply'[t] = reply[t]
  BY <1>5 DEF Apply, AfterApply, GoTo, Respond, Inv, TypeOK
<1>7. AnswersGiven' = [AnswersGiven EXCEPT ![t] =
                         Reply(IF c.op \in Atomic!Moves THEN "SUCCESS" ELSE "OK")]
  <2>1. AnswersGiven'[t] = Verdict(c)
    BY <1>1, <1>6 DEF AnswersGiven
  <2> QED
    BY <1>1, <1>2, <1>3, <1>4, <2>1, GrantedReply
<1>8. Atomic!May(c)
  BY <1>1, <1>2, <1>3, <1>4, GrantedMeansMay
<1>9. \A a : LeavingAmount(a)' = LeavingAmount(a)
  <2>1. \A u \in Threads : /\ pc[u] = "credit" <=> pc'[u] = "credit"
                           /\ pc[u] = "credit" => call'[u] = call[u]
    BY <1>1, <1>6, OthersStay
  <2> QED
    BY <2>1, LeavingFrame
<1>10. ASSUME NEW a \in DOMAIN accounts
       PROVE  SettledAccounts'[a] =
                [SettledAccounts[a] EXCEPT !.balance = @ + Atomic!Gain(c, a),
                                           !.state = Atomic!NewState(c, a)]
  <2>1. SettledAccounts'[a] = [accounts'[a] EXCEPT !.balance = @ + LeavingAmount(a)]
    BY <1>1, <1>9 DEF SettledAccounts
  <2>2. CASE a = c.id
    <3>1. accounts[a] = SettledAccounts[a] /\ accounts'[a] = Applied(c)
      BY <1>1, <1>3, <2>2 DEF Ends
    <3>2. LeavingAmount(a) = 0
      BY <1>1, <2>2, NothingLeavesOthers DEF AtWork, Ends
    <3>3. Applied(c) \in Accounts /\ Applied(c).balance \in Int
      BY <1>2, <1>3, AppliedType, ConstantsAreAmounts DEF Inv, Accounts, Balances
    <3>4. [Applied(c) EXCEPT !.balance = @ + 0] = Applied(c)
      BY <3>3 DEF Accounts
    <3> QED
      BY <1>5, <2>1, <2>2, <3>1, <3>2, <3>4
  <2>3. CASE a # c.id
    <3>1. SettledAccounts'[a] = SettledAccounts[a]
      BY <1>1, <2>1, <2>3 DEF SettledAccounts
    <3>2. Atomic!Gain(c, a) = 0 /\ Atomic!NewState(c, a) = Atomic!State(a)
      BY <2>3 DEF Atomic!Gain, Atomic!NewState
    <3> QED
      BY <3>1, <3>2, NoGain
  <2> QED
    BY <2>2, <2>3
<1> QED
  BY <1>1, <1>2, <1>7, <1>8, <1>10, GrantMaps

\* A transfer that has debited its source has not happened yet: what it took is
\* on its way, and the settled books hold it where it was.
LEMMA DebitMaps ==
    ASSUME Inv, Inv', DecisionInv, AnswerInv, NEW t \in Threads, Apply(t),
           call[t].op = "transfer"
    PROVE  UNCHANGED Atomic!vars
<1> DEFINE c == call[t]
<1>1. /\ pc[t] = "apply" /\ Granted(Verdict(c))
      /\ accounts' = [accounts EXCEPT ![c.id] = Applied(c)]
      /\ Step(t) /\ ~Return(t) /\ pc'[t] = "credit"
  BY DEF Apply, AfterApply, DebitRefused, Step, Return, Update, GoTo, DecisionInv,
     DecisionStillRight, Inv, TypeOK
<1>2. /\ c \in CallRecords /\ PendingCalls' = PendingCalls /\ call'[t] = c
      /\ AnswersGiven' = [AnswersGiven EXCEPT ![t] = AnswersGiven'[t]]
  BY <1>1, CallMaps
<1>3. AnswersGiven' = AnswersGiven
  BY <1>1, <1>2 DEF AnswersGiven
<1> PICK src : src = c.id
  OBVIOUS
<1>4. Passed(c) /\ src \in DOMAIN accounts /\ LeavingAmount(src) = 0
  BY <1>1, SettledWhereAtWork, NothingLeavesOthers DEF AtWork, Ends
<1>5. LeavingAmount(src)' = c.amount
  <2>1. (\A v \in Threads :
           pc[v] = "credit" => LeavingAmount(call[v].id) = call[v].amount)'
    BY LeavingIsAmount, PTL
  <2>2. pc'[t] = "credit" /\ call'[t].id = src /\ call'[t].amount = c.amount
    BY <1>1, <1>2
  <2> QED
    BY <2>1, <2>2
<1>6. Applied(c) = [accounts[c.id] EXCEPT !.balance = @ - c.amount]
  BY <1>1, <1>2, <1>4, TransferDebits
<1>7. ASSUME NEW a \in DOMAIN accounts
      PROVE  [accounts'[a] EXCEPT !.balance = @ + LeavingAmount(a)'] = SettledAccounts[a]
  <2>1. CASE a = src
    <3>1. accounts[a] \in Accounts /\ accounts[a].balance \in Int /\ c.amount \in Int
      BY <1>2, ConstantsAreAmounts
      DEF Inv, TypeOK, AccountsOK, Accounts, CallRecords, Balances
    <3>2. accounts'[a] = [accounts[a] EXCEPT !.balance = @ - c.amount]
      BY <1>1, <1>6, <2>1
    <3>3. [accounts'[a] EXCEPT !.balance = @ + c.amount] = accounts[a]
      <4>1. (accounts[a].balance - c.amount) + c.amount = accounts[a].balance
        BY <3>1
      <4> QED
        BY <3>1, <3>2, <4>1 DEF Accounts
    <3>4. SettledAccounts[a] = accounts[a]
      BY <1>4, <2>1, Settled
    <3> QED
      BY <1>5, <2>1, <3>3, <3>4
  <2>2. CASE a # src
    <3>1. \A u \in Threads :
            /\ pc[u] = "credit" /\ call[u].id = a <=> pc'[u] = "credit" /\ call'[u].id = a
            /\ pc[u] = "credit" /\ call[u].id = a => call'[u] = call[u]
      BY <1>1, <1>2, <2>2, OthersStay
    <3>2. LeavingAmount(a)' = LeavingAmount(a)
      BY <3>1, LeavingFrame
    <3> QED
      BY <1>1, <2>2, <3>2 DEF SettledAccounts
  <2> QED
    BY <2>1, <2>2
<1>8. SettledAccounts' = SettledAccounts
  <2>1. DOMAIN accounts' = DOMAIN accounts
    BY <1>1
  <2> QED
    BY <1>7, <2>1 DEF SettledAccounts
<1> QED
  BY <1>2, <1>3, <1>8 DEF Atomic!vars

\* The credit is the moment a transfer takes effect, at both ends at once.
LEMMA CreditMaps ==
    ASSUME Inv, Inv', DecisionInv, AnswerInv, CreditFits, NEW t \in Threads, CreditDest(t)
    PROVE  Atomic!TakeEffect(t)
<1> DEFINE c == call[t]
<1>1. /\ pc[t] = "credit" /\ pc'[t] = "stamp" /\ reply' = reply
      /\ accounts' = [accounts EXCEPT ![c.to] = Credit(accounts[c.to], c.amount)]
      /\ Step(t) /\ ~Return(t) /\ AtWork(t)
  BY DEF CreditDest, Step, Return, AtWork, Update, GoTo, Inv, TypeOK
<1>2. /\ c \in CallRecords /\ PendingCalls' = PendingCalls /\ PendingCalls[t] = c
      /\ c # NoCall /\ AnswersGiven[t] = Atomic!None /\ call'[t] = c
      /\ AnswersGiven' = [AnswersGiven EXCEPT ![t] = AnswersGiven'[t]]
  BY <1>1, CallMaps
<1>3. /\ c.op = "transfer" /\ c.id # c.to /\ c.amount > 0 /\ c.amount \in Int
      /\ c.id \in DOMAIN accounts /\ c.to \in DOMAIN accounts
      /\ c.id \in Ends(c) /\ c.to \in Ends(c)
  BY <1>1, <1>2, ConstantsAreAmounts
  DEF Inv, CallInv, PlaceInv, PassedInv, Passed, Ends, CallRecords, Balances
<1> PICK src : src = c.id
  OBVIOUS
<1>4. /\ reply[t] = Reply("SUCCESS") /\ accounts[c.id].state = "ACTIVE"
      /\ accounts[c.id].balance >= 0 /\ accounts[c.to].state # "CLOSED"
      /\ accounts[c.to].balance + c.amount <= IntMax
  BY <1>1 DEF AnswerInv, SourceDebited, DecisionInv, DecisionStillRight, CreditFits
<1>5. AnswersGiven' = [AnswersGiven EXCEPT ![t] =
                         Reply(IF c.op \in Atomic!Moves THEN "SUCCESS" ELSE "OK")]
  <2>1. AnswersGiven'[t] = Reply("SUCCESS")
    BY <1>1, <1>4 DEF AnswersGiven
  <2> QED
    BY <1>2, <1>3, <2>1 DEF Atomic!Moves
<1>6. /\ LeavingAmount(src) = c.amount /\ LeavingAmount(src)' = 0
      /\ \A a : a # src => LeavingAmount(a)' = LeavingAmount(a)
      /\ LeavingAmount(c.to) = 0
  <2>1. ASSUME NEW u \in Threads, pc'[u] = "credit"
        PROVE  u # t /\ pc[u] = "credit" /\ call'[u] = call[u] /\ call[u].id # src
    <3>1. u # t /\ pc[u] = "credit" /\ call'[u] = call[u]
      BY <1>1, <2>1, OthersStay
    <3>2. Ends(call[u]) \cap Ends(c) = {}
      BY <1>1, <3>1, LocksExclude DEF MutualExclusion, AtWork
    <3> QED
      BY <1>3, <3>1, <3>2 DEF Ends
  <2>2. ~Leaving(src)'
    BY <1>2, <2>1 DEF Leaving
  <2>3. LeavingAmount(src)' = 0
    BY <1>2, <2>1 DEF Leaving, LeavingAmount
  <2>4. ASSUME NEW a, a # src
        PROVE  LeavingAmount(a)' = LeavingAmount(a)
    <3>1. \A u \in Threads :
            /\ pc[u] = "credit" /\ call[u].id = a <=> pc'[u] = "credit" /\ call'[u].id = a
            /\ pc[u] = "credit" /\ call[u].id = a => call'[u] = call[u]
      BY <1>1, <2>1, <2>4, OthersStay
    <3> QED
      BY <3>1, LeavingFrame
  <2> QED
    BY <1>1, <1>3, <2>3, <2>4, LeavingIsAmount, NothingLeavesOthers
<1>7. Atomic!May(c)
  <2>1. /\ Atomic!Exists(c.id) /\ Atomic!Exists(c.to)
        /\ Atomic!State(c.id) = "ACTIVE" /\ Atomic!State(c.to) # "CLOSED"
        /\ Atomic!Balance(c.id) = accounts[c.id].balance + c.amount
    BY <1>3, <1>4, <1>6, Settled, SettledDomain
    DEF Atomic!Exists, Atomic!State, Atomic!Balance
  <2>2. accounts[c.id].balance \in Int
    <3>1. accounts[c.id] \in Accounts
      BY <1>3, Settled
    <3> QED
      BY <3>1, ConstantsAreAmounts DEF Accounts, Balances
  <2>3. c.amount <= Atomic!Balance(c.id)
    BY <1>3, <1>4, <2>1, <2>2
  <2> QED
    BY <1>3, <2>1, <2>3 DEF Atomic!May, Atomic!MayTransfer, Atomic!MayWithdraw
<1>8. ASSUME NEW a \in DOMAIN accounts
      PROVE  SettledAccounts'[a] =
               [SettledAccounts[a] EXCEPT !.balance = @ + Atomic!Gain(c, a),
                                          !.state = Atomic!NewState(c, a)]
  <2> DEFINE s == SettledAccounts[a]
  <2>1. SettledAccounts'[a] = [accounts'[a] EXCEPT !.balance = @ + LeavingAmount(a)']
    BY <1>1 DEF SettledAccounts
  <2>2. Atomic!State(a) = s.state
    BY DEF Atomic!State
  <2>3. accounts[a] \in Accounts /\ accounts[a].balance \in Int
    BY ConstantsAreAmounts DEF Inv, TypeOK, AccountsOK, Accounts, Balances
  <2>4. CASE a = src
    <3>1. accounts'[a] = accounts[a]
      BY <1>1, <1>3, <2>4
    <3>2. s = [accounts[a] EXCEPT !.balance = @ + c.amount]
      BY <1>6, <2>4 DEF SettledAccounts
    <3>3. Atomic!Gain(c, a) = -c.amount /\ Atomic!NewState(c, a) = s.state
      BY <1>3, <2>2, <2>4 DEF Atomic!Gain, Atomic!NewState
    <3>4. SettledAccounts'[a] = accounts[a]
      BY <1>6, <2>1, <2>3, <2>4, <3>1 DEF Accounts
    <3>5. s.balance + (-c.amount) = accounts[a].balance
      BY <1>3, <2>3, <3>2 DEF Accounts
    <3> QED
      BY <2>3, <3>2, <3>3, <3>4, <3>5 DEF Accounts
  <2>5. CASE a = c.to
    <3>1. accounts'[a] = [accounts[a] EXCEPT !.balance = @ + c.amount]
      BY <1>1, <1>3, <1>4, <2>3, <2>5, ConstantsAreAmounts DEF Credit, Wrap
    <3>2. s = accounts[a] /\ LeavingAmount(a)' = 0
      BY <1>3, <1>6, <2>5, Settled
    <3>3. Atomic!Gain(c, a) = c.amount /\ Atomic!NewState(c, a) = s.state
      BY <1>3, <2>2, <2>5 DEF Atomic!Gain, Atomic!NewState
    <3>4. SettledAccounts'[a] = [accounts[a] EXCEPT !.balance = @ + c.amount]
      <4>1. SettledAccounts'[a] = [accounts'[a] EXCEPT !.balance = @ + 0]
        BY <2>1, <3>2
      <4>2. (accounts[a].balance + c.amount) + 0 = accounts[a].balance + c.amount
        BY <1>3, <2>3
      <4> QED
        BY <2>3, <3>1, <4>1, <4>2 DEF Accounts
    <3> QED
      BY <2>3, <3>2, <3>3, <3>4 DEF Accounts
  <2>6. CASE a \notin {src, c.to}
    <3>1. SettledAccounts'[a] = s
      BY <1>1, <1>6, <2>1, <2>6 DEF SettledAccounts
    <3>2. Atomic!Gain(c, a) = 0 /\ Atomic!NewState(c, a) = Atomic!State(a)
      BY <1>3, <2>6 DEF Atomic!Gain, Atomic!NewState
    <3> QED
      BY <3>1, <3>2, NoGain
  <2> QED
    BY <2>4, <2>5, <2>6
<1>9. DOMAIN accounts' = DOMAIN accounts
  BY <1>1
<1> QED
  BY <1>2, <1>5, <1>7, <1>8, <1>9, GrantMaps

-----------------------------------------------------------------------------
\* Every other step of a call is its beginning, its end or nothing.
LEMMA StepMaps ==
    ASSUME Inv, Inv', DecisionInv, AnswerInv, CreditFits, NEW t \in Threads,
           Invoke(t) \/ Step(t)
    PROVE  \/ Atomic!Begin(t) \/ Atomic!TakeEffect(t) \/ Atomic!Finish(t)
           \/ UNCHANGED Atomic!vars
<1>1. CASE LockBank(t) \/ LockAccount(t) \/ TryOther(t) \/ BackOff(t) \/ LockForQuery(t)
             \/ OwnBank(t)
  <2>1. /\ Step(t) /\ ~Return(t) /\ accounts' = accounts /\ reply' = reply
        /\ pc[t] \in Undecided /\ pc'[t] \in Undecided
    BY <1>1 DEF Step, LockBank, LockAccount, AfterFirstLock, TryOther, BackOff,
       LockForQuery, OwnBank, Return, GoTo, Undecided, Inv, TypeOK
  <2>2. AnswersGiven'[t] = AnswersGiven[t] /\ pc[t] # "credit" /\ pc'[t] # "credit"
    BY <2>1 DEF AnswersGiven, Undecided
  <2> QED
    BY <2>1, <2>2, QuietMaps
<1>2. CASE Stamp(t) \/ TakeId(t) \/ LockRecords(t) \/ StoreRecord(t) \/ IndexRecord(t)
  <2>1. /\ Step(t) /\ ~Return(t) /\ accounts' = accounts /\ reply' = reply
        /\ pc[t] \in Decided /\ pc'[t] \in Decided
    BY <1>2 DEF Step, Stamp, TakeId, LockRecords, StoreRecord, IndexRecord, Return, GoTo,
       Decided, shared, Inv, TypeOK
  <2>2. AnswersGiven'[t] = AnswersGiven[t] /\ pc[t] # "credit" /\ pc'[t] # "credit"
    BY <2>1 DEF AnswersGiven, Decided
  <2> QED
    BY <2>1, <2>2, QuietMaps
<1>3. CASE Apply(t)
  BY <1>3, ApplyMaps, DebitMaps
<1> QED
  BY <1>1, <1>2, <1>3, InvokeMaps, CheckMaps, DecideMaps, CreditMaps, ReadMaps, OpenMaps,
     ReturnMaps DEF Step

\* However many calls interleave, and as long as no credit overflows, each takes
\* effect at one moment between its start and its answer, in full or not at all,
\* and its answer is the right one for that moment: the execute functions, the
\* getters and openAccount implement the abstract bank.
THEOREM OperationsAreAtomic == Spec /\ []CreditFits => TakesEffectAtomically
<1>1. Inv /\ Inv' /\ DecisionInv /\ AnswerInv /\ CreditFits /\ [Next]_vars =>
        [Atomic!Next]_Atomic!vars
  <2> SUFFICES ASSUME Inv, Inv', DecisionInv, AnswerInv, CreditFits, [Next]_vars
               PROVE  [Atomic!Next]_Atomic!vars
    OBVIOUS
  <2>1. CASE UNCHANGED vars
    <3>1. UNCHANGED <<accounts, pc, call, reply>>
      BY <2>1 DEF vars, shared
    <3>2. SettledAccounts' = SettledAccounts
      BY <3>1 DEF SettledAccounts, LeavingAmount, Leaving
    <3> QED
      BY <3>1, <3>2 DEF PendingCalls, AnswersGiven, Atomic!vars
  <2>2. ASSUME NEW t \in Threads, Invoke(t) \/ Step(t)
        PROVE  [Atomic!Next]_Atomic!vars
    BY <2>2, StepMaps DEF Atomic!Next
  <2> QED
    BY <2>1, <2>2 DEF Next, Done
<1> QED
  BY InvInvariant, DecisionInvariant, AnswerInvariant, InitMaps, <1>1, PTL
  DEF Spec, TakesEffectAtomically, Atomic!Spec
=============================================================================
