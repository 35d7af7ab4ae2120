---------------------------- MODULE MoneyProofs -----------------------------
(***************************************************************************)
(* The bank's money.  The total over all accounts and all transfers in     *)
(* flight follows the deposits and withdrawals and nothing else, every     *)
(* account's balance is what its histories say, and the dashboards show    *)
(* all the money and all the transactions there are.                       *)
(***************************************************************************)
EXTENDS RecordProofs, SumProofs, Displays

-----------------------------------------------------------------------------
(***************************************************************************)
(* The two sums of Total.                                                  *)
(***************************************************************************)
BalanceOf == [a \in DOMAIN accounts |-> accounts[a].balance]
FlightOf == [t \in Threads |-> InFlight(t)]

AccountsFinite == IsFiniteSet(DOMAIN accounts)

LEMMA AccountsFiniteInvariant == Spec => []AccountsFinite
<1>1. Init => AccountsFinite
  BY FinitelyMany DEF Init, AccountsFinite
<1>2. AccountsFinite /\ [Next]_vars => AccountsFinite'
  <2> SUFFICES ASSUME AccountsFinite, [Next]_vars
               PROVE  AccountsFinite'
    OBVIOUS
  <2>1. CASE UNCHANGED vars
    BY <2>1 DEF vars, shared, AccountsFinite
  <2>2. ASSUME NEW t \in Threads, OpenAccount(t)
        PROVE  AccountsFinite'
    <3>1. \/ DOMAIN accounts' = DOMAIN accounts
          \/ \E a \in AccountIds : DOMAIN accounts' = DOMAIN accounts \cup {a}
      BY <2>2, Opened
    <3> QED
      BY <3>1, FS_AddElement DEF AccountsFinite
  <2> QED
    BY <2>1, <2>2, DomainKept DEF Next, Step, Done, AccountsFinite
<1> QED
  BY <1>1, <1>2, PTL DEF Spec

LEMMA TotalIsTwoSums == Total = SumFunction(BalanceOf) + SumFunction(FlightOf)
BY Zenon DEF Total, BalanceOf, FlightOf

SumsTyped == BalanceOf \in [DOMAIN accounts -> Int] /\ FlightOf \in [Threads -> Int]

LEMMA SumsAreTyped == Inv => SumsTyped
<1>1. Inv => \A a \in DOMAIN accounts : accounts[a].balance \in Int
  BY ConstantsAreAmounts DEF Inv, TypeOK, AccountsOK, Accounts, Balances
<1>2. Inv => \A u \in Threads : call[u].amount \in Int
  BY ConstantsAreAmounts DEF Inv, TypeOK, CallRecords, Balances
<1> QED
  BY <1>1, <1>2 DEF SumsTyped, BalanceOf, FlightOf, InFlight

\* What a step of t does to the money in flight.
LEMMA FlightStep ==
    ASSUME Inv, Inv', NEW t \in Threads, Invoke(t) \/ Step(t)
    PROVE  /\ SumFunction(FlightOf) \in Int
           /\ SumFunction(FlightOf') = SumFunction(FlightOf) + (FlightOf'[t] - FlightOf[t])
<1>1. SumsTyped /\ SumsTyped'
  BY SumsAreTyped, PTL
<1>2. \A u \in Threads \ {t} : FlightOf'[u] = FlightOf[u]
  BY OthersStay DEF FlightOf, InFlight
<1> QED
  BY <1>1, <1>2, FinitelyMany, SumChanges DEF SumsTyped

\* What a step that gives account a another balance does to the balances.
LEMMA BalanceStep ==
    ASSUME Inv, Inv', AccountsFinite, NEW a \in DOMAIN accounts, NEW account,
           accounts' = [accounts EXCEPT ![a] = account]
    PROVE  /\ SumFunction(BalanceOf) \in Int
           /\ SumFunction(BalanceOf') =
                SumFunction(BalanceOf) + (account.balance - accounts[a].balance)
<1>1. DOMAIN accounts' = DOMAIN accounts
  OBVIOUS
<1>2. SumsTyped /\ SumsTyped'
  BY SumsAreTyped, PTL
<1>3. /\ \A b \in DOMAIN accounts \ {a} : BalanceOf'[b] = BalanceOf[b]
      /\ BalanceOf'[a] = account.balance /\ BalanceOf[a] = accounts[a].balance
  BY DEF BalanceOf
<1> QED
  BY <1>1, <1>2, <1>3, SumChanges DEF SumsTyped, AccountsFinite

\* A new account holds nothing.
LEMMA OpeningStep ==
    ASSUME Inv, Inv', AccountsFinite, NEW t \in Threads, OpenAccount(t)
    PROVE  /\ SumFunction(BalanceOf) \in Int
           /\ SumFunction(BalanceOf') = SumFunction(BalanceOf)
<1>0. SumsTyped /\ SumsTyped'
  BY SumsAreTyped, PTL
<1>1. CASE accounts' = accounts
  <2>1. BalanceOf' = BalanceOf
    BY <1>1 DEF BalanceOf
  <2>2. SumFunction(BalanceOf) \in Int
    BY <1>0, SumType DEF SumsTyped, SumFunction, AccountsFinite
  <2> QED
    BY <2>1, <2>2
<1>2. CASE accounts' # accounts
  <2>1. PICK a \in AccountIds \ DOMAIN accounts :
          /\ DOMAIN accounts' = DOMAIN accounts \cup {a}
          /\ accounts'[a] = NewAccount(call[t].id)
          /\ \A b \in DOMAIN accounts : accounts'[b] = accounts[b]
    BY <1>2, Opened
  <2>2. /\ BalanceOf'[a] = 0
        /\ \A b \in DOMAIN accounts : BalanceOf'[b] = BalanceOf[b]
    BY <2>1 DEF BalanceOf, NewAccount
  <2>3. /\ SumFunction(BalanceOf) \in Int
        /\ SumFunction(BalanceOf') = SumFunction(BalanceOf) + BalanceOf'[a]
    <3>1. BalanceOf \in [DOMAIN accounts -> Int] /\ BalanceOf' \in [DOMAIN accounts' -> Int]
      BY <1>0 DEF SumsTyped
    <3> HIDE DEF BalanceOf
    <3> QED
      BY <2>1, <2>2, <3>1, SumGrows DEF AccountsFinite
  <2> QED
    BY <2>2, <2>3
<1> QED
  BY <1>1, <1>2

-----------------------------------------------------------------------------
(***************************************************************************)
(* The steps.  Only Apply, CreditDest and OpenAccount touch the accounts,  *)
(* and only a transfer puts money in flight and lands it.                  *)
(***************************************************************************)
\* The change of the balance an applied call makes.
LEMMA AppliedMoves ==
    ASSUME Inv, DecisionInv, CreditFits, NEW t \in Threads, Apply(t)
    PROVE  /\ call[t].id \in DOMAIN accounts
           /\ accounts[call[t].id].balance \in Int
           /\ Applied(call[t]).balance - accounts[call[t].id].balance =
                CASE call[t].op = "deposit" -> call[t].amount
                  [] call[t].op \in {"withdraw", "transfer"} -> - call[t].amount
                  [] OTHER -> 0
<1> DEFINE c == call[t]
           account == accounts[c.id]
<1>1. c \in CallRecords /\ Passed(c) /\ c.op \in Op /\ pc[t] = "apply"
  BY DEF Apply, Inv, TypeOK, CallInv, PlaceInv, PassedInv, OpPlaces, Places
<1>2. /\ c.id \in DOMAIN accounts /\ account \in Accounts
      /\ account.balance \in Int /\ c.amount \in Int
      /\ account.state \in AccountState
  BY <1>1, ConstantsAreAmounts
  DEF Passed, Ends, Inv, TypeOK, AccountsOK, Accounts, CallRecords, Balances
<1>3. Granted(Verdict(c))
  BY <1>1 DEF DecisionInv, DecisionStillRight
<1>4. CASE c.op = "deposit"
  <2>1. account.balance + c.amount <= IntMax /\ c.amount > 0
    BY <1>1, <1>4 DEF CreditFits, Passed
  <2>2. Credit(account, c.amount) = [account EXCEPT !.balance = @ + c.amount]
    BY <1>2, <2>1, ConstantsAreAmounts DEF Credit, Wrap, Accounts
  <2>3. Applied(c).balance = account.balance + c.amount
    BY <1>2, <1>4, <2>2 DEF Applied, Deposited, Unfreeze, Accounts
  <2> QED
    BY <1>2, <1>4, <2>3
<1>5. CASE c.op = "withdraw"
  <2>1. WithdrawVerdict(account, c.amount) = "SUCCESS"
    BY <1>3, <1>5 DEF Verdict, Granted, Reply, WithdrawVerdict
  <2>2. DebitSucceeds(account, c.amount)
    BY <1>1, <1>2, <1>5, <2>1 DEF WithdrawVerdict, DebitSucceeds, Passed, AccountState
  <2>3. Applied(c).balance = account.balance - c.amount
    BY <1>2, <1>5, <2>2 DEF Applied, Debit, Accounts
  <2> QED
    BY <1>2, <1>5, <2>3
<1>6. CASE c.op = "transfer"
  <2>1. Applied(c) = [account EXCEPT !.balance = @ - c.amount]
    BY <1>1, <1>3, <1>6, TransferDebits
  <2>2. Applied(c).balance = account.balance - c.amount
    BY <1>2, <2>1 DEF Accounts
  <2> QED
    BY <1>2, <1>6, <2>2
<1>7. CASE c.op \notin {"deposit", "withdraw", "transfer"}
  <2>1. Applied(c).balance = account.balance
    BY <1>2, <1>7 DEF Applied, Freeze, Unfreeze, Close, Accounts
  <2> QED
    BY <1>2, <1>7, <2>1
<1> QED
  BY <1>2, <1>4, <1>5, <1>6, <1>7

LEMMA ApplyMoves ==
    ASSUME Inv, Inv', DecisionInv, CreditFits, AccountsFinite, NEW t \in Threads, Apply(t)
    PROVE  \/ Total' = Total
           \/ /\ pc[t] = "apply"
              /\ \/ call[t].op = "deposit" /\ Total' = Total + call[t].amount
                 \/ call[t].op = "withdraw" /\ Total' = Total - call[t].amount
<1> DEFINE c == call[t]
           gain == Applied(c).balance - accounts[c.id].balance
<1>1. /\ pc[t] = "apply" /\ pc'[t] = AfterApply(c) /\ call' = call
      /\ accounts' = [accounts EXCEPT ![c.id] = Applied(c)]
  BY DEF Apply, Update, GoTo, Inv, TypeOK
<1>2. /\ c.id \in DOMAIN accounts
      /\ gain = CASE c.op = "deposit" -> c.amount
                  [] c.op \in {"withdraw", "transfer"} -> - c.amount
                  [] OTHER -> 0
  BY AppliedMoves
<1>3. /\ SumFunction(BalanceOf) \in Int
      /\ SumFunction(BalanceOf') = SumFunction(BalanceOf) + gain
  BY <1>1, <1>2, BalanceStep
<1>4. /\ SumFunction(FlightOf) \in Int
      /\ SumFunction(FlightOf') = SumFunction(FlightOf) + (FlightOf'[t] - FlightOf[t])
  BY FlightStep DEF Step
<1>5. FlightOf[t] = 0 /\ FlightOf'[t] = IF c.op = "transfer" THEN c.amount ELSE 0
  BY <1>1 DEF FlightOf, InFlight, AfterApply, DebitRefused
<1>6. c.amount \in Int
  BY ConstantsAreAmounts DEF Inv, TypeOK, CallRecords, Balances
<1>7. /\ Total = SumFunction(BalanceOf) + SumFunction(FlightOf)
      /\ Total' = SumFunction(BalanceOf') + SumFunction(FlightOf')
  BY TotalIsTwoSums, Zenon DEF Total, BalanceOf, FlightOf
<1> HIDE DEF gain
<1> QED
  BY <1>1, <1>2, <1>3, <1>4, <1>5, <1>6, <1>7

LEMMA CreditMoves ==
    ASSUME Inv, Inv', CreditFits, AccountsFinite, NEW t \in Threads, CreditDest(t)
    PROVE  Total' = Total
<1> DEFINE c == call[t]
           credited == Credit(accounts[c.to], c.amount)
<1>1. /\ pc[t] = "credit" /\ pc'[t] = "stamp" /\ c.amount \in Int
      /\ accounts' = [accounts EXCEPT ![c.to] = credited]
  BY ConstantsAreAmounts
  DEF CreditDest, Update, GoTo, Inv, TypeOK, CallRecords, Balances
<1>2. /\ c.op = "transfer" /\ c.to \in DOMAIN accounts /\ c.amount > 0
      /\ accounts[c.to] \in Accounts /\ accounts[c.to].balance \in Int
      /\ accounts[c.to].balance + c.amount <= IntMax
  <2>1. c.op = "transfer" /\ Passed(c)
    BY <1>1 DEF Inv, CallInv, PlaceInv, PassedInv
  <2>2. c.to \in DOMAIN accounts /\ c.amount > 0
    BY <2>1 DEF Passed, Ends
  <2>3. accounts[c.to] \in Accounts
    BY <2>2 DEF Inv, TypeOK, AccountsOK
  <2>4. accounts[c.to].balance \in Int
    BY <2>3, ConstantsAreAmounts DEF Accounts, Balances
  <2>5. accounts[c.to].balance + c.amount <= IntMax
    BY <1>1 DEF CreditFits
  <2> QED
    BY <2>1, <2>2, <2>3, <2>4, <2>5
<1>3. credited.balance - accounts[c.to].balance = c.amount
  BY <1>1, <1>2, ConstantsAreAmounts DEF Credit, Wrap, Accounts
<1>4. /\ SumFunction(BalanceOf) \in Int
      /\ SumFunction(BalanceOf') = SumFunction(BalanceOf) + c.amount
  <2> HIDE DEF credited
  <2> QED
    BY <1>1, <1>2, <1>3, BalanceStep
<1>5. /\ SumFunction(FlightOf) \in Int
      /\ SumFunction(FlightOf') = SumFunction(FlightOf) + (FlightOf'[t] - FlightOf[t])
  BY FlightStep DEF Step
<1>6. FlightOf[t] = c.amount /\ FlightOf'[t] = 0
  BY <1>1 DEF FlightOf, InFlight
<1>7. /\ Total = SumFunction(BalanceOf) + SumFunction(FlightOf)
      /\ Total' = SumFunction(BalanceOf') + SumFunction(FlightOf')
  BY TotalIsTwoSums, Zenon DEF Total, BalanceOf, FlightOf
<1> QED
  BY <1>1, <1>4, <1>5, <1>6, <1>7

\* No other step moves money.
LEMMA OthersMoveNothing ==
    ASSUME Inv, Inv', AccountsFinite, NEW t \in Threads, Invoke(t) \/ Step(t),
           ~Apply(t), ~CreditDest(t)
    PROVE  Total' = Total
<1>1. SumFunction(BalanceOf') = SumFunction(BalanceOf)
  <2>1. CASE OpenAccount(t)
    BY <2>1, OpeningStep
  <2>2. CASE ~OpenAccount(t)
    <3>1. accounts' = accounts
      BY <2>2 DEF Invoke, Step, LockBank, Check, LockAccount, TryOther, BackOff, Decide,
         Stamp, TakeId, LockRecords, StoreRecord, IndexRecord, LockForQuery, Read,
         OwnBank, Return, shared
    <3> QED
      BY <3>1 DEF BalanceOf
  <2> QED
    BY <2>1, <2>2
<1>2. pc[t] # "credit" /\ pc'[t] # "credit"
  <2>1. CASE Invoke(t)
    BY <2>1, Begins, Zenon DEF Invoke, Inv, TypeOK
  <2>2. CASE Step(t)
    BY <2>2 DEF Step, LockBank, Check, LockAccount, AfterFirstLock, TryOther, BackOff,
       Decide, Stamp, TakeId, LockRecords, StoreRecord, IndexRecord, LockForQuery, Read,
       OwnBank, OpenAccount, Return, GoTo, Inv, TypeOK
  <2> QED
    BY <2>1, <2>2
<1>3. FlightOf' = FlightOf
  BY <1>2, OthersStay DEF FlightOf, InFlight
<1> QED
  BY <1>1, <1>3, TotalIsTwoSums, Zenon DEF Total, BalanceOf, FlightOf

\* As long as no credit overflows, the bank's total changes by deposits and
\* withdrawals alone, by their own amount: transfers that interleave with each
\* other, with withdrawals and with closings neither create nor destroy money.
THEOREM MoneyIsConserved == Spec /\ []CreditFits => MoneyOnlyMoves
<1>1. Inv /\ Inv' /\ DecisionInv /\ CreditFits /\ AccountsFinite /\ [Next]_vars =>
        [\/ Total' = Total
         \/ \E t \in Threads :
              /\ pc[t] = "apply"
              /\ \/ call[t].op = "deposit" /\ Total' = Total + call[t].amount
                 \/ call[t].op = "withdraw" /\ Total' = Total - call[t].amount
        ]_vars
  BY ApplyMoves, CreditMoves, OthersMoveNothing DEF Next, Done
<1> QED
  BY InvInvariant, DecisionInvariant, AccountsFiniteInvariant, <1>1, PTL
  DEF Spec, MoneyOnlyMoves

-----------------------------------------------------------------------------
(***************************************************************************)
(* The books.  What an account's histories say and what the calls at work  *)
(* on it have changed but not filed yet add up to its balance.             *)
(***************************************************************************)
\* The call of t has moved its money and its record is not filed yet.
Filing(t) ==
    /\ pc[t] \in {"stamp", "id", "record", "store", "index"}
    /\ reply[t].status = "SUCCESS"

\* What the call of t has done to the balance of a and not filed yet.
Unfiled(t, a) ==
    LET c == call[t]
    IN  IF c.op = "deposit" /\ Filing(t) /\ a = c.id THEN c.amount
        ELSE IF c.op = "transfer" /\ (Filing(t) \/ pc[t] = "credit") /\ a = c.id
             THEN - c.amount
        ELSE IF c.op = "transfer" /\ Filing(t) /\ a = c.to THEN c.amount
        ELSE 0
UnfiledOf(a) == [t \in Threads |-> Unfiled(t, a)]

Received(a) == Amounts(Successful(history_by_dest[a]))
Sent(a) == Amounts(Successful(history_by_src[a]))

FilersInv == \A t \in Threads : Filing(t) => call[t].op \in {"deposit", "transfer"}

\* A successful record names accounts that exist.
NamesInv ==
    \A i \in Stored : transactions[i].status = "SUCCESS" =>
      /\ transactions[i].src_id \in DOMAIN accounts \cup {0}
      /\ transactions[i].dest_id \in DOMAIN accounts \cup {0}

BalanceInv ==
    \A a \in DOMAIN accounts :
      accounts[a].balance = Received(a) - Sent(a) + SumFunction(UnfiledOf(a))

BooksInv == FilersInv /\ NamesInv /\ BalanceInv

UnfiledOK == \A a : UnfiledOf(a) \in [Threads -> Int]

LEMMA UnfiledTyped == Inv => UnfiledOK
<1>1. Inv => \A u \in Threads : call[u].amount \in Int
  BY ConstantsAreAmounts DEF Inv, TypeOK, CallRecords, Balances
<1> QED
  BY <1>1 DEF UnfiledOK, UnfiledOf, Unfiled

\* Only a call that holds its account has something unfiled there.
LEMMA UnfiledIsHeld ==
    ASSUME Inv, WritersInv, NEW t \in Threads, NEW a, Unfiled(t, a) # 0
    PROVE  a \in DOMAIN accounts /\ mtx[a] = t
<1>1. Filing(t) \/ pc[t] = "credit"
  BY DEF Unfiled
<1>2. a \in Ends(call[t])
  BY DEF Unfiled, Ends
<1>3. Passed(call[t])
  BY <1>1 DEF Filing, Knows, WritersInv, Inv, CallInv, PassedInv
<1>4. Inside(t)
  BY <1>1, <1>3 DEF Filing, Inside, AtWork, Inv, CallInv, PlaceInv, OpPlaces, Places
<1> QED
  BY <1>2, <1>3, <1>4 DEF Passed, Inv, LockInv, AccountLockInv

LEMMA NothingUnfiled ==
    ASSUME Inv, WritersInv, NEW a, \A t \in Threads : a \notin DOMAIN accounts \/ mtx[a] # t
    PROVE  SumFunction(UnfiledOf(a)) = 0
<1>1. \A t \in Threads : UnfiledOf(a)[t] = 0
  BY UnfiledIsHeld DEF UnfiledOf
<1>2. DOMAIN UnfiledOf(a) = Threads
  BY DEF UnfiledOf
<1>3. SumFunctionOnSet(UnfiledOf(a), Threads) = 0
  <2> HIDE DEF UnfiledOf
  <2> QED
    BY <1>1, FinitelyMany, SumOfZeros
<1> QED
  BY <1>2, <1>3 DEF SumFunction

\* What a step of t leaves unfiled at a.
LEMMA UnfiledStep ==
    ASSUME Inv, Inv', NEW t \in Threads, Invoke(t) \/ Step(t), NEW a
    PROVE  /\ SumFunction(UnfiledOf(a)) \in Int
           /\ SumFunction(UnfiledOf(a)') =
                SumFunction(UnfiledOf(a)) + (Unfiled(t, a)' - Unfiled(t, a))
<1>1. UnfiledOf(a) \in [Threads -> Int] /\ UnfiledOf(a)' \in [Threads -> Int]
  <2>1. UnfiledOK /\ UnfiledOK'
    BY UnfiledTyped, PTL
  <2> QED
    BY <2>1 DEF UnfiledOK
<1>2. \A u \in Threads \ {t} : UnfiledOf(a)'[u] = UnfiledOf(a)[u]
  BY OthersStay DEF UnfiledOf, Unfiled, Filing
<1>3. UnfiledOf(a)[t] = Unfiled(t, a) /\ UnfiledOf(a)'[t] = Unfiled(t, a)'
  BY DEF UnfiledOf
<1> HIDE DEF UnfiledOf, Unfiled
<1>4. /\ SumFunction(UnfiledOf(a)) \in Int
      /\ SumFunction(UnfiledOf(a)') =
           SumFunction(UnfiledOf(a)) + (UnfiledOf(a)'[t] - UnfiledOf(a)[t])
  BY <1>1, <1>2, FinitelyMany, SumChanges
<1> QED
  BY <1>3, <1>4

-----------------------------------------------------------------------------
(***************************************************************************)
(* What the histories say changes when a record is filed, not before.      *)
(***************************************************************************)
LEMMA AmountsType ==
    ASSUME Inv, EveryIdAccountedFor, NEW ids \in SUBSET Stored
    PROVE  /\ IsFiniteSet(ids)
           /\ [i \in ids |-> transactions[i].amount] \in [ids -> Int]
           /\ Amounts(ids) \in Int
<1>1. IsFiniteSet(ids)
  BY StoredFinite, FS_Subset
<1>2. \A i \in ids : transactions[i].amount \in Int
  BY TypeInv, ConstantsAreAmounts DEF Records, Balances
<1> DEFINE f == [i \in ids |-> transactions[i].amount]
<1>3. f \in [ids -> Int]
  BY <1>2
<1>4. SumFunction(f) \in Int
  <2>1. DOMAIN f = ids /\ \A i \in ids : f[i] \in Int
    BY <1>3
  <2> HIDE DEF f
  <2> QED
    BY <1>1, <2>1, SumType DEF SumFunction
<1> QED
  BY <1>1, <1>3, <1>4 DEF Amounts

LEMMA AmountsOfNothing == Amounts({}) = 0
<1> DEFINE none == [i \in {} |-> transactions[i].amount]
<1>1. DOMAIN none = {}
  OBVIOUS
<1>2. SumFunction(none) = 0
  <2> HIDE DEF none
  <2> QED
    BY <1>1, SumOfNothing DEF SumFunction
<1> QED
  BY <1>2 DEF Amounts

\* The ids of a history are those of stored records.
LEMMA HistoryStored ==
    ASSUME IndexInv, NEW a \in AccountIds
    PROVE  /\ Range(history_by_src[a]) \subseteq Filed
           /\ Range(history_by_dest[a]) \subseteq Filed
           /\ Filed \subseteq Stored
           /\ Successful(history_by_src[a]) \subseteq Stored
           /\ Successful(history_by_dest[a]) \subseteq Stored
BY DEF IndexInv, Lists, From, To, Filed, Successful

\* A history that gets one more record says that much more, if it succeeded.
LEMMA HistoryMoves ==
    ASSUME Inv, EveryIdAccountedFor, NEW history, Range(history) \subseteq Stored,
           NEW longer, NEW id \in Stored, id \notin Range(history),
           Range(longer) = Range(history) \cup {id}
    PROVE  /\ Amounts(Successful(history)) \in Int
           /\ Amounts(Successful(longer)) = Amounts(Successful(history))
                + IF transactions[id].status = "SUCCESS" THEN transactions[id].amount ELSE 0
<1> DEFINE S == Successful(history)
           L == Successful(longer)
           f == [i \in S |-> transactions[i].amount]
           h == [i \in L |-> transactions[i].amount]
<1>1. S \in SUBSET Stored /\ L \in SUBSET Stored /\ id \notin S
  BY DEF Successful
<1>2. /\ IsFiniteSet(S) /\ f \in [S -> Int] /\ Amounts(S) \in Int
      /\ h \in [L -> Int] /\ Amounts(L) \in Int
  <2> HIDE DEF S, L
  <2> QED
    BY <1>1, AmountsType
<1>3. CASE transactions[id].status = "SUCCESS"
  <2>1. L = S \cup {id}
    BY <1>3 DEF Successful
  <2>2. (\A i \in S : h[i] = f[i]) /\ h[id] = transactions[id].amount
    BY <2>1
  <2>3. SumFunction(f) \in Int /\ SumFunction(h) = SumFunction(f) + h[id]
    <3>1. h \in [S \cup {id} -> Int]
      BY <1>2, <2>1
    <3> HIDE DEF S, L, f, h
    <3>2. id \notin S /\ IsFiniteSet(S) /\ f \in [S -> Int] /\ \A i \in S : h[i] = f[i]
      BY <1>1, <1>2, <2>2
    <3> QED
      BY <3>1, <3>2, SumGrows
  <2> QED
    BY <1>2, <1>3, <2>2, <2>3 DEF Amounts
<1>4. CASE transactions[id].status # "SUCCESS"
  <2>1. L = S
    BY <1>4 DEF Successful
  <2> QED
    BY <1>2, <1>4, <2>1
<1> QED
  BY <1>3, <1>4

LEMMA IndexMoves ==
    ASSUME Inv, EveryIdAccountedFor, IndexInv, NEW t \in Threads, IndexRecord(t),
           NEW a \in AccountIds
    PROVE  LET record == RecordOf(t)
               gain == IF record.status = "SUCCESS" THEN record.amount ELSE 0
           IN  /\ Received(a) \in Int /\ Sent(a) \in Int
               /\ Received(a)' = Received(a) + IF record.dest_id = a THEN gain ELSE 0
               /\ Sent(a)' = Sent(a) + IF record.src_id = a THEN gain ELSE 0
<1> DEFINE id == tx_id[t]
           record == RecordOf(t)
           gain == IF record.status = "SUCCESS" THEN record.amount ELSE 0
<1>1. /\ id \in Stored /\ transactions[id] = record /\ id \notin Filed
      /\ transactions' = transactions /\ id \in TxIds
  BY IndexStep, TypeInv
<1>2. /\ Range(history_by_src[a]) \subseteq Filed
      /\ Range(history_by_dest[a]) \subseteq Filed /\ Filed \subseteq Stored
      /\ Successful(history_by_src[a]) \in SUBSET Stored
      /\ Successful(history_by_dest[a]) \in SUBSET Stored
  BY HistoryStored
<1>3. Received(a) \in Int /\ Sent(a) \in Int
  BY <1>2, AmountsType DEF Received, Sent
<1>4. /\ Received(a)' = Amounts(Successful(history_by_dest'[a]))
      /\ Sent(a)' = Amounts(Successful(history_by_src'[a]))
  BY <1>1 DEF Received, Sent, Amounts, Successful
<1>5. history_by_src[a] \in Seq(TxIds) /\ history_by_dest[a] \in Seq(TxIds)
  BY DEF Inv, TypeOK
<1>6. \A history \in Seq(TxIds) : Range(Append(history, id)) = Range(history) \cup {id}
  <2> SUFFICES ASSUME NEW history \in Seq(TxIds)
               PROVE  Range(Append(history, id)) = Range(history) \cup {id}
    OBVIOUS
  <2> DEFINE longer == Append(history, id)
  <2>1. /\ DOMAIN history = 1 .. Len(history) /\ DOMAIN longer = 1 .. Len(history) + 1
        /\ Len(history) \in Nat /\ \A i \in 1 .. Len(history) : longer[i] = history[i]
        /\ longer[Len(history) + 1] = id
    BY <1>1
  <2> HIDE DEF longer
  <2>2. Range(longer) = Range(history) \cup {id}
    BY <2>1 DEF Range
  <2> QED
    BY <2>2 DEF longer
<1>7. Received(a)' = Received(a) + IF record.dest_id = a THEN gain ELSE 0
  <2>1. CASE record.dest_id = a
    <3>1. history_by_dest'[a] = Append(history_by_dest[a], id)
      BY <2>1, AppendToLists
    <3>2. Range(history_by_dest'[a]) = Range(history_by_dest[a]) \cup {id}
      BY <1>5, <1>6, <3>1
    <3>3. Amounts(Successful(history_by_dest'[a]))
            = Amounts(Successful(history_by_dest[a]))
                + IF transactions[id].status = "SUCCESS" THEN transactions[id].amount ELSE 0
      BY <1>1, <1>2, <3>2, HistoryMoves
    <3> QED
      BY <1>1, <1>4, <2>1, <3>3 DEF Received
  <2>2. CASE record.dest_id # a
    <3>1. history_by_dest'[a] = history_by_dest[a]
      BY <2>2, AppendToLists
    <3> QED
      BY <1>3, <1>4, <2>2, <3>1 DEF Received
  <2> QED
    BY <2>1, <2>2
<1>8. Sent(a)' = Sent(a) + IF record.src_id = a THEN gain ELSE 0
  <2>1. CASE record.src_id = a
    <3>1. history_by_src'[a] = Append(history_by_src[a], id)
      BY <2>1, AppendToLists
    <3>2. Range(history_by_src'[a]) = Range(history_by_src[a]) \cup {id}
      BY <1>5, <1>6, <3>1
    <3>3. Amounts(Successful(history_by_src'[a]))
            = Amounts(Successful(history_by_src[a]))
                + IF transactions[id].status = "SUCCESS" THEN transactions[id].amount ELSE 0
      BY <1>1, <1>2, <3>2, HistoryMoves
    <3> QED
      BY <1>1, <1>4, <2>1, <3>3 DEF Sent
  <2>2. CASE record.src_id # a
    <3>1. history_by_src'[a] = history_by_src[a]
      BY <2>2, AppendToLists
    <3> QED
      BY <1>3, <1>4, <2>2, <3>1 DEF Sent
  <2> QED
    BY <2>1, <2>2
<1> QED
  BY <1>3, <1>7, <1>8

LEMMA HistoriesKept ==
    ASSUME Inv, EveryIdAccountedFor, IndexInv, NEW t \in Threads, Invoke(t) \/ Step(t),
           ~IndexRecord(t), NEW a \in AccountIds
    PROVE  Received(a)' = Received(a) /\ Sent(a)' = Sent(a)
<1>1. /\ Successful(history_by_src[a]) \subseteq Stored
      /\ Successful(history_by_dest[a]) \subseteq Stored
      /\ Range(history_by_src[a]) \subseteq Stored
      /\ Range(history_by_dest[a]) \subseteq Stored
  BY HistoryStored
<1>2. /\ UNCHANGED <<history_by_src, history_by_dest>>
      /\ \A i \in Stored : transactions'[i] = transactions[i]
  BY StoreStep, LedgerFrame DEF ledger
<1>3. /\ Successful(history_by_src[a])' = Successful(history_by_src[a])
      /\ Successful(history_by_dest[a])' = Successful(history_by_dest[a])
  BY <1>1, <1>2 DEF Successful
<1>4. \A ids \in SUBSET Stored :
        [i \in ids |-> transactions'[i].amount] = [i \in ids |-> transactions[i].amount]
  BY <1>2
<1> QED
  BY <1>1, <1>3, <1>4 DEF Received, Sent, Amounts

-----------------------------------------------------------------------------
(***************************************************************************)
(* Each step keeps the books.  Only Apply and CreditDest change a balance; *)
(* what they change is unfiled until IndexRecord files it.                 *)
(***************************************************************************)
\* What a granted call is answered, and where it goes from Apply.
LEMMA ApplyGoes ==
    ASSUME Inv, DecisionInv, NothingWithdrawn, NEW t \in Threads, Apply(t)
    PROVE  /\ call'[t] = call[t] /\ reply'[t] = reply[t] /\ pc[t] = "apply"
           /\ call[t].op \in {"deposit", "transfer"} => reply[t].status = "SUCCESS"
           /\ pc'[t] = CASE call[t].op = "deposit" -> "stamp"
                         [] call[t].op = "transfer" -> "credit"
                         [] OTHER -> "return"
<1>1. pc[t] = "apply" /\ call[t].op # "withdraw"
  BY DEF Apply, NothingWithdrawn
<1>2. reply[t] = Verdict(call[t]) /\ Granted(reply[t])
  BY <1>1 DEF DecisionInv, DecisionStillRight
<1>3. call[t].op \in {"deposit", "transfer"} => reply[t].status = "SUCCESS"
  BY <1>2 DEF Verdict, Granted, Reply, DepositVerdict, TransferVerdict
<1> QED
  BY <1>1, <1>3, TypeInv
  DEF Apply, Respond, GoTo, DebitRefused, AfterApply, Inv, TypeOK

\* The quiet steps: what t has moved and not filed stays what it is.
LEMMA QuietStays ==
    ASSUME Inv, NEW t \in Threads, Invoke(t) \/ Step(t),
           ~Apply(t), ~CreditDest(t), ~IndexRecord(t)
    PROVE  /\ pc[t] # "credit" /\ pc'[t] # "credit"
           /\ Filing(t)' <=> Filing(t)
           /\ Filing(t) => call'[t] = call[t]
<1>1. pc[t] # "credit" /\ pc'[t] # "credit"
  <2>1. CASE Invoke(t)
    BY <2>1, Begins, TypeInv, Zenon DEF Invoke
  <2>2. CASE Step(t)
    BY <2>2, TypeInv DEF Step, LockBank, Check, LockAccount, AfterFirstLock, TryOther, BackOff,
       Decide, Stamp, TakeId, LockRecords, StoreRecord, IndexRecord, LockForQuery, Read,
       OwnBank, OpenAccount, Return, GoTo
  <2> QED
    BY <2>1, <2>2
<1>2. CASE Invoke(t)
  BY <1>2, Begins, TypeInv, Zenon DEF Invoke, Filing
<1>3. CASE Check(t)
  <2>1. pc'[t] = "stamp" => Recorded(call[t], EarlyReply(call[t]))
    BY <1>3, TypeInv DEF Check, GoTo
  <2>2. Recorded(call[t], EarlyReply(call[t])) => EarlyReply(call[t]).status # "SUCCESS"
    BY DEF EarlyReply, Recorded, Reply, Value, NoReply
  <2>3. pc[t] = "check" /\ reply'[t] = EarlyReply(call[t]) /\ pc'[t] \in {"lock", "stamp", "return"}
    BY <1>3, TypeInv DEF Check, GoTo, Respond, Inv, TypeOK
  <2> QED
    BY <1>1, <2>1, <2>2, <2>3 DEF Filing
<1>4. CASE Decide(t)
  <2>1. pc'[t] = "stamp" => ~Granted(Verdict(call[t]))
    BY <1>4, TypeInv DEF Decide, GoTo
  <2>2. /\ pc[t] = "decide" /\ reply'[t] = Verdict(call[t])
        /\ pc'[t] \in {"apply", "stamp", "return"}
    BY <1>4, TypeInv DEF Decide, GoTo, Respond, Inv, TypeOK
  <2> QED
    BY <1>1, <2>1, <2>2 DEF Filing, Granted
<1>5. CASE Stamp(t) \/ TakeId(t) \/ LockRecords(t) \/ StoreRecord(t)
  BY <1>1, <1>5, TypeInv DEF Stamp, TakeId, LockRecords, StoreRecord, GoTo, shared, Filing
<1>6. CASE \/ LockBank(t) \/ LockAccount(t) \/ TryOther(t) \/ BackOff(t) \/ LockForQuery(t)
           \/ Read(t) \/ OwnBank(t) \/ OpenAccount(t) \/ Return(t)
  BY <1>1, <1>6, TypeInv DEF LockBank, LockAccount, AfterFirstLock, TryOther, BackOff,
     LockForQuery, Read, OwnBank, OpenAccount, Return, GoTo, Filing
<1> QED
  BY <1>1, <1>2, <1>3, <1>4, <1>5, <1>6 DEF Step

LEMMA FilersStep ==
    ASSUME Inv, DecisionInv, AnswerInv, NothingWithdrawn, FilersInv, [Next]_vars
    PROVE  FilersInv'
<1> SUFFICES ASSUME NEW u \in Threads, Filing(u)'
             PROVE  call'[u].op \in {"deposit", "transfer"}
  BY DEF FilersInv
<1>1. CASE UNCHANGED vars
  BY <1>1 DEF vars, shared, Filing, FilersInv
<1>2. ASSUME NEW t \in Threads, Invoke(t) \/ Step(t), t # u
      PROVE  call'[u].op \in {"deposit", "transfer"}
  BY <1>2, OthersStay DEF Filing, FilersInv
<1>3. CASE Apply(u)
  BY <1>3, ApplyGoes DEF Filing
<1>4. CASE CreditDest(u)
  BY <1>4 DEF CreditDest, Inv, CallInv, PlaceInv
<1>5. CASE IndexRecord(u)
  BY <1>5, TypeInv DEF IndexRecord, GoTo, Filing
<1>6. CASE (Invoke(u) \/ Step(u)) /\ ~Apply(u) /\ ~CreditDest(u) /\ ~IndexRecord(u)
  BY <1>6, QuietStays DEF FilersInv
<1> QED
  BY <1>1, <1>2, <1>3, <1>4, <1>5, <1>6 DEF Next, Done, Step

LEMMA NamesStep ==
    ASSUME Inv, EveryIdAccountedFor, IndexInv, WritersInv, NamesInv, [Next]_vars
    PROVE  NamesInv'
<1>1. DOMAIN accounts \subseteq DOMAIN accounts'
  BY AccountsGrow
<1>2. CASE transactions' = transactions
  BY <1>1, <1>2 DEF NamesInv, Stored
<1>3. ASSUME NEW t \in Threads, StoreRecord(t)
      PROVE  NamesInv'
  <2>1. /\ Stored' = Stored \cup {tx_id[t]} /\ transactions'[tx_id[t]] = RecordOf(t)
        /\ \A i \in Stored : transactions'[i] = transactions[i]
        /\ pc[t] = "store"
    BY <1>3, StoreStep
  <2>2. RecordOf(t).status = "SUCCESS" => Ends(call[t]) \subseteq DOMAIN accounts
    BY <2>1 DEF RecordOf, Knows, WritersInv, Passed
  <2>3. {RecordOf(t).src_id, RecordOf(t).dest_id} \subseteq Ends(call[t]) \cup {0}
    BY DEF RecordOf, Ends
  <2> QED
    BY <1>1, <2>1, <2>2, <2>3 DEF NamesInv
<1>4. ASSUME NEW t \in Threads, IndexRecord(t)
      PROVE  transactions' = transactions
  BY <1>4 DEF IndexRecord
<1>5. ASSUME NEW t \in Threads, Invoke(t) \/ Step(t), ~StoreRecord(t), ~IndexRecord(t)
      PROVE  transactions' = transactions
  BY <1>5, LedgerFrame DEF ledger
<1>6. CASE UNCHANGED vars
  BY <1>2, <1>6 DEF vars, ledger
<1> QED
  BY <1>2, <1>3, <1>4, <1>5, <1>6 DEF Next, Done

LEMMA ApplyBooks ==
    ASSUME Inv, Inv', DecisionInv, EveryIdAccountedFor, IndexInv, CreditFits, NothingWithdrawn,
           BooksInv, NEW t \in Threads, Apply(t), NEW a \in DOMAIN accounts
    PROVE  accounts'[a].balance = Received(a)' - Sent(a)' + SumFunction(UnfiledOf(a)')
<1> DEFINE c == call[t]
           gain == Applied(c).balance - accounts[c.id].balance
<1>1. /\ c.id \in DOMAIN accounts /\ accounts[c.id].balance \in Int /\ gain \in Int
      /\ gain = CASE c.op = "deposit" -> c.amount
                  [] c.op \in {"withdraw", "transfer"} -> - c.amount
                  [] OTHER -> 0
  <2>1. c.amount \in Int
    BY ConstantsAreAmounts DEF Inv, TypeOK, CallRecords, Balances
  <2> QED
    BY <2>1, AppliedMoves
<1>2. /\ c.op # "withdraw" /\ accounts' = [accounts EXCEPT ![c.id] = Applied(c)]
      /\ Received(a)' = Received(a) /\ Sent(a)' = Sent(a)
  <2>1. a \in AccountIds /\ ~IndexRecord(t)
    BY DEF Inv, TypeOK, AccountsOK, Apply, IndexRecord
  <2> QED
    BY <2>1, HistoriesKept DEF Step, Apply, Update, NothingWithdrawn
<1>3. accounts'[a].balance = accounts[a].balance + IF a = c.id THEN gain ELSE 0
  <2>1. accounts[a].balance \in Int /\ Applied(c).balance = accounts[c.id].balance + gain
    <3>1. accounts[a].balance \in Int
      BY ConstantsAreAmounts DEF Inv, TypeOK, AccountsOK, Accounts, Balances
    <3>2. Applied(c) \in Accounts
      BY TypeInv, AppliedType DEF Apply, Inv, CallInv, PassedInv
    <3>3. Applied(c).balance \in Int
      BY <3>2, ConstantsAreAmounts DEF Accounts, Balances
    <3> QED
      BY <1>1, <3>1, <3>3
  <2> HIDE DEF gain
  <2> QED
    BY <1>1, <1>2, <2>1
<1>4. Unfiled(t, a) = 0 /\ Unfiled(t, a)' = IF a = c.id THEN gain ELSE 0
  <2>1. /\ call'[t] = c /\ reply'[t] = reply[t] /\ pc[t] = "apply"
        /\ c.op \in {"deposit", "transfer"} => reply[t].status = "SUCCESS"
        /\ pc'[t] = CASE c.op = "deposit" -> "stamp"
                      [] c.op = "transfer" -> "credit"
                      [] OTHER -> "return"
    BY ApplyGoes
  <2>2. ~Filing(t) /\ (Filing(t)' <=> c.op = "deposit")
    BY <2>1 DEF Filing
  <2> HIDE DEF gain
  <2> QED
    BY <1>1, <1>2, <2>1, <2>2 DEF Unfiled
<1>5. /\ SumFunction(UnfiledOf(a)) \in Int
      /\ SumFunction(UnfiledOf(a)') =
           SumFunction(UnfiledOf(a)) + (Unfiled(t, a)' - Unfiled(t, a))
  BY UnfiledStep DEF Step
<1>6. /\ accounts[a].balance = Received(a) - Sent(a) + SumFunction(UnfiledOf(a))
      /\ Received(a) \in Int /\ Sent(a) \in Int
  <2>1. a \in AccountIds
    BY DEF Inv, TypeOK, AccountsOK
  <2> QED
    BY <2>1, HistoryStored, AmountsType DEF BooksInv, BalanceInv, Received, Sent
<1> HIDE DEF gain
<1> QED
  BY <1>1, <1>2, <1>3, <1>4, <1>5, <1>6

LEMMA CreditBooks ==
    ASSUME Inv, Inv', AnswerInv, EveryIdAccountedFor, IndexInv, CreditFits,
           BooksInv, NEW t \in Threads, CreditDest(t), NEW a \in DOMAIN accounts
    PROVE  accounts'[a].balance = Received(a)' - Sent(a)' + SumFunction(UnfiledOf(a)')
<1> DEFINE c == call[t]
<1>1. /\ pc[t] = "credit" /\ c.op = "transfer" /\ Passed(c) /\ c.amount \in Int
      /\ reply[t].status = "SUCCESS" /\ call'[t] = c /\ reply'[t] = reply[t]
      /\ pc'[t] = "stamp"
  <2>1. pc[t] = "credit"
    BY DEF CreditDest
  <2>2. c.op = "transfer" /\ Passed(c) /\ c.amount \in Int
    BY <2>1, ConstantsAreAmounts
    DEF Inv, TypeOK, CallInv, PlaceInv, PassedInv, CallRecords, Balances
  <2>3. reply[t].status = "SUCCESS"
    BY <2>1 DEF AnswerInv, SourceDebited, Reply
  <2> QED
    BY <2>1, <2>2, <2>3, TypeInv DEF CreditDest, GoTo
<1>2. /\ c.to \in DOMAIN accounts /\ c.id # c.to /\ c.amount > 0
      /\ \A b \in DOMAIN accounts : accounts[b] \in Accounts /\ accounts[b].balance \in Int
  BY <1>1, ConstantsAreAmounts DEF Passed, Ends, Inv, TypeOK, AccountsOK, Accounts, Balances
<1>3. accounts'[a].balance = accounts[a].balance + IF a = c.to THEN c.amount ELSE 0
  <2>1. Credit(accounts[c.to], c.amount).balance = accounts[c.to].balance + c.amount
    <3>1. accounts[c.to].balance + c.amount <= IntMax
      BY <1>1 DEF CreditFits
    <3> QED
      BY <1>1, <1>2, <3>1, ConstantsAreAmounts DEF Credit, Wrap, Accounts
  <2>2. accounts' = [accounts EXCEPT ![c.to] = Credit(accounts[c.to], c.amount)]
    BY DEF CreditDest, Update
  <2> QED
    BY <1>2, <2>1, <2>2
<1>4. Unfiled(t, a)' = Unfiled(t, a) + IF a = c.to THEN c.amount ELSE 0
  BY <1>1, <1>2 DEF Unfiled, Filing
<1>5. /\ SumFunction(UnfiledOf(a)) \in Int /\ Unfiled(t, a) \in Int
      /\ SumFunction(UnfiledOf(a)') =
           SumFunction(UnfiledOf(a)) + (Unfiled(t, a)' - Unfiled(t, a))
  <2>1. Unfiled(t, a) \in Int
    BY <1>1 DEF Unfiled
  <2> QED
    BY <2>1, UnfiledStep DEF Step
<1>6. /\ accounts[a].balance = Received(a) - Sent(a) + SumFunction(UnfiledOf(a))
      /\ Received(a) \in Int /\ Sent(a) \in Int
      /\ Received(a)' = Received(a) /\ Sent(a)' = Sent(a)
  <2>1. a \in AccountIds /\ ~IndexRecord(t)
    BY <1>1 DEF Inv, TypeOK, AccountsOK, IndexRecord
  <2> QED
    BY <2>1, HistoryStored, AmountsType, HistoriesKept
    DEF Step, BooksInv, BalanceInv, Received, Sent
<1> QED
  BY <1>1, <1>2, <1>3, <1>4, <1>5, <1>6

LEMMA IndexBooks ==
    ASSUME Inv, Inv', EveryIdAccountedFor, IndexInv, WritersInv,
           BooksInv, NEW t \in Threads, IndexRecord(t), NEW a \in DOMAIN accounts
    PROVE  accounts'[a].balance = Received(a)' - Sent(a)' + SumFunction(UnfiledOf(a)')
<1> DEFINE c == call[t]
           record == RecordOf(t)
           gain == IF record.status = "SUCCESS" THEN record.amount ELSE 0
<1>1. /\ pc[t] = "index" /\ pc'[t] = "return" /\ call'[t] = c
      /\ accounts' = accounts /\ c.amount \in Int
  BY TypeInv, ConstantsAreAmounts DEF IndexRecord, GoTo, CallRecords, Balances
<1>2. a \in AccountIds /\ 0 \notin AccountIds
  BY LedgerConstants DEF Inv, TypeOK, AccountsOK
<1>3. /\ Received(a) \in Int /\ Sent(a) \in Int
      /\ Received(a)' = Received(a) + IF record.dest_id = a THEN gain ELSE 0
      /\ Sent(a)' = Sent(a) + IF record.src_id = a THEN gain ELSE 0
  BY <1>2, IndexMoves
<1>4. Unfiled(t, a)' = 0
  BY <1>1 DEF Unfiled, Filing
<1>5. Unfiled(t, a) = (IF record.dest_id = a THEN gain ELSE 0)
                        - (IF record.src_id = a THEN gain ELSE 0)
  <2>1. /\ record.status = reply[t].status /\ record.amount = c.amount
        /\ record.src_id = IF c.op = "transfer" THEN c.id ELSE 0
        /\ record.dest_id = IF c.op = "transfer" THEN c.to ELSE c.id
    BY DEF RecordOf
  <2>2. Filing(t) <=> record.status = "SUCCESS"
    BY <1>1, <2>1 DEF Filing
  <2>3. CASE ~Filing(t)
    BY <1>1, <2>2, <2>3 DEF Unfiled
  <2>4. CASE Filing(t)
    <3>1. c.op \in {"deposit", "transfer"} /\ gain = c.amount
      BY <2>1, <2>2, <2>4 DEF BooksInv, FilersInv
    <3>2. c.op = "transfer" => c.id # c.to
      BY <2>4 DEF Filing, Knows, WritersInv, Passed
    <3> HIDE DEF record, gain
    <3> QED
      BY <1>1, <1>2, <2>1, <2>4, <3>1, <3>2 DEF Unfiled
  <2> QED
    BY <2>3, <2>4
<1>6. /\ SumFunction(UnfiledOf(a)) \in Int
      /\ SumFunction(UnfiledOf(a)') =
           SumFunction(UnfiledOf(a)) + (Unfiled(t, a)' - Unfiled(t, a))
  BY UnfiledStep DEF Step
<1>7. accounts[a].balance = Received(a) - Sent(a) + SumFunction(UnfiledOf(a))
  BY DEF BooksInv, BalanceInv
<1>8. gain \in Int
  BY <1>1 DEF RecordOf
<1> HIDE DEF record, gain
<1> QED
  BY <1>1, <1>3, <1>4, <1>5, <1>6, <1>7, <1>8

\* A step that moves no money and files no record changes nothing.
LEMMA QuietBooks ==
    ASSUME Inv, Inv', EveryIdAccountedFor, IndexInv, BooksInv,
           NEW t \in Threads, Invoke(t) \/ Step(t),
           ~Apply(t), ~CreditDest(t), ~IndexRecord(t), NEW a \in DOMAIN accounts
    PROVE  accounts'[a].balance = Received(a)' - Sent(a)' + SumFunction(UnfiledOf(a)')
<1>1. a \in AccountIds
  BY DEF Inv, TypeOK, AccountsOK
<1>2. accounts'[a] = accounts[a]
  <2>1. CASE OpenAccount(t)
    BY <2>1, Opened
  <2>2. CASE ~OpenAccount(t)
    BY <2>2 DEF Invoke, Step, LockBank, Check, LockAccount, TryOther, BackOff, Decide,
       Stamp, TakeId, LockRecords, StoreRecord, LockForQuery, Read, OwnBank, Return, shared
  <2> QED
    BY <2>1, <2>2
<1>3. Received(a)' = Received(a) /\ Sent(a)' = Sent(a)
  BY <1>1, HistoriesKept
<1>4. Unfiled(t, a)' = Unfiled(t, a) /\ Unfiled(t, a) \in Int
  <2>1. call[t].amount \in Int
    BY ConstantsAreAmounts DEF Inv, TypeOK, CallRecords, Balances
  <2> QED
    BY <2>1, QuietStays DEF Unfiled
<1>5. /\ SumFunction(UnfiledOf(a)) \in Int
      /\ SumFunction(UnfiledOf(a)') =
           SumFunction(UnfiledOf(a)) + (Unfiled(t, a)' - Unfiled(t, a))
  BY UnfiledStep
<1> QED
  BY <1>2, <1>3, <1>4, <1>5 DEF BooksInv, BalanceInv

\* A new account holds nothing, and no successful record names it.
LEMMA NewcomerBooks ==
    ASSUME Inv, Inv', EveryIdAccountedFor, IndexInv, WritersInv, BooksInv,
           NEW t \in Threads, OpenAccount(t), NEW a \in DOMAIN accounts' \ DOMAIN accounts
    PROVE  accounts'[a].balance = Received(a)' - Sent(a)' + SumFunction(UnfiledOf(a)')
<1>1. accounts'[a].balance = 0 /\ a \in AccountIds /\ 0 \notin AccountIds
  <2>1. PICK b \in AccountIds \ DOMAIN accounts :
          /\ DOMAIN accounts' = DOMAIN accounts \cup {b}
          /\ accounts'[b] = NewAccount(call[t].id)
    BY Opened
  <2>2. a = b
    BY <2>1
  <2> QED
    BY <2>1, <2>2, LedgerConstants DEF NewAccount
<1>2. Successful(history_by_src[a]) = {} /\ Successful(history_by_dest[a]) = {}
  BY <1>1 DEF BooksInv, NamesInv, IndexInv, Lists, From, To, Filed, Successful
<1>3. Received(a)' = 0 /\ Sent(a)' = 0
  <2>1. Received(a)' = Received(a) /\ Sent(a)' = Sent(a)
    <3>1. ~IndexRecord(t)
      BY DEF OpenAccount, IndexRecord
    <3> QED
      BY <1>1, <3>1, HistoriesKept DEF Step
  <2>2. Amounts({}) = 0
    BY AmountsOfNothing
  <2> QED
    BY <1>2, <2>1, <2>2 DEF Received, Sent
<1>4. SumFunction(UnfiledOf(a)') = 0
  <2>1. SumFunction(UnfiledOf(a)) = 0
    BY NothingUnfiled
  <2>2. Unfiled(t, a) = 0 /\ Unfiled(t, a)' = 0
    <3>1. Unfiled(t, a) = 0
      BY UnfiledIsHeld
    <3>2. pc[t] = "open" /\ pc'[t] = "return"
      BY TypeInv DEF OpenAccount, GoTo
    <3> QED
      BY <3>1, <3>2 DEF Unfiled, Filing
  <2> QED
    BY <2>1, <2>2, UnfiledStep DEF Step
<1> QED
  BY <1>1, <1>3, <1>4

LEMMA BooksStep ==
    ASSUME Inv, Inv', DecisionInv, AnswerInv, EveryIdAccountedFor, IndexInv, WritersInv,
           CreditFits, NothingWithdrawn, BooksInv, [Next]_vars
    PROVE  BooksInv'
<1>1. FilersInv' /\ NamesInv'
  BY FilersStep, NamesStep DEF BooksInv
<1>2. BalanceInv'
  <2>1. CASE UNCHANGED vars
    <3>1. \A a : UnfiledOf(a)' = UnfiledOf(a)
      BY <2>1 DEF vars, shared, UnfiledOf, Unfiled, Filing
    <3>2. \A a : Received(a)' = Received(a) /\ Sent(a)' = Sent(a)
      BY <2>1 DEF vars, ledger, Received, Sent, Amounts, Successful
    <3> QED
      BY <2>1, <3>1, <3>2 DEF vars, shared, BooksInv, BalanceInv
  <2>2. ASSUME NEW t \in Threads, Invoke(t) \/ Step(t)
        PROVE  BalanceInv'
    <3> SUFFICES ASSUME NEW a \in DOMAIN accounts'
                 PROVE  accounts'[a].balance =
                          Received(a)' - Sent(a)' + SumFunction(UnfiledOf(a)')
      BY DEF BalanceInv
    <3>1. CASE a \notin DOMAIN accounts
      <4>1. OpenAccount(t)
        BY <2>2, <3>1, DomainKept
      <4> QED
        BY <3>1, <4>1, NewcomerBooks
    <3>2. CASE a \in DOMAIN accounts
      BY <2>2, <3>2, ApplyBooks, CreditBooks, IndexBooks, QuietBooks
    <3> QED
      BY <3>1, <3>2
  <2> QED
    BY <2>1, <2>2 DEF Next, Done
<1> QED
  BY <1>1, <1>2 DEF BooksInv

LEMMA BooksInit == Init => BooksInv
<1> SUFFICES ASSUME Init
             PROVE  BooksInv
  OBVIOUS
<1>1. FilersInv /\ NamesInv
  BY DEF Init, LedgerInit, FilersInv, Filing, NamesInv, Stored
<1>2. ASSUME NEW a \in DOMAIN accounts
      PROVE  accounts[a].balance = Received(a) - Sent(a) + SumFunction(UnfiledOf(a))
  <2>1. accounts[a].balance = 0 /\ a \in AccountIds
    BY ScriptsAreCalls DEF Init, NewAccount
  <2>2. Successful(history_by_src[a]) = {} /\ Successful(history_by_dest[a]) = {}
    BY <2>1 DEF Init, LedgerInit, Successful, Range
  <2>3. Amounts({}) = 0
    BY AmountsOfNothing
  <2>4. SumFunction(UnfiledOf(a)) = 0
    <3>1. \A t \in Threads : UnfiledOf(a)[t] = 0
      BY DEF Init, UnfiledOf, Unfiled, Filing
    <3>2. DOMAIN UnfiledOf(a) = Threads
      BY DEF UnfiledOf
    <3> HIDE DEF UnfiledOf
    <3> QED
      BY <3>1, <3>2, FinitelyMany, SumOfZeros DEF SumFunction
  <2> QED
    BY <2>1, <2>2, <2>3, <2>4 DEF Received, Sent
<1> QED
  BY <1>1, <1>2 DEF BooksInv, BalanceInv

\* As long as no credit overflows and nothing is withdrawn, an account that no
\* call has locked holds what its two histories say: every deposit and every
\* transfer is in them exactly once, and nothing that failed counts, however
\* many calls move money and write records at the same time.
THEOREM BooksAreBalanced == Spec /\ []CreditFits /\ []NothingWithdrawn => []BooksBalance
<1>1. Init => BooksInv
  BY BooksInit
<1>2. Inv /\ Inv' /\ DecisionInv /\ AnswerInv /\ EveryIdAccountedFor /\ IndexInv /\ OrderInv
        /\ CreditFits /\ NothingWithdrawn /\ BooksInv /\ [Next]_vars
          => BooksInv'
  BY BooksStep DEF OrderInv
<1>3. Inv /\ EveryIdAccountedFor /\ IndexInv /\ OrderInv /\ BooksInv => BooksBalance
  <2> SUFFICES ASSUME Inv, EveryIdAccountedFor, IndexInv, OrderInv, BooksInv,
                      NEW a \in DOMAIN accounts, Available(a)
               PROVE  accounts[a].balance = Received(a) - Sent(a)
    BY DEF BooksBalance, Received, Sent
  <2>1. SumFunction(UnfiledOf(a)) = 0
    BY ThreadsDistinct, NothingUnfiled DEF Available, OrderInv
  <2>2. a \in AccountIds
    BY DEF Inv, TypeOK, AccountsOK
  <2>3. Received(a) \in Int /\ Sent(a) \in Int
    BY <2>2, HistoryStored, AmountsType DEF Received, Sent
  <2> QED
    BY <2>1, <2>3 DEF BooksInv, BalanceInv
<1> QED
  BY InvInvariant, DecisionInvariant, AnswerInvariant, IdsAccountedFor, IndexInvariant,
     OrderInvariant, <1>1, <1>2, <1>3, PTL DEF Spec

-----------------------------------------------------------------------------
(***************************************************************************)
(* What the dashboards add up.                                             *)
(***************************************************************************)
OwnedBy(c) == {a \in DOMAIN accounts : accounts[a].customer_id = c}

Ascending(list, set) ==
    /\ list \in [1 .. Cardinality(set) -> set]
    /\ Range(list) = set
    /\ \A i, j \in DOMAIN list : i < j => list[i] < list[j]

\* A finite set of numbers can be listed in ascending order.
LEMMA AscendingExists ==
    ASSUME NEW S \in SUBSET Nat, IsFiniteSet(S)
    PROVE  \E list : Ascending(list, S)
<1> DEFINE B == {T \in SUBSET S : ~ \E list : Ascending(list, T)}
<1>1. SUFFICES ASSUME B # {}
               PROVE  FALSE
  OBVIOUS
<1>2. PICK T \in B : \A U \in SUBSET T : U # T => U \notin B
  <2>1. B \in SUBSET SUBSET S
    OBVIOUS
  <2> HIDE DEF B
  <2> QED
    BY <1>1, <2>1, SmallestSet
<1>3. T \in SUBSET S /\ IsFiniteSet(T) /\ ~ \E list : Ascending(list, T)
  BY <1>2, FS_Subset
<1>4. T # {}
  <2>1. Ascending(<< >>, {})
    BY FS_EmptySet DEF Ascending, Range
  <2> QED
    BY <1>3, <2>1
<1>5. PICK m \in T : \A n \in T : m <= n
  <2>1. T \in SUBSET Nat
    BY <1>3
  <2> QED
    BY <1>4, <2>1, SmallestNumber
<1>6. PICK rest : Ascending(rest, T \ {m})
  <2>1. T \ {m} \in SUBSET T /\ T \ {m} # T /\ T \ {m} \in SUBSET S
    BY <1>3, <1>5
  <2> QED
    BY <1>2, <2>1
<1> DEFINE n == Cardinality(T)
           list == [i \in 1 .. n |-> IF i = 1 THEN m ELSE rest[i - 1]]
<1>7. n \in Nat /\ n >= 1 /\ Cardinality(T \ {m}) = n - 1
  <2>1. /\ IsFiniteSet(T \ {m})
        /\ Cardinality(T \ {m}) = IF m \in T THEN Cardinality(T) - 1 ELSE Cardinality(T)
    BY <1>3, FS_RemoveElement
  <2>2. Cardinality(T) \in Nat /\ Cardinality(T \ {m}) \in Nat
    BY <1>3, <2>1, FS_CardinalityType
  <2> QED
    BY <1>5, <2>1, <2>2
<1>8. /\ rest \in [1 .. n - 1 -> T \ {m}] /\ Range(rest) = T \ {m}
      /\ \A i, j \in 1 .. n - 1 : i < j => rest[i] < rest[j]
  BY <1>6, <1>7 DEF Ascending
<1> HIDE DEF n
<1>9. \A i \in 1 .. n : i # 1 => i - 1 \in 1 .. n - 1
  BY <1>7
<1>10. list \in [1 .. n -> T]
  BY <1>5, <1>8, <1>9
<1>11. Range(list) = T
  <2>1. ASSUME NEW x \in T
        PROVE  \E i \in 1 .. n : list[i] = x
    <3>1. CASE x = m
      BY <1>7, <3>1
    <3>2. CASE x # m
      <4>1. PICK i \in 1 .. n - 1 : rest[i] = x
        BY <1>8, <3>2 DEF Range
      <4>2. i + 1 \in 1 .. n /\ i + 1 # 1 /\ (i + 1) - 1 = i
        BY <1>7
      <4>3. list[i + 1] = x
        BY <4>1, <4>2
      <4> QED
        BY <4>2, <4>3
    <3> QED
      BY <3>1, <3>2
  <2>2. \A i \in 1 .. n : list[i] \in T
    BY <1>10
  <2>3. DOMAIN list = 1 .. n
    OBVIOUS
  <2> HIDE DEF list
  <2> QED
    BY <2>1, <2>2, <2>3 DEF Range
<1>12. \A i, j \in 1 .. n : i < j => list[i] < list[j]
  <2> SUFFICES ASSUME NEW i \in 1 .. n, NEW j \in 1 .. n, i < j
               PROVE  list[i] < list[j]
    OBVIOUS
  <2>1. j - 1 \in 1 .. n - 1 /\ list[j] = rest[j - 1] /\ j # 1
    BY <1>7, <1>9
  <2>2. CASE i = 1
    <3>1. rest[j - 1] \in T \ {m}
      BY <1>8, <2>1
    <3>2. list[i] = m /\ m \in Nat /\ rest[j - 1] \in Nat
      BY <1>3, <1>7, <2>2, <3>1
    <3> QED
      BY <1>5, <2>1, <3>1, <3>2
  <2>3. CASE i # 1
    <3>1. i - 1 \in 1 .. n - 1 /\ list[i] = rest[i - 1] /\ i - 1 < j - 1
      BY <1>7, <1>9, <2>3
    <3> QED
      BY <1>8, <2>1, <3>1
  <2> QED
    BY <2>2, <2>3
<1>13. DOMAIN list = 1 .. n
  OBVIOUS
<1> HIDE DEF list
<1>14. Ascending(list, T)
  BY <1>10, <1>11, <1>12, <1>13 DEF Ascending, n
<1> QED
  BY <1>3, <1>14

LEMMA AccountsListed ==
    ASSUME Inv, AccountsFinite, NEW c
    PROVE  Ascending(AccountsOf(c), OwnedBy(c))
<1>1. OwnedBy(c) \in SUBSET Nat /\ IsFiniteSet(OwnedBy(c))
  BY LedgerConstants, FS_Subset DEF OwnedBy, AccountsFinite, Inv, TypeOK, AccountsOK
<1>2. PICK list : Ascending(list, OwnedBy(c))
  BY <1>1, AscendingExists
<1>3. AccountsOf(c) = CHOOSE l \in [1 .. Cardinality(OwnedBy(c)) -> OwnedBy(c)] :
                        /\ Range(l) = OwnedBy(c)
                        /\ \A i, j \in DOMAIN l : i < j => l[i] < l[j]
  BY Zenon DEF AccountsOf, OwnedBy
<1> QED
  BY <1>2, <1>3 DEF Ascending

\* A display is what the two getters answer: a closed account shows -1.
LEMMA Displayed ==
    ASSUME NEW a
    PROVE  /\ AccountDisplay(a).state = accounts[a].state
           /\ accounts[a].state # "CLOSED" =>
                AccountDisplay(a).balance = accounts[a].balance
BY DEF AccountDisplay, Ask, Verdict, Reply, Value

Money(ids) == SumFunctionOnSet(BalanceOf, ids)

\* What a display adds up over some accounts is their money, as long as it
\* leaves out the closed ones.
LEMMA AddedIsMoney ==
    ASSUME Inv, AccountsFinite, NEW ids \in SUBSET DOMAIN accounts, NEW states,
           "CLOSED" \notin states
    PROVE  Added([a \in ids |-> AccountDisplay(a)], states)
             = Money({a \in ids : accounts[a].state \in states})
<1> DEFINE rows == [a \in ids |-> AccountDisplay(a)]
           shown == [a \in DOMAIN rows |-> rows[a].balance]
           counted == {a \in ids : accounts[a].state \in states}
<1>1. {a \in DOMAIN rows : rows[a].state \in states} = counted
  BY Displayed
<1>2. IsFiniteSet(counted)
  BY FS_Subset DEF AccountsFinite
<1>3. \A a \in counted : shown[a] = BalanceOf[a]
  BY Displayed DEF BalanceOf
<1>4. Added(rows, states) = SumFunctionOnSet(shown, counted)
  BY <1>1 DEF Added
<1>5. SumFunctionOnSet(shown, counted) = Money(counted)
  <2> HIDE DEF shown, counted
  <2> QED
    BY <1>2, <1>3, SumSame DEF Money
<1> QED
  BY <1>4, <1>5

\* Closed accounts hold nothing.
LEMMA MoneySplit ==
    ASSUME Inv, AccountsFinite, ClosedIsEmpty, NEW ids \in SUBSET DOMAIN accounts,
           NEW some \in SUBSET ids,
           \A a \in ids \ some : accounts[a].state = "CLOSED"
    PROVE  Money(ids) = Money(some)
<1>1. /\ IsFiniteSet(DOMAIN accounts) /\ \A a \in DOMAIN accounts : BalanceOf[a] \in Int
      /\ some \in SUBSET DOMAIN accounts /\ ids \ some \in SUBSET DOMAIN accounts
      /\ some \cap (ids \ some) = {} /\ some \cup (ids \ some) = ids
  BY SumsAreTyped DEF SumsTyped, AccountsFinite
<1>2. /\ Money(some) \in Int
      /\ Money(some \cup (ids \ some)) = Money(some) + Money(ids \ some)
  <2> HIDE DEF BalanceOf
  <2> QED
    BY <1>1, SumSplit DEF Money
<1>3. Money(ids \ some) = 0
  <2>1. IsFiniteSet(ids \ some) /\ \A a \in ids \ some : BalanceOf[a] = 0
    BY <1>1, FS_Subset DEF BalanceOf, ClosedIsEmpty
  <2> HIDE DEF BalanceOf
  <2> QED
    BY <2>1, SumOfZeros DEF Money
<1>4. Money(some \cup (ids \ some)) = Money(ids)
  <2>1. some \cup (ids \ some) = ids
    OBVIOUS
  <2> QED
    BY <2>1
<1> QED
  BY <1>2, <1>3, <1>4

\* The totals on the dashboards are the bank's money, whatever is going on in
\* the bank: a customer's is all it has and the administrator's all but what is
\* pending or frozen, although a closed account shows a balance of -1.
THEOREM TotalsAreRight == Spec => []TotalsAddUp
<1>1. Inv /\ AccountsFinite /\ ClosedIsEmpty => TotalsAddUp
  <2> SUFFICES ASSUME Inv, AccountsFinite, ClosedIsEmpty
               PROVE  TotalsAddUp
    OBVIOUS
  <2>1. \A a \in DOMAIN accounts : accounts[a].state \in AccountState
    BY DEF Inv, TypeOK, AccountsOK, Accounts
  <2>2. ASSUME NEW c
        PROVE  TotalBalance(c) = Money(Range(AccountsOf(c)))
    <3> DEFINE own == Range(AccountsOf(c))
               counted == {a \in own : accounts[a].state \in CountedForCustomer}
    <3>1. own = OwnedBy(c) /\ own \in SUBSET DOMAIN accounts
      BY AccountsListed DEF Ascending, OwnedBy
    <3>2. TotalBalance(c) = Money(counted)
      BY <3>1, AddedIsMoney DEF TotalBalance, CustomerAccounts, CountedForCustomer
    <3>3. \A a \in own \ counted : accounts[a].state = "CLOSED"
      BY <2>1, <3>1 DEF CountedForCustomer, AccountState
    <3>4. counted \in SUBSET own
      OBVIOUS
    <3> HIDE DEF own, counted
    <3>5. Money(own) = Money(counted)
      BY <3>1, <3>3, <3>4, MoneySplit
    <3> QED
      BY <3>2, <3>5 DEF own
  <2>3. TotalDeposits + Money({a \in DOMAIN accounts :
                                 accounts[a].state \in {"PENDING", "FROZEN"}})
          = Money(DOMAIN accounts)
    <3> DEFINE open == {b \in DOMAIN accounts : AccountDisplay(b).state # "CLOSED"}
               active == {a \in open : accounts[a].state \in CountedForAdmin}
               others == {a \in DOMAIN accounts : accounts[a].state \in {"PENDING", "FROZEN"}}
    <3>1. TotalDeposits = Money(active)
      BY AddedIsMoney DEF TotalDeposits, AllAccounts, CountedForAdmin
    <3>2. /\ active \in SUBSET DOMAIN accounts /\ others \in SUBSET DOMAIN accounts
          /\ active \cap others = {}
          /\ \A a \in DOMAIN accounts \ (active \cup others) : accounts[a].state = "CLOSED"
      BY <2>1, Displayed DEF CountedForAdmin, AccountState
    <3> HIDE DEF active, others
    <3>3. Money(active \cup others) = Money(active) + Money(others)
      <4>1. IsFiniteSet(DOMAIN accounts) /\ \A a \in DOMAIN accounts : BalanceOf[a] \in Int
        BY SumsAreTyped DEF SumsTyped, AccountsFinite
      <4> HIDE DEF BalanceOf
      <4> QED
        BY <3>2, <4>1, SumSplit DEF Money
    <3>4. Money(DOMAIN accounts) = Money(active \cup others)
      <4>1. active \cup others \in SUBSET DOMAIN accounts
        BY <3>2
      <4> QED
        BY <3>2, <4>1, MoneySplit
    <3> QED
      BY <3>1, <3>3, <3>4 DEF others
  <2> QED
    BY <2>2, <2>3, Zenon DEF TotalsAddUp, Money, BalanceOf
<1> QED
  BY InvInvariant, AccountsFiniteInvariant, ClosedStaysEmpty, <1>1, PTL

-----------------------------------------------------------------------------
(***************************************************************************)
(* A customer's page of transactions.                                      *)
(***************************************************************************)
LEMMA RangeOfJoined ==
    ASSUME NEW T, NEW r \in Seq(T), NEW s \in Seq(T)
    PROVE  r \o s \in Seq(T) /\ Range(r \o s) = Range(r) \cup Range(s)
<1> DEFINE both == r \o s
<1>1. /\ DOMAIN r = 1 .. Len(r) /\ DOMAIN s = 1 .. Len(s)
      /\ DOMAIN both = 1 .. Len(r) + Len(s) /\ Len(r) \in Nat /\ Len(s) \in Nat
      /\ \A i \in 1 .. Len(r) : both[i] = r[i]
      /\ \A i \in Len(r) + 1 .. Len(r) + Len(s) : both[i] = s[i - Len(r)]
      /\ both \in Seq(T)
  OBVIOUS
<1> HIDE DEF both
<1>2. ASSUME NEW i \in 1 .. Len(r)
      PROVE  r[i] \in Range(both)
  BY <1>1 DEF Range
<1>3. ASSUME NEW i \in 1 .. Len(s)
      PROVE  s[i] \in Range(both)
  <2>1. i + Len(r) \in Len(r) + 1 .. Len(r) + Len(s) /\ (i + Len(r)) - Len(r) = i
    BY <1>1
  <2>2. i + Len(r) \in DOMAIN both /\ both[i + Len(r)] = s[i]
    BY <1>1, <2>1
  <2> QED
    BY <2>2 DEF Range
<1>4. ASSUME NEW i \in DOMAIN both
      PROVE  both[i] \in Range(r) \cup Range(s)
  <2>1. CASE i \in 1 .. Len(r)
    <3>1. both[i] = r[i] /\ i \in DOMAIN r
      BY <1>1, <2>1
    <3> QED
      BY <3>1 DEF Range
  <2>2. CASE i \notin 1 .. Len(r)
    <3>1. i \in Len(r) + 1 .. Len(r) + Len(s) /\ i - Len(r) \in 1 .. Len(s)
      BY <1>1, <2>2
    <3>2. both[i] = s[i - Len(r)] /\ i - Len(r) \in DOMAIN s
      BY <1>1, <3>1
    <3> QED
      BY <3>2 DEF Range
  <2> QED
    BY <2>1, <2>2
<1>5. Range(both) = Range(r) \cup Range(s)
  <2>1. Range(both) \subseteq Range(r) \cup Range(s)
    BY <1>4 DEF Range
  <2>2. Range(r) \subseteq Range(both)
    BY <1>1, <1>2 DEF Range
  <2>3. Range(s) \subseteq Range(both)
    BY <1>1, <1>3 DEF Range
  <2> QED
    BY <2>1, <2>2, <2>3, Zenon
<1> QED
  BY <1>1, <1>5 DEF both

LEMMA UnionTakes ==
    ASSUME NEW A, NEW X
    PROVE  UNION (A \cup {X}) = (UNION A) \cup X
OBVIOUS

Flattens(g, seqs, n) ==
    g = [i \in 1 .. n |-> IF i = 1 THEN seqs[i] ELSE Joined(g[i - 1], seqs[i])]

\* Flattening some sequences loses nothing and adds nothing.
LEMMA FlattenKeeps ==
    ASSUME NEW n \in Nat \ {0}, NEW seqs \in [1 .. n -> Seq(TxIds)]
    PROVE  /\ FlattenSeq(seqs) \in Seq(TxIds)
           /\ Range(FlattenSeq(seqs)) = UNION {Range(seqs[i]) : i \in 1 .. n}
<1> DEFINE G == CHOOSE g : Flattens(g, seqs, n)
<1>1. Len(seqs) = n
  OBVIOUS
<1>2. FlattenSeq(seqs) = G[n]
  BY <1>1 DEF FlattenSeq, Flattens, Joined
<1>3. \E g : Flattens(g, seqs, n)
  <2>1. PICK h : StringsUp(h, seqs, 1, n)
    <3>1. 1 \in Int /\ n \in Nat /\ 1 - 1 + n = n
      OBVIOUS
    <3>2. \E h : StringsUp(h, seqs, 1, 1 - 1 + n)
      BY <3>1, StringExists, Zenon
    <3> QED
      BY <3>1, <3>2
  <2>2. \A i \in 0 .. n : h[i] = IF i < 1 THEN << >> ELSE Joined(h[i - 1], seqs[i])
    BY <2>1 DEF StringsUp
  <2> DEFINE g == [i \in 1 .. n |-> h[i]]
  <2>3. \A i \in 1 .. n : g[i] = IF i = 1 THEN seqs[i] ELSE Joined(g[i - 1], seqs[i])
    <3> SUFFICES ASSUME NEW i \in 1 .. n
                 PROVE  g[i] = IF i = 1 THEN seqs[i] ELSE Joined(g[i - 1], seqs[i])
      OBVIOUS
    <3>1. h[i] = Joined(h[i - 1], seqs[i])
      BY <2>2
    <3>2. CASE i = 1
      <4>1. h[0] = << >> /\ seqs[1] \in Seq(TxIds)
        BY <2>2
      <4>2. Joined(h[0], seqs[1]) = seqs[1]
        BY <4>1 DEF Joined
      <4> QED
        BY <3>1, <3>2, <4>2
    <3>3. CASE i # 1
      BY <3>1, <3>3
    <3> QED
      BY <3>2, <3>3
  <2>4. g = [i \in 1 .. n |-> g[i]]
    OBVIOUS
  <2> HIDE DEF g
  <2>5. Flattens(g, seqs, n)
    BY <2>3, <2>4 DEF Flattens
  <2> QED
    BY <2>5
<1>4. Flattens(G, seqs, n)
  BY <1>3
<1> HIDE DEF G
<1>5. \A i \in 1 .. n : G[i] = IF i = 1 THEN seqs[i] ELSE Joined(G[i - 1], seqs[i])
  BY <1>4 DEF Flattens
<1> DEFINE kept(k) == G[k] \in Seq(TxIds) /\ Range(G[k]) = UNION {Range(seqs[i]) : i \in 1 .. k}
           B == {k \in 1 .. n : ~kept(k)}
<1>6. ASSUME B # {}
      PROVE  FALSE
  <2>1. PICK k \in B : \A m \in B : k <= m
    <3>1. B \in SUBSET Nat
      OBVIOUS
    <3> HIDE DEF B
    <3> QED
      BY <1>6, <3>1, SmallestNumber
  <2>2. k \in 1 .. n /\ ~kept(k)
    BY <2>1
  <2>3. CASE k = 1
    <3>1. G[1] = seqs[1] /\ 1 .. 1 = {1}
      BY <1>5
    <3>2. UNION {Range(seqs[i]) : i \in 1 .. 1} = Range(seqs[1])
      BY <3>1
    <3> QED
      BY <2>2, <2>3, <3>1, <3>2
  <2>4. CASE k # 1
    <3>1. k - 1 \in 1 .. n /\ k - 1 \notin B /\ 1 .. k = (1 .. k - 1) \cup {k}
      <4> HIDE DEF B
      <4>1. k - 1 \in 1 .. n /\ ~(k <= k - 1)
        BY <2>2, <2>4
      <4>2. 1 .. k = (1 .. k - 1) \cup {k}
        BY <2>2
      <4> QED
        BY <2>1, <4>1, <4>2
    <3>2. kept(k - 1)
      BY <3>1
    <3>3. G[k] = Joined(G[k - 1], seqs[k]) /\ seqs[k] \in Seq(TxIds)
      BY <1>5, <2>2, <2>4
    <3>4. G[k] \in Seq(TxIds) /\ Range(G[k]) = Range(G[k - 1]) \cup Range(seqs[k])
      BY <3>2, <3>3, RangeOfJoined DEF Joined
    <3>5. UNION {Range(seqs[i]) : i \in 1 .. k}
            = (UNION {Range(seqs[i]) : i \in 1 .. k - 1}) \cup Range(seqs[k])
      <4> DEFINE upto(m) == {Range(seqs[i]) : i \in 1 .. m}
      <4>1. upto(k) = upto(k - 1) \cup {Range(seqs[k])}
        BY <3>1
      <4>2. UNION (upto(k - 1) \cup {Range(seqs[k])})
              = (UNION upto(k - 1)) \cup Range(seqs[k])
        BY UnionTakes
      <4> QED
        BY <4>1, <4>2
    <3> QED
      BY <2>2, <3>2, <3>4, <3>5
  <2> QED
    BY <2>3, <2>4
<1>7. n \in 1 .. n
  OBVIOUS
<1>8. kept(n)
  <2> HIDE DEF kept
  <2> QED
    BY <1>6, <1>7
<1> QED
  BY <1>2, <1>8

Gathers(g, records, top) ==
    g = [n \in 0 .. top |-> IF n = 0 THEN << >> ELSE AddUnseen(g[n - 1], records[n])]

LEMMA GatheringExists ==
    ASSUME NEW records, NEW top \in Nat
    PROVE  \E g : Gathers(g, records, top)
<1> DEFINE B == {m \in Nat : ~ \E g : Gathers(g, records, m)}
<1>1. SUFFICES ASSUME B # {}
               PROVE  FALSE
  OBVIOUS
<1>2. PICK m \in B : \A k \in B : m <= k
  <2>1. B \in SUBSET Nat
    OBVIOUS
  <2> HIDE DEF B
  <2> QED
    BY <1>1, <2>1, SmallestNumber
<1>3. m \in Nat /\ ~ \E g : Gathers(g, records, m)
  OBVIOUS
<1>4. CASE m = 0
  <2> DEFINE g == [n \in 0 .. 0 |-> << >>]
  <2>1. Gathers(g, records, 0)
    BY DEF Gathers
  <2> QED
    BY <1>3, <1>4, <2>1
<1>5. CASE m # 0
  <2>1. m - 1 \in Nat /\ m - 1 \notin B
    BY <1>2, <1>3, <1>5
  <2>2. PICK g : Gathers(g, records, m - 1)
    BY <2>1
  <2> DEFINE h == [n \in 0 .. m |-> IF n = m THEN AddUnseen(g[n - 1], records[n]) ELSE g[n]]
  <2>3. \A n \in 0 .. m - 1 : h[n] = IF n = 0 THEN << >> ELSE AddUnseen(h[n - 1], records[n])
    BY <1>3, <2>1, <2>2 DEF Gathers
  <2>4. h[m] = AddUnseen(h[m - 1], records[m])
    BY <1>3, <2>1
  <2>5. \A n \in 0 .. m : n \in 0 .. m - 1 \/ n = m
    BY <1>3, <2>1
  <2>6. h = [n \in 0 .. m |-> h[n]]
    OBVIOUS
  <2> HIDE DEF h
  <2>7. Gathers(h, records, m)
    BY <1>5, <2>3, <2>4, <2>5, <2>6 DEF Gathers
  <2> QED
    BY <1>3, <2>7
<1> QED
  BY <1>4, <1>5

\* Adding a record that may be there already.
LEMMA AddingLists ==
    ASSUME NEW all \in Seq(TxIds), NEW S, Lists(all, S), NEW id \in TxIds
    PROVE  AddUnseen(all, id) \in Seq(TxIds) /\ Lists(AddUnseen(all, id), S \cup {id})
<1>1. Range(all) = S /\ DOMAIN all = 1 .. Len(all)
  BY DEF Lists
<1>2. CASE Contains(all, id)
  <2>1. id \in S
    BY <1>1, <1>2 DEF Contains, Range
  <2>2. S \cup {id} = S /\ AddUnseen(all, id) = all
    BY <1>2, <2>1 DEF AddUnseen
  <2> QED
    BY <2>2
<1>3. CASE ~Contains(all, id)
  <2>1. id \notin S /\ AddUnseen(all, id) = Append(all, id)
    BY <1>1, <1>3 DEF AddUnseen, Contains, Range
  <2> QED
    BY <2>1, AppendLists
<1> QED
  BY <1>2, <1>3

\* What is gathered from a sequence of records is every one of them, once.
LEMMA GatheringLists ==
    ASSUME NEW records \in Seq(TxIds),
           NEW g, Gathers(g, records, Len(records))
    PROVE  g[Len(records)] \in Seq(TxIds) /\ Lists(g[Len(records)], Range(records))
<1> DEFINE top == Len(records)
           upto(n) == {records[i] : i \in 1 .. n}
           good(n) == g[n] \in Seq(TxIds) /\ Lists(g[n], upto(n))
           B == {n \in 0 .. top : ~good(n)}
<1>1. /\ top \in Nat /\ DOMAIN records = 1 .. top /\ \A i \in 1 .. top : records[i] \in TxIds
      /\ \A n \in 0 .. top : g[n] = IF n = 0 THEN << >> ELSE AddUnseen(g[n - 1], records[n])
  BY DEF Gathers
<1> HIDE DEF top
<1>2. ASSUME B # {}
      PROVE  FALSE
  <2>1. PICK n \in B : \A m \in B : n <= m
    <3>1. B \in SUBSET Nat
      OBVIOUS
    <3> HIDE DEF B
    <3> QED
      BY <1>2, <3>1, SmallestNumber
  <2>2. n \in 0 .. top /\ ~good(n)
    BY <2>1
  <2>3. CASE n = 0
    <3>1. g[0] = << >> /\ upto(0) = {}
      BY <1>1
    <3>2. << >> \in Seq(TxIds) /\ Lists(<< >>, {})
      BY DEF Lists, IsInjective, Range
    <3>3. good(0)
      BY <3>1, <3>2
    <3> QED
      BY <2>2, <2>3, <3>3
  <2>4. CASE n # 0
    <3>1. n - 1 \in 0 .. top /\ n - 1 \notin B
      <4>1. n - 1 \in 0 .. top /\ ~(n <= n - 1)
        BY <1>1, <2>2, <2>4
      <4> HIDE DEF B
      <4> QED
        BY <2>1, <4>1
    <3>2. good(n - 1)
      BY <3>1
    <3>3. g[n] = AddUnseen(g[n - 1], records[n]) /\ records[n] \in TxIds
      BY <1>1, <2>2, <2>4
    <3>4. upto(n) = upto(n - 1) \cup {records[n]}
      <4>1. 1 .. n = (1 .. n - 1) \cup {n}
        BY <1>1, <2>2, <2>4
      <4> QED
        BY <4>1
    <3>5. good(n)
      <4> HIDE DEF upto
      <4> QED
        BY <3>2, <3>3, <3>4, AddingLists
    <3> QED
      BY <2>2, <3>5
  <2> QED
    BY <2>3, <2>4
<1>3. top \in 0 .. top /\ upto(top) = Range(records)
  BY <1>1 DEF Range
<1>4. good(top)
  <2> HIDE DEF good
  <2> QED
    BY <1>2, <1>3
<1> QED
  BY <1>3, <1>4 DEF top

\* A customer's page lists every record of its accounts and none of them twice,
\* whenever nobody writes: for any number of accounts and of records, and although
\* a transfer between two of its accounts is in the histories of both.
THEOREM StatementsAreComplete == Spec => []StatementIsComplete
<1>1. Inv /\ AccountsFinite /\ IndexInv => StatementIsComplete
  <2> SUFFICES ASSUME Inv, AccountsFinite, IndexInv, CanShare(record_mtx),
                      NEW b \in DOMAIN accounts
               PROVE  LET c == accounts[b].customer_id
                          shown == CustomerTransactions(c)
                          own == Range(AccountsOf(c))
                      IN  /\ IsInjective(shown)
                          /\ Range(shown) = {i \in Stored : transactions[i].src_id \in own
                                                            \/ transactions[i].dest_id \in own}
    BY DEF StatementIsComplete
  <2> DEFINE c == accounts[b].customer_id
             accIds == AccountsOf(c)
             own == Range(accIds)
             n == Cardinality(OwnedBy(c))
             histories == [i \in DOMAIN accIds |-> QueryByAccount(accIds[i])]
             records == FlattenSeq(histories)
             mine == {i \in Stored : transactions[i].src_id \in own
                                     \/ transactions[i].dest_id \in own}
  <2>1. /\ accIds \in [1 .. n -> OwnedBy(c)] /\ own = OwnedBy(c)
        /\ n \in Nat /\ n # 0 /\ OwnedBy(c) \subseteq AccountIds
    <3>1. Ascending(accIds, OwnedBy(c))
      BY AccountsListed
    <3>2. b \in OwnedBy(c) /\ IsFiniteSet(OwnedBy(c)) /\ OwnedBy(c) \subseteq AccountIds
      BY FS_Subset DEF OwnedBy, AccountsFinite, Inv, TypeOK, AccountsOK
    <3>3. n \in Nat /\ n # 0
      BY <3>2, FS_CardinalityType, FS_EmptySet
    <3> QED
      BY <3>1, <3>2, <3>3 DEF Ascending
  <2>2. ASSUME NEW a \in AccountIds
        PROVE  /\ QueryByAccount(a) \in Seq(TxIds)
               /\ Range(QueryByAccount(a))
                    = {i \in Stored : transactions[i].src_id = a \/ transactions[i].dest_id = a}
    <3>1. history_by_src[a] \in Seq(TxIds) /\ history_by_dest[a] \in Seq(TxIds)
      BY DEF Inv, TypeOK
    <3>2. /\ Range(history_by_src[a]) = {i \in Stored : transactions[i].src_id = a}
          /\ Range(history_by_dest[a]) = {i \in Stored : transactions[i].dest_id = a}
      BY AllFiled DEF IndexInv, Lists, From, To
    <3>3. /\ QueryByAccount(a) \in Seq(TxIds)
          /\ Range(QueryByAccount(a)) = Range(history_by_src[a]) \cup Range(history_by_dest[a])
      BY <3>1, MergeRange, Zenon DEF QueryByAccount
    <3> QED
      BY <3>2, <3>3
  <2> HIDE DEF c, n, accIds, own
  <2>3. DOMAIN accIds = 1 .. n /\ histories \in [1 .. n -> Seq(TxIds)]
    BY <2>1, <2>2
  <2>4. records \in Seq(TxIds) /\ Range(records) = UNION {Range(histories[i]) : i \in 1 .. n}
    <3> HIDE DEF histories
    <3> QED
      BY <2>1, <2>3, FlattenKeeps
  <2>5. UNION {Range(histories[i]) : i \in 1 .. n} = mine
    <3>1. \A i \in 1 .. n : /\ accIds[i] \in AccountIds /\ accIds[i] \in own
                            /\ histories[i] = QueryByAccount(accIds[i])
      BY <2>1, <2>3
    <3>2. \A a \in own : \E i \in 1 .. n : accIds[i] = a
      BY <2>3 DEF own, Range
    <3>3. \A i \in 1 .. n : Range(histories[i])
            = {r \in Stored : transactions[r].src_id = accIds[i]
                              \/ transactions[r].dest_id = accIds[i]}
      BY <2>2, <3>1
    <3> HIDE DEF histories
    <3>4. ASSUME NEW i \in 1 .. n, NEW r \in Range(histories[i])
          PROVE  r \in mine
      BY <3>1, <3>3
    <3>5. ASSUME NEW r \in mine
          PROVE  \E i \in 1 .. n : r \in Range(histories[i])
      <4>1. PICK a \in own : transactions[r].src_id = a \/ transactions[r].dest_id = a
        OBVIOUS
      <4>2. PICK i \in 1 .. n : accIds[i] = a
        BY <3>2
      <4> QED
        BY <3>3, <4>1, <4>2
    <3> QED
      BY <3>4, <3>5
  <2> DEFINE G == CHOOSE g : Gathers(g, records, Len(records))
  <2>6. CustomerTransactions(c) = G[Len(records)]
    BY DEF CustomerTransactions, Gathers, accIds
  <2> HIDE DEF histories, records
  <2>7. Gathers(G, records, Len(records))
    <3>1. Len(records) \in Nat
      BY <2>4
    <3>2. \E g : Gathers(g, records, Len(records))
      BY <3>1, GatheringExists
    <3> QED
      BY <3>2
  <2> HIDE DEF G
  <2>8. Lists(G[Len(records)], Range(records))
    BY <2>4, <2>7, GatheringLists
  <2> QED
    BY <2>4, <2>5, <2>6, <2>8 DEF Lists, c, own, accIds
<1> QED
  BY InvInvariant, AccountsFiniteInvariant, IndexInvariant, <1>1, PTL
=============================================================================
