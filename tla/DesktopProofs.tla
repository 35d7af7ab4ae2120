--------------------------- MODULE DesktopProofs ---------------------------
(***************************************************************************)
(* What holds of the window and its worker for every script of clicks.     *)
(***************************************************************************)
EXTENDS DesktopProperties, SequenceTheorems, TLAPS

\* The accounts of a list belong to one customer.
OwnedBy(c, list) ==
    \A i \in DOMAIN list : list[i] \in DOMAIN owners /\ owners[list[i]] = c

\* So do those a customer lists, those of an answer under way and those of the
\* session, from which the box is filled.
OwnersInv ==
    /\ \A c \in DOMAIN registered : OwnedBy(c, filed[c])
    /\ \A i \in DOMAIN answers :
         answers[i].to = "lookup" /\ answers[i].ok =>
           answers[i].id \in DOMAIN registered /\ OwnedBy(answers[i].id, answers[i].list)
    /\ session.state = "Customer" =>
         OwnedBy(session.customerId, session.accountIds) /\ OwnedBy(session.customerId, combo)

\* Rows are sent in the order of their versions: those shown are no newer than
\* those under way, and those no newer than the bank.
OrderInv ==
    \A k \in Kinds :
      /\ \A d \in {"Admin", "Customer"} : shown[d][k].version <= version[k]
      /\ \A i \in DOMAIN answers : answers[i].to = k =>
           /\ answers[i].version <= version[k]
           /\ \A d \in {"Admin", "Customer"} : shown[d][k].version <= answers[i].version
           /\ \A j \in DOMAIN answers : answers[j].to = k /\ i <= j =>
                answers[i].version <= answers[j].version

\* No dashboard takes rows older than those it shows.
RowsNotOlder ==
    \A d \in {"Admin", "Customer"}, k \in Kinds : shown[d][k].version <= shown'[d][k].version

\* A box of a result is over the dashboard that showed it; only a login can
\* change the screen under it.
BoxInv ==
    \A i \in DOMAIN boxes :
      /\ boxes[i].over = "Validation" => ~boxes[i].success
      /\ boxes[i].over = "Customer" => session.state = "Customer"

\* The last request for rows of kind k, and the last answer with such rows.
LastAsked(k, i) ==
    /\ i \in DOMAIN requests
    /\ requests[i].op = k
    /\ \A j \in DOMAIN requests : i < j => requests[j].op # k
LastSent(k, i) ==
    /\ i \in DOMAIN answers
    /\ answers[i].to = k
    /\ \A j \in DOMAIN answers : i < j => answers[j].to # k

NoneAsked(k) == \A i \in DOMAIN requests : requests[i].op # k
NoneSent(k) == \A i \in DOMAIN answers : answers[i].to # k

\* The rows that arrive last on the administrator's dashboard are everybody's.
WhoseInv ==
    session.state = "Admin" =>
      \A k \in Kinds :
        \/ \E i \in DOMAIN requests : LastAsked(k, i) /\ requests[i].id = Everybody
        \/ /\ NoneAsked(k)
           /\ \/ \E i \in DOMAIN answers : LastSent(k, i) /\ answers[i].id = Everybody
              \/ NoneSent(k) /\ shown["Admin"][k].whose = Everybody

\* Rows of kind k have been asked for, or an operation has succeeded whose box,
\* once it is dismissed, asks for them.
RefreshComing(k) ==
    \/ \E i \in DOMAIN requests : requests[i].op = k
    \/ \E i \in DOMAIN answers : answers[i].to = "operation" /\ answers[i].ok
    \/ \E i \in DOMAIN boxes : boxes[i].success

\* The visible dashboard shows current rows of kind k, or it will.
UpToDate(k) ==
    \/ RefreshComing(k)
    \/ \E i \in DOMAIN answers : LastSent(k, i) /\ answers[i].version = version[k]
    \/ NoneSent(k) /\ shown[session.state][k].version = version[k]

\* A transaction may change the records and be refused; the administrator's rows
\* are asked for after it.
RefusalsInv ==
    session.state = "Admin" =>
      \A i \in DOMAIN requests : requests[i].op = "transact" =>
        \E j \in DOMAIN requests : i < j /\ requests[j].op = "transactions"

CurrentInv ==
    /\ session.state # "Login" => UpToDate("accounts")
    /\ session.state = "Admin" => UpToDate("customers") /\ UpToDate("transactions")

DesktopInv ==
    TypeOK /\ OwnersInv /\ OrderInv /\ BoxInv /\ WhoseInv /\ RefusalsInv /\ CurrentInv

-----------------------------------------------------------------------------
(***************************************************************************)
(* Queues.  What is taken is the first; what is posted comes last.         *)
(***************************************************************************)
LEMMA Taken ==
    ASSUME NEW S, NEW q \in Seq(S), q # << >>
    PROVE  /\ Head(q) \in S /\ Head(q) = q[1] /\ 1 \in DOMAIN q
           /\ Tail(q) \in Seq(S)
           /\ \A i \in DOMAIN Tail(q) : i \in Nat /\ i + 1 \in DOMAIN q /\ Tail(q)[i] = q[i + 1]
           /\ \A i \in DOMAIN q : i = 1 \/ (i - 1 \in DOMAIN Tail(q) /\ Tail(q)[i - 1] = q[i])
  <1>1. /\ Tail(q) \in Seq(S) /\ Len(Tail(q)) = Len(q) - 1 /\ Head(q) \in S
        /\ \A i \in 1 .. Len(Tail(q)) : Tail(q)[i] = q[i + 1]
    BY HeadTailProperties
  <1>2. Len(q) \in Nat \ {0} /\ DOMAIN q = 1 .. Len(q) /\ DOMAIN Tail(q) = 1 .. Len(Tail(q))
    BY <1>1, LenProperties, EmptySeq
  <1>3. Head(q) = q[1]
    OBVIOUS
  <1>4. \A i \in DOMAIN q : i = 1 \/ (i - 1 \in DOMAIN Tail(q) /\ Tail(q)[i - 1] = q[i])
    BY <1>1, <1>2
  <1> QED  BY <1>1, <1>2, <1>3, <1>4

LEMMA Posted ==
    ASSUME NEW S, NEW q \in Seq(S), NEW e \in S
    PROVE  /\ Append(q, e) \in Seq(S) /\ Len(q) \in Nat
           /\ Len(q) + 1 \in DOMAIN Append(q, e) /\ Append(q, e)[Len(q) + 1] = e
           /\ \A i \in DOMAIN q :
                i \in Nat /\ i < Len(q) + 1 /\ i \in DOMAIN Append(q, e) /\ Append(q, e)[i] = q[i]
           /\ \A i \in DOMAIN Append(q, e) : i = Len(q) + 1 \/ i \in DOMAIN q
  <1>1. /\ Append(q, e) \in Seq(S) /\ Len(Append(q, e)) = Len(q) + 1
        /\ \A i \in 1 .. Len(q) : Append(q, e)[i] = q[i]
        /\ Append(q, e)[Len(q) + 1] = e
    BY AppendProperties
  <1>2. /\ Len(q) \in Nat /\ DOMAIN q = 1 .. Len(q)
        /\ DOMAIN Append(q, e) = 1 .. Len(Append(q, e))
    BY <1>1, LenProperties
  <1> QED  BY <1>1, <1>2

LEMMA LastPosted ==
    ASSUME NEW S, NEW q \in Seq(S), NEW a, NEW b, Append(q, a) = Append(q, b)
    PROVE  a = b
  <1>1. q \in Seq(S \cup {a, b})
    BY SeqMonotonic
  <1> QED  BY <1>1, AppendInjective

LEMMA Joined ==
    ASSUME NEW S, NEW q \in Seq(S), NEW r \in Seq(S)
    PROVE  /\ q \o r \in Seq(S) /\ Len(q) \in Nat
           /\ \A i \in DOMAIN q :
                i \in Nat /\ i <= Len(q) /\ i \in DOMAIN (q \o r) /\ (q \o r)[i] = q[i]
           /\ \A i \in DOMAIN r :
                i \in Nat \ {0} /\ Len(q) + i \in DOMAIN (q \o r) /\ (q \o r)[Len(q) + i] = r[i]
           /\ \A i \in DOMAIN (q \o r) :
                i \in Nat /\ (i \in DOMAIN q \/ (i - Len(q) \in DOMAIN r /\ (q \o r)[i] = r[i - Len(q)]))
  <1>1. /\ q \o r \in Seq(S) /\ Len(q \o r) = Len(q) + Len(r)
        /\ \A i \in 1 .. Len(q) + Len(r) :
             (q \o r)[i] = IF i <= Len(q) THEN q[i] ELSE r[i - Len(q)]
    BY ConcatProperties
  <1>2. /\ Len(q) \in Nat /\ DOMAIN q = 1 .. Len(q) /\ Len(r) \in Nat /\ DOMAIN r = 1 .. Len(r)
        /\ DOMAIN (q \o r) = 1 .. Len(q) + Len(r)
    BY <1>1, LenProperties
  <1> QED  BY <1>1, <1>2

-----------------------------------------------------------------------------
(***************************************************************************)
(* Types.                                                                  *)
(***************************************************************************)
LEMMA Initially == Init => DesktopInv
  <1> SUFFICES ASSUME Init PROVE DesktopInv
    OBVIOUS
  <1>1. Len(Script) \in Nat
    BY UserScript
  <1>2. TypeOK
    BY <1>1, EmptySeq DEF Init, TypeOK, Sessions, LoggedOut, Rows
  <1> QED
    BY <1>2 DEF Init, DesktopInv, OwnersInv, OrderInv, BoxInv, WhoseInv, RefusalsInv,
                CurrentInv, LoggedOut, Kinds

LEMMA QueueTypes ==
    ASSUME TypeOK
    PROVE  /\ requests \in Seq(Requests) /\ answers \in Seq(Answers)
           /\ boxes \in Seq(Boxes) /\ combo \in Seq(Nat)
  BY DEF TypeOK

LEMMA SessionTypes ==
    ASSUME TypeOK
    PROVE  /\ session \in Sessions
           /\ session.state \in {"Login", "Admin", "Customer"}
           /\ session.customerId \in Nat /\ session.accountIds \in Seq(Nat)
  <1>1. session \in Sessions
    BY DEF TypeOK
  <1> QED  BY <1>1 DEF Sessions

LEMMA BankTypes ==
    ASSUME TypeOK
    PROVE  /\ registered \in Seq(Nat) /\ filed \in [DOMAIN registered -> Seq(DOMAIN owners)]
           /\ owners \in Seq(DOMAIN registered) /\ version \in [Kinds -> Nat]
  BY DEF TypeOK

LEMMA ClickTypes == TypeOK => clicks \in 0 .. Len(Script)
  BY DEF TypeOK

\* What the user may click.
LEMMA ChoicesAreClicks ==
    ASSUME TypeOK, NEW c \in Choices
    PROVE  /\ c.id \in Nat
           /\ c.on \in {"login", "admin", "logout", "refresh", "search", "invalid"} \cup Operations
           /\ clicks + 1 \in 0 .. Len(Script)
  <1>1. Script \in Seq(SUBSET Clicks) /\ Len(Script) \in Nat /\ clicks \in Nat
    BY UserScript, ClickTypes, LenProperties
  <1>2. clicks < Len(Script) /\ c \in Script[clicks + 1]
    BY DEF Choices
  <1>3. Script[clicks + 1] \in SUBSET Clicks
    BY <1>1, <1>2, ElementOfSeq
  <1> QED
    BY <1>1, <1>2, <1>3 DEF Clicks

LEMMA RequestsAreTyped ==
    /\ AllData \in Seq(Requests)
    /\ \A c \in Nat \cup {Everybody} : CustomerData(c) \in Seq(Requests)
    /\ \A op \in {"lookup", "search"} \cup Operations, id \in Nat :
         <<Request(op, id)>> \in Seq(Requests)
    /\ << >> \in Seq(Requests)
  BY EmptySeq DEF AllData, CustomerData, Request, Requests, Operations, Kinds, Everybody

LEMMA PaymentIsTyped ==
    ASSUME TypeOK, NEW c, ExecuteTransaction(c)
    PROVE  \E a \in Nat : requests' = requests \o <<Request("transact", a)>>
  <1>1. PICK a \in IF combo = << >> THEN {0} ELSE Range(combo) :
               requests' = requests \o <<Request("transact", a)>>
    BY DEF ExecuteTransaction, Ask
  <1>2. combo \in Seq(Nat)
    BY QueueTypes
  <1>3. a \in Nat
    BY <1>1, <1>2, ElementOfSeq DEF Range
  <1> QED  BY <1>1, <1>3

\* What the user does: requests are added, nothing else reaches the worker or the
\* window's queue.
LEMMA UserFrame ==
    ASSUME TypeOK, UserClicks \/ Dismiss
    PROVE  /\ UNCHANGED <<answers, shown, registered, filed, owners, version>>
           /\ \E list \in Seq(Requests) : requests' = requests \o list
  <1>1. session.customerId \in Nat /\ requests \in Seq(Requests)
    BY SessionTypes, QueueTypes
  <1>2. requests = requests \o << >>
    BY <1>1, ConcatEmptySeq
  <1>3. ASSUME NEW c \in Choices,
               \/ EnterAdmin(c) \/ LoginAsCustomer(c) \/ Logout(c) \/ RefreshData(c)
               \/ Operate(c) \/ ExecuteTransaction(c) \/ SearchCustomer(c) \/ RejectInput(c)
        PROVE  /\ UNCHANGED <<answers, shown, registered, filed, owners, version>>
               /\ \E list \in Seq(Requests) : requests' = requests \o list
    <2>1. c.id \in Nat
      BY ChoicesAreClicks
    <2>2. ASSUME ExecuteTransaction(c)
          PROVE  \E list \in Seq(Requests) : requests' = requests \o list
      BY <2>2, PaymentIsTyped, RequestsAreTyped DEF Operations
    <2>3. c.on \in Operations => <<Request(c.on, c.id)>> \in Seq(Requests)
      BY <2>1, RequestsAreTyped
    <2> HIDE DEF Request, Requests, AllData, CustomerData
    <2>4. CASE EnterAdmin(c) \/ RefreshData(c)
      BY <1>1, <2>4, RequestsAreTyped
      DEF EnterAdmin, RefreshData, Click, ShowAdmin, Ask, bank
    <2>5. CASE LoginAsCustomer(c) \/ SearchCustomer(c)
      BY <1>1, <1>2, <2>1, <2>5, RequestsAreTyped
      DEF LoginAsCustomer, SearchCustomer, Click, Ask, bank
    <2>6. CASE Operate(c)
      BY <2>3, <2>6 DEF Operate, Click, Ask, bank, Operations
    <2>7. CASE ExecuteTransaction(c)
      BY <2>2, <2>7 DEF ExecuteTransaction, Click, bank
    <2>8. CASE Logout(c) \/ RejectInput(c)
      BY <1>2, <2>8, RequestsAreTyped DEF Logout, RejectInput, Click, bank
    <2> QED
      BY <1>3, <2>4, <2>5, <2>6, <2>7, <2>8
  <1>4. CASE Dismiss
    BY <1>1, <1>2, <1>4, RequestsAreTyped DEF Dismiss, Ask, AfterBox, bank
  <1> QED
    BY <1>3, <1>4 DEF UserClicks

\* What the worker does: it takes the first request and posts one answer.
LEMMA WorkerFrame ==
    ASSUME TypeOK, Worker
    PROVE  /\ UNCHANGED <<session, loginStatus, searchStatus, combo, shown, boxes, clicks>>
           /\ requests # << >> /\ requests' = Tail(requests)
           /\ \E a \in Answers : answers' = Append(answers, a)
           /\ version' \in [Kinds -> Nat]
           /\ \A k \in Kinds : version[k] <= version'[k]
  <1>1. version \in [Kinds -> Nat]
    BY BankTypes
  <1>2. ASSUME NEW kinds, Changed(kinds)
        PROVE  /\ version' \in [Kinds -> Nat]
               /\ \A k \in Kinds : version[k] <= version'[k]
    BY <1>1, <1>2 DEF Changed
  <1>3. requests \in Seq(Requests) /\ registered \in Seq(Nat)
        /\ filed \in [DOMAIN registered -> Seq(DOMAIN owners)] /\ owners \in Seq(DOMAIN registered)
    BY QueueTypes, BankTypes
  <1>4. ASSUME NEW success \in BOOLEAN, Report(success)
        PROVE  \E a \in Answers : answers' = Append(answers, a)
    BY <1>4, EmptySeq DEF Report, Answer, Post, Answers
  <1>s. ASSUME NEW ops, Serving(ops)
        PROVE  /\ UNCHANGED <<session, loginStatus, searchStatus, combo, shown, boxes, clicks>>
               /\ requests # << >> /\ requests' = Tail(requests)
    BY <1>s DEF Serving, widgets
  <1>v. ASSUME UNCHANGED bank
        PROVE  /\ version' \in [Kinds -> Nat]
               /\ \A k \in Kinds : version[k] <= version'[k]
    BY <1>1, <1>v DEF bank
  <1>a. ASSUME NEW to \in {"lookup", "search"} \cup Kinds, NEW ok \in BOOLEAN, NEW id \in Nat \cup {Everybody},
               NEW list \in Seq(Nat), NEW v \in Nat, Answer(to, ok, id, list, v)
        PROVE  \E a \in Answers : answers' = Append(answers, a)
    BY <1>a DEF Answer, Post, Answers
  <1>5. CASE LookupCustomer
    <2>1. Serving({"lookup"}) /\ UNCHANGED bank
      BY <1>5 DEF LookupCustomer
    <2>2. CASE Answer("lookup", FALSE, 0, << >>, 0)
      BY <1>a, <1>s, <1>v, <2>1, <2>2, EmptySeq
    <2>3. ASSUME NEW c \in DOMAIN registered, Answer("lookup", TRUE, c, filed[c], 0)
          PROVE  \E a \in Answers : answers' = Append(answers, a)
      <3>1. DOMAIN owners \subseteq Nat
        <4>1. owners \in Seq(DOMAIN registered)
          BY <1>3
        <4>2. DOMAIN owners = 1 .. Len(owners) /\ Len(owners) \in Nat
          BY <4>1, LenProperties
        <4> QED  BY <4>2
      <3>2. c \in Nat
        BY <1>3, LenProperties
      <3>3. filed[c] \in Seq(Nat)
        BY <1>3, <3>1, SeqMonotonic
      <3> QED  BY <1>a, <2>3, <3>2, <3>3
    <2> QED
      BY <1>5, <1>s, <1>v, <2>1, <2>2, <2>3 DEF LookupCustomer
  <1>6. CASE RegisterCustomer \/ OpenAccount \/ Transact \/ Manage
    <2>1. /\ \E ops : Serving(ops)
          /\ version' = version \/ \E kinds : Changed(kinds)
      BY <1>6 DEF RegisterCustomer, OpenAccount, Transact, Manage
    <2>2. \E success \in BOOLEAN : Report(success)
      <3>1. (Head(requests).id \in DOMAIN registered) \in BOOLEAN
        OBVIOUS
      <3> QED  BY <1>6, <3>1 DEF RegisterCustomer, OpenAccount, Transact, Manage
    <2> QED
      BY <1>1, <1>2, <1>4, <1>s, <2>1, <2>2
  <1>7. CASE Search
    BY <1>7, <1>a, <1>s, <1>v, EmptySeq DEF Search
  <1>8. CASE SendRows
    <2>1. Serving(Kinds) /\ UNCHANGED bank
      BY <1>8 DEF SendRows
    <2>2. Head(requests) \in Requests /\ Head(requests).op \in Kinds
      BY <1>3, <2>1, Taken DEF Serving
    <2>3. Head(requests).id \in Nat \cup {Everybody} /\ version[Head(requests).op] \in Nat
      BY <1>1, <2>2 DEF Requests
    <2> QED
      BY <1>8, <1>a, <1>s, <1>v, <2>1, <2>2, <2>3, EmptySeq DEF SendRows
  <1> QED
    BY <1>5, <1>6, <1>7, <1>8 DEF Worker

\* What the window does: it takes the first answer; the bank is not touched.
LEMMA WindowFrame ==
    ASSUME TypeOK, Window
    PROVE  /\ UNCHANGED <<registered, filed, owners, version, clicks>>
           /\ answers # << >> /\ answers' = Tail(answers)
           /\ Head(answers) = answers[1] /\ answers[1] \in Answers /\ 1 \in DOMAIN answers
           /\ \E list \in Seq(Requests) : requests' = requests \o list
  <1>1. requests = requests \o << >> /\ answers \in Seq(Answers)
    BY QueueTypes, ConcatEmptySeq
  <1>2. /\ UNCHANGED <<registered, filed, owners, version, clicks>>
        /\ answers # << >> /\ answers' = Tail(answers)
    BY DEF Window, LookupResult, OperationResult, RowsReady, SearchResults, Receiving, bank
  <1>3. Head(answers) = answers[1] /\ answers[1] \in Answers /\ 1 \in DOMAIN answers
    BY <1>1, <1>2, Taken
  <1>4. CASE LookupResult /\ answers[1].ok
    <2>1. requests' = requests \o CustomerData(answers[1].id)
      BY <1>3, <1>4 DEF LookupResult, ShowCustomer, Ask
    <2> QED  BY <1>2, <1>3, <2>1, RequestsAreTyped DEF Answers
  <1>5. CASE ~(LookupResult /\ answers[1].ok)
    BY <1>1, <1>2, <1>3, <1>5, RequestsAreTyped
    DEF Window, LookupResult, OperationResult, RowsReady, SearchResults
  <1> QED
    BY <1>4, <1>5

LEMMA QueuesStayTyped ==
    ASSUME TypeOK, Next
    PROVE  requests' \in Seq(Requests) /\ answers' \in Seq(Answers)
  <1>1. requests \in Seq(Requests) /\ answers \in Seq(Answers)
    BY QueueTypes
  <1>2. ASSUME NEW list \in Seq(Requests) PROVE requests \o list \in Seq(Requests)
    BY <1>1, <1>2, ConcatProperties
  <1>3. ASSUME NEW a \in Answers PROVE Append(answers, a) \in Seq(Answers)
    BY <1>1, <1>3, AppendProperties
  <1>4. requests # << >> => Tail(requests) \in Seq(Requests)
    BY <1>1, HeadTailProperties
  <1>5. answers # << >> => Tail(answers) \in Seq(Answers)
    BY <1>1, HeadTailProperties
  <1>6. CASE UserClicks \/ Dismiss
    BY <1>1, <1>2, <1>6, UserFrame
  <1>7. CASE Worker
    BY <1>3, <1>4, <1>7, WorkerFrame
  <1>8. CASE Window
    BY <1>2, <1>5, <1>8, WindowFrame
  <1> QED  BY <1>6, <1>7, <1>8 DEF Next

\* What the worker does to the customers and accounts: nothing, or it adds one.
Registers(n) ==
    /\ registered' = Append(registered, n)
    /\ filed' = Append(filed, << >>)
    /\ owners' = owners
Opens(c) ==
    /\ registered' = registered
    /\ filed' = [filed EXCEPT ![c] = Append(@, Len(owners) + 1)]
    /\ owners' = Append(owners, c)

LEMMA WorkerOnBank ==
    ASSUME TypeOK, Worker
    PROVE  \/ UNCHANGED <<registered, filed, owners>>
           \/ \E n \in Nat : Registers(n)
           \/ \E c \in DOMAIN registered : Opens(c)
  <1>1. CASE RegisterCustomer
    <2>1. Head(requests) \in Requests /\ Head(requests).op = "register"
      BY <1>1, QueueTypes, Taken DEF RegisterCustomer, Serving
    <2>2. Head(requests).id \in Nat
      BY <2>1 DEF Requests, Kinds
    <2> QED  BY <1>1, <2>2 DEF RegisterCustomer, Registers
  <1>2. CASE OpenAccount
    <2>1. owners \in Seq(DOMAIN registered)
      BY BankTypes
    <2>2. \A c \in DOMAIN registered : Len(Append(owners, c)) = Len(owners) + 1
      BY <2>1, AppendProperties
    <2> QED  BY <1>2, <2>2 DEF OpenAccount, Opens
  <1>3. CASE LookupCustomer \/ Transact \/ Manage \/ Search \/ SendRows
    BY <1>3 DEF LookupCustomer, Transact, Manage, Search, SendRows, bank
  <1> QED  BY <1>1, <1>2, <1>3 DEF Worker

LEMMA FiledIsASequence ==
    ASSUME TypeOK
    PROVE  /\ filed \in Seq(Seq(DOMAIN owners)) /\ DOMAIN filed = 1 .. Len(filed)
           /\ Len(filed) = Len(registered)
  <1>1. filed \in [DOMAIN registered -> Seq(DOMAIN owners)] /\ registered \in Seq(Nat)
    BY BankTypes
  <1>2. Len(registered) \in Nat /\ DOMAIN registered = 1 .. Len(registered)
    BY <1>1, LenProperties
  <1>3. filed \in Seq(Seq(DOMAIN owners))
    BY <1>1, <1>2, SeqDef
  <1>4. Len(filed) \in Nat /\ DOMAIN filed = 1 .. Len(filed)
    BY <1>3, LenProperties
  <1>5. \A k, m \in Nat : 1 .. k = 1 .. m => k = m
    OBVIOUS
  <1>6. 1 .. Len(filed) = 1 .. Len(registered)
    <2>1. DOMAIN filed = DOMAIN registered
      BY <1>1, Zenon
    <2> QED  BY <1>2, <1>4, <2>1, Zenon
  <1>7. Len(filed) = Len(registered)
    BY <1>2, <1>4, <1>5, <1>6
  <1> QED  BY <1>3, <1>4, <1>7

LEMMA BankStaysTyped ==
    ASSUME TypeOK, Worker
    PROVE  /\ registered' \in Seq(Nat) /\ filed' \in [DOMAIN registered' -> Seq(DOMAIN owners')]
           /\ owners' \in Seq(DOMAIN registered')
           /\ DOMAIN registered \subseteq DOMAIN registered'
           /\ DOMAIN owners \subseteq DOMAIN owners'
           /\ \A a \in DOMAIN owners : owners'[a] = owners[a]
  <1>1. /\ registered \in Seq(Nat) /\ filed \in [DOMAIN registered -> Seq(DOMAIN owners)]
        /\ owners \in Seq(DOMAIN registered)
    BY BankTypes
  <1>2. /\ Len(registered) \in Nat /\ DOMAIN registered = 1 .. Len(registered)
        /\ Len(owners) \in Nat /\ DOMAIN owners = 1 .. Len(owners)
    BY <1>1, LenProperties
  <1>3. ASSUME NEW n \in Nat, Registers(n)
        PROVE  /\ registered' \in Seq(Nat) /\ filed' \in [DOMAIN registered' -> Seq(DOMAIN owners')]
               /\ owners' \in Seq(DOMAIN registered')
               /\ DOMAIN registered \subseteq DOMAIN registered' /\ owners' = owners
    <2>1. registered' \in Seq(Nat) /\ Len(registered') = Len(registered) + 1
      BY <1>1, <1>3, AppendProperties DEF Registers
    <2>2. DOMAIN registered' = 1 .. Len(registered) + 1
      BY <2>1, LenProperties
    <2>3. DOMAIN registered \subseteq DOMAIN registered'
      BY <1>2, <2>2
    <2>4. owners' \in Seq(DOMAIN registered')
      BY <1>1, <1>3, <2>3, SeqMonotonic DEF Registers
    <2>5. filed \in Seq(Seq(DOMAIN owners)) /\ Len(filed) = Len(registered)
      BY FiledIsASequence
    <2>6. /\ filed' \in Seq(Seq(DOMAIN owners)) /\ Len(filed') = Len(registered) + 1
      BY <1>3, <2>5, AppendProperties, EmptySeq DEF Registers
    <2>7. filed' \in [DOMAIN registered' -> Seq(DOMAIN owners)]
      BY <2>2, <2>6, LenProperties, ElementOfSeq
    <2> QED  BY <1>3, <2>1, <2>3, <2>4, <2>7 DEF Registers
  <1>4. ASSUME NEW c \in DOMAIN registered, Opens(c)
        PROVE  /\ registered' = registered
               /\ filed' \in [DOMAIN registered -> Seq(DOMAIN owners')]
               /\ owners' \in Seq(DOMAIN registered)
               /\ DOMAIN owners \subseteq DOMAIN owners'
               /\ \A a \in DOMAIN owners : owners'[a] = owners[a]
    <2>1. /\ owners' \in Seq(DOMAIN registered) /\ Len(owners') = Len(owners) + 1
          /\ \A a \in 1 .. Len(owners) : owners'[a] = owners[a]
      BY <1>1, <1>4, AppendProperties DEF Opens
    <2>2. DOMAIN owners' = 1 .. Len(owners) + 1
      BY <2>1, LenProperties
    <2>3. DOMAIN owners \subseteq DOMAIN owners' /\ Len(owners) + 1 \in DOMAIN owners'
      BY <1>2, <2>2
    <2>4. \A k \in DOMAIN registered : filed[k] \in Seq(DOMAIN owners')
      BY <1>1, <2>3, SeqMonotonic
    <2>5. Append(filed[c], Len(owners) + 1) \in Seq(DOMAIN owners')
      BY <2>3, <2>4, AppendProperties
    <2> QED  BY <1>1, <1>2, <1>4, <2>1, <2>3, <2>4, <2>5 DEF Opens
  <1> QED  BY <1>1, <1>3, <1>4, WorkerOnBank

LEMMA TypesHold ==
    ASSUME TypeOK, OwnersInv, [Next]_vars
    PROVE  TypeOK'
  <1> USE QueueTypes, SessionTypes, BankTypes, ClickTypes
  <1>0. /\ loginStatus \in {"enter", "logging in", "not found", "invalid"}
        /\ searchStatus \in {"enter", "searching", "results"}
        /\ shown \in [{"Admin", "Customer"} -> [Kinds -> Rows]]
    BY DEF TypeOK
  <1>1. session.state # "Customer" => session = [LoggedOut EXCEPT !.state = session.state]
    BY DEF TypeOK
  <1>2. /\ LoggedOut \in Sessions
        /\ [LoggedOut EXCEPT !.state = "Admin"] \in Sessions
        /\ [LoggedOut EXCEPT !.state = "Admin"].state = "Admin"
        /\ LoggedOut = [LoggedOut EXCEPT !.state = LoggedOut.state]
    BY EmptySeq DEF LoggedOut, Sessions
  <1>3. CASE UserClicks
    <2>1. PICK c \in Choices :
             \/ EnterAdmin(c) \/ LoginAsCustomer(c) \/ Logout(c) \/ RefreshData(c)
             \/ Operate(c) \/ ExecuteTransaction(c) \/ SearchCustomer(c) \/ RejectInput(c)
      BY <1>3 DEF UserClicks
    <2>2. /\ UNCHANGED <<answers, shown, registered, filed, owners, version>>
          /\ requests' \in Seq(Requests)
      BY <1>3, UserFrame, QueuesStayTyped DEF Next
    <2>3. clicks' \in 0 .. Len(Script)
      BY <2>1, ChoicesAreClicks
      DEF EnterAdmin, LoginAsCustomer, Logout, RefreshData, Operate, ExecuteTransaction,
          SearchCustomer, RejectInput, Click
    <2>4. /\ session' \in Sessions /\ combo' \in Seq(Nat)
          /\ session'.state # "Customer" => session' = [LoggedOut EXCEPT !.state = session'.state]
      BY <1>1, <1>2, <2>1
      DEF EnterAdmin, LoginAsCustomer, Logout, RefreshData, Operate, ExecuteTransaction,
          SearchCustomer, RejectInput, ShowAdmin, PopulateAccountCombo
    <2>5. /\ loginStatus' \in {"enter", "logging in", "not found", "invalid"}
          /\ searchStatus' \in {"enter", "searching", "results"}
      BY <1>0, <2>1
      DEF EnterAdmin, LoginAsCustomer, Logout, RefreshData, Operate, ExecuteTransaction,
          SearchCustomer, RejectInput
    <2>6. boxes' \in Seq(Boxes)
      <3>1. <<[over |-> "Validation", success |-> FALSE]>> \in Seq(Boxes)
        BY DEF Boxes
      <3> QED
        BY <2>1, <3>1
        DEF EnterAdmin, LoginAsCustomer, Logout, RefreshData, Operate, ExecuteTransaction,
            SearchCustomer, RejectInput
    <2> QED  BY <1>0, <2>2, <2>3, <2>4, <2>5, <2>6 DEF TypeOK
  <1>4. CASE Dismiss
    <2>1. /\ UNCHANGED <<answers, shown, registered, filed, owners, version>>
          /\ requests' \in Seq(Requests)
      BY <1>4, UserFrame, QueuesStayTyped DEF Next
    <2>2. /\ UNCHANGED <<session, loginStatus, searchStatus, combo, clicks>>
          /\ boxes' \in Seq(Boxes)
      BY <1>4, Taken DEF Dismiss
    <2> QED  BY <1>0, <1>1, <2>1, <2>2 DEF TypeOK
  <1>5. CASE Worker
    <2>1. /\ UNCHANGED <<session, loginStatus, searchStatus, combo, shown, boxes, clicks>>
          /\ requests' \in Seq(Requests) /\ answers' \in Seq(Answers)
          /\ version' \in [Kinds -> Nat]
      BY <1>5, WorkerFrame, QueuesStayTyped DEF Next
    <2>2. /\ registered' \in Seq(Nat) /\ filed' \in [DOMAIN registered' -> Seq(DOMAIN owners')]
          /\ owners' \in Seq(DOMAIN registered')
      BY <1>5, BankStaysTyped
    <2> QED  BY <1>0, <1>1, <2>1, <2>2 DEF TypeOK
  <1>6. CASE Window
    <2>1. /\ UNCHANGED <<registered, filed, owners, version, clicks>>
          /\ requests' \in Seq(Requests) /\ answers' \in Seq(Answers)
          /\ Head(answers) = answers[1] /\ answers[1] \in Answers /\ 1 \in DOMAIN answers
      BY <1>6, WindowFrame, QueuesStayTyped DEF Next
    <2>2. CASE LookupResult
      <3>1. answers[1].to = "lookup"
        BY <2>1, <2>2 DEF LookupResult, Receiving
      <3>2. ASSUME answers[1].ok
            PROVE  /\ session' \in Sessions /\ session'.state = "Customer" /\ combo' \in Seq(Nat)
                   /\ loginStatus' = loginStatus
        <4>1. answers[1].id \in Nat /\ answers[1].list \in Seq(Nat)
          <5>1. answers[1].id \in DOMAIN registered
            BY <2>1, <3>1, <3>2 DEF OwnersInv
          <5>2. DOMAIN registered \subseteq Nat
            BY LenProperties
          <5> QED  BY <2>1, <5>1, <5>2 DEF Answers
        <4>2. /\ session' = [state |-> "Customer", customerId |-> answers[1].id,
                             accountIds |-> answers[1].list]
              /\ combo' = answers[1].list /\ loginStatus' = loginStatus
          BY <2>1, <2>2, <3>2 DEF LookupResult, ShowCustomer, PopulateAccountCombo
        <4> QED
          BY <4>1, <4>2 DEF Sessions
      <3>3. ASSUME ~answers[1].ok
            PROVE  UNCHANGED <<session, combo>> /\ loginStatus' = "not found"
        BY <2>1, <2>2, <3>3 DEF LookupResult
      <3>4. UNCHANGED <<searchStatus, shown, boxes>>
        BY <2>2 DEF LookupResult, Receiving
      <3> QED  BY <1>0, <1>1, <2>1, <3>2, <3>3, <3>4 DEF TypeOK
    <2>3. CASE OperationResult
      <3>1. UNCHANGED <<session, loginStatus, combo, shown, searchStatus>>
        BY <2>3 DEF OperationResult, Receiving
      <3>2. boxes' \in Seq(Boxes)
        <4>1. ASSUME session.state # "Login"
              PROVE  <<[over |-> session.state, success |-> answers[1].ok]>> \in Seq(Boxes)
          BY <2>1, <4>1 DEF Boxes, Answers
        <4>2. CASE session.state = "Login"
          BY <2>3, <4>2 DEF OperationResult
        <4>3. CASE session.state # "Login"
          <5>1. boxes' = <<[over |-> session.state, success |-> answers[1].ok]>> \o boxes
            BY <2>1, <2>3, <4>3 DEF OperationResult
          <5> QED  BY <4>1, <4>3, <5>1, ConcatProperties
        <4> QED  BY <4>2, <4>3
      <3> QED  BY <1>0, <1>1, <2>1, <3>1, <3>2 DEF TypeOK
    <2>4. CASE RowsReady
      <3>1. UNCHANGED <<session, loginStatus, combo, boxes, searchStatus>>
        BY <2>4 DEF RowsReady, Receiving
      <3>2. shown' \in [{"Admin", "Customer"} -> [Kinds -> Rows]]
        <4>1. [whose |-> answers[1].id, version |-> answers[1].version] \in Rows
          BY <2>1 DEF Rows, Answers
        <4>2. answers[1].to \in Kinds
          BY <2>1, <2>4 DEF RowsReady, Receiving
        <4> QED  BY <1>0, <2>1, <2>4, <4>1, <4>2 DEF RowsReady
      <3> QED  BY <1>0, <1>1, <2>1, <3>1, <3>2 DEF TypeOK
    <2>5. CASE SearchResults
      BY <1>0, <1>1, <2>1, <2>5 DEF SearchResults, TypeOK
    <2> QED  BY <1>6, <2>2, <2>3, <2>4, <2>5 DEF Window
  <1>7. CASE UNCHANGED vars
    BY <1>0, <1>1, <1>7 DEF vars, widgets, bank, TypeOK
  <1> QED
    BY <1>3, <1>4, <1>5, <1>6, <1>7 DEF Next

-----------------------------------------------------------------------------
(***************************************************************************)
(* Whose accounts a session offers.                                        *)
(***************************************************************************)
\* An account never changes hands.
LEMMA OwnersStay ==
    ASSUME TypeOK, Worker, NEW c, NEW list, OwnedBy(c, list)
    PROVE  OwnedBy(c, list)'
  BY BankStaysTyped DEF OwnedBy

\* A customer's list grows by the account just opened for it.
LEMMA FiledStayOwned ==
    ASSUME TypeOK, OwnersInv, Worker, NEW k \in DOMAIN registered'
    PROVE  OwnedBy(k, filed[k])'
  <1>1. /\ registered \in Seq(Nat) /\ filed \in [DOMAIN registered -> Seq(DOMAIN owners)]
        /\ owners \in Seq(DOMAIN registered)
    BY BankTypes
  <1>2. /\ Len(registered) \in Nat /\ DOMAIN registered = 1 .. Len(registered)
        /\ Len(owners) \in Nat /\ DOMAIN owners = 1 .. Len(owners)
    BY <1>1, LenProperties
  <1>3. ASSUME NEW c \in DOMAIN registered, NEW i \in DOMAIN filed[c]
        PROVE  filed[c][i] \in DOMAIN owners' /\ owners'[filed[c][i]] = c
    BY BankStaysTyped DEF OwnersInv, OwnedBy
  <1>4. CASE UNCHANGED <<registered, filed, owners>>
    BY <1>3, <1>4 DEF OwnedBy
  <1>5. CASE \E n \in Nat : Registers(n)
    <2>1. filed \in Seq(Seq(DOMAIN owners)) /\ DOMAIN filed = 1 .. Len(filed)
          /\ Len(filed) = Len(registered)
      BY FiledIsASequence
    <2>2. /\ \A j \in 1 .. Len(filed) : filed'[j] = filed[j]
          /\ filed'[Len(filed) + 1] = << >> /\ owners' = owners
      BY <1>5, <2>1, EmptySeq, AppendProperties DEF Registers
    <2>3. k \in DOMAIN registered \/ k = Len(filed) + 1
      <3>1. PICK n \in Nat : registered' = Append(registered, n)
        BY <1>5 DEF Registers
      <3> QED  BY <1>1, <1>2, <2>1, <3>1, Posted
    <2>4. CASE k \in DOMAIN registered
      BY <1>2, <1>3, <2>1, <2>2, <2>4 DEF OwnedBy
    <2>5. CASE k = Len(filed) + 1
      BY <2>2, <2>5 DEF OwnedBy
    <2> QED  BY <2>3, <2>4, <2>5
  <1>6. CASE \E c \in DOMAIN registered : Opens(c)
    <2>1. PICK c \in DOMAIN registered : Opens(c)
      BY <1>6
    <2>2. k \in DOMAIN registered /\ filed[k] \in Seq(DOMAIN owners)
      BY <1>1, <2>1 DEF Opens
    <2>3. Len(owners) + 1 \in DOMAIN owners' /\ owners'[Len(owners) + 1] = c
      BY <1>1, <2>1, Posted DEF Opens
    <2>4. CASE k # c
      <3>1. filed'[k] = filed[k]
        BY <1>1, <2>1, <2>2, <2>4 DEF Opens
      <3> QED  BY <1>3, <2>2, <3>1 DEF OwnedBy
    <2>5. CASE k = c
      <3>1. filed'[k] = Append(filed[k], Len(owners) + 1)
        BY <1>1, <2>1, <2>2, <2>5 DEF Opens
      <3>2. filed[k] \in Seq(Nat) /\ Len(owners) + 1 \in Nat
        BY <1>2, <2>2, SeqMonotonic
      <3>3. \A i \in DOMAIN filed'[k] :
              \/ filed'[k][i] = Len(owners) + 1
              \/ i \in DOMAIN filed[k] /\ filed'[k][i] = filed[k][i]
        BY <3>1, <3>2, Posted
      <3> QED  BY <1>3, <2>2, <2>3, <2>5, <3>3 DEF OwnedBy
    <2> QED  BY <2>4, <2>5
  <1> QED  BY <1>4, <1>5, <1>6, WorkerOnBank

LEMMA OwnersHold ==
    ASSUME TypeOK, OwnersInv, [Next]_vars
    PROVE  OwnersInv'
  <1>0. /\ answers \in Seq(Answers)
        /\ \A c \in DOMAIN registered : OwnedBy(c, filed[c])
        /\ \A i \in DOMAIN answers :
             answers[i].to = "lookup" /\ answers[i].ok =>
               answers[i].id \in DOMAIN registered /\ OwnedBy(answers[i].id, answers[i].list)
        /\ session.state = "Customer" =>
             OwnedBy(session.customerId, session.accountIds) /\ OwnedBy(session.customerId, combo)
    BY QueueTypes DEF OwnersInv
  <1>1. CASE UserClicks \/ Dismiss
    <2>1. UNCHANGED <<answers, registered, filed, owners>>
      BY <1>1, UserFrame
    <2>2. \/ UNCHANGED <<session, combo>>
          \/ session'.state # "Customer"
          \/ session' = session /\ combo' = session.accountIds
      <3>1. CASE Dismiss
        BY <3>1 DEF Dismiss
      <3>2. LoggedOut.state # "Customer" /\ [LoggedOut EXCEPT !.state = "Admin"].state # "Customer"
        BY DEF LoggedOut
      <3>3. CASE UserClicks
        <4>1. PICK c \in Choices :
                 \/ EnterAdmin(c) \/ LoginAsCustomer(c) \/ Logout(c) \/ RefreshData(c)
                 \/ Operate(c) \/ ExecuteTransaction(c) \/ SearchCustomer(c) \/ RejectInput(c)
          BY <3>3 DEF UserClicks
        <4> QED
          BY <3>2, <4>1
          DEF EnterAdmin, LoginAsCustomer, Logout, RefreshData, Operate, ExecuteTransaction,
              SearchCustomer, RejectInput, ShowAdmin, PopulateAccountCombo
      <3> QED  BY <1>1, <3>1, <3>3
    <2> QED  BY <1>0, <2>1, <2>2 DEF OwnersInv, OwnedBy
  <1>2. CASE Worker
    <2>1. session' = session /\ combo' = combo
      BY <1>2, WorkerFrame
    <2>2. session'.state = "Customer" =>
            OwnedBy(session.customerId, session.accountIds)' /\ OwnedBy(session.customerId, combo)'
      BY <1>0, <1>2, <2>1, OwnersStay
    <2>3. PICK a \in Answers : answers' = Append(answers, a)
      BY <1>2, WorkerFrame
    <2>4. a.to = "lookup" /\ a.ok => a.id \in DOMAIN registered /\ OwnedBy(a.id, a.list)
      <3>1. CASE LookupCustomer
        <4>1. \/ Answer("lookup", FALSE, 0, << >>, 0)
              \/ \E c \in DOMAIN registered : Answer("lookup", TRUE, c, filed[c], 0)
          BY <3>1 DEF LookupCustomer
        <4>2. \A b : answers' = Append(answers, b) => a = b
          BY <1>0, <2>3, LastPosted
        <4>3. CASE Answer("lookup", FALSE, 0, << >>, 0)
          <5>1. answers' = Append(answers, [to |-> "lookup", ok |-> FALSE, id |-> 0,
                                            list |-> << >>, version |-> 0])
            BY <4>3 DEF Answer, Post
          <5>2. a = [to |-> "lookup", ok |-> FALSE, id |-> 0, list |-> << >>, version |-> 0]
            BY <4>2, <5>1
          <5> QED  BY <5>2
        <4>4. ASSUME NEW c \in DOMAIN registered, Answer("lookup", TRUE, c, filed[c], 0)
              PROVE  a.id = c /\ a.list = filed[c]
          <5>1. answers' = Append(answers, [to |-> "lookup", ok |-> TRUE, id |-> c,
                                            list |-> filed[c], version |-> 0])
            BY <4>4 DEF Answer, Post
          <5>2. a = [to |-> "lookup", ok |-> TRUE, id |-> c, list |-> filed[c], version |-> 0]
            BY <4>2, <5>1
          <5> QED  BY <5>2
        <4> QED  BY <1>0, <4>1, <4>3, <4>4
      <3>2. CASE ~LookupCustomer
        <4>1. \E to \in {"search", "operation"} \cup Kinds : \E ok, id, list, v : Answer(to, ok, id, list, v)
          BY <1>2, <3>2
          DEF Worker, RegisterCustomer, OpenAccount, Transact, Manage, Search, SendRows, Report,
              Serving
        <4> QED
          BY <4>1, <2>3, <1>0, LastPosted DEF Answer, Post, Kinds
      <3> QED  BY <3>1, <3>2
    <2>5. ASSUME NEW i \in DOMAIN answers', answers'[i].to = "lookup", answers'[i].ok
          PROVE  answers'[i].id \in DOMAIN registered' /\ OwnedBy(answers[i].id, answers[i].list)'
      <3>1. answers'[i] = a \/ (i \in DOMAIN answers /\ answers'[i] = answers[i])
        BY <1>0, <2>3, Posted
      <3>2. DOMAIN registered \subseteq DOMAIN registered'
        BY <1>2, BankStaysTyped
      <3>3. CASE answers'[i] = a
        <4>1. a.id \in DOMAIN registered /\ OwnedBy(a.id, a.list)
          BY <2>4, <2>5, <3>3
        <4>2. OwnedBy(a.id, a.list)'
          BY <1>2, <4>1, OwnersStay
        <4> QED  BY <3>2, <3>3, <4>1, <4>2 DEF OwnedBy
      <3>4. CASE i \in DOMAIN answers /\ answers'[i] = answers[i]
        <4>1. answers[i].id \in DOMAIN registered /\ OwnedBy(answers[i].id, answers[i].list)
          BY <1>0, <2>5, <3>4
        <4>2. \A c, list : OwnedBy(c, list) => OwnedBy(c, list)'
          BY <1>2, OwnersStay
        <4> QED  BY <3>2, <3>4, <4>1, <4>2 DEF OwnedBy
      <3> QED  BY <3>1, <3>3, <3>4
    <2> QED  BY <1>2, <2>2, <2>5, FiledStayOwned DEF OwnersInv
  <1>3. CASE Window
    <2>1. /\ UNCHANGED <<registered, filed, owners>>
          /\ answers # << >> /\ answers' = Tail(answers)
          /\ Head(answers) = answers[1] /\ 1 \in DOMAIN answers
      BY <1>3, WindowFrame
    <2>2. \A i \in DOMAIN answers' : i + 1 \in DOMAIN answers /\ answers'[i] = answers[i + 1]
      BY <1>0, <2>1, Taken
    <2>3. ASSUME session'.state = "Customer"
          PROVE  OwnedBy(session'.customerId, session'.accountIds) /\ OwnedBy(session'.customerId, combo')
      <3>1. CASE UNCHANGED <<session, combo>>
        BY <1>0, <2>3, <3>1
      <3>2. CASE ~UNCHANGED <<session, combo>>
        <4>1. LookupResult /\ answers[1].ok
          BY <1>3, <2>1, <3>2
          DEF Window, LookupResult, OperationResult, RowsReady, SearchResults
        <4>2. /\ session'.customerId = answers[1].id /\ session'.accountIds = answers[1].list
              /\ combo' = answers[1].list
          <5>1. ShowCustomer(answers[1].id, answers[1].list)
            BY <2>1, <4>1 DEF LookupResult
          <5>2. session' = [state |-> "Customer", customerId |-> answers[1].id,
                            accountIds |-> answers[1].list]
            BY <5>1 DEF ShowCustomer
          <5> QED  BY <5>1, <5>2 DEF ShowCustomer, PopulateAccountCombo
        <4>3. answers[1].to = "lookup"
          BY <2>1, <4>1 DEF LookupResult, Receiving
        <4>4. OwnedBy(answers[1].id, answers[1].list)
          BY <1>0, <2>1, <4>1, <4>3
        <4> QED  BY <4>2, <4>4
      <3> QED  BY <3>1, <3>2
    <2> QED  BY <1>0, <2>1, <2>2, <2>3 DEF OwnersInv, OwnedBy
  <1>4. CASE UNCHANGED vars
    BY <1>4 DEF vars, widgets, bank, OwnersInv, OwnedBy
  <1> QED  BY <1>1, <1>2, <1>3, <1>4 DEF Next

-----------------------------------------------------------------------------
(***************************************************************************)
(* In which order rows arrive.                                             *)
(***************************************************************************)
\* Rows are answered as the bank has them and as they were asked for.  Other
\* requests may change them: they succeed, or they are refused transactions.
LEMMA WorkerAnswers ==
    ASSUME TypeOK, Worker, NEW a, answers' = Append(answers, a)
    PROVE  \/ /\ Head(requests).op \in Kinds /\ UNCHANGED version
              /\ a.to = Head(requests).op /\ a.id = Head(requests).id
              /\ a.version = version[a.to]
           \/ /\ Head(requests).op \notin Kinds /\ a.to \notin Kinds
              /\ \/ UNCHANGED version
                 \/ a.to = "operation" /\ a.ok
                 \/ /\ Head(requests).op = "transact"
                    /\ \A k \in Kinds \ {"transactions"} : version'[k] = version[k]
  <1>1. answers \in Seq(Answers) /\ version \in [Kinds -> Nat]
    BY QueueTypes, BankTypes
  <1>2. \A b : answers' = Append(answers, b) => a = b
    BY <1>1, LastPosted
  <1>3. CASE SendRows
    <2>1. /\ Head(requests).op \in Kinds /\ UNCHANGED version
          /\ answers' = Append(answers, [to |-> Head(requests).op, ok |-> TRUE,
                          id |-> Head(requests).id, list |-> << >>,
                          version |-> version[Head(requests).op]])
      BY <1>3 DEF SendRows, Serving, Answer, Post, bank
    <2>2. a = [to |-> Head(requests).op, ok |-> TRUE, id |-> Head(requests).id,
               list |-> << >>, version |-> version[Head(requests).op]]
      BY <1>2, <2>1
    <2> QED  BY <2>1, <2>2
  <1>4. ASSUME NEW success, Report(success)
        PROVE  a.to = "operation" /\ a.ok = success
    <2>1. answers' = Append(answers, [to |-> "operation", ok |-> success, id |-> 0,
                                      list |-> << >>, version |-> 0])
      BY <1>4 DEF Report, Answer, Post
    <2>2. a = [to |-> "operation", ok |-> success, id |-> 0, list |-> << >>, version |-> 0]
      BY <1>2, <2>1
    <2> QED  BY <2>2
  <1>5. CASE RegisterCustomer
    <2>1. Report(TRUE) /\ Head(requests).op \notin Kinds
      BY <1>5 DEF RegisterCustomer, Serving, Kinds
    <2>2. a.to = "operation" /\ a.ok
      BY <2>1, <1>4
    <2> QED  BY <2>1, <2>2 DEF Kinds
  <1>6. CASE OpenAccount
    <2>1. Head(requests).op \notin Kinds
      BY <1>6 DEF OpenAccount, Serving, Kinds
    <2>2. CASE Head(requests).id \in DOMAIN registered
      <3>1. Report(Head(requests).id \in DOMAIN registered)
        BY <1>6 DEF OpenAccount
      <3>2. a.to = "operation" /\ a.ok = (Head(requests).id \in DOMAIN registered)
        BY <3>1, <1>4
      <3> QED  BY <2>1, <2>2, <3>2 DEF Kinds
    <2>3. CASE Head(requests).id \notin DOMAIN registered
      <3>1. UNCHANGED version /\ \E success : Report(success)
        BY <1>6, <2>3 DEF OpenAccount
      <3> QED  BY <2>1, <3>1, <1>4 DEF Kinds
    <2> QED  BY <2>2, <2>3
  <1>7. CASE Transact \/ Manage
    <2>1. /\ Head(requests).op \notin Kinds /\ \E success : Report(success)
          /\ \/ Report(TRUE)
             \/ Changed({})
             \/ Head(requests).op = "transact" /\ Changed({"transactions"})
      BY <1>7 DEF Transact, Manage, Serving, Kinds
    <2>2. Changed({}) => UNCHANGED version
      BY <1>1 DEF Changed
    <2>3. Changed({"transactions"}) =>
            \A k \in Kinds \ {"transactions"} : version'[k] = version[k]
      BY <1>1 DEF Changed
    <2>4. a.to = "operation" /\ (Report(TRUE) => a.ok)
      BY <2>1, <1>4
    <2> QED  BY <2>1, <2>2, <2>3, <2>4 DEF Kinds
  <1>8. CASE LookupCustomer \/ Search
    <2>1. Head(requests).op \notin Kinds /\ UNCHANGED version
      BY <1>8 DEF LookupCustomer, Search, Serving, bank, Kinds
    <2>2. \E to \in {"lookup", "search"} : \E ok, id, list : Answer(to, ok, id, list, 0)
      BY <1>8 DEF LookupCustomer, Search
    <2>3. a.to \notin Kinds
      <3>0. PICK to \in {"lookup", "search"} : \E ok, id, list : Answer(to, ok, id, list, 0)
        BY <2>2
      <3>1. PICK ok, id, list : Answer(to, ok, id, list, 0)
        BY <3>0
      <3>2. answers' = Append(answers, [to |-> to, ok |-> ok, id |-> id, list |-> list,
                                        version |-> 0])
        BY <3>1 DEF Answer, Post
      <3>3. a = [to |-> to, ok |-> ok, id |-> id, list |-> list, version |-> 0]
        BY <1>2, <3>2
      <3> QED  BY <3>3 DEF Kinds
    <2> QED  BY <2>1, <2>3
  <1> QED  BY <1>3, <1>5, <1>6, <1>7, <1>8 DEF Worker

\* The visible dashboard takes rows, but the customer's has no customers.
LEMMA WindowShows ==
    ASSUME TypeOK, Window
    PROVE  \/ /\ answers[1].to \in Kinds /\ UNCHANGED session
              /\ session.state = "Admin" \/ (session.state = "Customer" /\ answers[1].to # "customers")
              /\ shown' = [shown EXCEPT ![session.state][answers[1].to] =
                             [whose |-> answers[1].id, version |-> answers[1].version]]
           \/ /\ UNCHANGED shown
              /\ \/ answers[1].to \notin Kinds
                 \/ session.state # "Admin" /\ (session.state = "Customer" => answers[1].to = "customers")
  <1>1. Head(answers) = answers[1]
    BY WindowFrame
  <1>2. CASE RowsReady
    BY <1>1, <1>2, SessionTypes DEF RowsReady, Takes, Receiving
  <1>3. CASE ~RowsReady
    BY <1>1, <1>3
    DEF Window, LookupResult, OperationResult, SearchResults, Receiving, Kinds
  <1> QED  BY <1>2, <1>3

LEMMA VersionTypes ==
    ASSUME TypeOK
    PROVE  /\ \A k \in Kinds : version[k] \in Nat
           /\ \A i \in DOMAIN answers : i \in Nat /\ answers[i].version \in Nat
           /\ \A d \in {"Admin", "Customer"}, k \in Kinds : shown[d][k].version \in Nat
  <1>1. shown \in [{"Admin", "Customer"} -> [Kinds -> Rows]]
    BY DEF TypeOK
  <1>2. ASSUME NEW i \in DOMAIN answers
        PROVE  i \in Nat /\ answers[i] \in Answers
    BY QueueTypes, LenProperties, ElementOfSeq
  <1> QED
    BY <1>1, <1>2, BankTypes DEF Rows, Answers

LEMMA OrderHolds ==
    ASSUME TypeOK, OrderInv, [Next]_vars
    PROVE  OrderInv' /\ RowsNotOlder
  <1>0. /\ \A k \in Kinds : version[k] \in Nat
        /\ \A i \in DOMAIN answers : i \in Nat /\ answers[i].version \in Nat
        /\ \A d \in {"Admin", "Customer"}, k \in Kinds : shown[d][k].version \in Nat
        /\ answers \in Seq(Answers)
    BY VersionTypes, QueueTypes
  <1>1. CASE UserClicks \/ Dismiss \/ UNCHANGED vars
    <2>1. UNCHANGED <<answers, shown, version>>
      BY <1>1, UserFrame DEF vars, widgets, bank
    <2> QED  BY <1>0, <2>1 DEF OrderInv, RowsNotOlder
  <1>2. CASE Worker
    <2>1. shown' = shown /\ \A k \in Kinds : version[k] <= version'[k] /\ version'[k] \in Nat
      BY <1>2, WorkerFrame
    <2>2. PICK a \in Answers : answers' = Append(answers, a)
      BY <1>2, WorkerFrame
    <2>3. a.to \in Kinds => a.version = version[a.to]
      BY <1>2, <2>2, WorkerAnswers
    <2>4. \A i \in DOMAIN answers' :
             \/ i \in DOMAIN answers /\ answers'[i] = answers[i] /\ i < Len(answers) + 1
             \/ i = Len(answers) + 1 /\ answers'[i] = a
      BY <1>0, <2>2, Posted
    <2>5. Len(answers) \in Nat
      BY <1>0, LenProperties
    <2>6. ASSUME NEW k \in Kinds, NEW i \in DOMAIN answers', answers'[i].to = k
          PROVE  /\ answers'[i].version <= version'[k]
                 /\ \A d \in {"Admin", "Customer"} : shown[d][k].version <= answers'[i].version
                 /\ \A j \in DOMAIN answers' : answers'[j].to = k /\ i <= j =>
                      answers'[i].version <= answers'[j].version
      <3>1. CASE i \in DOMAIN answers /\ answers'[i] = answers[i]
        <4>1. /\ answers[i].version <= version[k]
              /\ \A d \in {"Admin", "Customer"} : shown[d][k].version <= answers[i].version
              /\ \A j \in DOMAIN answers : answers[j].to = k /\ i <= j =>
                   answers[i].version <= answers[j].version
          BY <1>0, <2>6, <3>1 DEF OrderInv
        <4> QED  BY <1>0, <2>1, <2>3, <2>4, <2>6, <3>1, <4>1
      <3>2. CASE i = Len(answers) + 1 /\ answers'[i] = a
        <4>1. \A j \in DOMAIN answers' : i <= j => answers'[j] = a
          BY <1>0, <2>4, <2>5, <3>2
        <4> QED  BY <1>0, <2>1, <2>3, <2>6, <3>2, <4>1 DEF OrderInv
      <3> QED  BY <2>4, <3>1, <3>2
    <2>7. \A d \in {"Admin", "Customer"}, k \in Kinds : shown[d][k].version <= version'[k]
      BY <1>0, <2>1 DEF OrderInv
    <2> QED  BY <1>0, <2>1, <2>6, <2>7 DEF OrderInv, RowsNotOlder
  <1>3. CASE Window
    <2>1. /\ UNCHANGED version /\ answers # << >> /\ answers' = Tail(answers)
          /\ Head(answers) = answers[1] /\ 1 \in DOMAIN answers
      BY <1>3, WindowFrame
    <2>2. \A i \in DOMAIN answers' :
             i \in Nat /\ i + 1 \in DOMAIN answers /\ answers'[i] = answers[i + 1]
      BY <1>0, <2>1, Taken
    <2>3. \A d \in {"Admin", "Customer"}, k \in Kinds :
            \/ shown'[d][k] = shown[d][k]
            \/ answers[1].to = k /\ shown'[d][k].version = answers[1].version
      <3>1. shown \in [{"Admin", "Customer"} -> [Kinds -> Rows]]
        BY DEF TypeOK
      <3> QED  BY <1>3, <3>1, WindowShows
    <2>4. RowsNotOlder
      BY <1>0, <2>1, <2>3 DEF OrderInv, RowsNotOlder
    <2>5. ASSUME NEW k \in Kinds
          PROVE  \A d \in {"Admin", "Customer"} : shown'[d][k].version <= version'[k]
      BY <1>0, <2>1, <2>3 DEF OrderInv
    <2>6. ASSUME NEW k \in Kinds, NEW i \in DOMAIN answers', answers'[i].to = k
          PROVE  /\ answers'[i].version <= version'[k]
                 /\ \A d \in {"Admin", "Customer"} : shown'[d][k].version <= answers'[i].version
                 /\ \A j \in DOMAIN answers' : answers'[j].to = k /\ i <= j =>
                      answers'[i].version <= answers'[j].version
      <3>1. /\ i \in Nat /\ i + 1 \in DOMAIN answers /\ answers[i + 1].to = k
            /\ answers'[i] = answers[i + 1]
        BY <2>2, <2>6
      <3>2. ASSUME NEW d \in {"Admin", "Customer"}
            PROVE  shown'[d][k].version <= answers'[i].version
        <4>1. CASE shown'[d][k] = shown[d][k]
          BY <3>1, <4>1 DEF OrderInv
        <4>2. CASE answers[1].to = k /\ shown'[d][k].version = answers[1].version
          <5>1. 1 <= i + 1
            BY <3>1
          <5> QED  BY <2>1, <3>1, <4>2, <5>1 DEF OrderInv
        <4> QED  BY <2>3, <4>1, <4>2
      <3>3. ASSUME NEW j \in DOMAIN answers', answers'[j].to = k, i <= j
            PROVE  answers'[i].version <= answers'[j].version
        BY <2>2, <3>1, <3>3 DEF OrderInv
      <3> QED  BY <2>1, <3>1, <3>2, <3>3 DEF OrderInv
    <2> QED  BY <2>4, <2>5, <2>6 DEF OrderInv
  <1> QED  BY <1>1, <1>2, <1>3 DEF Next

-----------------------------------------------------------------------------
(***************************************************************************)
(* What arrives last.                                                      *)
(***************************************************************************)
LEMMA SentAfterPost ==
    ASSUME TypeOK, NEW a \in Answers, answers' = Append(answers, a), NEW k
    PROVE  /\ a.to = k => \E i \in DOMAIN answers' : LastSent(k, i)' /\ answers'[i] = a
           /\ a.to # k =>
                /\ \A i \in DOMAIN answers : LastSent(k, i) => LastSent(k, i)' /\ answers'[i] = answers[i]
                /\ NoneSent(k) => NoneSent(k)'
  <1>1. answers \in Seq(Answers)
    BY QueueTypes
  <1>2. /\ Len(answers) \in Nat
        /\ Len(answers) + 1 \in DOMAIN answers' /\ answers'[Len(answers) + 1] = a
        /\ \A i \in DOMAIN answers :
             i \in Nat /\ i < Len(answers) + 1 /\ i \in DOMAIN answers' /\ answers'[i] = answers[i]
        /\ \A i \in DOMAIN answers' : i = Len(answers) + 1 \/ i \in DOMAIN answers
    BY <1>1, Posted
  <1> QED  BY <1>2 DEF LastSent, NoneSent

LEMMA SentAfterTake ==
    ASSUME TypeOK, answers # << >>, answers' = Tail(answers), NEW k
    PROVE  /\ \A i \in DOMAIN answers :
                LastSent(k, i) =>
                  \/ i = 1 /\ NoneSent(k)'
                  \/ i - 1 \in DOMAIN answers' /\ LastSent(k, i - 1)' /\ answers'[i - 1] = answers[i]
           /\ NoneSent(k) => NoneSent(k)'
  <1>1. answers \in Seq(Answers)
    BY QueueTypes
  <1>2. /\ \A i \in DOMAIN answers' :
             i \in Nat /\ i + 1 \in DOMAIN answers /\ answers'[i] = answers[i + 1]
        /\ \A i \in DOMAIN answers :
             i = 1 \/ (i - 1 \in DOMAIN answers' /\ answers'[i - 1] = answers[i])
    BY <1>1, Taken
  <1>3. \A i \in DOMAIN answers : i \in Nat /\ i >= 1
    BY <1>1, LenProperties
  <1>4. ASSUME NEW i \in DOMAIN answers, LastSent(k, i), i = 1 PROVE NoneSent(k)'
    BY <1>2, <1>3, <1>4 DEF LastSent, NoneSent
  <1>5. ASSUME NEW i \in DOMAIN answers, LastSent(k, i), i # 1 PROVE LastSent(k, i - 1)'
    BY <1>2, <1>3, <1>5 DEF LastSent
  <1> QED  BY <1>2, <1>4, <1>5 DEF NoneSent

LEMMA AskedAfterTake ==
    ASSUME TypeOK, requests # << >>, requests' = Tail(requests), NEW k
    PROVE  /\ \A i \in DOMAIN requests :
                LastAsked(k, i) =>
                  \/ i = 1 /\ NoneAsked(k)'
                  \/ i - 1 \in DOMAIN requests' /\ LastAsked(k, i - 1)' /\ requests'[i - 1] = requests[i]
           /\ NoneAsked(k) => NoneAsked(k)'
           /\ Head(requests) = requests[1] /\ 1 \in DOMAIN requests
           /\ \A i \in DOMAIN requests' :
                i \in Nat /\ i + 1 \in DOMAIN requests /\ requests'[i] = requests[i + 1]
           /\ \A i \in DOMAIN requests :
                i \in Nat /\ (i = 1 \/ (i - 1 \in DOMAIN requests' /\ requests'[i - 1] = requests[i]))
  <1>1. requests \in Seq(Requests)
    BY QueueTypes
  <1>2. /\ Head(requests) = requests[1] /\ 1 \in DOMAIN requests
        /\ \A i \in DOMAIN requests' :
             i \in Nat /\ i + 1 \in DOMAIN requests /\ requests'[i] = requests[i + 1]
        /\ \A i \in DOMAIN requests :
             i = 1 \/ (i - 1 \in DOMAIN requests' /\ requests'[i - 1] = requests[i])
    BY <1>1, Taken
  <1>3. \A i \in DOMAIN requests : i \in Nat /\ i >= 1
    BY <1>1, LenProperties
  <1>4. ASSUME NEW i \in DOMAIN requests, LastAsked(k, i), i = 1 PROVE NoneAsked(k)'
    BY <1>2, <1>3, <1>4 DEF LastAsked, NoneAsked
  <1>5. ASSUME NEW i \in DOMAIN requests, LastAsked(k, i), i # 1 PROVE LastAsked(k, i - 1)'
    BY <1>2, <1>3, <1>5 DEF LastAsked
  <1> QED  BY <1>2, <1>3, <1>4, <1>5 DEF NoneAsked

\* Requests for something else do not change which rows come last.
LEMMA AskedAfterOthers ==
    ASSUME TypeOK, NEW list \in Seq(Requests), requests' = requests \o list,
           NEW k, \A i \in DOMAIN list : list[i].op # k
    PROVE  /\ \A i \in DOMAIN requests :
                LastAsked(k, i) => LastAsked(k, i)' /\ requests'[i] = requests[i]
           /\ NoneAsked(k) => NoneAsked(k)'
  <1>1. requests \in Seq(Requests)
    BY QueueTypes
  <1>2. /\ \A i \in DOMAIN requests : i \in DOMAIN requests' /\ requests'[i] = requests[i]
        /\ \A i \in DOMAIN requests' :
             i \in DOMAIN requests \/ (i - Len(requests) \in DOMAIN list
                                       /\ requests'[i] = list[i - Len(requests)])
    <2>1. /\ \A i \in DOMAIN requests :
               i \in DOMAIN (requests \o list) /\ (requests \o list)[i] = requests[i]
          /\ \A i \in DOMAIN (requests \o list) :
               i \in DOMAIN requests \/ (i - Len(requests) \in DOMAIN list
                                /\ (requests \o list)[i] = list[i - Len(requests)])
      BY <1>1, Joined
    <2> QED  BY <2>1, Zenon
  <1>3. ASSUME NEW i \in DOMAIN requests, LastAsked(k, i)
        PROVE  LastAsked(k, i)'
    BY <1>2, <1>3 DEF LastAsked
  <1>4. NoneAsked(k) => NoneAsked(k)'
    BY <1>2 DEF NoneAsked
  <1> QED  BY <1>2, <1>3, <1>4

\* After a refresh everybody's rows come last, and after every transaction.
LEMMA AskedAfterAll ==
    ASSUME TypeOK, requests' = requests \o AllData
    PROVE  /\ \A k \in Kinds : \E i \in DOMAIN requests' :
                LastAsked(k, i)' /\ requests'[i].id = Everybody
           /\ \A i \in DOMAIN requests' : requests'[i].op = "transact" =>
                \E j \in DOMAIN requests' : i < j /\ requests'[j].op = "transactions"
  <1>1. requests \in Seq(Requests) /\ AllData \in Seq(Requests)
    BY QueueTypes, RequestsAreTyped
  <1>2. /\ Len(requests) \in Nat
        /\ \A i \in DOMAIN requests :
             i \in Nat /\ i <= Len(requests) /\ i \in DOMAIN requests' /\ requests'[i] = requests[i]
        /\ \A i \in DOMAIN AllData :
             /\ Len(requests) + i \in DOMAIN requests'
             /\ requests'[Len(requests) + i] = AllData[i]
        /\ \A i \in DOMAIN requests' :
             i \in Nat /\ (i \in DOMAIN requests \/ (i - Len(requests) \in DOMAIN AllData
                                                   /\ requests'[i] = AllData[i - Len(requests)]))
    BY <1>1, Joined
  <1>3. /\ DOMAIN AllData = 1 .. 3
        /\ AllData[1].op = "accounts" /\ AllData[1].id = Everybody
        /\ AllData[2].op = "customers" /\ AllData[2].id = Everybody
        /\ AllData[3].op = "transactions" /\ AllData[3].id = Everybody
    BY DEF AllData, Request
  <1>4. ASSUME NEW i \in DOMAIN requests'
        PROVE  \/ i \in DOMAIN requests /\ i <= Len(requests) /\ requests'[i] = requests[i]
               \/ i = Len(requests) + 1 /\ requests'[i] = AllData[1]
               \/ i = Len(requests) + 2 /\ requests'[i] = AllData[2]
               \/ i = Len(requests) + 3 /\ requests'[i] = AllData[3]
    BY <1>2, <1>3
  <1>5. /\ Len(requests) + 1 \in DOMAIN requests' /\ requests'[Len(requests) + 1] = AllData[1]
        /\ Len(requests) + 2 \in DOMAIN requests' /\ requests'[Len(requests) + 2] = AllData[2]
        /\ Len(requests) + 3 \in DOMAIN requests' /\ requests'[Len(requests) + 3] = AllData[3]
    BY <1>2, <1>3
  <1>6. ASSUME NEW k, NEW n \in 1 .. 3, AllData[n].op = k,
               \A m \in 1 .. 3 : n < m => AllData[m].op # k,
               NEW i, i = Len(requests) + n
        PROVE  LastAsked(k, i)'
    BY <1>2, <1>3, <1>4, <1>6 DEF LastAsked
  <1>7. \A i \in DOMAIN requests' : requests'[i].op = "transact" => i < Len(requests) + 3
    BY <1>2, <1>3, <1>4
  <1>8. ASSUME NEW k \in Kinds
        PROVE  \E i \in DOMAIN requests' : LastAsked(k, i)' /\ requests'[i].id = Everybody
    <2>1. CASE k = "accounts"
      <3>1. PICK i : i = Len(requests) + 1
        OBVIOUS
      <3>2. LastAsked(k, i)'
        BY <1>3, <1>6, <2>1, <3>1
      <3> QED  BY <1>3, <1>5, <3>1, <3>2
    <2>2. CASE k = "customers"
      <3>1. PICK i : i = Len(requests) + 2
        OBVIOUS
      <3>2. LastAsked(k, i)'
        BY <1>3, <1>6, <2>2, <3>1
      <3> QED  BY <1>3, <1>5, <3>1, <3>2
    <2>3. CASE k = "transactions"
      <3>1. PICK i : i = Len(requests) + 3
        OBVIOUS
      <3>2. LastAsked(k, i)'
        BY <1>3, <1>6, <2>3, <3>1
      <3> QED  BY <1>3, <1>5, <3>1, <3>2
    <2> QED  BY <2>1, <2>2, <2>3 DEF Kinds
  <1>9. Len(requests) + 3 \in DOMAIN requests' /\ requests'[Len(requests) + 3].op = "transactions"
    BY <1>3, <1>5
  <1> QED  BY <1>7, <1>8, <1>9

-----------------------------------------------------------------------------
(***************************************************************************)
(* Message boxes, and what the user's clicks ask for.                      *)
(***************************************************************************)
\* A screen is left by a click, which no box is over, or by a login.
LEMMA BoxesHold ==
    ASSUME TypeOK, BoxInv, [Next]_vars
    PROVE  BoxInv'
  <1>0. boxes \in Seq(Boxes) /\ \A i \in DOMAIN boxes : i \in Nat
    BY QueueTypes, LenProperties
  <1>1. CASE UserClicks
    <2>1. PICK c \in Choices :
             \/ EnterAdmin(c) \/ LoginAsCustomer(c) \/ Logout(c) \/ RefreshData(c)
             \/ Operate(c) \/ ExecuteTransaction(c) \/ SearchCustomer(c) \/ RejectInput(c)
      BY <1>1 DEF UserClicks
    <2>2. \/ boxes' = << >>
          \/ boxes' = <<[over |-> "Validation", success |-> FALSE]>>
      BY <2>1
      DEF EnterAdmin, LoginAsCustomer, Logout, RefreshData, Operate, ExecuteTransaction,
          SearchCustomer, RejectInput, Click
    <2> QED  BY <2>2 DEF BoxInv
  <1>2. CASE Dismiss
    <2>1. boxes # << >> /\ boxes' = Tail(boxes) /\ session' = session
      BY <1>2 DEF Dismiss
    <2>2. \A i \in DOMAIN boxes' : i + 1 \in DOMAIN boxes /\ boxes'[i] = boxes[i + 1]
      BY <1>0, <2>1, Taken
    <2> QED  BY <2>1, <2>2 DEF BoxInv
  <1>3. CASE Worker
    BY <1>3, WorkerFrame DEF BoxInv
  <1>4. CASE Window
    <2>1. CASE OperationResult /\ session.state # "Login"
      <3>1. /\ session' = session
            /\ boxes' = <<[over |-> session.state, success |-> Head(answers).ok]>> \o boxes
        BY <2>1 DEF OperationResult
      <3>2. Head(answers).ok \in BOOLEAN
        BY <1>4, WindowFrame DEF Answers
      <3>3. session.state \in {"Admin", "Customer"}
        BY <2>1, SessionTypes
      <3>4. <<[over |-> session.state, success |-> Head(answers).ok]>> \in Seq(Boxes)
        BY <3>2, <3>3 DEF Boxes
      <3>5. \A i \in DOMAIN boxes' :
              \/ boxes'[i].over = session.state
              \/ \E j \in DOMAIN boxes : boxes'[i] = boxes[j]
        BY <1>0, <3>1, <3>4, Joined
      <3> QED  BY <3>1, <3>3, <3>5 DEF BoxInv
    <2>2. CASE ~(OperationResult /\ session.state # "Login")
      <3>1. boxes' = boxes
        BY <1>4, <2>2 DEF Window, LookupResult, OperationResult, RowsReady, SearchResults
      <3>2. session' = session \/ session'.state = "Customer"
        <4>1. CASE LookupResult
          <5>1. session' = session \/ ShowCustomer(Head(answers).id, Head(answers).list)
            BY <4>1 DEF LookupResult
          <5> QED  BY <5>1 DEF ShowCustomer
        <4>2. CASE ~LookupResult
          BY <1>4, <4>2 DEF Window, OperationResult, RowsReady, SearchResults
        <4> QED  BY <4>1, <4>2
      <3> QED  BY <3>1, <3>2 DEF BoxInv
    <2> QED  BY <2>1, <2>2
  <1>5. CASE UNCHANGED vars
    BY <1>5 DEF vars, widgets, BoxInv
  <1> QED  BY <1>1, <1>2, <1>3, <1>4, <1>5 DEF Next

\* A dashboard is refreshed when it is shown, when the user says so and when the
\* box of a success is dismissed.  Everything else leaves the rows alone.
LEMMA UserAsks ==
    ASSUME TypeOK, BoxInv, UserClicks \/ Dismiss, session'.state # "Login"
    PROVE  \/ requests' = requests \o AllData
           \/ /\ session'.state = "Customer"
              /\ \E c \in Nat : requests' = requests \o CustomerData(c)
           \/ /\ session' = session
              /\ \E list \in Seq(Requests) :
                   /\ requests' = requests \o list
                   /\ \A i \in DOMAIN list :
                        list[i].op \notin Kinds
                        /\ (session.state = "Admin" => list[i].op # "transact")
              /\ \A i \in DOMAIN boxes : boxes[i].success =>
                   \E j \in DOMAIN boxes' : boxes'[j].success
  <1>0. requests \in Seq(Requests) /\ requests = requests \o << >> /\ << >> \in Seq(Requests)
    BY QueueTypes, ConcatEmptySeq, EmptySeq
  <1>1. session.customerId \in Nat
    BY SessionTypes
  <1>2. CASE Dismiss
    <2>1. /\ boxes # << >> /\ session' = session /\ boxes' = Tail(boxes)
          /\ requests' = requests \o AfterBox(Head(boxes))
      BY <1>2 DEF Dismiss, Ask
    <2>2. /\ Head(boxes) = boxes[1] /\ 1 \in DOMAIN boxes /\ boxes[1] \in Boxes
          /\ \A i \in DOMAIN boxes : i = 1 \/ (i - 1 \in DOMAIN boxes' /\ boxes'[i - 1] = boxes[i])
      BY <2>1, QueueTypes, Taken
    <2>3. CASE ~boxes[1].success
      <3>1. requests' = requests \o << >>
        BY <2>1, <2>2, <2>3 DEF AfterBox
      <3>2. \A i \in DOMAIN boxes : boxes[i].success => \E j \in DOMAIN boxes' : boxes'[j].success
        BY <2>2, <2>3
      <3>3. \A i \in DOMAIN << >> : FALSE
        OBVIOUS
      <3> QED  BY <1>0, <2>1, <3>1, <3>2, <3>3
    <2>4. CASE boxes[1].success /\ boxes[1].over = "Admin"
      BY <2>1, <2>2, <2>4 DEF AfterBox
    <2>5. CASE boxes[1].success /\ boxes[1].over # "Admin"
      <3>1. boxes[1].over = "Customer"
        BY <2>2, <2>5 DEF Boxes, BoxInv
      <3>2. session.state = "Customer"
        BY <2>2, <3>1 DEF BoxInv
      <3> QED  BY <1>1, <2>1, <2>2, <2>5, <3>2 DEF AfterBox
    <2> QED  BY <2>3, <2>4, <2>5
  <1>3. CASE UserClicks
    <2>1. PICK c \in Choices :
             \/ EnterAdmin(c) \/ LoginAsCustomer(c) \/ Logout(c) \/ RefreshData(c)
             \/ Operate(c) \/ ExecuteTransaction(c) \/ SearchCustomer(c) \/ RejectInput(c)
      BY <1>3 DEF UserClicks
    <2>2. \A i \in DOMAIN boxes : FALSE
      <3>1. boxes = << >>
        BY <2>1
        DEF EnterAdmin, LoginAsCustomer, Logout, RefreshData, Operate, ExecuteTransaction,
            SearchCustomer, RejectInput, Click
      <3> QED  BY <3>1
    <2>3. CASE EnterAdmin(c)
      BY <2>3 DEF EnterAdmin, ShowAdmin, Ask
    <2>4. CASE LoginAsCustomer(c) \/ Logout(c)
      <3>1. LoggedOut.state = "Login"
        BY DEF LoggedOut
      <3>2. session'.state = "Login"
        BY <2>4, <3>1 DEF LoginAsCustomer, Logout, Click
      <3> QED  BY <3>2
    <2>5. CASE RefreshData(c)
      <3>1. session' = session /\ session.state \in {"Admin", "Customer"}
        BY <2>5 DEF RefreshData, Click
      <3> QED  BY <1>1, <2>5, <3>1 DEF RefreshData, Ask
    <2>6. CASE Operate(c)
      <3>1. /\ session' = session /\ c.on \in {"register", "open", "manage"}
            /\ requests' = requests \o <<Request(c.on, c.id)>>
        BY <2>6 DEF Operate, Click, Ask
      <3>2. <<Request(c.on, c.id)>> \in Seq(Requests)
        BY <3>1, ChoicesAreClicks, RequestsAreTyped DEF Operations
      <3>3. \A i \in DOMAIN <<Request(c.on, c.id)>> : <<Request(c.on, c.id)>>[i].op = c.on
        BY DEF Request
      <3>4. \A i \in DOMAIN <<Request(c.on, c.id)>> :
              <<Request(c.on, c.id)>>[i].op \notin Kinds /\ <<Request(c.on, c.id)>>[i].op # "transact"
        BY <3>1, <3>3 DEF Kinds
      <3> QED  BY <2>2, <3>1, <3>2, <3>4
    <2>7. CASE ExecuteTransaction(c)
      <3>1. /\ session' = session /\ session.state = "Customer"
        BY <2>7 DEF ExecuteTransaction, Click
      <3>2. PICK a \in Nat : requests' = requests \o <<Request("transact", a)>>
        BY <2>7, PaymentIsTyped
      <3>3. \A i \in DOMAIN <<Request("transact", a)>> :
              <<Request("transact", a)>>[i].op \notin Kinds
        BY DEF Request, Kinds
      <3>4. <<Request("transact", a)>> \in Seq(Requests)
        BY RequestsAreTyped DEF Operations
      <3> QED  BY <2>2, <3>1, <3>2, <3>3, <3>4
    <2>8. CASE SearchCustomer(c)
      <3>1. /\ session' = session
            /\ requests' = requests \/ requests' = requests \o <<Request("search", c.id)>>
        BY <2>8 DEF SearchCustomer, Ask
      <3>2. <<Request("search", c.id)>> \in Seq(Requests)
        BY ChoicesAreClicks, RequestsAreTyped
      <3>3. \A i \in DOMAIN <<Request("search", c.id)>> : <<Request("search", c.id)>>[i].op = "search"
        BY DEF Request
      <3>4. \A i \in DOMAIN <<Request("search", c.id)>> :
              <<Request("search", c.id)>>[i].op \notin Kinds
              /\ <<Request("search", c.id)>>[i].op # "transact"
        BY <3>3 DEF Kinds
      <3>5. \A i \in DOMAIN << >> : FALSE
        OBVIOUS
      <3>6. CASE requests' = requests
        BY <1>0, <2>2, <3>1, <3>5, <3>6
      <3>7. CASE requests' = requests \o <<Request("search", c.id)>>
        BY <2>2, <3>1, <3>2, <3>4, <3>7
      <3> QED  BY <3>1, <3>6, <3>7
    <2>9. CASE RejectInput(c)
      <3>1. \A i \in DOMAIN << >> : FALSE
        OBVIOUS
      <3>2. session' = session /\ requests' = requests \o << >>
        BY <1>0, <2>9 DEF RejectInput
      <3> QED  BY <1>0, <2>2, <3>1, <3>2
    <2> QED  BY <2>1, <2>3, <2>4, <2>5, <2>6, <2>7, <2>8, <2>9
  <1> QED  BY <1>2, <1>3

\* Only a login's answer changes the screen.
LEMMA WindowSession ==
    ASSUME TypeOK, Window
    PROVE  \/ UNCHANGED <<session, requests>>
           \/ /\ session'.state = "Customer" /\ answers[1].to = "lookup"
              /\ \E c \in Nat \cup {Everybody} : requests' = requests \o CustomerData(c)
  <1>1. Head(answers) = answers[1] /\ answers[1] \in Answers
    BY WindowFrame
  <1>2. CASE LookupResult /\ answers[1].ok
    <2>1. ShowCustomer(answers[1].id, answers[1].list) /\ answers[1].to = "lookup"
      BY <1>1, <1>2 DEF LookupResult, Receiving
    <2>2. session'.state = "Customer"
      BY <2>1 DEF ShowCustomer
    <2>3. requests' = requests \o CustomerData(answers[1].id)
      BY <2>1 DEF ShowCustomer, Ask
    <2> QED  BY <1>1, <2>1, <2>2, <2>3 DEF Answers
  <1>3. CASE ~(LookupResult /\ answers[1].ok)
    BY <1>1, <1>3 DEF Window, LookupResult, OperationResult, RowsReady, SearchResults
  <1> QED  BY <1>2, <1>3

-----------------------------------------------------------------------------
(***************************************************************************)
(* What the administrator sees.                                            *)
(***************************************************************************)
LEMMA WhoseHolds ==
    ASSUME TypeOK, BoxInv, WhoseInv, [Next]_vars
    PROVE  WhoseInv'
  <1> SUFFICES ASSUME session'.state = "Admin", NEW k \in Kinds
               PROVE  \/ \E i \in DOMAIN requests' : LastAsked(k, i)' /\ requests'[i].id = Everybody
                      \/ /\ NoneAsked(k)'
                         /\ \/ \E i \in DOMAIN answers' : LastSent(k, i)' /\ answers'[i].id = Everybody
                            \/ NoneSent(k)' /\ shown'["Admin"][k].whose = Everybody
    BY DEF WhoseInv
  <1>0. session.state = "Admin" =>
          \/ \E i \in DOMAIN requests : LastAsked(k, i) /\ requests[i].id = Everybody
          \/ /\ NoneAsked(k)
             /\ \/ \E i \in DOMAIN answers : LastSent(k, i) /\ answers[i].id = Everybody
                \/ NoneSent(k) /\ shown["Admin"][k].whose = Everybody
    BY DEF WhoseInv
  <1>1. CASE UserClicks \/ Dismiss
    <2>1. CASE requests' = requests \o AllData
      BY <2>1, AskedAfterAll
    <2>2. CASE requests' # requests \o AllData
      <3>1. PICK list \in Seq(Requests) :
               /\ session' = session /\ requests' = requests \o list
               /\ \A i \in DOMAIN list : list[i].op \notin Kinds
        BY <1>1, <2>2, UserAsks
      <3>2. answers' = answers /\ shown' = shown
        BY <1>1, UserFrame
      <3>3. /\ \A i \in DOMAIN requests :
                 LastAsked(k, i) => LastAsked(k, i)' /\ requests'[i] = requests[i]
            /\ NoneAsked(k) => NoneAsked(k)'
        BY <3>1, AskedAfterOthers
      <3>4. /\ \A i : LastSent(k, i) => LastSent(k, i)'
            /\ NoneSent(k) => NoneSent(k)'
        BY <3>2 DEF LastSent, NoneSent
      <3>5. \A i \in DOMAIN requests : i \in DOMAIN requests'
        BY <3>1, QueueTypes, Joined
      <3> QED  BY <1>0, <3>1, <3>2, <3>3, <3>4, <3>5
    <2> QED  BY <2>1, <2>2
  <1>2. CASE Worker
    <2>1. /\ session' = session /\ shown' = shown /\ requests # << >> /\ requests' = Tail(requests)
      BY <1>2, WorkerFrame
    <2>2. PICK a \in Answers : answers' = Append(answers, a)
      BY <1>2, WorkerFrame
    <2>3. /\ \A i \in DOMAIN requests :
               LastAsked(k, i) =>
                 \/ i = 1 /\ NoneAsked(k)'
                 \/ i - 1 \in DOMAIN requests' /\ LastAsked(k, i - 1)' /\ requests'[i - 1] = requests[i]
          /\ NoneAsked(k) => NoneAsked(k)'
          /\ Head(requests) = requests[1] /\ 1 \in DOMAIN requests
      BY <2>1, AskedAfterTake
    <2>4. /\ a.to = k => \E i \in DOMAIN answers' : LastSent(k, i)' /\ answers'[i] = a
          /\ a.to # k =>
               /\ \A i \in DOMAIN answers : LastSent(k, i) => LastSent(k, i)' /\ answers'[i] = answers[i]
               /\ NoneSent(k) => NoneSent(k)'
      BY <2>2, SentAfterPost
    <2>5. \/ a.to = requests[1].op /\ a.id = requests[1].id
          \/ requests[1].op # k /\ a.to # k
      BY <1>2, <2>2, <2>3, WorkerAnswers
    <2>6. CASE \E i \in DOMAIN requests : LastAsked(k, i) /\ requests[i].id = Everybody
      <3>1. PICK i \in DOMAIN requests : LastAsked(k, i) /\ requests[i].id = Everybody
        BY <2>6
      <3>2. CASE i = 1 /\ NoneAsked(k)'
        <4>1. a.to = k /\ a.id = Everybody
          BY <2>5, <3>1, <3>2 DEF LastAsked
        <4> QED  BY <2>4, <3>2, <4>1
      <3>3. CASE i - 1 \in DOMAIN requests' /\ LastAsked(k, i - 1)' /\ requests'[i - 1] = requests[i]
        BY <3>1, <3>3
      <3> QED  BY <2>3, <3>1, <3>2, <3>3
    <2>7. CASE NoneAsked(k)
      <3>1. a.to # k
        BY <2>3, <2>5, <2>7 DEF NoneAsked
      <3>2. \A i \in DOMAIN answers : i \in DOMAIN answers'
        BY <2>2, QueueTypes, Posted
      <3> QED  BY <1>0, <2>1, <2>3, <2>4, <2>7, <3>1, <3>2 DEF LastAsked, NoneAsked
    <2> QED  BY <1>0, <2>1, <2>6, <2>7
  <1>3. CASE Window
    <2>1. session' = session /\ requests' = requests
      BY <1>3, WindowSession
    <2>2. answers # << >> /\ answers' = Tail(answers)
      BY <1>3, WindowFrame
    <2>3. /\ \A i \in DOMAIN answers :
               LastSent(k, i) =>
                 \/ i = 1 /\ NoneSent(k)'
                 \/ i - 1 \in DOMAIN answers' /\ LastSent(k, i - 1)' /\ answers'[i - 1] = answers[i]
          /\ NoneSent(k) => NoneSent(k)'
      BY <2>2, SentAfterTake
    <2>4. /\ answers[1].to = k => shown'["Admin"][k].whose = answers[1].id
          /\ answers[1].to # k => shown'["Admin"][k] = shown["Admin"][k]
      <3>1. shown \in [{"Admin", "Customer"} -> [Kinds -> Rows]]
        BY DEF TypeOK
      <3> QED  BY <1>3, <2>1, <3>1, WindowShows
    <2>5. CASE \E i \in DOMAIN requests : LastAsked(k, i) /\ requests[i].id = Everybody
      BY <2>1, <2>5 DEF LastAsked
    <2>6. CASE NoneAsked(k) /\ \E i \in DOMAIN answers : LastSent(k, i) /\ answers[i].id = Everybody
      <3>1. PICK i \in DOMAIN answers : LastSent(k, i) /\ answers[i].id = Everybody
        BY <2>6
      <3>2. CASE i = 1 /\ NoneSent(k)'
        BY <2>1, <2>4, <2>6, <3>1, <3>2 DEF LastSent, NoneAsked
      <3>3. CASE i - 1 \in DOMAIN answers' /\ LastSent(k, i - 1)' /\ answers'[i - 1] = answers[i]
        BY <2>1, <2>6, <3>1, <3>3 DEF NoneAsked
      <3> QED  BY <2>3, <3>1, <3>2, <3>3
    <2>7. CASE NoneAsked(k) /\ NoneSent(k) /\ shown["Admin"][k].whose = Everybody
      <3>1. answers[1].to # k
        BY <1>3, <2>7, WindowFrame DEF NoneSent
      <3> QED  BY <2>1, <2>3, <2>4, <2>7, <3>1 DEF NoneAsked
    <2> QED  BY <1>0, <2>1, <2>5, <2>6, <2>7
  <1>4. CASE UNCHANGED vars
    BY <1>0, <1>4 DEF vars, widgets, LastAsked, NoneAsked, LastSent, NoneSent
  <1> QED  BY <1>1, <1>2, <1>3, <1>4 DEF Next

\* In the administrator's session nothing is paid; those under way when it began
\* are served before the data it began with.
LEMMA RefusalsHold ==
    ASSUME TypeOK, BoxInv, RefusalsInv, [Next]_vars
    PROVE  RefusalsInv'
  <1> SUFFICES ASSUME session'.state = "Admin",
                      NEW i \in DOMAIN requests', requests'[i].op = "transact"
               PROVE  \E j \in DOMAIN requests' : i < j /\ requests'[j].op = "transactions"
    BY DEF RefusalsInv
  <1>0. requests \in Seq(Requests)
    BY QueueTypes
  <1>1. CASE UserClicks \/ Dismiss
    <2>1. CASE requests' = requests \o AllData
      BY <2>1, AskedAfterAll
    <2>2. CASE requests' # requests \o AllData
      <3>1. PICK list \in Seq(Requests) :
               /\ session' = session /\ requests' = requests \o list
               /\ \A n \in DOMAIN list : list[n].op # "transact"
        BY <1>1, <2>2, UserAsks
      <3>2. i \in DOMAIN requests /\ requests[i].op = "transact"
        BY <1>0, <3>1, Joined
      <3>3. \A j \in DOMAIN requests : j \in DOMAIN requests' /\ requests'[j] = requests[j]
        BY <1>0, <3>1, Joined
      <3> QED  BY <3>1, <3>2, <3>3 DEF RefusalsInv
    <2> QED  BY <2>1, <2>2
  <1>2. CASE Worker
    <2>1. session' = session /\ requests # << >> /\ requests' = Tail(requests)
      BY <1>2, WorkerFrame
    <2>2. /\ i \in Nat /\ i + 1 \in DOMAIN requests /\ requests'[i] = requests[i + 1]
          /\ \A j \in DOMAIN requests :
               j \in Nat /\ (j = 1 \/ (j - 1 \in DOMAIN requests' /\ requests'[j - 1] = requests[j]))
      BY <2>1, AskedAfterTake
    <2>3. PICK j \in DOMAIN requests : i + 1 < j /\ requests[j].op = "transactions"
      BY <2>1, <2>2 DEF RefusalsInv
    <2>4. j - 1 \in DOMAIN requests' /\ requests'[j - 1] = requests[j] /\ i < j - 1
      BY <2>2, <2>3
    <2> QED  BY <2>3, <2>4
  <1>3. CASE Window
    BY <1>3, WindowSession DEF RefusalsInv
  <1>4. CASE UNCHANGED vars
    BY <1>4 DEF vars, RefusalsInv
  <1> QED  BY <1>1, <1>2, <1>3, <1>4 DEF Next

LEMMA AskedAfterLogin ==
    ASSUME TypeOK, NEW c \in Nat \cup {Everybody}, requests' = requests \o CustomerData(c)
    PROVE  \E i \in DOMAIN requests' : requests'[i].op = "accounts"
  <1>1. requests \in Seq(Requests) /\ CustomerData(c) \in Seq(Requests)
    BY QueueTypes, RequestsAreTyped
  <1>2. 1 \in DOMAIN CustomerData(c) /\ CustomerData(c)[1].op = "accounts"
    BY DEF CustomerData, Request
  <1> QED  BY <1>1, <1>2, Joined

\* No box goes away by itself, and a success in a session gets one.
LEMMA WindowBoxes ==
    ASSUME TypeOK, Window, UNCHANGED session, session.state # "Login"
    PROVE  /\ \A i \in DOMAIN boxes : boxes[i].success =>
                \E j \in DOMAIN boxes' : boxes'[j].success
           /\ answers[1].to = "operation" /\ answers[1].ok =>
                \E j \in DOMAIN boxes' : boxes'[j].success
  <1>1. Head(answers) = answers[1] /\ answers[1] \in Answers
    BY WindowFrame
  <1>2. CASE OperationResult
    <2>1. boxes' = <<[over |-> session.state, success |-> answers[1].ok]>> \o boxes
      BY <1>1, <1>2 DEF OperationResult
    <2>2. session.state \in {"Admin", "Customer"} /\ answers[1].ok \in BOOLEAN
      BY <1>1, SessionTypes DEF Answers
    <2>3. <<[over |-> session.state, success |-> answers[1].ok]>> \in Seq(Boxes)
      BY <2>2 DEF Boxes
    <2>4. boxes \in Seq(Boxes)
      BY QueueTypes
    <2>5. \A i \in DOMAIN boxes : \E j \in DOMAIN boxes' : boxes'[j] = boxes[i]
      <3>1. ASSUME NEW q \in Seq(Boxes), boxes' = q \o boxes
            PROVE  \A i \in DOMAIN boxes : Len(q) + i \in DOMAIN boxes' /\ boxes'[Len(q) + i] = boxes[i]
        BY <2>4, <3>1, Joined
      <3> QED  BY <2>1, <2>3, <3>1
    <2>6. \E j \in DOMAIN boxes' : boxes'[j].success = answers[1].ok
      BY <2>1, <2>3, <2>4, Joined
    <2> QED  BY <2>5, <2>6
  <1>3. CASE ~OperationResult
    <2>1. boxes' = boxes
      BY <1>3 DEF Window, LookupResult, RowsReady, SearchResults
    <2>2. answers[1].to # "operation"
      BY <1>1, <1>3 DEF Window, LookupResult, RowsReady, SearchResults, Receiving, Kinds
    <2> QED  BY <2>1, <2>2
  <1> QED  BY <1>2, <1>3

\* Rows of a kind that are current, or will be, remain so.
LEMMA ClickKeepsUpToDate ==
    ASSUME TypeOK, BoxInv, UserClicks \/ Dismiss, session'.state # "Login",
           NEW k \in Kinds, session'.state = "Admin" \/ k = "accounts",
           session' = session => UpToDate(k)
    PROVE  UpToDate(k)'
  <1>0. requests \in Seq(Requests)
    BY QueueTypes
  <1>1. CASE requests' = requests \o AllData
    <2>1. \E i \in DOMAIN requests' : requests'[i].op = k
      BY <1>1, AskedAfterAll DEF LastAsked
    <2> QED  BY <2>1 DEF UpToDate, RefreshComing
  <1>2. CASE session'.state = "Customer" /\ \E c \in Nat : requests' = requests \o CustomerData(c)
    BY <1>2, AskedAfterLogin DEF UpToDate, RefreshComing
  <1>3. ASSUME NEW list \in Seq(Requests), requests' = requests \o list, session' = session,
               \A i \in DOMAIN boxes : boxes[i].success =>
                 \E j \in DOMAIN boxes' : boxes'[j].success
        PROVE  UpToDate(k)'
    <2>1. UNCHANGED <<answers, shown, version>>
      BY UserFrame
    <2>2. \A i \in DOMAIN requests : i \in DOMAIN requests' /\ requests'[i] = requests[i]
      BY <1>0, <1>3, Joined
    <2> QED
      BY <1>3, <2>1, <2>2 DEF UpToDate, RefreshComing, LastSent, NoneSent
  <1> QED  BY <1>1, <1>2, <1>3, UserAsks

LEMMA WorkerKeepsUpToDate ==
    ASSUME TypeOK, RefusalsInv, Worker, NEW k \in Kinds,
           session.state = "Admin" \/ k # "transactions", UpToDate(k)
    PROVE  UpToDate(k)'
  <1>1. /\ UNCHANGED <<session, shown, boxes>>
        /\ requests # << >> /\ requests' = Tail(requests)
    BY WorkerFrame
  <1>2. PICK a \in Answers : answers' = Append(answers, a)
    BY WorkerFrame
  <1>3. /\ a.to = k => \E i \in DOMAIN answers' : LastSent(k, i)' /\ answers'[i] = a
        /\ a.to # k =>
             /\ \A i \in DOMAIN answers : LastSent(k, i) => LastSent(k, i)' /\ answers'[i] = answers[i]
             /\ NoneSent(k) => NoneSent(k)'
    BY <1>2, SentAfterPost
  <1>4. /\ \E i \in DOMAIN answers' : answers'[i] = a
        /\ \A i \in DOMAIN answers : i \in DOMAIN answers' /\ answers'[i] = answers[i]
    <2>1. answers \in Seq(Answers)
      BY QueueTypes
    <2>2. Len(answers) + 1 \in DOMAIN answers' /\ answers'[Len(answers) + 1] = a
      BY <1>2, <2>1, Posted
    <2>3. \A i \in DOMAIN answers : i \in DOMAIN answers' /\ answers'[i] = answers[i]
      BY <1>2, <2>1, Posted
    <2> QED  BY <2>2, <2>3
  <1>5. /\ Head(requests) = requests[1] /\ 1 \in DOMAIN requests
        /\ \A i \in DOMAIN requests :
             i \in Nat /\ (i = 1 \/ (i - 1 \in DOMAIN requests' /\ requests'[i - 1] = requests[i]))
    BY <1>1, AskedAfterTake
  <1>6. CASE a.to = k
    <2>1. a.version = version[k] /\ version' = version
      BY <1>2, <1>6, WorkerAnswers
    <2> QED  BY <1>3, <1>6, <2>1 DEF UpToDate
  <1>7. CASE a.to # k /\ requests[1].op # k /\ version'[k] = version[k]
    <2>1. CASE RefreshComing(k)
      BY <1>1, <1>4, <1>5, <1>7, <2>1 DEF UpToDate, RefreshComing
    <2>2. CASE ~RefreshComing(k)
      BY <1>1, <1>3, <1>4, <1>7, <2>2 DEF UpToDate
    <2> QED  BY <2>1, <2>2
  <1>8. CASE a.to = "operation" /\ a.ok
    BY <1>4, <1>8 DEF UpToDate, RefreshComing
  <1>9. CASE requests[1].op = "transact" /\ k = "transactions"
    <2>1. \E j \in DOMAIN requests : 1 < j /\ requests[j].op = k
      BY <1>5, <1>9 DEF RefusalsInv
    <2>2. \E j \in DOMAIN requests' : requests'[j].op = k
      BY <1>5, <2>1
    <2> QED  BY <2>2 DEF UpToDate, RefreshComing
  <1> QED
    BY <1>2, <1>5, <1>6, <1>7, <1>8, <1>9, WorkerAnswers

LEMMA WindowKeepsUpToDate ==
    ASSUME TypeOK, Window, session'.state # "Login", NEW k \in Kinds,
           session'.state = "Admin" \/ k = "accounts",
           session' = session => UpToDate(k)
    PROVE  UpToDate(k)'
  <1>0. session.state \in {"Login", "Admin", "Customer"}
    BY SessionTypes
  <1>1. CASE session'.state = "Customer"
             /\ \E c \in Nat \cup {Everybody} : requests' = requests \o CustomerData(c)
    BY <1>1, AskedAfterLogin DEF UpToDate, RefreshComing
  <1>2. CASE UNCHANGED <<session, requests>>
    <2>1. /\ UNCHANGED version /\ answers # << >> /\ answers' = Tail(answers)
          /\ Head(answers) = answers[1]
      BY WindowFrame
    <2>2. /\ \A i \in DOMAIN answers :
               LastSent(k, i) =>
                 \/ i = 1 /\ NoneSent(k)'
                 \/ i - 1 \in DOMAIN answers' /\ LastSent(k, i - 1)' /\ answers'[i - 1] = answers[i]
          /\ NoneSent(k) => NoneSent(k)'
      BY <2>1, SentAfterTake
    <2>3. \A i \in DOMAIN answers :
             i = 1 \/ (i - 1 \in DOMAIN answers' /\ answers'[i - 1] = answers[i])
      BY <2>1, QueueTypes, Taken
    <2>4. /\ \A i \in DOMAIN boxes : boxes[i].success => \E j \in DOMAIN boxes' : boxes'[j].success
          /\ answers[1].to = "operation" /\ answers[1].ok => \E j \in DOMAIN boxes' : boxes'[j].success
      BY <1>2, <2>1, WindowBoxes
    <2>5. /\ answers[1].to = k => shown'[session'.state][k].version = answers[1].version
          /\ answers[1].to # k => shown'[session'.state][k] = shown[session.state][k]
      <3>1. shown \in [{"Admin", "Customer"} -> [Kinds -> Rows]]
        BY DEF TypeOK
      <3> QED  BY <1>0, <1>2, <3>1, WindowShows
    <2>6. CASE RefreshComing(k)
      <3>1. RefreshComing(k)'
        BY <1>2, <2>3, <2>4, <2>6 DEF RefreshComing
      <3> QED  BY <3>1 DEF UpToDate
    <2>7. CASE \E i \in DOMAIN answers : LastSent(k, i) /\ answers[i].version = version[k]
      <3>1. PICK i \in DOMAIN answers : LastSent(k, i) /\ answers[i].version = version[k]
        BY <2>7
      <3>2. CASE i = 1 /\ NoneSent(k)'
        <4>1. answers[1].to = k
          BY <3>1, <3>2 DEF LastSent
        <4> QED  BY <2>1, <2>5, <3>1, <3>2, <4>1 DEF UpToDate
      <3>3. CASE i - 1 \in DOMAIN answers' /\ LastSent(k, i - 1)' /\ answers'[i - 1] = answers[i]
        BY <2>1, <3>1, <3>3 DEF UpToDate
      <3> QED  BY <2>2, <3>1, <3>2, <3>3
    <2>8. CASE NoneSent(k) /\ shown[session.state][k].version = version[k]
      <3>1. answers[1].to # k
        BY <2>8, WindowFrame DEF NoneSent
      <3> QED  BY <2>1, <2>2, <2>5, <2>8, <3>1 DEF UpToDate
    <2> QED  BY <1>2, <2>6, <2>7, <2>8 DEF UpToDate
  <1> QED  BY <1>1, <1>2, WindowSession

LEMMA CurrentHolds ==
    ASSUME TypeOK, BoxInv, RefusalsInv, CurrentInv, [Next]_vars
    PROVE  CurrentInv'
  <1> SUFFICES ASSUME session'.state # "Login", NEW k \in Kinds,
                      session'.state = "Admin" \/ k = "accounts"
               PROVE  UpToDate(k)'
    BY DEF CurrentInv, Kinds
  <1>1. session' = session => UpToDate(k)
    <2>1. session.state \in {"Login", "Admin", "Customer"}
      BY SessionTypes
    <2> QED  BY <2>1 DEF CurrentInv, Kinds
  <1>2. CASE UserClicks \/ Dismiss
    BY <1>1, <1>2, ClickKeepsUpToDate
  <1>3. CASE Worker
    <2>1. session' = session
      BY <1>3, WorkerFrame
    <2> QED  BY <1>1, <1>3, <2>1, WorkerKeepsUpToDate
  <1>4. CASE Window
    BY <1>1, <1>4, WindowKeepsUpToDate
  <1>5. CASE UNCHANGED vars
    BY <1>1, <1>5 DEF vars, widgets, bank, UpToDate, RefreshComing, LastSent, NoneSent
  <1> QED  BY <1>2, <1>3, <1>4, <1>5 DEF Next

-----------------------------------------------------------------------------
(***************************************************************************)
(* The theorems.                                                           *)
(***************************************************************************)
\* What ties the queues, the session and the screen together, for every script.
THEOREM DesktopInvariant == Spec => []DesktopInv
  <1>1. DesktopInv /\ [Next]_vars => DesktopInv'
    BY TypesHold, OwnersHold, OrderHolds, BoxesHold, WhoseHolds, RefusalsHold, CurrentHolds
    DEF DesktopInv
  <1> QED  BY <1>1, Initially, PTL DEF Spec

\* Every variable keeps its type, and only a customer's session has a customer.
THEOREM DesktopTypes == Spec => []TypeOK
  BY DesktopInvariant, PTL DEF DesktopInv

\* A customer pays from its own accounts, whoever used the window before and
\* however late the answer to its login came.
THEOREM OwnAccountsOnly == Spec => []SelectableIsOwned
  <1>1. DesktopInv => SelectableIsOwned
    <2> SUFFICES ASSUME DesktopInv, session.state = "Customer", NEW a \in Range(combo)
                 PROVE  a \in DOMAIN owners /\ owners[a] = session.customerId
      BY DEF SelectableIsOwned
    <2>1. OwnedBy(session.customerId, combo)
      BY DEF DesktopInv, OwnersInv
    <2>2. PICK i \in DOMAIN combo : a = combo[i]
      BY DEF Range
    <2> QED  BY <2>1, <2>2 DEF OwnedBy
  <1> QED  BY <1>1, DesktopInvariant, PTL

\* When nothing is under way, the administrator's rows are everybody's and current.
THEOREM AdministratorSeesAll == Spec => []AdminSeesEverything
  <1>1. DesktopInv => AdminSeesEverything
    <2> SUFFICES ASSUME DesktopInv, Quiet, session.state = "Admin", NEW k \in Kinds
                 PROVE  shown["Admin"][k] = [whose |-> Everybody, version |-> version[k]]
      BY DEF AdminSeesEverything
    <2>1. DOMAIN requests = {} /\ DOMAIN answers = {} /\ DOMAIN boxes = {}
      BY DEF Quiet
    <2>2. shown["Admin"][k].whose = Everybody
      BY <2>1 DEF DesktopInv, WhoseInv
    <2>3. UpToDate(k)
      BY DEF DesktopInv, CurrentInv, Kinds
    <2>4. shown["Admin"][k].version = version[k]
      BY <2>1, <2>3 DEF UpToDate, RefreshComing
    <2>5. shown["Admin"][k] \in Rows
      <3>1. shown \in [{"Admin", "Customer"} -> [Kinds -> Rows]]
        BY DEF DesktopInv, TypeOK
      <3> QED  BY <3>1
    <2> QED  BY <2>2, <2>4, <2>5 DEF Rows
  <1> QED  BY <1>1, DesktopInvariant, PTL

\* When nothing is under way, the balances on the visible dashboard are the bank's.
THEOREM ShownBalancesAreCurrent == Spec => []BalancesAreCurrent
  <1>1. DesktopInv => BalancesAreCurrent
    <2> SUFFICES ASSUME DesktopInv, Quiet, session.state # "Login"
                 PROVE  shown[session.state]["accounts"].version = version["accounts"]
      BY DEF BalancesAreCurrent
    <2>1. DOMAIN requests = {} /\ DOMAIN answers = {} /\ DOMAIN boxes = {}
      BY DEF Quiet
    <2>2. UpToDate("accounts")
      BY DEF DesktopInv, CurrentInv
    <2> QED  BY <2>1, <2>2 DEF UpToDate, RefreshComing
  <1> QED  BY <1>1, DesktopInvariant, PTL

\* No dashboard goes back to rows older than those it has shown.
THEOREM NeverOlderRows == Spec => RowsNeverOlder
  <1>1. DesktopInv /\ [Next]_vars =>
          [\A d \in DOMAIN shown, k \in Kinds : shown[d][k].version <= shown'[d][k].version]_shown
    <2> SUFFICES ASSUME DesktopInv, [Next]_vars
                 PROVE  \A d \in DOMAIN shown, k \in Kinds : shown[d][k].version <= shown'[d][k].version
      OBVIOUS
    <2>1. DOMAIN shown = {"Admin", "Customer"}
      BY DEF DesktopInv, TypeOK
    <2> QED  BY <2>1, OrderHolds DEF DesktopInv, RowsNotOlder
  <1> QED  BY <1>1, DesktopInvariant, PTL DEF Spec, RowsNeverOlder
=============================================================================
