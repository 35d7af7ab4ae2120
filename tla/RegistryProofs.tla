--------------------------- MODULE RegistryProofs ---------------------------
(***************************************************************************)
(* The bank's registry implements AtomicRegistry when the registered names *)
(* are ASCII: every step of a call maps to a step of the abstract call or  *)
(* to none.                                                                *)
(***************************************************************************)
EXTENDS BankProofs

-----------------------------------------------------------------------------
(***************************************************************************)
(* What the steps of a call are to the abstract registry.                  *)
(***************************************************************************)
\* The registry starts empty, with no call in progress.
LEMMA InitMaps == Init => Atomic!Init
<1>. SUFFICES ASSUME Init  PROVE Atomic!Init
  OBVIOUS
<1>1. Registered = {}
  BY DEF Init, Registered
<1>2. RegisteredCustomers = << >>
  BY <1>1 DEF RegisteredCustomers
<1>3. Pending = [t \in Threads |-> Idle]
  BY DEF Init, Pending
<1>4. Answered = [t \in Threads |-> Atomic!None]
  BY DEF Init, Answered, Atomic!None
<1>. QED  BY <1>2, <1>3, <1>4 DEF Init, Atomic!Init

\* Idle is no call.
LEMMA CallIsNotIdle ==
    ASSUME TypeOK, NEW t \in Threads
    PROVE  call[t] # Idle
<1>1. call[t].op \in Op
  BY DEF TypeOK, CallRecords
<1>2. Idle.op \notin Op
  BY DEF Idle, Op, Exclusive, Lookups
<1>. QED  BY <1>1, <1>2

\* Until its return a call is pending and unanswered; the step that reaches the
\* return answers it.
LEMMA CallMaps ==
    ASSUME BankInv, NEW t \in Threads, Step(t), ~Lock(t), ~Return(t)
    PROVE  /\ Pending' = Pending /\ Pending[t] = call[t] /\ Pending[t] # Idle
           /\ Answered[t] = Atomic!None
           /\ pc'[t] # "return" => Answered' = Answered
           /\ pc'[t] = "return" => Atomic!Answer(t, answer'[t])
<1>. USE DEF BankInv
<1>1. /\ pc[t] \notin {"idle", "return"} /\ pc'[t] # "idle" /\ call' = call
  BY HoldsOn DEF Holds
<1>2. \A u \in Threads : u # t => pc'[u] = pc[u] /\ answer'[u] = answer[u]
  BY OthersStay
<1>3. Pending' = Pending
  BY <1>1, <1>2 DEF Pending
<1>4. Pending[t] = call[t] /\ Pending[t] # Idle
  BY <1>1, CallIsNotIdle DEF Pending
<1>5. Answered[t] = Atomic!None
  BY <1>1 DEF Answered, Atomic!None
<1>6. ASSUME pc'[t] # "return"  PROVE Answered' = Answered
  BY <1>1, <1>2, <1>6 DEF Answered
<1>7. ASSUME pc'[t] = "return"  PROVE Atomic!Answer(t, answer'[t])
  BY <1>1, <1>2, <1>7 DEF Answered, Atomic!Answer
<1>. QED  BY <1>3, <1>4, <1>5, <1>6, <1>7

\* Only the last step of a registration makes a customer known.
LEMMA CustomersMap ==
    ASSUME BankInv, NEW t \in Threads, Invoke(t) \/ Step(t), ~IndexName(t)
    PROVE  RegisteredCustomers' = RegisteredCustomers
<1>. USE DEF BankInv
<1>. SUFFICES /\ Registered' = Registered
              /\ \A c \in Registered : /\ customers'[c].name = customers[c].name
                                       /\ customers'[c].national_id = customers[c].national_id
  BY DEF RegisteredCustomers
<1>1. \A u \in Threads : u # t => pc'[u] = pc[u] /\ found'[u] = found[u]
  BY OthersStay
<1>2. Registered \subseteq DOMAIN customers
  BY DEF Registered
<1>3. CASE InsertCustomer(t)
  <2>1. \A u \in Threads : u # t => pc[u] \in {"idle", "lock"}
    BY <1>3, WriterAlone DEF InsertCustomer
  <2>2. /\ pc[t] = "insert" /\ pc'[t] = "index" /\ found'[t] = next_customer_id
        /\ next_customer_id \notin DOMAIN customers
    BY <1>3 DEF InsertCustomer, GoTo, TypeOK, IdsInv
  <2>3. /\ DOMAIN customers' = DOMAIN customers \cup {next_customer_id}
        /\ \A c \in DOMAIN customers : customers'[c] = customers[c]
    BY <1>3, <2>2 DEF InsertCustomer, Put
  <2>4. Registered = DOMAIN customers /\ Registered' = DOMAIN customers
    BY <1>1, <2>1, <2>2, <2>3 DEF Registered
  <2>. QED  BY <2>3, <2>4
<1>4. CASE SortNames(t)
  <2>1. \A u \in Threads : pc'[u] = "index" <=> pc[u] = "index"
    BY <1>1, <1>4 DEF SortNames, GoTo, TypeOK
  <2>. QED  BY <1>4, <2>1 DEF SortNames, registry, Registered
<1>5. CASE ~InsertCustomer(t) /\ ~SortNames(t)
  BY <1>2, <1>5, NamesStay
<1>. QED  BY <1>3, <1>4, <1>5

\* A call begins with a record of the script.
LEMMA InvokeMaps ==
    ASSUME BankInv, NEW t \in Threads, Invoke(t)
    PROVE  Atomic!Begin(t)
<1>. USE DEF BankInv
<1>1. Pending[t] = Idle
  BY DEF Invoke, Pending
<1>2. Pending' = [Pending EXCEPT ![t] = call'[t]] /\ Answered' = Answered
  <2>1. pc[t] = "idle" /\ pc'[t] = "lock"
    BY DEF Invoke, GoTo, TypeOK
  <2>2. \A u \in Threads : u # t => /\ pc'[u] = pc[u] /\ call'[u] = call[u]
                                   /\ answer'[u] = answer[u]
    BY OthersStay
  <2>. QED  BY <2>1, <2>2 DEF Pending, Answered
<1>3. call'[t] \in Scripted
  <2>1. /\ made[t] + 1 \in DOMAIN Script[t] /\ call'[t] \in Script[t][made[t] + 1]
    <3>1. Script[t] \in Seq(SUBSET CallRecords) /\ made[t] \in Nat
      BY RegistryScripts DEF TypeOK
    <3>. QED  BY <3>1 DEF Invoke, TypeOK
  <2>. QED  BY <2>1 DEF Scripted, Range
<1>4. RegisteredCustomers' = RegisteredCustomers /\ accounts' = accounts
  <2>1. ~IndexName(t)
    BY DEF Invoke, IndexName
  <2>. QED  BY <2>1, CustomersMap DEF Invoke, registry
<1>. QED  BY <1>1, <1>2, <1>3, <1>4 DEF Atomic!Begin

\* Taking the lock is no step of the abstract registry.
LEMMA LockMaps ==
    ASSUME BankInv, NEW t \in Threads, Lock(t)
    PROVE  UNCHANGED Atomic!vars
<1>. USE DEF BankInv
<1>1. pc[t] = "lock" /\ pc'[t] = "look" /\ call' = call /\ answer' = answer
  BY DEF Lock, GoTo, TypeOK
<1>2. \A u \in Threads : u # t => pc'[u] = pc[u]
  BY OthersStay DEF Step
<1>3. Pending' = Pending /\ Answered' = Answered
  BY <1>1, <1>2 DEF Pending, Answered
<1>4. RegisteredCustomers' = RegisteredCustomers /\ accounts' = accounts
  <2>1. ~IndexName(t)
    BY <1>1 DEF IndexName
  <2>. QED  BY <2>1, CustomersMap DEF Lock, registry, Step
<1>. QED  BY <1>3, <1>4 DEF Atomic!vars

\* Returning ends the call.
LEMMA ReturnMaps ==
    ASSUME BankInv, NEW t \in Threads, Return(t)
    PROVE  Atomic!Finish(t)
<1>. USE DEF BankInv
<1>1. pc[t] = "return" /\ pc'[t] = "idle" /\ call' = call /\ answer' = answer
  BY DEF Return, GoTo, TypeOK
<1>2. \A u \in Threads : u # t => pc'[u] = pc[u]
  BY OthersStay DEF Step
<1>3. Pending[t] # Idle /\ Pending' = [Pending EXCEPT ![t] = Idle]
  BY <1>1, <1>2, CallIsNotIdle DEF Pending
<1>4. Answered[t] # Atomic!None /\ Answered' = [Answered EXCEPT ![t] = Atomic!None]
  BY <1>1, <1>2 DEF Answered, Atomic!None
<1>5. RegisteredCustomers' = RegisteredCustomers /\ accounts' = accounts
  <2>1. ~IndexName(t)
    BY <1>1 DEF IndexName
  <2>. QED  BY <2>1, CustomersMap DEF Return, registry, Step
<1>. QED  BY <1>3, <1>4, <1>5 DEF Atomic!Finish

-----------------------------------------------------------------------------
(***************************************************************************)
(* Answers.                                                                *)
(***************************************************************************)
\* The abstract registry lists a set as the code's unordered maps do.
LEMMA SameListings == \A S : Atomic!Listings(S) = Listings(S)
<1>1. \A S : Atomic!Cardinality(S) = Cardinality(S)
  BY DEF Atomic!Cardinality, Cardinality
<1>2. \A f : Atomic!IsInjective(f) = IsInjective(f)
  BY DEF Atomic!IsInjective, IsInjective
<1>. QED  BY <1>1, <1>2 DEF Atomic!Listings, Listings

\* A list without a double is a listing of what is in it.
LEMMA ListIsListing ==
    ASSUME NEW list \in Seq(Nat), IsInjective(list)
    PROVE  list \in Atomic!Listings(Range(list))
<1>. DEFINE n == Len(list)
            S == Range(list)
<1>1. n \in Nat /\ DOMAIN list = 1 .. n /\ list \in [1 .. n -> S]
  BY DEF Range
<1>2. list \in Bijection(1 .. n, S)
  BY <1>1 DEF Bijection, Injection, Surjection, IsInjective, Range
<1>3. ExistsBijection(1 .. n, S)
  BY <1>2 DEF ExistsBijection
<1>. HIDE DEF n, S
<1>4. Cardinality(S) = n
  BY <1>1, <1>3, FS_CountingElements
<1>. QED  BY <1>1, <1>4, SameListings DEF Listings, S

\* One element has one listing, and no element has the empty one.
LEMMA SmallListings ==
    /\ << >> \in Atomic!Listings({})
    /\ \A k \in Nat : <<k>> \in Atomic!Listings({k})
<1>1. << >> \in Seq(Nat) /\ IsInjective(<< >>) /\ Range(<< >>) = {}
  BY DEF IsInjective, Range
<1>2. ASSUME NEW k \in Nat
      PROVE  <<k>> \in Seq(Nat) /\ IsInjective(<<k>>) /\ Range(<<k>>) = {k}
  BY DEF IsInjective, Range
<1>. QED  BY <1>1, <1>2, ListIsListing

\* With the lock shared, nobody is between the two steps of a registration or an
\* opening.
LEMMA ReaderSeesAll ==
    ASSUME BankInv, NEW t \in Threads, Holds(t), ~Owns(call[t])
    PROVE  Registered = DOMAIN customers /\ Opening = {}
<1>1. ASSUME NEW u \in Threads, Holds(u), Owns(call[u])  PROVE FALSE
  <2>1. u = t
    BY <1>1, Alone DEF BankInv
  <2>. QED  BY <1>1, <2>1
<1>2. ASSUME NEW u \in Threads, pc[u] \in {"index", "open"}  PROVE FALSE
  <2>1. Holds(u) /\ Owns(call[u])
    BY <1>2 DEF BankInv, PlaceInv, Holds, Owns, Exclusive
  <2>. QED  BY <1>1, <2>1
<1>. QED  BY <1>2 DEF Registered, Opening

\* What a lookup answers is right.
LEMMA LookedUpIsRight ==
    ASSUME BankInv, Registered = DOMAIN customers, Opening = {},
           NEW c \in CallRecords, c.op \in Lookups, NEW ids \in LookedUp(c)
    PROVE  ids \in Atomic!Right(c)
<1>. USE DEF BankInv
<1>1. /\ DOMAIN RegisteredCustomers = DOMAIN customers
      /\ \A k \in DOMAIN customers :
           RegisteredCustomers[k].national_id = customers[k].national_id
  BY DEF RegisteredCustomers
<1>2. CASE c.op = "lookupCustomerByNationalID"
  <2>1. CASE c.id \in DOMAIN national_id_to_customer
    <3>. DEFINE k == national_id_to_customer[c.id]
    <3>1. Atomic!With(c.id) = {k}
      BY <1>1, <2>1 DEF Atomic!With, NationalIdsInv
    <3>2. ids = <<k>> /\ k \in Nat
      BY <1>2, <2>1 DEF LookedUp, TypeOK
    <3>. QED  BY <1>2, <3>1, <3>2, SmallListings DEF Atomic!Right
  <2>2. CASE c.id \notin DOMAIN national_id_to_customer
    <3>1. Atomic!With(c.id) = {}
      BY <1>1, <2>2 DEF Atomic!With, NationalIdsInv
    <3>. QED  BY <1>2, <2>2, <3>1 DEF Atomic!Right, LookedUp
  <2>. QED  BY <2>1, <2>2
<1>3. CASE c.op = "getCustomerInfo"
  BY <1>1, <1>3 DEF Atomic!Right, LookedUp
<1>4. CASE c.op = "getCustomerAccountIDs"
  <2>. DEFINE mine == {a \in DOMAIN accounts : accounts[a] = c.id}
  <2>1. CASE c.id \in DOMAIN customers
    <3>. DEFINE list == customers[c.id].account_id
    <3>1. OpeningFor(c.id) = {}
      BY DEF Opening, OpeningFor
    <3>2. ids = list /\ list \in Seq(Nat)
      BY <1>4, <2>1 DEF LookedUp, TypeOK, Customers
    <3>3. Range(list) = mine /\ \A i, j \in DOMAIN list : i < j => list[i] < list[j]
      BY <2>1, <3>1 DEF FiledInv
    <3>. HIDE DEF list, mine
    <3>4. IsInjective(list)
      <4>1. DOMAIN list \subseteq Nat /\ \A i \in DOMAIN list : list[i] \in Nat
        BY <3>2
      <4>. QED  BY <3>3, <4>1 DEF IsInjective
    <3>5. list \in Atomic!Ascending(mine)
      BY <3>2, <3>3, <3>4, ListIsListing DEF Atomic!Ascending
    <3>. QED  BY <1>4, <3>2, <3>5 DEF Atomic!Right, mine
  <2>2. CASE c.id \notin DOMAIN customers
    <3>1. mine = {}
      BY <2>2 DEF FiledInv
    <3>2. ids = << >>
      BY <1>4, <2>2 DEF LookedUp
    <3>3. << >> \in Atomic!Ascending({})
      BY SmallListings DEF Atomic!Ascending
    <3>. QED  BY <1>4, <3>1, <3>2, <3>3 DEF Atomic!Right
  <2>. QED  BY <2>1, <2>2
<1>5. CASE c.op = "getAllAccountIDs"
  BY <1>5, SameListings DEF Atomic!Right, LookedUp
<1>6. CASE c.op = "getAllCustomerIDs"
  BY <1>1, <1>6, SameListings DEF Atomic!Right, LookedUp
<1>. QED  BY <1>2, <1>3, <1>4, <1>5, <1>6 DEF Lookups

\* An exact answer of a search is right.
LEMMA ExactIsRight ==
    ASSUME BankInv, Registered = DOMAIN customers,
           NEW prefix, NEW ids \in Seq(Nat), Exact(prefix, ids)
    PROVE  ids \in Atomic!Found(prefix)
<1>1. /\ DOMAIN RegisteredCustomers = DOMAIN customers
      /\ \A k \in DOMAIN customers : RegisteredCustomers[k].name = customers[k].name
  BY DEF RegisteredCustomers
<1>. DEFINE matching ==
       {c \in DOMAIN RegisteredCustomers :
          prefix # << >> /\ IsPrefix(ToLowerCopy(prefix),
                                     ToLowerCopy(RegisteredCustomers[c].name))}
<1>2. Range(ids) = matching
  BY <1>1 DEF Exact, Matching
<1>3. ids \in Atomic!Listings(matching)
  BY <1>2, ListIsListing DEF Exact
<1>4. \A i \in DOMAIN ids : ids[i] \in DOMAIN customers
  BY <1>1, <1>2 DEF Range
<1>5. \A i, j \in DOMAIN ids : i < j =>
        ~Before(ToLowerCopy(RegisteredCustomers[ids[j]].name),
                ToLowerCopy(RegisteredCustomers[ids[i]].name))
  BY <1>1, <1>4 DEF Exact
<1>. QED  BY <1>3, <1>5, Zenon DEF Atomic!Found

\* The next number of a gapless numbering is one more than its length.
LEMMA NextNumber ==
    ASSUME NEW n \in Nat, NEW f, DOMAIN f = 1 .. n, NEW value
    PROVE  /\ Atomic!Cardinality(DOMAIN f) + 1 = n + 1
           /\ Atomic!Add(f, value) = Put(f, n + 1, value)
<1>1. Cardinality(1 .. n) = n
  <2>1. 1 \in Int /\ n \in Int
    OBVIOUS
  <2>2. Cardinality(1 .. n) = IF 1 > n THEN 0 ELSE n - 1 + 1
    BY <2>1, FS_Interval, Zenon
  <2>. QED  BY <2>2
<1>2. Atomic!Cardinality(DOMAIN f) = Cardinality(DOMAIN f)
  BY DEF Atomic!Cardinality, Cardinality
<1>. QED  BY <1>1, <1>2 DEF Atomic!Add, Put

-----------------------------------------------------------------------------
(***************************************************************************)
(* The steps that answer.                                                  *)
(***************************************************************************)
\* Opening an account is one abstract step, at its last assignment.
LEMMA OpenMaps ==
    ASSUME BankInv, NEW t \in Threads, OpenAccount(t)
    PROVE  Atomic!Open(t)
<1>. USE DEF BankInv
<1>1. /\ pc[t] = "open" /\ pc'[t] = "return" /\ answer'[t] = <<found[t]>>
      /\ accounts' = Put(accounts, found[t], call[t].id) /\ call[t].op = "openAccount"
  BY DEF OpenAccount, GoTo, Respond, TypeOK, PlaceInv
<1>2. /\ Pending[t] = call[t] /\ Atomic!Answer(t, <<found[t]>>)
      /\ RegisteredCustomers' = RegisteredCustomers
  <2>1. ~Lock(t) /\ ~Return(t) /\ ~IndexName(t)
    BY <1>1 DEF Lock, Return, IndexName
  <2>. QED  BY <1>1, <2>1, CallMaps, CustomersMap DEF Step
<1>3. call[t].id \in DOMAIN RegisteredCustomers
  <2>1. Registered = DOMAIN customers
    BY <1>1, AllRegistered DEF Holds, Owns, Exclusive
  <2>. QED  BY <1>1, <2>1 DEF IdsInv, RegisteredCustomers
<1>4. DOMAIN accounts = 1 .. found[t] - 1 /\ found[t] - 1 \in Nat
  <2>1. Opening = {found[t]}
    BY <1>1, OpeningIs
  <2>2. found[t] = next_account_id - 1 /\ found[t] > 0
    BY <1>1 DEF IdsInv
  <2>3. DOMAIN accounts = (1 .. next_account_id - 1) \ {found[t]}
    BY <2>1 DEF IdsInv
  <2>. QED  BY <2>2, <2>3, CounterTypes
<1>5. /\ Atomic!Cardinality(DOMAIN accounts) + 1 = found[t]
      /\ Atomic!Add(accounts, call[t].id) = Put(accounts, found[t], call[t].id)
  <2>1. found[t] - 1 + 1 = found[t]
    BY <1>1, CounterTypes DEF IdsInv
  <2>. QED  BY <1>4, <2>1, NextNumber
<1>. QED  BY <1>1, <1>2, <1>3, <1>5 DEF Atomic!Open

\* Registering a customer is one abstract step, when the name is in the index.
LEMMA RegisterMaps ==
    ASSUME BankInv, NEW t \in Threads, IndexName(t)
    PROVE  Atomic!Register(t)
<1>. USE DEF BankInv
<1>. DEFINE new == found[t]
            customer == [name |-> call[t].name, national_id |-> call[t].id]
<1>1. /\ pc[t] = "index" /\ pc'[t] = "return" /\ answer'[t] = <<new>>
      /\ customers' = customers /\ accounts' = accounts
      /\ call[t].op = "registerCustomer"
  BY DEF IndexName, GoTo, Respond, TypeOK, PlaceInv, registry
<1>2. Pending[t] = call[t] /\ Atomic!Answer(t, <<new>>)
  <2>1. ~Lock(t) /\ ~Return(t)
    BY <1>1 DEF Lock, Return
  <2>. QED  BY <1>1, <2>1, CallMaps DEF Step
<1>3. Registered = DOMAIN customers \ {new} /\ Registered' = DOMAIN customers
  <2>1. \A u \in Threads : u # t => pc[u] \in {"idle", "lock"} /\ pc'[u] = pc[u]
    BY <1>1, WriterAlone, OthersStay DEF Step
  <2>. QED  BY <1>1, <2>1 DEF Registered
<1>4. /\ new - 1 \in Nat /\ new - 1 + 1 = new /\ DOMAIN customers = 1 .. new
      /\ DOMAIN RegisteredCustomers = 1 .. new - 1
  <2>1. new = next_customer_id - 1 /\ new > 0 /\ DOMAIN customers = 1 .. next_customer_id - 1
    BY <1>1 DEF IdsInv
  <2>2. new \in Nat /\ new > 0 /\ DOMAIN customers = 1 .. new
    BY <2>1, CounterTypes
  <2>. HIDE DEF new
  <2>3. Registered = 1 .. new - 1
    BY <1>3, <2>2
  <2>. QED  BY <2>2, <2>3 DEF RegisteredCustomers
<1>5. customers[new].name = call[t].name /\ customers[new].national_id = call[t].id
  BY <1>1 DEF NamesInv
<1>6. Atomic!With(call[t].id) = {}
  <2>. SUFFICES ASSUME NEW c \in Registered, customers[c].national_id = call[t].id
                PROVE  FALSE
    BY DEF Atomic!With, RegisteredCustomers
  <2>1. c \in DOMAIN customers /\ new \in DOMAIN customers /\ c # new
    BY <1>3, <1>4
  <2>. QED  BY <1>5, <2>1 DEF NationalIdsInv
<1>7. RegisteredCustomers' = Put(RegisteredCustomers, new, customer)
  <2>1. new \in DOMAIN customers
    BY <1>4
  <2>2. Registered' = Registered \cup {new} /\ new \notin Registered
    BY <1>3, <2>1
  <2>. QED  BY <1>1, <1>5, <2>2 DEF RegisteredCustomers, Put
<1>8. /\ Atomic!Cardinality(DOMAIN RegisteredCustomers) + 1 = new
      /\ Atomic!Add(RegisteredCustomers, customer) = Put(RegisteredCustomers, new, customer)
  BY <1>4, NextNumber
<1>. QED  BY <1>1, <1>2, <1>6, <1>7, <1>8 DEF Atomic!Register

\* The other answers change nothing: each is right when it is found.
LEMMA AnswerMaps ==
    ASSUME BankInv, AsciiInv, SearchInv, NEW t \in Threads, Step(t),
           ~Lock(t), ~Return(t), ~OpenAccount(t), ~IndexName(t), pc'[t] = "return"
    PROVE  Atomic!Register(t) \/ Atomic!Open(t) \/ Atomic!Look(t)
<1>. USE DEF BankInv
<1>1. /\ Pending[t] = call[t] /\ Atomic!Answer(t, answer'[t])
      /\ RegisteredCustomers' = RegisteredCustomers
  BY CallMaps, CustomersMap
<1>2. Holds(t) /\ pc[t] # "index"
  BY HoldsOn DEF Step, LookForCustomer, LookForNationalId, SortNames, LookUp, Route,
     FileAccount, InsertCustomer, Search, LeaveAccount
<1>3. accounts' = accounts
  BY DEF Step, LookForCustomer, LookForNationalId, SortNames, LookUp, Route,
     FileAccount, InsertCustomer, Search, LeaveAccount, registry
<1>4. /\ DOMAIN RegisteredCustomers = Registered
      /\ \A c \in Registered :
           RegisteredCustomers[c].national_id = customers[c].national_id
  BY DEF RegisteredCustomers
<1>5. CASE LookForCustomer(t)
  <2>1. /\ call[t].op = "openAccount" /\ call[t].id \notin DOMAIN customers
        /\ answer'[t] = <<0>>
    BY <1>5 DEF LookForCustomer, GoTo, Respond, TypeOK
  <2>2. call[t].id \notin DOMAIN RegisteredCustomers
    BY <1>4, <2>1 DEF Registered
  <2>. QED  BY <1>1, <1>3, <2>1, <2>2 DEF Atomic!Open
<1>6. CASE LookForNationalId(t)
  <2>. DEFINE known == national_id_to_customer[call[t].id]
  <2>1. /\ call[t].op = "registerCustomer" /\ answer'[t] = <<known>>
        /\ call[t].id \in DOMAIN national_id_to_customer
    BY <1>6 DEF LookForNationalId, GoTo, Respond, TypeOK
  <2>2. Registered = DOMAIN customers
    BY <1>2, <2>1, AllRegistered DEF Owns, Exclusive
  <2>3. known \in Atomic!With(call[t].id)
    BY <1>4, <2>1, <2>2 DEF Atomic!With, NationalIdsInv
  <2>. QED  BY <1>1, <1>3, <2>1, <2>3 DEF Atomic!Register
<1>7. CASE SortNames(t) \/ Search(t)
  <2>1. call' = call /\ customers' = customers /\ call[t].op = "searchCustomerPrefix"
    BY <1>7 DEF SortNames, Search, PlaceInv, registry
  <2>2. Exact(call[t].name, answer[t])'
    <3>1. Next
      BY DEF Next
    <3>2. SearchInv'
      BY <3>1, SearchStep
    <3>. QED  BY <2>1, <3>2 DEF SearchInv
  <2>3. Exact(call[t].name, answer'[t])
    BY <2>1, <2>2 DEF Exact, Matching
  <2>4. answer'[t] \in Seq(Nat)
    <3>1. [Next]_vars
      BY DEF Next
    <3>2. TypeOK'
      BY <3>1, TypeStep
    <3>. QED  BY <3>2 DEF TypeOK
  <2>5. Registered = DOMAIN customers
    BY <1>2, <2>1, AllRegistered DEF Owns, Exclusive
  <2>6. answer'[t] \in Atomic!Found(call[t].name)
    BY <2>3, <2>4, <2>5, ExactIsRight
  <2>7. answer'[t] \in Atomic!Right(call[t])
    BY <2>1, <2>6 DEF Atomic!Right
  <2>. QED  BY <1>1, <1>3, <2>7 DEF Atomic!Look
<1>8. CASE LookUp(t)
  <2>1. PICK ids \in LookedUp(call[t]) : Respond(t, ids)
    BY <1>8 DEF LookUp
  <2>2. answer'[t] = ids /\ call[t].op \in Lookups /\ call[t] \in CallRecords
    BY <1>8, <2>1 DEF LookUp, Respond, TypeOK
  <2>3. Registered = DOMAIN customers /\ Opening = {}
    BY <1>2, <2>2, ReaderSeesAll DEF Owns, Exclusive, Lookups
  <2>4. ids \in Atomic!Right(call[t])
    BY <2>2, <2>3, LookedUpIsRight
  <2>. QED  BY <1>1, <1>3, <2>2, <2>4 DEF Atomic!Look
<1>9. CASE Route(t) \/ LeaveAccount(t)
  <2>1. call[t].op = "routed" /\ answer'[t] = << >>
    BY <1>9 DEF Route, LeaveAccount, AnswerInv, PlaceInv
  <2>2. answer'[t] \in Atomic!Right(call[t])
    BY <2>1 DEF Atomic!Right
  <2>. QED  BY <1>1, <1>3, <2>2 DEF Atomic!Look
<1>10. ~FileAccount(t) /\ ~InsertCustomer(t)
  BY DEF FileAccount, InsertCustomer, GoTo, TypeOK
<1>. QED  BY <1>5, <1>6, <1>7, <1>8, <1>9, <1>10 DEF Step

\* Every step of a call under the lock is its one abstract step or none.
LEMMA EffectMaps ==
    ASSUME BankInv, AsciiInv, SearchInv, NEW t \in Threads, Step(t), ~Lock(t), ~Return(t)
    PROVE  Atomic!TakeEffect(t) \/ UNCHANGED Atomic!vars
<1>. USE DEF BankInv
<1>1. CASE pc'[t] = "return"
  <2>1. Pending[t] # Idle /\ Answered[t] = Atomic!None /\ Pending' = Pending
    BY CallMaps
  <2>2. Atomic!Register(t) \/ Atomic!Open(t) \/ Atomic!Look(t)
    BY <1>1, OpenMaps, RegisterMaps, AnswerMaps
  <2>. QED  BY <2>1, <2>2 DEF Atomic!TakeEffect
<1>2. CASE pc'[t] # "return"
  <2>1. ~OpenAccount(t) /\ ~IndexName(t)
    BY <1>2 DEF OpenAccount, IndexName, GoTo, TypeOK
  <2>2. accounts' = accounts
    BY <2>1 DEF Step, LookForCustomer, LookForNationalId, SortNames, LookUp, Route,
       FileAccount, InsertCustomer, Search, LeaveAccount, registry
  <2>3. RegisteredCustomers' = RegisteredCustomers
    BY <2>1, CustomersMap
  <2>4. Pending' = Pending /\ Answered' = Answered
    BY <1>2, CallMaps
  <2>. QED  BY <2>2, <2>3, <2>4 DEF Atomic!vars
<1>. QED  BY <1>1, <1>2

-----------------------------------------------------------------------------
\* When the registered names are ASCII, every registration, opening, search and
\* lookup takes effect at one moment between its call and its return, and answers
\* what is right at that moment (Bank.cpp:26-204).
THEOREM RegistryImplementsAtomic == AsciiNames /\ Spec => RegistryIsAtomic
<1>. SUFFICES ASSUME AsciiNames  PROVE Spec => RegistryIsAtomic
  OBVIOUS
<1>1. Init => AsciiInv /\ SearchInv
  BY DEF Init, AsciiInv, SearchInv
<1>2. BankInv /\ AsciiInv /\ SearchInv /\ [Next]_vars => AsciiInv' /\ SearchInv'
  BY AsciiStep, SearchStep DEF BankInv
<1>3. BankInv /\ AsciiInv /\ SearchInv /\ [Next]_vars => [Atomic!Next]_(Atomic!vars)
  <2>. SUFFICES ASSUME BankInv, AsciiInv, SearchInv, [Next]_vars
                PROVE  Atomic!Next \/ UNCHANGED Atomic!vars
    OBVIOUS
  <2>1. ASSUME NEW t \in Threads, Invoke(t) \/ Step(t)
        PROVE  Atomic!Next \/ UNCHANGED Atomic!vars
    BY <2>1, InvokeMaps, LockMaps, ReturnMaps, EffectMaps DEF Atomic!Next
  <2>2. CASE UNCHANGED vars
    BY <2>2 DEF vars, registry, Atomic!vars, RegisteredCustomers, Registered, Pending,
       Answered
  <2>. QED  BY <2>1, <2>2 DEF Next, Done
<1>. QED
  BY <1>1, <1>2, <1>3, InitMaps, RegistryInvariant, PTL
     DEF Spec, RegistryIsAtomic, Atomic!Spec

=============================================================================
