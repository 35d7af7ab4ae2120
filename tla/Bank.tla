------------------------------- MODULE Bank -------------------------------
(***************************************************************************)
(* The registry the Bank class keeps under bank_mtx: customers, national   *)
(* ids, the accounts that are open and the name index.  Registering,       *)
(* opening and searching own the lock, lookups share it, and so does every *)
(* operation routed to TransactionManager, which keeps an iterator into    *)
(* the map of accounts while it works.  What those operations do to an     *)
(* account is TransactionManager's module; here they only stay inside.     *)
(*                                                                         *)
(*   idle -> lock -> look (-> file -> open | -> insert -> index            *)
(*                         | -> range | -> inside) -> return -> idle       *)
(***************************************************************************)
EXTENDS SharedMutex, Integers, Sequences, FiniteSets, Functions

CONSTANT Script     \* Script[t][n]: the calls thread t may make as its n-th (bound)

Exclusive == {"openAccount", "registerCustomer", "searchCustomerPrefix"}
Lookups == {"lookupCustomerByNationalID", "getCustomerInfo",
            "getCustomerAccountIDs", "getAllAccountIDs", "getAllCustomerIDs"}
Op == Exclusive \cup Lookups \cup {"routed"}

\* A name is a sequence of bytes; id is what the operation asks for: a
\* national id, a customer or an account.
Byte == 0 .. 255
CallRecords == [op : Op, name : Seq(Byte), id : Nat]

ASSUME RegistryScripts == Script \in [Threads -> Seq(SUBSET CallRecords)]

VARIABLES
    customers, national_id_to_customer, accounts,
    next_account_id, next_customer_id,
    name_index, name_index_sorted, bank_mtx,    \* shared
    pc, made, call, found, answer               \* of each thread

registry == <<customers, national_id_to_customer, accounts,
              next_account_id, next_customer_id>>
names == <<name_index, name_index_sorted>>
vars == <<registry, names, bank_mtx, pc, made, call, found, answer>>

Init ==
    /\ customers = << >>
    /\ national_id_to_customer = << >>
    /\ accounts = << >>
    /\ next_account_id = 1
    /\ next_customer_id = 1
    /\ name_index = << >>
    /\ name_index_sorted = TRUE
    /\ bank_mtx = Free
    /\ pc = [t \in Threads |-> "idle"]
    /\ made = [t \in Threads |-> 0]
    /\ call = [t \in Threads |-> [op |-> "routed", name |-> << >>, id |-> 0]]
    /\ found = [t \in Threads |-> 0]
    /\ answer = [t \in Threads |-> << >>]

GoTo(t, place) == pc' = [pc EXCEPT ![t] = place]
Respond(t, ids) == answer' = [answer EXCEPT ![t] = ids]

\* A map with one more key, or with a new value for a key it has.
Put(f, key, value) ==
    [k \in DOMAIN f \cup {key} |-> IF k = key THEN value ELSE f[k]]

-----------------------------------------------------------------------------
(***************************************************************************)
(* Names: bytes compared as unsigned, as std::string compares them.        *)
(***************************************************************************)
LowerCase(b) == IF b \in 65 .. 90 THEN b + 32 ELSE b
ToLowerCopy(name) == [i \in DOMAIN name |-> LowerCase(name[i])]

Before(s, u) ==
    \E i \in DOMAIN u :
      /\ \A j \in 1 .. i - 1 : j \in DOMAIN s /\ s[j] = u[j]
      /\ i \in DOMAIN s => s[i] < u[i]

InOrder(index) ==
    \A i, j \in DOMAIN index : i < j => ~Before(index[j].name, index[i].name)

\* std::sort is not stable: entries of equal names come in any order.
Sortings(index) ==
    {s \in {[i \in DOMAIN index |-> index[p[i]]] :
              p \in Bijection(DOMAIN index, DOMAIN index)} : InOrder(s)}

\* Bug variant: the flag is set and nothing is sorted.
EnsureNameIndexSorted_Never ==
    /\ name_index_sorted' = TRUE
    /\ UNCHANGED name_index

EnsureNameIndexSorted ==
    /\ IF name_index_sorted THEN UNCHANGED name_index
                            ELSE name_index' \in Sortings(name_index)
    /\ name_index_sorted' = TRUE

\* Where a binary search may end: behind the entries below its bound, if they
\* come first; std::lower_bound and std::upper_bound promise nothing for an
\* index they do not partition, so that anywhere will do.
PartitionPoints(below) ==
    LET points == 1 .. Len(name_index) + 1
        exact == {p \in points : below = 1 .. p - 1}
    IN  IF exact = {} THEN points ELSE exact

Delete == 127       \* the byte that ends the upper bound of a prefix

\* The entries below a prefix, and those up to the last it can begin.
Below(low) == {i \in DOMAIN name_index : Before(name_index[i].name, low)}
UpTo(low) ==
    {i \in DOMAIN name_index : ~Before(Append(low, Delete), name_index[i].name)}

\* The ids of the entries from one place up to another.
Entries(from, until) == [i \in 1 .. until - from |-> name_index[from + i - 1].id]

-----------------------------------------------------------------------------
Invoke(t) ==
    /\ pc[t] = "idle"
    /\ made[t] < Len(Script[t])
    /\ \E c \in Script[t][made[t] + 1] : call' = [call EXCEPT ![t] = c]
    /\ made' = [made EXCEPT ![t] = @ + 1]
    /\ found' = [found EXCEPT ![t] = 0]
    /\ Respond(t, << >>)
    /\ GoTo(t, "lock")
    /\ UNCHANGED <<registry, names, bank_mtx>>

\* Bug variants: an operation that writes takes the lock as a reader.
Owns_NotToOpen(c) == c.op \in Exclusive \ {"openAccount"}
Owns_NotToRegister(c) == c.op \in Exclusive \ {"registerCustomer"}

Owns(c) == c.op \in Exclusive

Lock(t) ==
    /\ pc[t] = "lock"
    /\ \/ /\ Owns(call[t])
          /\ CanOwn(bank_mtx)
          /\ bank_mtx' = Own(bank_mtx, t)
       \/ /\ ~Owns(call[t])
          /\ CanShare(bank_mtx)
          /\ bank_mtx' = Share(bank_mtx, t)
    /\ GoTo(t, "look")
    /\ UNCHANGED <<registry, names, made, call, found, answer>>

-----------------------------------------------------------------------------
(***************************************************************************)
(* The first step under the lock: what is there already.                   *)
(***************************************************************************)
\* openAccount answers 0 for a customer that does not exist.
LookForCustomer(t) ==
    /\ pc[t] = "look" /\ call[t].op = "openAccount"
    /\ IF call[t].id \in DOMAIN customers
       THEN GoTo(t, "file") /\ UNCHANGED answer
       ELSE GoTo(t, "return") /\ Respond(t, <<0>>)
    /\ UNCHANGED <<registry, names, bank_mtx, made, call, found>>

\* registerCustomer answers with the customer who has the national id.
LookForNationalId(t) ==
    /\ pc[t] = "look" /\ call[t].op = "registerCustomer"
    /\ IF call[t].id \in DOMAIN national_id_to_customer
       THEN /\ GoTo(t, "return")
            /\ Respond(t, <<national_id_to_customer[call[t].id]>>)
       ELSE GoTo(t, "insert") /\ UNCHANGED answer
    /\ UNCHANGED <<registry, names, bank_mtx, made, call, found>>

SortNames(t) ==
    /\ pc[t] = "look" /\ call[t].op = "searchCustomerPrefix"
    /\ EnsureNameIndexSorted
    /\ GoTo(t, IF call[t].name = << >> \/ name_index = << >>
               THEN "return" ELSE "range")
    /\ UNCHANGED <<registry, bank_mtx, made, call, found, answer>>

\* An order in which an unordered map lists its keys.
Listings(keys) == {s \in [1 .. Cardinality(keys) -> keys] : IsInjective(s)}

\* The lookups.  getCustomerInfo also answers the name, which never changes.
LookedUp(c) ==
    CASE c.op = "lookupCustomerByNationalID" ->
           IF c.id \in DOMAIN national_id_to_customer
           THEN {<<national_id_to_customer[c.id]>>} ELSE {<< >>}
      [] c.op = "getCustomerInfo" ->
           IF c.id \in DOMAIN customers
           THEN {<<customers[c.id].national_id>>} ELSE {<< >>}
      [] c.op = "getCustomerAccountIDs" ->
           IF c.id \in DOMAIN customers
           THEN {customers[c.id].account_id} ELSE {<< >>}
      [] c.op = "getAllAccountIDs" -> Listings(DOMAIN accounts)
      [] OTHER -> Listings(DOMAIN customers)

LookUp(t) ==
    /\ pc[t] = "look" /\ call[t].op \in Lookups
    /\ \E ids \in LookedUp(call[t]) : Respond(t, ids)
    /\ GoTo(t, "return")
    /\ UNCHANGED <<registry, names, bank_mtx, made, call, found>>

\* An operation on an account keeps the iterator it finds until it returns.
Route(t) ==
    /\ pc[t] = "look" /\ call[t].op = "routed"
    /\ GoTo(t, IF call[t].id \in DOMAIN accounts THEN "inside" ELSE "return")
    /\ UNCHANGED <<registry, names, bank_mtx, made, call, found, answer>>

-----------------------------------------------------------------------------
\* Bug variant: a load instead of a fetch_add.
FetchAdd_Load(counter) == counter

\* What a counter holds after an id was drawn from it.
FetchAdd(counter) == counter + 1

(***************************************************************************)
(* Opening an account: a new id in the customer's list, then the account.  *)
(***************************************************************************)
\* Bug variant: the customer's list keeps the newest account only.
AddAccountID_Newest(list, id) == <<id>>

AddAccountID(list, id) == Append(list, id)

FileAccount(t) ==
    /\ pc[t] = "file"
    /\ found' = [found EXCEPT ![t] = next_account_id]
    /\ next_account_id' = FetchAdd(next_account_id)
    /\ customers' = [customers EXCEPT ![call[t].id].account_id =
                       AddAccountID(@, next_account_id)]
    /\ GoTo(t, "open")
    /\ UNCHANGED <<national_id_to_customer, accounts, next_customer_id, names,
                   bank_mtx, made, call, answer>>

OpenAccount(t) ==
    /\ pc[t] = "open"
    /\ accounts' = Put(accounts, found[t], call[t].id)
    /\ Respond(t, <<found[t]>>)
    /\ GoTo(t, "return")
    /\ UNCHANGED <<customers, national_id_to_customer, next_account_id,
                   next_customer_id, names, bank_mtx, made, call, found>>

(***************************************************************************)
(* Registering: the customer and its national id, then its name.           *)
(***************************************************************************)
InsertCustomer(t) ==
    LET c == call[t]
    IN  /\ pc[t] = "insert"
        /\ found' = [found EXCEPT ![t] = next_customer_id]
        /\ next_customer_id' = FetchAdd(next_customer_id)
        /\ national_id_to_customer' =
             Put(national_id_to_customer, c.id, next_customer_id)
        /\ customers' = Put(customers, next_customer_id,
             [name |-> c.name, national_id |-> c.id, account_id |-> << >>])
        /\ GoTo(t, "index")
        /\ UNCHANGED <<accounts, next_account_id, names, bank_mtx,
                       made, call, answer>>

\* Bug variant: the flag is left as it was.
SortedAfterRegister_Kept == name_index_sorted

SortedAfterRegister == FALSE

IndexName(t) ==
    /\ pc[t] = "index"
    /\ name_index' = Append(name_index,
         [name |-> ToLowerCopy(call[t].name), id |-> found[t]])
    /\ name_index_sorted' = SortedAfterRegister
    /\ Respond(t, <<found[t]>>)
    /\ GoTo(t, "return")
    /\ UNCHANGED <<registry, bank_mtx, made, call, found>>

Search(t) ==
    /\ pc[t] = "range"
    /\ LET low == ToLowerCopy(call[t].name)
       IN  \E from \in PartitionPoints(Below(low)), until \in PartitionPoints(UpTo(low)) :
             Respond(t, Entries(from, until))
    /\ GoTo(t, "return")
    /\ UNCHANGED <<registry, names, bank_mtx, made, call, found>>

LeaveAccount(t) ==
    /\ pc[t] = "inside"
    /\ GoTo(t, "return")
    /\ UNCHANGED <<registry, names, bank_mtx, made, call, found, answer>>

-----------------------------------------------------------------------------
Return(t) ==
    /\ pc[t] = "return"
    /\ bank_mtx' = IF Owns(call[t]) THEN Disown(bank_mtx) ELSE Unshare(bank_mtx, t)
    /\ GoTo(t, "idle")
    /\ UNCHANGED <<registry, names, made, call, found, answer>>

Step(t) ==
    \/ Lock(t)
    \/ LookForCustomer(t) \/ LookForNationalId(t) \/ SortNames(t)
    \/ LookUp(t) \/ Route(t)
    \/ FileAccount(t) \/ OpenAccount(t)
    \/ InsertCustomer(t) \/ IndexName(t)
    \/ Search(t) \/ LeaveAccount(t)
    \/ Return(t)

\* Every script has run to its end.
Done ==
    /\ \A t \in Threads : pc[t] = "idle" /\ made[t] = Len(Script[t])
    /\ UNCHANGED vars

Next == (\E t \in Threads : Invoke(t) \/ Step(t)) \/ Done

Spec == Init /\ [][Next]_vars
=============================================================================
