--------------------------- MODULE AtomicRegistry ---------------------------
(***************************************************************************)
(* What the bank's registry promises its callers: every registration,      *)
(* opening, search and lookup takes effect at a single moment between its  *)
(* start and its answer.  No lock, no maps that have to agree, no name     *)
(* index: customers and the owners of accounts, numbered as they are made. *)
(***************************************************************************)
EXTENDS Integers, FiniteSets, Functions

CONSTANTS
    Threads, Calls, NoCall,
    StartsWith(_, _),   \* a name starts with a prefix
    SortsBefore(_, _)   \* a strict order of names

VARIABLES
    customers,  \* the name and national id of each customer
    owners,     \* the customer of each account
    pending,    \* the call a thread is in, NoCall between calls
    answered    \* the answer the call in progress will give, None before it

vars == <<customers, owners, pending, answered>>

None == [known |-> FALSE, ids |-> << >>]

Init ==
    /\ customers = << >>
    /\ owners = << >>
    /\ pending = [t \in Threads |-> NoCall]
    /\ answered = [t \in Threads |-> None]

Answer(t, ids) == answered' = [answered EXCEPT ![t] = [known |-> TRUE, ids |-> ids]]

Add(f, value) ==
    LET id == Cardinality(DOMAIN f) + 1
    IN  [k \in DOMAIN f \cup {id} |-> IF k = id THEN value ELSE f[k]]

\* All orders of a set, and its numerical order.
Listings(ids) == {s \in [1 .. Cardinality(ids) -> ids] : IsInjective(s)}
Ascending(ids) ==
    {s \in Listings(ids) : \A i, j \in DOMAIN s : i < j => s[i] < s[j]}

With(national_id) ==
    {c \in DOMAIN customers : customers[c].national_id = national_id}

-----------------------------------------------------------------------------
Begin(t) ==
    /\ pending[t] = NoCall
    /\ \E c \in Calls : pending' = [pending EXCEPT ![t] = c]
    /\ UNCHANGED <<customers, owners, answered>>

\* A national id belongs to the customer who registered it first.
Register(t) ==
    LET c == pending[t]
    IN  /\ c.op = "registerCustomer"
        /\ \/ \E known \in With(c.id) : Answer(t, <<known>>) /\ UNCHANGED customers
           \/ /\ With(c.id) = {}
              /\ customers' = Add(customers, [name |-> c.name, national_id |-> c.id])
              /\ Answer(t, <<Cardinality(DOMAIN customers) + 1>>)
        /\ UNCHANGED owners

Open(t) ==
    LET c == pending[t].id
    IN  /\ pending[t].op = "openAccount"
        /\ \/ c \notin DOMAIN customers /\ Answer(t, <<0>>) /\ UNCHANGED owners
           \/ /\ c \in DOMAIN customers
              /\ owners' = Add(owners, c)
              /\ Answer(t, <<Cardinality(DOMAIN owners) + 1>>)
        /\ UNCHANGED customers

\* The customers whose names start with a prefix, by name; none for no prefix.
Found(prefix) ==
    LET Name(c) == customers[c].name
        matching == {c \in DOMAIN customers :
                       prefix # << >> /\ StartsWith(Name(c), prefix)}
    IN  {s \in Listings(matching) :
           \A i, j \in DOMAIN s : i < j => ~SortsBefore(Name(s[j]), Name(s[i]))}

\* The right answers of a call that changes nothing.
Right(c) ==
    CASE c.op = "searchCustomerPrefix" -> Found(c.name)
      [] c.op = "lookupCustomerByNationalID" ->
           IF With(c.id) = {} THEN {<< >>} ELSE Listings(With(c.id))
      [] c.op = "getCustomerInfo" ->
           IF c.id \in DOMAIN customers THEN {<<customers[c.id].national_id>>} ELSE {<< >>}
      [] c.op = "getCustomerAccountIDs" ->
           Ascending({a \in DOMAIN owners : owners[a] = c.id})
      [] c.op = "getAllAccountIDs" -> Listings(DOMAIN owners)
      [] c.op = "getAllCustomerIDs" -> Listings(DOMAIN customers)
      [] c.op = "routed" -> {<< >>}
      [] OTHER -> {}

Look(t) ==
    /\ \E ids \in Right(pending[t]) : Answer(t, ids)
    /\ UNCHANGED <<customers, owners>>

TakeEffect(t) ==
    /\ pending[t] # NoCall
    /\ answered[t] = None
    /\ Register(t) \/ Open(t) \/ Look(t)
    /\ UNCHANGED pending

Finish(t) ==
    /\ pending[t] # NoCall
    /\ answered[t] # None
    /\ pending' = [pending EXCEPT ![t] = NoCall]
    /\ answered' = [answered EXCEPT ![t] = None]
    /\ UNCHANGED <<customers, owners>>

Next == \E t \in Threads : Begin(t) \/ TakeEffect(t) \/ Finish(t)

Spec == Init /\ [][Next]_vars
=============================================================================
