--------------------------- MODULE BankProperties ---------------------------
(***************************************************************************)
(* What the registry must keep true however registrations, openings,       *)
(* searches and lookups interleave.                                        *)
(***************************************************************************)
EXTENDS Bank, SequencesExt

Places == {"idle", "lock", "look", "file", "open", "insert", "index", "range",
           "inside", "return"}

Customers == [name : Seq(Byte), national_id : Nat, account_id : Seq(Nat)]

\* Every variable holds a value of its C++ type, and ids are below the counters
\* they are drawn from.
TypeOK ==
    /\ DOMAIN customers \subseteq 1 .. next_customer_id - 1
    /\ customers \in [DOMAIN customers -> Customers]
    /\ DOMAIN accounts \subseteq 1 .. next_account_id - 1
    /\ accounts \in [DOMAIN accounts -> Nat]
    /\ DOMAIN national_id_to_customer \subseteq Nat
    /\ national_id_to_customer \in [DOMAIN national_id_to_customer -> Nat]
    /\ next_account_id \in Nat \ {0}
    /\ next_customer_id \in Nat \ {0}
    /\ name_index \in Seq([name : Seq(Byte), id : Nat])
    /\ name_index_sorted \in BOOLEAN
    /\ bank_mtx \in Locks
    /\ pc \in [Threads -> Places]
    /\ made \in [Threads -> Nat]
    /\ call \in [Threads -> CallRecords]
    /\ found \in [Threads -> Nat]
    /\ answer \in [Threads -> Seq(Nat)]

\* No two customers share a national id, however registrations race: the map
\* and the customers say the same whenever a reader may look (registerCustomer
\* looks first and inserts later).
NationalIdsUnique ==
    CanShare(bank_mtx) =>
      /\ \A c \in DOMAIN customers :
           /\ customers[c].national_id \in DOMAIN national_id_to_customer
           /\ national_id_to_customer[customers[c].national_id] = c
      /\ Range(national_id_to_customer) \subseteq DOMAIN customers

\* Every open account is listed by its owner, once, and by nobody else; and a
\* customer lists open accounts only (Customer keeps ids, Account its owner).
AccountsFiled ==
    CanShare(bank_mtx) =>
      \A c \in DOMAIN customers :
        /\ IsInjective(customers[c].account_id)
        /\ Range(customers[c].account_id) = {a \in DOMAIN accounts : accounts[a] = c}

\* The map of accounts does not change while an operation holds an iterator
\* into it: opening an account may rehash the map.
IteratorsStayValid ==
    [][(\E t \in Threads : pc[t] = "inside") => UNCHANGED accounts]_vars

\* The customers whose names begin with a prefix, whatever the case.
Matching(prefix) ==
    {c \in DOMAIN customers :
       IsPrefix(ToLowerCopy(prefix), ToLowerCopy(customers[c].name))}

\* A search finds exactly the customers whose names begin with the prefix, each
\* once and in the order of their names, whatever was registered since the
\* index was last sorted.  "Typing 'Ali' instantly finds 'Alice' and 'Alicia'"
\* (README.md).
SearchIsExact ==
    \A t \in Threads :
      pc[t] = "return" /\ call[t].op = "searchCustomerPrefix" =>
        /\ IsInjective(answer[t])
        /\ Range(answer[t]) =
             IF call[t].name = << >> THEN {} ELSE Matching(call[t].name)
        /\ \A i, j \in DOMAIN answer[t] : i < j =>
             ~Before(ToLowerCopy(customers[answer[t][j]].name),
                     ToLowerCopy(customers[answer[t][i]].name))

-----------------------------------------------------------------------------
(***************************************************************************)
(* The registry implements AtomicRegistry.  A customer is there once its   *)
(* name is in the index, an account once it is in the map: the owner of    *)
(* lock makes each of them known in its last step.  A call has taken       *)
(* effect when only its return is left.                                    *)
(***************************************************************************)
Scripted == UNION {UNION Range(Script[t]) : t \in Threads}
Idle == [op |-> "none", name |-> << >>, id |-> 0]

Registered == DOMAIN customers \ {found[t] : t \in {u \in Threads : pc[u] = "index"}}
RegisteredCustomers ==
    [c \in Registered |-> [name |-> customers[c].name,
                           national_id |-> customers[c].national_id]]

Pending == [t \in Threads |-> IF pc[t] = "idle" THEN Idle ELSE call[t]]
Answered ==
    [t \in Threads |-> [known |-> pc[t] = "return",
                        ids |-> IF pc[t] = "return" THEN answer[t] ELSE << >>]]

Atomic == INSTANCE AtomicRegistry WITH
    Calls <- Scripted,
    NoCall <- Idle,
    StartsWith <- LAMBDA name, prefix : IsPrefix(ToLowerCopy(prefix), ToLowerCopy(name)),
    SortsBefore <- LAMBDA s, u : Before(ToLowerCopy(s), ToLowerCopy(u)),
    customers <- RegisteredCustomers,
    owners <- accounts,
    pending <- Pending,
    answered <- Answered

\* Every registration, opening, search and lookup is atomic to its callers, and
\* answers what is right at that moment, though Bank's methods change several
\* containers one after the other and sort the index on the way.
RegistryIsAtomic == Atomic!Spec

=============================================================================
