----------------------------- MODULE BankProofs -----------------------------
(***************************************************************************)
(* Proofs about the bank's registry, for every set of threads and every    *)
(* script.                                                                 *)
(***************************************************************************)
EXTENDS BankProperties, FiniteSetTheorems, SequenceTheorems, TLAPS

-----------------------------------------------------------------------------
(***************************************************************************)
(* Facts about names and the name index, for names of any length: the      *)
(* order of names, where a binary search ends in a sorted index, and which *)
(* entries lie between the two ends of a prefix search.                    *)
(***************************************************************************)
\* A set of numbers that is not empty has a least element.
LEMMA LeastNumber ==
    ASSUME NEW S \in SUBSET Nat, S # {}
    PROVE  \E n \in S : \A m \in S : n <= m
<1>1. PICK n \in S : \A m \in S : <<m, n>> \notin OpToRel(<, Nat)
  BY NatLessThanWellFounded, WFMin, Zenon
<1>2. \A m \in S : ~(m < n)
  BY <1>1 DEF OpToRel
<1>. QED  BY <1>2

\* A part of 1 .. n that holds the predecessors of its numbers is a beginning.
LEMMA Beginning ==
    ASSUME NEW n \in Nat, NEW B \in SUBSET (1 .. n),
           \A i, j \in 1 .. n : i < j /\ j \in B => i \in B
    PROVE  \E p \in 1 .. n + 1 : B = 1 .. p - 1
<1>. DEFINE outside == (1 .. n + 1) \ B
<1>1. outside \in SUBSET Nat /\ n + 1 \in outside
  OBVIOUS
<1>2. PICK p \in outside : \A m \in outside : p <= m
  BY <1>1, LeastNumber
<1>3. \A i \in 1 .. p - 1 : i \in B
  <2>1. p \in 1 .. n + 1
    OBVIOUS
  <2>. QED  BY <1>2, <2>1
<1>4. \A i \in B : i \in 1 .. p - 1
  <2>. SUFFICES ASSUME NEW i \in B, i >= p  PROVE FALSE
    OBVIOUS
  <2>1. p \in 1 .. n /\ i # p
    OBVIOUS
  <2>. QED  BY <2>1
<1>5. B = 1 .. p - 1
  BY <1>3, <1>4
<1>. QED  BY <1>5

-----------------------------------------------------------------------------
(***************************************************************************)
(* The order of names.                                                     *)
(***************************************************************************)
\* A name between two names: what is below u is below w, or w is below u.  This
\* is what a sort and a binary search need of the order.
LEMMA BeforeSplits ==
    ASSUME NEW s \in Seq(Nat), NEW u \in Seq(Nat), NEW w \in Seq(Nat), Before(s, u)
    PROVE  Before(s, w) \/ Before(w, u)
<1>1. PICK i \in DOMAIN u :
        /\ \A j \in 1 .. i - 1 : j \in DOMAIN s /\ s[j] = u[j]
        /\ i \in DOMAIN s => s[i] < u[i]
  BY DEF Before
<1>. DEFINE differ == {j \in 1 .. i - 1 : ~(j \in DOMAIN w /\ w[j] = u[j])}
<1>2. /\ i \in Nat
      /\ DOMAIN s = 1 .. Len(s) /\ \A j \in 1 .. Len(s) : s[j] \in Nat
      /\ DOMAIN u = 1 .. Len(u) /\ \A j \in 1 .. Len(u) : u[j] \in Nat
      /\ DOMAIN w = 1 .. Len(w) /\ \A j \in 1 .. Len(w) : w[j] \in Nat
  <2>1. \A q \in Seq(Nat) : DOMAIN q = 1 .. Len(q) /\ \A j \in 1 .. Len(q) : q[j] \in Nat
    OBVIOUS
  <2>2. i \in Nat
    OBVIOUS
  <2>. QED  BY <2>1, <2>2
<1>3. CASE differ = {}
  <2>1. \A j \in 1 .. i - 1 : j \in DOMAIN w /\ w[j] = u[j]
    BY <1>3
  <2>2. CASE i \in DOMAIN w => w[i] < u[i]
    BY <2>1, <2>2 DEF Before
  <2>3. CASE i \in DOMAIN w /\ ~(w[i] < u[i])
    <3>1. i \in DOMAIN s => s[i] < w[i]
      <4>1. u[i] \in Nat /\ w[i] \in Nat /\ (i \in DOMAIN s => s[i] \in Nat)
        BY <1>2, <2>3
      <4>. QED  BY <1>1, <2>3, <4>1
    <3>. QED  BY <1>1, <2>1, <2>3, <3>1 DEF Before
  <2>. QED  BY <2>2, <2>3
<1>4. CASE differ # {}
  <2>. differ \in SUBSET Nat
    BY <1>2
  <2>1. PICK k \in differ : \A m \in differ : k <= m
    BY <1>4, LeastNumber
  <2>2. /\ k \in DOMAIN u /\ k \in DOMAIN s /\ s[k] = u[k]
        /\ \A j \in 1 .. k - 1 : /\ j \in DOMAIN s /\ s[j] = u[j]
                                /\ j \in DOMAIN w /\ w[j] = u[j]
    <3>1. k \in 1 .. i - 1 /\ \A j \in 1 .. k - 1 : j \in 1 .. i - 1 /\ j \notin differ
      BY <1>2, <2>1
    <3>. QED  BY <1>1, <1>2, <3>1
  <2>3. CASE k \in DOMAIN w /\ u[k] < w[k]
    BY <2>2, <2>3 DEF Before
  <2>4. CASE k \in DOMAIN w => w[k] < u[k]
    BY <2>2, <2>4 DEF Before
  <2>. QED  BY <2>1, <2>2, <2>3, <2>4
<1>. QED  BY <1>3, <1>4

\* A sequence of bytes is a sequence of numbers.
LEMMA BytesAreNumbers ==
    ASSUME NEW s \in Seq(Byte)
    PROVE  s \in Seq(Nat)
<1>1. Byte \subseteq Nat
  BY DEF Byte
<1>. QED  BY <1>1, SeqMonotonic, Zenon

\* Lower case keeps the length of a name, and its bytes stay ASCII.
LEMMA LowerCaseName ==
    ASSUME NEW name \in Seq(Byte)
    PROVE  /\ ToLowerCopy(name) \in Seq(Byte) /\ ToLowerCopy(name) \in Seq(Nat)
           /\ Len(ToLowerCopy(name)) = Len(name)
           /\ \A i \in DOMAIN name : name[i] < 127 => ToLowerCopy(name)[i] < 127
<1>1. \A b \in Byte : LowerCase(b) \in Byte /\ (b < 127 => LowerCase(b) < 127)
  BY DEF Byte, LowerCase
<1>2. /\ DOMAIN name = 1 .. Len(name)
      /\ \A i \in 1 .. Len(name) : name[i] \in Byte
  OBVIOUS
<1>3. ToLowerCopy(name) = [i \in 1 .. Len(name) |-> LowerCase(name[i])]
  BY <1>2 DEF ToLowerCopy
<1>4. ToLowerCopy(name) \in Seq(Byte) /\ Len(ToLowerCopy(name)) = Len(name)
  BY <1>1, <1>2, <1>3
<1>5. \A i \in DOMAIN name : name[i] < 127 => ToLowerCopy(name)[i] < 127
  BY <1>1, <1>2, <1>3
<1>. QED  BY <1>4, <1>5, BytesAreNumbers

\* Of the names in ASCII, those that begin with a prefix are the ones neither
\* below it nor above the prefix followed by DEL.
LEMMA PrefixIsRange ==
    ASSUME NEW low \in Seq(Nat), NEW name \in Seq(Nat),
           \A i \in DOMAIN name : name[i] < Delete
    PROVE  IsPrefix(low, name) <=>
             ~Before(name, low) /\ ~Before(Append(low, Delete), name)
<1>. DEFINE high == Append(low, Delete)
            Begins == \A j \in DOMAIN low : j \in DOMAIN name /\ low[j] = name[j]
<1>1. /\ high \in Seq(Nat) /\ DOMAIN low = 1 .. Len(low)
      /\ DOMAIN high = 1 .. Len(low) + 1 /\ high[Len(low) + 1] = Delete
      /\ \A j \in DOMAIN low : j \in DOMAIN high /\ high[j] = low[j]
      /\ DOMAIN name = 1 .. Len(name) /\ \A j \in 1 .. Len(name) : name[j] \in Nat
  BY DEF Delete
<1>2. IsPrefix(low, name) <=> Begins
  <2>1. CASE Len(low) <= Len(name)
    <3>1. /\ SubSeq(low, 1, Len(low)) = [j \in 1 .. Len(low) |-> low[j]]
          /\ SubSeq(name, 1, Len(low)) = [j \in 1 .. Len(low) |-> name[j]]
      BY <2>1
    <3>2. ASSUME Begins  PROVE SubSeq(low, 1, Len(low)) = SubSeq(name, 1, Len(low))
      BY <1>1, <3>1, <3>2
    <3>3. ASSUME SubSeq(low, 1, Len(low)) = SubSeq(name, 1, Len(low))  PROVE Begins
      <4>. SUFFICES ASSUME NEW j \in 1 .. Len(low)
                    PROVE  j \in DOMAIN name /\ low[j] = name[j]
        BY <1>1
      <4>1. SubSeq(low, 1, Len(low))[j] = low[j] /\ SubSeq(name, 1, Len(low))[j] = name[j]
        BY <3>1
      <4>. QED  BY <1>1, <2>1, <3>3, <4>1
    <3>. QED  BY <2>1, <3>2, <3>3 DEF IsPrefix
  <2>2. CASE ~(Len(low) <= Len(name))
    <3>1. Len(low) \in DOMAIN low /\ Len(low) \notin DOMAIN name
      BY <2>2
    <3>. QED  BY <2>2, <3>1 DEF IsPrefix
  <2>. QED  BY <2>1, <2>2
<1>. HIDE DEF high
<1>3. ASSUME Begins  PROVE ~Before(name, low) /\ ~Before(high, name)
  <2>1. ~Before(name, low)
    BY <1>3 DEF Before
  <2>2. ASSUME Before(high, name)  PROVE FALSE
    <3>1. PICK i \in DOMAIN name :
            /\ \A j \in 1 .. i - 1 : j \in DOMAIN high /\ high[j] = name[j]
            /\ i \in DOMAIN high => high[i] < name[i]
      BY <2>2 DEF Before
    <3>2. CASE i <= Len(low)
      <4>1. i \in DOMAIN low /\ name[i] \in Nat
        BY <1>1, <3>2
      <4>2. i \in DOMAIN high /\ high[i] = name[i]
        BY <1>1, <1>3, <4>1
      <4>. QED  BY <3>1, <4>1, <4>2
    <3>3. CASE i = Len(low) + 1
      BY <1>1, <3>1, <3>3 DEF Delete
    <3>4. CASE i > Len(low) + 1
      <4>1. Len(low) + 1 \in 1 .. i - 1 /\ Len(low) + 1 \in DOMAIN name
        BY <3>4
      <4>. QED  BY <1>1, <3>1, <4>1 DEF Delete
    <3>. QED  BY <3>2, <3>3, <3>4
  <2>. QED  BY <2>1, <2>2
<1>4. ASSUME ~Begins  PROVE Before(name, low) \/ Before(high, name)
  <2>. DEFINE differ == {j \in DOMAIN low : ~(j \in DOMAIN name /\ low[j] = name[j])}
  <2>0. differ \in SUBSET Nat /\ differ # {}
    BY <1>1, <1>4
  <2>1. PICK k \in differ : \A m \in differ : k <= m
    BY <2>0, LeastNumber
  <2>2. /\ k \in DOMAIN low /\ k \in Nat
        /\ \A j \in 1 .. k - 1 : /\ j \in DOMAIN low /\ j \in DOMAIN name
                                /\ low[j] = name[j]
    <3>1. \A j \in 1 .. k - 1 : j \in DOMAIN low /\ j \notin differ
      BY <2>1
    <3>. QED  BY <3>1
  <2>3. CASE k \in DOMAIN name => name[k] < low[k]
    BY <2>2, <2>3 DEF Before
  <2>4. CASE k \in DOMAIN name /\ low[k] < name[k]
    <3>1. \A j \in 1 .. k - 1 : j \in DOMAIN high /\ high[j] = name[j]
      BY <1>1, <2>2
    <3>2. high[k] < name[k]
      BY <1>1, <2>2, <2>4
    <3>. QED  BY <2>4, <3>1, <3>2 DEF Before
  <2>. QED  BY <2>1, <2>2, <2>3, <2>4
<1>. QED  BY <1>2, <1>3, <1>4 DEF high

-----------------------------------------------------------------------------
(***************************************************************************)
(* The name index.                                                         *)
(***************************************************************************)
Index == Seq([name : Seq(Byte), id : Nat])

\* A binary search ends behind the entries below its bound when they come first.
LEMMA SearchEndsAtPartition ==
    ASSUME name_index \in Index, NEW below \in SUBSET (DOMAIN name_index),
           \A i, j \in DOMAIN name_index : i < j /\ j \in below => i \in below,
           NEW p \in PartitionPoints(below)
    PROVE  p \in 1 .. Len(name_index) + 1 /\ below = 1 .. p - 1
<1>1. Len(name_index) \in Nat /\ DOMAIN name_index = 1 .. Len(name_index)
  BY DEF Index
<1>2. \E q \in 1 .. Len(name_index) + 1 : below = 1 .. q - 1
  BY <1>1, Beginning
<1>. QED  BY <1>2, Zenon DEF PartitionPoints

\* The entries a search answers from a sorted index are those whose names are
\* between the two bounds.
LEMMA SearchFindsRange ==
    ASSUME name_index \in Index, InOrder(name_index), NEW low \in Seq(Nat),
           NEW from \in PartitionPoints(Below(low)),
           NEW until \in PartitionPoints(UpTo(low))
    PROVE  /\ from \in 1 .. Len(name_index) + 1 /\ until \in 1 .. Len(name_index) + 1
           /\ \A i \in DOMAIN name_index :
                i \in from .. until - 1 <=>
                  /\ ~Before(name_index[i].name, low)
                  /\ ~Before(Append(low, Delete), name_index[i].name)
<1>1. /\ Append(low, Delete) \in Seq(Nat)
      /\ \A i \in DOMAIN name_index : name_index[i].name \in Seq(Nat)
  <2>1. Append(low, Delete) \in Seq(Nat)
    BY DEF Delete
  <2>2. \A i \in DOMAIN name_index : name_index[i].name \in Seq(Byte)
    <3>. DEFINE Entry == [name : Seq(Byte), id : Nat]
    <3>1. \A i \in DOMAIN name_index : name_index[i] \in Entry
      <4>. HIDE DEF Entry
      <4>1. name_index \in Seq(Entry)
        BY DEF Index, Entry
      <4>. QED  BY <4>1
    <3>. QED  BY <3>1
  <2>. QED  BY <2>1, <2>2, BytesAreNumbers
<1>2. \A i, j \in DOMAIN name_index : i < j /\ j \in Below(low) => i \in Below(low)
  BY <1>1, BeforeSplits DEF Below, InOrder
<1>3. \A i, j \in DOMAIN name_index : i < j /\ j \in UpTo(low) => i \in UpTo(low)
  BY <1>1, BeforeSplits DEF UpTo, InOrder
<1>4. from \in 1 .. Len(name_index) + 1 /\ Below(low) = 1 .. from - 1
  <2>1. Below(low) \subseteq DOMAIN name_index
    BY DEF Below
  <2>. QED  BY <1>2, <2>1, SearchEndsAtPartition
<1>5. until \in 1 .. Len(name_index) + 1 /\ UpTo(low) = 1 .. until - 1
  <2>1. UpTo(low) \subseteq DOMAIN name_index
    BY DEF UpTo
  <2>. QED  BY <1>3, <2>1, SearchEndsAtPartition
<1>6. ASSUME NEW i \in DOMAIN name_index
      PROVE  i \in from .. until - 1 <=> i \notin Below(low) /\ i \in UpTo(low)
  <2>1. DOMAIN name_index = 1 .. Len(name_index)
    BY DEF Index
  <2>. QED  BY <1>4, <1>5, <2>1
<1>. QED  BY <1>4, <1>5, <1>6 DEF Below, UpTo

-----------------------------------------------------------------------------
(***************************************************************************)
(* The inductive invariant.                                                *)
(***************************************************************************)
\* The call of thread t has bank_mtx.
Holds(t) == pc[t] \notin {"idle", "lock"}

\* The lock says who holds it, and how.
LockInv ==
    /\ bank_mtx.readers = {t \in Threads : Holds(t) /\ ~Owns(call[t])}
    /\ \A t \in Threads : bank_mtx.writer = t <=> Holds(t) /\ Owns(call[t])
    /\ bank_mtx.writer # NoThread => bank_mtx.readers = {}

PlaceInv ==
    \A t \in Threads :
      /\ pc[t] \in {"file", "open"} => call[t].op = "openAccount"
      /\ pc[t] \in {"insert", "index"} => call[t].op = "registerCustomer"
      /\ pc[t] = "range" => call[t].op = "searchCustomerPrefix"
      /\ pc[t] = "inside" => call[t].op = "routed"

\* The account that is filed and not yet open.
Opening == {found[t] : t \in {u \in Threads : pc[u] = "open"}}

\* The account that is filed for customer c and not yet open.
OpeningFor(c) == {found[t] : t \in {u \in Threads : pc[u] = "open" /\ call[u].id = c}}

\* Ids are given without a gap, and a call keeps the last one it drew.
IdsInv ==
    /\ DOMAIN customers = 1 .. next_customer_id - 1
    /\ DOMAIN accounts = (1 .. next_account_id - 1) \ Opening
    /\ \A t \in Threads :
         /\ pc[t] = "index" => found[t] = next_customer_id - 1 /\ found[t] > 0
         /\ pc[t] = "open" => found[t] = next_account_id - 1 /\ found[t] > 0
         /\ pc[t] \in {"file", "open"} => call[t].id \in DOMAIN customers

\* The map of national ids and the customers say the same.
NationalIdsInv ==
    /\ \A c \in DOMAIN customers :
         /\ customers[c].national_id \in DOMAIN national_id_to_customer
         /\ national_id_to_customer[customers[c].national_id] = c
    /\ \A n \in DOMAIN national_id_to_customer :
         /\ national_id_to_customer[n] \in DOMAIN customers
         /\ customers[national_id_to_customer[n]].national_id = n
    /\ \A t \in Threads :
         pc[t] = "insert" => call[t].id \notin DOMAIN national_id_to_customer

\* A customer's list is ascending, and holds the accounts it owns and the one
\* about to be opened for it.
FiledInv ==
    /\ \A a \in DOMAIN accounts : accounts[a] \in DOMAIN customers
    /\ \A c \in DOMAIN customers :
         LET list == customers[c].account_id
         IN  /\ \A i, j \in DOMAIN list : i < j => list[i] < list[j]
             /\ \A i \in DOMAIN list : list[i] < next_account_id
             /\ Range(list) =
                  {a \in DOMAIN accounts : accounts[a] = c} \cup OpeningFor(c)

\* The index has one entry for each customer but the one about to be indexed.
NamesInv ==
    /\ \A i \in DOMAIN name_index :
         /\ name_index[i].id \in Registered
         /\ name_index[i].name = ToLowerCopy(customers[name_index[i].id].name)
    /\ \A i, j \in DOMAIN name_index : name_index[i].id = name_index[j].id => i = j
    /\ \A c \in Registered : \E i \in DOMAIN name_index : name_index[i].id = c
    /\ \A t \in Threads :
         pc[t] = "index" =>
           /\ customers[found[t]].name = call[t].name
           /\ customers[found[t]].national_id = call[t].id

\* The index is in order when the flag says so, as it does during a search.
SortedInv ==
    /\ name_index_sorted => InOrder(name_index)
    /\ \A t \in Threads :
         pc[t] = "range" => name_index_sorted /\ call[t].name # << >>

\* The names that are registered are ASCII, and so are those about to be.
Ascii(name) == \A i \in DOMAIN name : name[i] < Delete
AsciiNames ==
    \A t \in Threads : \A n \in DOMAIN Script[t] : \A c \in Script[t][n] :
      c.op = "registerCustomer" => Ascii(c.name)
AsciiInv ==
    /\ \A c \in DOMAIN customers : Ascii(customers[c].name)
    /\ \A t \in Threads : call[t].op = "registerCustomer" => Ascii(call[t].name)

\* No answer is given before the last place.
AnswerInv ==
    \A t \in Threads : pc[t] \notin {"idle", "return"} => answer[t] = << >>

BankInv ==
    /\ TypeOK /\ LockInv /\ PlaceInv
    /\ IdsInv /\ NationalIdsInv /\ FiledInv
    /\ NamesInv /\ SortedInv /\ AnswerInv

-----------------------------------------------------------------------------
(***************************************************************************)
(* Type correctness.                                                       *)
(***************************************************************************)
LEMMA InitType == Init => TypeOK
<1>. SUFFICES ASSUME Init  PROVE TypeOK
  OBVIOUS
<1>1. /\ << >> \in [DOMAIN << >> -> Customers] /\ << >> \in [DOMAIN << >> -> Nat]
      /\ DOMAIN << >> \subseteq {}
  OBVIOUS
<1>2. bank_mtx \in Locks
  BY ThreadsDistinct DEF Init, Free, Locks
<1>3. call \in [Threads -> CallRecords]
  BY DEF Init, CallRecords, Op
<1>. QED  BY <1>1, <1>2, <1>3 DEF Init, TypeOK, Places

\* The counters are positive numbers.
LEMMA CounterTypes ==
    ASSUME TypeOK
    PROVE  /\ next_account_id \in Nat /\ next_account_id > 0
           /\ next_customer_id \in Nat /\ next_customer_id > 0
<1>1. next_account_id \in Nat \ {0} /\ next_customer_id \in Nat \ {0}
  BY DEF TypeOK
<1>. QED  BY <1>1

\* A call starts with a record of the script.
LEMMA ScriptedCall ==
    ASSUME NEW t \in Threads, made[t] \in Nat, made[t] < Len(Script[t]),
           NEW c \in Script[t][made[t] + 1]
    PROVE  c \in CallRecords
<1>1. Script[t] \in Seq(SUBSET CallRecords)
  BY RegistryScripts
<1>2. made[t] + 1 \in 1 .. Len(Script[t])
  BY <1>1
<1>3. Script[t][made[t] + 1] \in SUBSET CallRecords
  BY <1>1, <1>2, ElementOfSeq
<1>. QED  BY <1>3

\* The operators of the lock return a lock.
LEMMA LockTypes ==
    ASSUME NEW lock \in Locks, NEW t \in Threads
    PROVE  {Share(lock, t), Unshare(lock, t), Own(lock, t), Disown(lock)} \subseteq Locks
BY DEF Locks, Share, Unshare, Own, Disown

\* A listing of a finite set of numbers is a sequence of them.
LEMMA ListingType ==
    ASSUME NEW n \in Nat, NEW keys \in SUBSET (1 .. n), NEW s \in Listings(keys)
    PROVE  s \in Seq(Nat) /\ DOMAIN s = 1 .. Cardinality(keys)
<1>1. IsFiniteSet(keys)
  <2>1. 1 \in Int /\ n \in Int
    OBVIOUS
  <2>2. IsFiniteSet(1 .. n)
    BY <2>1, FS_Interval, Zenon
  <2>. QED  BY <2>2, FS_Subset, Zenon
<1>2. Cardinality(keys) \in Nat
  BY <1>1, FS_CardinalityType
<1>3. s \in [1 .. Cardinality(keys) -> keys]
  BY DEF Listings
<1>. DEFINE N == Nat
<1>4. s \in [1 .. Cardinality(keys) -> N]
  <2>1. keys \subseteq N
    OBVIOUS
  <2>. HIDE DEF N
  <2>. QED  BY <1>3, <2>1
<1>. QED  BY <1>2, <1>4, SeqDef

\* Whatever an operation looks up is a sequence of numbers.
LEMMA LookedUpType ==
    ASSUME TypeOK, NEW c \in CallRecords, NEW ids \in LookedUp(c)
    PROVE  ids \in Seq(Nat)
<1>1. /\ \A s \in Listings(DOMAIN accounts) : s \in Seq(Nat)
      /\ \A s \in Listings(DOMAIN customers) : s \in Seq(Nat)
  <2>1. next_account_id - 1 \in Nat /\ next_customer_id - 1 \in Nat
    BY DEF TypeOK
  <2>. QED  BY <2>1, ListingType DEF TypeOK
<1>2. c.id \in DOMAIN national_id_to_customer =>
        <<national_id_to_customer[c.id]>> \in Seq(Nat)
  BY DEF TypeOK
<1>3. c.id \in DOMAIN customers =>
        /\ <<customers[c.id].national_id>> \in Seq(Nat)
        /\ customers[c.id].account_id \in Seq(Nat)
  BY DEF TypeOK, Customers
<1>4. << >> \in Seq(Nat)
  OBVIOUS
<1>. QED  BY <1>1, <1>2, <1>3, <1>4, Zenon DEF LookedUp

\* A search ends somewhere in the index or at its end.
LEMMA PartitionPointsType ==
    ASSUME NEW below, NEW p \in PartitionPoints(below)
    PROVE  p \in 1 .. Len(name_index) + 1
BY DEF PartitionPoints

\* The ids of a range of entries, and what they are.
LEMMA EntriesType ==
    ASSUME name_index \in Index, NEW from \in 1 .. Len(name_index) + 1,
           NEW until \in 1 .. Len(name_index) + 1
    PROVE  /\ Entries(from, until) \in Seq(Nat)
           /\ DOMAIN Entries(from, until) = 1 .. until - from
           /\ \A i \in 1 .. until - from :
                /\ from + i - 1 \in DOMAIN name_index
                /\ Entries(from, until)[i] = name_index[from + i - 1].id
<1>. DEFINE Entry == [name : Seq(Byte), id : Nat]
<1>1. name_index \in Seq(Entry) /\ \A e \in Entry : e.id \in Nat
  BY DEF Index
<1>. HIDE DEF Entry
<1>2. \A k \in DOMAIN name_index : name_index[k].id \in Nat
  BY <1>1
<1>3. \A i \in 1 .. until - from : from + i - 1 \in DOMAIN name_index
  BY <1>1
<1>4. Entries(from, until) \in [1 .. until - from -> Nat]
  BY <1>2, <1>3 DEF Entries
<1>5. Entries(from, until) \in Seq(Nat)
  <2>1. CASE until - from \in Nat
    BY <1>4, <2>1, SeqDef
  <2>2. CASE until - from \notin Nat
    <3>1. 1 .. until - from = 1 .. 0
      BY <1>1, <2>2
    <3>. QED  BY <1>4, <3>1, SeqDef
  <2>. QED  BY <2>1, <2>2
<1>. QED  BY <1>3, <1>5 DEF Entries

\* Sorting keeps the entries of the index: it only changes their places.
LEMMA SortingType ==
    ASSUME name_index \in Index, NEW sorted \in Sortings(name_index)
    PROVE  /\ sorted \in Index /\ InOrder(sorted)
           /\ DOMAIN sorted = DOMAIN name_index
           /\ \E p \in [DOMAIN name_index -> DOMAIN name_index] :
                /\ \A i \in DOMAIN name_index : sorted[i] = name_index[p[i]]
                /\ \A i, j \in DOMAIN name_index : p[i] = p[j] => i = j
                /\ \A k \in DOMAIN name_index : \E i \in DOMAIN name_index : p[i] = k
<1>. DEFINE Entry == [name : Seq(Byte), id : Nat]
<1>1. name_index \in Seq(Entry)
  BY DEF Index
<1>. HIDE DEF Entry
<1>2. PICK p \in Bijection(DOMAIN name_index, DOMAIN name_index) :
        sorted = [i \in DOMAIN name_index |-> name_index[p[i]]]
  BY DEF Sortings
<1>3. /\ p \in [DOMAIN name_index -> DOMAIN name_index]
      /\ \A i, j \in DOMAIN name_index : p[i] = p[j] => i = j
      /\ \A k \in DOMAIN name_index : \E i \in DOMAIN name_index : p[i] = k
  BY DEF Bijection, Injection, Surjection, IsInjective
<1>4. sorted \in Seq(Entry)
  <2>1. /\ Len(name_index) \in Nat /\ DOMAIN name_index = 1 .. Len(name_index)
        /\ \A i \in DOMAIN name_index : name_index[i] \in Entry
    BY <1>1
  <2>2. sorted \in [1 .. Len(name_index) -> Entry]
    BY <1>2, <1>3, <2>1
  <2>. QED  BY <2>1, <2>2, SeqDef
<1>5. InOrder(sorted)
  BY DEF Sortings
<1>. QED  BY <1>2, <1>3, <1>4, <1>5 DEF Index, Entry

\* Every step keeps the types.
LEMMA TypeStep == TypeOK /\ IdsInv /\ PlaceInv /\ [Next]_vars => TypeOK'
<1>. SUFFICES ASSUME TypeOK, IdsInv, PlaceInv, [Next]_vars  PROVE TypeOK'
  OBVIOUS
<1>. USE DEF TypeOK
<1>1. ASSUME NEW t \in Threads, Invoke(t)  PROVE TypeOK'
  <2>1. call' \in [Threads -> CallRecords]
    BY <1>1, ScriptedCall DEF Invoke
  <2>2. UNCHANGED <<registry, names, bank_mtx>>
    BY <1>1 DEF Invoke
  <2>3. /\ pc' \in [Threads -> Places] /\ made' \in [Threads -> Nat]
        /\ found' \in [Threads -> Nat] /\ answer' \in [Threads -> Seq(Nat)]
    BY <1>1 DEF Invoke, GoTo, Respond, Places
  <2>. QED  BY <2>1, <2>2, <2>3 DEF registry, names
<1>2. ASSUME NEW t \in Threads, Lock(t)  PROVE TypeOK'
  BY <1>2, LockTypes DEF Lock, GoTo, Places, registry, names
<1>3. ASSUME NEW t \in Threads, LookForCustomer(t)  PROVE TypeOK'
  <2>1. pc' \in [Threads -> Places] /\ answer' \in [Threads -> Seq(Nat)]
    <3>1. <<0>> \in Seq(Nat)
      OBVIOUS
    <3>. QED  BY <1>3, <3>1 DEF LookForCustomer, GoTo, Respond, Places
  <2>. QED  BY <1>3, <2>1 DEF LookForCustomer, registry, names
<1>4. ASSUME NEW t \in Threads, LookForNationalId(t)  PROVE TypeOK'
  <2>1. pc' \in [Threads -> Places] /\ answer' \in [Threads -> Seq(Nat)]
    <3>1. call[t].id \in DOMAIN national_id_to_customer =>
            <<national_id_to_customer[call[t].id]>> \in Seq(Nat)
      OBVIOUS
    <3>. QED  BY <1>4, <3>1 DEF LookForNationalId, GoTo, Respond, Places
  <2>. QED  BY <1>4, <2>1 DEF LookForNationalId, registry, names
<1>5. ASSUME NEW t \in Threads, SortNames(t)  PROVE TypeOK'
  <2>1. name_index' \in Seq([name : Seq(Byte), id : Nat])
    BY <1>5, SortingType DEF SortNames, EnsureNameIndexSorted, Index
  <2>2. name_index_sorted' \in BOOLEAN
    BY <1>5 DEF SortNames, EnsureNameIndexSorted
  <2>. QED  BY <1>5, <2>1, <2>2 DEF SortNames, GoTo, Places, registry
<1>6. ASSUME NEW t \in Threads, LookUp(t)  PROVE TypeOK'
  <2>1. PICK ids \in LookedUp(call[t]) : Respond(t, ids)
    BY <1>6 DEF LookUp
  <2>2. ids \in Seq(Nat)
    BY LookedUpType
  <2>. QED  BY <1>6, <2>1, <2>2 DEF LookUp, GoTo, Respond, Places, registry, names
<1>7. ASSUME NEW t \in Threads, Route(t)  PROVE TypeOK'
  BY <1>7 DEF Route, GoTo, Places, registry, names
<1>8. ASSUME NEW t \in Threads, FileAccount(t)  PROVE TypeOK'
  <2>1. customers' \in [DOMAIN customers -> Customers]
    <3>1. \A c \in DOMAIN customers : customers[c] \in Customers
      OBVIOUS
    <3>2. \A c \in DOMAIN customers :
            customers'[c] = IF c = call[t].id
                            THEN [customers[c] EXCEPT !.account_id =
                                    Append(@, next_account_id)]
                            ELSE customers[c]
      BY <1>8 DEF FileAccount, AddAccountID
    <3>3. \A c \in DOMAIN customers : customers'[c] \in Customers
      <4>. SUFFICES ASSUME NEW c \in DOMAIN customers  PROVE customers'[c] \in Customers
        OBVIOUS
      <4>1. Append(customers[c].account_id, next_account_id) \in Seq(Nat)
        BY <3>1 DEF Customers
      <4>. QED  BY <3>1, <3>2, <4>1 DEF Customers
    <3>4. customers' = [c \in DOMAIN customers |-> customers'[c]]
      BY <1>8 DEF FileAccount
    <3>. QED  BY <3>3, <3>4
  <2>2. next_account_id' = next_account_id + 1 /\ found' \in [Threads -> Nat]
    BY <1>8 DEF FileAccount, FetchAdd
  <2>3. accounts' = accounts /\ DOMAIN accounts \subseteq 1 .. next_account_id' - 1
    BY <1>8, <2>2 DEF FileAccount
  <2>4. DOMAIN customers' = DOMAIN customers
    BY <2>1
  <2>5. pc' \in [Threads -> Places]
    BY <1>8 DEF FileAccount, GoTo, Places
  <2>6. UNCHANGED <<national_id_to_customer, next_customer_id, name_index,
                    name_index_sorted, bank_mtx, made, call, answer>>
    BY <1>8 DEF FileAccount, names
  <2>7. next_account_id' \in Nat \ {0}
    BY <2>2
  <2>. QED  BY <2>1, <2>2, <2>3, <2>4, <2>5, <2>6, <2>7
<1>9. ASSUME NEW t \in Threads, OpenAccount(t)  PROVE TypeOK'
  <2>1. /\ accounts' \in [DOMAIN accounts \cup {found[t]} -> Nat]
        /\ DOMAIN accounts' = DOMAIN accounts \cup {found[t]}
    BY <1>9 DEF OpenAccount, Put, CallRecords
  <2>2. found[t] \in 1 .. next_account_id - 1
    BY <1>9 DEF OpenAccount, IdsInv
  <2>3. answer' \in [Threads -> Seq(Nat)] /\ pc' \in [Threads -> Places]
    BY <1>9 DEF OpenAccount, GoTo, Respond, Places
  <2>. QED  BY <1>9, <2>1, <2>2, <2>3 DEF OpenAccount, names
<1>10. ASSUME NEW t \in Threads, InsertCustomer(t)  PROVE TypeOK'
  <2>. DEFINE customer == [name |-> call[t].name, national_id |-> call[t].id,
                           account_id |-> << >>]
  <2>1. customer \in Customers /\ call[t].id \in Nat
    BY DEF CallRecords, Customers
  <2>2. /\ customers' \in [DOMAIN customers \cup {next_customer_id} -> Customers]
        /\ DOMAIN customers' = DOMAIN customers \cup {next_customer_id}
    BY <1>10, <2>1 DEF InsertCustomer, Put
  <2>3. /\ national_id_to_customer' \in
             [DOMAIN national_id_to_customer \cup {call[t].id} -> Nat]
        /\ DOMAIN national_id_to_customer' =
             DOMAIN national_id_to_customer \cup {call[t].id}
    BY <1>10 DEF InsertCustomer, Put
  <2>4. next_customer_id' = next_customer_id + 1 /\ found' \in [Threads -> Nat]
    BY <1>10 DEF InsertCustomer, FetchAdd
  <2>5. DOMAIN customers' \subseteq 1 .. next_customer_id' - 1
    BY <2>2, <2>4
  <2>6. pc' \in [Threads -> Places]
    BY <1>10 DEF InsertCustomer, GoTo, Places
  <2>. QED  BY <1>10, <2>1, <2>2, <2>3, <2>4, <2>5, <2>6 DEF InsertCustomer, names
<1>11. ASSUME NEW t \in Threads, IndexName(t)  PROVE TypeOK'
  <2>1. ToLowerCopy(call[t].name) \in Seq(Byte)
    BY LowerCaseName DEF CallRecords
  <2>2. name_index' \in Seq([name : Seq(Byte), id : Nat])
    <3>. DEFINE Entry == [name : Seq(Byte), id : Nat]
                entry == [name |-> ToLowerCopy(call[t].name), id |-> found[t]]
    <3>1. entry \in Entry /\ name_index \in Seq(Entry) /\ name_index' = Append(name_index, entry)
      BY <1>11, <2>1 DEF IndexName
    <3>. HIDE DEF Entry, entry
    <3>2. name_index' \in Seq(Entry)
      BY <3>1
    <3>. QED  BY <3>2 DEF Entry
  <2>3. answer' \in [Threads -> Seq(Nat)] /\ pc' \in [Threads -> Places]
    BY <1>11 DEF IndexName, GoTo, Respond, Places
  <2>. QED  BY <1>11, <2>2, <2>3 DEF IndexName, SortedAfterRegister, registry
<1>12. ASSUME NEW t \in Threads, Search(t)  PROVE TypeOK'
  <2>. DEFINE low == ToLowerCopy(call[t].name)
  <2>1. PICK from \in PartitionPoints(Below(low)), until \in PartitionPoints(UpTo(low)) :
          Respond(t, Entries(from, until))
    BY <1>12 DEF Search
  <2>2. Entries(from, until) \in Seq(Nat)
    BY EntriesType, PartitionPointsType DEF Index
  <2>. QED  BY <1>12, <2>1, <2>2 DEF Search, GoTo, Respond, Places, registry, names
<1>13. ASSUME NEW t \in Threads, LeaveAccount(t)  PROVE TypeOK'
  BY <1>13 DEF LeaveAccount, GoTo, Places, registry, names
<1>14. ASSUME NEW t \in Threads, Return(t)  PROVE TypeOK'
  BY <1>14, LockTypes DEF Return, GoTo, Places, registry, names
<1>15. CASE UNCHANGED vars
  BY <1>15 DEF vars, registry, names
<1>. QED
  BY <1>1, <1>2, <1>3, <1>4, <1>5, <1>6, <1>7, <1>8, <1>9, <1>10, <1>11, <1>12,
     <1>13, <1>14, <1>15 DEF Next, Step, Done

-----------------------------------------------------------------------------
(***************************************************************************)
(* The lock.                                                               *)
(***************************************************************************)
\* A thread moves alone.
LEMMA OthersStay ==
    ASSUME TypeOK, NEW t \in Threads, Invoke(t) \/ Step(t), NEW u \in Threads, u # t
    PROVE  /\ pc'[u] = pc[u] /\ call'[u] = call[u] /\ made'[u] = made[u]
           /\ found'[u] = found[u] /\ answer'[u] = answer[u]
BY DEF TypeOK, Invoke, Step, Lock, LookForCustomer, LookForNationalId, SortNames,
       LookUp, Route, FileAccount, OpenAccount, InsertCustomer, IndexName, Search,
       LeaveAccount, Return, GoTo, Respond

\* Between taking the lock and releasing it a call keeps it.
LEMMA HoldsOn ==
    ASSUME TypeOK, NEW t \in Threads, Step(t), ~Lock(t), ~Return(t)
    PROVE  /\ Holds(t) /\ Holds(t)' /\ pc[t] # "return"
           /\ UNCHANGED <<bank_mtx, call, made>>
<1>1. /\ pc[t] \in {"look", "file", "open", "insert", "index", "range", "inside"}
      /\ pc'[t] \in {"file", "open", "insert", "index", "range", "inside", "return"}
  BY DEF TypeOK, Step, LookForCustomer, LookForNationalId, SortNames, LookUp, Route,
         FileAccount, OpenAccount, InsertCustomer, IndexName, Search, LeaveAccount, GoTo
<1>2. UNCHANGED <<bank_mtx, call, made>>
  BY DEF Step, LookForCustomer, LookForNationalId, SortNames, LookUp, Route,
         FileAccount, OpenAccount, InsertCustomer, IndexName, Search, LeaveAccount
<1>. QED  BY <1>1, <1>2 DEF Holds

\* While a call owns the lock nobody else holds it.
LEMMA Alone ==
    ASSUME LockInv, NEW t \in Threads, Holds(t), Owns(call[t]),
           NEW u \in Threads, Holds(u)
    PROVE  u = t
<1>1. bank_mtx.writer = t /\ bank_mtx.readers = {}
  BY ThreadsDistinct DEF LockInv
<1>. QED  BY <1>1 DEF LockInv

LEMMA InitLock == Init => LockInv /\ PlaceInv
BY ThreadsDistinct DEF Init, LockInv, PlaceInv, Holds, Free

\* Every step keeps the lock and its holders in step.
LEMMA LockStep == TypeOK /\ LockInv /\ [Next]_vars => LockInv'
<1>. SUFFICES ASSUME TypeOK, LockInv, [Next]_vars  PROVE LockInv'
  OBVIOUS
<1>1. ASSUME NEW t \in Threads, Invoke(t)  PROVE LockInv'
  <2>1. bank_mtx' = bank_mtx
    BY <1>1 DEF Invoke
  <2>2. ~Holds(t) /\ ~Holds(t)'
    BY <1>1 DEF Invoke, GoTo, Holds, TypeOK
  <2>3. \A u \in Threads : Holds(u)' = Holds(u) /\ (Holds(u) => Owns(call[u])' = Owns(call[u]))
    BY <1>1, <2>2, OthersStay DEF Holds
  <2>. QED  BY <2>1, <2>3 DEF LockInv
<1>2. ASSUME NEW t \in Threads, Lock(t)  PROVE LockInv'
  <2>1. ~Holds(t) /\ Holds(t)' /\ call' = call
    BY <1>2 DEF Lock, GoTo, Holds, TypeOK
  <2>2. \A u \in Threads : u # t => Holds(u)' = Holds(u)
    BY <1>2, OthersStay DEF Holds, Step
  <2>3. CASE Owns(call[t])
    <3>1. bank_mtx.writer = NoThread /\ bank_mtx.readers = {}
      BY <1>2, <2>3 DEF Lock, CanOwn
    <3>2. bank_mtx'.writer = t /\ bank_mtx'.readers = {}
      BY <1>2, <2>3, <3>1 DEF Lock, Own, TypeOK, Locks
    <3>. QED  BY <2>1, <2>2, <2>3, <3>1, <3>2, ThreadsDistinct DEF LockInv
  <2>4. CASE ~Owns(call[t])
    <3>1. bank_mtx.writer = NoThread
      BY <1>2, <2>4 DEF Lock, CanShare
    <3>2. bank_mtx'.writer = NoThread /\ bank_mtx'.readers = bank_mtx.readers \cup {t}
      BY <1>2, <2>4, <3>1 DEF Lock, Share, TypeOK, Locks
    <3>. QED  BY <2>1, <2>2, <2>4, <3>1, <3>2, ThreadsDistinct DEF LockInv
  <2>. QED  BY <2>3, <2>4
<1>3. ASSUME NEW t \in Threads, Return(t)  PROVE LockInv'
  <2>1. Holds(t) /\ ~Holds(t)' /\ call' = call
    BY <1>3 DEF Return, GoTo, Holds, TypeOK
  <2>2. \A u \in Threads : u # t => Holds(u)' = Holds(u)
    BY <1>3, OthersStay DEF Holds, Step
  <2>3. CASE Owns(call[t])
    <3>1. bank_mtx.writer = t /\ bank_mtx.readers = {}
      BY <2>1, <2>3, ThreadsDistinct DEF LockInv
    <3>2. bank_mtx'.writer = NoThread /\ bank_mtx'.readers = {}
      BY <1>3, <2>3, <3>1 DEF Return, Disown, TypeOK, Locks
    <3>. QED  BY <2>1, <2>2, <2>3, <3>1, <3>2, ThreadsDistinct DEF LockInv
  <2>4. CASE ~Owns(call[t])
    <3>1. /\ bank_mtx'.writer = bank_mtx.writer
          /\ bank_mtx'.readers = bank_mtx.readers \ {t}
      BY <1>3, <2>4 DEF Return, Unshare, TypeOK, Locks
    <3>. QED  BY <2>1, <2>2, <2>4, <3>1, ThreadsDistinct DEF LockInv
  <2>. QED  BY <2>3, <2>4
<1>4. ASSUME NEW t \in Threads, Step(t), ~Lock(t), ~Return(t)  PROVE LockInv'
  <2>1. Holds(t) /\ Holds(t)' /\ UNCHANGED <<bank_mtx, call>>
    BY <1>4, HoldsOn
  <2>2. \A u \in Threads : Holds(u)' = Holds(u)
    BY <1>4, <2>1, OthersStay DEF Holds
  <2>. QED  BY <2>1, <2>2 DEF LockInv
<1>5. CASE UNCHANGED vars
  BY <1>5 DEF vars, LockInv, Holds
<1>. QED  BY <1>1, <1>2, <1>3, <1>4, <1>5 DEF Next, Done

\* A place is only reached by the calls it is for.
LEMMA PlaceStep == TypeOK /\ PlaceInv /\ [Next]_vars => PlaceInv'
<1>. SUFFICES ASSUME TypeOK, PlaceInv, [Next]_vars  PROVE PlaceInv'
  OBVIOUS
<1>1. ASSUME NEW t \in Threads, Invoke(t) \/ Step(t)  PROVE PlaceInv'
  <2>1. /\ pc'[t] \in {"file", "open"} => call'[t].op = "openAccount"
        /\ pc'[t] \in {"insert", "index"} => call'[t].op = "registerCustomer"
        /\ pc'[t] = "range" => call'[t].op = "searchCustomerPrefix"
        /\ pc'[t] = "inside" => call'[t].op = "routed"
    BY <1>1 DEF TypeOK, PlaceInv, Invoke, Step, Lock, LookForCustomer, LookForNationalId,
           SortNames, LookUp, Route, FileAccount, OpenAccount, InsertCustomer, IndexName,
           Search, LeaveAccount, Return, GoTo
  <2>. QED  BY <1>1, <2>1, OthersStay DEF PlaceInv
<1>2. CASE UNCHANGED vars
  BY <1>2 DEF vars, PlaceInv
<1>. QED  BY <1>1, <1>2 DEF Next, Done

\* While a call is at a place where it writes or searches, every other call is
\* outside the lock.
LEMMA WriterAlone ==
    ASSUME LockInv, PlaceInv, NEW t \in Threads,
           pc[t] \in {"file", "open", "insert", "index", "range"},
           NEW u \in Threads, u # t
    PROVE  pc[u] \in {"idle", "lock"}
<1>1. Holds(t) /\ Owns(call[t])
  BY DEF Holds, PlaceInv, Owns, Exclusive
<1>2. ~Holds(u)
  BY <1>1, Alone
<1>. QED  BY <1>2 DEF Holds

-----------------------------------------------------------------------------
(***************************************************************************)
(* Ids.                                                                    *)
(***************************************************************************)
LEMMA InitIds == Init => IdsInv /\ NationalIdsInv /\ FiledInv /\ NamesInv /\ SortedInv /\ AnswerInv
BY DEF Init, IdsInv, NationalIdsInv, FiledInv, NamesInv, SortedInv, AnswerInv, Opening,
       Registered, InOrder

\* The steps that change neither the maps nor the counters.
LEMMA RegistryStays ==
    ASSUME TypeOK, NEW t \in Threads, Invoke(t) \/ Step(t),
           ~FileAccount(t), ~OpenAccount(t), ~InsertCustomer(t)
    PROVE  /\ UNCHANGED <<customers, national_id_to_customer, accounts,
                          next_account_id, next_customer_id>>
           /\ pc[t] \notin {"file", "open", "insert"}
           /\ pc'[t] \notin {"open", "index"}
           /\ pc'[t] = "file" => call'[t] = call[t] /\ call[t].id \in DOMAIN customers
           /\ pc'[t] = "insert" => /\ call'[t] = call[t]
                                  /\ call[t].id \notin DOMAIN national_id_to_customer
<1>1. UNCHANGED <<customers, national_id_to_customer, accounts,
                  next_account_id, next_customer_id>>
  BY DEF Invoke, Step, Lock, LookForCustomer, LookForNationalId, SortNames, LookUp,
         Route, IndexName, Search, LeaveAccount, Return, registry
<1>2. pc[t] \notin {"file", "open", "insert"}
  BY DEF TypeOK, Invoke, Step, Lock, LookForCustomer, LookForNationalId, SortNames, LookUp,
         Route, IndexName, Search, LeaveAccount, Return
<1>3. pc'[t] \notin {"open", "index"}
  BY DEF TypeOK, Invoke, Step, Lock, LookForCustomer, LookForNationalId, SortNames, LookUp,
         Route, IndexName, Search, LeaveAccount, Return, GoTo
<1>4. /\ pc'[t] = "file" => call'[t] = call[t] /\ call[t].id \in DOMAIN customers
      /\ pc'[t] = "insert" => /\ call'[t] = call[t]
                             /\ call[t].id \notin DOMAIN national_id_to_customer
  BY DEF TypeOK, Invoke, Step, Lock, LookForCustomer, LookForNationalId, SortNames, LookUp,
         Route, IndexName, Search, LeaveAccount, Return, GoTo
<1>. QED  BY <1>1, <1>2, <1>3, <1>4

\* What is being opened is what the one thread at "open" drew.
LEMMA OpeningIs ==
    ASSUME LockInv, PlaceInv, NEW t \in Threads,
           pc[t] \in {"file", "open", "insert", "index", "range"}
    PROVE  Opening = IF pc[t] = "open" THEN {found[t]} ELSE {}
BY WriterAlone DEF Opening

\* No id is given twice or skipped.
LEMMA IdsStep == TypeOK /\ LockInv /\ PlaceInv /\ IdsInv /\ [Next]_vars => IdsInv'
<1>. SUFFICES ASSUME TypeOK, LockInv, PlaceInv, IdsInv, [Next]_vars  PROVE IdsInv'
  OBVIOUS
<1>1. ASSUME NEW t \in Threads, FileAccount(t)  PROVE IdsInv'
  <2>1. \A u \in Threads : u # t => pc[u] \in {"idle", "lock"} /\ pc'[u] = pc[u]
    BY <1>1, WriterAlone, OthersStay DEF FileAccount, Step
  <2>2. /\ pc'[t] = "open" /\ found'[t] = next_account_id /\ call' = call
        /\ next_account_id' = next_account_id + 1 /\ accounts' = accounts
        /\ DOMAIN customers' = DOMAIN customers /\ next_customer_id' = next_customer_id
        /\ pc[t] = "file"
    BY <1>1 DEF FileAccount, GoTo, FetchAdd, TypeOK
  <2>3. Opening = {} /\ Opening' = {next_account_id}
    BY <2>1, <2>2 DEF Opening
  <2>4. DOMAIN accounts' = (1 .. next_account_id' - 1) \ Opening'
    BY <2>2, <2>3 DEF IdsInv, TypeOK
  <2>5. found'[t] = next_account_id' - 1 /\ found'[t] > 0
    BY <2>2, CounterTypes
  <2>6. call'[t].id \in DOMAIN customers'
    BY <2>2 DEF IdsInv
  <2>7. DOMAIN customers' = 1 .. next_customer_id' - 1
    BY <2>2 DEF IdsInv
  <2>8. \A u \in Threads : u # t => pc'[u] \notin {"file", "open", "index"}
    BY <2>1
  <2>. QED  BY <2>2, <2>4, <2>5, <2>6, <2>7, <2>8 DEF IdsInv
<1>2. ASSUME NEW t \in Threads, OpenAccount(t)  PROVE IdsInv'
  <2>1. \A u \in Threads : u # t => pc[u] \in {"idle", "lock"} /\ pc'[u] = pc[u]
    BY <1>2, WriterAlone, OthersStay DEF OpenAccount, Step
  <2>2. /\ pc'[t] = "return" /\ pc[t] = "open" /\ call' = call
        /\ DOMAIN accounts' = DOMAIN accounts \cup {found[t]}
        /\ UNCHANGED <<customers, next_customer_id, next_account_id>>
    BY <1>2 DEF OpenAccount, GoTo, Put, TypeOK
  <2>3. Opening = {found[t]} /\ Opening' = {}
    BY <2>1, <2>2 DEF Opening
  <2>4. DOMAIN accounts' = (1 .. next_account_id' - 1) \ Opening'
    BY <2>2, <2>3 DEF IdsInv, TypeOK
  <2>. QED  BY <2>1, <2>2, <2>4 DEF IdsInv
<1>3. ASSUME NEW t \in Threads, InsertCustomer(t)  PROVE IdsInv'
  <2>1. \A u \in Threads : u # t => pc[u] \in {"idle", "lock"} /\ pc'[u] = pc[u]
    BY <1>3, WriterAlone, OthersStay DEF InsertCustomer, Step
  <2>2. /\ pc'[t] = "index" /\ pc[t] = "insert" /\ found'[t] = next_customer_id
        /\ DOMAIN customers' = DOMAIN customers \cup {next_customer_id}
        /\ next_customer_id' = next_customer_id + 1
        /\ UNCHANGED <<accounts, next_account_id>>
    BY <1>3 DEF InsertCustomer, GoTo, Put, FetchAdd, TypeOK
  <2>3. Opening = {} /\ Opening' = {}
    BY <2>1, <2>2 DEF Opening
  <2>4. DOMAIN customers' = 1 .. next_customer_id' - 1
    BY <2>2 DEF IdsInv, TypeOK
  <2>5. found'[t] = next_customer_id' - 1 /\ found'[t] > 0
    BY <2>2, CounterTypes
  <2>6. DOMAIN accounts' = (1 .. next_account_id' - 1) \ Opening'
    BY <2>2, <2>3 DEF IdsInv
  <2>7. \A u \in Threads : u # t => pc'[u] \notin {"file", "open", "index"}
    BY <2>1
  <2>. QED  BY <2>2, <2>4, <2>5, <2>6, <2>7 DEF IdsInv
<1>4. ASSUME NEW t \in Threads, Invoke(t) \/ Step(t),
             ~FileAccount(t), ~OpenAccount(t), ~InsertCustomer(t)
      PROVE  IdsInv'
  <2>1. \A u \in Threads : u # t => /\ pc'[u] = pc[u] /\ found'[u] = found[u]
                                   /\ call'[u] = call[u]
    BY <1>4, OthersStay
  <2>2. Opening' = Opening
    BY <1>4, <2>1, RegistryStays DEF Opening
  <2>. QED  BY <1>4, <2>1, <2>2, RegistryStays DEF IdsInv
<1>5. CASE UNCHANGED vars
  BY <1>5 DEF vars, registry, IdsInv, Opening
<1>. QED  BY <1>1, <1>2, <1>3, <1>4, <1>5 DEF Next, Done

\* No national id is given to two customers: the test at "look" still holds when
\* the customer is inserted, because the call owns the lock in between.
LEMMA NationalIdsStep ==
    TypeOK /\ LockInv /\ PlaceInv /\ IdsInv /\ NationalIdsInv /\ [Next]_vars => NationalIdsInv'
<1>. SUFFICES ASSUME TypeOK, LockInv, PlaceInv, IdsInv, NationalIdsInv, [Next]_vars
              PROVE  NationalIdsInv'
  OBVIOUS
<1>1. ASSUME NEW t \in Threads, FileAccount(t)  PROVE NationalIdsInv'
  <2>1. \A u \in Threads : pc'[u] = "insert" => pc[u] = "insert"
    BY <1>1, OthersStay DEF FileAccount, GoTo, TypeOK, Step
  <2>2. /\ UNCHANGED <<call, national_id_to_customer>>
        /\ DOMAIN customers' = DOMAIN customers
        /\ \A c \in DOMAIN customers : customers'[c].national_id = customers[c].national_id
    BY <1>1 DEF FileAccount, TypeOK, Customers
  <2>. QED  BY <2>1, <2>2 DEF NationalIdsInv
<1>2. ASSUME NEW t \in Threads, OpenAccount(t)  PROVE NationalIdsInv'
  <2>1. \A u \in Threads : pc'[u] = "insert" => pc[u] = "insert"
    BY <1>2, OthersStay DEF OpenAccount, GoTo, TypeOK, Step
  <2>. QED  BY <1>2, <2>1 DEF OpenAccount, NationalIdsInv
<1>3. ASSUME NEW t \in Threads, InsertCustomer(t)  PROVE NationalIdsInv'
  <2>. DEFINE new == next_customer_id
              n == call[t].id
  <2>1. \A u \in Threads : pc'[u] # "insert"
    BY <1>3, WriterAlone, OthersStay DEF InsertCustomer, GoTo, TypeOK, Step
  <2>2. n \notin DOMAIN national_id_to_customer /\ new \notin DOMAIN customers
    BY <1>3 DEF InsertCustomer, NationalIdsInv, IdsInv, TypeOK
  <2>3. /\ DOMAIN customers' = DOMAIN customers \cup {new}
        /\ customers'[new].national_id = n
        /\ \A c \in DOMAIN customers : customers'[c] = customers[c]
    BY <1>3, <2>2 DEF InsertCustomer, Put
  <2>4. /\ DOMAIN national_id_to_customer' = DOMAIN national_id_to_customer \cup {n}
        /\ national_id_to_customer'[n] = new
        /\ \A m \in DOMAIN national_id_to_customer :
              national_id_to_customer'[m] = national_id_to_customer[m]
    BY <1>3, <2>2 DEF InsertCustomer, Put
  <2>5. \A c \in DOMAIN customers' :
          /\ customers'[c].national_id \in DOMAIN national_id_to_customer'
          /\ national_id_to_customer'[customers'[c].national_id] = c
    BY <2>3, <2>4 DEF NationalIdsInv
  <2>6. \A m \in DOMAIN national_id_to_customer' :
          /\ national_id_to_customer'[m] \in DOMAIN customers'
          /\ customers'[national_id_to_customer'[m]].national_id = m
    BY <2>3, <2>4 DEF NationalIdsInv
  <2>. QED  BY <2>1, <2>5, <2>6 DEF NationalIdsInv
<1>4. ASSUME NEW t \in Threads, Invoke(t) \/ Step(t),
             ~FileAccount(t), ~OpenAccount(t), ~InsertCustomer(t)
      PROVE  NationalIdsInv'
  <2>1. \A u \in Threads : u # t => pc'[u] = pc[u] /\ call'[u] = call[u]
    BY <1>4, OthersStay
  <2>. QED  BY <1>4, <2>1, RegistryStays DEF NationalIdsInv
<1>5. CASE UNCHANGED vars
  BY <1>5 DEF vars, registry, NationalIdsInv
<1>. QED  BY <1>1, <1>2, <1>3, <1>4, <1>5 DEF Next, Done

-----------------------------------------------------------------------------
(***************************************************************************)
(* The customers' lists of accounts.                                       *)
(***************************************************************************)
\* A number put at the end of an ascending list of smaller numbers.
LEMMA AscendingAppend ==
    ASSUME NEW list \in Seq(Nat), NEW a \in Nat,
           \A i, j \in DOMAIN list : i < j => list[i] < list[j],
           \A i \in DOMAIN list : list[i] < a
    PROVE  LET longer == Append(list, a)
           IN  /\ \A i, j \in DOMAIN longer : i < j => longer[i] < longer[j]
               /\ \A i \in DOMAIN longer : longer[i] < a + 1
               /\ Range(longer) = Range(list) \cup {a}
<1>. DEFINE longer == Append(list, a)
<1>1. /\ DOMAIN list = 1 .. Len(list) /\ DOMAIN longer = 1 .. Len(list) + 1
      /\ \A i \in DOMAIN list : longer[i] = list[i] /\ list[i] \in Nat
      /\ longer[Len(list) + 1] = a /\ Len(list) \in Nat
  OBVIOUS
<1>. HIDE DEF longer
<1>2. \A i \in DOMAIN longer : i \in DOMAIN list \/ i = Len(list) + 1
  BY <1>1
<1>3. ASSUME NEW i \in DOMAIN longer, NEW j \in DOMAIN longer, i < j
      PROVE  longer[i] < longer[j]
  <2>1. i \in DOMAIN list /\ (j \in DOMAIN list \/ j = Len(list) + 1)
    BY <1>1, <1>2, <1>3
  <2>. QED  BY <1>1, <1>3, <2>1
<1>4. \A i \in DOMAIN longer : longer[i] < a + 1
  BY <1>1, <1>2
<1>5. Range(longer) = Range(list) \cup {a}
  BY <1>1, <1>2 DEF Range
<1>. QED  BY <1>3, <1>4, <1>5 DEF longer

\* Every account stays filed with its owner, in the order the ids were given.
LEMMA FiledStep ==
    TypeOK /\ LockInv /\ PlaceInv /\ IdsInv /\ FiledInv /\ [Next]_vars => FiledInv'
<1>. SUFFICES ASSUME TypeOK, LockInv, PlaceInv, IdsInv, FiledInv, [Next]_vars
              PROVE  FiledInv'
  OBVIOUS
<1>1. ASSUME NEW t \in Threads, FileAccount(t)  PROVE FiledInv'
  <2>. DEFINE owner == call[t].id
              new == next_account_id
  <2>1. \A u \in Threads : u # t => pc[u] \in {"idle", "lock"} /\ pc'[u] = pc[u]
    BY <1>1, WriterAlone, OthersStay DEF FileAccount, Step
  <2>2. /\ pc[t] = "file" /\ pc'[t] = "open" /\ found'[t] = new /\ call' = call
        /\ accounts' = accounts /\ next_account_id' = new + 1
        /\ DOMAIN customers' = DOMAIN customers /\ owner \in DOMAIN customers
    BY <1>1 DEF FileAccount, GoTo, FetchAdd, TypeOK, IdsInv
  <2>3. \A c \in DOMAIN customers :
          /\ OpeningFor(c) = {}
          /\ OpeningFor(c)' = IF c = owner THEN {new} ELSE {}
    BY <2>1, <2>2 DEF OpeningFor
  <2>4. \A c \in DOMAIN customers :
          /\ customers[c].account_id \in Seq(Nat)
          /\ c # owner => customers'[c] = customers[c]
          /\ c = owner => customers'[c].account_id = Append(customers[c].account_id, new)
    BY <1>1 DEF FileAccount, AddAccountID, TypeOK, Customers
  <2>5. ASSUME NEW c \in DOMAIN customers', c = owner
        PROVE  LET list == customers'[c].account_id
               IN  /\ \A i, j \in DOMAIN list : i < j => list[i] < list[j]
                   /\ \A i \in DOMAIN list : list[i] < next_account_id'
                   /\ Range(list) =
                        {a \in DOMAIN accounts' : accounts'[a] = c} \cup OpeningFor(c)'
    <3>. DEFINE list == customers[c].account_id
    <3>1. /\ \A i, j \in DOMAIN list : i < j => list[i] < list[j]
          /\ \A i \in DOMAIN list : list[i] < new
          /\ Range(list) = {a \in DOMAIN accounts : accounts[a] = c} \cup OpeningFor(c)
      <4>1. c \in DOMAIN customers
        BY <2>2, <2>5
      <4>. QED  BY <4>1 DEF FiledInv
    <3>2. list \in Seq(Nat) /\ new \in Nat /\ customers'[c].account_id = Append(list, new)
      <4>1. new \in Nat
        BY CounterTypes
      <4>. QED  BY <2>2, <2>4, <2>5, <4>1
    <3>. HIDE DEF list
    <3>3. /\ \A i, j \in DOMAIN Append(list, new) :
               i < j => Append(list, new)[i] < Append(list, new)[j]
          /\ \A i \in DOMAIN Append(list, new) : Append(list, new)[i] < new + 1
          /\ Range(Append(list, new)) = Range(list) \cup {new}
      BY <3>1, <3>2, AscendingAppend
    <3>. QED  BY <2>2, <2>3, <2>5, <3>1, <3>2, <3>3
  <2>6. ASSUME NEW c \in DOMAIN customers', c # owner
        PROVE  LET list == customers'[c].account_id
               IN  /\ \A i, j \in DOMAIN list : i < j => list[i] < list[j]
                   /\ \A i \in DOMAIN list : list[i] < next_account_id'
                   /\ Range(list) =
                        {a \in DOMAIN accounts' : accounts'[a] = c} \cup OpeningFor(c)'
    <3>. DEFINE list == customers[c].account_id
    <3>1. /\ \A i, j \in DOMAIN list : i < j => list[i] < list[j]
          /\ \A i \in DOMAIN list : list[i] < new
          /\ Range(list) = {a \in DOMAIN accounts : accounts[a] = c} \cup {}
      BY <2>2, <2>3, <2>6 DEF FiledInv
    <3>2. \A i \in DOMAIN list : list[i] < new + 1
      <4>1. \A i \in DOMAIN list : list[i] \in Nat
        BY <2>2, <2>4
      <4>. QED  BY <3>1, <4>1, CounterTypes
    <3>. QED  BY <2>2, <2>3, <2>4, <2>6, <3>1, <3>2
  <2>. QED  BY <2>2, <2>5, <2>6 DEF FiledInv
<1>2. ASSUME NEW t \in Threads, OpenAccount(t)  PROVE FiledInv'
  <2>. DEFINE owner == call[t].id
              new == found[t]
  <2>1. \A u \in Threads : u # t => pc[u] \in {"idle", "lock"} /\ pc'[u] = pc[u]
    BY <1>2, WriterAlone, OthersStay DEF OpenAccount, Step
  <2>2. /\ pc[t] = "open" /\ pc'[t] = "return"
        /\ UNCHANGED <<customers, next_account_id>>
        /\ accounts' = Put(accounts, new, owner) /\ owner \in DOMAIN customers
    BY <1>2 DEF OpenAccount, GoTo, TypeOK, IdsInv
  <2>3. \A c : /\ OpeningFor(c) = IF c = owner THEN {new} ELSE {}
              /\ OpeningFor(c)' = {}
    BY <2>1, <2>2 DEF OpeningFor
  <2>4. new \notin DOMAIN accounts
    <3>1. new \in Opening
      BY <2>2 DEF Opening
    <3>. QED  BY <3>1 DEF IdsInv
  <2>5. /\ DOMAIN accounts' = DOMAIN accounts \cup {new} /\ accounts'[new] = owner
        /\ \A a \in DOMAIN accounts : accounts'[a] = accounts[a]
    BY <2>2, <2>4 DEF Put
  <2>6. \A c : {a \in DOMAIN accounts' : accounts'[a] = c} =
              {a \in DOMAIN accounts : accounts[a] = c} \cup OpeningFor(c)
    BY <2>3, <2>4, <2>5
  <2>7. \A a \in DOMAIN accounts' : accounts'[a] \in DOMAIN customers'
    BY <2>2, <2>5 DEF FiledInv
  <2>. QED  BY <2>2, <2>3, <2>6, <2>7 DEF FiledInv
<1>3. ASSUME NEW t \in Threads, InsertCustomer(t)  PROVE FiledInv'
  <2>. DEFINE new == next_customer_id
  <2>1. \A u \in Threads : u # t => pc[u] \in {"idle", "lock"} /\ pc'[u] = pc[u]
    BY <1>3, WriterAlone, OthersStay DEF InsertCustomer, Step
  <2>2. /\ pc[t] = "insert" /\ pc'[t] = "index" /\ UNCHANGED <<accounts, next_account_id>>
        /\ new \notin DOMAIN customers
    BY <1>3 DEF InsertCustomer, GoTo, TypeOK, IdsInv
  <2>3. /\ DOMAIN customers' = DOMAIN customers \cup {new}
        /\ customers'[new].account_id = << >>
        /\ \A c \in DOMAIN customers : customers'[c] = customers[c]
    BY <1>3, <2>2 DEF InsertCustomer, Put
  <2>4. \A c : OpeningFor(c) = {} /\ OpeningFor(c)' = {}
    BY <2>1, <2>2 DEF OpeningFor
  <2>5. {a \in DOMAIN accounts : accounts[a] = new} = {} /\ Range(<< >>) = {}
    BY <2>2 DEF FiledInv, Range
  <2>. QED  BY <2>2, <2>3, <2>4, <2>5 DEF FiledInv
<1>4. ASSUME NEW t \in Threads, Invoke(t) \/ Step(t),
             ~FileAccount(t), ~OpenAccount(t), ~InsertCustomer(t)
      PROVE  FiledInv'
  <2>1. \A u \in Threads : u # t => /\ pc'[u] = pc[u] /\ found'[u] = found[u]
                                   /\ call'[u] = call[u]
    BY <1>4, OthersStay
  <2>2. /\ UNCHANGED <<customers, accounts, next_account_id>>
        /\ pc[t] # "open" /\ pc'[t] # "open"
    BY <1>4, RegistryStays
  <2>3. \A c : OpeningFor(c)' = OpeningFor(c)
    BY <2>1, <2>2 DEF OpeningFor
  <2>. QED  BY <2>2, <2>3 DEF FiledInv
<1>5. CASE UNCHANGED vars
  BY <1>5 DEF vars, registry, FiledInv, OpeningFor
<1>. QED  BY <1>1, <1>2, <1>3, <1>4, <1>5 DEF Next, Done

-----------------------------------------------------------------------------
(***************************************************************************)
(* The name index.                                                         *)
(***************************************************************************)
\* The steps that leave the index and who is registered alone.
LEMMA NamesStay ==
    ASSUME TypeOK, NEW t \in Threads, Invoke(t) \/ Step(t),
           ~InsertCustomer(t), ~IndexName(t), ~SortNames(t)
    PROVE  /\ UNCHANGED <<name_index, name_index_sorted>> /\ Registered' = Registered
           /\ pc[t] # "index" /\ pc'[t] \notin {"index", "range"}
           /\ DOMAIN customers' = DOMAIN customers
           /\ \A c \in DOMAIN customers : customers'[c].name = customers[c].name
           /\ \A c \in DOMAIN customers : customers'[c].national_id = customers[c].national_id
<1>1. UNCHANGED <<name_index, name_index_sorted>>
  BY DEF Invoke, Step, Lock, LookForCustomer, LookForNationalId, LookUp, Route,
         FileAccount, OpenAccount, Search, LeaveAccount, Return, names
<1>2. pc[t] # "index" /\ pc'[t] \notin {"index", "range"}
  BY DEF TypeOK, Invoke, Step, Lock, LookForCustomer, LookForNationalId, LookUp, Route,
         FileAccount, OpenAccount, Search, LeaveAccount, Return, GoTo
<1>3. /\ DOMAIN customers' = DOMAIN customers
      /\ \A c \in DOMAIN customers : customers'[c].name = customers[c].name
      /\ \A c \in DOMAIN customers : customers'[c].national_id = customers[c].national_id
  <2>1. CASE FileAccount(t)
    BY <2>1 DEF FileAccount, TypeOK, Customers
  <2>2. CASE OpenAccount(t)
    BY <2>2 DEF OpenAccount
  <2>3. CASE ~FileAccount(t) /\ ~OpenAccount(t)
    BY <2>3, RegistryStays
  <2>. QED  BY <2>1, <2>2, <2>3
<1>4. \A u \in Threads : u # t => pc'[u] = pc[u] /\ found'[u] = found[u]
  BY OthersStay
<1>5. Registered' = Registered
  BY <1>2, <1>3, <1>4 DEF Registered
<1>. QED  BY <1>1, <1>2, <1>3, <1>5

\* The index stays complete, without a double, whatever is registered or sorted.
LEMMA NamesStep ==
    TypeOK /\ LockInv /\ PlaceInv /\ IdsInv /\ NamesInv /\ [Next]_vars => NamesInv'
<1>. SUFFICES ASSUME TypeOK, LockInv, PlaceInv, IdsInv, NamesInv, [Next]_vars
              PROVE  NamesInv'
  OBVIOUS
<1>1. ASSUME NEW t \in Threads, InsertCustomer(t)  PROVE NamesInv'
  <2>. DEFINE new == next_customer_id
  <2>1. \A u \in Threads : u # t => pc[u] \in {"idle", "lock"} /\ pc'[u] = pc[u]
    BY <1>1, WriterAlone, OthersStay DEF InsertCustomer, Step
  <2>2. /\ pc[t] = "insert" /\ pc'[t] = "index" /\ name_index' = name_index
        /\ found'[t] = new /\ new \notin DOMAIN customers /\ call' = call
    BY <1>1 DEF InsertCustomer, GoTo, TypeOK, IdsInv, names
  <2>3. /\ DOMAIN customers' = DOMAIN customers \cup {new}
        /\ customers'[new].name = call[t].name
        /\ customers'[new].national_id = call[t].id
        /\ \A c \in DOMAIN customers : customers'[c] = customers[c]
    BY <1>1, <2>2 DEF InsertCustomer, Put
  <2>4. Registered = DOMAIN customers /\ Registered' = DOMAIN customers
    BY <2>1, <2>2, <2>3 DEF Registered
  <2>. QED  BY <2>1, <2>2, <2>3, <2>4 DEF NamesInv
<1>2. ASSUME NEW t \in Threads, IndexName(t)  PROVE NamesInv'
  <2>. DEFINE new == found[t]
              entry == [name |-> ToLowerCopy(call[t].name), id |-> new]
              n == Len(name_index)
  <2>1. \A u \in Threads : u # t => pc[u] \in {"idle", "lock"} /\ pc'[u] = pc[u]
    BY <1>2, WriterAlone, OthersStay DEF IndexName, Step
  <2>2. /\ pc[t] = "index" /\ pc'[t] = "return" /\ customers' = customers
        /\ name_index' = Append(name_index, entry)
        /\ new \in DOMAIN customers
    BY <1>2 DEF IndexName, GoTo, TypeOK, IdsInv, registry
  <2>3. Registered = DOMAIN customers \ {new} /\ Registered' = DOMAIN customers
    BY <2>1, <2>2 DEF Registered
  <2>4. /\ n \in Nat /\ DOMAIN name_index = 1 .. n /\ DOMAIN name_index' = 1 .. n + 1
        /\ \A i \in DOMAIN name_index : name_index'[i] = name_index[i]
        /\ name_index'[n + 1] = entry
    <3>. DEFINE Entry == [name : Seq(Byte), id : Nat]
    <3>1. name_index \in Seq(Entry)
      BY DEF TypeOK
    <3>. HIDE DEF Entry, entry
    <3>. QED  BY <2>2, <3>1
  <2>5. \A i \in DOMAIN name_index' : i \in DOMAIN name_index \/ i = n + 1
    BY <2>4
  <2>6. entry.id = new /\ entry.name = ToLowerCopy(customers[new].name)
    BY <2>2 DEF NamesInv
  <2>. HIDE DEF entry
  <2>7. \A i \in DOMAIN name_index' :
          /\ name_index'[i].id \in Registered'
          /\ name_index'[i].name = ToLowerCopy(customers'[name_index'[i].id].name)
    BY <2>2, <2>3, <2>4, <2>5, <2>6 DEF NamesInv
  <2>8. \A i, j \in DOMAIN name_index' : name_index'[i].id = name_index'[j].id => i = j
    <3>1. \A i \in DOMAIN name_index : name_index[i].id # new
      BY <2>3 DEF NamesInv
    <3>. QED  BY <2>4, <2>5, <2>6, <3>1 DEF NamesInv
  <2>9. \A c \in Registered' : \E i \in DOMAIN name_index' : name_index'[i].id = c
    <3>1. n + 1 \in DOMAIN name_index' /\ DOMAIN name_index \subseteq DOMAIN name_index'
      BY <2>4
    <3>. QED  BY <2>3, <2>4, <2>6, <3>1 DEF NamesInv
  <2>. QED  BY <2>1, <2>2, <2>7, <2>8, <2>9 DEF NamesInv
<1>3. ASSUME NEW t \in Threads, SortNames(t)  PROVE NamesInv'
  <2>1. \A u \in Threads : pc'[u] = "index" <=> pc[u] = "index"
    BY <1>3, OthersStay DEF SortNames, GoTo, TypeOK, Step
  <2>2. UNCHANGED <<customers, call, found>> /\ Registered' = Registered
    BY <1>3, <2>1 DEF SortNames, registry, Registered
  <2>3. CASE name_index_sorted
    BY <1>3, <2>1, <2>2, <2>3 DEF SortNames, EnsureNameIndexSorted, NamesInv
  <2>4. CASE ~name_index_sorted
    <3>1. PICK p \in [DOMAIN name_index -> DOMAIN name_index] :
            /\ DOMAIN name_index' = DOMAIN name_index
            /\ \A i \in DOMAIN name_index : name_index'[i] = name_index[p[i]]
            /\ \A i, j \in DOMAIN name_index : p[i] = p[j] => i = j
            /\ \A k \in DOMAIN name_index : \E i \in DOMAIN name_index : p[i] = k
      <4>1. name_index \in Index
        BY DEF TypeOK, Index
      <4>2. name_index' \in Sortings(name_index)
        BY <1>3, <2>4 DEF SortNames, EnsureNameIndexSorted
      <4>3. DOMAIN name_index' = DOMAIN name_index
        BY <4>1, <4>2, SortingType
      <4>. QED  BY <4>1, <4>2, <4>3, SortingType
    <3>2. \A i \in DOMAIN name_index' :
            /\ name_index'[i].id \in Registered'
            /\ name_index'[i].name = ToLowerCopy(customers'[name_index'[i].id].name)
      BY <2>2, <3>1 DEF NamesInv
    <3>3. \A i, j \in DOMAIN name_index' : name_index'[i].id = name_index'[j].id => i = j
      BY <3>1 DEF NamesInv
    <3>4. \A c \in Registered' : \E i \in DOMAIN name_index' : name_index'[i].id = c
      BY <2>2, <3>1 DEF NamesInv
    <3>. QED  BY <2>1, <2>2, <3>2, <3>3, <3>4 DEF NamesInv
  <2>. QED  BY <2>3, <2>4
<1>4. ASSUME NEW t \in Threads, Invoke(t) \/ Step(t),
             ~InsertCustomer(t), ~IndexName(t), ~SortNames(t)
      PROVE  NamesInv'
  <2>1. \A u \in Threads : u # t => /\ pc'[u] = pc[u] /\ found'[u] = found[u]
                                   /\ call'[u] = call[u]
    BY <1>4, OthersStay
  <2>2. \A u \in Threads : pc'[u] = "index" =>
          /\ pc[u] = "index" /\ u # t /\ found[u] \in DOMAIN customers
    <3>1. pc[t] # "index" /\ pc'[t] # "index"
      BY <1>4, NamesStay
    <3>2. \A u \in Threads : pc[u] = "index" => found[u] \in 1 .. next_customer_id - 1
      <4>1. next_customer_id \in Nat /\ \A u \in Threads : found[u] \in Nat
        BY DEF TypeOK
      <4>. QED  BY <4>1 DEF IdsInv
    <3>. QED  BY <2>1, <3>1, <3>2 DEF IdsInv
  <2>3. Registered \subseteq DOMAIN customers
    BY DEF Registered
  <2>4. /\ name_index' = name_index /\ Registered' = Registered
        /\ \A c \in DOMAIN customers : customers'[c].name = customers[c].name
        /\ \A c \in DOMAIN customers : customers'[c].national_id = customers[c].national_id
    BY <1>4, NamesStay
  <2>5. \A i \in DOMAIN name_index' :
          /\ name_index'[i].id \in Registered'
          /\ name_index'[i].name = ToLowerCopy(customers'[name_index'[i].id].name)
    BY <2>3, <2>4 DEF NamesInv
  <2>6. /\ \A i, j \in DOMAIN name_index' : name_index'[i].id = name_index'[j].id => i = j
        /\ \A c \in Registered' : \E i \in DOMAIN name_index' : name_index'[i].id = c
    BY <2>4 DEF NamesInv
  <2>7. ASSUME NEW u \in Threads, pc'[u] = "index"
        PROVE  /\ customers'[found'[u]].name = call'[u].name
               /\ customers'[found'[u]].national_id = call'[u].id
    BY <2>1, <2>2, <2>4, <2>7 DEF NamesInv
  <2>. QED  BY <2>5, <2>6, <2>7 DEF NamesInv
<1>5. CASE UNCHANGED vars
  BY <1>5 DEF vars, registry, names, NamesInv, Registered
<1>. QED  BY <1>1, <1>2, <1>3, <1>4, <1>5 DEF Next, Done

\* The flag never says that an unsorted index is sorted.
LEMMA SortedStep ==
    TypeOK /\ LockInv /\ PlaceInv /\ SortedInv /\ [Next]_vars => SortedInv'
<1>. SUFFICES ASSUME TypeOK, LockInv, PlaceInv, SortedInv, [Next]_vars
              PROVE  SortedInv'
  OBVIOUS
<1>1. ASSUME NEW t \in Threads, InsertCustomer(t)  PROVE SortedInv'
  <2>1. \A u \in Threads : pc'[u] # "range"
    BY <1>1, WriterAlone, OthersStay DEF InsertCustomer, GoTo, TypeOK, Step
  <2>. QED  BY <1>1, <2>1 DEF InsertCustomer, names, SortedInv
<1>2. ASSUME NEW t \in Threads, IndexName(t)  PROVE SortedInv'
  <2>1. \A u \in Threads : pc'[u] # "range"
    BY <1>2, WriterAlone, OthersStay DEF IndexName, GoTo, TypeOK, Step
  <2>. QED  BY <1>2, <2>1 DEF IndexName, SortedAfterRegister, SortedInv
<1>3. ASSUME NEW t \in Threads, SortNames(t)  PROVE SortedInv'
  <2>1. name_index_sorted' = TRUE /\ call' = call
    BY <1>3 DEF SortNames, EnsureNameIndexSorted
  <2>2. InOrder(name_index)'
    <3>1. CASE name_index_sorted
      BY <1>3, <3>1 DEF SortNames, EnsureNameIndexSorted, SortedInv, InOrder
    <3>2. CASE ~name_index_sorted
      BY <1>3, <3>2 DEF SortNames, EnsureNameIndexSorted, Sortings
    <3>. QED  BY <3>1, <3>2
  <2>3. \A u \in Threads : pc'[u] = "range" => call'[u].name # << >>
    BY <1>3, <2>1, OthersStay DEF SortNames, GoTo, TypeOK, SortedInv, Step
  <2>. QED  BY <2>1, <2>2, <2>3 DEF SortedInv
<1>4. ASSUME NEW t \in Threads, Invoke(t) \/ Step(t),
             ~InsertCustomer(t), ~IndexName(t), ~SortNames(t)
      PROVE  SortedInv'
  <2>1. \A u \in Threads : u # t => pc'[u] = pc[u] /\ call'[u] = call[u]
    BY <1>4, OthersStay
  <2>. QED  BY <1>4, <2>1, NamesStay DEF SortedInv, InOrder
<1>5. CASE UNCHANGED vars
  BY <1>5 DEF vars, names, SortedInv, InOrder
<1>. QED  BY <1>1, <1>2, <1>3, <1>4, <1>5 DEF Next, Done

-----------------------------------------------------------------------------
(***************************************************************************)
(* Searching.                                                              *)
(***************************************************************************)
\* The right answer of a search.
Exact(prefix, ids) ==
    /\ IsInjective(ids)
    /\ Range(ids) = IF prefix = << >> THEN {} ELSE Matching(prefix)
    /\ \A i, j \in DOMAIN ids : i < j =>
         ~Before(ToLowerCopy(customers[ids[j]].name), ToLowerCopy(customers[ids[i]].name))

\* The names in a script of ASCII names stay ASCII.
LEMMA AsciiStep == AsciiNames /\ TypeOK /\ PlaceInv /\ AsciiInv /\ [Next]_vars => AsciiInv'
<1>. SUFFICES ASSUME AsciiNames, TypeOK, PlaceInv, AsciiInv, [Next]_vars  PROVE AsciiInv'
  OBVIOUS
<1>1. ASSUME NEW t \in Threads, Invoke(t)  PROVE AsciiInv'
  <2>1. call'[t].op = "registerCustomer" => Ascii(call'[t].name)
    <3>1. /\ made[t] + 1 \in DOMAIN Script[t] /\ call'[t] \in Script[t][made[t] + 1]
      <4>1. Script[t] \in Seq(SUBSET CallRecords) /\ made[t] \in Nat
        BY RegistryScripts DEF TypeOK
      <4>. QED  BY <1>1, <4>1 DEF Invoke, TypeOK
    <3>. QED  BY <3>1 DEF AsciiNames
  <2>2. customers' = customers
    BY <1>1 DEF Invoke, registry
  <2>. QED  BY <1>1, <2>1, <2>2, OthersStay DEF AsciiInv
<1>2. ASSUME NEW t \in Threads, InsertCustomer(t)  PROVE AsciiInv'
  <2>1. Ascii(call[t].name) /\ call' = call
    BY <1>2 DEF InsertCustomer, PlaceInv, AsciiInv
  <2>. QED  BY <1>2, <2>1 DEF InsertCustomer, Put, AsciiInv
<1>3. ASSUME NEW t \in Threads, Step(t), ~InsertCustomer(t)  PROVE AsciiInv'
  <2>1. call' = call
    BY <1>3 DEF Step, Lock, LookForCustomer, LookForNationalId, SortNames, LookUp, Route,
           FileAccount, OpenAccount, IndexName, Search, LeaveAccount, Return
  <2>2. /\ DOMAIN customers' = DOMAIN customers
        /\ \A c \in DOMAIN customers : customers'[c].name = customers[c].name
    <3>1. CASE IndexName(t) \/ SortNames(t)
      BY <3>1 DEF IndexName, SortNames, registry
    <3>2. CASE ~IndexName(t) /\ ~SortNames(t)
      BY <1>3, <3>2, NamesStay
    <3>. QED  BY <3>1, <3>2
  <2>. QED  BY <2>1, <2>2 DEF AsciiInv
<1>4. CASE UNCHANGED vars
  BY <1>4 DEF vars, registry, AsciiInv
<1>. QED  BY <1>1, <1>2, <1>3, <1>4 DEF Next, Done

\* What a search takes from a sorted and complete index is right.
LEMMA SearchAnswer ==
    ASSUME TypeOK, NamesInv, AsciiInv, InOrder(name_index), Registered = DOMAIN customers,
           NEW prefix \in Seq(Byte), prefix # << >>,
           NEW from \in PartitionPoints(Below(ToLowerCopy(prefix))),
           NEW until \in PartitionPoints(UpTo(ToLowerCopy(prefix)))
    PROVE  Exact(prefix, Entries(from, until))
<1>. DEFINE low == ToLowerCopy(prefix)
            ids == Entries(from, until)
            Name(i) == name_index[i].name
<1>1. /\ name_index \in Index /\ low \in Seq(Nat)
      /\ DOMAIN name_index = 1 .. Len(name_index)
  BY LowerCaseName DEF TypeOK, Index
<1>2. /\ from \in 1 .. Len(name_index) + 1 /\ until \in 1 .. Len(name_index) + 1
      /\ \A i \in DOMAIN name_index :
           i \in from .. until - 1 <=>
             ~Before(Name(i), low) /\ ~Before(Append(low, Delete), Name(i))
  BY <1>1, SearchFindsRange
<1>3. \A i \in DOMAIN name_index :
        /\ name_index[i].id \in DOMAIN customers
        /\ Name(i) = ToLowerCopy(customers[name_index[i].id].name)
        /\ Name(i) \in Seq(Nat) /\ Ascii(Name(i))
  <2>. SUFFICES ASSUME NEW i \in DOMAIN name_index
                PROVE  /\ name_index[i].id \in DOMAIN customers
                       /\ Name(i) = ToLowerCopy(customers[name_index[i].id].name)
                       /\ Name(i) \in Seq(Nat) /\ Ascii(Name(i))
    OBVIOUS
  <2>. DEFINE name == customers[name_index[i].id].name
  <2>1. name_index[i].id \in DOMAIN customers /\ Name(i) = ToLowerCopy(name)
    BY DEF NamesInv
  <2>2. name \in Seq(Byte) /\ Ascii(name)
    BY <2>1 DEF TypeOK, Customers, AsciiInv
  <2>. HIDE DEF name
  <2>3. /\ ToLowerCopy(name) \in Seq(Nat) /\ DOMAIN ToLowerCopy(name) = DOMAIN name
        /\ \A k \in DOMAIN name : name[k] < 127 => ToLowerCopy(name)[k] < 127
    BY <2>2, LowerCaseName DEF ToLowerCopy
  <2>4. Ascii(ToLowerCopy(name))
    BY <2>2, <2>3 DEF Ascii, Delete
  <2>. QED  BY <2>1, <2>3, <2>4 DEF name
<1>4. \A i \in DOMAIN name_index : i \in from .. until - 1 <=> IsPrefix(low, Name(i))
  BY <1>1, <1>2, <1>3, PrefixIsRange DEF Ascii
<1>5. /\ DOMAIN ids = 1 .. until - from
      /\ \A i \in 1 .. until - from :
           /\ from + i - 1 \in DOMAIN name_index
           /\ ids[i] = name_index[from + i - 1].id
  BY <1>1, <1>2, EntriesType
<1>. HIDE DEF low, ids
<1>6. IsInjective(ids)
  <2>1. \A i, j \in DOMAIN ids : ids[i] = ids[j] => i = j
    <3>. SUFFICES ASSUME NEW i \in DOMAIN ids, NEW j \in DOMAIN ids, ids[i] = ids[j]
                  PROVE  i = j
      OBVIOUS
    <3>1. from + i - 1 = from + j - 1
      BY <1>5 DEF NamesInv
    <3>. QED  BY <1>2, <1>5, <3>1
  <2>. QED  BY <2>1 DEF IsInjective
<1>7. Range(ids) = Matching(prefix)
  <2>1. ASSUME NEW i \in DOMAIN ids  PROVE ids[i] \in Matching(prefix)
    <3>1. /\ from + i - 1 \in DOMAIN name_index /\ from + i - 1 \in from .. until - 1
          /\ ids[i] = name_index[from + i - 1].id
      BY <1>2, <1>5
    <3>. QED  BY <1>3, <1>4, <3>1 DEF Matching, low
  <2>2. ASSUME NEW c \in Matching(prefix)  PROVE \E i \in DOMAIN ids : ids[i] = c
    <3>1. PICK k \in DOMAIN name_index : name_index[k].id = c
      BY DEF Matching, NamesInv
    <3>2. k \in from .. until - 1
      BY <1>3, <1>4, <3>1 DEF Matching, low
    <3>3. k - from + 1 \in 1 .. until - from /\ from + (k - from + 1) - 1 = k
      BY <1>2, <3>2
    <3>. QED  BY <1>5, <3>1, <3>3
  <2>. QED  BY <2>1, <2>2 DEF Range
<1>8. ASSUME NEW i \in DOMAIN ids, NEW j \in DOMAIN ids, i < j
      PROVE  ~Before(ToLowerCopy(customers[ids[j]].name), ToLowerCopy(customers[ids[i]].name))
  <2>1. /\ from + i - 1 \in DOMAIN name_index /\ from + j - 1 \in DOMAIN name_index
        /\ from + i - 1 < from + j - 1
    BY <1>2, <1>5, <1>8
  <2>. QED  BY <1>3, <1>5, <2>1 DEF InOrder
<1>. QED  BY <1>6, <1>7, <1>8 DEF Exact, ids

\* A call answers in the step that leads to its return, and not before.
LEMMA AnswerStep == TypeOK /\ AnswerInv /\ [Next]_vars => AnswerInv'
<1>. SUFFICES ASSUME TypeOK, AnswerInv, [Next]_vars  PROVE AnswerInv'
  OBVIOUS
<1>1. ASSUME NEW t \in Threads, Invoke(t) \/ Step(t)  PROVE AnswerInv'
  <2>1. pc'[t] \notin {"idle", "return"} => answer'[t] = << >>
    BY <1>1 DEF TypeOK, AnswerInv, Invoke, Step, Lock, LookForCustomer, LookForNationalId,
           SortNames, LookUp, Route, FileAccount, OpenAccount, InsertCustomer, IndexName,
           Search, LeaveAccount, Return, GoTo, Respond
  <2>. QED  BY <1>1, <2>1, OthersStay DEF AnswerInv
<1>2. CASE UNCHANGED vars
  BY <1>2 DEF vars, AnswerInv
<1>. QED  BY <1>1, <1>2 DEF Next, Done

\* While a call owns the lock every customer but the one it inserted is registered.
LEMMA AllRegistered ==
    ASSUME LockInv, NEW t \in Threads, Holds(t), Owns(call[t]), pc[t] # "index"
    PROVE  Registered = DOMAIN customers
<1>1. \A u \in Threads : pc[u] # "index"
  BY Alone DEF Holds
<1>. QED  BY <1>1 DEF Registered

SearchInv ==
    \A t \in Threads :
      pc[t] = "return" /\ call[t].op = "searchCustomerPrefix" => Exact(call[t].name, answer[t])

\* A search answers what is right, and that stays right until it returns.
LEMMA SearchStep ==
    BankInv /\ AsciiInv /\ SearchInv /\ [Next]_vars => SearchInv'
<1>. SUFFICES ASSUME BankInv, AsciiInv, SearchInv, [Next]_vars,
                     NEW t \in Threads, pc'[t] = "return",
                     call'[t].op = "searchCustomerPrefix"
              PROVE  Exact(call[t].name, answer[t])'
  BY DEF SearchInv
<1>. USE DEF BankInv
<1>1. CASE SortNames(t)
  <2>1. /\ answer' = answer /\ answer[t] = << >> /\ call' = call /\ customers' = customers
        /\ call[t].name = << >> \/ name_index = << >>
        /\ Holds(t) /\ pc[t] # "index" /\ call[t].op = "searchCustomerPrefix"
    BY <1>1 DEF SortNames, AnswerInv, GoTo, TypeOK, registry, Holds
  <2>2. ASSUME name_index = << >>  PROVE Matching(call[t].name) = {}
    <3>1. Registered = DOMAIN customers
      BY <2>1, AllRegistered DEF Owns, Exclusive
    <3>. QED  BY <2>2, <3>1 DEF NamesInv, Matching
  <2>3. Exact(call[t].name, answer[t])
    BY <2>1, <2>2 DEF Exact, IsInjective, Range
  <2>. QED  BY <2>1, <2>3 DEF Exact, Matching
<1>2. CASE Search(t)
  <2>. DEFINE low == ToLowerCopy(call[t].name)
  <2>1. PICK from \in PartitionPoints(Below(low)), until \in PartitionPoints(UpTo(low)) :
          Respond(t, Entries(from, until))
    BY <1>2 DEF Search
  <2>2. /\ answer'[t] = Entries(from, until) /\ call' = call /\ customers' = customers
        /\ pc[t] = "range"
    BY <1>2, <2>1 DEF Search, Respond, TypeOK, registry
  <2>3. Registered = DOMAIN customers
    BY <2>2, AllRegistered DEF Holds, PlaceInv, Owns, Exclusive
  <2>4. InOrder(name_index) /\ call[t].name # << >> /\ call[t].name \in Seq(Byte)
    BY <2>2 DEF SortedInv, TypeOK, CallRecords
  <2>5. Exact(call[t].name, Entries(from, until))
    BY <2>3, <2>4, SearchAnswer
  <2>. QED  BY <2>2, <2>5 DEF Exact, Matching
<1>3. CASE pc[t] = "return"
  <2>1. ASSUME NEW u \in Threads, Invoke(u) \/ Step(u)
        PROVE  UNCHANGED <<customers, answer[t], call[t]>>
    <3>1. u # t
      BY <1>3, <2>1 DEF TypeOK, Invoke, Step, Lock, LookForCustomer, LookForNationalId,
             SortNames, LookUp, Route, FileAccount, OpenAccount, InsertCustomer, IndexName,
             Search, LeaveAccount, Return, GoTo
    <3>2. answer'[t] = answer[t] /\ call'[t] = call[t]
      BY <2>1, <3>1, OthersStay
    <3>3. ~Holds(u)
      BY <1>3, <3>1, <3>2, Alone DEF Holds, Owns, Exclusive
    <3>4. customers' = customers
      BY <2>1, <3>3, RegistryStays DEF Holds, FileAccount, OpenAccount, InsertCustomer
    <3>. QED  BY <3>2, <3>4
  <2>2. CASE UNCHANGED vars
    BY <1>3, <2>2 DEF vars, registry, SearchInv, Exact, Matching
  <2>3. UNCHANGED <<customers, answer[t], call[t]>>
    BY <2>1, <2>2 DEF Next, Done, vars, registry
  <2>. QED  BY <1>3, <2>3 DEF SearchInv, Exact, Matching
<1>4. CASE ~SortNames(t) /\ ~Search(t) /\ pc[t] # "return"
  <2>1. PICK u \in Threads : Invoke(u) \/ Step(u)
    BY <1>4 DEF Next, Done, vars
  <2>2. u = t
    BY <1>4, <2>1, OthersStay
  <2>. QED
    BY <1>4, <2>1, <2>2 DEF PlaceInv, TypeOK, Invoke, Step, Lock, LookForCustomer,
       LookForNationalId, LookUp, Lookups, Route, FileAccount, OpenAccount, InsertCustomer,
       IndexName, LeaveAccount, Return, GoTo
<1>. QED  BY <1>1, <1>2, <1>3, <1>4

-----------------------------------------------------------------------------
(***************************************************************************)
(* What the registry keeps true.                                           *)
(***************************************************************************)
\* The maps, the counters, the index and the lock agree after every step of
\* every interleaving (Bank.cpp, the members under bank_mtx).
THEOREM RegistryInvariant == Spec => []BankInv
<1>1. Init => BankInv
  BY InitType, InitLock, InitIds DEF BankInv
<1>2. BankInv /\ [Next]_vars => BankInv'
  BY TypeStep, LockStep, PlaceStep, IdsStep, NationalIdsStep, FiledStep, NamesStep,
     SortedStep, AnswerStep DEF BankInv
<1>. QED  BY <1>1, <1>2, PTL DEF Spec

\* Every variable keeps its C++ type, and every id is below its counter.
THEOREM RegistryTypes == Spec => []TypeOK
<1>1. BankInv => TypeOK
  BY DEF BankInv
<1>. QED  BY <1>1, RegistryInvariant, PTL

\* Registrations that race never give one national id to two customers
\* (registerCustomer, Bank.cpp:43).
THEOREM OneCustomerPerNationalId == Spec => []NationalIdsUnique
<1>1. BankInv => NationalIdsUnique
  BY DEF BankInv, NationalIdsInv, NationalIdsUnique, Range
<1>. QED  BY <1>1, RegistryInvariant, PTL

\* Whenever a reader may look, the customers' lists and the map of accounts say
\* the same (openAccount, Bank.cpp:26).
THEOREM AccountsAreFiled == Spec => []AccountsFiled
<1>1. BankInv => AccountsFiled
  <2>. SUFFICES ASSUME BankInv, CanShare(bank_mtx), NEW c \in DOMAIN customers
                PROVE  /\ IsInjective(customers[c].account_id)
                       /\ Range(customers[c].account_id) =
                            {a \in DOMAIN accounts : accounts[a] = c}
    BY DEF AccountsFiled
  <2>. DEFINE list == customers[c].account_id
  <2>1. ASSUME NEW t \in Threads, pc[t] = "open"  PROVE FALSE
    <3>1. Holds(t) /\ Owns(call[t])
      BY <2>1 DEF BankInv, PlaceInv, Holds, Owns, Exclusive
    <3>. QED  BY <3>1, ThreadsDistinct DEF BankInv, CanShare, LockInv
  <2>2. OpeningFor(c) = {}
    BY <2>1 DEF OpeningFor
  <2>3. /\ Range(list) = {a \in DOMAIN accounts : accounts[a] = c}
        /\ \A i, j \in DOMAIN list : i < j => list[i] < list[j]
    BY <2>2 DEF BankInv, FiledInv
  <2>4. list \in Seq(Nat)
    BY DEF BankInv, TypeOK, Customers
  <2>. HIDE DEF list
  <2>5. \A i, j \in DOMAIN list : list[i] = list[j] => i = j
    <3>1. DOMAIN list \subseteq Nat /\ \A i \in DOMAIN list : list[i] \in Nat
      BY <2>4
    <3>. QED  BY <2>3, <3>1
  <2>. QED  BY <2>3, <2>5 DEF IsInjective, list
<1>. QED  BY <1>1, RegistryInvariant, PTL

\* No account is inserted while an operation holds an iterator into the map
\* (Bank.cpp:63-98).
THEOREM IteratorsAreSafe == Spec => IteratorsStayValid
<1>1. BankInv /\ [Next]_vars =>
        [(\E t \in Threads : pc[t] = "inside") => UNCHANGED accounts]_vars
  <2>. SUFFICES ASSUME BankInv, NEW u \in Threads, Invoke(u) \/ Step(u),
                       NEW t \in Threads, pc[t] = "inside"
                PROVE  accounts' = accounts
    BY DEF Next, Done, vars, registry
  <2>1. CASE OpenAccount(u)
    <3>1. pc[u] = "open" /\ u # t
      BY <2>1 DEF OpenAccount
    <3>. QED  BY <3>1, WriterAlone DEF BankInv
  <2>2. CASE FileAccount(u) \/ InsertCustomer(u)
    BY <2>2 DEF FileAccount, InsertCustomer
  <2>3. CASE ~OpenAccount(u) /\ ~FileAccount(u) /\ ~InsertCustomer(u)
    BY <2>3, RegistryStays DEF BankInv
  <2>. QED  BY <2>1, <2>2, <2>3
<1>. QED  BY <1>1, RegistryInvariant, PTL DEF Spec, IteratorsStayValid

\* When the registered names are ASCII a search finds exactly the customers whose
\* names begin with the prefix, each once and in order (searchCustomerPrefix,
\* Bank.cpp:118).  Run unicode_names shows that the assumption is needed.
THEOREM SearchesAreExact == AsciiNames /\ Spec => []SearchIsExact
<1>. SUFFICES ASSUME AsciiNames  PROVE Spec => []SearchIsExact
  OBVIOUS
<1>1. Init => AsciiInv /\ SearchInv
  BY DEF Init, AsciiInv, SearchInv
<1>2. BankInv /\ AsciiInv /\ SearchInv /\ [Next]_vars => AsciiInv' /\ SearchInv'
  BY AsciiStep, SearchStep DEF BankInv
<1>3. SearchInv => SearchIsExact
  BY DEF SearchInv, SearchIsExact, Exact
<1>. QED  BY <1>1, <1>2, <1>3, RegistryInvariant, PTL DEF Spec

=============================================================================
