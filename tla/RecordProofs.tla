---------------------------- MODULE RecordProofs ----------------------------
(***************************************************************************)
(* Proofs about the record store: what the indexes say of the records, in  *)
(* which order, and what a client finds in them.                           *)
(***************************************************************************)
EXTENDS AtomicityProofs, FiniteSetTheorems, WellFoundedInduction

-----------------------------------------------------------------------------
(***************************************************************************)
(* Which step of a call touches what.                                      *)
(***************************************************************************)
LEMMA TypeInv ==
    ASSUME Inv
    PROVE  /\ pc \in [Threads -> Places] /\ tx_id \in [Threads -> Nat]
           /\ stamp \in [Threads -> Times] /\ call \in [Threads -> CallRecords]
           /\ transactions \in [Stored -> Records] /\ Stored \subseteq TxIds
BY DEF Inv, TypeOK

\* A step of t leaves the stamps and ids of the other threads alone.
LEMMA OthersLocals ==
    ASSUME Inv, NEW t \in Threads, Invoke(t) \/ Step(t), NEW u \in Threads \ {t}
    PROVE  stamp'[u] = stamp[u] /\ tx_id'[u] = tx_id[u]
<1>1. CASE Invoke(t)
  BY <1>1, TypeInv DEF Invoke
<1>2. CASE Step(t)
  BY <1>2, TypeInv DEF Step, LockBank, Check, LockAccount, TryOther, BackOff, Decide, Apply,
     CreditDest, Stamp, TakeId, LockRecords, StoreRecord, IndexRecord, LockForQuery,
     Read, OwnBank, OpenAccount, Return, shared
<1> QED
  BY <1>1, <1>2

LEMMA LedgerFrame ==
    ASSUME Inv, NEW t \in Threads, Invoke(t) \/ Step(t), ~StoreRecord(t), ~IndexRecord(t)
    PROVE  UNCHANGED ledger
BY DEF Invoke, Step, LockBank, Check, LockAccount, TryOther, BackOff, Decide, Apply,
   CreditDest, Stamp, TakeId, LockRecords, LockForQuery, Read, OwnBank, OpenAccount,
   Return, ledger

\* Only the calls that pass there stand where records are made.
LEMMA WritingFrame ==
    ASSUME Inv, NEW t \in Threads, Invoke(t) \/ Step(t)
    PROVE  /\ pc'[t] = "store" => LockRecords(t)
           /\ pc'[t] = "index" => StoreRecord(t)
           /\ pc[t] = "index" => IndexRecord(t)
           /\ pc[t] = "store" => StoreRecord(t)
           /\ pc'[t] = "record" => TakeId(t)
           /\ pc'[t] = "id" => Stamp(t)
<1>1. CASE Invoke(t)
  BY <1>1, Begins, TypeInv, Zenon DEF Invoke
<1>2. CASE Step(t)
  BY <1>2, TypeInv DEF Step, LockBank, Check, LockAccount, AfterFirstLock, TryOther,
     BackOff, Decide, Apply, AfterApply, CreditDest, Stamp, TakeId, LockRecords,
     StoreRecord, IndexRecord, LockForQuery, Read, OwnBank, OpenAccount, Return, GoTo
<1> QED
  BY <1>1, <1>2

\* At most one thread stands between the two steps of writeRecord, and a reader
\* finds none there.
LEMMA OneWriter ==
    ASSUME Inv, NEW t \in Threads, pc[t] \in {"store", "index"}
    PROVE  /\ ~CanShare(record_mtx)
           /\ \A u \in Threads \ {t} : pc[u] \notin {"store", "index", "read"}
<1>1. record_mtx.writer = t
  BY DEF Inv, LockInv, RecordLockInv
<1>2. record_mtx.writer # NoThread
  BY <1>1, ThreadsDistinct
<1> QED
  BY <1>1, <1>2 DEF Inv, LockInv, RecordLockInv, CanShare

-----------------------------------------------------------------------------
(***************************************************************************)
(* The indexes.  A record is filed once its writer has put it there too.   *)
(***************************************************************************)
Filed == {i \in Stored : \A t \in Threads : pc[t] = "index" => tx_id[t] # i}

\* The list holds the members of the set, each once.
Lists(list, set) == IsInjective(list) /\ Range(list) = set

From(a) == {i \in Filed : transactions[i].src_id = a}
To(a) == {i \in Filed : transactions[i].dest_id = a}
At(time) == {i \in Filed : Timestamp(i) = time}

IndexInv ==
    /\ \A t \in Threads : pc[t] = "index" =>
         tx_id[t] \in Stored /\ transactions[tx_id[t]] = RecordOf(t)
    /\ \A a \in AccountIds :
         Lists(history_by_src[a], From(a)) /\ Lists(history_by_dest[a], To(a))
    /\ \A time \in Times : Lists(index_by_time[time], At(time))

LEMMA AppendLists ==
    ASSUME NEW T, NEW s \in Seq(T), NEW S, Lists(s, S), NEW x \in T, x \notin S
    PROVE  Append(s, x) \in Seq(T) /\ Lists(Append(s, x), S \cup {x})
<1> DEFINE longer == Append(s, x)
<1>1. /\ DOMAIN s = 1 .. Len(s) /\ DOMAIN longer = 1 .. Len(s) + 1 /\ Len(s) \in Nat
      /\ \A i \in 1 .. Len(s) : longer[i] = s[i]
      /\ longer[Len(s) + 1] = x /\ longer \in Seq(T)
  OBVIOUS
<1>2. \A i \in 1 .. Len(s) : s[i] # x
  BY <1>1 DEF Lists, Range
<1> HIDE DEF longer
<1>3. IsInjective(longer)
  BY <1>1, <1>2 DEF Lists, IsInjective
<1>4. Range(longer) = S \cup {x}
  BY <1>1 DEF Lists, Range
<1> QED
  BY <1>1, <1>3, <1>4 DEF Lists, longer

LEMMA StoredRecord ==
    ASSUME Inv, NEW t \in Threads, pc[t] \in {"store", "index"}
    PROVE  /\ RecordOf(t) \in Records /\ tx_id[t] \in TxIds
           /\ RecordOf(t).timestamp = stamp[t]
BY DEF Inv, TypeOK, CallInv, PlaceInv, OpPlaces, Places, WellFormed, RecordOf, Records,
   CallRecords, Replies

\* The steps that do not write records change nothing of what is filed.
LEMMA FiledFrame ==
    ASSUME Inv, NEW t \in Threads, Invoke(t) \/ Step(t), ~StoreRecord(t), ~IndexRecord(t)
    PROVE  UNCHANGED <<Filed, Stored>>
<1>1. transactions' = transactions
  BY LedgerFrame DEF ledger
<1>2. \A u \in Threads : /\ pc'[u] = "index" <=> pc[u] = "index"
                         /\ pc[u] = "index" => tx_id'[u] = tx_id[u]
  BY WritingFrame, OthersStay, OthersLocals
<1> QED
  BY <1>1, <1>2 DEF Filed, Stored

\* A record is stored.
LEMMA StoreStep ==
    ASSUME Inv, EveryIdAccountedFor, NEW t \in Threads, StoreRecord(t)
    PROVE  /\ tx_id[t] \notin Stored /\ tx_id[t] \in TxIds
           /\ Filed = Stored /\ Filed' = Filed
           /\ Stored' = Stored \cup {tx_id[t]}
           /\ transactions'[tx_id[t]] = RecordOf(t)
           /\ \A i \in Stored : transactions'[i] = transactions[i]
           /\ UNCHANGED <<index_by_time, history_by_src, history_by_dest>>
           /\ recent_feed' = PushBack(recent_feed, tx_id[t])
           /\ UNCHANGED <<call, reply, stamp, tx_id, now, accounts, mtx>>
           /\ pc[t] = "store" /\ pc' = [pc EXCEPT ![t] = "index"]
<1>1. pc[t] = "store" /\ pc' = [pc EXCEPT ![t] = "index"]
  BY DEF StoreRecord, GoTo
<1>2. tx_id[t] \notin Stored /\ tx_id[t] \in TxIds
  BY <1>1, StoredRecord DEF EveryIdAccountedFor, Writing
<1>3. \A u \in Threads : pc[u] # "index" /\ (pc'[u] = "index" <=> u = t)
  BY <1>1, OneWriter, TypeInv
<1>4. transactions' = Put(transactions, tx_id[t], RecordOf(t))
  BY DEF StoreRecord, Store
<1>5. /\ Stored' = Stored \cup {tx_id[t]}
      /\ transactions'[tx_id[t]] = RecordOf(t)
      /\ \A i \in Stored : transactions'[i] = transactions[i]
  BY <1>2, <1>4 DEF Put, Stored
<1>6. UNCHANGED <<call, reply, stamp, tx_id, now, accounts, mtx,
                  index_by_time, history_by_src, history_by_dest>>
  BY DEF StoreRecord, shared
<1>7. Filed = Stored /\ Filed' = Filed
  BY <1>2, <1>3, <1>5, <1>6 DEF Filed
<1> QED
  BY <1>1, <1>2, <1>5, <1>6, <1>7 DEF StoreRecord, Store

\* A record is indexed.
LEMMA IndexStep ==
    ASSUME Inv, IndexInv, NEW t \in Threads, IndexRecord(t)
    PROVE  /\ tx_id[t] \in Stored /\ transactions[tx_id[t]] = RecordOf(t)
           /\ tx_id[t] \notin Filed /\ Stored = Filed \cup {tx_id[t]} /\ Filed' = Stored
           /\ UNCHANGED <<transactions, recent_feed, Stored>>
           /\ Index(tx_id[t], RecordOf(t))
           /\ UNCHANGED <<call, reply, stamp, tx_id, now, accounts, mtx>>
           /\ pc[t] = "index" /\ pc' = [pc EXCEPT ![t] = "return"]
           /\ \A u \in Threads : pc'[u] # "index"
<1>1. /\ pc[t] = "index" /\ pc' = [pc EXCEPT ![t] = "return"]
      /\ UNCHANGED <<transactions, recent_feed, call, reply, stamp, tx_id, now, accounts, mtx>>
      /\ Index(tx_id[t], RecordOf(t))
  BY DEF IndexRecord, GoTo
<1>2. \A u \in Threads : pc'[u] # "index" /\ (pc[u] = "index" <=> u = t)
  BY <1>1, OneWriter, TypeInv
<1>3. tx_id[t] \in Stored /\ transactions[tx_id[t]] = RecordOf(t)
  BY <1>1 DEF IndexInv
<1>4. Filed = Stored \ {tx_id[t]} /\ Filed' = Stored /\ Stored' = Stored
  BY <1>1, <1>2 DEF Filed, Stored
<1> QED
  BY <1>1, <1>2, <1>3, <1>4

\* What writeRecord's second step does to one list of ids.
LEMMA AppendToLists ==
    ASSUME Inv, IndexInv, NEW t \in Threads, IndexRecord(t)
    PROVE  /\ \A a \in AccountIds :
                /\ history_by_src'[a] = IF RecordOf(t).src_id = a
                                        THEN Append(history_by_src[a], tx_id[t])
                                        ELSE history_by_src[a]
                /\ history_by_dest'[a] = IF RecordOf(t).dest_id = a
                                         THEN Append(history_by_dest[a], tx_id[t])
                                         ELSE history_by_dest[a]
           /\ \A time \in Times :
                index_by_time'[time] = IF RecordOf(t).timestamp = time
                                       THEN Append(index_by_time[time], tx_id[t])
                                       ELSE index_by_time[time]
<1>1. Index(tx_id[t], RecordOf(t))
  BY IndexStep
<1>2. /\ index_by_time \in [Times -> Seq(TxIds)]
      /\ history_by_src \in [AccountIds -> Seq(TxIds)]
      /\ history_by_dest \in [AccountIds -> Seq(TxIds)]
  BY DEF Inv, TypeOK
<1>3. 0 \notin AccountIds
  BY LedgerConstants
<1> QED
  BY <1>1, <1>2, <1>3 DEF Index, AppendTo

LEMMA IndexInvStep ==
    ASSUME Inv, EveryIdAccountedFor, IndexInv, [Next]_vars
    PROVE  IndexInv'
<1>1. CASE UNCHANGED vars
  BY <1>1 DEF vars, shared, ledger, IndexInv, Filed, Stored, From, To, At, Timestamp, RecordOf
<1>2. ASSUME NEW t \in Threads, StoreRecord(t)
      PROVE  IndexInv'
  <2>1. /\ Filed = Stored /\ Filed' = Stored /\ Stored' = Stored \cup {tx_id[t]}
        /\ transactions'[tx_id[t]] = RecordOf(t)
        /\ \A i \in Stored : transactions'[i] = transactions[i]
        /\ UNCHANGED <<index_by_time, history_by_src, history_by_dest, call, reply, stamp, tx_id>>
        /\ pc' = [pc EXCEPT ![t] = "index"] /\ pc[t] = "store"
    BY <1>2, StoreStep
  <2>2. /\ \A a \in AccountIds : From(a)' = From(a) /\ To(a)' = To(a)
        /\ \A time \in Times : At(time)' = At(time)
    BY <2>1 DEF From, To, At, Timestamp
  <2>3. \A u \in Threads : pc'[u] = "index" => u = t
    BY <2>1, OneWriter, TypeInv
  <2>4. RecordOf(t)' = RecordOf(t)
    BY <2>1 DEF RecordOf
  <2> QED
    BY <2>1, <2>2, <2>3, <2>4 DEF IndexInv
<1>3. ASSUME NEW t \in Threads, IndexRecord(t)
      PROVE  IndexInv'
  <2> DEFINE id == tx_id[t]
             record == RecordOf(t)
  <2>1. /\ id \notin Filed /\ Filed' = Filed \cup {id} /\ transactions[id] = record
        /\ UNCHANGED transactions /\ id \in TxIds
        /\ \A u \in Threads : pc'[u] # "index"
    BY <1>3, IndexStep, TypeInv
  <2>2. /\ index_by_time \in [Times -> Seq(TxIds)]
        /\ history_by_src \in [AccountIds -> Seq(TxIds)]
        /\ history_by_dest \in [AccountIds -> Seq(TxIds)]
    BY DEF Inv, TypeOK
  <2>3. /\ \A a : From(a)' = IF record.src_id = a THEN From(a) \cup {id} ELSE From(a)
        /\ \A a : To(a)' = IF record.dest_id = a THEN To(a) \cup {id} ELSE To(a)
        /\ \A time : At(time)' = IF record.timestamp = time THEN At(time) \cup {id} ELSE At(time)
    BY <2>1 DEF From, To, At, Timestamp
  <2>4. \A a : id \notin From(a) /\ id \notin To(a) /\ id \notin At(a)
    BY <2>1 DEF From, To, At
  <2>5. ASSUME NEW a \in AccountIds
        PROVE  Lists(history_by_src'[a], From(a)') /\ Lists(history_by_dest'[a], To(a)')
    <3>1. /\ history_by_src[a] \in Seq(TxIds) /\ Lists(history_by_src[a], From(a))
          /\ history_by_dest[a] \in Seq(TxIds) /\ Lists(history_by_dest[a], To(a))
      BY <2>2 DEF IndexInv
    <3>2. /\ Lists(Append(history_by_src[a], id), From(a) \cup {id})
          /\ Lists(Append(history_by_dest[a], id), To(a) \cup {id})
      BY <2>1, <2>4, <3>1, AppendLists
    <3> QED
      BY <1>3, <2>3, <3>1, <3>2, AppendToLists
  <2>6. ASSUME NEW time \in Times
        PROVE  Lists(index_by_time'[time], At(time)')
    <3>1. index_by_time[time] \in Seq(TxIds) /\ Lists(index_by_time[time], At(time))
      BY <2>2 DEF IndexInv
    <3>2. Lists(Append(index_by_time[time], id), At(time) \cup {id})
      BY <2>1, <2>4, <3>1, AppendLists
    <3> QED
      BY <1>3, <2>3, <3>1, <3>2, AppendToLists
  <2> QED
    BY <2>1, <2>5, <2>6 DEF IndexInv, Lists
<1>4. ASSUME NEW t \in Threads, Invoke(t) \/ Step(t), ~StoreRecord(t), ~IndexRecord(t)
      PROVE  IndexInv'
  <2>1. UNCHANGED <<ledger, Filed, Stored>>
    BY <1>4, LedgerFrame, FiledFrame
  <2>2. \A u \in Threads : pc'[u] = "index" =>
          /\ pc[u] = "index" /\ call'[u] = call[u] /\ reply'[u] = reply[u]
          /\ stamp'[u] = stamp[u] /\ tx_id'[u] = tx_id[u]
    BY <1>4, WritingFrame, OthersStay, OthersLocals
  <2>3. \A u \in Threads : pc'[u] = "index" => RecordOf(u)' = RecordOf(u)
    BY <2>2 DEF RecordOf
  <2>4. (\A a : From(a)' = From(a) /\ To(a)' = To(a)) /\ \A time : At(time)' = At(time)
    BY <2>1 DEF From, To, At, Timestamp, ledger
  <2> QED
    BY <2>1, <2>2, <2>3, <2>4 DEF IndexInv, ledger
<1> QED
  BY <1>1, <1>2, <1>3, <1>4 DEF Next, Done

LEMMA IndexInvariant == Spec => []IndexInv
<1>1. Init => IndexInv
  BY DEF Init, LedgerInit, IndexInv, Filed, Stored, From, To, At, Lists, IsInjective, Range
<1>2. Inv /\ EveryIdAccountedFor /\ IndexInv /\ [Next]_vars => IndexInv'
  BY IndexInvStep
<1> QED
  BY InvInvariant, IdsAccountedFor, <1>1, <1>2, PTL DEF Spec

-----------------------------------------------------------------------------
(***************************************************************************)
(* Ranges of time.  queryByTime strings together the ids of one timestamp  *)
(* after the other.                                                        *)
(***************************************************************************)
\* A set of numbers that is not empty has a least element.
LEMMA SmallestNumber ==
    ASSUME NEW S \in SUBSET Nat, S # {}
    PROVE  \E n \in S : \A m \in S : n <= m
<1>1. PICK n \in S : \A m \in S : <<m, n>> \notin OpToRel(<, Nat)
  BY NatLessThanWellFounded, WFMin, Zenon
<1>2. \A m \in S : ~(m < n)
  BY <1>1 DEF OpToRel
<1> QED
  BY <1>2

Joined(r, s) == r \o s

StringsUp(g, f, lo, hi) ==
    g = [k \in lo - 1 .. hi |-> IF k < lo THEN << >> ELSE Joined(g[k - 1], f[k])]

StringUp(f, lo, hi) == CHOOSE g : StringsUp(g, f, lo, hi)

LEMMA StringExists ==
    ASSUME NEW f, NEW lo \in Int, NEW n \in Nat
    PROVE  \E g : StringsUp(g, f, lo, lo - 1 + n)
<1> DEFINE B == {m \in Nat : ~ \E g : StringsUp(g, f, lo, lo - 1 + m)}
<1>1. SUFFICES ASSUME B # {}
               PROVE  FALSE
  OBVIOUS
<1>2. PICK m \in B : \A k \in B : m <= k
  <2>1. B \in SUBSET Nat
    OBVIOUS
  <2> HIDE DEF B
  <2> QED
    BY <1>1, <2>1, SmallestNumber
<1>3. m \in Nat /\ ~ \E g : StringsUp(g, f, lo, lo - 1 + m)
  OBVIOUS
<1>4. CASE m = 0
  <2> DEFINE g == [k \in lo - 1 .. lo - 1 |-> << >>]
  <2>1. StringsUp(g, f, lo, lo - 1)
    BY DEF StringsUp
  <2> QED
    BY <1>3, <1>4, <2>1
<1>5. CASE m # 0
  <2>1. m - 1 \in Nat /\ m - 1 \notin B
    BY <1>2, <1>3, <1>5
  <2>2. PICK g : StringsUp(g, f, lo, lo - 1 + (m - 1))
    BY <2>1
  <2> DEFINE top == lo - 1 + m
             h == [k \in lo - 1 .. top |-> IF k = top THEN Joined(g[k - 1], f[k]) ELSE g[k]]
  <2>3. top \in Int /\ top >= lo /\ lo - 1 + (m - 1) = top - 1
    BY <1>3, <1>5
  <2>4. \A k \in lo - 1 .. top - 1 : h[k] = IF k < lo THEN << >> ELSE Joined(h[k - 1], f[k])
    BY <2>2, <2>3 DEF StringsUp
  <2>5. h[top] = Joined(h[top - 1], f[top])
    BY <2>3
  <2>6. StringsUp(h, f, lo, top)
    <3>1. \A k \in lo - 1 .. top : k \in lo - 1 .. top - 1 \/ k = top
      BY <2>3
    <3>2. \A k \in lo - 1 .. top : h[k] = IF k < lo THEN << >> ELSE Joined(h[k - 1], f[k])
      <4> HIDE DEF h, top
      <4> QED
        BY <2>3, <2>4, <2>5, <3>1
    <3>3. h = [k \in lo - 1 .. top |-> h[k]]
      OBVIOUS
    <3> HIDE DEF h, top
    <3> QED
      BY <3>2, <3>3 DEF StringsUp
  <2> QED
    BY <1>3, <2>6
<1> QED
  BY <1>4, <1>5

LEMMA TimeIsStrung ==
    ASSUME NEW lo \in Int, NEW hi \in Int, lo - 1 <= hi
    PROVE  /\ QueryByTime(lo, hi) = StringUp(index_by_time, lo, hi)[hi]
           /\ StringsUp(StringUp(index_by_time, lo, hi), index_by_time, lo, hi)
<1>1. QueryByTime(lo, hi) = StringUp(index_by_time, lo, hi)[hi]
  BY DEF QueryByTime, StringUp, StringsUp, Joined
<1>2. hi - lo + 1 \in Nat /\ lo - 1 + (hi - lo + 1) = hi
  OBVIOUS
<1>3. \E g : StringsUp(g, index_by_time, lo, hi)
  BY <1>2, StringExists
<1> QED
  BY <1>1, <1>3 DEF StringUp

LEMMA ConcatLists ==
    ASSUME NEW T, NEW r \in Seq(T), NEW s \in Seq(T), NEW R, NEW S,
           Lists(r, R), Lists(s, S), R \cap S = {}
    PROVE  r \o s \in Seq(T) /\ Lists(r \o s, R \cup S)
<1> DEFINE both == r \o s
<1>1. /\ DOMAIN r = 1 .. Len(r) /\ DOMAIN s = 1 .. Len(s)
      /\ DOMAIN both = 1 .. Len(r) + Len(s) /\ Len(r) \in Nat /\ Len(s) \in Nat
      /\ \A i \in 1 .. Len(r) : both[i] = r[i]
      /\ \A i \in Len(r) + 1 .. Len(r) + Len(s) : both[i] = s[i - Len(r)]
      /\ both \in Seq(T)
  OBVIOUS
<1>2. /\ \A i \in 1 .. Len(r) : r[i] \in R
      /\ \A i \in 1 .. Len(s) : s[i] \in S
  BY <1>1 DEF Lists, Range
<1> HIDE DEF both
<1>3. ASSUME NEW i \in DOMAIN both, NEW j \in DOMAIN both, both[i] = both[j]
      PROVE  i = j
  <2>1. CASE i \in 1 .. Len(r) /\ j \in 1 .. Len(r)
    BY <1>1, <1>3, <2>1 DEF Lists, IsInjective
  <2>2. CASE i \notin 1 .. Len(r) /\ j \notin 1 .. Len(r)
    <3>1. /\ i \in Len(r) + 1 .. Len(r) + Len(s) /\ i - Len(r) \in 1 .. Len(s)
          /\ j \in Len(r) + 1 .. Len(r) + Len(s) /\ j - Len(r) \in 1 .. Len(s)
      BY <1>1, <2>2
    <3>2. /\ i - Len(r) \in DOMAIN s /\ j - Len(r) \in DOMAIN s
          /\ s[i - Len(r)] = s[j - Len(r)]
      BY <1>1, <1>3, <3>1
    <3>3. i - Len(r) = j - Len(r)
      BY <3>2 DEF Lists, IsInjective
    <3> QED
      BY <1>1, <3>1, <3>3
  <2>3. CASE i \in 1 .. Len(r) /\ j \notin 1 .. Len(r)
    BY <1>1, <1>2, <1>3, <2>3
  <2>4. CASE i \notin 1 .. Len(r) /\ j \in 1 .. Len(r)
    BY <1>1, <1>2, <1>3, <2>4
  <2> QED
    BY <2>1, <2>2, <2>3, <2>4
<1>4. Range(both) = R \cup S
  <2>1. ASSUME NEW x \in R
        PROVE  x \in Range(both)
    <3>1. PICK i \in 1 .. Len(r) : r[i] = x
      BY <1>1 DEF Lists, Range
    <3> QED
      BY <1>1, <3>1 DEF Range
  <2>2. ASSUME NEW x \in S
        PROVE  x \in Range(both)
    <3>1. PICK i \in 1 .. Len(s) : s[i] = x
      BY <1>1 DEF Lists, Range
    <3>2. i + Len(r) \in Len(r) + 1 .. Len(r) + Len(s) /\ (i + Len(r)) - Len(r) = i
      BY <1>1
    <3>3. i + Len(r) \in DOMAIN both
      BY <1>1, <3>2
    <3>4. both[i + Len(r)] = s[(i + Len(r)) - Len(r)]
      BY <1>1, <3>2, Zenon
    <3> QED
      BY <3>1, <3>2, <3>3, <3>4 DEF Range
  <2>3. ASSUME NEW i \in DOMAIN both
        PROVE  both[i] \in R \cup S
    BY <1>1, <1>2
  <2> QED
    BY <2>1, <2>2, <2>3 DEF Range
<1>5. IsInjective(both)
  BY <1>3 DEF IsInjective
<1> QED
  BY <1>1, <1>4, <1>5 DEF Lists, both

LEMMA ConcatInOrder ==
    ASSUME NEW r \in Seq(TxIds), NEW s \in Seq(TxIds), InTimeOrder(r), InTimeOrder(s),
           \A i \in Range(r), j \in Range(s) : Timestamp(i) <= Timestamp(j)
    PROVE  InTimeOrder(Joined(r, s))
<1> DEFINE both == Joined(r, s)
<1>1. /\ DOMAIN r = 1 .. Len(r) /\ DOMAIN s = 1 .. Len(s)
      /\ Len(both) = Len(r) + Len(s) /\ Len(r) \in Nat /\ Len(s) \in Nat
      /\ \A i \in 1 .. Len(r) : both[i] = r[i]
      /\ \A i \in Len(r) + 1 .. Len(r) + Len(s) : both[i] = s[i - Len(r)]
  BY DEF Joined
<1>2. /\ \A i \in 1 .. Len(r) : r[i] \in Range(r)
      /\ \A i \in 1 .. Len(s) : s[i] \in Range(s)
  BY <1>1 DEF Range
<1> HIDE DEF both
<1>3. ASSUME NEW i \in 1 .. Len(both), NEW j \in 1 .. Len(both), i < j
      PROVE  Timestamp(both[i]) <= Timestamp(both[j])
  <2>1. CASE j <= Len(r)
    <3>1. i \in 1 .. Len(r) /\ j \in 1 .. Len(r)
      BY <1>1, <1>3, <2>1
    <3> QED
      BY <1>1, <1>3, <3>1 DEF InTimeOrder
  <2>2. CASE i <= Len(r) /\ j > Len(r)
    <3>1. /\ i \in 1 .. Len(r) /\ j - Len(r) \in 1 .. Len(s)
          /\ both[i] = r[i] /\ both[j] = s[j - Len(r)]
      BY <1>1, <2>2
    <3> QED
      BY <1>2, <3>1
  <2>3. CASE i > Len(r)
    <3>1. /\ i - Len(r) \in 1 .. Len(s) /\ j - Len(r) \in 1 .. Len(s)
          /\ i - Len(r) < j - Len(r)
          /\ both[i] = s[i - Len(r)] /\ both[j] = s[j - Len(r)]
      BY <1>1, <1>3, <2>3
    <3> QED
      BY <3>1 DEF InTimeOrder
  <2> QED
    BY <1>1, <2>1, <2>2, <2>3
<1> QED
  BY <1>3 DEF InTimeOrder, both

\* queryByTime finds the records of the range, each once and in order.
LEMMA TimeFinds ==
    ASSUME Inv, IndexInv, NEW lo \in Times, NEW hi \in lo .. MaxTime
    PROVE  /\ QueryByTime(lo, hi) \in Seq(TxIds)
           /\ Lists(QueryByTime(lo, hi), {i \in Filed : Timestamp(i) \in lo .. hi})
           /\ InTimeOrder(QueryByTime(lo, hi))
<1> DEFINE g == StringUp(index_by_time, lo, hi)
           within(k) == {i \in Filed : Timestamp(i) \in lo .. k}
           right(k) == /\ g[k] \in Seq(TxIds) /\ Lists(g[k], within(k))
                       /\ InTimeOrder(g[k])
           B == {n \in Nat : n <= hi - lo + 1 /\ ~right(lo - 1 + n)}
<1>1. /\ lo \in Nat /\ hi \in Nat /\ lo <= hi /\ lo .. hi \subseteq Times
      /\ MaxTime \in Nat
  BY LedgerConstants DEF Times
<1>2. /\ QueryByTime(lo, hi) = g[hi]
      /\ \A k \in lo - 1 .. hi : g[k] = IF k < lo THEN << >> ELSE Joined(g[k - 1], index_by_time[k])
  <2>1. StringsUp(g, index_by_time, lo, hi) /\ QueryByTime(lo, hi) = g[hi]
    BY <1>1, TimeIsStrung
  <2> HIDE DEF g
  <2> QED
    BY <2>1 DEF StringsUp
<1>3. SUFFICES ASSUME B # {}
               PROVE  FALSE
  <2>1. hi - lo + 1 \in Nat /\ lo - 1 + (hi - lo + 1) = hi
    BY <1>1
  <2>2. B = {} => right(lo - 1 + (hi - lo + 1))
    <3> HIDE DEF right
    <3> QED
      BY <2>1
  <2>3. B = {} => right(hi)
    BY <2>1, <2>2
  <2> QED
    BY <1>2, <2>3
<1> HIDE DEF g
<1>4. PICK n \in B : \A m \in B : n <= m
  <2>1. B \in SUBSET Nat
    OBVIOUS
  <2> HIDE DEF B
  <2> QED
    BY <1>3, <2>1, SmallestNumber
<1>5. n \in Nat /\ n <= hi - lo + 1 /\ ~right(lo - 1 + n)
  OBVIOUS
<1>6. CASE n = 0
  <2>1. g[lo - 1] = << >>
    BY <1>1, <1>2
  <2>2. within(lo - 1) = {}
    BY <1>1
  <2>3. right(lo - 1)
    <3>1. << >> \in Seq(TxIds) /\ Len(<< >>) = 0
      OBVIOUS
    <3> QED
      BY <2>1, <2>2, <3>1 DEF Lists, IsInjective, Range, InTimeOrder
  <2> QED
    BY <1>1, <1>5, <1>6, <2>3
<1>7. CASE n # 0
  <2>1. n - 1 \in Nat /\ n - 1 \notin B
    <3> HIDE DEF B, right
    <3> QED
      BY <1>4, <1>5, <1>7
  <2> DEFINE k == lo - 1 + n
  <2>2. k \in lo .. hi /\ k \in Times /\ lo - 1 + (n - 1) = k - 1
    BY <1>1, <1>5, <1>7
  <2>3. right(k - 1)
    <3>1. n - 1 <= hi - lo + 1
      BY <1>1, <1>5
    <3>2. right(lo - 1 + (n - 1))
      <4> HIDE DEF right
      <4> QED
        BY <2>1, <3>1
    <3> HIDE DEF right
    <3> QED
      BY <2>2, <3>2
  <2>4. g[k] = Joined(g[k - 1], index_by_time[k])
    <3> HIDE DEF k
    <3> QED
      BY <1>1, <1>2, <2>2
  <2>5. index_by_time[k] \in Seq(TxIds) /\ Lists(index_by_time[k], At(k))
    BY <2>2 DEF Inv, TypeOK, IndexInv
  <2>6. \A i \in Filed : Timestamp(i) \in Int
    <3>1. \A i \in Stored : transactions[i].timestamp \in Times
      BY TypeInv DEF Records
    <3> QED
      BY <1>1, <3>1 DEF Filed, Timestamp, Times
  <2>7. within(k) = within(k - 1) \cup At(k) /\ within(k - 1) \cap At(k) = {}
    <3>1. \A m \in Int : m \in lo .. k <=> m \in lo .. k - 1 \/ m = k
      BY <1>1, <2>2
    <3>2. k \notin lo .. k - 1
      BY <1>1, <2>2
    <3> HIDE DEF k
    <3> QED
      BY <2>6, <3>1, <3>2 DEF At
  <2>8. InTimeOrder(g[k])
    <3>1. \A i \in within(k - 1) : \A j \in At(k) : Timestamp(i) <= Timestamp(j)
      <4>1. \A m \in lo .. k - 1 : m <= k
        BY <1>1, <2>2
      <4> HIDE DEF k
      <4> QED
        BY <4>1 DEF At
    <3>2. InTimeOrder(index_by_time[k])
      <4>1. \A i \in 1 .. Len(index_by_time[k]) : Timestamp(index_by_time[k][i]) = k
        BY <2>5 DEF Lists, Range, At
      <4>2. k \in Int
        BY <1>1, <2>2
      <4> HIDE DEF k
      <4> QED
        BY <4>1, <4>2 DEF InTimeOrder
    <3> HIDE DEF k, within
    <3> QED
      BY <2>3, <2>4, <2>5, <3>1, <3>2, ConcatInOrder DEF Lists
  <2>9. right(k)
    <3> HIDE DEF k, within
    <3> QED
      BY <2>3, <2>4, <2>5, <2>7, <2>8, ConcatLists DEF Joined
  <2> QED
    BY <1>5, <2>9
<1> QED
  BY <1>6, <1>7

\* Whoever finds nobody writing finds every record filed.
LEMMA AllFiled ==
    ASSUME Inv, CanShare(record_mtx)
    PROVE  Filed = Stored
BY OneWriter DEF Filed

\* While nobody writes, each index lists exactly the records it should, each once,
\* and queryByTime finds exactly those of its range, for any number of writers and
\* any behaviour of the clock.
THEOREM IndexesAlwaysAgree == Spec => []IndexesAgree
<1>1. Inv /\ IndexInv => IndexesAgree
  <2> SUFFICES ASSUME Inv, IndexInv, CanShare(record_mtx)
               PROVE  IndexesAgree
    BY DEF IndexesAgree
  <2>1. Filed = Stored
    BY AllFiled
  <2>2. \A a \in AccountIds :
          /\ IsInjective(history_by_src[a])
          /\ Range(history_by_src[a]) = {i \in Stored : transactions[i].src_id = a}
          /\ IsInjective(history_by_dest[a])
          /\ Range(history_by_dest[a]) = {i \in Stored : transactions[i].dest_id = a}
    BY <2>1 DEF IndexInv, Lists, From, To
  <2>3. ASSUME NEW from \in Times, NEW until \in from .. MaxTime
        PROVE  /\ IsInjective(QueryByTime(from, until))
               /\ Range(QueryByTime(from, until)) =
                    {i \in Stored : Timestamp(i) \in from .. until}
    BY <2>1, TimeFinds DEF Lists
  <2> QED
    BY <2>2, <2>3, Zenon DEF IndexesAgree
<1> QED
  BY InvInvariant, IndexInvariant, <1>1, PTL

-----------------------------------------------------------------------------
(***************************************************************************)
(* The order of histories.  A call that found its accounts has them locked *)
(* from before it takes its timestamp and its id until its record is       *)
(* filed, so no record of these accounts comes in between but those of     *)
(* calls that missed an account.                                           *)
(***************************************************************************)
\* The call of t is on its way to a record that says it found its accounts.
Knows(t) ==
    /\ pc[t] \in {"stamp", "id", "record", "store", "index"}
    /\ reply[t].status # "FAILED_ACCOUNT_NOT_FOUND"

WritersInv == \A t \in Threads : Knows(t) => Passed(call[t])

\* The records filed under an account of the call that were made with it locked.
Earlier(t) ==
    {i \in Filed : Locked(i) /\ {transactions[i].src_id, transactions[i].dest_id}
                                   \cap Ends(call[t]) # {}}

IdOrderInv ==
    \A t \in Threads : Knows(t) /\ pc[t] \in {"record", "store", "index"} =>
      \A i \in Earlier(t) : i < tx_id[t]

Stamped(t) == pc[t] \in {"id", "record", "store", "index"}

ClockInv ==
    /\ \A i \in Stored : Timestamp(i) <= now
    /\ \A t \in Threads : Stamped(t) => stamp[t] <= now
    /\ \A t \in Threads : Stamped(t) /\ Knows(t) =>
         \A i \in Earlier(t) : Timestamp(i) <= stamp[t]

OrderInv ==
    /\ WritersInv /\ IdOrderInv
    /\ ClockInv \/ ClockMaySetBack
    /\ LockedHistoryInOrder

LEMMA WritersStep ==
    ASSUME Inv, WritersInv, [Next]_vars
    PROVE  WritersInv'
<1> SUFFICES ASSUME NEW u \in Threads, Knows(u)'
             PROVE  Passed(call[u])'
  BY DEF WritersInv
<1>1. CASE UNCHANGED vars
  BY <1>1, PassedKept DEF vars, shared, Knows, WritersInv
<1>2. ASSUME NEW t \in Threads, Invoke(t) \/ Step(t), t # u
      PROVE  Passed(call[u])'
  BY <1>2, OthersStay, PassedKept DEF Knows, WritersInv
<1>3. CASE Invoke(u)
  BY <1>3, Begins, TypeInv, Zenon DEF Invoke, Knows
<1>4. CASE Step(u)
  <2>1. call'[u] = call[u]
    BY <1>4, TypeInv DEF Step, LockBank, Check, LockAccount, TryOther, BackOff, Decide, Apply,
       CreditDest, Stamp, TakeId, LockRecords, StoreRecord, IndexRecord, LockForQuery, Read,
       OwnBank, OpenAccount, Return, shared
  <2>2. Knows(u) \/ pc[u] \in {"decide", "apply", "credit"} \/ Check(u)
    BY <1>4, TypeInv DEF Step, LockBank, Check, LockAccount, AfterFirstLock, TryOther,
       BackOff, Decide, Apply, CreditDest, Stamp, TakeId, LockRecords, StoreRecord,
       IndexRecord, LockForQuery, Read, OwnBank, OpenAccount, Return, GoTo, Knows
  <2>3. ~Check(u)
    <3>1. SUFFICES ASSUME Check(u)
                   PROVE  FALSE
      OBVIOUS
    <3>2. reply'[u] = EarlyReply(call[u]) /\ pc'[u] \in {"lock", "stamp", "return"}
      BY <3>1, TypeInv DEF Check, GoTo, Respond, Inv, TypeOK
    <3>3. Recorded(call[u], EarlyReply(call[u])) /\ EarlyReply(call[u]) # NoReply
      BY <3>1, <3>2, TypeInv DEF Check, GoTo, Knows
    <3>4. EarlyReply(call[u]).status = "FAILED_ACCOUNT_NOT_FOUND"
      BY <3>3 DEF EarlyReply, Recorded, Reply, Value, NoReply
    <3> QED
      BY <3>2, <3>4 DEF Knows
  <2>4. Passed(call[u])
    BY <2>2, <2>3 DEF WritersInv, Inv, CallInv, PassedInv
  <2> QED
    BY <2>1, <2>4, PassedKept
<1> QED
  BY <1>1, <1>2, <1>3, <1>4 DEF Next, Done

\* The accounts of a call on its way to such a record are locked by it alone.
LEMMA WritersExclude ==
    ASSUME Inv, WritersInv, NEW t \in Threads, NEW u \in Threads, t # u, Knows(t), Knows(u)
    PROVE  Ends(call[t]) \cap Ends(call[u]) = {}
<1>1. Inside(t) /\ Inside(u)
  BY DEF Inside, Knows, WritersInv, Inv, CallInv, PlaceInv, OpPlaces, Places
<1> QED
  BY <1>1 DEF Inv, LockInv, AccountLockInv

\* No step files a record of the accounts of a call on its way to its own.
LEMMA EarlierFrame ==
    ASSUME Inv, EveryIdAccountedFor, IndexInv, WritersInv, NEW t \in Threads,
           Invoke(t) \/ Step(t), NEW u \in Threads, Knows(u)'
    PROVE  /\ Earlier(u)' = Earlier(u)
           /\ \A i \in Earlier(u) : Timestamp(i)' = Timestamp(i)
<1>1. call'[u] = call[u]
  <2>1. CASE Invoke(t) /\ t = u
    BY <2>1, Begins, TypeInv, Zenon DEF Knows
  <2>2. CASE Step(t)
    BY <2>2, TypeInv DEF Step, LockBank, Check, LockAccount, TryOther, BackOff, Decide, Apply,
       CreditDest, Stamp, TakeId, LockRecords, StoreRecord, IndexRecord, LockForQuery, Read,
       OwnBank, OpenAccount, Return, shared
  <2> QED
    BY <2>1, <2>2, OthersStay
<1>2. Ends(call'[u]) = Ends(call[u])
  BY <1>1
<1>3. CASE ~IndexRecord(t)
  <2>1. Filed' = Filed /\ \A i \in Filed : transactions'[i] = transactions[i]
    BY <1>3, FiledFrame, LedgerFrame, StoreStep DEF ledger
  <2> QED
    BY <1>2, <2>1 DEF Earlier, Locked, Timestamp
<1>4. CASE IndexRecord(t)
  <2>1. /\ Filed' = Filed \cup {tx_id[t]} /\ transactions' = transactions
        /\ transactions[tx_id[t]] = RecordOf(t)
        /\ pc[t] = "index" /\ pc'[t] = "return"
    BY <1>4, IndexStep, TypeInv
  <2>2. u # t /\ Knows(u)
    BY <2>1, OthersStay DEF Knows
  <2>3. Locked(tx_id[t]) => {RecordOf(t).src_id, RecordOf(t).dest_id} \cap Ends(call[u]) = {}
    <3>1. SUFFICES ASSUME Locked(tx_id[t])
                   PROVE  {RecordOf(t).src_id, RecordOf(t).dest_id} \cap Ends(call[u]) = {}
      OBVIOUS
    <3>2. Knows(t)
      BY <2>1, <3>1 DEF Knows, Locked, RecordOf
    <3>3. {RecordOf(t).src_id, RecordOf(t).dest_id} \subseteq Ends(call[t]) \cup {0}
      BY DEF RecordOf, Ends
    <3>4. Ends(call[u]) \subseteq AccountIds
      BY <2>2 DEF WritersInv, Passed, Inv, TypeOK, AccountsOK
    <3>5. 0 \notin Ends(call[u])
      BY <3>4, LedgerConstants
    <3> QED
      BY <2>2, <3>2, <3>3, <3>5, WritersExclude
  <2> QED
    BY <1>2, <2>1, <2>3 DEF Earlier, Locked, Timestamp
<1> QED
  BY <1>3, <1>4

LEMMA IdOrderStep ==
    ASSUME Inv, EveryIdAccountedFor, IndexInv, WritersInv, IdOrderInv, [Next]_vars
    PROVE  IdOrderInv'
<1>1. CASE UNCHANGED vars
  BY <1>1 DEF vars, shared, ledger, IdOrderInv, Knows, Earlier, Filed, Stored, Locked
<1>2. ASSUME NEW t \in Threads, Invoke(t) \/ Step(t)
      PROVE  IdOrderInv'
  <2> SUFFICES ASSUME NEW u \in Threads, Knows(u)', pc'[u] \in {"record", "store", "index"},
                      NEW i \in Earlier(u)'
               PROVE  i < tx_id'[u]
    BY DEF IdOrderInv
  <2>1. i \in Earlier(u) /\ i \in Stored
    BY <1>2, EarlierFrame DEF Earlier, Filed
  <2>2. CASE u = t /\ pc'[t] = "record"
    <3>1. tx_id'[t] = next_tx_id
      BY <1>2, <2>2, WritingFrame, TypeInv DEF TakeId, FreshId
    <3>2. i \in 1 .. next_tx_id - 1 /\ next_tx_id \in Nat
      BY <2>1 DEF EveryIdAccountedFor, Inv, TypeOK, TxIds
    <3> QED
      BY <2>2, <3>1, <3>2
  <2>3. CASE u = t /\ pc'[t] # "record"
    <3>1. LockRecords(t) \/ StoreRecord(t)
      BY <1>2, <2>3, WritingFrame
    <3>2. /\ tx_id'[t] = tx_id[t] /\ reply'[t] = reply[t]
          /\ pc[t] \in {"record", "store"}
      BY <3>1 DEF LockRecords, StoreRecord, shared
    <3> QED
      BY <2>1, <2>3, <3>2 DEF Knows, IdOrderInv
  <2>4. CASE u # t
    BY <1>2, <2>1, <2>4, OthersStay, OthersLocals DEF Knows, IdOrderInv
  <2> QED
    BY <2>2, <2>3, <2>4
<1> QED
  BY <1>1, <1>2 DEF Next, Done

\* A clock that is never set back only moves forward.
LEMMA ClockForward ==
    ASSUME Inv, ~ClockMaySetBack, NEW t \in Threads, Invoke(t) \/ Step(t)
    PROVE  /\ now <= now' /\ now \in Nat /\ now' \in Nat
           /\ Stamp(t) => stamp'[t] = now'
           /\ ~Stamp(t) => now' = now /\ stamp'[t] = stamp[t]
<1>1. now \in Nat
  BY LedgerConstants DEF Inv, TypeOK, Times
<1>2. CASE Stamp(t)
  <2>1. PICK d \in ClockSteps : now' = now + d /\ now + d \in Times /\ stamp' = [stamp EXCEPT ![t] = now + d]
    BY <1>2 DEF Stamp
  <2>2. d \in Int /\ ~(d < 0)
    BY LedgerConstants DEF ClockMaySetBack
  <2> QED
    BY <1>1, <1>2, <2>1, <2>2, TypeInv
<1>3. CASE ~Stamp(t)
  BY <1>1, <1>3 DEF Invoke, Step, LockBank, Check, LockAccount, TryOther, BackOff, Decide,
     Apply, CreditDest, TakeId, LockRecords, StoreRecord, IndexRecord, LockForQuery, Read,
     OwnBank, OpenAccount, Return, shared
<1> QED
  BY <1>2, <1>3

\* Records are stored under timestamps the clock has shown.
LEMMA StoredBefore ==
    ASSUME Inv, EveryIdAccountedFor, IndexInv, ClockInv, ~ClockMaySetBack,
           NEW t \in Threads, Invoke(t) \/ Step(t), NEW i \in Stored'
    PROVE  Timestamp(i)' <= now'
<1>1. \A j \in Stored : Timestamp(j) \in Nat /\ Timestamp(j) <= now
  <2>1. \A j \in Stored : transactions[j].timestamp \in Times
    BY TypeInv DEF Records
  <2> QED
    BY <2>1, LedgerConstants DEF ClockInv, Timestamp, Times
<1>2. now <= now' /\ now \in Nat /\ now' \in Nat
  BY ClockForward
<1>3. CASE ~StoreRecord(t)
  <2>1. Stored' = Stored /\ transactions' = transactions
    BY <1>3, LedgerFrame, FiledFrame, IndexStep DEF ledger
  <2> QED
    BY <1>1, <1>2, <2>1 DEF Timestamp
<1>4. CASE StoreRecord(t)
  <2>1. /\ Stored' = Stored \cup {tx_id[t]} /\ transactions'[tx_id[t]].timestamp = stamp[t]
        /\ \A j \in Stored : transactions'[j] = transactions[j]
        /\ stamp[t] \in Times /\ stamp[t] <= now
    BY <1>4, StoreStep, StoredRecord, TypeInv DEF ClockInv, Stamped
  <2> QED
    BY <1>1, <1>2, <2>1, LedgerConstants DEF Timestamp, Times
<1> QED
  BY <1>3, <1>4

LEMMA ClockStep ==
    ASSUME Inv, EveryIdAccountedFor, IndexInv, WritersInv, ClockInv, ~ClockMaySetBack, [Next]_vars
    PROVE  ClockInv'
<1>1. CASE UNCHANGED vars
  BY <1>1 DEF vars, shared, ledger, ClockInv, Stamped, Knows, Earlier, Filed, Stored, Locked,
     Timestamp
<1>2. ASSUME NEW t \in Threads, Invoke(t) \/ Step(t)
      PROVE  ClockInv'
  <2>1. /\ now <= now' /\ now \in Nat /\ now' \in Nat
        /\ Stamp(t) => stamp'[t] = now'
        /\ ~Stamp(t) => stamp'[t] = stamp[t]
    BY <1>2, ClockForward
  <2>2. \A i \in Stored' : Timestamp(i)' <= now'
    BY <1>2, StoredBefore
  <2>3. ASSUME NEW u \in Threads, Stamped(u)', ~(u = t /\ Stamp(t))
        PROVE  Stamped(u) /\ stamp'[u] = stamp[u] /\ (Knows(u)' => Knows(u))
    <3>1. CASE u # t
      BY <1>2, <2>3, <3>1, OthersStay, OthersLocals DEF Stamped, Knows
    <3>2. CASE u = t
      <4>1. TakeId(t) \/ LockRecords(t) \/ StoreRecord(t)
        BY <1>2, <2>3, <3>2, WritingFrame DEF Stamped
      <4>2. pc[t] \in {"id", "record", "store"} /\ reply' = reply
        BY <4>1 DEF TakeId, LockRecords, StoreRecord, shared
      <4> QED
        BY <2>1, <2>3, <3>2, <4>2 DEF Stamped, Knows
    <3> QED
      BY <3>1, <3>2
  <2>4. ASSUME NEW u \in Threads, Stamped(u)'
        PROVE  stamp'[u] <= now'
    <3>1. stamp[u] \in Nat
      BY TypeInv, LedgerConstants DEF Times
    <3> QED
      BY <2>1, <2>3, <2>4, <3>1 DEF ClockInv
  <2>5. ASSUME NEW u \in Threads, Stamped(u)', Knows(u)', NEW i \in Earlier(u)'
        PROVE  Timestamp(i)' <= stamp'[u]
    <3>1. i \in Earlier(u) /\ Timestamp(i)' = Timestamp(i)
      BY <1>2, <2>5, EarlierFrame
    <3>2. CASE u = t /\ Stamp(t)
      <4>1. i \in Stored'
        BY <2>5 DEF Earlier, Filed
      <4> QED
        BY <2>1, <2>2, <3>2, <4>1
    <3>3. CASE ~(u = t /\ Stamp(t))
      BY <2>3, <2>5, <3>1, <3>3 DEF ClockInv
    <3> QED
      BY <3>2, <3>3
  <2> QED
    BY <2>2, <2>4, <2>5 DEF ClockInv
<1> QED
  BY <1>1, <1>2 DEF Next, Done

\* A record joins the end of the history of an account.
LEMMA HistoryGrows ==
    ASSUME Inv, EveryIdAccountedFor, IndexInv, WritersInv, IdOrderInv,
           ClockInv \/ ClockMaySetBack,
           NEW t \in Threads, IndexRecord(t), NEW history \in Seq(TxIds),
           Range(history) \subseteq Filed,
           \A i \in Range(history) : Locked(i) /\ Locked(tx_id[t]) => i \in Earlier(t),
           NEW i \in 1 .. Len(history), Locked(history[i]), Locked(tx_id[t])
    PROVE  /\ history[i] < tx_id[t]
           /\ Timestamp(history[i]) <= Timestamp(tx_id[t]) \/ ClockMaySetBack
<1>1. pc[t] = "index" /\ transactions[tx_id[t]] = RecordOf(t)
  BY IndexStep
<1>2. Knows(t) /\ Stamped(t)
  BY <1>1 DEF Locked, RecordOf, Knows, Stamped
<1>3. history[i] \in Range(history)
  BY DEF Range
<1>4. history[i] \in Earlier(t)
  BY <1>3
<1>5. Timestamp(tx_id[t]) = stamp[t]
  BY <1>1 DEF Timestamp, RecordOf
<1> QED
  BY <1>1, <1>2, <1>4, <1>5 DEF IdOrderInv, ClockInv

\* What LockedHistoryInOrder says of one history.
InOrder(history) ==
    \A i, j \in 1 .. Len(history) :
      i < j /\ Locked(history[i]) /\ Locked(history[j]) =>
        /\ history[i] < history[j]
        /\ Timestamp(history[i]) <= Timestamp(history[j]) \/ ClockMaySetBack

LEMMA OrderOfAppended ==
    ASSUME NEW history \in Seq(TxIds), InOrder(history), NEW id \in TxIds,
           \A i \in 1 .. Len(history) : Locked(history[i]) /\ Locked(id) =>
              /\ history[i] < id
              /\ Timestamp(history[i]) <= Timestamp(id) \/ ClockMaySetBack
    PROVE  InOrder(Append(history, id))
<1> DEFINE longer == Append(history, id)
<1>1. /\ Len(longer) = Len(history) + 1 /\ longer[Len(history) + 1] = id
      /\ Len(history) \in Nat
      /\ \A i \in 1 .. Len(history) : longer[i] = history[i]
  OBVIOUS
<1> HIDE DEF longer
<1>2. ASSUME NEW i \in 1 .. Len(longer), NEW j \in 1 .. Len(longer), i < j,
             Locked(longer[i]), Locked(longer[j])
      PROVE  /\ longer[i] < longer[j]
             /\ Timestamp(longer[i]) <= Timestamp(longer[j]) \/ ClockMaySetBack
  <2>1. i \in 1 .. Len(history) /\ longer[i] = history[i]
    BY <1>1, <1>2
  <2>2. CASE j = Len(history) + 1
    BY <1>1, <1>2, <2>1, <2>2
  <2>3. CASE j # Len(history) + 1
    <3>1. j \in 1 .. Len(history) /\ longer[j] = history[j]
      BY <1>1, <1>2, <2>3
    <3> QED
      BY <1>2, <2>1, <3>1 DEF InOrder
  <2> QED
    BY <2>2, <2>3
<1>3. InOrder(longer)
  BY <1>2 DEF InOrder
<1> QED
  BY <1>3 DEF longer

LEMMA HistoryStep ==
    ASSUME Inv, EveryIdAccountedFor, IndexInv, OrderInv, [Next]_vars
    PROVE  LockedHistoryInOrder'
<1> SUFFICES ASSUME NEW a \in AccountIds
             PROVE  InOrder(history_by_src[a])' /\ InOrder(history_by_dest[a])'
  BY DEF LockedHistoryInOrder, InOrder
<1>1. /\ history_by_src[a] \in Seq(TxIds) /\ history_by_dest[a] \in Seq(TxIds)
      /\ InOrder(history_by_src[a]) /\ InOrder(history_by_dest[a])
  BY DEF Inv, TypeOK, OrderInv, LockedHistoryInOrder, InOrder
<1>2. /\ Range(history_by_src[a]) = From(a) /\ Range(history_by_dest[a]) = To(a)
      /\ \A i \in 1 .. Len(history_by_src[a]) : history_by_src[a][i] \in From(a)
      /\ \A i \in 1 .. Len(history_by_dest[a]) : history_by_dest[a][i] \in To(a)
  <2>1. Range(history_by_src[a]) = From(a) /\ Range(history_by_dest[a]) = To(a)
    BY DEF IndexInv, Lists
  <2> QED
    BY <1>1, <2>1 DEF Range
<1>3. ASSUME UNCHANGED <<history_by_src, history_by_dest>>,
             \A i \in Stored : transactions'[i] = transactions[i]
      PROVE  InOrder(history_by_src[a])' /\ InOrder(history_by_dest[a])'
  <2>1. \A i \in From(a) \cup To(a) : transactions'[i] = transactions[i]
    BY <1>3 DEF From, To, Filed
  <2>2. /\ \A i \in 1 .. Len(history_by_src[a]) :
             /\ Locked(history_by_src[a][i])' <=> Locked(history_by_src[a][i])
             /\ Timestamp(history_by_src[a][i])' = Timestamp(history_by_src[a][i])
        /\ \A i \in 1 .. Len(history_by_dest[a]) :
             /\ Locked(history_by_dest[a][i])' <=> Locked(history_by_dest[a][i])
             /\ Timestamp(history_by_dest[a][i])' = Timestamp(history_by_dest[a][i])
    BY <1>2, <1>3, <2>1 DEF Locked, Timestamp
  <2>3. InOrder(history_by_src[a])'
    BY <1>1, <1>3, <2>2 DEF InOrder
  <2>4. InOrder(history_by_dest[a])'
    BY <1>1, <1>3, <2>2 DEF InOrder
  <2> QED
    BY <2>3, <2>4
<1>4. ASSUME NEW t \in Threads, IndexRecord(t)
      PROVE  InOrder(history_by_src[a])' /\ InOrder(history_by_dest[a])'
  <2>1. /\ tx_id[t] \in TxIds /\ transactions[tx_id[t]] = RecordOf(t)
        /\ UNCHANGED transactions /\ pc[t] = "index"
    BY <1>4, IndexStep, TypeInv
  <2>2. RecordOf(t).src_id = a \/ RecordOf(t).dest_id = a => a \in Ends(call[t])
    BY LedgerConstants DEF RecordOf, Ends
  <2>3. a \in Ends(call[t]) => \A i \in From(a) \cup To(a) : Locked(i) => i \in Earlier(t)
    BY DEF From, To, Earlier
  <2>4. RecordOf(t).src_id = a => InOrder(Append(history_by_src[a], tx_id[t]))
    <3>1. SUFFICES ASSUME RecordOf(t).src_id = a
                   PROVE  InOrder(Append(history_by_src[a], tx_id[t]))
      OBVIOUS
    <3>2. /\ From(a) \subseteq Filed
          /\ \A i \in From(a) : Locked(i) /\ Locked(tx_id[t]) => i \in Earlier(t)
      BY <2>2, <2>3, <3>1 DEF From
    <3>3. \A i \in 1 .. Len(history_by_src[a]) :
            Locked(history_by_src[a][i]) /\ Locked(tx_id[t]) =>
              /\ history_by_src[a][i] < tx_id[t]
              /\ Timestamp(history_by_src[a][i]) <= Timestamp(tx_id[t]) \/ ClockMaySetBack
      BY <1>1, <1>2, <1>4, <3>2, HistoryGrows DEF OrderInv
    <3> QED
      BY <1>1, <2>1, <3>3, OrderOfAppended
  <2>5. RecordOf(t).dest_id = a => InOrder(Append(history_by_dest[a], tx_id[t]))
    <3>1. SUFFICES ASSUME RecordOf(t).dest_id = a
                   PROVE  InOrder(Append(history_by_dest[a], tx_id[t]))
      OBVIOUS
    <3>2. /\ To(a) \subseteq Filed
          /\ \A i \in To(a) : Locked(i) /\ Locked(tx_id[t]) => i \in Earlier(t)
      BY <2>2, <2>3, <3>1 DEF To
    <3>3. \A i \in 1 .. Len(history_by_dest[a]) :
            Locked(history_by_dest[a][i]) /\ Locked(tx_id[t]) =>
              /\ history_by_dest[a][i] < tx_id[t]
              /\ Timestamp(history_by_dest[a][i]) <= Timestamp(tx_id[t]) \/ ClockMaySetBack
      BY <1>1, <1>2, <1>4, <3>2, HistoryGrows DEF OrderInv
    <3> QED
      BY <1>1, <2>1, <3>3, OrderOfAppended
  <2>6. /\ InOrder(history_by_src'[a]) => InOrder(history_by_src[a])'
        /\ InOrder(history_by_dest'[a]) => InOrder(history_by_dest[a])'
    BY <2>1 DEF InOrder, Locked, Timestamp
  <2> QED
    BY <1>1, <1>4, <2>4, <2>5, <2>6, AppendToLists
<1>5. CASE UNCHANGED vars
  BY <1>3, <1>5 DEF vars, ledger
<1>6. ASSUME NEW t \in Threads, Invoke(t) \/ Step(t), ~IndexRecord(t)
      PROVE  InOrder(history_by_src[a])' /\ InOrder(history_by_dest[a])'
  BY <1>3, <1>6, LedgerFrame, StoreStep DEF ledger
<1> QED
  BY <1>4, <1>5, <1>6 DEF Next, Done

LEMMA OrderInvariant == Spec => []OrderInv
<1>1. Init => OrderInv
  BY LedgerConstants DEF Init, LedgerInit, OrderInv, WritersInv, IdOrderInv, ClockInv, Knows, Stamped,
     Stored, LockedHistoryInOrder
<1>2. Inv /\ EveryIdAccountedFor /\ IndexInv /\ OrderInv /\ [Next]_vars => OrderInv'
  <2> SUFFICES ASSUME Inv, EveryIdAccountedFor, IndexInv, OrderInv, [Next]_vars
               PROVE  OrderInv'
    OBVIOUS
  <2>1. WritersInv' /\ IdOrderInv' /\ LockedHistoryInOrder'
    BY WritersStep, IdOrderStep, HistoryStep DEF OrderInv
  <2>2. ClockInv' \/ ClockMaySetBack
    BY ClockStep DEF OrderInv
  <2>3. ClockMaySetBack' = ClockMaySetBack
    BY DEF ClockMaySetBack
  <2> QED
    BY <2>1, <2>2, <2>3 DEF OrderInv
<1> QED
  BY InvInvariant, IdsAccountedFor, IndexInvariant, <1>1, <1>2, PTL DEF Spec

\* Under an account's lock records are filed in the order of their ids, and of
\* their timestamps too as long as the clock is not set back, however many calls
\* race between taking the id and taking record_mtx.
THEOREM HistoriesInOrder == Spec => []LockedHistoryInOrder
<1>1. OrderInv => LockedHistoryInOrder
  BY DEF OrderInv
<1> QED
  BY OrderInvariant, <1>1, PTL

-----------------------------------------------------------------------------
(***************************************************************************)
(* The recent feed: the ids of the newest records, in the order in which   *)
(* they were stored.                                                       *)
(***************************************************************************)
Dropped(feed) == IF Len(feed) < recent_capacity THEN 0 ELSE 1

\* The new id comes last, behind what the feed held but for its oldest entry.
LEMMA PushBackShifts ==
    ASSUME NEW feed \in Seq(TxIds), Len(feed) <= recent_capacity, NEW id \in TxIds
    PROVE  LET pushed == PushBack(feed, id)
               k == Dropped(feed)
           IN  /\ k \in {0, 1} /\ Len(pushed) = Len(feed) + 1 - k
               /\ Len(pushed) \in Nat \ {0} /\ Len(pushed) <= recent_capacity
               /\ pushed[Len(pushed)] = id
               /\ \A p \in 1 .. Len(pushed) - 1 : pushed[p] = feed[p + k]
               /\ pushed \in Seq(TxIds)
<1>1. recent_capacity \in Nat \ {0}
  BY LedgerConstants
<1>2. CASE Len(feed) < recent_capacity
  <2>1. Dropped(feed) = 0 /\ PushBack(feed, id) = Append(feed, id)
    BY <1>2 DEF Dropped, PushBack
  <2> QED
    BY <1>1, <1>2, <2>1
<1>3. CASE ~(Len(feed) < recent_capacity)
  <2>1. Dropped(feed) = 1 /\ PushBack(feed, id) = Append(Tail(feed), id)
    BY <1>3 DEF Dropped, PushBack
  <2>2. Len(feed) = recent_capacity /\ feed # << >>
    BY <1>1, <1>3
  <2>3. /\ Tail(feed) \in Seq(TxIds) /\ Len(Tail(feed)) = Len(feed) - 1
        /\ \A p \in 1 .. Len(feed) - 1 : Tail(feed)[p] = feed[p + 1]
    BY <2>2
  <2> QED
    BY <1>1, <2>1, <2>2, <2>3
<1> QED
  BY <1>2, <1>3

\* Behind every record of the history that the feed keeps come all later ones.
KeepsUp(history) ==
    \A i, j \in 1 .. Len(history) : \A p \in 1 .. Len(recent_feed) :
      i < j /\ recent_feed[p] = history[i] =>
        \E q \in p + 1 .. Len(recent_feed) : recent_feed[q] = history[j]

FeedInv ==
    /\ Len(recent_feed) = Smaller(Cardinality(Stored), recent_capacity)
    /\ IsInjective(recent_feed) /\ Range(recent_feed) \subseteq Stored
    /\ Len(recent_feed) < recent_capacity => Range(recent_feed) = Stored
    /\ \A t \in Threads : pc[t] = "index" =>
         Len(recent_feed) # 0 /\ recent_feed[Len(recent_feed)] = tx_id[t]
    /\ \A a \in AccountIds : KeepsUp(history_by_src[a]) /\ KeepsUp(history_by_dest[a])

LEMMA StoredFinite ==
    ASSUME Inv, EveryIdAccountedFor
    PROVE  IsFiniteSet(Stored) /\ Cardinality(Stored) \in Nat
<1>1. next_tx_id - 1 \in Int /\ Stored \subseteq 1 .. next_tx_id - 1
  BY DEF EveryIdAccountedFor, Inv, TypeOK, TxIds
<1>2. IsFiniteSet(1 .. next_tx_id - 1)
  BY <1>1, FS_Interval
<1> QED
  BY <1>1, <1>2, FS_Subset, FS_CardinalityType

LEMMA FeedStoreStep ==
    ASSUME Inv, EveryIdAccountedFor, IndexInv, FeedInv, NEW t \in Threads, StoreRecord(t)
    PROVE  FeedInv'
<1> DEFINE id == tx_id[t]
           feed == recent_feed
           pushed == PushBack(feed, id)
           k == Dropped(feed)
<1>1. /\ id \notin Stored /\ id \in TxIds /\ Stored' = Stored \cup {id}
      /\ recent_feed' = pushed
      /\ UNCHANGED <<history_by_src, history_by_dest, tx_id>>
      /\ Filed = Stored /\ pc[t] = "store" /\ pc' = [pc EXCEPT ![t] = "index"]
  BY StoreStep
<1>2. /\ feed \in Seq(TxIds) /\ Len(feed) <= recent_capacity /\ Len(feed) \in Nat
      /\ recent_capacity \in Nat \ {0} /\ DOMAIN feed = 1 .. Len(feed)
  BY LedgerConstants DEF Inv, TypeOK
<1>3. /\ k \in {0, 1} /\ Len(pushed) = Len(feed) + 1 - k /\ Len(pushed) \in Nat \ {0}
      /\ pushed[Len(pushed)] = id /\ pushed \in Seq(TxIds)
      /\ \A p \in 1 .. Len(pushed) - 1 : pushed[p] = feed[p + k]
      /\ DOMAIN pushed = 1 .. Len(pushed)
  <2>1. /\ k \in {0, 1} /\ Len(pushed) = Len(feed) + 1 - k /\ Len(pushed) \in Nat \ {0}
        /\ pushed[Len(pushed)] = id /\ pushed \in Seq(TxIds)
        /\ \A p \in 1 .. Len(pushed) - 1 : pushed[p] = feed[p + k]
    BY <1>1, <1>2, PushBackShifts, Zenon
  <2> HIDE DEF pushed, k
  <2> QED
    BY <2>1
<1>4. k = IF Len(feed) < recent_capacity THEN 0 ELSE 1
  BY DEF Dropped
<1> HIDE DEF pushed, k
<1>5. /\ \A p \in 1 .. Len(pushed) - 1 : p + k \in 1 .. Len(feed) /\ pushed[p] = feed[p + k]
      /\ \A p \in 1 .. Len(feed) : p - k >= 1 =>
           p - k \in 1 .. Len(pushed) - 1 /\ pushed[p - k] = feed[p]
      /\ \A p \in 1 .. Len(pushed) : p \in 1 .. Len(pushed) - 1 \/ p = Len(pushed)
  BY <1>2, <1>3
<1>6. \A p \in 1 .. Len(feed) : feed[p] \in Stored /\ feed[p] # id
  BY <1>1, <1>2 DEF FeedInv, Range
<1>7. Len(pushed) = Smaller(Cardinality(Stored'), recent_capacity)
  <2>1. Cardinality(Stored') = Cardinality(Stored) + 1 /\ Cardinality(Stored) \in Nat
    BY <1>1, StoredFinite, FS_AddElement
  <2>2. Len(feed) = Smaller(Cardinality(Stored), recent_capacity)
    BY DEF FeedInv
  <2> QED
    BY <1>2, <1>3, <1>4, <2>1, <2>2 DEF Smaller
<1>8. IsInjective(pushed)
  <2>1. ASSUME NEW p \in DOMAIN pushed, NEW q \in DOMAIN pushed, pushed[p] = pushed[q]
        PROVE  p = q
    <3>1. CASE p # Len(pushed) /\ q # Len(pushed)
      <4>1. p + k \in DOMAIN feed /\ q + k \in DOMAIN feed /\ feed[p + k] = feed[q + k]
        BY <1>2, <1>3, <1>5, <2>1, <3>1
      <4>2. p + k = q + k
        BY <4>1 DEF FeedInv, IsInjective
      <4> QED
        BY <1>3, <4>2
    <3>2. CASE p = Len(pushed) \/ q = Len(pushed)
      BY <1>3, <1>5, <1>6, <2>1, <3>2
    <3> QED
      BY <3>1, <3>2
  <2> QED
    BY <2>1 DEF IsInjective
<1>9. Range(pushed) \subseteq Stored \cup {id}
  BY <1>3, <1>5, <1>6 DEF Range
<1>10. Len(pushed) < recent_capacity => Range(pushed) = Stored \cup {id}
  <2> SUFFICES ASSUME Len(pushed) < recent_capacity
               PROVE  Stored \cup {id} \subseteq Range(pushed)
    BY <1>9
  <2>1. k = 0 /\ Len(feed) < recent_capacity
    BY <1>2, <1>3, <1>4
  <2>2. ASSUME NEW x \in Stored
        PROVE  x \in Range(pushed)
    <3>1. PICK p \in 1 .. Len(feed) : feed[p] = x
      BY <1>2, <2>1 DEF FeedInv, Range
    <3> QED
      BY <1>3, <1>5, <2>1, <3>1 DEF Range
  <2>3. id \in Range(pushed)
    BY <1>3 DEF Range
  <2> QED
    BY <2>2, <2>3
<1>11. ASSUME NEW history \in Seq(TxIds), Range(history) \subseteq Stored, KeepsUp(history)
       PROVE  \A i, j \in 1 .. Len(history) : \A p \in 1 .. Len(pushed) :
                i < j /\ pushed[p] = history[i] =>
                  \E q \in p + 1 .. Len(pushed) : pushed[q] = history[j]
  <2> SUFFICES ASSUME NEW i \in 1 .. Len(history), NEW j \in 1 .. Len(history),
                      NEW p \in 1 .. Len(pushed), i < j, pushed[p] = history[i]
               PROVE  \E q \in p + 1 .. Len(pushed) : pushed[q] = history[j]
    OBVIOUS
  <2>1. history[i] \in Range(history)
    BY DEF Range
  <2>2. p \in 1 .. Len(pushed) - 1
    BY <1>1, <1>3, <1>5, <1>11, <2>1
  <2>3. p + k \in 1 .. Len(feed) /\ feed[p + k] = history[i]
    BY <1>5, <1>11, <2>2
  <2>4. PICK q \in p + k + 1 .. Len(feed) : feed[q] = history[j]
    BY <1>11, <2>3 DEF KeepsUp
  <2>5. q \in 1 .. Len(feed) /\ q - k \in p + 1 .. Len(pushed)
    BY <1>2, <1>3, <2>4
  <2>6. pushed[q - k] = history[j]
    BY <1>3, <1>5, <2>4, <2>5
  <2> QED
    BY <2>5, <2>6
<1>12. ASSUME NEW a \in AccountIds
       PROVE  KeepsUp(history_by_src[a])' /\ KeepsUp(history_by_dest[a])'
  <2>1. /\ history_by_src[a] \in Seq(TxIds) /\ Range(history_by_src[a]) \subseteq Stored
        /\ history_by_dest[a] \in Seq(TxIds) /\ Range(history_by_dest[a]) \subseteq Stored
        /\ KeepsUp(history_by_src[a]) /\ KeepsUp(history_by_dest[a])
    BY <1>1 DEF Inv, TypeOK, IndexInv, Lists, From, To, FeedInv
  <2>2. KeepsUp(history_by_src[a])'
    <3>1. \A i, j \in 1 .. Len(history_by_src[a]) : \A p \in 1 .. Len(pushed) :
            i < j /\ pushed[p] = history_by_src[a][i] =>
              \E q \in p + 1 .. Len(pushed) : pushed[q] = history_by_src[a][j]
      BY <1>11, <2>1
    <3>2. history_by_src[a]' = history_by_src[a] /\ recent_feed' = pushed
      BY <1>1
    <3> QED
      BY <3>1, <3>2 DEF KeepsUp
  <2>3. KeepsUp(history_by_dest[a])'
    <3>1. \A i, j \in 1 .. Len(history_by_dest[a]) : \A p \in 1 .. Len(pushed) :
            i < j /\ pushed[p] = history_by_dest[a][i] =>
              \E q \in p + 1 .. Len(pushed) : pushed[q] = history_by_dest[a][j]
      BY <1>11, <2>1
    <3>2. history_by_dest[a]' = history_by_dest[a] /\ recent_feed' = pushed
      BY <1>1
    <3> QED
      BY <3>1, <3>2 DEF KeepsUp
  <2> QED
    BY <2>2, <2>3
<1>13. \A u \in Threads : pc'[u] = "index" => u = t
  BY <1>1, OneWriter, TypeInv
<1> QED
  BY <1>1, <1>3, <1>7, <1>8, <1>9, <1>10, <1>12, <1>13 DEF FeedInv

LEMMA FeedIndexStep ==
    ASSUME Inv, EveryIdAccountedFor, IndexInv, FeedInv, NEW t \in Threads, IndexRecord(t)
    PROVE  FeedInv'
<1> DEFINE id == tx_id[t]
<1>1. /\ UNCHANGED <<recent_feed, Stored, tx_id>> /\ pc[t] = "index" /\ id \in TxIds
      /\ \A u \in Threads : pc'[u] # "index"
      /\ id \notin Filed
  BY IndexStep, TypeInv
<1>2. /\ Len(recent_feed) \in Nat /\ Len(recent_feed) # 0
      /\ recent_feed[Len(recent_feed)] = id
  BY <1>1 DEF Inv, TypeOK, FeedInv
<1>3. ASSUME NEW history \in Seq(TxIds), Range(history) \subseteq Filed, KeepsUp(history)
      PROVE  KeepsUp(Append(history, id))
  <2> DEFINE longer == Append(history, id)
  <2>1. /\ Len(longer) = Len(history) + 1 /\ longer[Len(history) + 1] = id
        /\ Len(history) \in Nat
        /\ \A i \in 1 .. Len(history) : longer[i] = history[i]
    BY <1>1
  <2> HIDE DEF longer
  <2>2. ASSUME NEW i \in 1 .. Len(longer), NEW j \in 1 .. Len(longer),
               NEW p \in 1 .. Len(recent_feed), i < j, recent_feed[p] = longer[i]
        PROVE  \E q \in p + 1 .. Len(recent_feed) : recent_feed[q] = longer[j]
    <3>1. i \in 1 .. Len(history) /\ longer[i] = history[i] /\ history[i] \in Range(history)
      BY <2>1, <2>2 DEF Range
    <3>2. CASE j = Len(history) + 1
      <4>1. p # Len(recent_feed)
        BY <1>1, <1>2, <1>3, <2>2, <3>1
      <4>2. Len(recent_feed) \in p + 1 .. Len(recent_feed)
        BY <1>2, <4>1
      <4> QED
        BY <1>2, <2>1, <3>2, <4>2
    <3>3. CASE j # Len(history) + 1
      <4>1. j \in 1 .. Len(history) /\ longer[j] = history[j]
        BY <2>1, <3>3
      <4> QED
        BY <1>3, <2>2, <3>1, <4>1 DEF KeepsUp
    <3> QED
      BY <3>2, <3>3
  <2>3. KeepsUp(longer)
    BY <2>2 DEF KeepsUp
  <2> QED
    BY <2>3 DEF longer
<1>4. ASSUME NEW a \in AccountIds
      PROVE  KeepsUp(history_by_src[a])' /\ KeepsUp(history_by_dest[a])'
  <2>1. /\ history_by_src[a] \in Seq(TxIds) /\ Range(history_by_src[a]) \subseteq Filed
        /\ history_by_dest[a] \in Seq(TxIds) /\ Range(history_by_dest[a]) \subseteq Filed
        /\ KeepsUp(history_by_src[a]) /\ KeepsUp(history_by_dest[a])
    BY DEF Inv, TypeOK, IndexInv, Lists, From, To, FeedInv
  <2>2. KeepsUp(history_by_src'[a]) /\ KeepsUp(history_by_dest'[a])
    BY <1>3, <2>1, AppendToLists
  <2> QED
    BY <1>1, <2>2 DEF KeepsUp
<1> QED
  BY <1>1, <1>4 DEF FeedInv

LEMMA FeedInvariant == Spec => []FeedInv
<1>1. Init => FeedInv
  <2> SUFFICES ASSUME Init
               PROVE  FeedInv
    OBVIOUS
  <2>1. /\ Stored = {} /\ recent_feed = << >> /\ \A t \in Threads : pc[t] # "index"
        /\ \A a \in AccountIds : history_by_src[a] = << >> /\ history_by_dest[a] = << >>
    BY DEF Init, LedgerInit, Stored
  <2>2. Cardinality(Stored) = 0
    BY <2>1, FS_EmptySet
  <2> QED
    BY <2>1, <2>2, LedgerConstants DEF FeedInv, Smaller, IsInjective, Range, KeepsUp
<1>2. Inv /\ EveryIdAccountedFor /\ IndexInv /\ FeedInv /\ [Next]_vars => FeedInv'
  <2> SUFFICES ASSUME Inv, EveryIdAccountedFor, IndexInv, FeedInv, [Next]_vars
               PROVE  FeedInv'
    OBVIOUS
  <2>1. CASE UNCHANGED vars
    BY <2>1 DEF vars, ledger, FeedInv, KeepsUp, Stored
  <2>2. ASSUME NEW t \in Threads, Invoke(t) \/ Step(t), ~StoreRecord(t), ~IndexRecord(t)
        PROVE  FeedInv'
    <3>1. UNCHANGED <<ledger, Stored>>
      BY <2>2, LedgerFrame, FiledFrame
    <3>2. \A u \in Threads : pc'[u] = "index" => pc[u] = "index" /\ tx_id'[u] = tx_id[u]
      BY <2>2, WritingFrame, OthersStay, OthersLocals
    <3> QED
      BY <3>1, <3>2 DEF ledger, FeedInv, KeepsUp
  <2> QED
    BY <2>1, <2>2, FeedStoreStep, FeedIndexStep DEF Next, Done
<1> QED
  BY InvInvariant, IdsAccountedFor, IndexInvariant, <1>1, <1>2, PTL DEF Spec

\* The feed is as long as it may be, holds no record twice, and never keeps a
\* record of an account without every later one of that account behind it.
THEOREM FeedStaysRecent == Spec => []FeedIsRecent
<1>1. FeedInv => FeedIsRecent
  <2> SUFFICES ASSUME FeedInv, NEW a \in AccountIds,
                      NEW history \in {history_by_src[a], history_by_dest[a]}
               PROVE  KeepsUp(history)
    BY Zenon DEF FeedInv, FeedIsRecent, KeepsUp
  <2> QED
    BY DEF FeedInv
<1> QED
  BY FeedInvariant, <1>1, PTL

-----------------------------------------------------------------------------
(***************************************************************************)
(* The merge of queryByAccount: how the index into the sending side grows  *)
(* with the number of records pushed.                                      *)
(***************************************************************************)
NextIndex(left, right, i, n) ==
    IF SrcIsNext(left, right, i, n - 1 - i) THEN i + 1 ELSE i

GrowsAs(s, left, right, top) ==
    s = [n \in 0 .. top |-> IF n = 0 THEN 0 ELSE NextIndex(left, right, s[n - 1], n)]

LEMMA GrowthExists ==
    ASSUME NEW left, NEW right, NEW top \in Nat
    PROVE  \E s : GrowsAs(s, left, right, top)
<1> DEFINE B == {m \in Nat : ~ \E s : GrowsAs(s, left, right, m)}
<1>1. SUFFICES ASSUME B # {}
               PROVE  FALSE
  OBVIOUS
<1>2. PICK m \in B : \A k \in B : m <= k
  <2>1. B \in SUBSET Nat
    OBVIOUS
  <2> HIDE DEF B
  <2> QED
    BY <1>1, <2>1, SmallestNumber
<1>3. m \in Nat /\ ~ \E s : GrowsAs(s, left, right, m)
  OBVIOUS
<1>4. CASE m = 0
  <2> DEFINE s == [n \in 0 .. 0 |-> 0]
  <2>1. GrowsAs(s, left, right, 0)
    BY DEF GrowsAs
  <2> QED
    BY <1>3, <1>4, <2>1
<1>5. CASE m # 0
  <2>1. m - 1 \in Nat /\ m - 1 \notin B
    BY <1>2, <1>3, <1>5
  <2>2. PICK s : GrowsAs(s, left, right, m - 1)
    BY <2>1
  <2> DEFINE r == [n \in 0 .. m |-> IF n = m THEN NextIndex(left, right, s[n - 1], n) ELSE s[n]]
  <2>3. \A n \in 0 .. m - 1 : r[n] = IF n = 0 THEN 0 ELSE NextIndex(left, right, r[n - 1], n)
    BY <1>3, <2>1, <2>2 DEF GrowsAs
  <2>4. r[m] = NextIndex(left, right, r[m - 1], m)
    BY <1>3, <2>1
  <2>5. \A n \in 0 .. m : n \in 0 .. m - 1 \/ n = m
    BY <1>3, <2>1
  <2>6. r = [n \in 0 .. m |-> r[n]]
    OBVIOUS
  <2> HIDE DEF r
  <2>7. GrowsAs(r, left, right, m)
    BY <1>5, <2>3, <2>4, <2>5, <2>6 DEF GrowsAs
  <2> QED
    BY <1>3, <2>7
<1> QED
  BY <1>4, <1>5

\* One side or the other comes next, never past its end.
LEMMA IndexGrows ==
    ASSUME NEW left \in Seq(TxIds), NEW right \in Seq(TxIds)
    PROVE  LET s == SrcIndex(left, right)
               size == Len(left) + Len(right)
           IN  /\ s[0] = 0
               /\ \A n \in 1 .. size : s[n] = NextIndex(left, right, s[n - 1], n)
               /\ \A n \in 0 .. size :
                    s[n] \in 0 .. n /\ s[n] <= Len(left) /\ n - s[n] <= Len(right)
<1> DEFINE s == SrcIndex(left, right)
           size == Len(left) + Len(right)
           Bounded(n) == s[n] \in 0 .. n /\ s[n] <= Len(left) /\ n - s[n] <= Len(right)
<1>1. size \in Nat /\ Len(left) \in Nat /\ Len(right) \in Nat
  OBVIOUS
<1>2. GrowsAs(s, left, right, size)
  <2>1. s = CHOOSE g : GrowsAs(g, left, right, size)
    BY DEF SrcIndex, GrowsAs, NextIndex
  <2>2. \E g : GrowsAs(g, left, right, size)
    BY <1>1, GrowthExists
  <2> QED
    BY <2>1, <2>2
<1> HIDE DEF s
<1>3. s[0] = 0 /\ \A n \in 1 .. size : s[n] = NextIndex(left, right, s[n - 1], n)
  BY <1>1, <1>2 DEF GrowsAs
<1> DEFINE B == {n \in Nat : n <= size /\ ~Bounded(n)}
<1>4. B = {}
  <2>1. SUFFICES ASSUME B # {}
                 PROVE  FALSE
    OBVIOUS
  <2>2. PICK n \in B : \A m \in B : n <= m
    <3>1. B \in SUBSET Nat
      OBVIOUS
    <3> HIDE DEF B
    <3> QED
      BY <2>1, <3>1, SmallestNumber
  <2>3. n \in Nat /\ n <= size /\ ~Bounded(n)
    OBVIOUS
  <2>4. n # 0
    BY <1>1, <1>3, <2>3
  <2>5. n - 1 \in Nat /\ n - 1 \notin B
    BY <2>2, <2>3, <2>4
  <2>6. Bounded(n - 1)
    BY <1>1, <2>3, <2>5
  <2>7. s[n] = NextIndex(left, right, s[n - 1], n)
    BY <1>1, <1>3, <2>3, <2>4
  <2> QED
    BY <1>1, <2>3, <2>4, <2>6, <2>7 DEF NextIndex, SrcIsNext
<1>5. \A n \in 0 .. size : Bounded(n)
  BY <1>1, <1>4
<1> QED
  BY <1>3, <1>5 DEF s

\* A number that grows by one at a time passes every value on its way, and is
\* at a later value later.
LEMMA PassesEach ==
    ASSUME NEW size \in Nat, NEW f \in [0 .. size -> Nat], f[0] = 0,
           \A n \in 1 .. size : f[n] = f[n - 1] \/ f[n] = f[n - 1] + 1,
           NEW x \in 1 .. f[size]
    PROVE  \E n \in 1 .. size :
             /\ f[n] = x /\ f[n - 1] = x - 1
             /\ \A m \in 0 .. size : f[m] >= x => n <= m
<1> DEFINE B == {m \in 0 .. size : f[m] >= x}
<1>1. size \in B /\ B \in SUBSET Nat
  OBVIOUS
<1>2. PICK n \in B : \A m \in B : n <= m
  <2> HIDE DEF B
  <2> QED
    BY <1>1, SmallestNumber
<1>3. n \in 1 .. size /\ n - 1 \in 0 .. size /\ n - 1 \notin B
  BY <1>2
<1>4. f[n] \in Nat /\ f[n - 1] \in Nat /\ f[n] >= x /\ ~(f[n - 1] >= x)
  BY <1>3
<1>5. f[n] = x /\ f[n - 1] = x - 1
  <2>1. x \in Int /\ (f[n] = f[n - 1] \/ f[n] = f[n - 1] + 1)
    BY <1>3
  <2> QED
    BY <1>4, <2>1
<1>6. \A m \in 0 .. size : f[m] >= x => n <= m
  BY <1>2
<1> QED
  BY <1>3, <1>5, <1>6

\* Where the records of the two sides stand in the merge.
Placed(left, right, s, merged) ==
    LET size == Len(left) + Len(right)
    IN  /\ merged \in Seq(TxIds) /\ Len(merged) = size
        /\ \A n \in 1 .. size :
             \/ /\ s[n] = s[n - 1] + 1 /\ s[n] \in 1 .. Len(left)
                /\ merged[n] = left[s[n]]
             \/ /\ s[n] = s[n - 1] /\ n - s[n] \in 1 .. Len(right)
                /\ merged[n] = right[n - s[n]]
        /\ \A i \in 1 .. Len(left) : \E p \in 1 .. size :
             /\ s[p] = i /\ merged[p] = left[i]
             /\ \A m \in 0 .. size : s[m] >= i => p <= m
        /\ \A i \in 1 .. Len(right) : \E p \in 1 .. size :
             /\ p - s[p] = i /\ merged[p] = right[i]
             /\ \A m \in 0 .. size : m - s[m] >= i => p <= m

LEMMA MergePlaces ==
    ASSUME NEW left \in Seq(TxIds), NEW right \in Seq(TxIds)
    PROVE  Placed(left, right, SrcIndex(left, right), Merge(left, right))
<1> DEFINE merged == Merge(left, right)
           s == SrcIndex(left, right)
           size == Len(left) + Len(right)
<1>1. size \in Nat /\ Len(left) \in Nat /\ Len(right) \in Nat
  OBVIOUS
<1>2. /\ s[0] = 0
      /\ \A n \in 1 .. size : s[n] = NextIndex(left, right, s[n - 1], n)
      /\ \A n \in 0 .. size : s[n] \in 0 .. n /\ s[n] <= Len(left) /\ n - s[n] <= Len(right)
  BY IndexGrows, Zenon
<1>3. merged = [n \in 1 .. size |-> IF s[n] # s[n - 1] THEN left[s[n]] ELSE right[n - s[n]]]
  BY Zenon DEF Merge, Picked
<1> HIDE DEF s, merged
<1>4. /\ \A n \in 0 .. size : s[n] \in Nat /\ s[n] <= Len(left) /\ n - s[n] \in 0 .. Len(right)
      /\ \A n \in 1 .. size : n - 1 \in 0 .. size /\ n \in 0 .. size
  BY <1>1, <1>2
<1>5. \A n \in 1 .. size : s[n] = s[n - 1] \/ s[n] = s[n - 1] + 1
  BY <1>2 DEF NextIndex
<1>6. ASSUME NEW n \in 1 .. size
      PROVE  /\ \/ /\ s[n] = s[n - 1] + 1 /\ s[n] \in 1 .. Len(left)
                   /\ merged[n] = left[s[n]]
                \/ /\ s[n] = s[n - 1] /\ n - s[n] \in 1 .. Len(right)
                   /\ merged[n] = right[n - s[n]]
             /\ merged[n] \in TxIds
  <2>1. /\ s[n] \in Nat /\ s[n - 1] \in Nat /\ s[n] <= Len(left)
        /\ n - s[n] \in 0 .. Len(right) /\ (n - 1) - s[n - 1] \in 0 .. Len(right)
    BY <1>4
  <2>2. CASE s[n] = s[n - 1] + 1
    BY <1>1, <1>3, <2>1, <2>2
  <2>3. CASE s[n] = s[n - 1]
    BY <1>1, <1>3, <2>1, <2>3
  <2> QED
    BY <1>5, <2>2, <2>3
<1>7. merged \in Seq(TxIds) /\ Len(merged) = size
  <2>1. merged \in [1 .. size -> TxIds]
    BY <1>3, <1>6
  <2> QED
    BY <1>1, <2>1
<1>8. s[size] = Len(left) /\ size - s[size] = Len(right)
  <2>1. s[size] \in Nat /\ s[size] <= Len(left) /\ size - s[size] <= Len(right)
    BY <1>1, <1>4
  <2> QED
    BY <1>1, <2>1
<1>9. ASSUME NEW i \in 1 .. Len(left)
      PROVE  \E p \in 1 .. size : /\ s[p] = i /\ merged[p] = left[i]
                                  /\ \A m \in 0 .. size : s[m] >= i => p <= m
  <2> DEFINE f == [n \in 0 .. size |-> s[n]]
  <2>1. /\ f \in [0 .. size -> Nat] /\ f[0] = 0 /\ f[size] = Len(left)
        /\ \A n \in 0 .. size : f[n] = s[n]
        /\ \A n \in 1 .. size : f[n] = f[n - 1] \/ f[n] = f[n - 1] + 1
    BY <1>1, <1>2, <1>4, <1>5, <1>8
  <2> HIDE DEF f
  <2>2. PICK p \in 1 .. size : /\ f[p] = i /\ f[p - 1] = i - 1
                               /\ \A m \in 0 .. size : f[m] >= i => p <= m
    BY <1>1, <2>1, PassesEach
  <2>3. s[p] = i /\ s[p - 1] = i - 1 /\ \A m \in 0 .. size : s[m] >= i => p <= m
    BY <1>4, <2>1, <2>2
  <2> QED
    BY <1>6, <2>3
<1>10. ASSUME NEW i \in 1 .. Len(right)
       PROVE  \E p \in 1 .. size : /\ p - s[p] = i /\ merged[p] = right[i]
                                   /\ \A m \in 0 .. size : m - s[m] >= i => p <= m
  <2> DEFINE f == [n \in 0 .. size |-> n - s[n]]
  <2>1. /\ \A n \in 0 .. size : f[n] = n - s[n] /\ f[n] \in Nat
        /\ f \in [0 .. size -> Nat] /\ f[0] = 0 /\ f[size] = Len(right)
    BY <1>1, <1>2, <1>4, <1>8
  <2>2. ASSUME NEW n \in 1 .. size
        PROVE  f[n] = f[n - 1] \/ f[n] = f[n - 1] + 1
    <3>1. f[n] = n - s[n] /\ f[n - 1] = (n - 1) - s[n - 1]
      BY <1>4, <2>1
    <3>2. s[n] \in Nat /\ s[n - 1] \in Nat /\ (s[n] = s[n - 1] \/ s[n] = s[n - 1] + 1)
      BY <1>4, <1>5
    <3> HIDE DEF f
    <3> QED
      BY <3>1, <3>2
  <2> HIDE DEF f
  <2>3. PICK p \in 1 .. size : /\ f[p] = i /\ f[p - 1] = i - 1
                               /\ \A m \in 0 .. size : f[m] >= i => p <= m
    BY <1>1, <2>1, <2>2, PassesEach
  <2>4. p - s[p] = i /\ (p - 1) - s[p - 1] = i - 1 /\ \A m \in 0 .. size : m - s[m] >= i => p <= m
    BY <1>4, <2>1, <2>3
  <2>5. s[p] \in Nat /\ s[p - 1] \in Nat
    BY <1>4
  <2>6. s[p] # s[p - 1] + 1
    BY <2>4, <2>5
  <2>7. merged[p] = right[p - s[p]]
    BY <1>6, <2>6
  <2> QED
    BY <2>4, <2>7
<1> QED
  BY <1>6, <1>7, <1>9, <1>10, Zenon DEF Placed, s, merged

LEMMA MergeKeeps ==
    ASSUME NEW left \in Seq(TxIds), NEW right \in Seq(TxIds)
    PROVE  LET merged == Merge(left, right)
           IN  /\ Range(merged) = Range(left) \cup Range(right)
               /\ \A i, j \in 1 .. Len(left) : i < j =>
                    \E p, q \in 1 .. Len(merged) :
                      p < q /\ merged[p] = left[i] /\ merged[q] = left[j]
               /\ \A i, j \in 1 .. Len(right) : i < j =>
                    \E p, q \in 1 .. Len(merged) :
                      p < q /\ merged[p] = right[i] /\ merged[q] = right[j]
<1> DEFINE merged == Merge(left, right)
           s == SrcIndex(left, right)
           size == Len(left) + Len(right)
<1>0. Placed(left, right, s, merged)
  BY MergePlaces
<1> HIDE DEF merged, s
<1>1. /\ merged \in Seq(TxIds) /\ Len(merged) = size
      /\ \A n \in 1 .. size :
           \/ s[n] \in 1 .. Len(left) /\ merged[n] = left[s[n]]
           \/ n - s[n] \in 1 .. Len(right) /\ merged[n] = right[n - s[n]]
      /\ \A i \in 1 .. Len(left) : \E p \in 1 .. size :
           /\ s[p] = i /\ merged[p] = left[i]
           /\ \A m \in 0 .. size : s[m] >= i => p <= m
      /\ \A i \in 1 .. Len(right) : \E p \in 1 .. size :
           /\ p - s[p] = i /\ merged[p] = right[i]
           /\ \A m \in 0 .. size : m - s[m] >= i => p <= m
  BY <1>0 DEF Placed
<1>2. size \in Nat /\ Len(left) \in Nat /\ Len(right) \in Nat
  OBVIOUS
<1>3. DOMAIN merged = 1 .. size /\ DOMAIN left = 1 .. Len(left) /\ DOMAIN right = 1 .. Len(right)
  BY <1>1
<1>4. Range(merged) = Range(left) \cup Range(right)
  <2>1. ASSUME NEW n \in 1 .. size
        PROVE  merged[n] \in Range(left) \cup Range(right)
    BY <1>1, <1>3 DEF Range
  <2>2. ASSUME NEW i \in 1 .. Len(left)
        PROVE  left[i] \in Range(merged)
    BY <1>1, <1>3 DEF Range
  <2>3. ASSUME NEW i \in 1 .. Len(right)
        PROVE  right[i] \in Range(merged)
    BY <1>1, <1>3 DEF Range
  <2> QED
    BY <1>3, <2>1, <2>2, <2>3 DEF Range
<1>5. ASSUME NEW i \in 1 .. Len(left), NEW j \in 1 .. Len(left), i < j
      PROVE  \E p, q \in 1 .. Len(merged) :
               p < q /\ merged[p] = left[i] /\ merged[q] = left[j]
  <2>1. PICK p \in 1 .. size : /\ s[p] = i /\ merged[p] = left[i]
                               /\ \A m \in 0 .. size : s[m] >= i => p <= m
    BY <1>1
  <2>2. PICK q \in 1 .. size : s[q] = j /\ merged[q] = left[j]
    BY <1>1
  <2>3. q \in 0 .. size /\ s[q] >= i /\ p # q
    BY <1>2, <1>5, <2>1, <2>2
  <2>4. p < q
    BY <1>2, <2>1, <2>3
  <2> QED
    BY <1>1, <2>1, <2>2, <2>4
<1>6. ASSUME NEW i \in 1 .. Len(right), NEW j \in 1 .. Len(right), i < j
      PROVE  \E p, q \in 1 .. Len(merged) :
               p < q /\ merged[p] = right[i] /\ merged[q] = right[j]
  <2>1. PICK p \in 1 .. size : /\ p - s[p] = i /\ merged[p] = right[i]
                               /\ \A m \in 0 .. size : m - s[m] >= i => p <= m
    BY <1>1
  <2>2. PICK q \in 1 .. size : q - s[q] = j /\ merged[q] = right[j]
    BY <1>1
  <2>3. q \in 0 .. size /\ q - s[q] >= i /\ p # q
    BY <1>2, <1>6, <2>1, <2>2
  <2>4. p < q
    BY <1>2, <2>1, <2>3
  <2> QED
    BY <1>1, <2>1, <2>2, <2>4
<1> QED
  BY <1>4, <1>5, <1>6 DEF merged

LEMMA MergeRange ==
    ASSUME NEW left \in Seq(TxIds), NEW right \in Seq(TxIds)
    PROVE  /\ Merge(left, right) \in Seq(TxIds)
           /\ Range(Merge(left, right)) = Range(left) \cup Range(right)
<1>1. Merge(left, right) \in Seq(TxIds)
  BY MergePlaces, Zenon DEF Placed
<1>2. Range(Merge(left, right)) = Range(left) \cup Range(right)
  BY MergeKeeps, Zenon
<1> QED
  BY <1>1, <1>2

\* The turn of one side or the other.
Turn(left, right, n, i, j) ==
    LET merged == Merge(left, right)
        s == SrcIndex(left, right)
    IN  /\ s[n - 1] = i /\ i + j = n - 1
        /\ \/ /\ SrcIsNext(left, right, i, j)
              /\ s[n] = i + 1 /\ i + 1 \in 1 .. Len(left)
              /\ merged[n] = left[i + 1]
           \/ /\ ~SrcIsNext(left, right, i, j)
              /\ s[n] = i /\ j + 1 \in 1 .. Len(right)
              /\ merged[n] = right[j + 1]

LEMMA MergeTurn ==
    ASSUME NEW left \in Seq(TxIds), NEW right \in Seq(TxIds),
           NEW n \in 1 .. Len(left) + Len(right)
    PROVE  \E i, j \in Nat : Turn(left, right, n, i, j)
<1> DEFINE merged == Merge(left, right)
           s == SrcIndex(left, right)
           size == Len(left) + Len(right)
<1>1. Placed(left, right, s, merged)
  BY MergePlaces
<1>2. /\ s[n] = NextIndex(left, right, s[n - 1], n)
      /\ \A m \in 0 .. size : s[m] \in 0 .. m
  BY IndexGrows, Zenon
<1> SUFFICES \E i, j \in Nat :
      /\ s[n - 1] = i /\ i + j = n - 1
      /\ \/ /\ SrcIsNext(left, right, i, j)
            /\ s[n] = i + 1 /\ i + 1 \in 1 .. Len(left)
            /\ merged[n] = left[i + 1]
         \/ /\ ~SrcIsNext(left, right, i, j)
            /\ s[n] = i /\ j + 1 \in 1 .. Len(right)
            /\ merged[n] = right[j + 1]
  BY Zenon DEF Turn
<1> HIDE DEF s, merged
<1>3. \/ /\ s[n] = s[n - 1] + 1 /\ s[n] \in 1 .. Len(left)
         /\ merged[n] = left[s[n]]
      \/ /\ s[n] = s[n - 1] /\ n - s[n] \in 1 .. Len(right)
         /\ merged[n] = right[n - s[n]]
  BY <1>1 DEF Placed
<1>4. n - 1 \in 0 .. size /\ n \in Nat /\ size \in Nat
  OBVIOUS
<1>5. s[n - 1] \in 0 .. n - 1
  BY <1>2, <1>4
<1>6. PICK i \in Nat, j \in Nat : s[n - 1] = i /\ j = n - 1 - i
  BY <1>4, <1>5
<1>7. i + j = n - 1 /\ n - i = j + 1
  BY <1>4, <1>6
<1>8. CASE SrcIsNext(left, right, i, j)
  <2>1. s[n] = i + 1
    BY <1>2, <1>6, <1>8 DEF NextIndex
  <2>2. s[n] # s[n - 1]
    BY <1>6, <2>1
  <2> QED
    BY <1>3, <1>6, <1>7, <1>8, <2>1, <2>2
<1>9. CASE ~SrcIsNext(left, right, i, j)
  <2>1. s[n] = i
    BY <1>2, <1>6, <1>9 DEF NextIndex
  <2>2. s[n] # s[n - 1] + 1
    BY <1>6, <2>1
  <2> QED
    BY <1>3, <1>6, <1>7, <1>9, <2>1, <2>2
<1> QED
  BY <1>8, <1>9

\* Two neighbours in the merge are in time order when both sides are.
LEMMA NeighboursInOrder ==
    ASSUME NEW left \in Seq(TxIds), NEW right \in Seq(TxIds),
           InTimeOrder(left), InTimeOrder(right),
           \A i \in 1 .. Len(left) : Timestamp(left[i]) \in Int,
           \A i \in 1 .. Len(right) : Timestamp(right[i]) \in Int,
           NEW n \in 1 .. Len(left) + Len(right) - 1
    PROVE  Timestamp(Merge(left, right)[n]) <= Timestamp(Merge(left, right)[n + 1])
<1> DEFINE merged == Merge(left, right)
           s == SrcIndex(left, right)
<1>1. /\ n \in 1 .. Len(left) + Len(right) /\ n + 1 \in 1 .. Len(left) + Len(right)
      /\ (n + 1) - 1 = n /\ n \in Nat /\ Len(left) \in Nat /\ Len(right) \in Nat
  OBVIOUS
<1>2. PICK i, j \in Nat : Turn(left, right, n, i, j)
  BY <1>1, MergeTurn, Zenon
<1>3. PICK k, l \in Nat : Turn(left, right, n + 1, k, l)
  BY <1>1, MergeTurn, Zenon
<1>4. /\ i + j = n - 1
      /\ \/ /\ SrcIsNext(left, right, i, j)
            /\ s[n] = i + 1 /\ i + 1 \in 1 .. Len(left)
            /\ merged[n] = left[i + 1]
         \/ /\ ~SrcIsNext(left, right, i, j)
            /\ s[n] = i /\ j + 1 \in 1 .. Len(right)
            /\ merged[n] = right[j + 1]
  BY <1>2, Zenon DEF Turn
<1>5. /\ s[n] = k /\ k + l = n
      /\ \/ k + 1 \in 1 .. Len(left) /\ merged[n + 1] = left[k + 1]
         \/ l + 1 \in 1 .. Len(right) /\ merged[n + 1] = right[l + 1]
  <2>1. /\ s[(n + 1) - 1] = k /\ k + l = (n + 1) - 1
        /\ \/ k + 1 \in 1 .. Len(left) /\ merged[n + 1] = left[k + 1]
           \/ l + 1 \in 1 .. Len(right) /\ merged[n + 1] = right[l + 1]
    BY <1>3, Zenon DEF Turn
  <2> HIDE DEF s, merged
  <2> QED
    BY <1>1, <2>1
<1> SUFFICES Timestamp(merged[n]) <= Timestamp(merged[n + 1])
  OBVIOUS
<1> HIDE DEF s, merged
<1>6. CASE /\ SrcIsNext(left, right, i, j) /\ s[n] = i + 1 /\ i + 1 \in 1 .. Len(left)
           /\ merged[n] = left[i + 1]
  <2>1. k = i + 1 /\ l = j
    BY <1>1, <1>4, <1>5, <1>6
  <2>2. CASE k + 1 \in 1 .. Len(left) /\ merged[n + 1] = left[k + 1]
    <3>1. i + 1 < k + 1
      BY <2>1
    <3> QED
      BY <1>6, <2>2, <3>1 DEF InTimeOrder
  <2>3. CASE l + 1 \in 1 .. Len(right) /\ merged[n + 1] = right[l + 1]
    <3>1. j < Len(right)
      BY <1>1, <2>1, <2>3
    <3>2. Timestamp(left[i + 1]) <= Timestamp(right[j + 1])
      BY <1>6, <3>1, Zenon DEF SrcIsNext
    <3> QED
      BY <1>6, <2>1, <2>3, <3>2
  <2> QED
    BY <1>5, <2>2, <2>3
<1>7. CASE /\ ~SrcIsNext(left, right, i, j) /\ s[n] = i /\ j + 1 \in 1 .. Len(right)
           /\ merged[n] = right[j + 1]
  <2>1. k = i /\ l = j + 1
    BY <1>1, <1>4, <1>5, <1>7
  <2>2. CASE k + 1 \in 1 .. Len(left) /\ merged[n + 1] = left[k + 1]
    <3>1. i < Len(left)
      BY <1>1, <2>1, <2>2
    <3>2. ~(Timestamp(left[i + 1]) <= Timestamp(right[j + 1]))
      BY <1>7, <3>1, Zenon DEF SrcIsNext
    <3>3. Timestamp(left[i + 1]) \in Int /\ Timestamp(right[j + 1]) \in Int
      BY <1>7, <2>1, <2>2
    <3> QED
      BY <1>7, <2>1, <2>2, <3>2, <3>3
  <2>3. CASE l + 1 \in 1 .. Len(right) /\ merged[n + 1] = right[l + 1]
    <3>1. j + 1 < l + 1
      BY <2>1
    <3> QED
      BY <1>7, <2>3, <3>1 DEF InTimeOrder
  <2> QED
    BY <1>5, <2>2, <2>3
<1> QED
  BY <1>4, <1>6, <1>7

LEMMA MergeSorts ==
    ASSUME NEW left \in Seq(TxIds), NEW right \in Seq(TxIds),
           InTimeOrder(left), InTimeOrder(right),
           \A i \in 1 .. Len(left) : Timestamp(left[i]) \in Int,
           \A i \in 1 .. Len(right) : Timestamp(right[i]) \in Int
    PROVE  InTimeOrder(Merge(left, right))
<1> DEFINE merged == Merge(left, right)
           size == Len(left) + Len(right)
<1>1. Len(merged) = size /\ size \in Nat
  <2>1. Placed(left, right, SrcIndex(left, right), merged)
    BY MergePlaces
  <2> HIDE DEF merged
  <2> QED
    BY <2>1 DEF Placed
<1>2. \A n \in 1 .. size - 1 : Timestamp(merged[n]) <= Timestamp(merged[n + 1])
  BY NeighboursInOrder
<1>3. \A n \in 1 .. size : Timestamp(merged[n]) \in Int
  <2>1. Placed(left, right, SrcIndex(left, right), merged)
    BY MergePlaces
  <2> HIDE DEF merged
  <2> QED
    BY <2>1 DEF Placed
<1> SUFFICES ASSUME NEW p \in 1 .. Len(merged), NEW r \in 1 .. Len(merged), p < r
             PROVE  Timestamp(merged[p]) <= Timestamp(merged[r])
  BY DEF InTimeOrder
<1> HIDE DEF merged
<1> DEFINE B == {q \in Nat : q <= size /\ p < q /\ ~(Timestamp(merged[p]) <= Timestamp(merged[q]))}
<1>4. B = {}
  <2>1. SUFFICES ASSUME B # {}
                 PROVE  FALSE
    OBVIOUS
  <2>2. PICK q \in B : \A m \in B : q <= m
    <3>1. B \in SUBSET Nat
      OBVIOUS
    <3> HIDE DEF B
    <3> QED
      BY <2>1, <3>1, SmallestNumber
  <2>3. q \in Nat /\ q <= size /\ p < q /\ ~(Timestamp(merged[p]) <= Timestamp(merged[q]))
    OBVIOUS
  <2>4. PICK k \in Nat : q = k + 1
    BY <1>1, <2>3
  <2>5. k \in 1 .. size - 1 /\ k \in 1 .. size /\ q \in 1 .. size /\ p \in 1 .. size
    BY <1>1, <2>3, <2>4
  <2>6. Timestamp(merged[k]) <= Timestamp(merged[q])
    BY <1>2, <2>4, <2>5
  <2>7. CASE k = p
    BY <2>3, <2>6, <2>7
  <2>8. CASE k # p
    <3>1. k \notin B
      <4>1. ~(q <= k)
        BY <2>4
      <4> HIDE DEF B
      <4> QED
        BY <2>2, <4>1
    <3>2. p < k /\ k <= size
      BY <1>1, <2>3, <2>4, <2>5, <2>8
    <3>3. Timestamp(merged[p]) <= Timestamp(merged[k])
      BY <3>1, <3>2
    <3>4. /\ Timestamp(merged[p]) \in Int /\ Timestamp(merged[k]) \in Int
          /\ Timestamp(merged[q]) \in Int
      BY <1>3, <2>5
    <3> QED
      BY <2>3, <2>6, <3>3, <3>4
  <2> QED
    BY <2>7, <2>8
<1>5. r \in Nat /\ r <= size
  <2> HIDE DEF B, size
  <2> QED
    BY <1>1
<1>6. r \notin B
  <2> HIDE DEF B
  <2> QED
    BY <1>4, Zenon
<1> QED
  BY <1>5, <1>6

\* queryByAccount lists each record once per side it names the account on, keeps
\* the order of both histories whatever the clock has done, and is in time order
\* where they are.
THEOREM MergesKeepHistories == Spec => []MergeKeepsHistories
<1>1. Inv /\ IndexInv => MergeKeepsHistories
  <2> SUFFICES ASSUME Inv, IndexInv, NEW a \in AccountIds
               PROVE  LET merged == QueryByAccount(a)
                          sides == {history_by_src[a], history_by_dest[a]}
                      IN  /\ Len(merged) = Len(history_by_src[a]) + Len(history_by_dest[a])
                          /\ Range(merged) = UNION {Range(side) : side \in sides}
                          /\ \A side \in sides : \A i, j \in 1 .. Len(side) : i < j =>
                               \E p, q \in 1 .. Len(merged) :
                                 p < q /\ merged[p] = side[i] /\ merged[q] = side[j]
                          /\ (\A side \in sides : InTimeOrder(side)) => InTimeOrder(merged)
    BY Zenon DEF MergeKeepsHistories
  <2> DEFINE left == history_by_src[a]
             right == history_by_dest[a]
             merged == Merge(left, right)
  <2>1. left \in Seq(TxIds) /\ right \in Seq(TxIds)
    BY DEF Inv, TypeOK
  <2>2. \A i \in Stored : Timestamp(i) \in Int
    <3>1. \A i \in Stored : transactions[i].timestamp \in Times
      BY TypeInv DEF Records
    <3> QED
      BY <3>1, LedgerConstants DEF Timestamp, Times
  <2>3. Range(left) \subseteq Stored /\ Range(right) \subseteq Stored
    BY DEF IndexInv, Lists, From, To, Filed
  <2>4. /\ \A i \in 1 .. Len(left) : Timestamp(left[i]) \in Int
        /\ \A i \in 1 .. Len(right) : Timestamp(right[i]) \in Int
    BY <2>1, <2>2, <2>3 DEF Range
  <2>5. Len(merged) = Len(left) + Len(right)
    <3>1. Placed(left, right, SrcIndex(left, right), merged)
      BY <2>1, MergePlaces
    <3> HIDE DEF merged
    <3> QED
      BY <3>1 DEF Placed
  <2>6. InTimeOrder(left) /\ InTimeOrder(right) => InTimeOrder(merged)
    BY <2>1, <2>4, MergeSorts
  <2>7. Range(merged) = UNION {Range(side) : side \in {left, right}}
    <3>1. Range(merged) = Range(left) \cup Range(right)
      BY <2>1, MergeKeeps, Zenon
    <3>2. \A L, R : UNION {Range(side) : side \in {L, R}} = Range(L) \cup Range(R)
      OBVIOUS
    <3> QED
      BY <3>1, <3>2, Zenon
  <2> DEFINE Keeps(side) == \A i, j \in 1 .. Len(side) : i < j =>
                              \E p, q \in 1 .. Len(merged) :
                                p < q /\ merged[p] = side[i] /\ merged[q] = side[j]
  <2>8. \A side \in {left, right} : Keeps(side)
    <3>1. Keeps(left) /\ Keeps(right)
      BY <2>1, MergeKeeps, Zenon
    <3> HIDE DEF Keeps
    <3> QED
      BY <3>1
  <2>9. (\A side \in {left, right} : InTimeOrder(side)) => InTimeOrder(merged)
    BY <2>6
  <2> QED
    BY <2>5, <2>7, <2>8, <2>9, Zenon DEF QueryByAccount
<1> QED
  BY InvInvariant, IndexInvariant, <1>1, PTL

-----------------------------------------------------------------------------
(***************************************************************************)
(* What a client finds of its own.                                         *)
(***************************************************************************)
MineInv ==
    \A t \in Threads : tx_id[t] # 0 /\ pc[t] \notin {"record", "store"} => tx_id[t] \in Stored

AnswersOfThreads == DOMAIN answer = Threads

\* What ReadYourWrites says of one thread.
FindsMine(t) ==
    LET mine == transactions[tx_id[t]]
    IN  /\ Asked(t, "queryByAccount") /\ call[t].id \in {mine.src_id, mine.dest_id}
             => Contains(answer[t], tx_id[t])
        /\ Asked(t, "queryBySrc") /\ call[t].id = mine.src_id
             => Contains(answer[t], tx_id[t])
        /\ Asked(t, "queryByDest") /\ call[t].id = mine.dest_id
             => Contains(answer[t], tx_id[t])
        /\ Asked(t, "getRecentTransactions") /\ ~Contains(answer[t], tx_id[t])
             => Len(answer[t]) = Smaller(call[t].amount, recent_capacity)

MineReadInv ==
    MineInv /\ AnswersOfThreads /\ \A t \in Threads : tx_id[t] # 0 => FindsMine(t)

LEMMA StoredKept ==
    ASSUME Inv, EveryIdAccountedFor, IndexInv, NEW t \in Threads, Invoke(t) \/ Step(t)
    PROVE  /\ Stored \subseteq Stored'
           /\ \A i \in Stored : transactions'[i] = transactions[i]
           /\ StoreRecord(t) => tx_id[t] \in Stored'
<1>1. CASE StoreRecord(t)
  BY <1>1, StoreStep
<1>2. CASE IndexRecord(t)
  BY <1>2, IndexStep, WritingFrame DEF StoreRecord, IndexRecord
<1>3. CASE ~StoreRecord(t) /\ ~IndexRecord(t)
  BY <1>3, LedgerFrame, FiledFrame DEF ledger
<1> QED
  BY <1>1, <1>2, <1>3

LEMMA MineStep ==
    ASSUME Inv, EveryIdAccountedFor, IndexInv, MineInv, NEW t \in Threads, Invoke(t) \/ Step(t)
    PROVE  MineInv'
<1> SUFFICES ASSUME NEW u \in Threads, tx_id'[u] # 0, pc'[u] \notin {"record", "store"}
             PROVE  tx_id'[u] \in Stored'
  BY DEF MineInv
<1>1. CASE u # t
  BY <1>1, OthersStay, OthersLocals, StoredKept DEF MineInv
<1>2. CASE u = t /\ Invoke(t)
  <2>1. tx_id'[t] = 0 \/ tx_id'[t] = tx_id[t]
    BY <1>2, TypeInv DEF Invoke
  <2>2. pc[t] = "idle"
    BY <1>2 DEF Invoke
  <2> QED
    BY <1>2, <2>1, <2>2, StoredKept DEF MineInv
<1>3. CASE u = t /\ Step(t)
  <2>1. CASE StoreRecord(t)
    BY <1>3, <2>1, StoreStep, StoredKept
  <2>2. CASE ~StoreRecord(t)
    <3>1. ~TakeId(t) /\ ~LockRecords(t)
      BY <1>3, TypeInv DEF TakeId, LockRecords, GoTo
    <3>2. tx_id'[t] = tx_id[t] /\ pc[t] \notin {"record", "store"}
      BY <1>3, <2>2, <3>1, TypeInv DEF Step, LockBank, Check, LockAccount, TryOther, BackOff,
         Decide, Apply, CreditDest, Stamp, IndexRecord, LockForQuery, Read, OwnBank,
         OpenAccount, Return, shared
    <3> QED
      BY <1>3, <3>2, StoredKept DEF MineInv
  <2> QED
    BY <2>1, <2>2
<1> QED
  BY <1>1, <1>2, <1>3

\* A query answers, and nothing else stands where its answer is read.
LEMMA QueryReturns ==
    ASSUME Inv, NEW t \in Threads, Invoke(t) \/ Step(t),
           pc'[t] = "return", call'[t].op \in QueryOp
    PROVE  Read(t)
<1>1. CASE Invoke(t)
  BY <1>1, Begins, TypeInv, Zenon
<1>2. CASE Step(t)
  <2>1. call'[t] = call[t]
    BY <1>2, TypeInv DEF Step, LockBank, Check, LockAccount, TryOther, BackOff, Decide, Apply,
       CreditDest, Stamp, TakeId, LockRecords, StoreRecord, IndexRecord, LockForQuery, Read,
       OwnBank, OpenAccount, Return, shared
  <2>2. pc[t] \in {"check", "decide", "apply", "index", "open"} \/ Read(t)
    BY <1>2, TypeInv DEF Step, LockBank, LockAccount, AfterFirstLock, TryOther,
       BackOff, CreditDest, Stamp, TakeId, LockRecords,
       StoreRecord, LockForQuery, OwnBank, Return, GoTo, Check, Decide, Apply, IndexRecord,
       OpenAccount
  <2>3. pc[t] \notin {"check", "decide", "apply", "index", "open"}
    <3>1. call[t].op \notin Op /\ call[t].op \notin BankOp
      BY <2>1 DEF Op, QueryOp, BankOp
    <3>2. PlaceInv
      BY DEF Inv, CallInv
    <3> HIDE DEF Op, QueryOp, BankOp
    <3> QED
      BY <3>1, <3>2 DEF PlaceInv, OpPlaces, Places
  <2> QED
    BY <2>2, <2>3
<1> QED
  BY <1>1, <1>2

LEMMA AnswersKept ==
    ASSUME Inv, AnswersOfThreads, NEW t \in Threads, Invoke(t) \/ Step(t)
    PROVE  /\ AnswersOfThreads'
           /\ \A u \in Threads \ {t} : answer'[u] = answer[u]
           /\ Read(t) => answer'[t] = QueryAnswer(call[t])
<1>1. CASE Read(t)
  BY <1>1 DEF Read, AnswersOfThreads
<1>2. CASE ~Read(t)
  BY <1>2, TypeInv DEF Invoke, Step, LockBank, Check, LockAccount, TryOther, BackOff, Decide,
     Apply, CreditDest, Stamp, TakeId, LockRecords, StoreRecord, IndexRecord, LockForQuery,
     OwnBank, OpenAccount, Return, AnswersOfThreads
<1> QED
  BY <1>1, <1>2

\* What a query finds: the records of its side, and of the feed as many as it may.
LEMMA QueryFinds ==
    ASSUME Inv, IndexInv, FeedInv, NEW t \in Threads, pc[t] = "read",
           NEW id \in Stored, NEW mine, mine = transactions[id]
    PROVE  LET c == call[t]
               found == QueryAnswer(c)
           IN  /\ c.op = "queryByAccount" /\ c.id \in {mine.src_id, mine.dest_id}
                    => Contains(found, id)
               /\ c.op = "queryBySrc" /\ c.id = mine.src_id => Contains(found, id)
               /\ c.op = "queryByDest" /\ c.id = mine.dest_id => Contains(found, id)
               /\ c.op = "getRecentTransactions" /\ ~Contains(found, id)
                    => Len(found) = Smaller(c.amount, recent_capacity)
<1> DEFINE c == call[t]
           found == QueryAnswer(c)
<1>1. id \in Filed
  <2>1. \A u \in Threads : pc[u] # "index"
    BY OneWriter
  <2> QED
    BY <2>1 DEF Filed
<1>2. WellFormed(c) /\ c \in CallRecords
  BY TypeInv DEF Inv, CallInv, PlaceInv
<1>3. \A s, x : s \in Seq(TxIds) /\ x \in Range(s) => Contains(s, x)
  BY DEF Contains, Range
<1>4. ASSUME NEW a \in AccountIds
      PROVE  /\ history_by_src[a] \in Seq(TxIds) /\ history_by_dest[a] \in Seq(TxIds)
             /\ mine.src_id = a => id \in Range(history_by_src[a])
             /\ mine.dest_id = a => id \in Range(history_by_dest[a])
  BY <1>1 DEF Inv, TypeOK, IndexInv, Lists, From, To
<1>5. CASE c.op = "queryByAccount"
  <2>1. c.id \in AccountIds /\ found = Merge(history_by_src[c.id], history_by_dest[c.id])
    BY <1>2, <1>5 DEF WellFormed, QueryAnswer, QueryByAccount
  <2>2. /\ found \in Seq(TxIds)
        /\ Range(found) = Range(history_by_src[c.id]) \cup Range(history_by_dest[c.id])
    BY <1>4, <2>1, MergeRange
  <2>4. c.id \in {mine.src_id, mine.dest_id} => id \in Range(found)
    BY <1>4, <2>1, <2>2
  <2>5. c.id \in {mine.src_id, mine.dest_id} => Contains(found, id)
    BY <1>3, <2>2, <2>4
  <2> QED
    BY <1>5, <2>5
<1>6. CASE c.op = "queryBySrc"
  <2>1. c.id \in AccountIds /\ found = history_by_src[c.id]
    BY <1>2, <1>6 DEF WellFormed, QueryAnswer
  <2>2. c.id = mine.src_id => Contains(found, id)
    BY <1>3, <1>4, <2>1, Zenon
  <2> QED
    BY <1>6, <2>2
<1>7. CASE c.op = "queryByDest"
  <2>1. c.id \in AccountIds /\ found = history_by_dest[c.id]
    BY <1>2, <1>7 DEF WellFormed, QueryAnswer
  <2>2. c.id = mine.dest_id => Contains(found, id)
    BY <1>3, <1>4, <2>1, Zenon
  <2> QED
    BY <1>7, <2>2
<1>8. CASE c.op = "getRecentTransactions"
  <2> DEFINE size == Len(recent_feed)
             limit == c.amount
  <2>1. found = [k \in 1 .. (IF limit < size THEN limit ELSE size) |-> recent_feed[size + 1 - k]]
    BY <1>8 DEF QueryAnswer, Recent
  <2>2. /\ limit \in Nat /\ size \in Nat /\ recent_capacity \in Nat /\ size <= recent_capacity
        /\ recent_feed \in Seq(TxIds)
    BY <1>2, <1>8, ConstantsAreAmounts, LedgerConstants DEF WellFormed, CallRecords, Balances,
       Inv, TypeOK
  <2>3. Len(found) = IF limit < size THEN limit ELSE size
    <3> DEFINE top == IF limit < size THEN limit ELSE size
    <3>1. top \in Nat /\ found \in [1 .. top -> TxIds]
      BY <2>1, <2>2
    <3> HIDE DEF top, found
    <3>2. Len(found) = top
      BY <3>1
    <3> QED
      BY <3>2 DEF top
  <2>4. CASE limit < size \/ size = recent_capacity
    <3>1. Len(found) = Smaller(limit, recent_capacity)
      BY <2>2, <2>3, <2>4 DEF Smaller
    <3> QED
      BY <1>8, <3>1
  <2>5. CASE ~(limit < size) /\ size < recent_capacity
    <3>1. PICK p \in 1 .. size : recent_feed[p] = id
      BY <2>2, <2>5 DEF FeedInv, Range
    <3>2. size + 1 - p \in 1 .. size /\ size + 1 - (size + 1 - p) = p
      BY <2>2
    <3>3. found[size + 1 - p] = id
      BY <2>1, <2>5, <3>1, <3>2
    <3>4. Contains(found, id)
      <4> HIDE DEF found
      <4> QED
        BY <2>3, <2>5, <3>2, <3>3 DEF Contains
    <3> QED
      BY <1>8, <3>4
  <2> QED
    BY <2>2, <2>4, <2>5
<1> QED
  BY <1>5, <1>6, <1>7, <1>8

LEMMA FindsMineStep ==
    ASSUME Inv, EveryIdAccountedFor, IndexInv, FeedInv, MineReadInv,
           NEW t \in Threads, Invoke(t) \/ Step(t), NEW u \in Threads, tx_id'[u] # 0
    PROVE  FindsMine(u)'
<1>1. CASE u # t
  <2>1. /\ pc'[u] = pc[u] /\ call'[u] = call[u] /\ tx_id'[u] = tx_id[u] /\ answer'[u] = answer[u]
    BY <1>1, OthersStay, OthersLocals, AnswersKept DEF MineReadInv
  <2>2. pc[u] = "return" => tx_id[u] \in Stored /\ transactions'[tx_id[u]] = transactions[tx_id[u]]
    BY <2>1, StoredKept DEF MineReadInv, MineInv
  <2>3. FindsMine(u)
    BY <2>1 DEF MineReadInv
  <2> QED
    BY <2>1, <2>2, <2>3 DEF FindsMine, Asked
<1>2. CASE u = t /\ pc'[t] = "return" /\ call'[t].op \in QueryOp
  <2>1. Read(t)
    BY <1>2, QueryReturns
  <2>2. /\ pc[t] = "read" /\ call' = call /\ tx_id' = tx_id /\ transactions' = transactions
        /\ answer'[t] = QueryAnswer(call[t])
    BY <2>1, AnswersKept DEF Read, MineReadInv, ledger
  <2>3. tx_id[t] \in Stored
    BY <1>2, <2>2 DEF MineReadInv, MineInv
  <2> DEFINE id == tx_id[t]
             mine == transactions[id]
             c == call[t]
             found == QueryAnswer(c)
  <2>4. /\ c.op = "queryByAccount" /\ c.id \in {mine.src_id, mine.dest_id}
             => Contains(found, id)
        /\ c.op = "queryBySrc" /\ c.id = mine.src_id => Contains(found, id)
        /\ c.op = "queryByDest" /\ c.id = mine.dest_id => Contains(found, id)
        /\ c.op = "getRecentTransactions" /\ ~Contains(found, id)
             => Len(found) = Smaller(c.amount, recent_capacity)
    BY <2>2, <2>3, QueryFinds, Zenon
  <2>5. /\ tx_id'[t] = id /\ transactions'[id] = mine /\ call'[t] = c /\ answer'[t] = found
    BY <2>2
  <2> HIDE DEF id, mine, c, found
  <2> QED
    BY <1>2, <2>4, <2>5 DEF FindsMine, Asked
<1>3. CASE u = t /\ ~(pc'[t] = "return" /\ call'[t].op \in QueryOp)
  BY <1>3 DEF FindsMine, Asked, QueryOp
<1> QED
  BY <1>1, <1>2, <1>3

\* A client that asks after it has been answered finds its own record, under its
\* accounts always and in the feed unless that is full of newer ones, however many
\* other clients write in between.
THEOREM ClientsReadTheirWrites == Spec => []ReadYourWrites
<1>1. Init => MineReadInv
  BY DEF Init, MineReadInv, MineInv, AnswersOfThreads
<1>2. Inv /\ EveryIdAccountedFor /\ IndexInv /\ FeedInv /\ MineReadInv /\ [Next]_vars
        => MineReadInv'
  <2> SUFFICES ASSUME Inv, EveryIdAccountedFor, IndexInv, FeedInv, MineReadInv, [Next]_vars
               PROVE  MineReadInv'
    OBVIOUS
  <2>1. CASE UNCHANGED vars
    BY <2>1 DEF vars, shared, ledger, MineReadInv, MineInv, AnswersOfThreads, FindsMine, Asked,
       Stored
  <2>2. ASSUME NEW t \in Threads, Invoke(t) \/ Step(t)
        PROVE  MineReadInv'
    <3>1. MineInv' /\ AnswersOfThreads'
      BY <2>2, MineStep, AnswersKept DEF MineReadInv
    <3>2. ASSUME NEW u \in Threads, tx_id'[u] # 0
          PROVE  FindsMine(u)'
      BY <2>2, <3>2, FindsMineStep
    <3> QED
      BY <3>1, <3>2 DEF MineReadInv
  <2> QED
    BY <2>1, <2>2 DEF Next, Done
<1>3. MineReadInv => ReadYourWrites
  BY Zenon DEF MineReadInv, ReadYourWrites, FindsMine
<1> QED
  BY InvInvariant, IdsAccountedFor, IndexInvariant, FeedInvariant, <1>1, <1>2, <1>3, PTL
     DEF Spec

-----------------------------------------------------------------------------
(***************************************************************************)
(* The counts by window.  A pointer stops behind the records it may pass,  *)
(* which come first because the times are in order.                        *)
(***************************************************************************)
Ordered(time, size) == \A i, j \in 1 .. size : i < j => time[i] <= time[j]
TimesOf(list, time, size) ==
    size = Len(list) /\ \A k \in 1 .. size : time[k] = Timestamp(list[k])
UpToLimit(time, size, limit) == {k \in 1 .. size : time[k] <= limit}
Within(a, b) == {i \in Stored : Timestamp(i) \in a .. b}
SplitAt(q, time, size, limit) ==
    q \in 1 .. size + 1 /\ UpToLimit(time, size, limit) = 1 .. q - 1
NeverBack(f, top) == \A n \in 2 .. top : f[n - 1] <= f[n]
SameUpTo(f, g, top) == \A n \in 1 .. top : f[n] = g[n]
StopsBehind(Q, passed, top) == \A n \in 1 .. top : passed[n] = 1 .. Q[n] - 1
LimitedBy(passed, time, size, limit, top) ==
    \A n \in 1 .. top : passed[n] = UpToLimit(time, size, limit[n])
SplitsAt(f, passed, size, top) ==
    \A n \in 1 .. top : f[n] \in 1 .. size + 1 /\ passed[n] = 1 .. f[n] - 1

LEMMA PointerStops ==
    ASSUME NEW size \in Nat, NEW q \in 1 .. size + 1, NEW p \in 1 .. q
    PROVE  MovePast(p, 1 .. q - 1, size) = q
<1> DEFINE Stop(k) == k \notin 1 .. q - 1 /\ p .. k - 1 \subseteq 1 .. q - 1
<1>1. q \in p .. size + 1 /\ Stop(q)
  OBVIOUS
<1>2. ASSUME NEW k \in p .. size + 1, Stop(k)
      PROVE  k = q
  <2>1. k >= q
    BY <1>2
  <2>2. ASSUME k > q
        PROVE  FALSE
    <3>1. q \in p .. k - 1 /\ q \notin 1 .. q - 1
      BY <2>2
    <3> QED
      BY <1>2, <3>1
  <2> QED
    BY <2>1, <2>2
<1>3. MovePast(p, 1 .. q - 1, size) = CHOOSE k \in p .. size + 1 : Stop(k)
  BY DEF MovePast
<1> HIDE DEF Stop
<1> QED
  BY <1>1, <1>2, <1>3

Moves(f, passed, size, top) ==
    f = [n \in 0 .. top |-> IF n = 0 THEN 1 ELSE MovePast(f[n - 1], passed[n], size)]

Pointer(passed, size, top) == CHOOSE f : Moves(f, passed, size, top)

\* A pointer that moves on from bucket to bucket stops where it would have stopped
\* had it started from the first record each time.
LEMMA PointersStop ==
    ASSUME NEW size \in Nat, NEW top \in Nat, NEW passed,
           NEW Q \in [1 .. top -> 1 .. size + 1],
           StopsBehind(Q, passed, top), NeverBack(Q, top),
           NEW F, F = Pointer(passed, size, top)
    PROVE  SameUpTo(F, Q, top)
<1> DEFINE G == [n \in 0 .. top |-> IF n = 0 THEN 1 ELSE Q[n]]
<1>1. \A n \in 0 .. top : G[n] \in 1 .. size + 1
  OBVIOUS
<1>2. ASSUME NEW n \in 1 .. top
      PROVE  n - 1 \in 0 .. top /\ G[n - 1] \in 1 .. Q[n]
  <2>1. n - 1 \in 0 .. top /\ Q[n] \in 1 .. size + 1
    OBVIOUS
  <2>2. CASE n = 1
    BY <2>1, <2>2
  <2>3. CASE n # 1
    <3>1. n \in 2 .. top /\ n - 1 \in 1 .. top
      BY <2>3
    <3>2. Q[n - 1] <= Q[n] /\ G[n - 1] = Q[n - 1] /\ Q[n - 1] \in 1 .. size + 1
      BY <3>1 DEF NeverBack
    <3> QED
      BY <2>1, <3>2
  <2> QED
    BY <2>2, <2>3
<1>3. \A n \in 1 .. top : G[n] = Q[n] /\ G[n] = MovePast(G[n - 1], passed[n], size)
  <2> SUFFICES ASSUME NEW n \in 1 .. top
               PROVE  G[n] = Q[n] /\ G[n] = MovePast(G[n - 1], passed[n], size)
    OBVIOUS
  <2>1. G[n] = Q[n] /\ Q[n] \in 1 .. size + 1 /\ passed[n] = 1 .. Q[n] - 1
    BY DEF StopsBehind
  <2> HIDE DEF G
  <2>2. MovePast(G[n - 1], 1 .. Q[n] - 1, size) = Q[n]
    BY <1>2, <2>1, PointerStops
  <2> QED
    BY <2>1, <2>2
<1>4. G = [n \in 0 .. top |-> G[n]] /\ G[0] = 1
  OBVIOUS
<1> HIDE DEF G
<1>5. Moves(G, passed, size, top)
  <2>1. \A n \in 0 .. top : G[n] = IF n = 0 THEN 1 ELSE MovePast(G[n - 1], passed[n], size)
    <3>1. \A n \in 0 .. top : n = 0 \/ (n # 0 /\ n \in 1 .. top)
      OBVIOUS
    <3> QED
      BY <1>3, <1>4, <3>1
  <2> QED
    BY <1>4, <2>1 DEF Moves
<1>6. Moves(F, passed, size, top)
  BY <1>5 DEF Pointer
<1>7. \A n \in 0 .. top : F[n] = IF n = 0 THEN 1 ELSE MovePast(F[n - 1], passed[n], size)
  BY <1>6 DEF Moves
<1> DEFINE B == {n \in 0 .. top : F[n] # G[n]}
<1>8. ASSUME B # {}
      PROVE  FALSE
  <2>1. PICK n \in B : \A m \in B : n <= m
    <3>1. B \in SUBSET Nat
      OBVIOUS
    <3> HIDE DEF B
    <3> QED
      BY <1>8, <3>1, SmallestNumber
  <2>2. n \in 0 .. top /\ F[n] # G[n]
    BY <2>1
  <2>3. n # 0
    BY <1>4, <1>7, <2>2
  <2>4. n - 1 \in 0 .. top /\ n \in 1 .. top /\ n - 1 \notin B
    <3>1. n - 1 \in 0 .. top /\ n \in 1 .. top /\ ~(n <= n - 1)
      BY <2>2, <2>3
    <3> HIDE DEF B
    <3> QED
      BY <2>1, <3>1
  <2>5. F[n - 1] = G[n - 1]
    BY <2>4
  <2>6. F[n] = MovePast(F[n - 1], passed[n], size)
    BY <1>7, <2>2, <2>3
  <2>7. G[n] = MovePast(G[n - 1], passed[n], size)
    BY <1>3, <2>4
  <2> QED
    BY <2>2, <2>5, <2>6, <2>7
<1>9. \A n \in 1 .. top : F[n] = Q[n]
  <2>1. B = {}
    BY <1>8
  <2>2. \A n \in 1 .. top : n \in 0 .. top /\ F[n] = G[n]
    <3>1. \A n \in 0 .. top : F[n] = G[n]
      BY <2>1
    <3> QED
      BY <3>1
  <2> QED
    BY <1>3, <2>2
<1> QED
  BY <1>9 DEF SameUpTo

\* Where the times are in order, those up to a limit come first.
LEMMA EarlierFirst ==
    ASSUME NEW size \in Nat, NEW time \in [1 .. size -> Int],
           Ordered(time, size), NEW limit \in Int
    PROVE  \E q \in 1 .. size + 1 : UpToLimit(time, size, limit) = 1 .. q - 1
<1> DEFINE Late == {k \in 1 .. size + 1 : k \in 1 .. size => time[k] > limit}
<1>1. PICK q \in Late : \A k \in Late : q <= k
  <2>1. size + 1 \in Late /\ Late \in SUBSET Nat
    OBVIOUS
  <2> HIDE DEF Late
  <2> QED
    BY <2>1, SmallestNumber
<1>2. q \in 1 .. size + 1 /\ (q \in 1 .. size => time[q] > limit)
  BY <1>1
<1>3. ASSUME NEW k \in 1 .. size, time[k] <= limit
      PROVE  k \in 1 .. q - 1
  <2>1. CASE q < k
    <3>1. q \in 1 .. size /\ time[q] <= time[k] /\ time[q] > limit
      BY <1>2, <2>1 DEF Ordered
    <3> QED
      BY <1>3, <3>1
  <2>2. CASE q = k
    BY <1>2, <1>3, <2>2
  <2> QED
    BY <1>2, <2>1, <2>2
<1>4. ASSUME NEW k \in 1 .. q - 1
      PROVE  k \in 1 .. size /\ time[k] <= limit
  <2>1. k \in 1 .. size /\ ~(q <= k)
    BY <1>2
  <2>2. k \notin Late
    BY <1>1, <2>1
  <2> QED
    BY <2>1, <2>2
<1>5. UpToLimit(time, size, limit) = 1 .. q - 1
  BY <1>3, <1>4 DEF UpToLimit
<1> QED
  BY <1>2, <1>5

LEMMA IntervalsNest ==
    ASSUME NEW size \in Nat, NEW a \in 1 .. size + 1, NEW b \in 1 .. size + 1,
           1 .. a - 1 \subseteq 1 .. b - 1
    PROVE  a <= b
<1>1. CASE a = 1
  BY <1>1
<1>2. CASE a # 1
  <2>1. a - 1 \in 1 .. a - 1
    BY <1>2
  <2>2. a - 1 \in 1 .. b - 1
    BY <2>1
  <2> QED
    BY <2>2
<1> QED
  BY <1>1, <1>2

\* A pointer whose limit never goes back splits the records at its limit.
LEMMA PointersSplit ==
    ASSUME NEW size \in Nat, NEW top \in Nat, NEW time \in [1 .. size -> Int],
           Ordered(time, size),
           NEW limit \in [1 .. top -> Int], NeverBack(limit, top),
           NEW passed, LimitedBy(passed, time, size, limit, top),
           NEW F, F = Pointer(passed, size, top)
    PROVE  SplitsAt(F, passed, size, top)
<1> DEFINE Q == [n \in 1 .. top |-> CHOOSE q \in 1 .. size + 1 : passed[n] = 1 .. q - 1]
<1>1. ASSUME NEW n \in 1 .. top
      PROVE  Q[n] \in 1 .. size + 1 /\ passed[n] = 1 .. Q[n] - 1
  <2>1. limit[n] \in Int /\ passed[n] = UpToLimit(time, size, limit[n])
    BY DEF LimitedBy
  <2>2. \E q \in 1 .. size + 1 : passed[n] = 1 .. q - 1
    <3>1. PICK q \in 1 .. size + 1 : UpToLimit(time, size, limit[n]) = 1 .. q - 1
      BY <2>1, EarlierFirst, Zenon
    <3>2. passed[n] = 1 .. q - 1
      BY <2>1, <3>1, Zenon
    <3> QED
      BY <3>2
  <2>3. Q[n] = CHOOSE q \in 1 .. size + 1 : passed[n] = 1 .. q - 1
    OBVIOUS
  <2> HIDE DEF Q
  <2> QED
    BY <2>2, <2>3
<1>2. ASSUME NEW n \in 2 .. top
      PROVE  Q[n - 1] <= Q[n]
  <2>1. n \in 1 .. top /\ n - 1 \in 1 .. top /\ limit[n - 1] <= limit[n]
    BY DEF NeverBack
  <2>2. limit[n - 1] \in Int /\ limit[n] \in Int
    BY <2>1
  <2>3. passed[n - 1] \subseteq passed[n]
    BY <2>1, <2>2 DEF UpToLimit, LimitedBy
  <2> HIDE DEF Q
  <2>4. /\ Q[n - 1] \in 1 .. size + 1 /\ Q[n] \in 1 .. size + 1
        /\ 1 .. Q[n - 1] - 1 \subseteq 1 .. Q[n] - 1
    BY <1>1, <2>1, <2>3
  <2> QED
    BY <2>4, IntervalsNest
<1>3. Q \in [1 .. top -> 1 .. size + 1]
  <2>1. Q = [n \in 1 .. top |-> Q[n]]
    OBVIOUS
  <2> HIDE DEF Q
  <2> QED
    BY <1>1, <2>1
<1> HIDE DEF Q
<1>4. SameUpTo(F, Q, top)
  <2>1. StopsBehind(Q, passed, top) /\ NeverBack(Q, top)
    BY <1>1, <1>2 DEF StopsBehind, NeverBack
  <2> QED
    BY <1>3, <2>1, PointersStop, Zenon
<1> QED
  BY <1>1, <1>4 DEF SameUpTo, SplitsAt

\* How many records there are between two places of a list of them.
Between(list, l, r) == {list[k] : k \in l .. r - 1}

LEMMA CountsBetween ==
    ASSUME NEW list \in Seq(TxIds), IsInjective(list),
           NEW l \in Nat \ {0}, NEW r \in l .. Len(list) + 1
    PROVE  Cardinality(Between(list, l, r)) = r - l
<1> DEFINE S == Between(list, l, r)
           h == [k \in l .. r - 1 |-> list[k]]
<1> USE DEF Between
<1>1. /\ DOMAIN list = 1 .. Len(list) /\ Len(list) \in Nat
      /\ l .. r - 1 \subseteq DOMAIN list
  OBVIOUS
<1>2. IsFiniteSet(l .. r - 1) /\ Cardinality(l .. r - 1) = r - l
  <2>1. l \in Int /\ r - 1 \in Int /\ l <= r
    OBVIOUS
  <2>2. /\ IsFiniteSet(l .. r - 1)
        /\ Cardinality(l .. r - 1) = IF l > r - 1 THEN 0 ELSE (r - 1) - l + 1
    BY <2>1, FS_Interval
  <2> QED
    BY <2>1, <2>2
<1>3. h \in [l .. r - 1 -> S]
  OBVIOUS
<1>4. \A i, j \in l .. r - 1 : h[i] = h[j] => i = j
  BY <1>1 DEF IsInjective
<1>5. \A x \in S : \E k \in l .. r - 1 : h[k] = x
  OBVIOUS
<1> HIDE DEF h, S
<1>6. h \in Bijection(l .. r - 1, S)
  BY <1>3, <1>4, <1>5 DEF Bijection, Injection, Surjection, IsInjective
<1>7. ExistsBijection(l .. r - 1, S)
  BY <1>6 DEF ExistsBijection
<1> QED
  BY <1>2, <1>7, FS_Bijection DEF S

\* How many records there are in a window, from the places where its pointers stop.
CountedBy(l, r, a, b) == Cardinality(Within(a, b)) = r - l

LEMMA WindowCounted ==
    ASSUME NEW found \in Seq(TxIds), Lists(found, Stored),
           NEW size \in Nat,
           NEW time \in [1 .. size -> Int],
           TimesOf(found, time, size),
           NEW a \in Int, NEW b \in Int, a <= b,
           NEW l, SplitAt(l, time, size, a - 1),
           NEW r, SplitAt(r, time, size, b)
    PROVE  CountedBy(l, r, a, b)
<1> USE DEF SplitAt, TimesOf
<1> DEFINE S == Within(a, b)
<1> USE DEF Within
<1>1. \A k \in 1 .. size : time[k] \in Int
  OBVIOUS
<1>2. UpToLimit(time, size, a - 1) \subseteq UpToLimit(time, size, b)
  BY <1>1 DEF UpToLimit
<1>3. l <= r
  <2>1. 1 .. l - 1 \subseteq 1 .. r - 1
    BY <1>2
  <2> QED
    BY <2>1, IntervalsNest
<1>4. l \in Nat \ {0} /\ r \in l .. size + 1 /\ l .. r - 1 \subseteq 1 .. size
  BY <1>3
<1>5. ASSUME NEW k \in 1 .. size
      PROVE  time[k] \in a .. b <=> k \in l .. r - 1
  <2>1. \A x \in Int : x \in a .. b <=> ~(x <= a - 1) /\ x <= b
    OBVIOUS
  <2>2. k \in l .. r - 1 <=> k \notin 1 .. l - 1 /\ k \in 1 .. r - 1
    BY <1>4
  <2>3. /\ time[k] <= a - 1 <=> k \in UpToLimit(time, size, a - 1)
        /\ time[k] <= b <=> k \in UpToLimit(time, size, b)
    BY Zenon DEF UpToLimit
  <2> QED
    BY <1>1, <2>1, <2>2, <2>3, Zenon
<1>6. /\ \A k \in 1 .. size : found[k] \in Stored
      /\ \A i \in Stored : \E k \in 1 .. size : found[k] = i
      /\ IsInjective(found)
  <2>1. DOMAIN found = 1 .. size
    OBVIOUS
  <2> QED
    BY <2>1 DEF Lists, Range
<1>7. S = Between(found, l, r)
  <2>1. ASSUME NEW k \in l .. r - 1
        PROVE  found[k] \in S
    <3>1. k \in 1 .. size
      BY <1>4
    <3>2. time[k] \in a .. b /\ time[k] = Timestamp(found[k]) /\ found[k] \in Stored
      BY <1>5, <1>6, <3>1
    <3> QED
      BY <3>2, Zenon
  <2>2. ASSUME NEW i \in S
        PROVE  \E k \in l .. r - 1 : found[k] = i
    <3>1. PICK k \in 1 .. size : found[k] = i
      BY <1>6
    <3>2. time[k] \in a .. b
      BY <3>1
    <3> QED
      BY <1>5, <3>1, <3>2
  <2> HIDE DEF S
  <2> QED
    BY <2>1, <2>2 DEF Between
<1> HIDE DEF S
<1>8. r \in l .. Len(found) + 1 /\ l \in Nat \ {0}
  BY <1>4
<1>9. Cardinality(Between(found, l, r)) = r - l
  BY <1>6, <1>8, CountsBetween, Zenon
<1> QED
  BY <1>7, <1>9, Zenon DEF S, CountedBy

\* How many buckets there are one step apart.
LEMMA BucketsCounted ==
    ASSUME NEW d \in Nat, NEW step \in Nat \ {0}
    PROVE  {m \in 1 .. d + 1 : (m - 1) * step <= d} = 1 .. d \div step + 1
<1>1. /\ d \div step \in Nat
      /\ (d \div step) * step <= d /\ d < ((d \div step) + 1) * step
  <2>1. d \div step \in Nat
    OBVIOUS
  <2>2. (d \div step) * step <= d
    OBVIOUS
  <2>3. d < ((d \div step) + 1) * step
    OBVIOUS
  <2> QED
    BY <2>1, <2>2, <2>3
<1> DEFINE most == d \div step
<1> HIDE DEF most
<1>2. most \in Nat /\ most * step <= d /\ d < (most + 1) * step
  BY <1>1 DEF most
<1>3. \A m \in Nat : m * step <= d <=> m <= most
  BY <1>2
<1>4. \A m \in Nat : m <= m * step
  OBVIOUS
<1>5. ASSUME NEW m \in 1 .. d + 1
      PROVE  (m - 1) * step <= d <=> m \in 1 .. most + 1
  <2>1. m - 1 \in Nat
    OBVIOUS
  <2>2. (m - 1) * step <= d <=> m - 1 <= most
    BY <1>3, <2>1
  <2> QED
    BY <1>2, <2>2
<1>6. most <= d
  <2>1. most <= most * step /\ most * step \in Int
    BY <1>2, <1>4
  <2> QED
    BY <1>2, <2>1
<1>7. 1 .. most + 1 \subseteq 1 .. d + 1
  BY <1>2, <1>6
<1>8. {m \in 1 .. d + 1 : (m - 1) * step <= d} = 1 .. most + 1
  BY <1>5, <1>7
<1> QED
  BY <1>8 DEF most

\* The two pointers of countTransactionsPerWindow, which never go back, count every
\* window right: for any number of records, any window and any step, although windows
\* may overlap and records may have equal times or be stored out of order.
THEOREM WindowsAreCounted == Spec => []WindowCountsRight
<1>1. Inv /\ IndexInv => WindowCountsRight
  <2> SUFFICES ASSUME Inv, IndexInv, CanShare(record_mtx), Stored # {},
                      NEW window \in 1 .. MaxTime + 1, NEW step \in 1 .. MaxTime + 1
               PROVE  CountPerWindow(window, step) = CountsByDefinition(window, step)
    BY DEF WindowCountsRight
  <2> DEFINE found == QueryByTime(0, MaxTime)
             size == Len(found)
             time == [k \in 1 .. size |-> Timestamp(found[k])]
             first == time[1]
             last == time[size]
             most == last - first + 1
             bucket == [n \in 1 .. most |-> first + (n - 1) * step]
             up_to_end == [n \in 1 .. most |->
               {k \in 1 .. size : WithinEnd(time[k], bucket[n] + window)}]
             before == [n \in 1 .. most |->
               {k \in 1 .. size : BeforeBucket(time[k], bucket[n])}]
             R == Pointer(up_to_end, size, most)
             L == Pointer(before, size, most)
  <2>1. window \in Nat \ {0} /\ step \in Nat \ {0} /\ MaxTime \in Nat
    BY LedgerConstants
  <2>2. /\ found \in Seq(TxIds) /\ Lists(found, Stored) /\ InTimeOrder(found)
        /\ \A i \in Stored : Timestamp(i) \in Int
    <3>1. \A i \in Stored : transactions[i].timestamp \in Times
      BY TypeInv DEF Records
    <3>2. \A i \in Stored : Timestamp(i) \in 0 .. MaxTime
      BY <3>1 DEF Timestamp, Times
    <3>3. 0 \in Times /\ MaxTime \in 0 .. MaxTime
      BY <2>1 DEF Times
    <3>4. {i \in Filed : Timestamp(i) \in 0 .. MaxTime} = Stored
      BY <3>2, AllFiled
    <3>5. /\ found \in Seq(TxIds) /\ InTimeOrder(found)
          /\ Lists(found, {i \in Filed : Timestamp(i) \in 0 .. MaxTime})
      <4> HIDE DEF found
      <4> QED
        BY <3>3, TimeFinds DEF found
    <3>6. Lists(found, Stored)
      BY <3>4, <3>5, Zenon
    <3>7. \A i \in Stored : Timestamp(i) \in Int
      BY <3>2, <2>1
    <3> HIDE DEF found
    <3> QED
      BY <3>5, <3>6, <3>7
  <2>3. CountPerWindow(window, step) =
          [n \in {m \in 1 .. most : bucket[m] <= last} |-> R[n] - L[n]]
    <3>1. found # << >>
      BY <2>2 DEF Lists, Range
    <3>2. ~(step <= 0) /\ ~(window <= 0)
      BY <2>1
    <3> QED
      BY <3>1, <3>2, Zenon DEF CountPerWindow, Pointer, Moves
  <2> HIDE DEF found
  <2>4. /\ size \in Nat \ {0} /\ size = Len(found) /\ DOMAIN found = 1 .. size
        /\ time \in [1 .. size -> Int] /\ Ordered(time, size)
        /\ \A k \in 1 .. size : found[k] \in Stored /\ time[k] = Timestamp(found[k])
        /\ \A i \in Stored : \E k \in 1 .. size : found[k] = i
    <3>1. size \in Nat /\ DOMAIN found = 1 .. size
      BY <2>2
    <3>2. /\ \A k \in 1 .. size : found[k] \in Stored
          /\ \A i \in Stored : \E k \in 1 .. size : found[k] = i
      BY <2>2, <3>1 DEF Lists, Range
    <3>3. size # 0
      BY <3>2
    <3>4. Ordered(time, size)
      BY <2>2 DEF Ordered, InTimeOrder
    <3> QED
      BY <2>2, <3>1, <3>2, <3>3, <3>4
  <2> HIDE DEF time, size
  <2>5. /\ first \in Int /\ last \in Int /\ first <= last
        /\ \A k \in 1 .. size : first <= time[k] /\ time[k] <= last
    <3>1. 1 \in 1 .. size /\ size \in 1 .. size
      BY <2>4
    <3>2. \A k \in 1 .. size : /\ k = 1 \/ 1 < k
                               /\ k = size \/ k < size
      BY <2>4
    <3>3. \A k \in 1 .. size : time[k] \in Int
      BY <2>4
    <3> QED
      BY <2>4, <3>1, <3>2, <3>3 DEF Ordered
  <2>6. /\ Min({Timestamp(i) : i \in Stored}) = first
        /\ Max({Timestamp(i) : i \in Stored}) = last
    <3> DEFINE times == {Timestamp(i) : i \in Stored}
    <3>1. first \in times /\ last \in times
      BY <2>4
    <3>2. \A x \in times : x \in Int /\ first <= x /\ x <= last
      BY <2>2, <2>4, <2>5
    <3> HIDE DEF times, first, last
    <3>3. \A x \in times : (\A y \in times : x <= y) => x = first
      BY <3>1, <3>2
    <3>4. \A x \in times : (\A y \in times : x >= y) => x = last
      BY <3>1, <3>2
    <3>5. Min(times) = first
      BY <3>1, <3>2, <3>3 DEF Min
    <3>6. Max(times) = last
      BY <3>1, <3>2, <3>4 DEF Max
    <3> QED
      BY <3>5, <3>6 DEF times
  <2> HIDE DEF first, last
  <2>7. most \in Nat /\ bucket \in [1 .. most -> Int] /\ NeverBack(bucket, most)
    <3>1. most \in Nat
      BY <2>5
    <3>2. \A n \in 1 .. most : first + (n - 1) * step \in Int
      BY <2>1, <2>5
    <3>3. ASSUME NEW n \in 2 .. most
          PROVE  bucket[n - 1] <= bucket[n]
      <4> HIDE DEF most
      <4>1. n \in 1 .. most /\ n - 1 \in 1 .. most
        BY <3>1
      <4>2. (n - 1) * step = (n - 1 - 1) * step + step /\ (n - 1 - 1) * step \in Int
        BY <2>1
      <4> QED
        BY <2>1, <2>5, <4>1, <4>2
    <3> QED
      BY <3>1, <3>2, <3>3 DEF NeverBack
  <2> HIDE DEF most, bucket
  <2>8. SplitsAt(R, up_to_end, size, most)
    <3> DEFINE limit == [n \in 1 .. most |-> bucket[n] + window]
    <3>1. limit \in [1 .. most -> Int] /\ NeverBack(limit, most)
      <4>1. \A n \in 2 .. most : n \in 1 .. most /\ n - 1 \in 1 .. most
        BY <2>7
      <4> QED
        BY <2>1, <2>7, <4>1 DEF NeverBack
    <3>2. LimitedBy(up_to_end, time, size, limit, most)
      BY DEF LimitedBy, UpToLimit, WithinEnd
    <3>3. R = Pointer(up_to_end, size, most) /\ size \in Nat
      BY <2>4
    <3> HIDE DEF limit, up_to_end, R
    <3> QED
      BY <2>4, <2>7, <3>1, <3>2, <3>3, PointersSplit, Zenon
  <2>9. SplitsAt(L, before, size, most)
    <3> DEFINE limit == [n \in 1 .. most |-> bucket[n] - 1]
    <3>1. limit \in [1 .. most -> Int] /\ NeverBack(limit, most)
      <4>1. \A n \in 2 .. most : n \in 1 .. most /\ n - 1 \in 1 .. most
        BY <2>7
      <4> QED
        BY <2>1, <2>7, <4>1 DEF NeverBack
    <3>2. LimitedBy(before, time, size, limit, most)
      <4>1. \A x, y \in Int : x < y <=> x <= y - 1
        OBVIOUS
      <4>2. \A n \in 1 .. most : bucket[n] \in Int /\ limit[n] = bucket[n] - 1
        BY <2>7
      <4>3. \A k \in 1 .. size : time[k] \in Int
        BY <2>4
      <4>4. \A n \in 1 .. most : before[n] = {k \in 1 .. size : time[k] < bucket[n]}
        BY DEF BeforeBucket
      <4> HIDE DEF before, limit
      <4> QED
        BY <4>1, <4>2, <4>3, <4>4 DEF LimitedBy, UpToLimit
    <3>3. L = Pointer(before, size, most) /\ size \in Nat
      BY <2>4
    <3> HIDE DEF limit, before, L
    <3> QED
      BY <2>4, <2>7, <3>1, <3>2, <3>3, PointersSplit, Zenon
  <2>10. ASSUME NEW n \in 1 .. most
         PROVE  Cardinality(Within(bucket[n], bucket[n] + window)) = R[n] - L[n]
    <3>1. /\ R[n] \in 1 .. size + 1 /\ up_to_end[n] = 1 .. R[n] - 1
          /\ L[n] \in 1 .. size + 1 /\ before[n] = 1 .. L[n] - 1
      BY <2>8, <2>9, Zenon DEF SplitsAt
    <3>2. /\ up_to_end[n] = UpToLimit(time, size, bucket[n] + window)
          /\ before[n] = {k \in 1 .. size : time[k] < bucket[n]}
      BY DEF UpToLimit, WithinEnd, BeforeBucket
    <3> HIDE DEF up_to_end, before, R, L
    <3>3. {k \in 1 .. size : time[k] < bucket[n]} = UpToLimit(time, size, bucket[n] - 1)
      BY <2>4, <2>7 DEF UpToLimit
    <3>4. /\ SplitAt(R[n], time, size, bucket[n] + window)
          /\ SplitAt(L[n], time, size, bucket[n] - 1)
      BY <3>1, <3>2, <3>3, Zenon DEF SplitAt
    <3>5. /\ bucket[n] \in Int /\ bucket[n] + window \in Int
          /\ bucket[n] <= bucket[n] + window
      BY <2>1, <2>7
    <3>6. /\ found \in Seq(TxIds) /\ Lists(found, Stored) /\ size \in Nat
          /\ time \in [1 .. size -> Int] /\ TimesOf(found, time, size)
      BY <2>2, <2>4 DEF TimesOf
    <3>7. CountedBy(L[n], R[n], bucket[n], bucket[n] + window)
      BY <3>4, <3>5, <3>6, WindowCounted, Zenon
    <3> QED
      BY <3>7 DEF CountedBy
  <2>11. {m \in 1 .. most : bucket[m] <= last} = 1 .. (last - first) \div step + 1
    <3>1. last - first \in Nat
      BY <2>5
    <3>2. \A m \in 1 .. most : bucket[m] <= last <=> (m - 1) * step <= last - first
      <4>1. \A m \in 1 .. most : bucket[m] = first + (m - 1) * step
        BY DEF bucket
      <4>2. \A m \in 1 .. most : (m - 1) * step \in Int
        BY <2>1
      <4> QED
        BY <2>5, <4>1, <4>2
    <3>3. {m \in 1 .. last - first + 1 : (m - 1) * step <= last - first}
            = 1 .. (last - first) \div step + 1
      BY <2>1, <3>1, BucketsCounted
    <3> QED
      BY <3>2, <3>3 DEF most
  <2>12. CountsByDefinition(window, step) =
           [k \in 1 .. (last - first) \div step + 1 |->
              Cardinality(Within(first + (k - 1) * step, first + (k - 1) * step + window))]
    BY <2>6 DEF CountsByDefinition, Within
  <2>13. \A k \in 1 .. (last - first) \div step + 1 :
           k \in 1 .. most /\ bucket[k] = first + (k - 1) * step
    BY <2>11 DEF bucket
  <2> QED
    BY <2>3, <2>10, <2>11, <2>12, <2>13
<1> QED
  BY InvInvariant, IndexInvariant, <1>1, PTL
=============================================================================
