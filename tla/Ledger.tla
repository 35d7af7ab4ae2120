------------------------------- MODULE Ledger -------------------------------
(***************************************************************************)
(* The record store inside TransactionManager: every TransactionRecord by  *)
(* its id, the three indexes over them, the recent feed, the id counter    *)
(* and record_mtx, the readers-writer lock in front of all of them.  The   *)
(* actions are parameterised by the thread that runs them; who may run     *)
(* them, and when, is TransactionManager's business.                       *)
(*                                                                         *)
(* The feed holds copies of records in the code.  A stored record never    *)
(* changes, so the model keeps its id.  index_by_time is a multimap; the   *)
(* model keeps one sequence of ids per timestamp, in insertion order, the  *)
(* order in which a multimap holds equal keys.                             *)
(***************************************************************************)
EXTENDS SharedMutex, Integers, Sequences, FiniteSets

CONSTANTS
    AccountIds,         \* the ids callers use, of open accounts or not; 0 is not one
    MaxTime,            \* bound: the clock stays between 0 and this
    ClockSteps,         \* how far system_clock may move between two looks at it
    recent_capacity

ASSUME LedgerConstants ==
    /\ AccountIds \subseteq Nat \ {0}
    /\ MaxTime \in Nat
    /\ 0 \in ClockSteps /\ ClockSteps \subseteq Int
    /\ recent_capacity \in Nat \ {0}

VARIABLES
    transactions, recent_feed, index_by_time, history_by_src, history_by_dest,
    next_tx_id, record_mtx

ledger == <<transactions, recent_feed, index_by_time,
            history_by_src, history_by_dest>>

TxIds == Nat \ {0}
Times == 0 .. MaxTime

LedgerInit ==
    /\ transactions = << >>
    /\ recent_feed = << >>
    /\ index_by_time = [time \in Times |-> << >>]
    /\ history_by_src = [a \in AccountIds |-> << >>]
    /\ history_by_dest = [a \in AccountIds |-> << >>]
    /\ next_tx_id = 1
    /\ record_mtx = Free

-----------------------------------------------------------------------------
(***************************************************************************)
(* writeRecord, in the two steps a reader that ignored the lock could see: *)
(* the record and the feed first, the indexes after them.                  *)
(***************************************************************************)
Put(f, key, value) ==
    [k \in DOMAIN f \cup {key} |-> IF k = key THEN value ELSE f[k]]

\* Bug variants: the feed never drops its oldest entry; a full feed drops the new one.
PushBack_Unbounded(feed, id) == Append(feed, id)
PushBack_DropNew(feed, id) ==
    IF Len(feed) < recent_capacity THEN Append(feed, id) ELSE feed

PushBack(feed, id) ==
    IF Len(feed) < recent_capacity THEN Append(feed, id)
                                   ELSE Append(Tail(feed), id)

AppendTo(history, key, id) ==
    IF key = 0 THEN history ELSE [history EXCEPT ![key] = Append(@, id)]

Store(id, record) ==
    /\ transactions' = Put(transactions, id, record)
    /\ recent_feed' = PushBack(recent_feed, id)

Index(id, record) ==
    /\ index_by_time' = [index_by_time EXCEPT ![record.timestamp] = Append(@, id)]
    /\ history_by_src' = AppendTo(history_by_src, record.src_id, id)
    /\ history_by_dest' = AppendTo(history_by_dest, record.dest_id, id)

-----------------------------------------------------------------------------
(***************************************************************************)
(* The queries.  Each answers with records; the model answers with ids.    *)
(***************************************************************************)
Timestamp(id) == transactions[id].timestamp

(***************************************************************************)
(* The two-way merge of queryByAccount: src_index[n] is its i once it has  *)
(* pushed n records, and its j is n - i.  The sending side comes first on  *)
(* equal times; what is left of one side follows when the other is used up.*)
(***************************************************************************)
SrcIsNext(left, right, i, j) ==
    /\ i < Len(left)
    /\ j < Len(right) => Timestamp(left[i + 1]) <= Timestamp(right[j + 1])

SrcIndex(left, right) ==
    LET src_index[n \in 0 .. Len(left) + Len(right)] ==
          IF n = 0 THEN 0
          ELSE LET i == src_index[n - 1]
               IN  IF SrcIsNext(left, right, i, n - 1 - i) THEN i + 1 ELSE i
    IN  src_index

Picked(left, right, src_index, n) ==
    IF src_index[n] # src_index[n - 1]
    THEN left[src_index[n]] ELSE right[n - src_index[n]]

\* Bug variant: what is left of the sending side is forgotten.
Merge_NoTail(left, right) ==
    LET src_index == SrcIndex(left, right)
        used_up == {n \in DOMAIN src_index : n - src_index[n] = Len(right)}
        last == CHOOSE n \in used_up : \A m \in used_up : n <= m
    IN  [n \in 1 .. last |-> Picked(left, right, src_index, n)]

Merge(left, right) ==
    LET src_index == SrcIndex(left, right)
    IN  [n \in 1 .. Len(left) + Len(right) |-> Picked(left, right, src_index, n)]

QueryByAccount(a) == Merge(history_by_src[a], history_by_dest[a])

\* getRecentTransactions: the last of the feed first, at most limit of them.
Recent(limit) ==
    [k \in 1 .. (IF limit < Len(recent_feed) THEN limit ELSE Len(recent_feed))
        |-> recent_feed[Len(recent_feed) + 1 - k]]

\* Bug variant: lower_bound at both ends leaves the end of the range out.
QueryByTime_OpenEnd(t1, t2) ==
    LET upto[time \in t1 - 1 .. t2] ==
          IF time < t1 THEN << >> ELSE upto[time - 1] \o index_by_time[time]
    IN  upto[t2 - 1]

\* queryByTime: from lower_bound(t1) up to upper_bound(t2), both ends included.
QueryByTime(t1, t2) ==
    LET upto[time \in t1 - 1 .. t2] ==
          IF time < t1 THEN << >> ELSE upto[time - 1] \o index_by_time[time]
    IN  upto[t2]

-----------------------------------------------------------------------------
(***************************************************************************)
(* countTransactionsPerWindow: one bucket every step ticks from the first  *)
(* record to the last; two pointers into the sorted timestamps, which only *)
(* move forward, bound the records of a bucket.                            *)
(***************************************************************************)
\* Bug variant: a record at the very start of its bucket is not in it.
BeforeBucket_Start(time, bucket) == time <= bucket

BeforeBucket(time, bucket) == time < bucket
WithinEnd(time, bucket_end) == time <= bucket_end

\* A pointer at p moves past what the condition of its loop holds of, at most
\* to the end.
MovePast(p, passed, size) ==
    CHOOSE k \in p .. size + 1 : k \notin passed /\ p .. k - 1 \subseteq passed

CountPerWindow(window, step) ==
    LET found == QueryByTime(0, MaxTime)
        size == Len(found)
        time == [k \in 1 .. size |-> Timestamp(found[k])]
        most == time[size] - time[1] + 1        \* buckets, one tick apart
        bucket == [n \in 1 .. most |-> time[1] + (n - 1) * step]
        up_to_end == [n \in 1 .. most |->
            {k \in 1 .. size : WithinEnd(time[k], bucket[n] + window)}]
        before == [n \in 1 .. most |-> {k \in 1 .. size : BeforeBucket(time[k], bucket[n])}]
        right[n \in 0 .. most] ==
            IF n = 0 THEN 1 ELSE MovePast(right[n - 1], up_to_end[n], size)
        left[n \in 0 .. most] ==
            IF n = 0 THEN 1 ELSE MovePast(left[n - 1], before[n], size)
    IN  IF found = << >> \/ step <= 0 \/ window <= 0
        THEN << >>
        ELSE [n \in {m \in 1 .. most : bucket[m] <= time[size]} |-> right[n] - left[n]]
=============================================================================
