---------------------------- MODULE SharedMutex ----------------------------
(***************************************************************************)
(* std::shared_mutex as the code uses it: held by any number of readers or *)
(* by one writer.  A lock is a value; whoever declares it as a variable    *)
(* takes it with these operators.  The mutex does not queue: a reader may  *)
(* enter while a writer waits.                                             *)
(***************************************************************************)
CONSTANTS Threads, NoThread

ASSUME ThreadsDistinct == NoThread \notin Threads

Locks == [readers : SUBSET Threads, writer : Threads \cup {NoThread}]

Free == [readers |-> {}, writer |-> NoThread]

\* Bug variant: a reader does not wait for the writer to leave.
CanShare_WithWriter(lock) == TRUE

CanShare(lock) == lock.writer = NoThread

\* Bug variant: a writer does not wait for the readers to leave.
CanOwn_WithReaders(lock) == lock.writer = NoThread

CanOwn(lock) == lock.writer = NoThread /\ lock.readers = {}

Share(lock, t) == [lock EXCEPT !.readers = @ \cup {t}]
Unshare(lock, t) == [lock EXCEPT !.readers = @ \ {t}]
Own(lock, t) == [lock EXCEPT !.writer = t]

\* Bug variant: the lock is left held.
Disown_Never(lock) == lock

Disown(lock) == [lock EXCEPT !.writer = NoThread]
=============================================================================
