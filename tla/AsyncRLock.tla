----------------------------- MODULE AsyncRLock -----------------------------
(***************************************************************************)
(* database/locking.py: the task-reentrant lock in front of the single     *)
(* SQLite connection.  Underneath is an asyncio.Lock: a task that finds it *)
(* taken, or finds others waiting, joins a first-in first-out queue; when  *)
(* the lock is released the head of the queue is woken, and only when that *)
(* task runs again does it become the holder.  Between release and wake-up *)
(* the lock is free but cannot be taken by a newcomer.  A waiting task may *)
(* be cancelled, also after its wake-up was scheduled; the next one is     *)
(* woken then.                                                             *)
(*                                                                         *)
(* Every operation below is one uninterrupted stretch of the event loop.   *)
(***************************************************************************)
EXTENDS Naturals, Sequences

CONSTANTS
    Tasks,      \* the asyncio tasks that use the connection
    NoTask      \* the owner field's None

ASSUME LockAssumption == NoTask \notin Tasks

VARIABLES
    owner,      \* the task holding the lock, or NoTask
    depth,      \* how many times the owner entered
    queue       \* tasks waiting inside asyncio.Lock.acquire

lockVars == <<owner, depth, queue>>

LockTypeOK ==
    /\ owner \in Tasks \cup {NoTask}
    /\ depth \in Nat
    /\ queue \in Seq(Tasks)

LockInit ==
    /\ owner = NoTask
    /\ depth = 0
    /\ queue = <<>>

-----------------------------------------------------------------------------
(* acquire() of the task that already owns the lock: counted, never waits.  *)
Reenter(t) ==
    /\ owner = t
    /\ depth' = depth + 1
    /\ UNCHANGED <<owner, queue>>

(* Mutant: acquire() does not look whether the lock is taken.               *)
TakeFree_Taken(t) ==
    /\ queue = <<>>
    /\ owner # t
    /\ owner' = t
    /\ depth' = 1
    /\ UNCHANGED queue

(* acquire() on a free lock nobody waits for.                               *)
TakeFree(t) ==
    /\ owner = NoTask
    /\ queue = <<>>
    /\ owner' = t
    /\ depth' = 1
    /\ UNCHANGED queue

(* acquire() that has to wait its turn.                                     *)
Enqueue(t) ==
    /\ owner # t
    /\ owner # NoTask \/ queue # <<>>
    /\ queue' = Append(queue, t)
    /\ UNCHANGED <<owner, depth>>

(* The head of the queue runs again after a release and takes the lock.     *)
Wake(t) ==
    /\ owner = NoTask
    /\ queue # <<>>
    /\ Head(queue) = t
    /\ owner' = t
    /\ depth' = 1
    /\ queue' = Tail(queue)

(* A waiting task is cancelled and leaves the queue.                        *)
Abandon(t) ==
    /\ \E i \in DOMAIN queue :
           /\ queue[i] = t
           /\ queue' = SubSeq(queue, 1, i - 1) \o SubSeq(queue, i + 1, Len(queue))
    /\ UNCHANGED <<owner, depth>>

(* Mutant: an inner release already frees the lock.                         *)
Release_Inner(t) ==
    /\ owner = t
    /\ depth' = 0
    /\ owner' = NoTask
    /\ UNCHANGED queue

(* release(): the outermost release frees the lock, an inner one counts     *)
(* down.  Any other task gets a RuntimeError and changes nothing.           *)
Release(t) ==
    /\ owner = t
    /\ depth' = depth - 1
    /\ owner' = IF depth = 1 THEN NoTask ELSE owner
    /\ UNCHANGED queue
=============================================================================
