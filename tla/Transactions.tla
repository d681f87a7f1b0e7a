---------------------------- MODULE Transactions ----------------------------
(***************************************************************************)
(* DatabaseManager.transaction(), write() and fetch_one()/fetch_all() of   *)
(* database/manager.py over the one shared SQLite connection, composed     *)
(* with the task-reentrant lock of database/locking.py.                    *)
(*                                                                         *)
(* A task runs units of work.  A unit is a tree of transaction() blocks;   *)
(* every block is a SAVEPOINT with a name drawn from a counter, and every  *)
(* `await conn.execute(...)` is a point where the statement may fail or    *)
(* the task may be cancelled.  A cancelled statement is still executed by  *)
(* the connection's thread, in the order it was submitted: cancellation    *)
(* only keeps the task from running what follows.  The faults here are     *)
(* those a block recovers from; TransactionLeaks adds the others.          *)
(*                                                                         *)
(* A row is named after the block that wrote it.  Names grow, so "what     *)
(* happened since SAVEPOINT n" is "the rows not below n".                  *)
(***************************************************************************)
EXTENDS AsyncRLock, FiniteSets

CONSTANTS
    MaxDepth,   \* bound: how deep transaction() blocks nest
    MaxName,    \* bound: how many SAVEPOINT names are drawn in a run
    Faults      \* which awaited statements may be hit, see FaultKinds

FaultKinds ==
    {"waiting",     \* cancelled while waiting for the lock
     "open fails",  \* SAVEPOINT raises
     "body",        \* a statement of the body raises, or is cancelled
     "drop",        \* cancelled while the RELEASE after it executes
     "release",     \* cancelled while the final RELEASE executes
     "crash"}       \* the process dies

ASSUME TransactionsAssumption ==
    /\ MaxDepth \in Nat \ {0}
    /\ MaxName \in Nat
    /\ Faults \subseteq FaultKinds

VARIABLES
    phase,      \* per task: where in transaction()/fetch_*() it is suspended
    intent,     \* per task: what it wants the lock for
    frames,     \* per task: SAVEPOINT names of its open blocks, outermost first
    counter,    \* _savepoint_counter
    savepoints, \* the connection's open SAVEPOINTs
    live,       \* rows a statement on the connection sees
    durable,    \* rows that survive the process
    written,    \* per task: rows its current unit wrote and did not roll back
    succeeded,  \* rows of units whose transaction() returned normally
    failed      \* rows of blocks whose transaction() raised

dbVars == <<savepoints, live, durable>>
ledger == <<written, succeeded, failed>>
vars == <<lockVars, phase, intent, frames, counter, dbVars, ledger>>

Names == Nat
Phases == {"idle", "queued", "reading",
           "open", "body", "undo", "drop", "release"}

Top(t) == frames[t][Len(frames[t])]
Pop(s) == SubSeq(s, 1, Len(s) - 1)

TypeOK ==
    /\ LockTypeOK
    /\ phase \in [Tasks -> Phases]
    /\ intent \in [Tasks -> {"read", "write"}]
    /\ frames \in [Tasks -> Seq(Names)]
    /\ counter \in Nat
    /\ savepoints \subseteq Names
    /\ live \subseteq Names
    /\ durable \subseteq Names
    /\ written \in [Tasks -> SUBSET Names]
    /\ succeeded \subseteq Names
    /\ failed \subseteq Names

Init ==
    /\ LockInit
    /\ phase = [t \in Tasks |-> "idle"]
    /\ intent = [t \in Tasks |-> "read"]
    /\ frames = [t \in Tasks |-> <<>>]
    /\ counter = 0
    /\ savepoints = {}
    /\ live = {}
    /\ durable = {}
    /\ written = [t \in Tasks |-> {}]
    /\ succeeded = {}
    /\ failed = {}

-----------------------------------------------------------------------------
(* SQLite.                                                                  *)

RollbackTo(n) ==
    /\ live' = {r \in live : r < n}
    /\ savepoints' = {m \in savepoints : m <= n}
    /\ UNCHANGED durable

(* RELEASE of the outermost savepoint is a COMMIT; of an inner one it only  *)
(* merges the work into the savepoint around it.                            *)
ReleaseSavepoint(n) ==
    /\ savepoints' = {m \in savepoints : m < n}
    /\ durable' = IF savepoints' = {} THEN live ELSE durable
    /\ UNCHANGED live

-----------------------------------------------------------------------------
(* Entering a block.                                                        *)

(* The task owns the lock: it draws a name and submits SAVEPOINT.           *)
SubmitSavepoint(t) ==
    /\ counter' = counter + 1
    /\ frames' = [frames EXCEPT ![t] = Append(@, counter')]
    /\ phase' = [phase EXCEPT ![t] = "open"]

SubmitSelect(t) ==
    /\ phase' = [phase EXCEPT ![t] = "reading"]
    /\ UNCHANGED <<counter, frames>>

Admitted(t, what) ==
    \/ what = "write" /\ SubmitSavepoint(t)
    \/ what = "read" /\ SubmitSelect(t)

(* Bound: names enough for the writers already waiting and one block more.  *)
NameLeft ==
    counter + Cardinality({u \in Tasks : phase[u] = "queued" /\ intent[u] = "write"})
        < MaxName

Begin(t, what) ==
    /\ phase[t] = "idle"
    /\ what = "write" => NameLeft
    /\ intent' = [intent EXCEPT ![t] = what]
    /\ \/ TakeFree(t) /\ Admitted(t, what)
       \/ /\ Enqueue(t)
          /\ phase' = [phase EXCEPT ![t] = "queued"]
          /\ UNCHANGED <<counter, frames>>
    /\ UNCHANGED <<dbVars, ledger>>

Resume(t) ==
    /\ phase[t] = "queued"
    /\ Wake(t)
    /\ Admitted(t, intent[t])
    /\ UNCHANGED <<intent, dbVars, ledger>>

(* Mutant: the cancelled acquire() is followed by a release().              *)
CancelWaiting_Releases(t) ==
    /\ phase[t] = "queued"
    /\ depth' = depth - 1
    /\ \E i \in DOMAIN queue :
           /\ queue[i] = t
           /\ queue' = SubSeq(queue, 1, i - 1) \o SubSeq(queue, i + 1, Len(queue))
    /\ phase' = [phase EXCEPT ![t] = "idle"]
    /\ UNCHANGED <<owner, intent, frames, counter, dbVars, ledger>>

CancelWaiting(t) ==
    /\ "waiting" \in Faults
    /\ phase[t] = "queued"
    /\ Abandon(t)
    /\ phase' = [phase EXCEPT ![t] = "idle"]
    /\ UNCHANGED <<intent, frames, counter, dbVars, ledger>>

(* Mutant: the lock is not reentrant, the nested block waits for its own.   *)
BeginNested_Waits(t) ==
    /\ phase[t] = "body"
    /\ Len(frames[t]) < MaxDepth
    /\ NameLeft
    /\ queue' = Append(queue, t)
    /\ phase' = [phase EXCEPT ![t] = "queued"]
    /\ UNCHANGED <<owner, depth, intent, frames, counter, dbVars, ledger>>

(* A helper that opens its own transaction() inside the caller's block.     *)
BeginNested(t) ==
    /\ phase[t] = "body"
    /\ Len(frames[t]) < MaxDepth
    /\ NameLeft
    /\ Reenter(t)
    /\ SubmitSavepoint(t)
    /\ UNCHANGED <<intent, dbVars, ledger>>

-----------------------------------------------------------------------------
(* Leaving a block: the async context manager releases the lock.            *)

Leave(t) ==
    /\ Release(t)
    /\ frames' = [frames EXCEPT ![t] = Pop(@)]

(* The exception of an inner block reaches the body around it, which        *)
(* handles it or lets it pass; the outermost one leaves transaction().      *)
LeaveRaising(t) ==
    /\ Leave(t)
    /\ \E next \in IF Len(frames[t]) = 1 THEN {"idle"} ELSE {"body", "undo"} :
           phase' = [phase EXCEPT ![t] = next]
    /\ LET gone == {r \in written[t] : r >= Top(t)}
       IN /\ failed' = failed \cup gone
          /\ written' = [written EXCEPT ![t] = @ \ gone]
    /\ UNCHANGED <<intent, counter, succeeded>>

LeaveNormally(t) ==
    /\ Leave(t)
    /\ IF Len(frames[t]) = 1
       THEN /\ phase' = [phase EXCEPT ![t] = "idle"]
            /\ succeeded' = succeeded \cup written[t]
            /\ written' = [written EXCEPT ![t] = {}]
       ELSE /\ phase' = [phase EXCEPT ![t] = "body"]
            /\ UNCHANGED <<succeeded, written>>
    /\ UNCHANGED <<intent, counter, failed>>

(* Cancelled with the final RELEASE already submitted: the work stands but  *)
(* the caller is told neither success nor failure.                          *)
LeaveCancelled(t) ==
    /\ Leave(t)
    /\ IF Len(frames[t]) = 1
       THEN /\ phase' = [phase EXCEPT ![t] = "idle"]
            /\ written' = [written EXCEPT ![t] = {}]
       ELSE /\ \E next \in {"body", "undo"} :
                   phase' = [phase EXCEPT ![t] = next]
            /\ UNCHANGED written
    /\ UNCHANGED <<intent, counter, succeeded, failed>>

-----------------------------------------------------------------------------
(* The awaited statements.                                                  *)

SavepointOpened(t) ==
    /\ phase[t] = "open"
    /\ savepoints' = savepoints \cup {Top(t)}
    /\ phase' = [phase EXCEPT ![t] = "body"]
    /\ UNCHANGED <<lockVars, intent, frames, counter, live, durable, ledger>>

SavepointFails(t) ==
    /\ "open fails" \in Faults
    /\ phase[t] = "open"
    /\ LeaveRaising(t)
    /\ UNCHANGED dbVars

Write(t) ==
    /\ phase[t] = "body"
    /\ Top(t) \notin live
    /\ live' = live \cup {Top(t)}
    /\ written' = [written EXCEPT ![t] = @ \cup {Top(t)}]
    /\ UNCHANGED <<lockVars, phase, intent, frames, counter, savepoints,
                   durable, succeeded, failed>>

BodyRaises(t) ==
    /\ "body" \in Faults
    /\ phase[t] = "body"
    /\ phase' = [phase EXCEPT ![t] = "undo"]
    /\ UNCHANGED <<lockVars, intent, frames, counter, dbVars, ledger>>

BodyReturns(t) ==
    /\ phase[t] = "body"
    /\ phase' = [phase EXCEPT ![t] = "release"]
    /\ UNCHANGED <<lockVars, intent, frames, counter, dbVars, ledger>>

(* Mutant: the error path releases the savepoint without rolling back.      *)
Undo_Skipped(t) ==
    /\ phase[t] = "undo"
    /\ phase' = [phase EXCEPT ![t] = "drop"]
    /\ UNCHANGED <<lockVars, intent, frames, counter, dbVars, ledger>>

Undo(t) ==
    /\ phase[t] = "undo"
    /\ RollbackTo(Top(t))
    /\ phase' = [phase EXCEPT ![t] = "drop"]
    /\ UNCHANGED <<lockVars, intent, frames, counter, ledger>>

(* Also the outcome of a cancellation here: the RELEASE is submitted, and   *)
(* an exception leaves the block either way.                                *)
Drop(t) ==
    /\ phase[t] = "drop"
    /\ ReleaseSavepoint(Top(t))
    /\ LeaveRaising(t)

(* Mutant: the block ends without its RELEASE.                              *)
Commit_NoRelease(t) ==
    /\ phase[t] = "release"
    /\ LeaveNormally(t)
    /\ UNCHANGED dbVars

Commit(t) ==
    /\ phase[t] = "release"
    /\ ReleaseSavepoint(Top(t))
    /\ LeaveNormally(t)

CommitCancelled(t) ==
    /\ "release" \in Faults
    /\ phase[t] = "release"
    /\ ReleaseSavepoint(Top(t))
    /\ LeaveCancelled(t)

-----------------------------------------------------------------------------
(* fetch_one()/fetch_all(): the rows are read under the lock.               *)

ReadReturns(t) ==
    /\ phase[t] = "reading"
    /\ Release(t)
    /\ phase' = [phase EXCEPT ![t] = "idle"]
    /\ UNCHANGED <<intent, frames, counter, dbVars, ledger>>

(* The process dies and is started again on the same database file.         *)
Crash ==
    /\ "crash" \in Faults
    /\ \E t \in Tasks : phase[t] # "idle"
    /\ owner' = NoTask
    /\ depth' = 0
    /\ queue' = <<>>
    /\ phase' = [t \in Tasks |-> "idle"]
    /\ frames' = [t \in Tasks |-> <<>>]
    /\ written' = [t \in Tasks |-> {}]
    /\ savepoints' = {}
    /\ live' = durable
    /\ UNCHANGED <<intent, counter, durable, succeeded, failed>>

-----------------------------------------------------------------------------
(* What a task in the middle of a unit does next without being asked to.    *)
Proceed(t) ==
    \/ Resume(t)
    \/ ReadReturns(t)
    \/ SavepointOpened(t) \/ SavepointFails(t)
    \/ BodyReturns(t)
    \/ Undo(t) \/ Drop(t)
    \/ Commit(t) \/ CommitCancelled(t)

Start(t) ==
    \/ Begin(t, "read")
    \/ Begin(t, "write")

Next ==
    \/ \E t \in Tasks :
           \/ Start(t)
           \/ CancelWaiting(t)
           \/ BeginNested(t)
           \/ Write(t)
           \/ BodyRaises(t)
           \/ Proceed(t)
    \/ Crash

Spec == Init /\ [][Next]_vars

(* The event loop keeps running a ready task and the connection's thread    *)
(* answers every statement; bodies end.                                     *)
FairSpec == Spec /\ \A t \in Tasks : WF_vars(Proceed(t))

-----------------------------------------------------------------------------
(* Properties.                                                              *)

(* A unit whose transaction() returned normally survives whatever happens   *)
(* later: other units' errors, cancellations and nested rollbacks, a crash. *)
(* (manager.transaction; docs/architecture.md: "one coroutine cannot commit *)
(* or roll back another coroutine's unit of work".)                         *)
SuccessIsDurable == succeeded \subseteq durable

(* Nothing a raising block wrote is ever committed, by its own unit's later *)
(* commit or by another task's.                                             *)
FailureLeavesNoTrace == failed \cap durable = {}

(* fetch_one()/fetch_all() return committed rows only: the lock keeps every *)
(* other task's unit of work, finished or half done, out of sight.          *)
ReadersSeeCommitted ==
    \A t \in Tasks : phase[t] = "reading" => live = durable

Queued(t) == phase[t] = "queued"

(* A task that waits for the lock is served or gives up: nesting does not   *)
(* deadlock the task on its own lock and no unit keeps it for ever.         *)
WaitersAreServed == \A t \in Tasks : Queued(t) ~> ~Queued(t)

(* The inductive invariant behind the properties above, for faults a block  *)
(* recovers from: the task inside the lock is the only one with open        *)
(* blocks, SQLite's savepoints are exactly its blocks, everything           *)
(* uncommitted is younger than its outermost block, and what is committed   *)
(* is older.  (manager.transaction and AsyncRLock together.)                *)
InUnit == {"open", "body", "undo", "drop", "release"}
Blocks(t) == {frames[t][i] : i \in DOMAIN frames[t]}

OwnerWorks ==
    \A t \in Tasks :
        /\ owner = t <=> phase[t] \in InUnit \cup {"reading"}
        /\ phase[t] \in InUnit <=> frames[t] # <<>>
        /\ owner = t => depth = IF phase[t] = "reading" THEN 1 ELSE Len(frames[t])

BlocksAscend ==
    \A t \in Tasks :
        /\ \A i \in DOMAIN frames[t] : frames[t][i] \in 1 .. counter
        /\ \A i, j \in DOMAIN frames[t] : i < j => frames[t][i] < frames[t][j]
        /\ phase[t] = "open" => Top(t) = counter

SavepointsAreBlocks ==
    /\ \A t \in Tasks :
           phase[t] \in InUnit =>
               savepoints = Blocks(t) \ IF phase[t] = "open" THEN {Top(t)} ELSE {}
    /\ (\A t \in Tasks : phase[t] \notin InUnit) => savepoints = {}

RowsInPlace ==
    /\ durable \subseteq live
    /\ live \subseteq 1 .. counter
    /\ (\A t \in Tasks : phase[t] \notin InUnit) => live = durable
    /\ \A t \in Tasks : phase[t] \in InUnit =>
           /\ \A r \in durable : r < frames[t][1]
           /\ \A r \in live \ durable : r >= frames[t][1]
           /\ phase[t] = "open" => Top(t) \notin live
           /\ phase[t] = "drop" => \A r \in live : r < Top(t)

LedgerInPlace ==
    /\ succeeded \subseteq durable
    /\ failed \cap live = {}
    /\ failed \subseteq 1 .. counter
    /\ \A t \in Tasks :
           /\ phase[t] \notin InUnit => written[t] = {}
           /\ failed \cap Blocks(t) = {}
           /\ written[t] \subseteq
                  live \cup IF phase[t] = "drop" THEN {r \in Names : r >= Top(t)} ELSE {}
           /\ written[t] \subseteq 1 .. counter
           /\ phase[t] \in InUnit => \A r \in written[t] : r >= frames[t][1]
           /\ phase[t] = "open" => Top(t) \notin written[t]

Balanced ==
    /\ OwnerWorks
    /\ BlocksAscend
    /\ SavepointsAreBlocks
    /\ RowsInPlace
    /\ LedgerInPlace

(* The connection implements one unit of work at a time, committed whole.   *)
Units == INSTANCE UnitsOfWork WITH
    Rows <- Names, Nobody <- NoTask, holder <- owner, pending <- live \ durable

UnitsAreAtomic == Units!Spec
=============================================================================
