-------------------------- MODULE TransactionLeaks --------------------------
(***************************************************************************)
(* Transactions with the three faults that a block does not recover from:  *)
(* each leaves a SAVEPOINT open on the connection after its task has given *)
(* up the lock.  The outermost RELEASE of every later unit is then a       *)
(* nested one, until the process ends.  FailureLeavesNoTrace and           *)
(* WaitersAreServed of Transactions hold here, too; SuccessIsDurable does  *)
(* not.                                                                    *)
(***************************************************************************)
EXTENDS Transactions, TLC

CONSTANT Leaks  \* which of them may happen, see LeakKinds

LeakKinds ==
    {"open",  \* cancelled while SAVEPOINT executes
     "undo",  \* cancelled while ROLLBACK TO executes
     "busy"}  \* the outermost RELEASE, a COMMIT, raises

ASSUME LeaksAssumption == Leaks \subseteq LeakKinds

(* SAVEPOINT is awaited before the try block, so nothing undoes it when the *)
(* task is cancelled there.                                                 *)
SavepointCancelled(t) ==
    /\ "open" \in Leaks
    /\ phase[t] = "open"
    /\ savepoints' = savepoints \cup {Top(t)}
    /\ LeaveRaising(t)
    /\ UNCHANGED <<live, durable>>

(* The RELEASE that follows ROLLBACK TO in the handler is not reached.      *)
UndoCancelled(t) ==
    /\ "undo" \in Leaks
    /\ phase[t] = "undo"
    /\ RollbackTo(Top(t))
    /\ LeaveRaising(t)

(* The outermost RELEASE raises (SQLITE_BUSY while another process reads):  *)
(* the savepoint stays open, and the else branch has no handler.            *)
CommitFails(t) ==
    /\ "busy" \in Leaks
    /\ phase[t] = "release"
    /\ Len(frames[t]) = 1
    /\ LeaveRaising(t)
    /\ UNCHANGED dbVars

Leak(t) == SavepointCancelled(t) \/ UndoCancelled(t) \/ CommitFails(t)

LeakyNext == Next \/ \E t \in Tasks : Leak(t)

LeakySpec == Init /\ [][LeakyNext]_vars

(* The event loop and the connection's thread go on as in FairSpec.         *)
LeakyProceed(t) == Proceed(t) \/ Leak(t)

-----------------------------------------------------------------------------
(* The inductive invariant behind FailureLeavesNoTrace.  A savepoint that   *)
(* was left behind is what keeps the rows of its failed unit from being     *)
(* committed: it is older than every block that is opened later, so that no *)
(* RELEASE takes it off the stack again.                                    *)

BlocksAreSaved ==
    /\ savepoints \subseteq 1 .. counter
    /\ \A t \in Tasks : phase[t] \in InUnit =>
           Blocks(t) \ (IF phase[t] = "open" THEN {Top(t)} ELSE {}) \subseteq savepoints

CommittedIsOlder ==
    /\ durable \subseteq live
    /\ live \subseteq 1 .. counter
    /\ \A t \in Tasks : phase[t] \in InUnit =>
           /\ \A r \in durable : r < frames[t][1]
           /\ phase[t] = "drop" => \A r \in live : r < Top(t)

WrittenIsYounger ==
    \A t \in Tasks :
        /\ phase[t] \notin InUnit => written[t] = {}
        /\ written[t] \subseteq 1 .. counter
        /\ phase[t] \in InUnit => \A r \in written[t] : r >= frames[t][1]
        /\ phase[t] = "open" => Top(t) \notin written[t]

HeldBack(r) ==
    \E s \in savepoints :
        s <= r /\ \A t \in Tasks : phase[t] \in InUnit => s < frames[t][1]

FailedIsHeldBack ==
    /\ failed \subseteq 1 .. counter
    /\ failed \cap durable = {}
    /\ \A t \in Tasks : failed \cap Blocks(t) = {}
    /\ \A r \in failed \cap live : HeldBack(r)

Contained ==
    /\ OwnerWorks
    /\ BlocksAscend
    /\ BlocksAreSaved
    /\ CommittedIsOlder
    /\ WrittenIsYounger
    /\ FailedIsHeldBack

-----------------------------------------------------------------------------
(* For TLC: the tasks differ in nothing but their names.                    *)
Symmetry == Permutations(Tasks)
=============================================================================
