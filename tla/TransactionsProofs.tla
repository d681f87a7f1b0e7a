------------------------- MODULE TransactionsProofs -------------------------
(***************************************************************************)
(* Theorems about Transactions and TransactionLeaks for any set of tasks,  *)
(* any nesting and any number of units of work: without the faults of      *)
(* TransactionLeaks every unit is atomic and durable; with them, what a    *)
(* block that failed has written is still never committed.                 *)
(***************************************************************************)
EXTENDS TransactionLeaks, SequenceTheorems, TLAPS

-----------------------------------------------------------------------------
(* Popping the innermost block of a task.                                   *)
LEMMA PopSeq ==
    ASSUME NEW s \in Seq(Nat), s # <<>>
    PROVE  /\ Pop(s) \in Seq(Nat)
           /\ Len(Pop(s)) = Len(s) - 1
           /\ DOMAIN Pop(s) = 1 .. Len(s) - 1
           /\ \A i \in 1 .. Len(s) - 1 : Pop(s)[i] = s[i]
<1>1. Len(s) \in Nat /\ Len(s) >= 1 /\ \A i \in 1 .. Len(s) - 1 : s[i] \in Nat
  OBVIOUS
<1> DEFINE n == Len(s) - 1
<1>2. 1 \in Int /\ n \in Int /\ \A i \in 1 .. n : s[i] \in Nat
  BY <1>1
<1> HIDE DEF n
<1>3. /\ SubSeq(s, 1, n) \in Seq(Nat)
      /\ Len(SubSeq(s, 1, n)) = IF 1 <= n THEN n - 1 + 1 ELSE 0
      /\ \A i \in 1 .. n - 1 + 1 : SubSeq(s, 1, n)[i] = s[1 + i - 1]
  BY <1>2, SubSeqProperties
<1>4. Pop(s) = SubSeq(s, 1, n)
  BY DEF Pop, n
<1>5. n \in Nat /\ n - 1 + 1 = n /\ \A i \in 1 .. n : 1 + i - 1 = i
  BY <1>1 DEF n
<1>6. Len(Pop(s)) = n /\ \A i \in 1 .. n : Pop(s)[i] = s[i]
  BY <1>3, <1>4, <1>5
<1> QED BY <1>3, <1>4, <1>6 DEF n

(* Adding one.                                                              *)
LEMMA AppendSeq ==
    ASSUME NEW s \in Seq(Nat), NEW n \in Nat
    PROVE  /\ Append(s, n) \in Seq(Nat)
           /\ Len(Append(s, n)) = Len(s) + 1
           /\ DOMAIN Append(s, n) = 1 .. Len(s) + 1
           /\ Append(s, n)[Len(s) + 1] = n
           /\ \A i \in 1 .. Len(s) : Append(s, n)[i] = s[i]
OBVIOUS

LEMMA InitType == Init => TypeOK
BY DEF Init, TypeOK, LockInit, LockTypeOK, Phases, Names

LEMMA LockSteps ==
    ASSUME LockTypeOK, NEW t \in Tasks,
           \/ TakeFree(t) \/ Enqueue(t) \/ Wake(t) \/ Abandon(t) \/ Reenter(t)
    PROVE  LockTypeOK'
<1>1. CASE Abandon(t)
  <2>1. PICK i \in DOMAIN queue :
             queue' = SubSeq(queue, 1, i - 1) \o SubSeq(queue, i + 1, Len(queue))
    BY <1>1 DEF Abandon
  <2> DEFINE n == Len(queue)
             a == i - 1
             b == i + 1
  <2>2. /\ n \in Int /\ a \in Int /\ b \in Int
        /\ \A j \in 1 .. a : queue[j] \in Tasks
        /\ \A j \in b .. n : queue[j] \in Tasks
    BY <2>1 DEF LockTypeOK
  <2>3. queue' = SubSeq(queue, 1, a) \o SubSeq(queue, b, n)
    BY <2>1
  <2> HIDE DEF n, a, b
  <2>4. SubSeq(queue, 1, a) \in Seq(Tasks) /\ SubSeq(queue, b, n) \in Seq(Tasks)
    BY <2>2, SubSeqProperties
  <2>5. queue' \in Seq(Tasks)
    BY <2>3, <2>4, ConcatProperties
  <2> QED BY <1>1, <2>5 DEF LockTypeOK, Abandon
<1>2. CASE TakeFree(t) \/ Reenter(t)
  BY <1>2 DEF LockTypeOK, TakeFree, Reenter
<1>3. CASE Wake(t)
  <2>1. Tail(queue) \in Seq(Tasks)
    BY <1>3, HeadTailProperties DEF LockTypeOK, Wake
  <2> QED BY <1>3, <2>1 DEF LockTypeOK, Wake
<1>4. CASE Enqueue(t)
  BY <1>4, AppendProperties DEF LockTypeOK, Enqueue
<1> QED BY <1>1, <1>2, <1>3, <1>4

(* Entering a block or a read keeps the types of what it assigns.           *)
LEMMA AdmittedType ==
    ASSUME TypeOK, NEW t \in Tasks, NEW what, Admitted(t, what)
    PROVE  /\ counter' \in Nat
           /\ frames' \in [Tasks -> Seq(Nat)]
           /\ phase' \in [Tasks -> Phases]
<1> USE DEF TypeOK, Names, Phases
<1>1. CASE SubmitSavepoint(t)
  <2>1. counter' \in Nat
    BY <1>1 DEF SubmitSavepoint
  <2>2. Append(frames[t], counter') \in Seq(Nat)
    BY <2>1, AppendSeq
  <2> QED BY <1>1, <2>1, <2>2 DEF SubmitSavepoint
<1>2. CASE SubmitSelect(t)
  BY <1>2 DEF SubmitSelect
<1> QED BY <1>1, <1>2 DEF Admitted

(* Every step keeps the types; only leaving a block needs to know that the  *)
(* task that leaves is the owner of the lock.                               *)
LEMMA NextType ==
    ASSUME TypeOK, OwnerWorks, [Next]_vars
    PROVE  TypeOK'
<1> USE DEF TypeOK, LockTypeOK, Phases, Names
<1>1. ASSUME NEW t \in Tasks, NEW what \in {"read", "write"}, Begin(t, what)
      PROVE  TypeOK'
  <2>1. LockTypeOK'
    BY <1>1, LockSteps DEF Begin
  <2>2. /\ counter' \in Nat
        /\ frames' \in [Tasks -> Seq(Nat)]
        /\ phase' \in [Tasks -> Phases]
    <3>1. CASE Admitted(t, what)
      BY <3>1, AdmittedType
    <3>2. CASE ~Admitted(t, what)
      BY <1>1, <3>2 DEF Begin
    <3> QED BY <3>1, <3>2
  <2> QED BY <1>1, <2>1, <2>2 DEF Begin, dbVars, ledger
<1>2. ASSUME NEW t \in Tasks, Resume(t) PROVE TypeOK'
  <2>1. LockTypeOK'
    BY <1>2, LockSteps DEF Resume
  <2>2. /\ counter' \in Nat
        /\ frames' \in [Tasks -> Seq(Nat)]
        /\ phase' \in [Tasks -> Phases]
    BY <1>2, AdmittedType DEF Resume
  <2> QED BY <1>2, <2>1, <2>2 DEF Resume, dbVars, ledger
<1>3. ASSUME NEW t \in Tasks, CancelWaiting(t) PROVE TypeOK'
  <2>2. LockTypeOK'
    BY <1>3, LockSteps DEF CancelWaiting
  <2> QED BY <1>3, <2>2 DEF CancelWaiting, dbVars, ledger
<1>4. ASSUME NEW t \in Tasks, BeginNested(t) PROVE TypeOK'
  <2>1. LockTypeOK'
    BY <1>4, LockSteps DEF BeginNested
  <2>2. /\ counter' \in Nat
        /\ frames' \in [Tasks -> Seq(Nat)]
        /\ phase' \in [Tasks -> Phases]
    <3>1. Admitted(t, "write")
      BY <1>4 DEF BeginNested, Admitted
    <3> QED BY <3>1, AdmittedType
  <2> QED BY <1>4, <2>1, <2>2 DEF BeginNested, dbVars, ledger
<1>5. ASSUME NEW t \in Tasks, phase[t] \in InUnit,
             LeaveRaising(t) \/ LeaveNormally(t) \/ LeaveCancelled(t),
             savepoints' \subseteq Names, live' \subseteq Names, durable' \subseteq Names
      PROVE  TypeOK'
  <2>1. frames[t] \in Seq(Nat) /\ frames[t] # <<>>
    BY <1>5 DEF OwnerWorks
  <2>2. Pop(frames[t]) \in Seq(Nat)
    BY <2>1, PopSeq
  <2>3. Leave(t)
    BY <1>5 DEF LeaveRaising, LeaveNormally, LeaveCancelled
  <2>4. LockTypeOK' /\ frames' \in [Tasks -> Seq(Nat)]
    <3>1. owner = t /\ depth \in Nat /\ depth >= 1
      BY <1>5, <2>1, <2>3 DEF OwnerWorks, Leave, Release, InUnit
    <3> QED BY <2>2, <2>3, <3>1 DEF Leave, Release
  <2>5. CASE LeaveRaising(t)
    <3>1. phase' \in [Tasks -> Phases]
      BY <2>5 DEF LeaveRaising
    <3> QED BY <1>5, <2>4, <2>5, <3>1 DEF LeaveRaising
  <2>6. CASE LeaveNormally(t)
    BY <1>5, <2>4, <2>6 DEF LeaveNormally
  <2>7. CASE LeaveCancelled(t)
    BY <1>5, <2>4, <2>7 DEF LeaveCancelled
  <2> QED BY <1>5, <2>5, <2>6, <2>7
<1>6. ASSUME NEW t \in Tasks, phase[t] \in InUnit
      PROVE  Top(t) \in Nat
  <2>1. frames[t] \in Seq(Nat) /\ frames[t] # <<>>
    BY <1>6 DEF OwnerWorks
  <2> QED BY <2>1 DEF Top
<1>7. ASSUME NEW t \in Tasks,
             SavepointFails(t) \/ Drop(t) \/ Commit(t) \/ CommitCancelled(t)
      PROVE  TypeOK'
  <2>1. phase[t] \in InUnit /\ Top(t) \in Nat
    BY <1>6, <1>7 DEF InUnit, SavepointFails, Drop, Commit, CommitCancelled
  <2>2. LeaveRaising(t) \/ LeaveNormally(t) \/ LeaveCancelled(t)
    BY <1>7 DEF SavepointFails, Drop, Commit, CommitCancelled
  <2>3. savepoints' \subseteq Names /\ live' \subseteq Names /\ durable' \subseteq Names
    BY <1>7, <2>1 DEF SavepointFails, Drop,
          Commit, CommitCancelled, RollbackTo, ReleaseSavepoint, dbVars
  <2> QED BY <1>5, <2>1, <2>2, <2>3
<1>8. ASSUME NEW t \in Tasks,
             SavepointOpened(t) \/ Write(t) \/ BodyRaises(t) \/ BodyReturns(t) \/ Undo(t)
      PROVE  TypeOK'
  <2>1. Top(t) \in Nat
    BY <1>6, <1>8 DEF InUnit, SavepointOpened, Write, BodyRaises, BodyReturns, Undo
  <2> QED BY <1>8, <2>1 DEF SavepointOpened, Write, BodyRaises, BodyReturns, Undo,
          RollbackTo, lockVars, dbVars, ledger
<1>9. ASSUME NEW t \in Tasks, ReadReturns(t) PROVE TypeOK'
  <2>1. owner = t /\ depth = 1
    BY <1>9 DEF ReadReturns, OwnerWorks
  <2> QED BY <1>9, <2>1 DEF ReadReturns, Release, dbVars, ledger
<1>10. CASE Crash
  BY <1>10 DEF Crash
<1>11. CASE UNCHANGED vars
  BY <1>11 DEF vars, lockVars, dbVars, ledger
<1> QED
  BY <1>1, <1>2, <1>3, <1>4, <1>7, <1>8, <1>9, <1>10, <1>11 DEF Next, Start, Proceed

-----------------------------------------------------------------------------
(* The invariant, by kind of step: entering, waiting, nesting, a statement  *)
(* inside a block, leaving a block, the end of a read, a crash.             *)

LEMMA EnterBalanced ==
    ASSUME TypeOK, Balanced, NEW t \in Tasks, NEW what,
           phase[t] \in {"idle", "queued"},
           owner = NoTask, owner' = t, depth' = 1,
           Admitted(t, what), UNCHANGED <<dbVars, ledger>>
    PROVE  Balanced'
<1> USE DEF Names
<1>0. /\ \A u \in Tasks : phase[u] \notin InUnit \cup {"reading"} /\ frames[u] = <<>>
      /\ live = durable /\ savepoints = {}
      /\ durable \subseteq 1 .. counter /\ counter \in Nat
      /\ failed \subseteq 1 .. counter /\ failed \cap live = {} /\ succeeded \subseteq durable
      /\ \A u \in Tasks : written[u] = {}
  BY LockAssumption DEF Balanced, OwnerWorks, SavepointsAreBlocks, RowsInPlace,
     LedgerInPlace, TypeOK, LockTypeOK
<1>1. CASE SubmitSavepoint(t)
  <2>1. /\ counter' = counter + 1
        /\ frames' = [frames EXCEPT ![t] = <<counter + 1>>]
        /\ phase' = [phase EXCEPT ![t] = "open"]
    <3>1. frames[t] = <<>> /\ Append(<<>>, counter + 1) = <<counter + 1>>
      BY <1>0
    <3>2. frames' = [frames EXCEPT ![t] = Append(frames[t], counter + 1)]
      BY <1>1 DEF SubmitSavepoint
    <3> QED BY <1>1, <3>1, <3>2 DEF SubmitSavepoint
  <2>2. /\ frames'[t] = <<counter + 1>> /\ phase'[t] = "open"
        /\ Top(t)' = counter + 1
        /\ Blocks(t)' = {counter + 1}
    BY <2>1 DEF TypeOK, Top, Blocks
  <2>3. \A u \in Tasks \ {t} : frames'[u] = <<>> /\ phase'[u] = phase[u] /\ Blocks(u)' = {}
    BY <1>0, <2>1 DEF TypeOK, Blocks
  <2>4. OwnerWorks'
    <3>1. frames'[t] # <<>> /\ Len(frames'[t]) = 1
      BY <2>2
    <3> QED BY <1>0, <2>2, <2>3, <3>1 DEF OwnerWorks, InUnit
  <2>5. BlocksAscend'
    BY <1>0, <2>1, <2>2, <2>3 DEF BlocksAscend, InUnit, Top
  <2>6. SavepointsAreBlocks'
    BY <1>0, <2>2, <2>3 DEF SavepointsAreBlocks, InUnit, dbVars
  <2>7. RowsInPlace'
    BY <1>0, <2>1, <2>2, <2>3 DEF RowsInPlace, InUnit, dbVars
  <2>8. LedgerInPlace'
    BY <1>0, <2>1, <2>2, <2>3 DEF LedgerInPlace, InUnit, dbVars, ledger
  <2> QED BY <2>4, <2>5, <2>6, <2>7, <2>8 DEF Balanced
<1>2. CASE SubmitSelect(t)
  <2>1. /\ counter' = counter /\ frames' = frames
        /\ phase' = [phase EXCEPT ![t] = "reading"]
    BY <1>2 DEF SubmitSelect
  <2>2. OwnerWorks'
    BY <1>0, <2>1 DEF OwnerWorks, InUnit, TypeOK
  <2>3. BlocksAscend' /\ SavepointsAreBlocks' /\ RowsInPlace' /\ LedgerInPlace'
    BY <1>0, <2>1 DEF BlocksAscend, SavepointsAreBlocks, RowsInPlace, LedgerInPlace,
       InUnit, TypeOK, Blocks, dbVars, ledger
  <2> QED BY <2>2, <2>3 DEF Balanced
<1> QED BY <1>1, <1>2 DEF Admitted

LEMMA WaitBalanced ==
    ASSUME TypeOK, Balanced, NEW t \in Tasks, NEW next \in {"idle", "queued"},
           phase[t] \in {"idle", "queued"},
           phase' = [phase EXCEPT ![t] = next],
           UNCHANGED <<owner, depth, frames, counter, dbVars, ledger>>
    PROVE  Balanced'
<1>1. \A u \in Tasks : phase'[u] = IF u = t THEN next ELSE phase[u]
  BY DEF TypeOK
<1>2. OwnerWorks'
  BY <1>1 DEF Balanced, OwnerWorks, InUnit
<1>3. BlocksAscend' /\ SavepointsAreBlocks'
  BY <1>1 DEF Balanced, BlocksAscend, SavepointsAreBlocks, InUnit, Blocks, Top, dbVars
<1>4. RowsInPlace'
  BY <1>1 DEF Balanced, RowsInPlace, InUnit, Blocks, Top, dbVars
<1>5. LedgerInPlace'
  BY <1>1 DEF Balanced, LedgerInPlace, InUnit, Blocks, Top, dbVars, ledger
<1> QED BY <1>2, <1>3, <1>4, <1>5 DEF Balanced

LEMMA NestBalanced ==
    ASSUME TypeOK, Balanced, NEW t \in Tasks, BeginNested(t)
    PROVE  Balanced'
<1> USE DEF Names
<1> DEFINE n == Len(frames[t])
           m == counter + 1
<1>1. /\ phase[t] = "body" /\ owner = t /\ owner' = t /\ depth' = depth + 1
      /\ counter' = m /\ counter \in Nat
      /\ frames' = [frames EXCEPT ![t] = Append(frames[t], m)]
      /\ phase' = [phase EXCEPT ![t] = "open"]
      /\ UNCHANGED <<dbVars, ledger>>
  BY DEF BeginNested, Reenter, SubmitSavepoint, TypeOK
<1>2. /\ frames[t] \in Seq(Nat) /\ frames[t] # <<>> /\ n \in Nat /\ n >= 1 /\ depth = n
      /\ \A i \in 1 .. n : frames[t][i] \in 1 .. counter
      /\ savepoints = Blocks(t)
  BY <1>1 DEF Balanced, OwnerWorks, BlocksAscend, SavepointsAreBlocks, InUnit, TypeOK
<1>3. /\ frames'[t] \in Seq(Nat) /\ Len(frames'[t]) = n + 1
      /\ DOMAIN frames'[t] = 1 .. n + 1
      /\ frames'[t][n + 1] = m
      /\ \A i \in 1 .. n : frames'[t][i] = frames[t][i]
  <2>1. frames'[t] = Append(frames[t], m)
    BY <1>1 DEF TypeOK
  <2> QED BY <1>1, <1>2, <2>1, AppendSeq
<1>4. \A u \in Tasks \ {t} :
          /\ frames'[u] = frames[u] /\ phase'[u] = phase[u] /\ Blocks(u)' = Blocks(u)
          /\ phase[u] \notin InUnit
  BY <1>1 DEF TypeOK, Blocks, Balanced, OwnerWorks
<1>5. phase'[t] = "open" /\ Top(t)' = m /\ Blocks(t)' = Blocks(t) \cup {m}
  <2>1. phase'[t] = "open" /\ Top(t)' = m
    BY <1>1, <1>3 DEF TypeOK, Top
  <2>2. Blocks(t) = {frames[t][i] : i \in 1 .. n}
    BY <1>2 DEF Blocks
  <2>3. Blocks(t)' = {frames'[t][i] : i \in 1 .. n + 1}
    BY <1>3 DEF Blocks
  <2>4. n + 1 \in 1 .. n + 1 /\ \A i \in 1 .. n + 1 : i \in 1 .. n \/ i = n + 1
    BY <1>2
  <2>5. 1 .. n \subseteq 1 .. n + 1
    BY <1>2
  <2> HIDE DEF n, m
  <2>6. Blocks(t)' = Blocks(t) \cup {m}
    BY <1>3, <2>2, <2>3, <2>4, <2>5, Zenon
  <2> QED BY <2>1, <2>6
<1>6. m \notin Blocks(t) /\ m \notin live /\ m \notin failed /\ m \notin written[t]
  BY <1>1, <1>2 DEF Balanced, RowsInPlace, LedgerInPlace, Blocks
<1> HIDE DEF n, m
<1>7. OwnerWorks'
  BY <1>1, <1>2, <1>3, <1>4, <1>5 DEF Balanced, OwnerWorks, InUnit
<1>8. BlocksAscend'
  <2>1. \A i \in 1 .. n + 1 : frames'[t][i] \in 1 .. counter'
    BY <1>1, <1>2, <1>3 DEF m
  <2>2. \A i, j \in 1 .. n + 1 : i < j => frames'[t][i] < frames'[t][j]
    <3>1. \A i, j \in 1 .. n : i < j => frames[t][i] < frames[t][j]
      BY <1>2 DEF Balanced, BlocksAscend, n
    <3>2. \A i \in 1 .. n : frames[t][i] < m
      BY <1>1, <1>2 DEF m
    <3>3. \A i \in 1 .. n + 1 : i \in 1 .. n \/ i = n + 1
      BY <1>2
    <3>4. \A i, j \in 1 .. n + 1 : i < j => i \in 1 .. n
      BY <1>2
    <3> QED BY <1>3, <3>1, <3>2, <3>3, <3>4
  <2>3. \A u \in Tasks \ {t} :
            /\ \A i \in DOMAIN frames'[u] : frames'[u][i] \in 1 .. counter'
            /\ \A i, j \in DOMAIN frames'[u] : i < j => frames'[u][i] < frames'[u][j]
            /\ phase'[u] # "open"
    BY <1>1, <1>4 DEF Balanced, BlocksAscend, InUnit, m
  <2> QED BY <1>1, <1>3, <1>5, <2>1, <2>2, <2>3 DEF BlocksAscend
<1>9. SavepointsAreBlocks'
  BY <1>1, <1>2, <1>4, <1>5, <1>6 DEF SavepointsAreBlocks, InUnit, dbVars
<1>10. RowsInPlace'
  <2>1. frames'[t][1] = frames[t][1]
    BY <1>2, <1>3
  <2> QED BY <1>1, <1>4, <1>5, <1>6, <2>1 DEF Balanced, RowsInPlace, InUnit, dbVars, m
<1>11. LedgerInPlace'
  <2>1. frames'[t][1] = frames[t][1]
    BY <1>2, <1>3
  <2> QED BY <1>1, <1>4, <1>5, <1>6, <2>1
          DEF Balanced, LedgerInPlace, InUnit, dbVars, ledger, m
<1> QED BY <1>7, <1>8, <1>9, <1>10, <1>11 DEF Balanced

(* Facts about the innermost block of a task inside a unit.                 *)
LEMMA TopFacts ==
    ASSUME TypeOK, Balanced, NEW t \in Tasks, phase[t] \in InUnit
    PROVE  /\ frames[t] \in Seq(Nat) /\ frames[t] # <<>>
           /\ Len(frames[t]) \in Nat /\ Len(frames[t]) >= 1
           /\ DOMAIN frames[t] = 1 .. Len(frames[t])
           /\ Top(t) \in Blocks(t) /\ Top(t) \in Nat /\ Top(t) \in 1 .. counter
           /\ frames[t][1] \in Nat /\ frames[t][1] <= Top(t)
           /\ \A b \in Blocks(t) : b \in Nat /\ b <= Top(t)
           /\ owner = t /\ depth = Len(frames[t])
           /\ \A u \in Tasks \ {t} : phase[u] \notin InUnit \cup {"reading"}
<1> USE DEF Names
<1>1. frames[t] \in Seq(Nat) /\ frames[t] # <<>>
  BY DEF Balanced, OwnerWorks, TypeOK
<1>2. \A i \in 1 .. Len(frames[t]) : frames[t][i] \in 1 .. counter
                                   /\ (i < Len(frames[t]) => frames[t][i] < Top(t))
  BY <1>1 DEF Balanced, BlocksAscend, Top
<1>3. /\ Len(frames[t]) \in Nat /\ Len(frames[t]) >= 1
      /\ DOMAIN frames[t] = 1 .. Len(frames[t])
      /\ counter \in Nat
  BY <1>1 DEF TypeOK
<1>4. Top(t) \in Blocks(t) /\ Top(t) \in 1 .. counter
  BY <1>2, <1>3 DEF Top, Blocks
<1>5. \A i \in 1 .. Len(frames[t]) : frames[t][i] \in Nat /\ frames[t][i] <= Top(t)
  <2>1. \A i \in 1 .. Len(frames[t]) : i < Len(frames[t]) \/ i = Len(frames[t])
    BY <1>3
  <2> QED BY <1>2, <1>3, <1>4, <2>1 DEF Top
<1>6. \A b \in Blocks(t) : b \in Nat /\ b <= Top(t)
  BY <1>3, <1>5 DEF Blocks
<1>7. frames[t][1] \in Nat /\ frames[t][1] <= Top(t)
  BY <1>3, <1>5
<1>8. /\ owner = t /\ depth = Len(frames[t])
      /\ \A u \in Tasks \ {t} : phase[u] \notin InUnit \cup {"reading"}
  BY DEF Balanced, OwnerWorks, InUnit
<1> QED BY <1>1, <1>3, <1>4, <1>6, <1>7, <1>8

LEMMA StatementBalanced ==
    ASSUME TypeOK, Balanced, NEW t \in Tasks,
           SavepointOpened(t) \/ Write(t) \/ BodyRaises(t) \/ BodyReturns(t) \/ Undo(t)
    PROVE  Balanced'
<1> USE DEF Names
<1>0. PICK next \in {"body", "undo", "release", "drop"} :
          phase' = [phase EXCEPT ![t] = next]
  BY DEF SavepointOpened, Write, BodyRaises, BodyReturns, Undo, TypeOK
<1>1. /\ phase[t] \in InUnit /\ UNCHANGED <<lockVars, frames, counter>>
      /\ phase'[t] = next
      /\ \A u \in Tasks \ {t} : phase'[u] = phase[u] /\ phase[u] \notin InUnit
  BY <1>0 DEF SavepointOpened, Write, BodyRaises, BodyReturns, Undo, InUnit, TypeOK,
     Balanced, OwnerWorks
<1>2. /\ frames[t] \in Seq(Nat) /\ frames[t] # <<>>
      /\ Top(t) \in Blocks(t) /\ Top(t) \in Nat /\ Top(t) \in 1 .. counter
      /\ frames[t][1] \in Nat /\ frames[t][1] <= Top(t)
      /\ \A b \in Blocks(t) : b \in Nat /\ b <= Top(t)
  BY <1>1, TopFacts
<1>3. Top(t)' = Top(t) /\ \A u \in Tasks : Blocks(u)' = Blocks(u)
  BY <1>1 DEF Top, Blocks
<1>4. OwnerWorks'
  BY <1>0, <1>1 DEF Balanced, OwnerWorks, InUnit, lockVars
<1>5. BlocksAscend'
  BY <1>0, <1>1, <1>3 DEF Balanced, BlocksAscend, InUnit
<1>6. SavepointsAreBlocks'
  <2>1. savepoints' = Blocks(t)
    <3>1. CASE SavepointOpened(t)
      BY <1>1, <1>2, <3>1 DEF SavepointOpened, Balanced, SavepointsAreBlocks
    <3>2. CASE Undo(t)
      BY <1>1, <1>2, <3>2 DEF Undo, RollbackTo, Balanced, SavepointsAreBlocks
    <3>3. CASE Write(t) \/ BodyRaises(t) \/ BodyReturns(t)
      BY <1>1, <3>3 DEF Write, BodyRaises, BodyReturns, Balanced, SavepointsAreBlocks, dbVars
    <3> QED BY <3>1, <3>2, <3>3
  <2> QED BY <1>0, <1>1, <1>3, <2>1 DEF SavepointsAreBlocks, InUnit
<1>7. CASE SavepointOpened(t) \/ BodyRaises(t) \/ BodyReturns(t)
  <2>1. /\ UNCHANGED <<live, durable, ledger>> /\ next # "drop" /\ next # "open"
        /\ phase[t] # "drop"
    BY <1>0, <1>1, <1>7 DEF SavepointOpened, BodyRaises, BodyReturns, TypeOK, dbVars
  <2>2. RowsInPlace'
    BY <1>1, <1>3, <2>1 DEF Balanced, RowsInPlace, InUnit
  <2>3. LedgerInPlace'
    BY <1>1, <1>3, <2>1 DEF Balanced, LedgerInPlace, InUnit, ledger
  <2> QED BY <1>4, <1>5, <1>6, <2>2, <2>3 DEF Balanced
<1>8. CASE Write(t)
  <2>1. /\ live' = live \cup {Top(t)} /\ written' = [written EXCEPT ![t] = @ \cup {Top(t)}]
        /\ UNCHANGED <<phase, durable, succeeded, failed>> /\ phase[t] = "body"
    BY <1>8 DEF Write
  <2>2. RowsInPlace'
    BY <1>1, <1>2, <1>3, <2>1 DEF Balanced, RowsInPlace, InUnit, TypeOK
  <2>3. /\ written'[t] = written[t] \cup {Top(t)}
        /\ \A u \in Tasks \ {t} : written'[u] = written[u]
    BY <2>1 DEF TypeOK
  <2>4. LedgerInPlace'
    BY ZenonT(60), <1>1, <1>2, <1>3, <2>1, <2>3 DEF Balanced, LedgerInPlace, InUnit, TypeOK
  <2> QED BY <1>4, <1>5, <1>6, <2>2, <2>4 DEF Balanced
<1>9. CASE Undo(t)
  <2>1. /\ live' = {r \in live : r < Top(t)} /\ next = "drop" /\ phase[t] = "undo"
        /\ UNCHANGED <<durable, ledger>>
    BY <1>0, <1>1, <1>9 DEF Undo, RollbackTo, TypeOK
  <2>2. /\ durable \subseteq live /\ live \subseteq 1 .. counter /\ live \subseteq Nat
        /\ \A r \in durable : r < frames[t][1]
        /\ \A r \in live \ durable : r >= frames[t][1]
    BY <1>1 DEF Balanced, RowsInPlace, TypeOK
  <2>3. durable \subseteq live' /\ live' \subseteq live
    <3>1. live' \subseteq live
      BY <2>1
    <3>2. ASSUME NEW r \in durable
          PROVE  r \in live'
      <4>1. r \in live /\ r \in Nat /\ r < frames[t][1]
        BY <2>2
      <4>2. frames[t][1] \in Nat /\ frames[t][1] <= Top(t) /\ Top(t) \in Nat
        BY <1>2
      <4>3. r < Top(t)
        BY <4>1, <4>2
      <4> QED BY <2>1, <4>1, <4>3
    <3> QED BY <3>1, <3>2
  <2>4. RowsInPlace'
    BY <1>1, <1>3, <2>1, <2>2, <2>3 DEF RowsInPlace, InUnit
  <2>5. /\ written' = written /\ failed' = failed /\ succeeded' = succeeded
        /\ written[t] \subseteq live /\ failed \cap live = {}
    BY <2>1 DEF Balanced, LedgerInPlace, ledger
  <2>6. failed \cap live' = {}
    BY <2>3, <2>5
  <2>7. ASSUME NEW r \in written[t], r \notin live'
        PROVE  r >= Top(t)
    <3>1. r \in live /\ r \in Nat /\ ~(r < Top(t))
      BY <2>1, <2>2, <2>5, <2>7
    <3>2. Top(t) \in Nat
      BY <1>2
    <3> QED BY <3>1, <3>2
  <2>8. /\ phase'[t] = "drop"
        /\ written'[t] \subseteq live' \cup {r \in Names : r >= Top(t)'}
    BY <1>1, <1>3, <2>1, <2>2, <2>5, <2>7
  <2>9. \A u \in Tasks \ {t} :
            /\ written[u] = {} /\ phase'[u] \notin InUnit
    BY <1>1 DEF Balanced, LedgerInPlace
  <2>10. LedgerInPlace'
    BY <1>1, <1>3, <2>1, <2>5, <2>6, <2>8, <2>9 DEF Balanced, LedgerInPlace, InUnit
  <2> QED BY <1>4, <1>5, <1>6, <2>4, <2>10 DEF Balanced
<1> QED BY <1>7, <1>8, <1>9

(* Leaving a block takes the innermost name off the task's blocks, and off  *)
(* SQLite's savepoints, and gives the lock back with the outermost one.     *)
LEMMA LeaveShape ==
    ASSUME TypeOK, Balanced, NEW t \in Tasks, phase[t] \in InUnit,
           Leave(t), counter' = counter,
           savepoints' = Blocks(t) \ {Top(t)},
           NEW next,
           next \in IF Len(frames[t]) = 1 THEN {"idle"} ELSE {"body", "undo"},
           phase' = [phase EXCEPT ![t] = next]
    PROVE  /\ OwnerWorks' /\ BlocksAscend' /\ SavepointsAreBlocks'
           /\ phase'[t] = next
           /\ \A u \in Tasks \ {t} : phase'[u] = phase[u] /\ phase[u] \notin InUnit
                                    /\ frames'[u] = frames[u] /\ Blocks(u)' = Blocks(u)
           /\ Blocks(t)' = Blocks(t) \ {Top(t)}
           /\ Len(frames[t]) = 1 => Top(t) = frames[t][1]
           /\ Len(frames[t]) # 1 => frames'[t][1] = frames[t][1]
<1> DEFINE n == Len(frames[t])
<1>1. /\ frames[t] \in Seq(Nat) /\ frames[t] # <<>> /\ n \in Nat /\ n >= 1
      /\ DOMAIN frames[t] = 1 .. n /\ owner = t /\ depth = n
      /\ Top(t) = frames[t][n] /\ Top(t) \in Nat
      /\ \A u \in Tasks \ {t} : phase[u] \notin InUnit \cup {"reading"}
  BY TopFacts DEF Top
<1>2. /\ frames'[t] \in Seq(Nat) /\ Len(frames'[t]) = n - 1
      /\ DOMAIN frames'[t] = 1 .. n - 1
      /\ \A i \in 1 .. n - 1 : frames'[t][i] = frames[t][i]
  <2>1. frames'[t] = Pop(frames[t])
    BY DEF Leave, TypeOK
  <2> QED BY <1>1, <2>1, PopSeq
<1>3. /\ depth' = depth - 1 /\ owner' = IF n = 1 THEN NoTask ELSE t
      /\ phase'[t] = next
      /\ \A u \in Tasks \ {t} : phase'[u] = phase[u] /\ phase[u] \notin InUnit
                               /\ frames'[u] = frames[u] /\ Blocks(u)' = Blocks(u)
  BY <1>1 DEF Leave, Release, TypeOK, Blocks
<1>4. Blocks(t)' = Blocks(t) \ {Top(t)}
  <2>1. Blocks(t) = {frames[t][i] : i \in 1 .. n}
    BY <1>1 DEF Blocks
  <2>2. Blocks(t)' = {frames[t][i] : i \in 1 .. n - 1}
    BY <1>2 DEF Blocks
  <2>3. \A i \in 1 .. n - 1 : i \in 1 .. n /\ frames[t][i] # Top(t)
    <3>1. \A i \in 1 .. n - 1 : i \in 1 .. n /\ n \in 1 .. n /\ i < n
      BY <1>1
    <3>2. \A i \in 1 .. n - 1 : frames[t][i] < frames[t][n]
      BY <1>1, <3>1 DEF Balanced, BlocksAscend
    <3>3. \A i \in 1 .. n : frames[t][i] \in Nat
      BY <1>1
    <3> QED BY <1>1, <3>1, <3>2, <3>3
  <2>4. \A i \in 1 .. n : i \in 1 .. n - 1 \/ i = n
    BY <1>1
  <2> HIDE DEF n
  <2> QED BY <1>1, <2>1, <2>2, <2>3, <2>4
<1>5. OwnerWorks'
  <2>1. n = 1 => frames'[t] = <<>>
    BY <1>2
  <2>2. n # 1 => frames'[t] # <<>> /\ Len(frames'[t]) = n - 1
    <3>1. n # 1 => n - 1 # 0
      BY <1>1
    <3>2. Len(<<>>) = 0
      OBVIOUS
    <3> QED BY <1>2, <3>1, <3>2
  <2> QED BY <1>1, <1>3, <2>1, <2>2, LockAssumption DEF Balanced, OwnerWorks, InUnit
<1>6. BlocksAscend'
  <2>1. /\ \A i \in 1 .. n - 1 : frames'[t][i] \in 1 .. counter
        /\ \A i, j \in 1 .. n - 1 : i < j => frames'[t][i] < frames'[t][j]
    <3>1. \A i \in 1 .. n - 1 : i \in DOMAIN frames[t]
      BY <1>1
    <3> QED BY <1>2, <3>1 DEF Balanced, BlocksAscend
  <2>2. phase'[t] # "open"
    BY <1>3
  <2> HIDE DEF n
  <2> QED BY <1>2, <1>3, <2>1, <2>2 DEF Balanced, BlocksAscend, InUnit
<1>7. SavepointsAreBlocks'
  <2>1. n = 1 => Blocks(t)' = {}
    BY <1>2 DEF Blocks
  <2> QED BY <1>1, <1>3, <1>4, <2>1 DEF SavepointsAreBlocks, InUnit
<1>8. n # 1 => frames'[t][1] = frames[t][1]
  <2>1. n \in Nat /\ n >= 1 /\ \A i \in 1 .. n - 1 : frames'[t][i] = frames[t][i]
    BY <1>1, <1>2
  <2> HIDE DEF n
  <2>2. n # 1 => 1 \in 1 .. n - 1
    BY <2>1
  <2> QED BY <2>1, <2>2
<1> QED BY <1>1, <1>3, <1>4, <1>5, <1>6, <1>7, <1>8

LEMMA LeaveRows ==
    ASSUME TypeOK, Balanced, NEW t \in Tasks, phase[t] \in InUnit,
           Leave(t), counter' = counter, savepoints' = Blocks(t) \ {Top(t)},
           NEW next,
           next \in IF Len(frames[t]) = 1 THEN {"idle"} ELSE {"body", "undo"},
           phase' = [phase EXCEPT ![t] = next],
           live' = live,
           durable' = IF Len(frames[t]) = 1 THEN live ELSE durable
    PROVE  RowsInPlace'
<1>1. /\ phase'[t] = next
      /\ \A u \in Tasks \ {t} : phase'[u] = phase[u] /\ phase[u] \notin InUnit
      /\ Len(frames[t]) # 1 => frames'[t][1] = frames[t][1]
  BY LeaveShape
<1>2. CASE Len(frames[t]) = 1
  BY <1>1, <1>2 DEF Balanced, RowsInPlace, InUnit
<1>3. CASE Len(frames[t]) # 1
  BY <1>1, <1>3 DEF Balanced, RowsInPlace, InUnit
<1> QED BY <1>2, <1>3

LEMMA LeaveRaisingBalanced ==
    ASSUME TypeOK, Balanced, NEW t \in Tasks,
           phase[t] \in {"open", "drop"}, LeaveRaising(t),
           savepoints' = Blocks(t) \ {Top(t)},
           live' = live,
           durable' = IF Len(frames[t]) = 1 THEN live ELSE durable
    PROVE  Balanced'
<1> USE DEF Names
<1>1. PICK next \in IF Len(frames[t]) = 1 THEN {"idle"} ELSE {"body", "undo"} :
          phase' = [phase EXCEPT ![t] = next]
  BY DEF LeaveRaising
<1>2. Leave(t) /\ counter' = counter /\ phase[t] \in InUnit
  BY DEF LeaveRaising, InUnit
<1>3. /\ OwnerWorks' /\ BlocksAscend' /\ SavepointsAreBlocks'
      /\ phase'[t] = next
      /\ \A u \in Tasks \ {t} : phase'[u] = phase[u] /\ phase[u] \notin InUnit
                               /\ frames'[u] = frames[u] /\ Blocks(u)' = Blocks(u)
      /\ Blocks(t)' = Blocks(t) \ {Top(t)}
      /\ Len(frames[t]) = 1 => Top(t) = frames[t][1]
      /\ Len(frames[t]) # 1 => frames'[t][1] = frames[t][1]
  BY <1>1, <1>2, LeaveShape
<1>4. RowsInPlace'
  BY <1>1, <1>2, LeaveRows
<1> DEFINE gone == {r \in written[t] : r >= Top(t)}
<1>5. /\ failed' = failed \cup gone /\ succeeded' = succeeded
      /\ written'[t] = written[t] \ gone
      /\ \A u \in Tasks \ {t} : written'[u] = written[u] /\ written[u] = {}
  BY <1>3 DEF LeaveRaising, TypeOK, Balanced, LedgerInPlace
<1>6. /\ Top(t) \in Nat /\ \A b \in Blocks(t) : b \in Nat /\ b <= Top(t)
      /\ written[t] \subseteq 1 .. counter /\ counter \in Nat
      /\ live \subseteq 1 .. counter
      /\ \A r \in written[t] : r >= frames[t][1]
      /\ failed \cap live = {} /\ failed \cap Blocks(t) = {} /\ failed \subseteq 1 .. counter
  BY <1>2, TopFacts DEF Balanced, LedgerInPlace, RowsInPlace, TypeOK
<1>7. gone \cap live = {}
  <2>1. CASE phase[t] = "open"
    <3>1. Top(t) = counter /\ Top(t) \notin written[t]
      BY <2>1 DEF Balanced, BlocksAscend, LedgerInPlace
    <3> QED BY <1>6, <3>1
  <2>2. CASE phase[t] = "drop"
    <3>1. \A r \in live : r < Top(t)
      BY <1>2, <2>2 DEF Balanced, RowsInPlace
    <3> QED BY <1>6, <3>1
  <2> QED BY <2>1, <2>2
<1>8. written[t] \ gone \subseteq live
  <2>1. CASE phase[t] = "open"
    BY <2>1 DEF Balanced, LedgerInPlace
  <2>2. CASE phase[t] = "drop"
    <3>1. written[t] \subseteq live \cup {r \in Names : r >= Top(t)}
      BY <2>2 DEF Balanced, LedgerInPlace
    <3> QED BY <3>1
  <2> QED BY <2>1, <2>2
<1>9. gone \cap (Blocks(t) \ {Top(t)}) = {}
  BY <1>6
<1>10. Len(frames[t]) = 1 => written[t] \ gone = {}
  BY <1>3, <1>6
<1>11. gone \subseteq written[t]
  OBVIOUS
<1> HIDE DEF gone
<1>12. \A u \in Tasks \ {t} : gone \cap Blocks(u) = {}
  <2>1. \A u \in Tasks \ {t} : Blocks(u) = {}
    BY <1>3 DEF Balanced, OwnerWorks, Blocks, TypeOK
  <2> QED BY <2>1
<1>13. durable \subseteq durable' /\ succeeded \subseteq durable
  BY DEF Balanced, RowsInPlace, LedgerInPlace
<1>14. LedgerInPlace'
  <2>1. succeeded' \subseteq durable' /\ failed' \cap live' = {} /\ failed' \subseteq 1 .. counter'
    BY <1>2, <1>5, <1>6, <1>7, <1>11, <1>13
  <2>2. \A u \in Tasks : failed' \cap Blocks(u)' = {}
    BY <1>3, <1>5, <1>6, <1>9, <1>12 DEF Balanced, LedgerInPlace
  <2>3. /\ written'[t] \subseteq live' /\ written'[t] \subseteq 1 .. counter'
        /\ phase'[t] \notin InUnit => written'[t] = {}
        /\ phase'[t] \in InUnit => \A r \in written'[t] : r >= frames'[t][1]
        /\ phase'[t] # "open"
    BY <1>1, <1>2, <1>3, <1>5, <1>6, <1>8, <1>10 DEF InUnit
  <2> QED BY <1>3, <1>5, <2>1, <2>2, <2>3 DEF LedgerInPlace, InUnit
<1> QED BY <1>3, <1>4, <1>14 DEF Balanced

LEMMA LeaveDoneBalanced ==
    ASSUME TypeOK, Balanced, NEW t \in Tasks,
           phase[t] = "release", LeaveNormally(t) \/ LeaveCancelled(t),
           savepoints' = Blocks(t) \ {Top(t)},
           live' = live,
           durable' = IF Len(frames[t]) = 1 THEN live ELSE durable
    PROVE  Balanced'
<1> USE DEF Names
<1>1. PICK next \in IF Len(frames[t]) = 1 THEN {"idle"} ELSE {"body", "undo"} :
          phase' = [phase EXCEPT ![t] = next]
  BY DEF LeaveNormally, LeaveCancelled
<1>2. Leave(t) /\ counter' = counter /\ phase[t] \in InUnit
  BY DEF LeaveNormally, LeaveCancelled, InUnit
<1>3. /\ OwnerWorks' /\ BlocksAscend' /\ SavepointsAreBlocks'
      /\ phase'[t] = next
      /\ \A u \in Tasks \ {t} : phase'[u] = phase[u] /\ phase[u] \notin InUnit
                               /\ frames'[u] = frames[u] /\ Blocks(u)' = Blocks(u)
      /\ Blocks(t)' = Blocks(t) \ {Top(t)}
      /\ Len(frames[t]) = 1 => Top(t) = frames[t][1]
      /\ Len(frames[t]) # 1 => frames'[t][1] = frames[t][1]
  BY <1>1, <1>2, LeaveShape
<1>4. RowsInPlace'
  BY <1>1, <1>2, LeaveRows
<1>5. /\ failed' = failed
      /\ succeeded' \subseteq IF Len(frames[t]) = 1 THEN succeeded \cup written[t]
                                                   ELSE succeeded
      /\ written'[t] = IF Len(frames[t]) = 1 THEN {} ELSE written[t]
      /\ \A u \in Tasks \ {t} : written'[u] = written[u]
  BY DEF LeaveNormally, LeaveCancelled, TypeOK
<1>6. /\ written[t] \subseteq live /\ succeeded \subseteq durable /\ durable \subseteq live
      /\ failed \cap live = {} /\ failed \subseteq 1 .. counter
  BY DEF Balanced, LedgerInPlace, RowsInPlace
<1>7. LedgerInPlace'
  <2>1. CASE Len(frames[t]) = 1
    BY <1>1, <1>2, <1>3, <1>5, <1>6, <2>1 DEF Balanced, LedgerInPlace, InUnit
  <2>2. CASE Len(frames[t]) # 1
    BY <1>1, <1>2, <1>3, <1>5, <1>6, <2>2 DEF Balanced, LedgerInPlace, InUnit
  <2> QED BY <2>1, <2>2
<1> QED BY <1>3, <1>4, <1>7 DEF Balanced

(* RELEASE of the innermost block, in SQLite.                               *)
LEMMA ReleaseTop ==
    ASSUME TypeOK, Balanced, NEW t \in Tasks, phase[t] \in InUnit, phase[t] # "open",
           ReleaseSavepoint(Top(t))
    PROVE  /\ savepoints' = Blocks(t) \ {Top(t)}
           /\ live' = live
           /\ durable' = IF Len(frames[t]) = 1 THEN live ELSE durable
<1>1. /\ savepoints = Blocks(t) /\ Top(t) \in Nat
      /\ \A b \in Blocks(t) : b \in Nat /\ b <= Top(t)
  BY TopFacts DEF Balanced, SavepointsAreBlocks
<1>2. savepoints' = Blocks(t) \ {Top(t)}
  BY <1>1 DEF ReleaseSavepoint
<1>3. savepoints' = {} <=> Len(frames[t]) = 1
  <2>1. CASE Len(frames[t]) = 1
    BY <1>2, <2>1, TopFacts DEF Blocks, Top
  <2>2. CASE Len(frames[t]) # 1
    <3> DEFINE n == Len(frames[t])
    <3>0. n \in Nat /\ n >= 1 /\ n # 1 /\ DOMAIN frames[t] = 1 .. n
      BY <2>2, TopFacts
    <3> HIDE DEF n
    <3>4. 1 \in 1 .. n /\ n \in 1 .. n /\ 1 < n
      BY <3>0
    <3>1. 1 \in DOMAIN frames[t] /\ Len(frames[t]) \in DOMAIN frames[t] /\ 1 < Len(frames[t])
      BY <3>0, <3>4 DEF n
    <3>2. frames[t][1] < Top(t)
      BY <3>1 DEF Balanced, BlocksAscend, Top
    <3>3. frames[t][1] \in Blocks(t) /\ frames[t][1] # Top(t)
      BY <3>1, <3>2, TopFacts DEF Blocks
    <3> QED BY <1>2, <2>2, <3>3
  <2> QED BY <2>1, <2>2
<1> QED BY <1>2, <1>3 DEF ReleaseSavepoint

LEMMA InitBalanced == Init => Balanced
BY LockAssumption DEF Init, LockInit, Balanced, OwnerWorks, BlocksAscend, SavepointsAreBlocks,
   RowsInPlace, LedgerInPlace, InUnit, Blocks, Names

LEMMA NextBalanced ==
    ASSUME TypeOK, Balanced, [Next]_vars
    PROVE  Balanced'
<1>1. ASSUME NEW t \in Tasks, NEW what \in {"read", "write"}, Begin(t, what)
      PROVE  Balanced'
  <2>1. CASE TakeFree(t) /\ Admitted(t, what)
    <3>1. /\ phase[t] \in {"idle", "queued"} /\ owner = NoTask /\ owner' = t /\ depth' = 1
          /\ UNCHANGED <<dbVars, ledger>>
      BY <1>1, <2>1 DEF Begin, TakeFree
    <3> QED BY <2>1, <3>1, EnterBalanced
  <2>2. CASE ~(TakeFree(t) /\ Admitted(t, what))
    <3>1. /\ phase[t] = "idle" /\ phase' = [phase EXCEPT ![t] = "queued"]
          /\ UNCHANGED <<owner, depth, frames, counter, dbVars, ledger>>
      BY <1>1, <2>2 DEF Begin, Enqueue
    <3> QED BY <3>1, WaitBalanced
  <2> QED BY <2>1, <2>2
<1>2. ASSUME NEW t \in Tasks, Resume(t) PROVE Balanced'
  <2>1. /\ phase[t] \in {"idle", "queued"} /\ owner = NoTask /\ owner' = t /\ depth' = 1
        /\ Admitted(t, intent[t]) /\ UNCHANGED <<dbVars, ledger>>
    BY <1>2 DEF Resume, Wake
  <2> QED BY <2>1, EnterBalanced
<1>3. ASSUME NEW t \in Tasks, CancelWaiting(t) PROVE Balanced'
  <2>1. /\ phase[t] = "queued" /\ phase' = [phase EXCEPT ![t] = "idle"]
        /\ UNCHANGED <<owner, depth, frames, counter, dbVars, ledger>>
    BY <1>3 DEF CancelWaiting, Abandon
  <2> QED BY <2>1, WaitBalanced
<1>4. ASSUME NEW t \in Tasks, SavepointFails(t) PROVE Balanced'
  <2>1. /\ phase[t] = "open" /\ LeaveRaising(t) /\ UNCHANGED dbVars
        /\ phase[t] \in InUnit
    BY <1>4 DEF SavepointFails, InUnit
  <2>2. savepoints' = Blocks(t) \ {Top(t)}
    BY <2>1 DEF Balanced, SavepointsAreBlocks, dbVars
  <2>3. Len(frames[t]) = 1 => live = durable
    <3>1. /\ Top(t) = counter /\ Top(t) \notin live /\ live \subseteq 1 .. counter
          /\ durable \subseteq live /\ \A r \in live \ durable : r >= frames[t][1]
          /\ counter \in Nat
      BY <2>1 DEF Balanced, BlocksAscend, RowsInPlace, TypeOK
    <3>2. Len(frames[t]) = 1 => Top(t) = frames[t][1]
      BY DEF Top
    <3>3. SUFFICES ASSUME Len(frames[t]) = 1, NEW r \in live \ durable PROVE FALSE
      BY <3>1
    <3>4. r \in 1 .. counter /\ r >= counter /\ r # counter
      BY <3>1, <3>2, <3>3
    <3> QED BY <3>1, <3>4
  <2> QED BY <2>1, <2>2, <2>3, LeaveRaisingBalanced DEF dbVars
<1>5. ASSUME NEW t \in Tasks, Drop(t) PROVE Balanced'
  <2>1. /\ phase[t] = "drop" /\ LeaveRaising(t) /\ ReleaseSavepoint(Top(t))
        /\ phase[t] \in InUnit
    BY <1>5 DEF Drop, InUnit
  <2> QED BY <2>1, ReleaseTop, LeaveRaisingBalanced
<1>6. ASSUME NEW t \in Tasks, Commit(t) \/ CommitCancelled(t) PROVE Balanced'
  <2>1. /\ phase[t] = "release"
        /\ LeaveNormally(t) \/ LeaveCancelled(t)
        /\ ReleaseSavepoint(Top(t)) /\ phase[t] \in InUnit
    BY <1>6 DEF Commit, CommitCancelled, InUnit
  <2> QED BY <2>1, ReleaseTop, LeaveDoneBalanced
<1>7. ASSUME NEW t \in Tasks, ReadReturns(t) PROVE Balanced'
  <2>1. /\ phase[t] = "reading" /\ owner = t /\ depth = 1 /\ owner' = NoTask
        /\ phase' = [phase EXCEPT ![t] = "idle"]
        /\ UNCHANGED <<frames, counter, dbVars, ledger>>
    BY <1>7 DEF ReadReturns, Release, Balanced, OwnerWorks
  <2>2. /\ phase'[t] = "idle" /\ \A u \in Tasks \ {t} : phase'[u] = phase[u]
        /\ \A u \in Tasks : phase[u] \notin InUnit /\ frames[u] = <<>>
        /\ \A u \in Tasks \ {t} : phase[u] # "reading"
    BY <2>1 DEF TypeOK, Balanced, OwnerWorks, InUnit
  <2>3. OwnerWorks'
    BY <2>1, <2>2, LockAssumption DEF OwnerWorks, InUnit
  <2>4. BlocksAscend' /\ SavepointsAreBlocks'
    BY <2>1, <2>2 DEF Balanced, BlocksAscend, SavepointsAreBlocks, InUnit, Blocks, dbVars
  <2>5. RowsInPlace' /\ LedgerInPlace'
    BY <2>1, <2>2 DEF Balanced, RowsInPlace, LedgerInPlace, InUnit, Blocks, dbVars, ledger
  <2> QED BY <2>3, <2>4, <2>5 DEF Balanced
<1>8. CASE Crash
  <2>1. /\ owner' = NoTask /\ savepoints' = {} /\ live' = durable
        /\ \A u \in Tasks : phase'[u] = "idle" /\ frames'[u] = <<>> /\ written'[u] = {}
        /\ UNCHANGED <<counter, durable, succeeded, failed>>
    BY <1>8 DEF Crash
  <2>2. OwnerWorks' /\ BlocksAscend' /\ SavepointsAreBlocks'
    BY <2>1, LockAssumption DEF OwnerWorks, BlocksAscend, SavepointsAreBlocks, InUnit
  <2>3. RowsInPlace' /\ LedgerInPlace'
    BY <2>1 DEF Balanced, RowsInPlace, LedgerInPlace, InUnit, Blocks
  <2> QED BY <2>2, <2>3 DEF Balanced
<1>9. CASE UNCHANGED vars
  BY <1>9 DEF vars, lockVars, dbVars, ledger, Balanced, OwnerWorks, BlocksAscend,
     SavepointsAreBlocks, RowsInPlace, LedgerInPlace, Blocks, Top
<1> QED
  BY <1>1, <1>2, <1>3, <1>4, <1>5, <1>6, <1>7, <1>8, <1>9, NestBalanced,
     StatementBalanced DEF Next, Start, Proceed

-----------------------------------------------------------------------------
(* Every step of every schedule, whatever fails or is cancelled in it,      *)
(* keeps the types and the inductive invariant.                             *)
THEOREM InvariantHolds == Spec => [](TypeOK /\ Balanced)
<1>1. Init => TypeOK /\ Balanced
  BY InitType, InitBalanced
<1>2. TypeOK /\ Balanced /\ [Next]_vars => (TypeOK /\ Balanced)'
  BY NextType, NextBalanced DEF Balanced
<1> QED BY <1>1, <1>2, PTL DEF Spec

(* A unit of work that returned normally is durable (manager.transaction).  *)
THEOREM SuccessIsAlwaysDurable == Spec => []SuccessIsDurable
<1>1. TypeOK /\ Balanced => SuccessIsDurable
  BY DEF Balanced, LedgerInPlace, SuccessIsDurable
<1> QED BY <1>1, InvariantHolds, PTL

(* Rows of a block that raised are never committed.                         *)
THEOREM FailureNeverLeavesATrace == Spec => []FailureLeavesNoTrace
<1>1. TypeOK /\ Balanced => FailureLeavesNoTrace
  BY DEF Balanced, LedgerInPlace, RowsInPlace, FailureLeavesNoTrace
<1> QED BY <1>1, InvariantHolds, PTL

(* fetch_one()/fetch_all() never see an open unit of work.                  *)
THEOREM ReadsAreCommitted == Spec => []ReadersSeeCommitted
<1>1. TypeOK /\ Balanced => ReadersSeeCommitted
  <2>1. SUFFICES ASSUME TypeOK, Balanced, NEW t \in Tasks, phase[t] = "reading"
                 PROVE  live = durable
    BY DEF ReadersSeeCommitted
  <2>2. \A u \in Tasks : phase[u] \notin InUnit
    BY <2>1 DEF Balanced, OwnerWorks, InUnit
  <2> QED BY <2>1, <2>2 DEF Balanced, RowsInPlace
<1> QED BY <1>1, InvariantHolds, PTL

-----------------------------------------------------------------------------
(* The connection implements UnitsOfWork.                                   *)

LEMMA InitUnits == Init => Units!Init
BY DEF Init, LockInit, Units!Init

LEMMA StepUnits ==
    ASSUME TypeOK, Balanced, [Next]_vars
    PROVE  [Units!Next]_(Units!vars)
<1> DEFINE pending == live \ durable
<1> USE DEF Names
<1>0. SUFFICES ASSUME ~UNCHANGED <<owner, pending, durable>>
               PROVE  Units!Next
  BY DEF Units!vars
<1>1. (\A u \in Tasks : phase[u] \notin InUnit) => pending = {}
  BY DEF Balanced, RowsInPlace
<1>2. ASSUME NEW t \in Tasks, owner = NoTask, owner' = t, UNCHANGED dbVars
      PROVE  Units!Next
  <2>1. pending = {} /\ pending' = pending /\ durable' = durable
    BY <1>1, <1>2, LockAssumption DEF Balanced, OwnerWorks, dbVars
  <2> QED BY <1>2, <2>1 DEF Units!Next, Units!Enter
<1>3. ASSUME NEW t \in Tasks, owner = t, owner' = NoTask, pending' = {}, durable' = durable
      PROVE  Units!Next
  BY <1>3 DEF Units!Next, Units!Abandon
<1>4. ASSUME NEW t \in Tasks, NEW what \in {"read", "write"}, Begin(t, what)
      PROVE  Units!Next
  <2>1. CASE TakeFree(t)
    BY <1>2, <1>4, <2>1 DEF Begin, TakeFree
  <2>2. CASE ~TakeFree(t)
    BY <1>0, <1>4, <2>2 DEF Begin, Enqueue, dbVars
  <2> QED BY <2>1, <2>2
<1>5. ASSUME NEW t \in Tasks, Resume(t) PROVE Units!Next
  BY <1>2, <1>5 DEF Resume, Wake
<1>6. ASSUME NEW t \in Tasks, CancelWaiting(t) \/ BeginNested(t) PROVE Units!Next
  BY <1>0, <1>6 DEF CancelWaiting, Abandon, BeginNested, Reenter, dbVars
<1>7. ASSUME NEW t \in Tasks,
             SavepointOpened(t) \/ Write(t) \/ BodyRaises(t) \/ BodyReturns(t) \/ Undo(t)
      PROVE  Units!Next
  <2>1. /\ owner = t /\ owner' = owner /\ durable' = durable
        /\ phase[t] \in InUnit
    BY <1>7 DEF SavepointOpened, Write, BodyRaises, BodyReturns, Undo, lockVars, dbVars,
       RollbackTo, Balanced, OwnerWorks, InUnit
  <2>2. live' \subseteq Nat
    BY NextType DEF TypeOK, Balanced
  <2> QED BY <2>1, <2>2 DEF Units!Next, Units!Work
<1>8. ASSUME NEW t \in Tasks, SavepointFails(t) \/ Drop(t) PROVE Units!Next
  <2>1. /\ owner = t /\ phase[t] \in {"open", "drop"} /\ phase[t] \in InUnit
        /\ Leave(t) /\ depth = Len(frames[t])
    BY <1>8, TopFacts DEF SavepointFails, Drop, LeaveRaising, InUnit
  <2>2. live' = live /\ durable' = IF Len(frames[t]) = 1 THEN durable' ELSE durable
    BY <1>8, <2>1, ReleaseTop DEF SavepointFails, Drop, dbVars
  <2>3. CASE Len(frames[t]) # 1
    BY <1>0, <2>1, <2>2, <2>3 DEF Leave, Release
  <2>4. CASE Len(frames[t]) = 1
    <3>1. Top(t) = frames[t][1] /\ Top(t) \in Nat
      BY <2>1, <2>4, TopFacts DEF Top
    <3>2. durable \subseteq live /\ \A r \in live \ durable : r \in 1 .. counter /\ r >= Top(t)
      BY <2>1, <3>1 DEF Balanced, RowsInPlace
    <3>3. /\ phase[t] = "open" => Top(t) = counter /\ Top(t) \notin live
          /\ phase[t] = "drop" => \A r \in live : r < Top(t)
      BY <2>1 DEF Balanced, RowsInPlace, BlocksAscend
    <3>4. live \ durable = {}
      <4>1. SUFFICES ASSUME NEW r \in live \ durable PROVE FALSE
        OBVIOUS
      <4>2. r \in Nat /\ r >= Top(t) /\ (phase[t] = "open" => r <= Top(t) /\ r # Top(t))
        BY <3>1, <3>2, <3>3
      <4> QED BY <2>1, <3>1, <3>3, <4>2
    <3>5. durable' = live \/ durable' = durable
      BY <1>8, <2>1, <2>4, ReleaseTop DEF SavepointFails, Drop, dbVars
    <3>6. pending' = {} /\ durable' = durable
      BY <2>2, <3>2, <3>4, <3>5
    <3>7. owner' = NoTask
      BY <2>1, <2>4 DEF Leave, Release
    <3> QED BY <1>3, <2>1, <3>6, <3>7
  <2> QED BY <2>3, <2>4
<1>9. ASSUME NEW t \in Tasks, Commit(t) \/ CommitCancelled(t) PROVE Units!Next
  <2>1. /\ owner = t /\ phase[t] = "release" /\ phase[t] \in InUnit
        /\ Leave(t) /\ depth = Len(frames[t]) /\ ReleaseSavepoint(Top(t))
    BY <1>9, TopFacts DEF Commit, CommitCancelled, LeaveNormally, LeaveCancelled, InUnit
  <2>2. live' = live /\ durable' = IF Len(frames[t]) = 1 THEN live ELSE durable
    BY <2>1, ReleaseTop
  <2>3. CASE Len(frames[t]) # 1
    BY <1>0, <2>1, <2>2, <2>3 DEF Leave, Release
  <2>4. CASE Len(frames[t]) = 1
    <3>1. owner' = NoTask /\ durable \subseteq live
      BY <2>1, <2>4 DEF Leave, Release, Balanced, RowsInPlace
    <3>2. durable' = durable \cup pending /\ pending' = {}
      BY <2>2, <2>4, <3>1
    <3> QED BY <2>1, <3>1, <3>2 DEF Units!Next, Units!Commit
  <2> QED BY <2>3, <2>4
<1>10. ASSUME NEW t \in Tasks, ReadReturns(t) PROVE Units!Next
  <2>1. /\ owner = t /\ owner' = NoTask /\ UNCHANGED dbVars
        /\ \A u \in Tasks : phase[u] \notin InUnit
    BY <1>10 DEF ReadReturns, Release, Balanced, OwnerWorks, InUnit
  <2> QED BY <1>1, <1>3, <2>1 DEF dbVars
<1>11. CASE Crash
  <2>1. owner' = NoTask /\ pending' = {} /\ durable' = durable
    BY <1>11 DEF Crash
  <2>2. CASE owner = NoTask
    BY <1>0, <1>1, <2>1, <2>2, LockAssumption DEF Balanced, OwnerWorks
  <2>3. CASE owner \in Tasks
    BY <1>3, <2>1, <2>3
  <2> QED BY <2>2, <2>3 DEF TypeOK, LockTypeOK
<1>12. CASE UNCHANGED vars
  BY <1>0, <1>12 DEF vars, lockVars, dbVars
<1> QED
  BY <1>4, <1>5, <1>6, <1>7, <1>8, <1>9, <1>10, <1>11, <1>12
     DEF Next, Start, Proceed

(* One unit of work at a time, committed whole or not at all.               *)
THEOREM ConnectionImplementsUnits == Spec => UnitsAreAtomic
<1>1. TypeOK /\ Balanced /\ [Next]_vars => [Units!Next]_(Units!vars)
  BY StepUnits
<1> QED BY <1>1, InitUnits, InvariantHolds, PTL DEF Spec, Units!Spec, UnitsAreAtomic

-----------------------------------------------------------------------------
(* The faults that leave savepoints behind.                                  *)

LEMMA NoBlocks ==
    ASSUME NEW u, frames[u] = <<>>
    PROVE  Blocks(u) = {}
BY DEF Blocks

(* The innermost block of a task inside a unit, whatever the savepoints.    *)
LEMMA Innermost ==
    ASSUME TypeOK, OwnerWorks, BlocksAscend, NEW t \in Tasks, phase[t] \in InUnit
    PROVE  /\ frames[t] \in Seq(Nat) /\ frames[t] # <<>>
           /\ Len(frames[t]) \in Nat /\ Len(frames[t]) >= 1
           /\ DOMAIN frames[t] = 1 .. Len(frames[t])
           /\ Top(t) = frames[t][Len(frames[t])]
           /\ Top(t) \in Blocks(t) /\ Top(t) \in 1 .. counter /\ Top(t) \in Nat
           /\ frames[t][1] \in Blocks(t) /\ frames[t][1] \in Nat /\ frames[t][1] <= Top(t)
           /\ \A b \in Blocks(t) : b \in 1 .. counter /\ b \in Nat /\ b <= Top(t)
           /\ Len(frames[t]) = 1 => frames[t][1] = Top(t)
           /\ Len(frames[t]) # 1 => frames[t][1] < Top(t)
           /\ owner = t /\ depth = Len(frames[t])
           /\ \A u \in Tasks \ {t} :
                  phase[u] \notin InUnit \cup {"reading"} /\ Blocks(u) = {}
<1> USE DEF Names
<1> DEFINE n == Len(frames[t])
<1>1. /\ frames[t] \in Seq(Nat) /\ frames[t] # <<>> /\ n \in Nat /\ n >= 1
      /\ DOMAIN frames[t] = 1 .. n /\ Top(t) = frames[t][n] /\ counter \in Nat
  BY DEF OwnerWorks, TypeOK, Top
<1>2. /\ \A i \in 1 .. n : frames[t][i] \in 1 .. counter
      /\ \A i, j \in 1 .. n : i < j => frames[t][i] < frames[t][j]
  BY <1>1 DEF BlocksAscend
<1>3. /\ owner = t /\ depth = n
      /\ \A u \in Tasks \ {t} : phase[u] \notin InUnit \cup {"reading"} /\ frames[u] = <<>>
  BY DEF OwnerWorks, InUnit
<1>4. \A u \in Tasks \ {t} : Blocks(u) = {}
  BY <1>3, NoBlocks
<1>5. Blocks(t) = {frames[t][i] : i \in 1 .. n}
  BY <1>1 DEF Blocks
<1> HIDE DEF n
<1>6. 1 \in 1 .. n /\ n \in 1 .. n /\ (n # 1 => 1 < n)
      /\ \A i \in 1 .. n : i < n \/ i = n
  BY <1>1
<1>7. \A i \in 1 .. n :
          frames[t][i] \in 1 .. counter /\ frames[t][i] \in Nat /\ frames[t][i] <= Top(t)
  BY <1>1, <1>2, <1>6
<1>8. /\ Top(t) \in Blocks(t) /\ frames[t][1] \in Blocks(t)
      /\ \A b \in Blocks(t) : b \in 1 .. counter /\ b \in Nat /\ b <= Top(t)
      /\ n # 1 => frames[t][1] < Top(t)
  BY <1>1, <1>2, <1>5, <1>6, <1>7
<1> QED BY <1>1, <1>3, <1>4, <1>8 DEF n

(* What leaving a block does to the blocks of the task.                     *)
LEMMA LeaveStructure ==
    ASSUME TypeOK, OwnerWorks, BlocksAscend, NEW t \in Tasks, phase[t] \in InUnit,
           Leave(t), counter' = counter,
           NEW next,
           next \in IF Len(frames[t]) = 1 THEN {"idle"} ELSE {"body", "undo"},
           phase' = [phase EXCEPT ![t] = next]
    PROVE  /\ OwnerWorks' /\ BlocksAscend'
           /\ phase'[t] = next
           /\ \A u \in Tasks \ {t} : phase'[u] = phase[u] /\ Blocks(u)' = {}
           /\ \A b \in Blocks(t)' : b \in Blocks(t) /\ b < Top(t)
           /\ Len(frames[t]) # 1 => frames'[t][1] = frames[t][1]
<1> USE DEF Names
<1> DEFINE n == Len(frames[t])
<1>1. /\ frames[t] \in Seq(Nat) /\ frames[t] # <<>> /\ n \in Nat /\ n >= 1
      /\ DOMAIN frames[t] = 1 .. n /\ owner = t /\ depth = n
      /\ Top(t) = frames[t][n]
      /\ \A u \in Tasks \ {t} : phase[u] \notin InUnit \cup {"reading"} /\ Blocks(u) = {}
  BY Innermost
<1>2. /\ frames'[t] \in Seq(Nat) /\ Len(frames'[t]) = n - 1
      /\ DOMAIN frames'[t] = 1 .. n - 1
      /\ \A i \in 1 .. n - 1 : frames'[t][i] = frames[t][i]
  <2>1. frames'[t] = Pop(frames[t])
    BY DEF Leave, TypeOK
  <2> QED BY <1>1, <2>1, PopSeq
<1>3. /\ depth' = depth - 1 /\ owner' = IF n = 1 THEN NoTask ELSE t
      /\ phase'[t] = next
      /\ \A u \in Tasks \ {t} :
             phase'[u] = phase[u] /\ frames'[u] = frames[u] /\ Blocks(u)' = {}
  <2>1. \A u \in Tasks \ {t} : phase'[u] = phase[u] /\ frames'[u] = frames[u]
    BY DEF Leave, TypeOK
  <2>2. \A u \in Tasks \ {t} : Blocks(u)' = Blocks(u)
    BY <2>1 DEF Blocks
  <2>3. /\ depth' = depth - 1 /\ owner' = IF n = 1 THEN NoTask ELSE t
        /\ phase'[t] = next
    BY <1>1 DEF Leave, Release, TypeOK
  <2> QED BY <1>1, <2>1, <2>2, <2>3
<1>4. /\ \A i \in 1 .. n - 1 : i \in 1 .. n /\ i < n /\ n \in 1 .. n
      /\ n # 1 => 1 \in 1 .. n - 1 /\ n - 1 # 0
  <2>1. n \in Nat /\ n >= 1
    BY <1>1
  <2> HIDE DEF n
  <2> QED BY <2>1
<1>5. /\ \A i \in 1 .. n : frames[t][i] \in 1 .. counter
      /\ \A i, j \in 1 .. n : i < j => frames[t][i] < frames[t][j]
  BY <1>1 DEF BlocksAscend
<1>6. \A b \in Blocks(t)' : b \in Blocks(t) /\ b < Top(t)
  <2>1. Blocks(t)' = {frames[t][i] : i \in 1 .. n - 1}
    BY <1>2 DEF Blocks
  <2>2. Blocks(t) = {frames[t][i] : i \in 1 .. n}
    BY <1>1 DEF Blocks
  <2> HIDE DEF n
  <2> QED BY <1>1, <1>4, <1>5, <2>1, <2>2
<1>7. OwnerWorks'
  <2>1. n = 1 => frames'[t] = <<>>
    BY <1>2
  <2>2. n # 1 => frames'[t] # <<>>
    <3>1. Len(<<>>) = 0
      OBVIOUS
    <3> QED BY <1>2, <1>4, <3>1
  <2> QED BY <1>1, <1>2, <1>3, <2>1, <2>2, LockAssumption DEF OwnerWorks, InUnit
<1>8. BlocksAscend'
  <2>1. /\ \A i \in 1 .. n - 1 : frames'[t][i] \in 1 .. counter
        /\ \A i, j \in 1 .. n - 1 : i < j => frames'[t][i] < frames'[t][j]
    BY <1>2, <1>4, <1>5
  <2>2. phase'[t] # "open" /\ \A u \in Tasks \ {t} : phase'[u] # "open"
    BY <1>1, <1>3 DEF InUnit
  <2> HIDE DEF n
  <2> QED BY <1>2, <1>3, <2>1, <2>2 DEF BlocksAscend
<1>9. n # 1 => frames'[t][1] = frames[t][1]
  BY <1>2, <1>4
<1> QED BY <1>3, <1>6, <1>7, <1>8, <1>9

-----------------------------------------------------------------------------
(* The invariant, by kind of step.                                          *)

LEMMA EnterContained ==
    ASSUME TypeOK, Contained, NEW t \in Tasks, NEW what,
           phase[t] \in {"idle", "queued"},
           owner = NoTask, owner' = t, depth' = 1,
           Admitted(t, what), UNCHANGED <<dbVars, ledger>>
    PROVE  Contained'
<1> USE DEF Names
<1>0. /\ \A u \in Tasks : phase[u] \notin InUnit \cup {"reading"} /\ frames[u] = <<>>
      /\ \A u \in Tasks : written[u] = {}
      /\ counter \in Nat /\ savepoints \subseteq 1 .. counter
      /\ live \subseteq 1 .. counter /\ durable \subseteq live
      /\ failed \subseteq 1 .. counter /\ failed \cap durable = {}
      /\ \A r \in failed \cap live : \E s \in savepoints : s <= r
  BY LockAssumption DEF Contained, OwnerWorks, BlocksAreSaved, CommittedIsOlder,
     WrittenIsYounger, FailedIsHeldBack, HeldBack, TypeOK, LockTypeOK
<1>1. CASE SubmitSavepoint(t)
  <2> DEFINE m == counter + 1
  <2>1. counter' = m /\ frames' = [frames EXCEPT ![t] = <<m>>]
        /\ phase' = [phase EXCEPT ![t] = "open"]
    <3>1. frames[t] = <<>> /\ Append(<<>>, m) = <<m>>
      BY <1>0
    <3>2. frames' = [frames EXCEPT ![t] = Append(frames[t], m)]
      BY <1>1 DEF SubmitSavepoint
    <3> QED BY <1>1, <3>1, <3>2 DEF SubmitSavepoint
  <2>2. /\ frames'[t] = <<m>> /\ phase'[t] = "open" /\ Top(t)' = m /\ Blocks(t)' = {m}
        /\ frames'[t] # <<>> /\ Len(frames'[t]) = 1 /\ frames'[t][1] = m
    BY <2>1 DEF TypeOK, Top, Blocks
  <2>3. \A u \in Tasks \ {t} : frames'[u] = <<>> /\ phase'[u] = phase[u] /\ Blocks(u)' = {}
    BY <1>0, <2>1 DEF TypeOK, Blocks
  <2>4. OwnerWorks' /\ BlocksAscend'
    BY <1>0, <2>1, <2>2, <2>3 DEF OwnerWorks, BlocksAscend, InUnit, Top
  <2>5. BlocksAreSaved' /\ CommittedIsOlder' /\ WrittenIsYounger'
    BY <1>0, <2>1, <2>2, <2>3 DEF BlocksAreSaved, CommittedIsOlder, WrittenIsYounger,
       InUnit, dbVars, ledger
  <2>6. FailedIsHeldBack'
    <3>1. ASSUME NEW r \in failed \cap live PROVE HeldBack(r)'
      <4>1. PICK s \in savepoints : s <= r
        BY <1>0
      <4>2. s \in 1 .. counter /\ s < m
        BY <1>0
      <4> QED BY <1>0, <2>2, <2>3, <4>1, <4>2 DEF HeldBack, dbVars
    <3>2. \A u \in Tasks : failed \cap Blocks(u)' = {}
      BY <1>0, <2>2, <2>3
    <3>3. failed \subseteq 1 .. counter'
      BY <1>0, <2>1
    <3> QED BY <1>0, <3>1, <3>2, <3>3 DEF FailedIsHeldBack, dbVars, ledger
  <2> QED BY <2>4, <2>5, <2>6 DEF Contained
<1>2. CASE SubmitSelect(t)
  <2>1. /\ counter' = counter /\ frames' = frames
        /\ phase' = [phase EXCEPT ![t] = "reading"]
    BY <1>2 DEF SubmitSelect
  <2>2. \A u \in Tasks : phase'[u] \notin InUnit /\ Blocks(u)' = {}
    BY <1>0, <2>1 DEF TypeOK, InUnit, Blocks
  <2>3. OwnerWorks' /\ BlocksAscend'
    BY <1>0, <2>1 DEF OwnerWorks, BlocksAscend, InUnit, TypeOK
  <2>4. BlocksAreSaved' /\ CommittedIsOlder' /\ WrittenIsYounger'
    BY <1>0, <2>1, <2>2 DEF BlocksAreSaved, CommittedIsOlder, WrittenIsYounger, InUnit,
       dbVars, ledger
  <2>5. FailedIsHeldBack'
    BY <1>0, <2>1, <2>2 DEF FailedIsHeldBack, HeldBack, dbVars, ledger
  <2> QED BY <2>3, <2>4, <2>5 DEF Contained
<1> QED BY <1>1, <1>2 DEF Admitted

LEMMA WaitContained ==
    ASSUME TypeOK, Contained, NEW t \in Tasks, NEW next \in {"idle", "queued"},
           phase[t] \in {"idle", "queued"},
           phase' = [phase EXCEPT ![t] = next],
           UNCHANGED <<owner, depth, frames, counter, dbVars, ledger>>
    PROVE  Contained'
<1>1. \A u \in Tasks : phase'[u] = IF u = t THEN next ELSE phase[u]
  BY DEF TypeOK
<1>2. OwnerWorks'
  BY <1>1 DEF Contained, OwnerWorks, InUnit
<1>3. BlocksAscend' /\ BlocksAreSaved'
  BY <1>1 DEF Contained, BlocksAscend, BlocksAreSaved, InUnit, Blocks, Top, dbVars
<1>4. CommittedIsOlder' /\ WrittenIsYounger'
  BY <1>1 DEF Contained, CommittedIsOlder, WrittenIsYounger, InUnit, Top, dbVars, ledger
<1>5. FailedIsHeldBack'
  <2>1. \A u \in Tasks : Blocks(u)' = Blocks(u) /\ (phase'[u] \in InUnit => phase[u] \in InUnit)
    BY <1>1 DEF Blocks, InUnit
  <2>2. ASSUME NEW r \in failed \cap live PROVE HeldBack(r)'
    BY <2>1 DEF Contained, FailedIsHeldBack, HeldBack, dbVars
  <2> QED BY <2>1, <2>2 DEF Contained, FailedIsHeldBack, dbVars, ledger
<1> QED BY <1>2, <1>3, <1>4, <1>5 DEF Contained

LEMMA NestContained ==
    ASSUME TypeOK, Contained, NEW t \in Tasks, BeginNested(t)
    PROVE  Contained'
<1> USE DEF Names
<1> DEFINE n == Len(frames[t])
           m == counter + 1
<1>1. /\ phase[t] = "body" /\ phase[t] \in InUnit
      /\ owner = t /\ owner' = t /\ depth' = depth + 1
      /\ counter' = m /\ counter \in Nat
      /\ frames' = [frames EXCEPT ![t] = Append(frames[t], m)]
      /\ phase' = [phase EXCEPT ![t] = "open"]
      /\ UNCHANGED <<dbVars, ledger>>
  BY DEF BeginNested, Reenter, SubmitSavepoint, TypeOK, InUnit
<1>2. /\ frames[t] \in Seq(Nat) /\ frames[t] # <<>> /\ n \in Nat /\ n >= 1 /\ depth = n
      /\ DOMAIN frames[t] = 1 .. n
      /\ \A u \in Tasks \ {t} : phase[u] \notin InUnit \cup {"reading"} /\ Blocks(u) = {}
  BY <1>1, Innermost DEF Contained
<1>3. /\ frames'[t] \in Seq(Nat) /\ Len(frames'[t]) = n + 1
      /\ DOMAIN frames'[t] = 1 .. n + 1
      /\ frames'[t][n + 1] = m
      /\ \A i \in 1 .. n : frames'[t][i] = frames[t][i]
  <2>1. frames'[t] = Append(frames[t], m)
    BY <1>1 DEF TypeOK
  <2> QED BY <1>1, <1>2, <2>1, AppendSeq
<1>4. /\ phase'[t] = "open" /\ Top(t)' = m
      /\ \A u \in Tasks \ {t} :
             frames'[u] = frames[u] /\ phase'[u] = phase[u] /\ Blocks(u)' = {}
  <2>1. phase'[t] = "open" /\ Top(t)' = m
    BY <1>1, <1>3 DEF TypeOK, Top
  <2>2. \A u \in Tasks \ {t} : frames'[u] = frames[u] /\ phase'[u] = phase[u]
    BY <1>1 DEF TypeOK
  <2>3. \A u \in Tasks \ {t} : Blocks(u)' = Blocks(u)
    BY <2>2 DEF Blocks
  <2> QED BY <1>2, <2>1, <2>2, <2>3
<1>5. /\ \A i \in 1 .. n : frames[t][i] \in 1 .. counter
      /\ \A i, j \in 1 .. n : i < j => frames[t][i] < frames[t][j]
  BY <1>2 DEF Contained, BlocksAscend
<1>6. /\ \A i \in 1 .. n + 1 : i \in 1 .. n \/ i = n + 1
      /\ \A i, j \in 1 .. n + 1 : i < j => i \in 1 .. n
      /\ 1 .. n \subseteq 1 .. n + 1 /\ n + 1 \in 1 .. n + 1 /\ 1 \in 1 .. n
      /\ \A b \in 1 .. counter : b \in 1 .. m /\ b < m /\ b \in Nat
      /\ m \in 1 .. m /\ m \notin 1 .. counter
  BY <1>1, <1>2
<1>7. frames'[t][1] = frames[t][1] /\ frames'[t] # <<>>
  BY <1>3, <1>6
<1>8. Blocks(t)' = Blocks(t) \cup {m}
  <2>1. Blocks(t) = {frames[t][i] : i \in 1 .. n}
    BY <1>2 DEF Blocks
  <2>2. Blocks(t)' = {frames'[t][i] : i \in 1 .. n + 1}
    BY <1>3 DEF Blocks
  <2>3. /\ \A i \in 1 .. n + 1 : i \in 1 .. n \/ i = n + 1
        /\ n + 1 \in 1 .. n + 1
    BY <1>6
  <2>4. 1 .. n \subseteq 1 .. n + 1
    BY <1>6
  <2> HIDE DEF n, m
  <2> QED BY <1>3, <2>1, <2>2, <2>3, <2>4, Zenon
<1> HIDE DEF n, m
<1>9. OwnerWorks'
  BY <1>1, <1>2, <1>3, <1>4, <1>7 DEF Contained, OwnerWorks, InUnit
<1>10. BlocksAscend'
  <2>1. \A i \in 1 .. n + 1 : frames'[t][i] \in 1 .. counter'
    BY <1>1, <1>3, <1>5, <1>6
  <2>2. \A i, j \in 1 .. n + 1 : i < j => frames'[t][i] < frames'[t][j]
    BY <1>3, <1>5, <1>6
  <2>3. \A u \in Tasks \ {t} :
            /\ \A i \in DOMAIN frames'[u] : frames'[u][i] \in 1 .. counter'
            /\ \A i, j \in DOMAIN frames'[u] : i < j => frames'[u][i] < frames'[u][j]
            /\ phase'[u] # "open"
    BY <1>1, <1>2, <1>4, <1>6 DEF Contained, BlocksAscend, InUnit
  <2> QED BY <1>1, <1>3, <1>4, <2>1, <2>2, <2>3 DEF BlocksAscend
<1>11. BlocksAreSaved'
  BY <1>1, <1>2, <1>4, <1>6, <1>8 DEF Contained, BlocksAreSaved, InUnit, dbVars
<1>12. CommittedIsOlder' /\ WrittenIsYounger'
  BY <1>1, <1>2, <1>4, <1>6, <1>7
     DEF Contained, CommittedIsOlder, WrittenIsYounger, InUnit, dbVars, ledger
<1>13. FailedIsHeldBack'
  <2>1. \A u \in Tasks : failed \cap Blocks(u)' = {}
    BY <1>4, <1>6, <1>8 DEF Contained, FailedIsHeldBack
  <2>2. ASSUME NEW r \in failed \cap live PROVE HeldBack(r)'
    BY <1>1, <1>2, <1>4, <1>7 DEF Contained, FailedIsHeldBack, HeldBack, dbVars
  <2> QED BY <1>1, <1>6, <2>1, <2>2 DEF Contained, FailedIsHeldBack, dbVars, ledger
<1> QED BY <1>9, <1>10, <1>11, <1>12, <1>13 DEF Contained

LEMMA StatementContained ==
    ASSUME TypeOK, Contained, NEW t \in Tasks,
           SavepointOpened(t) \/ Write(t) \/ BodyRaises(t) \/ BodyReturns(t) \/ Undo(t)
    PROVE  Contained'
<1> USE DEF Names
<1>0. PICK next \in {"body", "undo", "release", "drop"} :
          phase' = [phase EXCEPT ![t] = next]
  BY DEF SavepointOpened, Write, BodyRaises, BodyReturns, Undo, TypeOK
<1>1. /\ phase[t] \in InUnit /\ UNCHANGED <<lockVars, frames, counter, durable, failed>>
      /\ phase'[t] = next
      /\ \A u \in Tasks \ {t} : phase'[u] = phase[u]
  BY <1>0 DEF SavepointOpened, Write, BodyRaises, BodyReturns, Undo, RollbackTo, InUnit,
     TypeOK, dbVars, ledger
<1>2. /\ Top(t) \in Blocks(t) /\ Top(t) \in 1 .. counter /\ Top(t) \in Nat
      /\ frames[t][1] \in Nat /\ frames[t][1] <= Top(t)
      /\ \A b \in Blocks(t) : b \in Nat /\ b <= Top(t)
      /\ \A u \in Tasks \ {t} : phase[u] \notin InUnit
  BY <1>1, Innermost DEF Contained
<1>3. /\ \A u \in Tasks : Blocks(u)' = Blocks(u) /\ Top(u)' = Top(u)
      /\ frames' = frames /\ counter' = counter
  BY <1>1 DEF Top, Blocks
<1>4. OwnerWorks' /\ BlocksAscend'
  BY <1>0, <1>1, <1>2, <1>3 DEF Contained, OwnerWorks, BlocksAscend, InUnit, lockVars
<1>5. BlocksAreSaved' /\ (\A s \in savepoints : s < frames[t][1] => s \in savepoints')
  <2>1. /\ savepoints' \subseteq 1 .. counter /\ Blocks(t) \subseteq savepoints'
        /\ \A s \in savepoints : s < frames[t][1] => s \in savepoints'
    <3>1. CASE SavepointOpened(t)
      BY <1>1, <1>2, <3>1 DEF SavepointOpened, Contained, BlocksAreSaved
    <3>2. CASE Undo(t)
      <4>1. savepoints' = {m \in savepoints : m <= Top(t)} /\ Blocks(t) \subseteq savepoints
            /\ savepoints \subseteq 1 .. counter
        BY <1>1, <3>2 DEF Undo, RollbackTo, Contained, BlocksAreSaved
      <4>2. \A s \in 1 .. counter : s < frames[t][1] => s <= Top(t)
        BY <1>2
      <4> QED BY <1>2, <4>1, <4>2
    <3>3. CASE Write(t) \/ BodyRaises(t) \/ BodyReturns(t)
      BY <1>1, <3>3 DEF Write, BodyRaises, BodyReturns, Contained, BlocksAreSaved, dbVars
    <3> QED BY <3>1, <3>2, <3>3
  <2> QED BY <1>1, <1>2, <1>3, <2>1 DEF BlocksAreSaved
<1>6. CommittedIsOlder' /\ WrittenIsYounger' /\ (live' \subseteq live \cup {Top(t)})
  <2>1. CASE SavepointOpened(t) \/ BodyRaises(t) \/ BodyReturns(t)
    <3>1. UNCHANGED <<live, written>> /\ next # "drop"
      BY <1>1, <2>1 DEF SavepointOpened, BodyRaises, BodyReturns, TypeOK, dbVars, ledger
    <3> QED BY <1>0, <1>1, <1>2, <1>3, <3>1
            DEF Contained, CommittedIsOlder, WrittenIsYounger, InUnit
  <2>2. CASE Write(t)
    <3>1. /\ live' = live \cup {Top(t)} /\ next # "drop" /\ next # "open"
          /\ written'[t] = written[t] \cup {Top(t)}
          /\ \A u \in Tasks \ {t} : written'[u] = written[u]
      BY <1>1, <2>2 DEF Write, TypeOK
    <3> QED BY <1>0, <1>1, <1>2, <1>3, <3>1
            DEF Contained, CommittedIsOlder, WrittenIsYounger, InUnit
  <2>3. CASE Undo(t)
    <3>1. live' = {r \in live : r < Top(t)} /\ written' = written
      BY <2>3 DEF Undo, RollbackTo, ledger
    <3>2. /\ durable \subseteq live /\ live \subseteq 1 .. counter
          /\ \A r \in durable : r < frames[t][1]
      BY <1>1 DEF Contained, CommittedIsOlder
    <3>3. durable \subseteq live' /\ live' \subseteq live
      <4>1. \A r \in 1 .. counter : r < frames[t][1] => r < Top(t)
        BY <1>2
      <4> QED BY <3>1, <3>2, <4>1
    <3> QED BY <1>0, <1>1, <1>2, <1>3, <3>1, <3>2, <3>3
            DEF Contained, CommittedIsOlder, WrittenIsYounger, InUnit
  <2> QED BY <2>1, <2>2, <2>3
<1>7. FailedIsHeldBack'
  <2>1. Top(t) \notin failed
    BY <1>2 DEF Contained, FailedIsHeldBack
  <2>2. ASSUME NEW r \in failed \cap live' PROVE HeldBack(r)'
    <3>1. PICK s \in savepoints : s <= r /\ s < frames[t][1]
      BY <1>1, <1>6, <2>1 DEF Contained, FailedIsHeldBack, HeldBack
    <3>2. s \in savepoints'
      BY <1>5, <3>1
    <3> QED BY <1>1, <1>2, <1>3, <3>1, <3>2 DEF HeldBack
  <2> QED BY <1>1, <1>3, <2>2 DEF Contained, FailedIsHeldBack
<1> QED BY <1>4, <1>5, <1>6, <1>7 DEF Contained

(* Leaving a block: nothing is committed with a savepoint on the stack, and *)
(* what the block is said to have lost (gone) is either out of sight or     *)
(* above the savepoint that the outermost block has left behind.            *)
LEMMA LeaveContained ==
    ASSUME TypeOK, Contained, NEW t \in Tasks, phase[t] \in InUnit,
           Leave(t), counter' = counter,
           NEW next,
           next \in IF Len(frames[t]) = 1 THEN {"idle"} ELSE {"body", "undo"},
           phase' = [phase EXCEPT ![t] = next],
           savepoints' \subseteq savepoints \cup {Top(t)},
           {m \in savepoints : m < Top(t)} \subseteq savepoints',
           live' \subseteq live, durable \subseteq live',
           durable' = durable \/ (savepoints' = {} /\ durable' = live'),
           NEW gone, gone \subseteq written[t], \A r \in gone : r >= Top(t),
           failed' = failed \cup gone,
           written'[t] \subseteq written[t],
           Len(frames[t]) = 1 => written'[t] = {},
           \A u \in Tasks \ {t} : written'[u] = written[u],
           gone \cap durable' = {},
           gone \cap live' = {} \/ (Len(frames[t]) = 1 /\ Top(t) \in savepoints')
    PROVE  Contained'
<1> USE DEF Names
<1>1. /\ OwnerWorks' /\ BlocksAscend'
      /\ phase'[t] = next
      /\ \A u \in Tasks \ {t} : phase'[u] = phase[u] /\ Blocks(u)' = {}
      /\ \A b \in Blocks(t)' : b \in Blocks(t) /\ b < Top(t)
      /\ Len(frames[t]) # 1 => frames'[t][1] = frames[t][1]
  BY LeaveStructure DEF Contained
<1>2. /\ Top(t) \in 1 .. counter /\ Top(t) \in Nat
      /\ frames[t][1] \in Blocks(t) /\ frames[t][1] \in Nat /\ frames[t][1] <= Top(t)
      /\ Len(frames[t]) = 1 => frames[t][1] = Top(t)
      /\ Len(frames[t]) # 1 => frames[t][1] < Top(t)
      /\ \A u \in Tasks \ {t} : phase[u] \notin InUnit
  BY Innermost DEF Contained
<1>3. /\ phase'[t] \in InUnit <=> Len(frames[t]) # 1
      /\ phase'[t] # "open" /\ phase'[t] # "drop"
      /\ \A u \in Tasks \ {t} : phase'[u] \notin InUnit
  BY <1>1, <1>2 DEF InUnit
<1>4. /\ savepoints \subseteq 1 .. counter
      /\ \A b \in Blocks(t) : b < Top(t) => b \in savepoints
  BY <1>2 DEF Contained, BlocksAreSaved
<1>5. /\ durable \subseteq live /\ live \subseteq 1 .. counter /\ counter \in Nat
      /\ \A r \in durable : r < frames[t][1]
  BY DEF Contained, CommittedIsOlder, TypeOK
<1>6. BlocksAreSaved'
  BY <1>1, <1>2, <1>3, <1>4 DEF BlocksAreSaved
<1>7. Len(frames[t]) # 1 => durable' = durable
  BY <1>2, <1>4
<1>8. CommittedIsOlder'
  BY <1>1, <1>3, <1>5, <1>7 DEF CommittedIsOlder
<1>9. /\ \A u \in Tasks : written[u] \subseteq 1 .. counter
      /\ \A r \in written[t] : r >= frames[t][1]
      /\ \A u \in Tasks \ {t} : written[u] = {}
  BY <1>2 DEF Contained, WrittenIsYounger
<1>10. WrittenIsYounger'
  BY <1>1, <1>3, <1>9 DEF WrittenIsYounger
<1>11. /\ failed \subseteq 1 .. counter /\ failed \cap durable = {}
       /\ failed \cap Blocks(t) = {}
       /\ \A r \in failed \cap live : \E s \in savepoints : s <= r /\ s < frames[t][1]
  BY DEF Contained, FailedIsHeldBack, HeldBack
<1>12. \A s \in savepoints : s < frames[t][1] => s \in savepoints'
  <2>1. \A s \in 1 .. counter : s < frames[t][1] => s < Top(t)
    BY <1>2
  <2> QED BY <1>4, <2>1
<1>13. failed' \cap durable' = {}
  <2>1. failed \cap durable' = {}
    BY <1>11, <1>12
  <2> QED BY <2>1
<1>14. \A u \in Tasks : failed' \cap Blocks(u)' = {}
  <2>1. gone \cap Blocks(t)' = {}
    <3>1. \A b \in Blocks(t)' : b \in Nat /\ b < Top(t)
      BY <1>1, Innermost DEF Contained
    <3> QED BY <1>2, <3>1
  <2> QED BY <1>1, <1>11, <2>1
<1>15. ASSUME NEW r \in failed' \cap live' PROVE HeldBack(r)'
  <2>1. CASE r \in failed
    BY <1>1, <1>3, <1>11, <1>12, <2>1 DEF HeldBack
  <2>2. CASE r \in gone
    <3>1. Len(frames[t]) = 1 /\ Top(t) \in savepoints' /\ r >= Top(t) /\ r \in Nat
      BY <1>9, <2>2
    <3> QED BY <1>2, <1>3, <3>1 DEF HeldBack
  <2> QED BY <2>1, <2>2
<1>16. FailedIsHeldBack'
  BY <1>9, <1>11, <1>13, <1>14, <1>15 DEF FailedIsHeldBack
<1> QED BY <1>1, <1>6, <1>8, <1>10, <1>16 DEF Contained

(* An exception leaves a block.                                             *)
LEMMA RaisingContained ==
    ASSUME TypeOK, Contained, NEW t \in Tasks,
           \/ SavepointFails(t) \/ SavepointCancelled(t)
           \/ UndoCancelled(t) \/ Drop(t) \/ CommitFails(t)
    PROVE  Contained'
<1> USE DEF Names
<1> DEFINE gone == {r \in written[t] : r >= Top(t)}
<1>1. phase[t] \in InUnit /\ LeaveRaising(t)
  BY DEF SavepointFails, SavepointCancelled, UndoCancelled, Drop, CommitFails, InUnit
<1>2. PICK next \in IF Len(frames[t]) = 1 THEN {"idle"} ELSE {"body", "undo"} :
          phase' = [phase EXCEPT ![t] = next]
  BY <1>1 DEF LeaveRaising
<1>3. /\ Leave(t) /\ counter' = counter
      /\ failed' = failed \cup gone
      /\ written'[t] = written[t] \ gone
      /\ \A u \in Tasks \ {t} : written'[u] = written[u]
  BY <1>1 DEF LeaveRaising, TypeOK
<1>4. /\ Top(t) \in Nat /\ frames[t][1] \in Nat /\ frames[t][1] <= Top(t)
      /\ Top(t) \in Blocks(t)
      /\ Len(frames[t]) = 1 => frames[t][1] = Top(t)
  BY <1>1, Innermost DEF Contained
<1>5. /\ durable \subseteq live /\ live \subseteq 1 .. counter /\ counter \in Nat
      /\ \A r \in durable : r < frames[t][1]
      /\ savepoints \subseteq 1 .. counter
      /\ written[t] \subseteq 1 .. counter /\ \A r \in written[t] : r >= frames[t][1]
  BY <1>1 DEF Contained, CommittedIsOlder, BlocksAreSaved, WrittenIsYounger, TypeOK
<1>6. Len(frames[t]) = 1 => written'[t] = {}
  BY <1>3, <1>4, <1>5
<1>7. \A r \in durable : r \in Nat /\ r < Top(t)
  <2>1. \A r \in 1 .. counter : r \in Nat /\ (r < frames[t][1] => r < Top(t))
    BY <1>4, <1>5
  <2>2. durable \subseteq 1 .. counter
    BY <1>5
  <2> QED BY <1>5, <2>1, <2>2
<1>8. gone \cap durable = {}
  BY <1>4, <1>7
<1>9. /\ savepoints' \subseteq savepoints \cup {Top(t)}
      /\ {m \in savepoints : m < Top(t)} \subseteq savepoints'
      /\ live' \subseteq live /\ durable \subseteq live'
      /\ durable' = durable \/ (savepoints' = {} /\ durable' = live')
      /\ gone \cap live' = {} \/ (Len(frames[t]) = 1 /\ Top(t) \in savepoints')
  <2>1. CASE SavepointFails(t) \/ SavepointCancelled(t)
    <3>1. Top(t) = counter /\ Top(t) \notin written[t]
      BY <2>1 DEF SavepointFails, SavepointCancelled, Contained, BlocksAscend, WrittenIsYounger
    <3>2. gone = {}
      BY <1>4, <1>5, <3>1
    <3>3. /\ savepoints' = savepoints \/ savepoints' = savepoints \cup {Top(t)}
          /\ live' = live /\ durable' = durable
      BY <2>1 DEF SavepointFails, SavepointCancelled, dbVars
    <3> HIDE DEF gone
    <3> QED BY <1>5, <3>2, <3>3
  <2>2. CASE UndoCancelled(t)
    <3>1. /\ live' = {r \in live : r < Top(t)} /\ durable' = durable
          /\ savepoints' = {m \in savepoints : m <= Top(t)}
      BY <2>2 DEF UndoCancelled, RollbackTo
    <3>2. \A m \in savepoints : m < Top(t) => m <= Top(t)
      BY <1>4, <1>5
    <3>3. savepoints' \subseteq savepoints /\ {m \in savepoints : m < Top(t)} \subseteq savepoints'
      BY <3>1, <3>2
    <3>4. live' \subseteq live /\ durable \subseteq live'
      BY <1>5, <1>7, <3>1
    <3>5. gone \cap live' = {}
      BY <1>4, <1>5, <3>1
    <3> HIDE DEF gone
    <3> QED BY <3>1, <3>3, <3>4, <3>5
  <2>3. CASE Drop(t)
    <3>1. /\ savepoints' = {m \in savepoints : m < Top(t)} /\ live' = live
          /\ durable' = IF savepoints' = {} THEN live ELSE durable
          /\ \A r \in live : r < Top(t)
      BY <1>1, <2>3 DEF Drop, ReleaseSavepoint, Contained, CommittedIsOlder
    <3>2. gone \cap live' = {}
      BY <1>4, <1>5, <3>1
    <3> HIDE DEF gone
    <3> QED BY <1>5, <3>1, <3>2
  <2>4. CASE CommitFails(t)
    <3>1. Len(frames[t]) = 1 /\ UNCHANGED dbVars /\ phase[t] = "release"
      BY <2>4 DEF CommitFails
    <3>2. Top(t) \in savepoints
      BY <1>1, <1>4, <3>1 DEF Contained, BlocksAreSaved
    <3> QED BY <1>5, <3>1, <3>2 DEF dbVars
  <2> QED BY <2>1, <2>2, <2>3, <2>4
<1>10. gone \cap durable' = {}
  BY <1>8, <1>9
<1>11. gone \subseteq written[t] /\ \A r \in gone : r >= Top(t)
  OBVIOUS
<1> HIDE DEF gone
<1> QED BY <1>1, <1>2, <1>3, <1>6, <1>9, <1>10, <1>11, LeaveContained

(* A block ends with its RELEASE.                                           *)
LEMMA DoneContained ==
    ASSUME TypeOK, Contained, NEW t \in Tasks, Commit(t) \/ CommitCancelled(t)
    PROVE  Contained'
<1> USE DEF Names
<1>1. /\ phase[t] \in InUnit /\ ReleaseSavepoint(Top(t))
      /\ LeaveNormally(t) \/ LeaveCancelled(t)
  BY DEF Commit, CommitCancelled, InUnit
<1>2. PICK next \in IF Len(frames[t]) = 1 THEN {"idle"} ELSE {"body", "undo"} :
          phase' = [phase EXCEPT ![t] = next]
  BY <1>1 DEF LeaveNormally, LeaveCancelled
<1>3. /\ Leave(t) /\ counter' = counter
      /\ failed' = failed \cup {}
      /\ written'[t] = IF Len(frames[t]) = 1 THEN {} ELSE written[t]
      /\ \A u \in Tasks \ {t} : written'[u] = written[u]
  BY <1>1 DEF LeaveNormally, LeaveCancelled, TypeOK
<1>4. /\ savepoints' = {m \in savepoints : m < Top(t)} /\ live' = live
      /\ durable' = IF savepoints' = {} THEN live ELSE durable
      /\ durable \subseteq live
  BY <1>1 DEF ReleaseSavepoint, Contained, CommittedIsOlder
<1> DEFINE gone == {}
<1>5. gone \subseteq written[t] /\ failed' = failed \cup gone
      /\ (\A r \in gone : r >= Top(t)) /\ gone \cap durable' = {} /\ gone \cap live' = {}
  BY <1>3
<1> HIDE DEF gone
<1> QED BY <1>1, <1>2, <1>3, <1>4, <1>5, LeaveContained

LEMMA InitContained == Init => Contained
BY LockAssumption DEF Init, LockInit, Contained, OwnerWorks, BlocksAscend, BlocksAreSaved,
   CommittedIsOlder, WrittenIsYounger, FailedIsHeldBack, InUnit, Blocks, Names

LEMMA NextContained ==
    ASSUME TypeOK, Contained, [LeakyNext]_vars
    PROVE  Contained'
<1>1. ASSUME NEW t \in Tasks, NEW what \in {"read", "write"}, Begin(t, what)
      PROVE  Contained'
  <2>1. CASE TakeFree(t) /\ Admitted(t, what)
    <3>1. /\ phase[t] \in {"idle", "queued"} /\ owner = NoTask /\ owner' = t /\ depth' = 1
          /\ UNCHANGED <<dbVars, ledger>>
      BY <1>1, <2>1 DEF Begin, TakeFree
    <3> QED BY <2>1, <3>1, EnterContained
  <2>2. CASE ~(TakeFree(t) /\ Admitted(t, what))
    <3>1. /\ phase[t] = "idle" /\ phase' = [phase EXCEPT ![t] = "queued"]
          /\ UNCHANGED <<owner, depth, frames, counter, dbVars, ledger>>
      BY <1>1, <2>2 DEF Begin, Enqueue
    <3> QED BY <3>1, WaitContained
  <2> QED BY <2>1, <2>2
<1>2. ASSUME NEW t \in Tasks, Resume(t) PROVE Contained'
  <2>1. /\ phase[t] \in {"idle", "queued"} /\ owner = NoTask /\ owner' = t /\ depth' = 1
        /\ Admitted(t, intent[t]) /\ UNCHANGED <<dbVars, ledger>>
    BY <1>2 DEF Resume, Wake
  <2> QED BY <2>1, EnterContained
<1>3. ASSUME NEW t \in Tasks, CancelWaiting(t) PROVE Contained'
  <2>1. /\ phase[t] = "queued" /\ phase' = [phase EXCEPT ![t] = "idle"]
        /\ UNCHANGED <<owner, depth, frames, counter, dbVars, ledger>>
    BY <1>3 DEF CancelWaiting, Abandon
  <2> QED BY <2>1, WaitContained
<1>4. ASSUME NEW t \in Tasks, ReadReturns(t) PROVE Contained'
  <2>1. /\ phase[t] = "reading" /\ owner = t /\ depth = 1 /\ owner' = NoTask
        /\ phase' = [phase EXCEPT ![t] = "idle"]
        /\ UNCHANGED <<frames, counter, dbVars, ledger>>
    BY <1>4 DEF ReadReturns, Release, Contained, OwnerWorks
  <2>2. /\ phase'[t] = "idle" /\ \A u \in Tasks \ {t} : phase'[u] = phase[u]
        /\ \A u \in Tasks : phase[u] \notin InUnit /\ frames[u] = <<>>
        /\ \A u \in Tasks \ {t} : phase[u] # "reading"
    BY <2>1 DEF TypeOK, Contained, OwnerWorks, InUnit
  <2>3. \A u \in Tasks : Blocks(u)' = Blocks(u) /\ phase'[u] \notin InUnit
    BY <2>1, <2>2 DEF Blocks, InUnit
  <2>4. OwnerWorks' /\ BlocksAscend'
    BY <2>1, <2>2, LockAssumption DEF OwnerWorks, BlocksAscend, InUnit
  <2>5. BlocksAreSaved' /\ CommittedIsOlder' /\ WrittenIsYounger'
    BY <2>1, <2>2, <2>3
       DEF Contained, BlocksAreSaved, CommittedIsOlder, WrittenIsYounger, InUnit, dbVars, ledger
  <2>6. ASSUME NEW r \in failed \cap live PROVE HeldBack(r)'
    BY <2>1, <2>3 DEF Contained, FailedIsHeldBack, HeldBack, dbVars
  <2>7. FailedIsHeldBack'
    BY <2>1, <2>3, <2>6 DEF Contained, FailedIsHeldBack, dbVars, ledger
  <2> QED BY <2>4, <2>5, <2>7 DEF Contained
<1>5. CASE Crash
  <2>1. /\ owner' = NoTask /\ savepoints' = {} /\ live' = durable
        /\ \A u \in Tasks : phase'[u] = "idle" /\ frames'[u] = <<>> /\ written'[u] = {}
        /\ UNCHANGED <<counter, durable, succeeded, failed>>
    BY <1>5 DEF Crash
  <2>2. \A u \in Tasks : Blocks(u)' = {}
    BY <2>1 DEF Blocks
  <2>3. OwnerWorks' /\ BlocksAscend'
    BY <2>1, LockAssumption DEF OwnerWorks, BlocksAscend, InUnit
  <2>4. BlocksAreSaved' /\ CommittedIsOlder' /\ WrittenIsYounger' /\ FailedIsHeldBack'
    BY <2>1, <2>2 DEF Contained, BlocksAreSaved, CommittedIsOlder, WrittenIsYounger,
       FailedIsHeldBack, InUnit
  <2> QED BY <2>3, <2>4 DEF Contained
<1>6. CASE UNCHANGED vars
  <2>1. UNCHANGED <<owner, depth, frames, phase, counter, dbVars, ledger>>
    BY <1>6 DEF vars, lockVars
  <2>2. \A u \in Tasks : Blocks(u)' = Blocks(u) /\ Top(u)' = Top(u)
    BY <2>1 DEF Blocks, Top
  <2>3. OwnerWorks' /\ BlocksAscend' /\ BlocksAreSaved'
    BY <2>1, <2>2 DEF Contained, OwnerWorks, BlocksAscend, BlocksAreSaved, dbVars
  <2>4. CommittedIsOlder' /\ WrittenIsYounger'
    BY <2>1, <2>2 DEF Contained, CommittedIsOlder, WrittenIsYounger, dbVars, ledger
  <2>5. ASSUME NEW r \in failed \cap live PROVE HeldBack(r)'
    BY <2>1 DEF Contained, FailedIsHeldBack, HeldBack, dbVars
  <2>6. FailedIsHeldBack'
    BY <2>1, <2>2, <2>5 DEF Contained, FailedIsHeldBack, dbVars, ledger
  <2> QED BY <2>3, <2>4, <2>6 DEF Contained
<1> QED
  BY <1>1, <1>2, <1>3, <1>4, <1>5, <1>6, NestContained, StatementContained,
     RaisingContained, DoneContained DEF LeakyNext, Leak, Next, Start, Proceed

(* The types: the three leaks leave a block like the other failures.        *)
LEMMA LeakType ==
    ASSUME TypeOK, OwnerWorks, BlocksAscend, NEW t \in Tasks, Leak(t)
    PROVE  TypeOK'
<1> USE DEF TypeOK, LockTypeOK, Phases, Names
<1>1. phase[t] \in InUnit /\ LeaveRaising(t)
  BY DEF Leak, SavepointCancelled, UndoCancelled, CommitFails, InUnit
<1>2. /\ frames[t] \in Seq(Nat) /\ frames[t] # <<>> /\ Top(t) \in Nat
      /\ owner = t /\ depth \in Nat /\ depth >= 1
  BY <1>1, Innermost
<1>3. savepoints' \subseteq Nat /\ live' \subseteq Nat /\ durable' \subseteq Nat
  BY <1>2 DEF Leak, SavepointCancelled, UndoCancelled, CommitFails, RollbackTo, dbVars
<1>4. Pop(frames[t]) \in Seq(Nat)
  BY <1>2, PopSeq
<1>5. LockTypeOK' /\ frames' \in [Tasks -> Seq(Nat)]
  BY <1>1, <1>2, <1>4 DEF LeaveRaising, Leave, Release
<1>6. phase' \in [Tasks -> Phases]
  BY <1>1 DEF LeaveRaising
<1> QED BY <1>1, <1>3, <1>5, <1>6 DEF LeaveRaising

-----------------------------------------------------------------------------
(* What a block that raised has written is never committed, neither by its  *)
(* own unit nor by another task's, even after a cancelled SAVEPOINT, a      *)
(* cancelled ROLLBACK TO or a COMMIT that raised has left a savepoint open  *)
(* (manager.transaction).                                                   *)
THEOREM LeaksLeaveNoTrace == LeakySpec => []FailureLeavesNoTrace
<1>1. Init => TypeOK /\ Contained
  BY InitType, InitContained
<1>2. TypeOK /\ Contained /\ [LeakyNext]_vars => (TypeOK /\ Contained)'
  <2>1. SUFFICES ASSUME TypeOK, Contained, [LeakyNext]_vars PROVE TypeOK'
    BY NextContained
  <2>2. ASSUME NEW t \in Tasks, Leak(t) PROVE TypeOK'
    BY <2>1, <2>2, LeakType DEF Contained
  <2>3. CASE [Next]_vars
    BY <2>1, <2>3, NextType DEF Contained
  <2> QED BY <2>1, <2>2, <2>3 DEF LeakyNext
<1>3. Contained => FailureLeavesNoTrace
  BY DEF Contained, FailedIsHeldBack, FailureLeavesNoTrace
<1> QED BY <1>1, <1>2, <1>3, PTL DEF LeakySpec
=============================================================================
