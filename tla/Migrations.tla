------------------------------- MODULE Migrations -------------------------------
(***************************************************************************)
(* The life of the database (database/manager.py): opening it under one    *)
(* build or another, refusing a schema that does not fit, the snapshot and *)
(* the migrations, each one unit of work with its record, the two workers, *)
(* and close() with its final flush.  A crash may come anywhere.           *)
(***************************************************************************)
EXTENDS Integers, Sequences, FiniteSetsExt

CONSTANTS
    None,
    Versions,       \* the catalog of the newest build is 1..Versions
    Creates,        \* objects of the schema each migration makes if missing
    Builds,         \* what may be started: [known, sum]
    SnapshotKeep,   \* database_migration_backup_keep
    MaxStarts,      \* bound on starts of the process
    MaxFaults       \* bound on errors, crashes and hanging workers

MigrationsAssumption ==
    /\ Versions \in Nat /\ SnapshotKeep \in Nat \ {0} /\ MaxStarts \in Nat /\ MaxFaults \in Nat
    /\ None # "" /\ \A b \in Builds : b.known \in 0..Versions /\ b.sum # None

Objects == UNION {Creates[v] : v \in 1..Versions}
Workers == {"flush", "maintenance"}
Checksums == {None, ""} \union {b.sum : b \in Builds}

VARIABLES
    build,      \* the build that runs, None without a process
    pc,         \* where connect() or close() stands
    record,     \* schema_migrations: the checksum per version, None without a row
    schema,     \* the objects in the file
    unit,       \* the uncommitted unit of work: None or [record, schema]
    snapshots,  \* verified pre-migration snapshots, oldest first
    found,      \* ghost: the schema that this start has found
    workers,    \* workers that run
    saving,     \* the flush worker is in the middle of a flush
    dirty,      \* caches hold something that is not in the file
    lost,       \* ghost: close() said it was fine and something was not saved
    starts, faults

vars == <<build, pc, record, schema, unit, snapshots, found, workers, saving, dirty, lost,
          starts, faults>>

TypeOK ==
    /\ build \in Builds \union {None}
    /\ pc \in {"off", "init", "check", "snapshot", "migrate", "open", "stopping", "closing"}
    /\ record \in [1..Versions -> Checksums] /\ schema \subseteq Objects
    /\ snapshots \in Seq(SUBSET Objects) /\ found \subseteq Objects
    /\ workers \subseteq Workers /\ {saving, dirty, lost} \subseteq BOOLEAN
    /\ starts \in 0..MaxStarts /\ faults \in 0..MaxFaults

Applied(r) == {v \in 1..Versions : r[v] # None}

(* A new file, or one that builds before the checksums have migrated.       *)
Init ==
    /\ build = None /\ pc = "off" /\ unit = None /\ snapshots = <<>> /\ found = {}
    /\ \E k \in 0..Versions :
        /\ record = [v \in 1..Versions |-> IF v <= k THEN "" ELSE None]
        /\ schema = UNION {Creates[v] : v \in 1..k}
    /\ workers = {} /\ saving = FALSE /\ dirty = FALSE /\ lost = FALSE
    /\ starts = 0 /\ faults = 0

Fault == faults < MaxFaults /\ faults' = faults + 1
Process == UNCHANGED <<build, starts>>
Runtime == UNCHANGED <<workers, saving, dirty, lost>>
File == UNCHANGED <<record, schema>>

-----------------------------------------------------------------------------
(* connect()                                                                 *)

Connect(b) ==
    /\ pc = "off" /\ starts < MaxStarts /\ starts' = starts + 1
    /\ build' = b /\ pc' = "init" /\ found' = schema
    /\ UNCHANGED <<unit, snapshots, faults>> /\ File /\ Runtime

(* Rows without a checksum are given the one of this build's catalog.       *)
Bootstrapped(r) == [v \in 1..Versions |-> IF r[v] = "" /\ v <= build.known THEN build.sum ELSE r[v]]

InitSchemaMigrations ==
    /\ pc = "init" /\ pc' = "check" /\ record' = Bootstrapped(record)
    /\ UNCHANGED <<schema, unit, snapshots, found, faults>> /\ Process /\ Runtime

(* The migrations this build does not know, and the ones it knows otherwise.*)
Unknown_None == {}
Unknown == {v \in Applied(record) : v > build.known}
Changed == {v \in Applied(record) : v <= build.known /\ record[v] # build.sum}
Pending == {v \in 1..build.known : record[v] = None}

Closed ==
    /\ pc' = "off" /\ build' = None /\ unit' = None
    /\ workers' = {} /\ saving' = FALSE

AssertSchemaCompatible ==
    /\ pc = "check"
    /\ IF Unknown \union Changed # {}
       THEN Closed
       ELSE /\ pc' = IF Pending = {} THEN "open" ELSE "snapshot"
            /\ workers' = IF Pending = {} THEN Workers ELSE {}
            /\ UNCHANGED <<build, unit, saving>>
    /\ UNCHANGED <<snapshots, found, dirty, lost, starts, faults>> /\ File

(* backup_database, under the lock; the oldest snapshots go once the new    *)
(* one has been verified.                                                    *)
Kept_Oldest(s) == IF Len(s) > SnapshotKeep THEN SubSeq(s, 1, SnapshotKeep) ELSE s
Kept(s) == IF Len(s) > SnapshotKeep THEN Tail(s) ELSE s

BackupDatabase ==
    /\ pc = "snapshot"
    /\ \/ pc' = "migrate" /\ snapshots' = Kept(Append(snapshots, schema))
          /\ UNCHANGED <<build, unit, workers, saving, faults>>
       \/ Fault /\ Closed /\ UNCHANGED snapshots
    /\ UNCHANGED <<found, dirty, lost, starts>> /\ File

(* The next pending migration and its record are one unit of work.          *)
Next1 == Min(Pending)

Recorded_Outside(u) == record' = u.record /\ schema' = schema
Recorded(u) == UNCHANGED <<record, schema>>

RunMigration ==
    /\ pc = "migrate" /\ Pending # {} /\ unit = None
    /\ unit' = [record |-> [record EXCEPT ![Next1] = build.sum],
                 schema |-> schema \union Creates[Next1]]
    /\ Recorded(unit') /\ UNCHANGED <<pc, snapshots, found, faults>> /\ Process /\ Runtime

MigrationDone ==
    /\ pc = "migrate" /\ unit # None /\ unit' = None
    /\ record' = unit.record /\ schema' = unit.schema
    /\ UNCHANGED <<pc, snapshots, found, faults>> /\ Process /\ Runtime

(* The unit is rolled back, the failure recorded and connect() fails.       *)
MigrationFails ==
    /\ pc = "migrate" /\ unit # None /\ Fault /\ Closed
    /\ UNCHANGED <<snapshots, found, dirty, lost, starts>> /\ File

Opened ==
    /\ pc = "migrate" /\ Pending = {} /\ unit = None
    /\ pc' = "open" /\ workers' = Workers
    /\ UNCHANGED <<unit, snapshots, found, saving, dirty, lost, faults>> /\ File /\ Process

Crash ==
    /\ pc # "off" /\ Fault /\ Closed /\ dirty' = FALSE
    /\ UNCHANGED <<snapshots, found, lost, starts>> /\ File

-----------------------------------------------------------------------------
(* The workers and close().                                                  *)

Change ==
    /\ pc = "open" /\ ~dirty /\ dirty' = TRUE
    /\ UNCHANGED <<pc, unit, snapshots, found, workers, saving, lost, faults>> /\ File /\ Process

(* _flush_loop, also on its way out after the stop event.                   *)
FlushLoop ==
    /\ "flush" \in workers /\ ~saving /\ saving' = TRUE
    /\ UNCHANGED <<pc, unit, snapshots, found, workers, dirty, lost, faults>> /\ File /\ Process

(* _flush_with_retry; three failures leave the rest for the next round.     *)
Flushed ==
    /\ saving /\ saving' = FALSE
    /\ \/ dirty' = FALSE /\ UNCHANGED faults
       \/ Fault /\ UNCHANGED dirty
    /\ workers' = IF pc = "open" THEN workers ELSE workers \ {"flush"}
    /\ UNCHANGED <<pc, unit, snapshots, found, lost>> /\ File /\ Process

(* run_maintenance prunes what has no state here.                           *)
MaintenanceLoop ==
    /\ pc = "stopping" /\ workers' = workers \ {"maintenance"} /\ workers' # workers
    /\ UNCHANGED <<pc, unit, snapshots, found, saving, dirty, lost, faults>> /\ File /\ Process

(* stop_background_tasks sets the stop event; what hangs is cancelled.      *)
Close ==
    /\ pc = "open" /\ pc' = "stopping"
    /\ UNCHANGED <<unit, snapshots, found, faults>> /\ File /\ Process /\ Runtime

StopTimedOut ==
    /\ pc = "stopping" /\ workers # {} /\ Fault
    /\ workers' = {} /\ saving' = FALSE
    /\ UNCHANGED <<pc, unit, snapshots, found, dirty, lost>> /\ File /\ Process

WorkersStopped ==
    /\ pc = "stopping" /\ workers = {} /\ pc' = "closing"
    /\ UNCHANGED <<unit, snapshots, found, faults>> /\ File /\ Process /\ Runtime

(* The final flush, then the connection; a flush that failed is an error.   *)
FinalFlush_None(ok) == UNCHANGED dirty /\ lost' = (ok /\ dirty)
FinalFlush(ok) == dirty' = (dirty /\ ~ok) /\ lost' = (ok /\ dirty')

ConnectionClosed ==
    /\ pc = "closing" /\ Closed
    /\ \/ FinalFlush(TRUE) /\ UNCHANGED faults
       \/ FinalFlush(FALSE) /\ Fault
    /\ UNCHANGED <<snapshots, found, starts>> /\ File

Next ==
    \/ \E b \in Builds : Connect(b)
    \/ InitSchemaMigrations \/ AssertSchemaCompatible \/ BackupDatabase \/ RunMigration
    \/ MigrationDone \/ MigrationFails \/ Opened \/ Crash
    \/ Change \/ FlushLoop \/ Flushed \/ MaintenanceLoop \/ Close \/ StopTimedOut
    \/ WorkersStopped \/ ConnectionClosed

Spec == Init /\ [][Next]_vars

-----------------------------------------------------------------------------
(* Whatever fails or crashes, the file holds exactly what its records say:  *)
(* the objects of the applied migrations, and these without a gap.          *)
SchemaIsRecorded ==
    /\ schema = UNION {Creates[v] : v \in Applied(record)}
    /\ \E k \in 0..Versions : Applied(record) = 1..k

(* The runtime works only on a schema that its own build has recorded, no   *)
(* older, newer or different one (assert_schema_compatible).                *)
ServesItsSchema ==
    pc \in {"open", "stopping", "closing"} =>
        \A v \in 1..Versions : record[v] = IF v <= build.known THEN build.sum ELSE None

(* While the schema changes, a verified snapshot of what this start found   *)
(* is kept (run_migrations).                                                 *)
SnapshotIsKept ==
    pc = "migrate" => \E i \in 1..Len(snapshots) : snapshots[i] = found

(* close() raises when something is left unsaved, and leaves no worker on   *)
(* the connection.                                                           *)
CloseIsHonest == ~lost /\ (pc \in {"off", "closing"} => workers = {} /\ ~saving)

(* What keeps them: an open unit is the next migration with its record, the *)
(* builds that get past the check have recorded nothing they do not know,   *)
(* and whoever saves is a worker that runs.                                 *)
UnitInv ==
    unit # None =>
        /\ pc = "migrate" /\ Pending # {}
        /\ unit = [record |-> [record EXCEPT ![Next1] = build.sum],
                   schema |-> schema \union Creates[Next1]]

ConnectInv ==
    /\ SnapshotIsKept /\ (pc # "off" => build \in Builds)
    /\ pc \in {"init", "check", "snapshot"} => found = schema
    /\ pc \in {"snapshot", "migrate", "open", "stopping", "closing"} => Unknown \union Changed = {}
    /\ pc \in {"open", "stopping", "closing"} => Pending = {}

WorkersInv ==
    /\ CloseIsHonest /\ (saving => "flush" \in workers)
    /\ pc \notin {"open", "stopping"} => workers = {}

SchemaInv == SchemaIsRecorded /\ UnitInv /\ ConnectInv /\ WorkersInv
===============================================================================
