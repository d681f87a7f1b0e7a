----------------------------- MODULE MCLifecycle -----------------------------
(***************************************************************************)
(* The life of the process and what an operator does to it, for TLC:       *)
(* sessions, startup and shutdown (Lifecycle), backups and restores        *)
(* (Backups), migrations (Migrations), the configuration (ConfigReload),   *)
(* alerts (Alerts), announcements of a version (Release), the profile      *)
(* (Profile) and the connection when a statement that ends a transaction   *)
(* fails (TransactionLeaks).  A behaviour follows one of them while the    *)
(* others rest; v1, v2, ... are its variables.                             *)
(***************************************************************************)
EXTENDS Lifecycle

CONSTANTS
    None, Absent, Bad, Global, t1, t2

Watched == {"dead", "room"}
TaskOf(k) == IF k = "dead" THEN t1 ELSE t2

(* Three migrations; the third adds a column that the second one adds, too. *)
Created ==
    [k \in 1..3 |-> CASE k = 1 -> {"users"} [] k = 2 -> {"outbox", "dead_at"}
                     [] k = 3 -> {"dead_at"}]

Known == {[known |-> 2, sum |-> "a"], [known |-> 3, sum |-> "a"], [known |-> 3, sum |-> "b"]}

AnyFault == {"waiting", "open fails", "body", "drop", "release", "crash"}
AnyLeak == {"open", "undo", "busy"}

VARIABLES
    part,       \* the component this behaviour follows
    v1, v2, v3, v4, v5, v6, v7, v8, v9, v10, v11, v12, v13, v14

Backup == INSTANCE Backups WITH
    Commands <- {t1}, Keep <- 1, MaxWrites <- 1, MaxArchives <- 3,
    MaxFaults <- 1, phase <- v1, ram <- v2, live <- v3, unit <- v4,
    archives <- v5, task <- v6, orphans <- v7, due <- v8, expected <- v9,
    cut <- v10, asked <- v11, writes <- v12, made <- v13, faults <- v14

Schema == INSTANCE Migrations WITH
    Versions <- 3, Creates <- Created, Builds <- Known, SnapshotKeep <- 1,
    MaxStarts <- 3, MaxFaults <- 2, build <- v1, pc <- v2, record <- v3,
    schema <- v4, unit <- v5, snapshots <- v6, found <- v7, workers <- v8,
    saving <- v9, dirty <- v10, lost <- v11, starts <- v12, faults <- v13

Settings == INSTANCE ConfigReload WITH
    Tasks <- {t1, t2}, MaxValue <- 2, MaxEdits <- 3, file <- v1, config <- v2,
    boot <- v3, limiter <- v4, constants <- v5, running <- v6, task <- v7,
    unread <- v8, raced <- v9, edits <- v10

Alert == INSTANCE Alerts WITH
    Reported <- {"dead"}, Rooms <- {"room"}, MaxChanges <- 3, MaxFaults <- 2,
    cond <- v1, configured <- v2, snap <- v3, todo <- v4, since <- v5,
    long <- v6, state <- v7, sending <- v8, said <- v9, changes <- v10,
    faults <- v11

Announce == INSTANCE Release WITH
    Versions <- 1..3, MaxStarts <- 4, MaxFaults <- 2, code <- v1, pc <- v2,
    done <- v3, owner <- v4, note <- v5, announced <- v6, record <- v7,
    told <- v8, sent <- v9, twice <- v10, cut <- v11, starts <- v12,
    faults <- v13

Card == INSTANCE Profile WITH
    MaxVersion <- 2, MaxEdits <- 2, MaxSessions <- 3, MaxFaults <- 2,
    files <- v1, marks <- v2, server <- v3, pc <- v4, read <- v5, ok <- v6,
    unmarked <- v7, settled <- v8, edits <- v9, sessions <- v10, faults <- v11

Conn == INSTANCE TransactionLeaks WITH
    Tasks <- {t1, t2}, NoTask <- None, MaxDepth <- 3, MaxName <- 3,
    Faults <- AnyFault, Leaks <- AnyLeak, owner <- v1, depth <- v2, queue <- v3, phase <- v4,
    intent <- v5, frames <- v6, counter <- v7, savepoints <- v8, live <- v9,
    durable <- v10, written <- v11, succeeded <- v12, failed <- v13

pool == <<v1, v2, v3, v4, v5, v6, v7, v8, v9, v10, v11, v12, v13, v14>>
allVars == <<part, vars, pool>>

(* The variables that a component does not use stay None.                   *)
HostInit == Init /\
    \/ part = "lifecycle" /\ v1 = None /\ v2 = None /\ v3 = None /\ v4 = None
       /\ v5 = None /\ v6 = None /\ v7 = None /\ v8 = None /\ v9 = None
       /\ v10 = None /\ v11 = None /\ v12 = None /\ v13 = None /\ v14 = None
    \/ part = "backups" /\ Backup!Init
    \/ part = "schema" /\ Schema!Init /\ v14 = None
    \/ part = "settings" /\ Settings!Init /\ v11 = None /\ v12 = None
       /\ v13 = None /\ v14 = None
    \/ part = "alerts" /\ Alert!Init /\ v12 = None /\ v13 = None /\ v14 = None
    \/ part = "release" /\ Announce!Init /\ v14 = None
    \/ part = "profile" /\ Card!Init /\ v12 = None /\ v13 = None /\ v14 = None
    \/ part = "faults" /\ Conn!Init /\ v14 = None

In(p, A) == part = p /\ A /\ UNCHANGED <<part, vars>>

HostNext ==
    \/ part = "lifecycle" /\ Next /\ UNCHANGED <<part, pool>>
    \/ In("backups", Backup!Next)
    \/ In("schema", Schema!Next /\ UNCHANGED <<v14>>)
    \/ In("settings", Settings!Next /\ UNCHANGED <<v11, v12, v13, v14>>)
    \/ In("alerts", Alert!Next /\ UNCHANGED <<v12, v13, v14>>)
    \/ In("release", Announce!Next /\ UNCHANGED <<v14>>)
    \/ In("profile", Card!Next /\ UNCHANGED <<v12, v13, v14>>)
    \/ In("faults", Conn!LeakyNext /\ UNCHANGED <<v14>>)

(* The fairness of each component's own specification.  Only one of the     *)
(* components moves, so that the actions of several may share a condition.  *)
Base(A) == part = "lifecycle" /\ A /\ UNCHANGED <<part, pool>>
Steps(A, B, C, D) ==
    \/ Base(A)
    \/ In("backups", B)
    \/ In("alerts", C /\ UNCHANGED <<v12, v13, v14>>)
    \/ In("faults", D /\ UNCHANGED <<v14>>)

HostSpec ==
    /\ HostInit /\ [][HostNext]_allVars
    /\ WF_allVars(Steps(LinkOpens, Backup!Worker, Alert!Poll, Conn!LeakyProceed(t1)))
    /\ WF_allVars(Steps(SessionStarts, Backup!Unit, Alert!TimePasses("dead"), Conn!LeakyProceed(t2)))
    /\ WF_allVars(Steps(closing /\ LinkLost, FALSE, Alert!TimePasses("room"), FALSE))
    /\ WF_allVars(Steps(StartupPhaseDone \/ StartupFails, FALSE, Alert!Sends("poll"), FALSE))
    /\ WF_allVars(Steps(ReconnectStep, FALSE, Alert!Sends("report"), FALSE))
    /\ WF_allVars(Base(StopStep)) /\ \A g \in Sessions : WF_allVars(Base(SessionStep(g)))


ASSUME BackupsAssumption == Backup!BackupsAssumption
ASSUME SchemaAssumption == Schema!MigrationsAssumption
ASSUME SettingsAssumption == Settings!ConfigReloadAssumption
ASSUME AlertsAssumption == Alert!AlertsAssumption
ASSUME ReleaseAssumption == Announce!ReleaseAssumption
ASSUME ProfileAssumption == Card!ProfileAssumption
ASSUME ConnectionAssumption ==
    Conn!LockAssumption /\ Conn!TransactionsAssumption /\ Conn!LeaksAssumption

(* The type invariants of all of them.                                      *)
TypesOK ==
    /\ TypeOK
    /\ part = "backups" => Backup!TypeOK
    /\ part = "schema" => Schema!TypeOK
    /\ part = "settings" => Settings!TypeOK
    /\ part = "alerts" => Alert!TypeOK
    /\ part = "release" => Announce!TypeOK
    /\ part = "profile" => Card!TypeOK

(* Backups and Migrations: whatever is restored, pruned, migrated or cut    *)
(* off, the data are there and whole; TransactionLeaks: what a failed unit  *)
(* wrote is never committed, whatever it left behind.                       *)
DataIsSafe ==
    /\ part = "backups" =>
        Backup!RestoreIsWhole /\ Backup!SafetyIsThere /\ Backup!DatabaseIsThere
    /\ part = "schema" =>
        /\ Schema!SchemaIsRecorded /\ Schema!ServesItsSchema
        /\ Schema!SnapshotIsKept /\ Schema!CloseIsHonest
    /\ part = "faults" => Conn!FailureLeavesNoTrace


(* Lifecycle: the bot serves again or the process ends; Backups: an archive *)
(* that has grown old is replaced; Alerts: a condition that lasts is        *)
(* announced, and so is its end; TransactionLeaks: a task that waits for   *)
(* the connection is served.                                                *)
Owed(k) ==
    \/ part = "lifecycle"
    \/ part = "backups" /\ Backup!Stale
    \/ part = "alerts" /\ Alert!Untold(k)
    \/ part = "faults" /\ Conn!Queued(TaskOf(k))

Settled(k) ==
    /\ part = "lifecycle" => main = "ended" \/ (runtimeReady /\ ~exiting)
    /\ part = "backups" => Backup!Renewed
    /\ part = "alerts" => Alert!Told(k)
    /\ part = "faults" => ~Conn!Queued(TaskOf(k))

WorkSettles == \A k \in Watched : Owed(k) ~> Settled(k)
===============================================================================
