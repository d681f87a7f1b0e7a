-------------------------------- MODULE Backups --------------------------------
(***************************************************************************)
(* Managed backups (utils/backups.py, core_plugins/backups.py): archives   *)
(* are created by commands and by the periodic worker, tested, pruned, and *)
(* restored under a stopped runtime, after which the process must restart. *)
(* Files are numbers that stand for their contents.  The building of an    *)
(* archive runs in a thread, which a cancellation does not stop.           *)
(***************************************************************************)
EXTENDS Integers, FiniteSets, FiniteSetsExt

CONSTANTS
    None,
    Commands,       \* commands that may run at the same time
    Keep,           \* backup_keep
    MaxWrites,      \* bound on changes of the data
    MaxArchives,    \* bound on archives made
    MaxFaults       \* bound on errors, cancellations and crashes

BackupsAssumption ==
    /\ Keep \in Nat \ {0} /\ "worker" \notin Commands
    /\ MaxWrites \in Nat /\ MaxArchives \in Nat /\ MaxFaults \in Nat
    /\ \A w \in 0..MaxWrites : w # None

Actors == Commands \union {"worker"}
Files == {"db", "config"}       \* the other support files are treated as the configuration
Contents == 0..MaxWrites \union {None}
Managed == [no : 1..MaxArchives, db : Contents, config : Contents, safety : BOOLEAN]

VARIABLES
    phase,      \* "up", "down" (runtime stopped, process alive) or "gone"
    ram,        \* the data in the caches
    live,       \* the files
    unit,       \* a unit of work with writes is open on the shared connection
    archives,   \* managed archives: [no, db, config, safety]
    task,       \* what every actor does
    orphans,    \* archives that are built for nobody
    due,        \* the newest archive has reached the interval
    expected,   \* ghost: what the files hold when a restore has ended, if it says so
    cut,        \* ghost: archives whose creation was interrupted
    asked,      \* ghost: archives an administrator's prune removed
    writes, made, faults

vars == <<phase, ram, live, unit, archives, task, orphans, due, expected, cut, asked,
          writes, made, faults>>

Idle == [op |-> "idle", pc |-> "end", no |-> None, db |-> None, chosen |-> None,
         before |-> None, todo |-> {}]

Tasks ==
    [op : {"idle", "create", "restore"},
     pc : {"end", "check", "flush", "copying", "build", "test", "prune", "verify", "quiesce",
           "publish", "restart"},
     no : 1..MaxArchives \union {None}, db : Contents, chosen : Managed \union {None},
     before : [Files -> Contents] \union {None}, todo : SUBSET Files]

TypeOK ==
    /\ phase \in {"up", "down", "gone"} /\ ram \in 0..MaxWrites /\ unit \in BOOLEAN
    /\ live \in [Files -> Contents] /\ archives \subseteq Managed
    /\ task \in [Actors -> Tasks] /\ orphans \subseteq [db : Contents]
    /\ due \in BOOLEAN /\ cut \union asked \subseteq 1..MaxArchives
    /\ writes \in 0..MaxWrites /\ made \in 0..MaxArchives /\ faults \in 0..MaxFaults

Init ==
    /\ phase = "up" /\ ram = 0 /\ live = [f \in Files |-> 0] /\ unit = FALSE
    /\ archives = {} /\ task = [a \in Actors |-> Idle] /\ orphans = {} /\ due = TRUE
    /\ expected = {} /\ cut = {} /\ asked = {}
    /\ writes = 0 /\ made = 0 /\ faults = 0

At(a, op, pc) == task[a].op = op /\ task[a].pc = pc
Making(a, pc) == task[a].pc = pc
Goes(a, pc) == task' = [task EXCEPT ![a].pc = pc]
Ends(a) == task' = [task EXCEPT ![a] = Idle]
Fault == faults < MaxFaults /\ faults' = faults + 1
Copying == \E a \in Actors : task[a].pc = "copying"
Rest == UNCHANGED <<writes, made, asked>>

-----------------------------------------------------------------------------
(* The runtime changes its data, stores it and writes units of work.        *)

Write ==
    /\ phase = "up" /\ writes < MaxWrites /\ writes' = writes + 1
    /\ \/ ram' = writes + 1 /\ UNCHANGED live
       \/ live' = [live EXCEPT !["config"] = writes + 1] /\ UNCHANGED ram
    /\ UNCHANGED <<phase, unit, archives, task, orphans, due, expected, cut, asked, made, faults>>

Flush ==
    /\ phase = "up" /\ ~Copying /\ live["db"] # ram /\ live' = [live EXCEPT !["db"] = ram]
    /\ UNCHANGED <<phase, ram, unit, archives, task, orphans, due, expected, cut, faults>> /\ Rest

(* Both statements of the unit are executed by the connection's thread.     *)
Unit ==
    /\ phase = "up" /\ ~Copying /\ unit' = ~unit
    /\ UNCHANGED <<phase, ram, live, archives, task, orphans, due, expected, cut, faults>> /\ Rest

(* The newest archive reaches the interval while the process runs.          *)
Ages ==
    /\ ~due /\ due' = TRUE /\ phase = "up" /\ made < MaxArchives
    /\ UNCHANGED <<phase, ram, live, unit, archives, task, orphans, expected, cut, faults>> /\ Rest

-----------------------------------------------------------------------------
(* create_backup.  A restore runs it for its safety archive, without test   *)
(* and pruning.                                                              *)

Starts(a, op, chosen) ==
    /\ task[a] = Idle /\ phase = "up" /\ made < MaxArchives
    /\ task' = [task EXCEPT ![a] = [Idle EXCEPT !.op = op, !.chosen = chosen,
                                        !.pc = IF op = "create" THEN "flush" ELSE "check"]]

BackupCreate(a) ==
    /\ a \in Commands /\ Starts(a, "create", None)
    /\ UNCHANGED <<phase, ram, live, unit, archives, orphans, due, expected, cut, faults>> /\ Rest

(* periodic_backup_worker                                                    *)
WorkerCreates_First ==
    /\ archives = {} /\ Starts("worker", "create", None)
    /\ UNCHANGED <<phase, ram, live, unit, archives, orphans, due, expected, cut, faults>> /\ Rest

WorkerCreates ==
    /\ due /\ Starts("worker", "create", None)
    /\ UNCHANGED <<phase, ram, live, unit, archives, orphans, due, expected, cut, faults>> /\ Rest

Flushed(a) ==
    /\ Making(a, "flush") /\ ~Copying /\ Goes(a, "copying")
    /\ live' = IF phase = "up" THEN [live EXCEPT !["db"] = ram] ELSE live
    /\ UNCHANGED <<phase, ram, unit, archives, orphans, due, expected, cut, faults>> /\ Rest

(* The connection's own backup waits, in the connection's only thread, for  *)
(* as long as the connection has uncommitted writes.                         *)
Locked == unit

Snapshot(a) ==
    /\ Making(a, "copying") /\ ~Locked
    /\ task' = [task EXCEPT ![a] = [@ EXCEPT !.pc = "build", !.db = live["db"]]]
    /\ UNCHANGED <<phase, ram, live, unit, archives, orphans, due, expected, cut, faults>> /\ Rest

Archive(db, safety) ==
    /\ made < MaxArchives /\ made' = made + 1
    /\ archives' = archives \union
         {[no |-> made + 1, db |-> db, config |-> live["config"], safety |-> safety]}

Built(a) ==
    /\ Making(a, "build") /\ Archive(task[a].db, task[a].op = "restore") /\ due' = FALSE
    /\ task' = [task EXCEPT ![a] = [@ EXCEPT !.no = made + 1, !.db = None,
                                        !.pc = IF task[a].op = "create" THEN "test" ELSE "verify"]]
    /\ UNCHANGED <<phase, ram, live, unit, orphans, expected, cut, asked, writes, faults>>

Published(no) == CHOOSE x \in archives : x.no = no
Exists(no) == \E x \in archives : x.no = no

(* smoke_test_backup, and the deletion of an archive that fails it.         *)
SmokePasses_Anything(x) == TRUE
SmokePasses(x) == x.db # None

Tested(a) ==
    /\ Making(a, "test") /\ Goes(a, "prune")
    /\ Exists(task[a].no) => SmokePasses(Published(task[a].no))
    /\ UNCHANGED <<phase, ram, live, unit, archives, orphans, due, expected, cut, faults>> /\ Rest

Refused(a) ==
    /\ Making(a, "test") /\ Ends(a)
    /\ \/ Exists(task[a].no) /\ ~SmokePasses(Published(task[a].no)) /\ UNCHANGED faults
       \/ Fault
    /\ archives' = {x \in archives : x.no # task[a].no}
    /\ UNCHANGED <<phase, ram, live, unit, orphans, due, expected, cut>> /\ Rest

(* prune_old_backups keeps the newest ones.                                 *)
Newer(no) == {x \in archives : x.no > no}

Pruned_Newest(keep) == {x \in archives : Cardinality({y \in archives : y.no < x.no}) >= keep}
Pruned(keep) == {x \in archives : Cardinality(Newer(x.no)) >= keep}

PruneOld(a) ==
    /\ Making(a, "prune") /\ archives' = archives \ Pruned(Keep) /\ Ends(a)
    /\ UNCHANGED <<phase, ram, live, unit, orphans, due, expected, cut, faults>> /\ Rest

BackupPrune(keep) ==
    /\ phase = "up" /\ Pruned(keep) # {}
    /\ archives' = archives \ Pruned(keep) /\ asked' = asked \union {x.no : x \in Pruned(keep)}
    /\ UNCHANGED <<phase, ram, live, unit, task, orphans, due, expected, cut, writes, made, faults>>

(* An error ends a creation before it has published anything; a timeout or  *)
(* a shutdown cancels it anywhere, and the thread builds on, with the       *)
(* temporary snapshot of the database or without it.                        *)
Interrupted(a) ==
    LET t == task[a] IN
    /\ t.op = "create" /\ Fault /\ Ends(a)
    /\ \/ t.pc \in {"flush", "build"} /\ UNCHANGED <<orphans, cut>>
       \/ /\ t.pc = "build"
          /\ \E db \in {t.db, None} : orphans' = orphans \union {[db |-> db]}
          /\ UNCHANGED cut
       \/ /\ t.pc = "test" /\ cut' = cut \union {t.no} /\ UNCHANGED orphans
    /\ UNCHANGED <<phase, ram, live, unit, archives, due, expected>> /\ Rest

OrphanBuilt ==
    \E o \in orphans :
        /\ orphans' = orphans \ {o} /\ Archive(o.db, FALSE) /\ due' = FALSE
        /\ cut' = cut \union {made + 1}
        /\ UNCHANGED <<phase, ram, live, unit, task, expected, asked, writes, faults>>

-----------------------------------------------------------------------------
(* restore_backup.                                                           *)

BackupRestore(a) ==
    \E x \in archives :
        /\ a \in Commands /\ Starts(a, "restore", x)
        /\ \A b \in Actors : task[b].op # "restore"
        /\ UNCHANGED <<phase, ram, live, unit, archives, orphans, due, expected, cut, faults>> /\ Rest

(* The archive is tested and its files are staged before anything stops.    *)
Staged(a) ==
    /\ At(a, "restore", "check")
    /\ IF task[a].chosen \in archives /\ SmokePasses(task[a].chosen)
       THEN Goes(a, "flush") ELSE Ends(a)
    /\ UNCHANGED <<phase, ram, live, unit, archives, orphans, due, expected, cut, faults>> /\ Rest

SafetyVerified(a) ==
    /\ At(a, "restore", "verify")
    /\ IF Exists(task[a].no) THEN Goes(a, "quiesce") ELSE Ends(a)
    /\ UNCHANGED <<phase, ram, live, unit, archives, orphans, due, expected, cut, faults>> /\ Rest

(* shutdown_runtime stores the caches, closes the database and stops the    *)
(* worker; a shutdown that is not clean ends the restore and the process.   *)
Quiesced_Open(files) == UNCHANGED phase /\ UNCHANGED live
Quiesced(files) == phase' = "down" /\ live' = files

Quiesce(a) ==
    LET files == [live EXCEPT !["db"] = ram] IN
    /\ At(a, "restore", "quiesce") /\ phase = "up" /\ ~Copying /\ ~unit
    /\ \/ /\ Quiesced(files) /\ UNCHANGED faults
          /\ task' = [task EXCEPT !["worker"] = Idle,
                         ![a] = [@ EXCEPT !.pc = "publish", !.before = files, !.todo = Files]]
       \/ /\ Fault /\ phase' = "down" /\ live' \in {live, files}
          /\ task' = [task EXCEPT !["worker"] = Idle, ![a] = [@ EXCEPT !.pc = "restart"]]
    /\ orphans' = IF task["worker"].pc = "build" THEN orphans \union {[db |-> None]} ELSE orphans
    /\ cut' = IF task["worker"].pc = "test" THEN cut \union {task["worker"].no} ELSE cut
    /\ UNCHANGED <<ram, unit, archives, due, expected>> /\ Rest

Publish(a) ==
    LET t == task[a] IN
    \E f \in t.todo :
        /\ t.pc = "publish" /\ live' = [live EXCEPT ![f] = t.chosen[f]]
        /\ task' = [task EXCEPT ![a] = [t EXCEPT !.todo = t.todo \ {f},
                                            !.pc = IF t.todo = {f} THEN "restart" ELSE t.pc]]
        /\ expected' = IF t.todo = {f} THEN {[g \in Files |-> t.chosen[g]]} ELSE {}
        /\ UNCHANGED <<phase, ram, unit, archives, orphans, due, cut, faults>> /\ Rest

(* The files are put back from the copies made after the shutdown; that may *)
(* fail as well.                                                             *)
RolledBack_Rest(t) == [f \in Files |-> IF f \in t.todo THEN t.before[f] ELSE live[f]]
RolledBack(t) == t.before

PublishFails(a) ==
    /\ At(a, "restore", "publish") /\ Fault /\ Goes(a, "restart")
    /\ \/ live' = RolledBack(task[a]) /\ expected' = {task[a].before}
       \/ expected' = {} /\ UNCHANGED live
    /\ UNCHANGED <<phase, ram, unit, archives, orphans, due, cut>> /\ Rest

(* _request_restore_restart                                                  *)
ProcessEnds ==
    /\ phase' = "gone" /\ phase # "gone" /\ task' = [a \in Actors |-> Idle] /\ orphans' = {}
    /\ unit' = FALSE
    /\ \/ (\E a \in Actors : Making(a, "restart")) /\ UNCHANGED <<faults, cut>>
       \/ Fault /\ cut' = cut \union {task[a].no : a \in {b \in Actors : Making(b, "test")}}
    /\ UNCHANGED <<ram, live, archives, due, expected>> /\ Rest

Boot ==
    /\ phase = "gone" /\ live["db"] # None /\ phase' = "up" /\ ram' = live["db"]
    /\ expected' = {}
    /\ UNCHANGED <<live, unit, archives, task, orphans, due, cut, faults>> /\ Rest

(* What the supervisor and the connection's thread bring about.             *)
Worker ==
    \/ WorkerCreates \/ \E a \in Actors : Snapshot(a)
    \/ \E a \in {"worker"} : Flushed(a) \/ Built(a) \/ Tested(a) \/ Refused(a) \/ PruneOld(a)

Next ==
    \/ Write \/ Flush \/ Unit \/ Ages \/ OrphanBuilt \/ ProcessEnds \/ Boot \/ Worker
    \/ \E keep \in 1..Keep : BackupPrune(keep)
    \/ \E a \in Commands :
        \/ BackupCreate(a) \/ BackupRestore(a) \/ Flushed(a) \/ Built(a)
        \/ Tested(a) \/ Refused(a) \/ PruneOld(a) \/ Staged(a) \/ SafetyVerified(a)
        \/ Quiesce(a) \/ Publish(a) \/ PublishFails(a)
    \/ \E a \in Actors : Interrupted(a)

Spec == Init /\ [][Next]_vars /\ WF_vars(Worker) /\ WF_vars(Unit)

-----------------------------------------------------------------------------
(* When the process ends after a restore, every file is the archive's, or   *)
(* every file is what it was when the runtime had stopped; nothing of the   *)
(* old process overwrites them (restore_backup).                            *)
RestoreIsWhole == expected # {} => live \in expected /\ phase # "up"

(* While files are replaced, and when a restore ended half-way, its safety  *)
(* archive is there with a database, unless Keep newer archives have        *)
(* displaced it or an administrator has pruned it.                          *)
SafetyIsThere ==
    \A a \in Actors : task[a].op = "restore" /\ task[a].pc \in {"publish", "restart"} =>
        \/ \E x \in archives : x.no = task[a].no /\ x.safety /\ x.db # None
        \/ task[a].no \in asked \/ made - task[a].no >= Keep

(* Only an interrupted creation leaves an archive without a database, and   *)
(* no restore uses it: the database never goes missing.                     *)
DatabaseIsThere ==
    /\ live["db"] # None
    /\ \A x \in archives : x.db = None =>
        x.no \in cut \/ \E a \in Actors : Making(a, "test") /\ task[a].no = x.no

(* What keeps them.  Archives have numbers of their own; only what an       *)
(* interrupted creation left is without a database.                         *)
ArchivesInv ==
    /\ \A x \in archives : x.no <= made /\ (x.db = None => x.no \in cut)
    /\ \A x, y \in archives : x.no = y.no => x = y

(* A creation and a restore go their own ways; a restore is a command's and *)
(* has chosen an archive with a database before it goes on.                 *)
WayInv(a) ==
    LET t == task[a] IN
    /\ t.op = "idle" => t.pc = "end"
    /\ t.op = "create" => t.pc \in {"flush", "copying", "build", "test", "prune"}
    /\ t.op = "restore" =>
        /\ t.pc \in {"check", "flush", "copying", "build", "verify", "quiesce", "publish", "restart"}
        /\ a \in Commands /\ t.chosen \in Managed /\ (t.pc # "check" => t.chosen.db # None)
    /\ t.pc = "build" => t.db # None

(* What a creation may still delete is no safety archive; a restore's own   *)
(* is there from the moment it was built.                                   *)
Kept(no) ==
    \/ \E x \in archives : x.no = no /\ x.safety /\ x.db # None
    \/ no \in asked \/ made - no >= Keep

OwnInv(a) ==
    LET t == task[a] IN
    /\ t.pc \in {"test", "verify", "quiesce", "publish", "restart"} => t.no \in 1..made
    /\ t.pc = "test" => \A x \in archives : x.no = t.no => ~x.safety
    /\ t.pc \in {"verify", "quiesce", "publish", "restart"} => Kept(t.no)

(* A restore that publishes is alone with the files.                        *)
PublishInv(a) ==
    LET t == task[a] IN
    t.pc = "publish" =>
        /\ phase = "down" /\ expected = {} /\ t.todo # {}
        /\ t.before \in [Files -> Contents] /\ t.before["db"] # None
        /\ \A f \in Files \ t.todo : live[f] = t.chosen[f]

AloneInv == \A a, b \in Actors : task[a].op = "restore" /\ task[b].op = "restore" => a = b

BackupsInv ==
    /\ ArchivesInv /\ AloneInv /\ RestoreIsWhole /\ live["db"] # None
    /\ \A a \in Actors : WayInv(a) /\ OwnInv(a) /\ PublishInv(a)

Standstill == Copying /\ unit

(* The connection never waits for itself: a snapshot and another task's     *)
(* open unit of work do not block each other (DatabaseManager.transaction). *)
ConnectionServes == ~Standstill

(* The periodic worker replaces an archive that has grown old, or its       *)
(* process does not serve.                                                   *)
Stale == due /\ phase = "up" /\ made < MaxArchives
Renewed == ~due \/ phase # "up" \/ Standstill \/ made = MaxArchives
BackupsAreRenewed == Stale ~> Renewed
=============================================================================
