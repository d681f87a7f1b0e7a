--------------------------------- MODULE Ducks ---------------------------------
(***************************************************************************)
(* The duck game in one room (plugins/ducks.py): messages are counted      *)
(* towards a threshold, a duck is scheduled and spawned by a task, and is  *)
(* caught by a player or expires.  The cycle of a room is kept in a row    *)
(* that every plugin shares: any access to it suspends when that row has   *)
(* to be loaded, and then other messages, commands and tasks run.          *)
(***************************************************************************)
EXTENDS Integers, FiniteSets, Functions

CONSTANTS
    MaxHandlers,  \* messages and commands of the room that may be in progress
    Limits,       \* values of max_ducks_per_day, 0 for no limit
    MaxThreshold, \* thresholds are drawn from 1..MaxThreshold
    SaveEvery,    \* state_save_every
    MaxDucks,     \* bound on ducks that are scheduled
    MaxEvents     \* bound on admins' commands, new days, failing accesses and restarts

DucksAssumption ==
    /\ MaxThreshold \in Nat \ {0} /\ SaveEvery \in Nat \ {0}
    /\ MaxDucks \in Nat /\ MaxEvents \in Nat

VARIABLES
    enabled, limit, timed, \* persisted: the switch, the daily limit, whether ducks time out
    kept,      \* persisted: DUCKS_STATE, the cycle [count, threshold] of the room
    daily,     \* persisted: DUCKS_DAILY, the ducks of this day
    stats,     \* persisted: the catches that the players' statistics count
    active,    \* ACTIVE_DUCKS: the duck in the room, 0 for none
    pending,   \* PENDING_DUCKS
    count,     \* MESSAGE_COUNTS, -1 when a duck is scheduled
    threshold, \* NEXT_DUCK_THRESHOLDS, 0 when not loaded
    spawnTask, \* SPAWN_TASKS: the duck whose task is registered, 0 for none
    expireTask,\* EXPIRE_TASKS
    spawns,    \* where the task that spawns a duck is
    expires,   \* where the task that expires a duck is
    at,        \* how many handlers are where: they are alike
    caught,    \* ghost: the ducks a player has caught, and which of them were lost
    crossed,   \* ghost: a task was cut off halfway, or undid what another one had set
    events

settings == <<enabled, limit, timed>>
tasks == <<spawnTask, expireTask, spawns, expires>>
ghosts == <<caught, crossed>>
vars ==
    <<settings, kept, daily, stats, active, pending, count, threshold, tasks, at, ghosts, events>>

Ducks == 1..MaxDucks
Places == {"load", "daily", "save", "schedule", "caught", "record", "reset", "off", "cleanup"}

TypeOK ==
    /\ enabled \in BOOLEAN /\ limit \in Limits /\ timed \in BOOLEAN
    /\ kept \in [count : Nat, threshold : 0..MaxThreshold]
    /\ daily \in Nat /\ stats \in Nat
    /\ {active, spawnTask, expireTask} \subseteq 0..MaxDucks /\ pending \in BOOLEAN
    /\ count \in Nat \union {-1} /\ threshold \in 0..MaxThreshold
    /\ spawns \in [Ducks -> {"none", "asleep", "check", "reset", "cancelled", "done"}]
    /\ expires \in [Ducks -> {"none", "untimed", "asleep", "cancelled", "done"}]
    /\ at \in [Places -> Nat]
    /\ caught \in [by : SUBSET Ducks, lost : Nat]
    /\ crossed \in BOOLEAN /\ events \in 0..MaxEvents

Empty == [count |-> 0, threshold |-> 0]

Init ==
    /\ enabled = TRUE /\ limit \in Limits /\ timed = TRUE /\ kept = Empty
    /\ daily = 0 /\ stats = 0 /\ active = 0 /\ pending = FALSE /\ count = 0 /\ threshold = 0
    /\ spawnTask = 0 /\ expireTask = 0
    /\ spawns = [d \in Ducks |-> "none"] /\ expires = [d \in Ducks |-> "none"]
    /\ at = [p \in Places |-> 0]
    /\ caught = [by |-> {}, lost |-> 0] /\ crossed = FALSE
    /\ events = 0

(* A handler begins, goes on from one access to the next, and ends.         *)
Begin(to) ==
    /\ SumFunction(at) < MaxHandlers
    /\ at' = IF to = "idle" THEN at ELSE [at EXCEPT ![to] = @ + 1]
Goto(from, to) ==
    /\ at[from] > 0
    /\ at' = [p \in Places |-> at[p] + (IF p = to THEN 1 ELSE 0) - (IF p = from THEN 1 ELSE 0)]
Event == events < MaxEvents /\ events' = events + 1
Reached == limit > 0 /\ daily >= limit

(* Drawing a threshold when there is none, and writing the cycle; the mark  *)
(* of a scheduled duck is written as zero.                                  *)
SaveRoomCycle ==
    /\ threshold' \in IF threshold = 0 THEN 1..MaxThreshold ELSE {threshold}
    /\ kept' = [count |-> IF count < 0 THEN 0 ELSE count, threshold |-> threshold']

ResetRoomCycle == count' = 0 /\ threshold' \in 1..MaxThreshold

(* The game is on in the room; the settings of the room are replaced.       *)
Playing == enabled
Override(l, t) == limit' = l /\ timed' = t

-----------------------------------------------------------------------------
(* A message of the room: counted unless a duck is there or is coming.      *)
OnMessage ==
    /\ Playing /\ active = 0 /\ ~pending
    /\ Begin(IF threshold = 0 THEN "load" ELSE "daily")
    /\ UNCHANGED <<settings, kept, daily, stats, active, pending, count, threshold, tasks,
                   ghosts, events>>

LoadRoomCycle ==
    /\ Goto("load", "daily")
    /\ count' = kept.count
    /\ threshold' \in IF kept.threshold = 0 THEN 1..MaxThreshold ELSE {kept.threshold}
    /\ UNCHANGED <<settings, kept, daily, stats, active, pending, tasks, ghosts, events>>

Counted == ~Reached /\ count # -1

(* A message that does not count: the limit of the day, or a duck to come.  *)
Ignore ==
    /\ ~Counted /\ Goto("daily", "idle")
    /\ UNCHANGED <<settings, kept, daily, stats, active, pending, count, threshold, tasks,
                   ghosts, events>>

CountMessage ==
    /\ Counted /\ count <= MaxThreshold
    /\ threshold' \in IF threshold = 0 THEN 1..MaxThreshold ELSE {threshold}
    /\ count' = count + 1
    /\ Goto("daily", IF count' % SaveEvery = 0 \/ count' >= threshold' THEN "save" ELSE "idle")
    /\ UNCHANGED <<settings, kept, daily, stats, active, pending, tasks, ghosts, events>>

(* The write of the count; then the roll.  After a successful one the room  *)
(* is marked as scheduled, and the cycle is written once more.              *)
Roll(hit) ==
    /\ hit => count >= threshold
    /\ Goto("save", IF hit THEN "schedule" ELSE "idle")
    /\ SaveRoomCycle
    /\ count' = IF hit THEN -1 ELSE count
    /\ UNCHANGED <<settings, daily, stats, active, pending, tasks, ghosts, events>>

New(d) == spawns[d] = "none" /\ \A e \in 1..(d - 1) : spawns[e] # "none"

Schedule ==
    /\ Goto("schedule", "idle") /\ SaveRoomCycle /\ pending' = TRUE
    /\ \E d \in Ducks : New(d) /\ spawnTask' = d /\ spawns' = [spawns EXCEPT ![d] = "asleep"]
    /\ UNCHANGED <<settings, daily, stats, active, count, expireTask, expires, ghosts, events>>

-----------------------------------------------------------------------------
(* The task that spawns a duck.  However it ends, it drops the room's       *)
(* pending mark and its entry, whoever has set them.                        *)
SpawnEnds(d) ==
    /\ pending' = FALSE /\ spawnTask' = 0
    /\ crossed' = (crossed \/ spawnTask \notin {0, d})

SpawnWakes(d) ==
    /\ spawns[d] = "asleep"
    /\ \/ /\ pending /\ spawns' = [spawns EXCEPT ![d] = "check"]
          /\ UNCHANGED <<pending, spawnTask, crossed>>
       \/ ~pending /\ spawns' = [spawns EXCEPT ![d] = "done"] /\ SpawnEnds(d)
    /\ UNCHANGED <<settings, kept, daily, stats, active, count, threshold, expireTask, expires, at,
                   caught, events>>

SpawnStops(d) ==
    /\ spawns[d] = "check" /\ Reached
    /\ spawns' = [spawns EXCEPT ![d] = "done"] /\ SpawnEnds(d)
    /\ ResetRoomCycle /\ kept' = [count |-> 0, threshold |-> threshold']
    /\ UNCHANGED <<settings, daily, stats, active, expireTask, expires, at, caught, events>>

DuckAppears(d) ==
    /\ spawns[d] = "check" /\ ~Reached
    /\ spawns' = [spawns EXCEPT ![d] = "reset"]
    /\ pending' = FALSE /\ active' = d /\ ResetRoomCycle
    /\ crossed' = (crossed \/ active # 0 \/ \E e \in Ducks : spawns[e] = "reset")
    /\ UNCHANGED <<settings, kept, daily, stats, spawnTask, expireTask, expires, at, caught,
                   events>>

(* A timer takes the place of the one that is still registered.             *)
Cancel(ts, d) == IF d # 0 /\ ts[d] \notin {"none", "untimed", "done"}
                    THEN [ts EXCEPT ![d] = "cancelled"]
                    ELSE ts

(* The writes of the cycle and of the day's count, the timer, the message.  *)
DuckIsAnnounced(d) ==
    /\ spawns[d] = "reset" /\ SaveRoomCycle /\ daily' = daily + 1
    /\ expires' = [Cancel(expires, expireTask) EXCEPT ![d] = IF timed THEN "asleep" ELSE "untimed"]
    /\ expireTask' = IF timed THEN d ELSE 0
    /\ spawns' = [spawns EXCEPT ![d] = "done"] /\ SpawnEnds(d)
    /\ UNCHANGED <<settings, stats, active, count, at, caught, events>>

(* A spawn fails, or is cut off: its `finally` runs when it is next run.    *)
SpawnFails(d) ==
    /\ \/ spawns[d] \in {"check", "reset"} /\ Event
       \/ spawns[d] = "cancelled" /\ UNCHANGED events
    /\ spawns' = [spawns EXCEPT ![d] = "done"]
    /\ pending' = FALSE /\ spawnTask' = 0
    /\ crossed' = (crossed \/ spawns[d] # "cancelled" \/ spawnTask \notin {0, d})
    /\ UNCHANGED <<settings, kept, daily, stats, active, count, threshold, expireTask, expires, at,
                   caught>>

(* The timer of a duck: the duck that is there leaves.  The entry it drops  *)
(* may be that of a later one.                                              *)
Expire(d) ==
    /\ expires[d] \in {"asleep", "cancelled"}
    /\ active' = IF expires[d] = "asleep" THEN 0 ELSE active
    /\ expires' = [expires EXCEPT ![d] = "done"] /\ expireTask' = 0
    /\ crossed' = (crossed \/ expireTask \notin {0, d})
    /\ UNCHANGED <<settings, kept, daily, stats, pending, count, threshold, spawnTask, spawns, at,
                   caught, events>>

-----------------------------------------------------------------------------
(* befriend, trap: the duck is gone before the first access to the store.   *)
Gone_Later(d) == d
Gone(d) == 0

HandleDuckAction ==
    /\ Playing /\ active # 0 /\ Begin("caught")
    /\ active' = Gone(active) /\ caught' = [caught EXCEPT !.by = @ \union {active}]
    /\ UNCHANGED <<settings, kept, daily, stats, pending, count, threshold, tasks, crossed,
                   events>>

StopTimer ==
    /\ Goto("caught", "record")
    /\ expires' = Cancel(expires, expireTask) /\ expireTask' = 0
    /\ crossed' = (crossed \/ active # 0)
    /\ UNCHANGED <<settings, kept, daily, stats, active, pending, count, threshold, spawnTask,
                   spawns,
                   caught, events>>

(* The statistics and the room's index follow.                              *)
RecordAction ==
    /\ Goto("record", "idle") /\ stats' = stats + 1
    /\ UNCHANGED <<settings, kept, daily, active, pending, count, threshold, tasks, ghosts,
                   events>>

-----------------------------------------------------------------------------
(* A spawn that is cut off after its duck has appeared has not announced it.*)
CutSpawn(d) ==
    /\ spawns' = Cancel(spawns, d) /\ crossed' = (crossed \/ (d # 0 /\ spawns[d] = "reset"))

(* duck on, duck off: off empties the room, writes the new cycle and only   *)
(* then stops the tasks.                                                    *)
SwitchOn ==
    /\ ~enabled /\ enabled' = TRUE
    /\ UNCHANGED <<limit, timed, kept, daily, stats, active, pending, count, threshold, tasks,
                   at, ghosts, events>>

SwitchOff ==
    /\ Event /\ Begin("off") /\ enabled' = FALSE
    /\ active' = 0 /\ pending' = FALSE /\ ResetRoomCycle
    /\ UNCHANGED <<limit, timed, kept, daily, stats, tasks, ghosts>>

OffStopsTasks ==
    /\ Goto("off", "idle") /\ SaveRoomCycle
    /\ spawns' = Cancel(spawns, spawnTask) /\ spawnTask' = 0
    /\ expires' = Cancel(expires, expireTask) /\ expireTask' = 0
    /\ crossed' = (crossed \/ active # 0 \/ count = -1)
    /\ UNCHANGED <<settings, daily, stats, active, pending, count, caught, events>>

(* duck config set, unset, reset: the overrides are written, a scheduled    *)
(* duck is dropped and the cycle starts anew.                               *)
RoomConfig(l, t) ==
    /\ Event /\ Begin("reset") /\ Override(l, t)
    /\ ResetRoomCycle /\ CutSpawn(spawnTask) /\ spawnTask' = 0 /\ pending' = FALSE
    /\ UNCHANGED <<enabled, kept, daily, stats, active, expireTask, expires, caught>>

ConfigSavesCycle ==
    /\ Goto("reset", "idle") /\ SaveRoomCycle
    /\ UNCHANGED <<settings, daily, stats, active, pending, count, tasks, ghosts, events>>

(* The room is deleted: the tasks and the memory first, then the rows.      *)
CleanupRoomState ==
    /\ Event /\ Begin("cleanup")
    /\ active' = 0 /\ pending' = FALSE /\ count' = 0 /\ threshold' = 0
    /\ CutSpawn(spawnTask) /\ spawnTask' = 0
    /\ expires' = Cancel(expires, expireTask) /\ expireTask' = 0
    /\ UNCHANGED <<settings, kept, daily, stats, caught>>

CleanupRows(l) ==
    /\ Goto("cleanup", "idle") /\ kept' = Empty /\ daily' = 0
    /\ Override(l, TRUE)
    /\ UNCHANGED <<enabled, stats, active, pending, count, threshold, tasks, caught, crossed,
                   events>>

-----------------------------------------------------------------------------
NewDay ==
    /\ Event /\ daily' = 0
    /\ UNCHANGED <<settings, kept, stats, active, pending, count, threshold, tasks, at, caught,
                   crossed>>

Catching == at["caught"] + at["record"]

(* An access of a handler fails; a room it has marked stays marked.         *)
HandlerFails(p) ==
    /\ Event /\ Goto(p, "idle")
    /\ caught' = [caught EXCEPT !.lost = @ + Catching - Catching']
    /\ crossed' = (crossed \/ p \in {"schedule", "caught"})
    /\ UNCHANGED <<settings, kept, daily, stats, active, pending, count, threshold, tasks>>

(* Unloading writes the cycle first; a crash does not.  The tasks and what  *)
(* is in memory are gone.                                                   *)
Restart(saves) ==
    /\ Event
    /\ kept' = IF saves /\ threshold # 0
               THEN [count |-> IF count < 0 THEN 0 ELSE count, threshold |-> threshold] ELSE kept
    /\ active' = 0 /\ pending' = FALSE /\ count' = 0 /\ threshold' = 0
    /\ spawnTask' = 0 /\ expireTask' = 0
    /\ spawns' = [d \in Ducks |-> IF spawns[d] = "none" THEN "none" ELSE "done"]
    /\ expires' = [d \in Ducks |-> IF expires[d] = "none" THEN "none" ELSE "done"]
    /\ at' = [p \in Places |-> 0]
    /\ caught' = [caught EXCEPT !.lost = @ + Catching]
    /\ UNCHANGED <<settings, daily, stats, crossed>>

Handle ==
    \/ OnMessage \/ LoadRoomCycle \/ Ignore \/ CountMessage
    \/ (\E hit \in BOOLEAN : Roll(hit)) \/ Schedule
    \/ HandleDuckAction \/ StopTimer \/ RecordAction
    \/ SwitchOff \/ OffStopsTasks \/ ConfigSavesCycle
    \/ \E l \in Limits, t \in BOOLEAN : RoomConfig(l, t)
    \/ CleanupRoomState \/ (\E l \in Limits : CleanupRows(l))
    \/ \E p \in {"load", "daily", "save", "schedule", "caught", "record"} : HandlerFails(p)

Task(d) ==
    \/ SpawnWakes(d) \/ SpawnStops(d) \/ DuckAppears(d) \/ DuckIsAnnounced(d)
    \/ SpawnFails(d) \/ Expire(d)

Next ==
    \/ Handle \/ (\E d \in Ducks : Task(d))
    \/ SwitchOn \/ NewDay \/ \E saves \in BOOLEAN : Restart(saves)

Spec == Init /\ [][Next]_vars

-----------------------------------------------------------------------------
(* A duck is caught by one player: each catch is in the statistics once,    *)
(* is being recorded, or was lost to a failure while it was.                *)
CaughtOnce ==
    stats + Catching + caught.lost
        = Cardinality(caught.by)

(* A room that is marked as scheduled gets its duck, unless tasks crossed:  *)
(* no message would ever count in it again.                                 *)
MarkedIsScheduled ==
    count = -1 =>
        \/ crossed
        \/ pending /\ \E d \in Ducks : spawns[d] \in {"asleep", "check"}
        \/ at["schedule"] > 0

(* A duck that times out has its timer, unless tasks crossed.               *)
DuckHasTimer ==
    active # 0 =>
        \/ crossed \/ spawns[active] = "reset" \/ expires[active] \in {"asleep", "untimed"}

(* What keeps them: a duck that is there, or was caught, has been spawned,  *)
(* and was not caught before; the registered task of a scheduled duck is    *)
(* the one that will spawn it; and ducks come one at a time.                *)
SpawnedInv ==
    /\ \A d \in caught.by : spawns[d] \in {"reset", "cancelled", "done"}
    /\ active # 0 => active \notin caught.by /\ spawns[active] \in {"reset", "cancelled", "done"}

ScheduledInv ==
    count = -1 =>
        \/ crossed \/ at["schedule"] > 0
        \/ pending /\ spawnTask # 0 /\ spawns[spawnTask] \in {"asleep", "check"}

OneAtATimeInv ==
    crossed \/ \A d \in Ducks : spawns[d] = "reset" =>
                    active \in {0, d} /\ \A e \in Ducks : spawns[e] = "reset" => e = d

DucksInv == CaughtOnce /\ DuckHasTimer /\ SpawnedInv /\ ScheduledInv /\ OneAtATimeInv
=============================================================================
