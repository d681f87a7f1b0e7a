-------------------------------- MODULE GameLoop --------------------------------
(***************************************************************************)
(* The loop that ticks one IdleRPG room (plugins/idlerpg/tasks.py).  Every *)
(* presence, registration, toggle and restart makes sure that an enabled   *)
(* room has one: under the lock of the room it sets the room's clock to    *)
(* now, which a save awaits, and creates the task.  A toggle, a restart    *)
(* and a bot that leaves the room cancel the task, without that lock, and  *)
(* throw the lock away.                                                    *)
(***************************************************************************)
EXTENDS Integers, FiniteSets

CONSTANTS
    Actors,    \* handlers that run at once
    MaxTime,   \* bound on the time
    MaxLoops,  \* bound on the loops that are ever created
    MaxOps,    \* bound on toggles, restarts, leaves and unloads
    MaxFaults  \* bound on loops that die, failed saves and crashes

GameLoopAssumption ==
    MaxLoops \in Nat /\ MaxTime \in Nat /\ MaxOps \in Nat /\ MaxFaults \in Nat

VARIABLES
    enabled,  \* the room plays
    loaded,   \* the plugin is
    room,     \* ROOM_TASKS: the loop that is registered (0: none)
    alive,    \* the tasks that are running and supervised
    created,  \* how many loops there were
    lock,     \* _ROOM_TASK_LOCKS: which lock is the room's; one thrown away is another
    actor,    \* per actor: what it does, with which lock, towards what
    clock,    \* now
    lastTick, \* the room's last_tick
    credited, \* the time that players were credited with
    watched,  \* ghost: the time in which a loop was there, or was being started
    crossed,  \* ghost: a loop was started or stopped while another actor did too
    ops, faults

vars == <<enabled, loaded, room, alive, created, lock, actor, clock, lastTick, credited, watched,
          crossed, ops, faults>>

Idle == [pc |-> "idle", lock |-> 0, goal |-> "none"]
Goals == {"none", "sync", "restart", "clean", "unload"}

TypeOK ==
    /\ enabled \in BOOLEAN /\ loaded \in BOOLEAN
    /\ room \in 0..MaxLoops /\ alive \subseteq 1..MaxLoops /\ created \in 0..MaxLoops
    /\ lock \in 0..(MaxOps + 1)
    /\ actor \in [Actors -> [pc : {"idle", "sync", "wait", "checkpoint", "save", "cancel"},
                             lock : 0..(MaxOps + 1), goal : Goals]]
    /\ clock \in 0..MaxTime /\ lastTick \in 0..MaxTime
    /\ credited \in 0..MaxTime /\ watched \in 0..MaxTime
    /\ crossed \in BOOLEAN /\ ops \in 0..MaxOps /\ faults \in 0..MaxFaults

Init ==
    /\ enabled = FALSE /\ loaded = TRUE /\ room = 0 /\ alive = {} /\ created = 0 /\ lock = 0
    /\ actor = [a \in Actors |-> Idle]
    /\ clock = 0 /\ lastTick = 0 /\ credited = 0 /\ watched = 0 /\ crossed = FALSE
    /\ ops = 0 /\ faults = 0

Busy(a) == actor[a].pc # "idle"
Crossed(a) == crossed' = (crossed \/ \E b \in Actors \ {a} : Busy(b))
Goes(a, pc) == actor' = [actor EXCEPT ![a].pc = pc]

-----------------------------------------------------------------------------
(* _ensure_game_task, by a presence or a command in a room that plays, or   *)
(* as the rest of a toggle or a restart.                                    *)
Ensures(a) == actor' = [actor EXCEPT ![a].pc = "wait", ![a].lock = lock]

OnMucPresence(a) ==
    /\ ~Busy(a) /\ loaded /\ enabled /\ created < MaxLoops /\ Ensures(a) /\ Crossed(a)
    /\ UNCHANGED <<enabled, loaded, room, alive, created, lock, clock, lastTick, credited, watched,
                   ops, faults>>

Held(l) == \E b \in Actors : actor[b].pc = "checkpoint" /\ actor[b].lock = l

(* A loop that runs stays, and any other of the room goes.                  *)
Keeps(a) ==
    /\ actor[a].pc = "wait" /\ ~Held(actor[a].lock) /\ room \in alive
    /\ alive' = {room} /\ actor' = [actor EXCEPT ![a] = Idle]
    /\ UNCHANGED <<enabled, loaded, room, created, lock, clock, lastTick, credited, watched,
                   crossed,
                   ops, faults>>

(* _checkpoint_room_clock: the time since the last tick is not credited.    *)
Checkpoint_None == lastTick
Checkpoint == clock

EnsureGameTaskLocked(a) ==
    /\ actor[a].pc = "wait" /\ ~Held(actor[a].lock) /\ room \notin alive /\ created < MaxLoops
    /\ room' = 0 /\ alive' = {} /\ lastTick' = Checkpoint
    /\ Goes(a, "checkpoint")
    /\ UNCHANGED <<enabled, loaded, created, lock, clock, credited, watched, crossed, ops, faults>>

(* After the save: the task is created, whatever has been decided since.    *)
Duplicates_Kept(new) == alive \union {new}
Duplicates(new) == {new}

CreateTask(a) ==
    /\ actor[a].pc = "checkpoint" /\ created < MaxLoops
    /\ created' = created + 1 /\ room' = created + 1 /\ alive' = Duplicates(created + 1)
    /\ actor' = [actor EXCEPT ![a] = Idle]
    /\ UNCHANGED <<enabled, loaded, lock, clock, lastTick, credited, watched, crossed, ops, faults>>

CheckpointFails(a) ==
    /\ actor[a].pc = "checkpoint" /\ faults < MaxFaults /\ faults' = faults + 1
    /\ actor' = [actor EXCEPT ![a] = Idle] /\ crossed' = TRUE
    /\ UNCHANGED <<enabled, loaded, room, alive, created, lock, clock, lastTick, credited,
                   watched, ops>>

-----------------------------------------------------------------------------
(* "on" and "off": the switch first, then the rooms that play are read.     *)
IdlerpgCommand(a) ==
    /\ ~Busy(a) /\ loaded /\ ops < MaxOps /\ ops' = ops + 1 /\ enabled' = ~enabled
    /\ actor' = [actor EXCEPT ![a] = [Idle EXCEPT !.pc = "sync", !.goal = "sync"]] /\ Crossed(a)
    /\ UNCHANGED <<loaded, room, alive, created, lock, clock, lastTick, credited, watched, faults>>

SyncTasksToEnabledRooms(a) ==
    /\ actor[a].pc = "sync"
    /\ IF enabled THEN Ensures(a)
       ELSE IF room # 0 THEN Goes(a, "cancel") ELSE actor' = [actor EXCEPT ![a] = Idle]
    /\ UNCHANGED <<enabled, loaded, room, alive, created, lock, clock, lastTick, credited, watched,
                   crossed, ops, faults>>

(* A new session of the bot, and one that leaves the room.                  *)
RestartTasks(a) ==
    /\ ~Busy(a) /\ loaded /\ ops < MaxOps /\ ops' = ops + 1 /\ Crossed(a)
    /\ actor' = [actor EXCEPT ![a] = [Idle EXCEPT !.pc = IF room # 0 THEN "cancel" ELSE "sync",
                                                  !.goal = "restart"]]
    /\ UNCHANGED <<enabled, loaded, room, alive, created, lock, clock, lastTick, credited,
                   watched, faults>>

(* The switch is the room's, and goes with it (see Rooms).                  *)
CleanupRoomState(a) ==
    /\ ~Busy(a) /\ loaded /\ ops < MaxOps /\ ops' = ops + 1 /\ Crossed(a) /\ enabled' = FALSE
    /\ actor' = [actor EXCEPT ![a] = [Idle EXCEPT !.pc = "cancel", !.goal = "clean"]]
    /\ UNCHANGED <<loaded, room, alive, created, lock, clock, lastTick, credited, watched, faults>>

(* on_unload checkpoints every room with a loop, and cancels it; what is    *)
(* left of the plugin's tasks the plugin manager cancels.                   *)
OnUnload(a) ==
    /\ ~Busy(a) /\ loaded /\ ops < MaxOps /\ ops' = ops + 1 /\ Crossed(a) /\ loaded' = FALSE
    /\ lastTick' = IF room # 0 THEN clock ELSE lastTick
    /\ actor' = [actor EXCEPT ![a] = [Idle EXCEPT !.pc = "cancel", !.goal = "unload"]]
    /\ UNCHANGED <<enabled, room, alive, created, lock, clock, credited, watched, faults>>

OnLoad(a) ==
    /\ ~Busy(a) /\ ~loaded /\ loaded' = TRUE /\ room' = 0 /\ Crossed(a)
    /\ actor' = [actor EXCEPT ![a] = [Idle EXCEPT !.pc = "sync", !.goal = "restart"]]
    /\ UNCHANGED <<enabled, alive, created, lock, clock, lastTick, credited, watched, ops, faults>>

(* _cancel_room_task: the task that is registered, when it has ended; then  *)
(* the locks.                                                               *)
CancelRoomTask(a) ==
    /\ actor[a].pc = "cancel"
    /\ room' = 0 /\ alive' = IF actor[a].goal = "unload" THEN {} ELSE alive \ {room}
    /\ lock' = IF lock < MaxOps + 1 THEN lock + 1 ELSE lock
    /\ actor' = [actor EXCEPT ![a] =
           CASE actor[a].goal = "restart" -> [@ EXCEPT !.pc = "sync"]
             [] actor[a].goal = "clean" -> [@ EXCEPT !.pc = "save"]
             [] OTHER -> Idle]
    /\ UNCHANGED <<enabled, loaded, created, clock, lastTick, credited, watched, crossed, ops,
                   faults>>

(* The room is taken out of the state; one that is made anew begins now.    *)
ForgetRoom(a) ==
    /\ actor[a].pc = "save" /\ lastTick' = clock /\ actor' = [actor EXCEPT ![a] = Idle]
    /\ UNCHANGED <<enabled, loaded, room, alive, created, lock, clock, credited, watched,
                   crossed, ops,
                   faults>>

-----------------------------------------------------------------------------
(* _tick_room: whoever is there gets the time since the last tick; a second *)
(* tick at that moment gives nothing.                                       *)
TickRoom(l) ==
    /\ l \in alive /\ clock > lastTick /\ credited + clock - lastTick <= MaxTime
    /\ credited' = credited + clock - lastTick /\ lastTick' = clock
    /\ UNCHANGED <<enabled, loaded, room, alive, created, lock, actor, clock, watched, crossed, ops,
                   faults>>

(* The supervisor gives a loop up that fails too often.                     *)
LoopDies(l) ==
    /\ l \in alive /\ faults < MaxFaults /\ faults' = faults + 1 /\ alive' = alive \ {l}
    /\ crossed' = TRUE
    /\ UNCHANGED <<enabled, loaded, room, created, lock, actor, clock, lastTick, credited,
                   watched, ops>>

Tick ==
    /\ clock < MaxTime /\ clock' = clock + 1
    /\ watched' = IF alive # {} \/ \E a \in Actors : actor[a].pc = "checkpoint"
                  THEN watched + 1 ELSE watched
    /\ UNCHANGED <<enabled, loaded, room, alive, created, lock, actor, lastTick, credited,
                   crossed, ops,
                   faults>>

(* The process starts anew; the plugin is loaded.                           *)
Crash ==
    /\ faults < MaxFaults /\ faults' = faults + 1
    /\ loaded' = FALSE /\ room' = 0 /\ alive' = {}
    /\ actor' = [a \in Actors |-> Idle] /\ crossed' = FALSE
    /\ UNCHANGED <<enabled, created, lock, clock, lastTick, credited, watched, ops>>

Works(a) ==
    \/ Keeps(a) \/ EnsureGameTaskLocked(a) \/ CreateTask(a) \/ SyncTasksToEnabledRooms(a)
    \/ CancelRoomTask(a) \/ ForgetRoom(a)

Next ==
    \/ Tick \/ Crash
    \/ \E l \in 1..MaxLoops : TickRoom(l) \/ LoopDies(l)
    \/ \E a \in Actors :
           \/ OnMucPresence(a) \/ IdlerpgCommand(a) \/ RestartTasks(a) \/ CleanupRoomState(a)
           \/ OnUnload(a) \/ OnLoad(a) \/ Works(a) \/ CheckpointFails(a)

Spec == Init /\ [][Next]_vars

-----------------------------------------------------------------------------
(* Players are never credited with time in which nobody watched the room:   *)
(* not for the time that the bot or the plugin was down, or the game off,   *)
(* and with two loops not twice.                                            *)
OnlyWatchedTimeCounts == credited <= watched

(* There is never more than one loop, and when nobody starts or stops one,  *)
(* a room that plays has it and one that does not has none, unless one was  *)
(* started while another actor was at work.                                 *)
AtRest == loaded /\ \A a \in Actors : ~Busy(a)

LoopsAreRight ==
    /\ Cardinality(alive) <= 1
    /\ AtRest /\ ~crossed /\ created < MaxLoops =>
           IF enabled THEN room # 0 /\ alive = {room} ELSE alive = {}

(* What keeps them: while there is a loop, or one is being started, the     *)
(* time since the last tick was watched and is not credited yet; and while  *)
(* nothing crossed, one actor at most is at work, and what it has set out   *)
(* to do is still right when it gets to it.                                 *)
WatchedInv ==
    /\ lastTick <= clock /\ credited <= watched /\ watched <= clock
    /\ alive # {} \/ (\E a \in Actors : actor[a].pc = "checkpoint") =>
           credited + clock - lastTick <= watched

SingleInv == \A k, l \in alive : k = l

Justified(a) ==
    /\ actor[a].pc = "sync" => loaded /\ actor[a].goal \in {"sync", "restart"}
    /\ actor[a].pc \in {"wait", "checkpoint"} => loaded /\ enabled
    /\ actor[a].pc = "save" => loaded /\ ~enabled /\ room = 0
    /\ actor[a].pc = "cancel" =>
           \/ actor[a].goal \in {"sync", "clean"} /\ loaded /\ ~enabled
           \/ actor[a].goal = "restart" /\ loaded
           \/ actor[a].goal = "unload" /\ ~loaded

Settled == IF loaded THEN enabled <=> room # 0 ELSE room = 0

AloneInv ==
    ~crossed =>
        /\ alive = {room} \ {0}
        /\ \A a, b \in Actors : Busy(a) /\ Busy(b) => a = b
        /\ \A a \in Actors : Justified(a)
        /\ (\A a \in Actors : ~Busy(a)) => Settled

LoopInv == WatchedInv /\ SingleInv /\ AloneInv
=============================================================================
