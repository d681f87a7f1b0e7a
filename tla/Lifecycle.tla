------------------------------ MODULE Lifecycle ------------------------------
(***************************************************************************)
(* bot/lifecycle.py with the main loop and the signal handler of           *)
(* envsbot.py: process startup, one on_start task per XMPP session, the    *)
(* reconnect task and the ordered shutdown.                                *)
(*                                                                         *)
(* Every await is a point where the other tasks and the network move; what *)
(* runs between two awaits is one step.  asyncio throws a cancellation     *)
(* into a task at its pending await, before the task runs again, so        *)
(* `task.cancel()` and the unwinding of the task are one step too, unless  *)
(* the await swallows it.                                                  *)
(*                                                                         *)
(* Outside the repository: slixmpp's connection (link, closing) and        *)
(* envs_xmpp_core's run_reconnect_loop, modelled as this code calls them.  *)
(***************************************************************************)
EXTENDS Naturals, Sequences, FiniteSets

CONSTANTS
    MaxSessions,    \* bound: XMPP sessions in the life of the process
    MaxLosses,      \* bound: connections lost or given up
    MaxErrors       \* bound: startup and shutdown steps that raise

ASSUME LifecycleAssumption ==
    /\ MaxSessions \in Nat /\ MaxErrors \in Nat
    /\ MaxLosses \in 0 .. MaxSessions - 1

Sessions == 1 .. MaxSessions
NoSession == 0

(* What runs for the life of the process, the startup phase that brings it  *)
(* up and the shutdown phase that takes it down.                            *)
Services == {"db", "flush loop", "message cache", "outbox", "plugins",
             "alerts", "watchdog", "backups"}
StartupPhases == <<"storage", "plugins", "monitoring">>
StartedBy == [storage |-> {"db", "flush loop", "message cache", "outbox"},
              plugins |-> {"plugins"},
              monitoring |-> {"alerts", "watchdog", "backups"}]
ShutdownPhases == <<"alerts", "watchdog", "reconnect", "replies", "plugins",
                    "outbox", "message_cache", "db_workers", "tasks", "db">>
StoppedBy == [alerts |-> {"alerts"}, watchdog |-> {"watchdog"}, reconnect |-> {},
              replies |-> {}, plugins |-> {"plugins"}, outbox |-> {"outbox"},
              message_cache |-> {"message cache"}, db_workers |-> {"flush loop"},
              tasks |-> {"backups"}, db |-> {"db"}]

VARIABLES
    link,           \* the stream: "down", "opening", "up", "session"
    closing,        \* disconnect() was called and the stream is still there
    pc,             \* per session: where its on_start task is suspended
    generation,     \* session_lifecycle.generation
    sessionTask,    \* _session_start_task: the session it belongs to
    initializer,    \* the session whose process phase returned initialized=True
    sessionReady, runtimeReady,         \* runtime_ready goes with accepting_commands
    reconnecting, wasReconnecting,      \* and _session_was_reconnecting
    startReceived,  \* _session_start_received
    readyEvent,     \* reconnect_success_event
    reconnect,      \* reconnect_task: "none", "delay", "waiting"
    startup,        \* _process_startup_task: phases it has begun; 0: no task
    startupDone,    \* _process_startup_complete
    services,       \* what is up
    exiting,        \* _process_exit_requested
    main,           \* "running", "stopping" (in its finally), "ended"
    stopper,        \* who runs shutdown_runtime: "none", "session", "main"
    stage,          \* phases of the shutdown that are over; 0: before the first
    shutdownDone,   \* _shutdown_complete
    failed,         \* a session start has failed
    broken,         \* services whose shutdown phase raised or timed out
    recorded,       \* the running version has been recorded
    losses, errors  \* how much of each bound is used

network == <<link, closing>>
sessions == <<pc, generation, sessionTask, initializer>>
flags == <<sessionReady, runtimeReady>>
recovery == <<reconnecting, wasReconnecting, startReceived, readyEvent, reconnect>>
process == <<startup, startupDone, services>>
ending == <<exiting, main, stopper, stage, shutdownDone>>
ghosts == <<failed, broken, recorded>>
bounds == <<losses, errors>>
vars == <<network, sessions, flags, recovery, process, ending, ghosts, bounds>>

Phases == {"none", "transport", "process", "readiness", "recording", "failing", "done"}
Suspended == Phases \ {"none", "done"}

TypeOK ==
    /\ link \in {"down", "opening", "up", "session"}
    /\ pc \in [Sessions -> Phases]
    /\ generation \in 0 .. MaxSessions
    /\ sessionTask \in 0 .. MaxSessions /\ initializer \in 0 .. MaxSessions
    /\ closing \in BOOLEAN /\ sessionReady \in BOOLEAN /\ runtimeReady \in BOOLEAN
    /\ reconnecting \in BOOLEAN /\ wasReconnecting \in BOOLEAN
    /\ startReceived \in BOOLEAN /\ readyEvent \in BOOLEAN
    /\ startupDone \in BOOLEAN /\ exiting \in BOOLEAN /\ shutdownDone \in BOOLEAN
    /\ failed \in BOOLEAN /\ recorded \in BOOLEAN
    /\ reconnect \in {"none", "delay", "waiting"}
    /\ startup \in 0 .. Len(StartupPhases)
    /\ services \subseteq Services
    /\ broken \subseteq Services
    /\ main \in {"running", "stopping", "ended"}
    /\ stopper \in {"none", "session", "main"}
    /\ stage \in 0 .. Len(ShutdownPhases)
    /\ losses \in 0 .. MaxLosses
    /\ errors \in 0 .. MaxErrors

(* main() has called connect_xmpp and waits for the first disconnection.    *)
Init ==
    /\ link = "opening"
    /\ closing = FALSE
    /\ pc = [g \in Sessions |-> "none"]
    /\ generation = 0 /\ sessionTask = NoSession /\ initializer = NoSession
    /\ sessionReady = FALSE /\ runtimeReady = FALSE
    /\ reconnecting = FALSE /\ wasReconnecting = FALSE
    /\ startReceived = FALSE /\ readyEvent = FALSE
    /\ reconnect = "none"
    /\ startup = 0 /\ startupDone = FALSE /\ services = {}
    /\ exiting = FALSE /\ main = "running"
    /\ stopper = "none" /\ stage = 0 /\ shutdownDone = FALSE
    /\ failed = FALSE /\ broken = {} /\ recorded = FALSE
    /\ losses = 0 /\ errors = 0

-----------------------------------------------------------------------------
(* A cancelled session start.                                               *)

(* Awaiting the cancelled process startup inside shutdown_runtime swallows  *)
(* a cancellation of the session task itself.                               *)
Swallows(g) == pc[g] = "failing" /\ stopper = "session" /\ stage = 0 /\ startup # 0

(* Mutant: the reference to the task is dropped, the task runs on.          *)
Retired_Not == pc

(* Every session start after a CancelledError at its pending await.         *)
Retired ==
    [g \in Sessions |-> IF pc[g] \in Suspended /\ ~Swallows(g) THEN "done" ELSE pc[g]]

(* Its finally clause declares the shutdown complete and frees the lock.    *)
ShutdownUnwinds == stopper' = "none" /\ shutdownDone' = TRUE

(* The one task there can be is cancelled; in its finally clause it clears  *)
(* _session_start_task.  The process startup it was waiting for is shielded *)
(* and goes on.                                                             *)
CancelSessionStart ==
    /\ pc' = Retired
    /\ sessionTask' = IF sessionTask # NoSession /\ Swallows(sessionTask)
                      THEN sessionTask ELSE NoSession
    /\ IF sessionTask # NoSession /\ pc[sessionTask] = "failing" /\ sessionTask' = NoSession
       THEN ShutdownUnwinds
       ELSE UNCHANGED <<stopper, shutdownDone>>

(* Mutant: only session_ready is cleared.                                   *)
CloseRouting_Half == sessionReady' = FALSE /\ UNCHANGED runtimeReady

CloseRouting == sessionReady' = FALSE /\ runtimeReady' = FALSE

-----------------------------------------------------------------------------
(* Losing the stream: slixmpp raises session_end and disconnected, and      *)
(* resolves the future main() waits for.                                    *)

OnSessionEnd == CancelSessionStart /\ CloseRouting

ReconnectSuppressed == exiting \/ shutdownDone
ReconnectScheduled == reconnect # "none" /\ reconnecting

(* Mutant: any reconnect task that is not done counts as scheduled.         *)
OnDisconnect_Keeps ==
    IF ReconnectSuppressed \/ reconnect # "none"
    THEN UNCHANGED recovery
    ELSE /\ reconnecting' = TRUE
         /\ startReceived' = FALSE
         /\ readyEvent' = FALSE
         /\ reconnect' = "delay"
         /\ UNCHANGED wasReconnecting

(* A reconnect task that has done its work but has not ended is replaced.   *)
OnDisconnect ==
    IF ReconnectSuppressed \/ ReconnectScheduled
    THEN UNCHANGED recovery
    ELSE /\ reconnecting' = TRUE
         /\ startReceived' = FALSE
         /\ readyEvent' = FALSE
         /\ reconnect' = "delay"
         /\ UNCHANGED wasReconnecting

MainWakes == main' = IF exiting /\ main = "running" THEN "stopping" ELSE main

StreamEnds ==
    /\ link' = "down"
    /\ closing' = FALSE
    /\ OnSessionEnd
    /\ MainWakes

LinkLost ==
    /\ link \in {"up", "session"}
    /\ \/ closing /\ UNCHANGED losses
       \/ losses < MaxLosses /\ losses' = losses + 1
    /\ StreamEnds
    /\ OnDisconnect
    /\ UNCHANGED <<generation, initializer, process, exiting, stage, ghosts, errors>>

LinkOpens ==
    /\ link = "opening"
    /\ link' = "up"
    /\ UNCHANGED <<closing, sessions, flags, recovery, process, ending, ghosts, bounds>>

-----------------------------------------------------------------------------
(* on_start.                                                                *)

(* _prepare_session_start: retire the older session start, allocate a       *)
(* generation and close routing until this session is ready.                *)
SessionStarts ==
    /\ link = "up"
    /\ generation < MaxSessions
    /\ link' = "session"
    /\ generation' = generation + 1
    /\ pc' = [Retired EXCEPT ![generation'] = "transport"]
    /\ sessionTask' = generation'
    /\ startReceived' = TRUE
    /\ wasReconnecting' = reconnecting
    /\ sessionReady' = TRUE
    /\ runtimeReady' = FALSE
    /\ UNCHANGED <<closing, initializer, reconnecting, readyEvent, reconnect,
                   process, ending, ghosts, bounds>>

IsCurrent(g) == generation = g

(* The roster is here.  _ensure_process_runtime skips a startup that is     *)
(* complete, joins one that is running and starts one otherwise.            *)
TransportDone(g) ==
    /\ pc[g] = "transport"
    /\ IsCurrent(g)
    /\ pc' = [pc EXCEPT ![g] = IF startupDone THEN "readiness" ELSE "process"]
    /\ startup' = IF startupDone \/ startup # 0 THEN startup ELSE 1
    /\ UNCHANGED <<network, generation, sessionTask, initializer, flags, recovery,
                   startupDone, services, ending, ghosts, bounds>>

(* Mutant: the reconnect loop is not told.                                  *)
Publishes_Silent(g) ==
    /\ runtimeReady' = TRUE
    /\ reconnecting' = FALSE
    /\ UNCHANGED readyEvent
    /\ \/ /\ initializer = g
          /\ pc' = [pc EXCEPT ![g] = "recording"]
          /\ UNCHANGED sessionTask
       \/ /\ pc' = [pc EXCEPT ![g] = "done"]
          /\ sessionTask' = NoSession

(* _startup_publish_ready and _complete_session_start: routing opens, the   *)
(* reconnect loop is released, and the session that initialized the process *)
(* goes on to record the version unless a plugin is missing.                *)
Publishes(g) ==
    /\ runtimeReady' = TRUE
    /\ reconnecting' = FALSE
    /\ readyEvent' = (readyEvent \/ wasReconnecting)
    /\ \/ /\ initializer = g
          /\ pc' = [pc EXCEPT ![g] = "recording"]
          /\ UNCHANGED sessionTask
       \/ /\ pc' = [pc EXCEPT ![g] = "done"]
          /\ sessionTask' = NoSession

ReadinessDone(g) ==
    /\ pc[g] = "readiness"
    /\ IsCurrent(g)
    /\ Publishes(g)
    /\ UNCHANGED <<network, generation, initializer, sessionReady, wasReconnecting,
                   startReceived, reconnect, process, ending, ghosts, bounds>>

VersionRecorded(g) ==
    /\ pc[g] = "recording"
    /\ pc' = [pc EXCEPT ![g] = "done"]
    /\ sessionTask' = NoSession
    /\ recorded' = TRUE
    /\ UNCHANGED <<network, generation, initializer, flags, recovery, process,
                   ending, failed, broken, bounds>>

(* _handle_startup_failure: routing is closed, the stream told to close,    *)
(* and shutdown_runtime runs in the session task itself.                    *)
Fails(g) ==
    /\ pc' = [pc EXCEPT ![g] = "failing"]
    /\ CloseRouting
    /\ exiting' = TRUE
    /\ closing' = TRUE
    /\ failed' = TRUE
    /\ stopper' = "session"
    /\ UNCHANGED <<link, generation, sessionTask, initializer, recovery, main, stage,
                   shutdownDone, broken, recorded, losses>>

SessionFails(g) ==
    /\ pc[g] \in {"transport", "readiness"}
    /\ errors < MaxErrors
    /\ errors' = errors + 1
    /\ Fails(g)
    /\ UNCHANGED process

-----------------------------------------------------------------------------
(* Process startup, a task of its own.  A shutdown cancels it at once.      *)

Waiter == {g \in Sessions : pc[g] = "process"}

(* Mutant: the last phase is missed.                                        *)
StartupPhaseDone_OffByOne ==
    /\ stopper = "none"
    /\ startup \in 1 .. Len(StartupPhases)
    /\ services' = services \cup StartedBy[StartupPhases[startup]]
    /\ IF startup <= Len(StartupPhases)
       THEN /\ startup' = startup + 1
            /\ UNCHANGED <<pc, initializer, startupDone>>
       ELSE /\ startup' = 0
            /\ startupDone' = TRUE
            /\ pc' = [g \in Sessions |-> IF g \in Waiter THEN "readiness" ELSE pc[g]]
            /\ initializer' = IF Waiter = {} THEN NoSession ELSE sessionTask
    /\ UNCHANGED <<network, generation, sessionTask, flags, recovery, ending,
                   ghosts, bounds>>

StartupPhaseDone ==
    /\ stopper = "none"
    /\ startup \in 1 .. Len(StartupPhases)
    /\ services' = services \cup StartedBy[StartupPhases[startup]]
    /\ IF startup < Len(StartupPhases)
       THEN /\ startup' = startup + 1
            /\ UNCHANGED <<pc, initializer, startupDone>>
       ELSE /\ startup' = 0
            /\ startupDone' = TRUE
            /\ pc' = [g \in Sessions |-> IF g \in Waiter THEN "readiness" ELSE pc[g]]
            /\ initializer' = IF Waiter = {} THEN NoSession ELSE sessionTask
    /\ UNCHANGED <<network, generation, sessionTask, flags, recovery, ending,
                   ghosts, bounds>>

(* A phase raises.  The session that waits fails with it; without one the   *)
(* error is only logged, and the next session starts over.                  *)
StartupFails ==
    /\ stopper = "none"
    /\ startup # 0
    /\ errors < MaxErrors
    /\ errors' = errors + 1
    /\ startup' = 0
    /\ \E up \in SUBSET StartedBy[StartupPhases[startup]] : services' = services \cup up
    /\ UNCHANGED startupDone
    /\ IF Waiter # {}
       THEN \E g \in Waiter : Fails(g)
       ELSE UNCHANGED <<network, sessions, flags, recovery, ending, ghosts, losses>>

-----------------------------------------------------------------------------
(* The reconnect task: run_reconnect_loop with this bot's callbacks.        *)

(* The delay is over: connect, unless the process is exiting.               *)
ReconnectConnects ==
    /\ reconnect = "delay"
    /\ \/ ReconnectSuppressed /\ reconnect' = "none" /\ UNCHANGED link
       \/ /\ ~ReconnectSuppressed
          /\ reconnect' = "waiting"
          /\ link' = IF link = "down" THEN "opening" ELSE link
    /\ UNCHANGED <<closing, sessions, flags, reconnecting, wasReconnecting,
                   startReceived, readyEvent, process, ending, ghosts, bounds>>

(* Mutant: the loop waits on although the stream it waits for is gone.      *)
ReconnectSettles_Waits ==
    /\ reconnect = "waiting"
    /\ readyEvent \/ ReconnectSuppressed
    /\ reconnect' = "none"
    /\ UNCHANGED <<network, sessions, flags, reconnecting, wasReconnecting,
                   startReceived, readyEvent, process, ending, ghosts, bounds>>

(* The session is ready, the process exits, or the attempt has failed.      *)
ReconnectSettles ==
    /\ reconnect = "waiting"
    /\ \/ (readyEvent \/ ReconnectSuppressed) /\ reconnect' = "none"
       \/ /\ ~readyEvent /\ ~ReconnectSuppressed
          /\ link = "down"
          /\ reconnect' = "delay"
    /\ UNCHANGED <<network, sessions, flags, reconnecting, wasReconnecting,
                   startReceived, readyEvent, process, ending, ghosts, bounds>>

(* startup_timeout: _disconnect_partial_reconnect drops a session that      *)
(* started and did not become ready in time, and tries again.               *)
DropPartial ==
    /\ reconnect = "waiting"
    /\ startReceived
    /\ ~readyEvent /\ ~ReconnectSuppressed
    /\ link \in {"up", "session"}
    /\ losses < MaxLosses
    /\ losses' = losses + 1
    /\ reconnecting' = TRUE
    /\ startReceived' = FALSE
    /\ reconnect' = "delay"
    /\ StreamEnds
    /\ UNCHANGED <<generation, initializer, wasReconnecting, readyEvent, process,
                   exiting, stage, ghosts, errors>>

-----------------------------------------------------------------------------
(* Ending the process.                                                      *)

(* SIGTERM or SIGINT: a connection attempt is given up at once, an open     *)
(* stream is closed with the server's help.                                 *)
Signal ==
    /\ ~exiting
    /\ exiting' = TRUE
    /\ IF link \in {"up", "session"}
       THEN closing' = TRUE /\ UNCHANGED <<link, main>>
       ELSE link' = "down" /\ main' = "stopping" /\ UNCHANGED closing
    /\ UNCHANGED <<sessions, flags, recovery, process, stopper, stage, shutdownDone,
                   ghosts, bounds>>

(* shutdown_runtime under _shutdown_lock, called from main()'s finally      *)
(* clause: nothing to do if a shutdown has already been declared complete.  *)
MainStops ==
    /\ main = "stopping"
    /\ stopper = "none"
    /\ IF shutdownDone
       THEN main' = "ended" /\ UNCHANGED <<stopper, flags>>
       ELSE stopper' = "main" /\ CloseRouting /\ UNCHANGED main
    /\ UNCHANGED <<network, sessions, recovery, process, exiting, stage,
                   shutdownDone, ghosts, bounds>>

(* _cancel_process_startup; a session that waits for it is cancelled too.   *)
CancelProcessStartup ==
    /\ startup' = 0
    /\ IF startup # 0 /\ Waiter # {}
       THEN /\ pc' = [g \in Sessions |-> IF g \in Waiter THEN "done" ELSE pc[g]]
            /\ sessionTask' = NoSession
       ELSE UNCHANGED <<pc, sessionTask>>

ShutdownBegins ==
    /\ stopper # "none"
    /\ stage = 0
    /\ startup # 0
    /\ CancelProcessStartup
    /\ UNCHANGED <<network, generation, initializer, flags, recovery, startupDone,
                   services, ending, ghosts, bounds>>

(* Mutant: the phases run without continue_on_error.                        *)
ShutdownPhase_Aborts ==
    /\ stopper # "none"
    /\ stage < Len(ShutdownPhases)
    /\ startup = 0
    /\ LET phase == ShutdownPhases[stage + 1]
       IN /\ \/ /\ services' = services \ StoppedBy[phase]
                /\ stage' = stage + 1 /\ UNCHANGED <<broken, errors>>
             \/ /\ errors < MaxErrors
                /\ stage' = Len(ShutdownPhases)
                /\ errors' = errors + 1
                /\ broken' = broken \cup StoppedBy[phase]
                /\ UNCHANGED services
          /\ reconnect' = IF phase = "reconnect" THEN "none" ELSE reconnect
    /\ UNCHANGED <<network, sessions, flags, reconnecting, wasReconnecting,
                   startReceived, readyEvent, startup, startupDone, exiting, main,
                   stopper, shutdownDone, failed, recorded, losses>>

(* One phase, which may raise or time out: the next one runs all the same.  *)
ShutdownPhase ==
    /\ stopper # "none"
    /\ stage < Len(ShutdownPhases)
    /\ startup = 0
    /\ stage' = stage + 1
    /\ LET phase == ShutdownPhases[stage + 1]
       IN /\ \/ /\ services' = services \ StoppedBy[phase]
                /\ UNCHANGED <<broken, errors>>
             \/ /\ errors < MaxErrors
                /\ errors' = errors + 1
                /\ broken' = broken \cup StoppedBy[phase]
                /\ UNCHANGED services
          /\ reconnect' = IF phase = "reconnect" THEN "none" ELSE reconnect
    /\ UNCHANGED <<network, sessions, flags, reconnecting, wasReconnecting,
                   startReceived, readyEvent, startup, startupDone, exiting, main,
                   stopper, shutdownDone, failed, recorded, losses>>

ShutdownEnds ==
    /\ stopper # "none"
    /\ stage = Len(ShutdownPhases)
    /\ shutdownDone' = TRUE
    /\ stopper' = "none"
    /\ IF stopper = "main"
       THEN main' = "ended" /\ UNCHANGED <<pc, sessionTask>>
       ELSE /\ pc' = [pc EXCEPT ![sessionTask] = "done"]
            /\ sessionTask' = NoSession
            /\ UNCHANGED main
    /\ UNCHANGED <<network, generation, initializer, flags, recovery, process,
                   exiting, stage, ghosts, bounds>>

-----------------------------------------------------------------------------
SessionStep(g) ==
    \/ TransportDone(g) \/ ReadinessDone(g) \/ VersionRecorded(g) \/ SessionFails(g)

ReconnectStep == ReconnectConnects \/ ReconnectSettles

StopStep == MainStops \/ ShutdownBegins \/ ShutdownPhase \/ ShutdownEnds

Next ==
    \/ LinkOpens \/ SessionStarts \/ LinkLost
    \/ \E g \in Sessions : SessionStep(g)
    \/ StartupPhaseDone \/ StartupFails
    \/ ReconnectStep \/ DropPartial
    \/ Signal \/ StopStep

Spec == Init /\ [][Next]_vars

(* A server that can be reached answers and lets a stream close; tasks that *)
(* wait for what has happened run; a signal or a lost stream is never owed. *)
FairSpec ==
    /\ Spec
    /\ WF_vars(LinkOpens) /\ WF_vars(SessionStarts) /\ WF_vars(closing /\ LinkLost)
    /\ \A g \in Sessions : WF_vars(SessionStep(g))
    /\ WF_vars(StartupPhaseDone \/ StartupFails)
    /\ WF_vars(ReconnectStep)
    /\ WF_vars(StopStep)

-----------------------------------------------------------------------------
(* Properties.                                                              *)

(* Commands are accepted and workers released only in a live session of a   *)
(* process whose services are all up and that is not shutting down, however *)
(* session starts, process startup, lost streams and shutdown interleave.   *)
(* (_startup_publish_ready, on_session_end, _mark_runtime_stopping)         *)
ReadyMeansServing ==
    runtimeReady =>
        /\ sessionReady /\ link = "session"
        /\ startupDone /\ services = Services
        /\ stopper = "none" /\ ~shutdownDone

(* At most one on_start is under way, it belongs to the newest generation   *)
(* and can be cancelled: nothing an older stream left behind publishes      *)
(* readiness. ("late completions from an older stream therefore cannot      *)
(* publish readiness or mutate session state for the newer connection",     *)
(* docs/architecture.md)                                                    *)
OneSessionStart ==
    \A g \in Sessions : pc[g] \in Suspended => sessionTask = g /\ generation = g

(* A lost stream always has a reconnect task, unless the process exits: a   *)
(* loss just after a recovery is not mistaken for the one before it.        *)
(* (on_disconnect)                                                          *)
LossIsRecovered == link = "down" /\ ~exiting => reconnect # "none"

(* Once a session is ready the reconnect loop knows, so its startup timeout *)
(* cannot drop a session that serves. (_complete_session_start)             *)
ReadyEndsReconnect == runtimeReady /\ reconnect = "waiting" => readyEvent

(* Routing is open only when everything serves, one session starts at a     *)
(* time, losses are recovered and the recovery then ends.                   *)
SessionsAreSound ==
    ReadyMeansServing /\ OneSessionStart /\ LossIsRecovered /\ ReadyEndsReconnect

(* When main() has returned every service is down, those excepted whose own *)
(* phase raised or timed out. ("one failed cleanup step does not prevent    *)
(* later persistence/database phases from running", docs/architecture.md)   *)
CleanExit == main = "ended" => services \subseteq broken

(* That holds of every exit that no failed session start asked for.         *)
CleanExitOnSignal == failed \/ CleanExit

(* The bot becomes ready again after every loss or exits, and an exit ends. *)
(* (_delayed_reconnect; main)                                               *)
ServesOrEnds ==
    /\ ~exiting ~> (runtimeReady \/ exiting)
    /\ exiting ~> main = "ended"

-----------------------------------------------------------------------------
(* What makes them inductive, for any bounds (proved in LifecycleProofs).   *)

(* A session start lives on its stream, except that a failing one may still *)
(* run the shutdown after its stream is gone.                               *)
Attached ==
    \A g \in Sessions : pc[g] \in Suspended =>
        /\ link = "session" \/ (pc[g] = "failing" /\ link = "down")
        /\ pc[g] = "failing" => exiting
        /\ pc[g] # "failing" => sessionReady
        /\ pc[g] = "readiness" => startupDone

(* Once a shutdown has begun nothing starts: the process exits, no stream   *)
(* is being opened, and a session start that is left is the failing one.    *)
NothingStarts ==
    /\ stopper # "none" \/ shutdownDone =>
        /\ exiting /\ ~runtimeReady /\ link \in {"session", "down"}
        /\ \A g \in Sessions : pc[g] \in Suspended => pc[g] = "failing"
    /\ main # "running" => exiting /\ link = "down"
    /\ stopper = "main" => main = "stopping"

(* Before that, services only come up, in the order of the phases.          *)
ServicesComeUp ==
    stopper = "none" /\ ~shutdownDone =>
        /\ startupDone => services = Services
        /\ \A i \in 1 .. Len(StartupPhases) :
               i < startup => StartedBy[StartupPhases[i]] \subseteq services

(* A loss is known to be one, and the session that ends it knows of it.     *)
LossIsKnown ==
    /\ reconnect = "delay" => link = "down"
    /\ link = "down" /\ ~exiting => reconnecting
    /\ reconnecting => ~readyEvent
    /\ reconnect # "none" /\ ~readyEvent =>
        /\ reconnecting
        /\ \A g \in Sessions : pc[g] \in Suspended \ {"recording", "failing"} => wasReconnecting

(* The phases of a shutdown that are over have done their part.             *)
ServicesGoDown ==
    failed \/
        /\ stopper # "session" /\ \A g \in Sessions : pc[g] # "failing"
        /\ shutdownDone => main = "ended"
        /\ stage > 0 => main # "running" /\ startup = 0
        /\ \A i \in 1 .. Len(ShutdownPhases) :
               i <= stage => services \cap StoppedBy[ShutdownPhases[i]] \subseteq broken
        /\ main = "ended" => stage = Len(ShutdownPhases)

Sound ==
    /\ OneSessionStart /\ ReadyMeansServing /\ LossIsRecovered /\ ReadyEndsReconnect
    /\ Attached /\ NothingStarts /\ ServicesComeUp /\ LossIsKnown /\ ServicesGoDown
=============================================================================
