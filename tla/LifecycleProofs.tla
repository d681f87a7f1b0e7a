---------------------------- MODULE LifecycleProofs ----------------------------
(***************************************************************************)
(* Theorems about Lifecycle: for any number of sessions, losses and        *)
(* errors, routing is open only while everything serves, one session       *)
(* starts at a time, losses are recovered, and an exit that no failed      *)
(* session start asked for leaves nothing running.  And about the parts    *)
(* beside it: alerts (Alerts), the configuration (ConfigReload),           *)
(* announcements of a version (Release), the profile (Profile), the schema *)
(* of the database (Migrations) and backups (Backups).                     *)
(***************************************************************************)
EXTENDS Lifecycle, FiniteSetTheorems, TLAPS

USE LifecycleAssumption

LifecycleInv == TypeOK /\ Sound

LEMMA InitSound == Init => LifecycleInv
<1> SUFFICES ASSUME Init PROVE LifecycleInv
  OBVIOUS
<1>1. TypeOK
  <2>1. pc \in [Sessions -> Phases]
    BY DEF Init, Phases
  <2>2. /\ closing \in BOOLEAN /\ sessionReady \in BOOLEAN /\ runtimeReady \in BOOLEAN
        /\ reconnecting \in BOOLEAN /\ wasReconnecting \in BOOLEAN
        /\ startReceived \in BOOLEAN /\ readyEvent \in BOOLEAN
        /\ startupDone \in BOOLEAN /\ exiting \in BOOLEAN /\ shutdownDone \in BOOLEAN
        /\ failed \in BOOLEAN /\ recorded \in BOOLEAN
    BY DEF Init
  <2>3. QED
    BY <2>1, <2>2 DEF Init, TypeOK, Services, StartupPhases, ShutdownPhases, NoSession
<1>2. \A g \in Sessions : pc[g] = "none"
  BY DEF Init
<1>3. OneSessionStart /\ Attached
  BY <1>2 DEF OneSessionStart, Attached, Suspended
<1>4. ReadyMeansServing /\ LossIsRecovered /\ ReadyEndsReconnect /\ LossIsKnown
  BY DEF Init, ReadyMeansServing, LossIsRecovered, ReadyEndsReconnect, LossIsKnown
<1>5. NothingStarts /\ ServicesComeUp
  BY <1>2 DEF Init, NothingStarts, ServicesComeUp, StartupPhases
<1>6. ServicesGoDown
  BY <1>2 DEF Init, ServicesGoDown, ShutdownPhases
<1>7. QED
  BY <1>1, <1>3, <1>4, <1>5, <1>6 DEF LifecycleInv, Sound

LEMMA PhasesKnown ==
    /\ Len(StartupPhases) = 3 /\ Len(ShutdownPhases) = 10
    /\ \A i \in 1 .. 3 : StartedBy[StartupPhases[i]] \subseteq Services
    /\ \A i \in 1 .. 10 : StoppedBy[ShutdownPhases[i]] \subseteq Services
<1>1. Len(StartupPhases) = 3 /\ Len(ShutdownPhases) = 10
  BY DEF StartupPhases, ShutdownPhases
<1>2. ASSUME NEW i \in 1 .. 3 PROVE StartedBy[StartupPhases[i]] \subseteq Services
  <2>1. StartedBy[StartupPhases[i]] \in
            {StartedBy["storage"], StartedBy["plugins"], StartedBy["monitoring"]}
    BY DEF StartupPhases
  <2>2. /\ StartedBy["storage"] \subseteq Services /\ StartedBy["plugins"] \subseteq Services
        /\ StartedBy["monitoring"] \subseteq Services
    BY DEF StartedBy, Services
  <2>3. QED
    BY <2>1, <2>2
<1>3. ASSUME NEW i \in 1 .. 10 PROVE StoppedBy[ShutdownPhases[i]] \subseteq Services
  <2>1. StoppedBy[ShutdownPhases[i]] \in
            {StoppedBy["alerts"], StoppedBy["watchdog"], StoppedBy["reconnect"],
             StoppedBy["replies"], StoppedBy["plugins"], StoppedBy["outbox"],
             StoppedBy["message_cache"], StoppedBy["db_workers"], StoppedBy["tasks"],
             StoppedBy["db"]}
    BY DEF ShutdownPhases
  <2>2. /\ StoppedBy["alerts"] \subseteq Services /\ StoppedBy["watchdog"] \subseteq Services
        /\ StoppedBy["reconnect"] \subseteq Services /\ StoppedBy["replies"] \subseteq Services
        /\ StoppedBy["plugins"] \subseteq Services /\ StoppedBy["outbox"] \subseteq Services
        /\ StoppedBy["message_cache"] \subseteq Services
        /\ StoppedBy["db_workers"] \subseteq Services
        /\ StoppedBy["tasks"] \subseteq Services /\ StoppedBy["db"] \subseteq Services
    BY DEF StoppedBy, Services
  <2>3. QED
    BY <2>1, <2>2
<1>4. QED  BY <1>1, <1>2, <1>3

LEMMA CancelTypes ==
    ASSUME TypeOK, CancelSessionStart
    PROVE  /\ pc' \in [Sessions -> Phases] /\ sessionTask' \in 0 .. MaxSessions
           /\ stopper' \in {"none", "session", "main"} /\ shutdownDone' \in BOOLEAN
<1>1. pc' \in [Sessions -> Phases]
  BY DEF TypeOK, CancelSessionStart, Retired, Phases
<1>2. sessionTask' \in 0 .. MaxSessions
  BY DEF TypeOK, CancelSessionStart, NoSession
<1>3. stopper' \in {"none", "session", "main"} /\ shutdownDone' \in BOOLEAN
  BY DEF TypeOK, CancelSessionStart, ShutdownUnwinds
<1>4. QED  BY <1>1, <1>2, <1>3

LEMMA FailsTypes ==
    ASSUME TypeOK, NEW g \in Sessions, Fails(g)
    PROVE  /\ pc' \in [Sessions -> Phases]
           /\ sessionReady' \in BOOLEAN /\ runtimeReady' \in BOOLEAN /\ exiting' \in BOOLEAN
           /\ closing' \in BOOLEAN /\ failed' \in BOOLEAN
<1>1. pc' \in [Sessions -> Phases]
  BY DEF TypeOK, Fails, Phases
<1>2. /\ sessionReady' \in BOOLEAN /\ runtimeReady' \in BOOLEAN /\ exiting' \in BOOLEAN
      /\ closing' \in BOOLEAN /\ failed' \in BOOLEAN
  BY DEF Fails, CloseRouting
<1>3. QED  BY <1>1, <1>2

LEMMA NextTypes ==
    ASSUME TypeOK, [Next]_vars
    PROVE  TypeOK'
<1>1. CASE LinkOpens
  BY <1>1 DEF TypeOK, LinkOpens, sessions, flags, recovery, process, ending, ghosts, bounds
<1>2. CASE SessionStarts
  <2>1. pc' \in [Sessions -> Phases]
    BY <1>2 DEF TypeOK, SessionStarts, Retired, Sessions, Phases
  <2>2. generation' \in 0 .. MaxSessions /\ sessionTask' \in 0 .. MaxSessions
    BY <1>2 DEF TypeOK, SessionStarts
  <2>3. /\ startReceived' \in BOOLEAN /\ wasReconnecting' \in BOOLEAN
        /\ sessionReady' \in BOOLEAN /\ runtimeReady' \in BOOLEAN
    BY <1>2 DEF TypeOK, SessionStarts
  <2>4. QED
    BY <1>2, <2>1, <2>2, <2>3 DEF TypeOK, SessionStarts, recovery, process, ending, ghosts, bounds
<1>3. CASE LinkLost \/ DropPartial
  <2>1. /\ CancelSessionStart /\ CloseRouting /\ MainWakes
        /\ link' = "down" /\ closing' = FALSE
    BY <1>3 DEF LinkLost, DropPartial, StreamEnds, OnSessionEnd
  <2>2. /\ closing' \in BOOLEAN /\ sessionReady' \in BOOLEAN /\ runtimeReady' \in BOOLEAN
        /\ main' \in {"running", "stopping", "ended"}
    BY <2>1 DEF TypeOK, CloseRouting, MainWakes
  <2>3. /\ reconnecting' \in BOOLEAN /\ startReceived' \in BOOLEAN /\ readyEvent' \in BOOLEAN
        /\ wasReconnecting' \in BOOLEAN /\ reconnect' \in {"none", "delay", "waiting"}
    BY <1>3 DEF TypeOK, LinkLost, DropPartial, OnDisconnect, recovery
  <2>4. losses' \in 0 .. MaxLosses
    BY <1>3 DEF TypeOK, LinkLost, DropPartial
  <2>5. QED
    BY <1>3, <2>1, <2>2, <2>3, <2>4, CancelTypes
       DEF TypeOK, LinkLost, DropPartial, process, ghosts
<1>4. ASSUME NEW g \in Sessions, TransportDone(g) PROVE TypeOK'
  <2>1. pc' \in [Sessions -> Phases]
    BY <1>4 DEF TypeOK, TransportDone, Phases
  <2>2. startup' \in 0 .. Len(StartupPhases)
    BY <1>4 DEF TypeOK, TransportDone, StartupPhases
  <2>3. QED
    BY <1>4, <2>1, <2>2
       DEF TypeOK, TransportDone, network, flags, recovery, ending, ghosts, bounds
<1>5. ASSUME NEW g \in Sessions, ReadinessDone(g) PROVE TypeOK'
  <2>1. pc' \in [Sessions -> Phases] /\ sessionTask' \in 0 .. MaxSessions
    BY <1>5 DEF TypeOK, ReadinessDone, Publishes, Phases, NoSession
  <2>2. runtimeReady' \in BOOLEAN /\ reconnecting' \in BOOLEAN /\ readyEvent' \in BOOLEAN
    BY <1>5 DEF TypeOK, ReadinessDone, Publishes
  <2>3. QED
    BY <1>5, <2>1, <2>2 DEF TypeOK, ReadinessDone, network, process, ending, ghosts, bounds
<1>6. ASSUME NEW g \in Sessions, VersionRecorded(g) PROVE TypeOK'
  <2>1. pc' \in [Sessions -> Phases] /\ sessionTask' \in 0 .. MaxSessions
    BY <1>6 DEF TypeOK, VersionRecorded, Phases, NoSession
  <2>2. recorded' \in BOOLEAN
    BY <1>6 DEF VersionRecorded
  <2>3. QED
    BY <1>6, <2>1, <2>2
       DEF TypeOK, VersionRecorded, network, flags, recovery, process, ending, bounds
<1>7. ASSUME NEW g \in Sessions, SessionFails(g) PROVE TypeOK'
  <2>1. Fails(g) /\ errors' \in 0 .. MaxErrors
    BY <1>7 DEF TypeOK, SessionFails
  <2>2. /\ pc' \in [Sessions -> Phases]
        /\ sessionReady' \in BOOLEAN /\ runtimeReady' \in BOOLEAN /\ exiting' \in BOOLEAN
        /\ closing' \in BOOLEAN /\ failed' \in BOOLEAN
    BY <2>1, FailsTypes
  <2>3. QED
    BY <1>7, <2>1, <2>2 DEF TypeOK, SessionFails, Fails, recovery, process
<1>8. CASE StartupPhaseDone
  <2>1. pc' \in [Sessions -> Phases]
    BY <1>8 DEF TypeOK, StartupPhaseDone, Phases
  <2>2. startup' \in 0 .. Len(StartupPhases) /\ initializer' \in 0 .. MaxSessions
    BY <1>8, PhasesKnown DEF TypeOK, StartupPhaseDone, NoSession
  <2>3. services' \subseteq Services
    BY <1>8, PhasesKnown DEF TypeOK, StartupPhaseDone
  <2>4. startupDone' \in BOOLEAN
    BY <1>8 DEF TypeOK, StartupPhaseDone
  <2>5. QED
    BY <1>8, <2>1, <2>2, <2>3, <2>4
       DEF TypeOK, StartupPhaseDone, network, flags, recovery, ending, ghosts, bounds
<1>9. CASE StartupFails
  <2>1. services' \subseteq Services
    BY <1>9, PhasesKnown DEF TypeOK, StartupFails
  <2>2. errors' \in 0 .. MaxErrors /\ startup' \in 0 .. Len(StartupPhases)
    BY <1>9 DEF TypeOK, StartupFails, StartupPhases
  <2>3. CASE Waiter = {}
    BY <1>9, <2>1, <2>2, <2>3
       DEF TypeOK, StartupFails, network, sessions, flags, recovery, ending, ghosts
  <2>4. ASSUME NEW g \in Sessions, Fails(g) PROVE TypeOK'
    <3>1. /\ pc' \in [Sessions -> Phases]
          /\ sessionReady' \in BOOLEAN /\ runtimeReady' \in BOOLEAN /\ exiting' \in BOOLEAN
          /\ closing' \in BOOLEAN /\ failed' \in BOOLEAN
      BY <2>4, FailsTypes
    <3>2. QED
      BY <1>9, <2>1, <2>2, <2>4, <3>1 DEF TypeOK, StartupFails, Fails, recovery
  <2>5. QED
    BY <1>9, <2>3, <2>4 DEF StartupFails, Waiter
<1>10. CASE ReconnectStep
  <2>1. reconnect' \in {"none", "delay", "waiting"}
    BY <1>10 DEF TypeOK, ReconnectStep, ReconnectConnects, ReconnectSettles
  <2>2. link' \in {"down", "opening", "up", "session"}
    BY <1>10 DEF TypeOK, ReconnectStep, ReconnectConnects, ReconnectSettles, network
  <2>3. QED
    BY <1>10, <2>1, <2>2
       DEF TypeOK, ReconnectStep, ReconnectConnects, ReconnectSettles,
           network, sessions, flags, process, ending, ghosts, bounds
<1>11. CASE Signal
  <2>1. exiting' \in BOOLEAN /\ closing' \in BOOLEAN
    BY <1>11 DEF TypeOK, Signal
  <2>2. /\ link' \in {"down", "opening", "up", "session"}
        /\ main' \in {"running", "stopping", "ended"}
    BY <1>11 DEF TypeOK, Signal
  <2>3. QED
    BY <1>11, <2>1, <2>2 DEF TypeOK, Signal, sessions, flags, recovery, process, ghosts, bounds
<1>12. CASE MainStops
  <2>1. sessionReady' \in BOOLEAN /\ runtimeReady' \in BOOLEAN
    BY <1>12 DEF TypeOK, MainStops, CloseRouting, flags
  <2>2. /\ main' \in {"running", "stopping", "ended"}
        /\ stopper' \in {"none", "session", "main"}
    BY <1>12 DEF TypeOK, MainStops
  <2>3. QED
    BY <1>12, <2>1, <2>2
       DEF TypeOK, MainStops, network, sessions, recovery, process, ghosts, bounds
<1>13. CASE ShutdownBegins
  <2>1. /\ pc' \in [Sessions -> Phases] /\ sessionTask' \in 0 .. MaxSessions
        /\ startup' \in 0 .. Len(StartupPhases)
    BY <1>13 DEF TypeOK, ShutdownBegins, CancelProcessStartup, Phases, NoSession, StartupPhases
  <2>2. QED
    BY <1>13, <2>1
       DEF TypeOK, ShutdownBegins, network, flags, recovery, ending, ghosts, bounds
<1>14. CASE ShutdownPhase
  <2>1. stage' \in 0 .. Len(ShutdownPhases) /\ reconnect' \in {"none", "delay", "waiting"}
    BY <1>14 DEF TypeOK, ShutdownPhase, ShutdownPhases
  <2>2. services' \subseteq Services /\ errors' \in 0 .. MaxErrors
    BY <1>14 DEF TypeOK, ShutdownPhase
  <2>3. broken' \subseteq Services
    BY <1>14, PhasesKnown DEF TypeOK, ShutdownPhase
  <2>4. QED
    BY <1>14, <2>1, <2>2, <2>3 DEF TypeOK, ShutdownPhase, network, sessions, flags
<1>15. CASE ShutdownEnds
  <2>1. pc' \in [Sessions -> Phases] /\ sessionTask' \in 0 .. MaxSessions
    BY <1>15 DEF TypeOK, ShutdownEnds, Phases, NoSession
  <2>2. /\ shutdownDone' \in BOOLEAN /\ main' \in {"running", "stopping", "ended"}
        /\ stopper' \in {"none", "session", "main"}
    BY <1>15 DEF TypeOK, ShutdownEnds
  <2>3. QED
    BY <1>15, <2>1, <2>2
       DEF TypeOK, ShutdownEnds, network, flags, recovery, process, ghosts, bounds
<1>16. CASE UNCHANGED vars
  BY <1>16 DEF TypeOK, vars, network, sessions, flags, recovery, process, ending, ghosts, bounds
<1>17. QED
  BY <1>1, <1>2, <1>3, <1>4, <1>5, <1>6, <1>7, <1>8, <1>9, <1>10, <1>11, <1>12, <1>13,
     <1>14, <1>15, <1>16
     DEF Next, SessionStep, ReconnectStep, StopStep

-----------------------------------------------------------------------------
(* One session starts at a time, and lives on its stream.                   *)

(* A cancellation leaves at most the session start that shuts down.         *)
LEMMA CancelLeaves ==
    ASSUME LifecycleInv, CancelSessionStart
    PROVE  \A g \in Sessions : pc'[g] \in Suspended =>
               pc[g] = "failing" /\ pc'[g] = "failing" /\ sessionTask = g /\ sessionTask' = g
<1> SUFFICES ASSUME NEW g \in Sessions, pc'[g] \in Suspended
             PROVE  pc[g] = "failing" /\ pc'[g] = "failing" /\ sessionTask = g /\ sessionTask' = g
  OBVIOUS
<1>1. pc'[g] = pc[g] /\ pc[g] \in Suspended /\ Swallows(g)
  BY DEF CancelSessionStart, Retired, Suspended, Phases
<1>2. sessionTask = g
  BY <1>1 DEF LifecycleInv, Sound, OneSessionStart
<1>3. sessionTask # NoSession
  BY <1>2 DEF Sessions, NoSession
<1>4. QED
  BY <1>1, <1>2, <1>3 DEF CancelSessionStart, Swallows

LEMMA LostSound ==
    ASSUME LifecycleInv, LinkLost \/ DropPartial
    PROVE  Sound'
<1>1. /\ CancelSessionStart /\ sessionReady' = FALSE /\ runtimeReady' = FALSE
      /\ link' = "down" /\ exiting' = exiting /\ generation' = generation /\ failed' = failed
      /\ main' = (IF exiting /\ main = "running" THEN "stopping" ELSE main)
      /\ UNCHANGED <<process, broken, stage, wasReconnecting>>
  BY DEF LinkLost, DropPartial, StreamEnds, OnSessionEnd, CloseRouting, MainWakes, ghosts,
         OnDisconnect, recovery
<1>2. /\ stopper' = stopper \/ (stopper' = "none" /\ shutdownDone' /\ exiting /\ failed)
      /\ shutdownDone' = shutdownDone \/ (shutdownDone' /\ exiting /\ failed)
  <2>1. CASE sessionTask # NoSession /\ pc[sessionTask] = "failing"
    BY <1>1, <2>1
       DEF CancelSessionStart, ShutdownUnwinds, LifecycleInv, Sound, Attached, ServicesGoDown, TypeOK,
           Suspended, Phases, Sessions, NoSession
  <2>2. CASE ~(sessionTask # NoSession /\ pc[sessionTask] = "failing")
    BY <1>1, <2>2 DEF CancelSessionStart
  <2>3. QED
    BY <2>1, <2>2
<1>3. \A g \in Sessions : pc'[g] \in Suspended =>
          pc[g] = "failing" /\ pc'[g] = "failing" /\ sessionTask = g /\ sessionTask' = g
  BY <1>1, CancelLeaves
<1>4. OneSessionStart'
  BY <1>1, <1>3 DEF LifecycleInv, Sound, OneSessionStart, Suspended, Phases
<1>5. ReadyMeansServing' /\ ReadyEndsReconnect'
  BY <1>1 DEF ReadyMeansServing, ReadyEndsReconnect
<1>6. LossIsRecovered'
  BY <1>1 DEF LossIsRecovered, LinkLost, DropPartial, OnDisconnect, ReconnectSuppressed,
              ReconnectScheduled, LifecycleInv, Sound, NothingStarts, recovery
<1>7. Attached'
  BY <1>1, <1>3 DEF LifecycleInv, Sound, Attached, Suspended, Phases
<1>8. NothingStarts'
  BY <1>1, <1>2, <1>3 DEF LifecycleInv, Sound, NothingStarts, TypeOK
<1>9. ServicesComeUp'
  BY <1>1, <1>2 DEF LifecycleInv, Sound, ServicesComeUp, process
<1>10. LossIsKnown'
  BY <1>1, <1>3 DEF LossIsKnown, LinkLost, DropPartial, OnDisconnect, ReconnectSuppressed,
                    ReconnectScheduled, LifecycleInv, Sound, NothingStarts, recovery
<1>11. ServicesGoDown'
  BY <1>1, <1>2 DEF LifecycleInv, Sound, ServicesGoDown, NothingStarts, process, CancelSessionStart,
                    Retired, TypeOK
<1>12. QED
  BY <1>4, <1>5, <1>6, <1>7, <1>8, <1>9, <1>10, <1>11 DEF Sound

LEMMA OpensSound ==
    ASSUME LifecycleInv, LinkOpens
    PROVE  Sound'
<1> USE DEF LinkOpens, sessions, flags, recovery, process, ending, ghosts, bounds, LifecycleInv, Sound
<1>1. OneSessionStart' /\ Attached'
  BY DEF OneSessionStart, Attached
<1>2. ReadyMeansServing' /\ LossIsRecovered' /\ ReadyEndsReconnect' /\ LossIsKnown'
  BY DEF ReadyMeansServing, LossIsRecovered, ReadyEndsReconnect, LossIsKnown
<1>3. NothingStarts' /\ ServicesComeUp'
  BY DEF NothingStarts, ServicesComeUp
<1>4. ServicesGoDown'
  BY DEF ServicesGoDown
<1>5. QED
  BY <1>1, <1>2, <1>3, <1>4

LEMMA SessionStartsSound ==
    ASSUME LifecycleInv, SessionStarts
    PROVE  Sound'
<1>1. \A g \in Sessions : pc[g] \notin Suspended
  BY DEF SessionStarts, LifecycleInv, Sound, Attached
<1>2. /\ generation' \in Sessions
      /\ pc'[generation'] = "transport" /\ sessionTask' = generation'
      /\ \A g \in Sessions : g # generation' => pc'[g] \notin Suspended
  BY <1>1 DEF SessionStarts, Retired, Sessions, LifecycleInv, TypeOK
<1>3. OneSessionStart'
  BY <1>2 DEF OneSessionStart
<1>4. ReadyMeansServing' /\ LossIsRecovered' /\ ReadyEndsReconnect'
  BY DEF SessionStarts, ReadyMeansServing, LossIsRecovered, ReadyEndsReconnect
<1>5. Attached'
  BY <1>2 DEF SessionStarts, Attached, Suspended
<1>6. stopper = "none" /\ ~shutdownDone /\ main = "running"
  BY DEF SessionStarts, LifecycleInv, Sound, NothingStarts
<1>7. NothingStarts' /\ ServicesComeUp'
  BY <1>6 DEF SessionStarts, NothingStarts, ServicesComeUp, LifecycleInv, Sound, ending, process
<1>8. LossIsKnown'
  BY <1>2 DEF SessionStarts, LossIsKnown, LifecycleInv, Sound, process
<1>9. ServicesGoDown'
  BY <1>2, <1>6 DEF SessionStarts, ServicesGoDown, LifecycleInv, Sound, ending, process, ghosts,
                    Suspended, Phases
<1>10. QED
  BY <1>3, <1>4, <1>5, <1>7, <1>8, <1>9 DEF Sound

-----------------------------------------------------------------------------
(* Session starts.                                                          *)

LEMMA TransportSound ==
    ASSUME LifecycleInv, NEW g \in Sessions, TransportDone(g)
    PROVE  Sound'
<1>1. /\ pc[g] \in Suspended /\ pc[g] # "failing" /\ sessionTask = g /\ generation = g
      /\ link = "session" /\ sessionReady
  BY DEF TransportDone, Suspended, Phases, LifecycleInv, Sound, OneSessionStart, Attached
<1>2. /\ pc' = [pc EXCEPT ![g] = IF startupDone THEN "readiness" ELSE "process"]
      /\ pc'[g] \in {"readiness", "process"} /\ (pc'[g] = "readiness" => startupDone)
  BY DEF TransportDone, LifecycleInv, TypeOK
<1>3. \A h \in Sessions : h # g => pc'[h] = pc[h]
  BY <1>2 DEF LifecycleInv, TypeOK
<1>4. stopper = "none" /\ ~shutdownDone /\ main = "running"
  BY <1>1 DEF LifecycleInv, Sound, NothingStarts
<1> USE DEF TransportDone, network, flags, recovery, ending, ghosts, bounds
<1>5. OneSessionStart'
  BY <1>1, <1>2, <1>3 DEF OneSessionStart, LifecycleInv, Sound
<1>6. ReadyMeansServing' /\ LossIsRecovered' /\ ReadyEndsReconnect'
  BY DEF ReadyMeansServing, LossIsRecovered, ReadyEndsReconnect, LifecycleInv, Sound
<1>7. Attached'
  BY <1>1, <1>2, <1>3 DEF Attached, LifecycleInv, Sound
<1>8. NothingStarts'
  BY <1>4 DEF NothingStarts, LifecycleInv, Sound
<1>9. ServicesComeUp'
  BY DEF ServicesComeUp, LifecycleInv, Sound
<1>10. LossIsKnown'
  BY <1>1, <1>2, <1>3 DEF LossIsKnown, LifecycleInv, Sound
<1>11. ServicesGoDown'
  BY <1>2, <1>3, <1>4 DEF ServicesGoDown, LifecycleInv, Sound
<1>12. QED
  BY <1>5, <1>6, <1>7, <1>8, <1>9, <1>10, <1>11 DEF Sound

LEMMA ReadinessSound ==
    ASSUME LifecycleInv, NEW g \in Sessions, ReadinessDone(g)
    PROVE  Sound'
<1>1. /\ pc[g] \in Suspended /\ pc[g] # "failing" /\ sessionTask = g /\ generation = g
      /\ link = "session" /\ sessionReady /\ startupDone
      /\ reconnect # "none" /\ ~readyEvent => wasReconnecting
  BY DEF ReadinessDone, Suspended, Phases, LifecycleInv, Sound, OneSessionStart, Attached, LossIsKnown
<1>2. /\ \A h \in Sessions : h # g => pc'[h] = pc[h]
      /\ \/ pc'[g] = "recording" /\ sessionTask' = g
         \/ pc'[g] = "done"
  BY <1>1 DEF ReadinessDone, Publishes, LifecycleInv, TypeOK
<1>3. stopper = "none" /\ ~shutdownDone /\ main = "running"
  BY <1>1 DEF LifecycleInv, Sound, NothingStarts
<1>4. /\ runtimeReady' = TRUE /\ reconnecting' = FALSE
      /\ readyEvent' = (readyEvent \/ wasReconnecting)
  BY DEF ReadinessDone, Publishes
<1> USE DEF ReadinessDone, network, process, ending, ghosts, bounds
<1>5. OneSessionStart'
  BY <1>1, <1>2 DEF OneSessionStart, LifecycleInv, Sound, Suspended, Phases
<1>6. ReadyMeansServing'
  BY <1>1, <1>3 DEF ReadyMeansServing, LifecycleInv, Sound, ServicesComeUp
<1>7. LossIsRecovered' /\ ReadyEndsReconnect'
  BY <1>1, <1>4 DEF LossIsRecovered, ReadyEndsReconnect
<1>8. Attached'
  BY <1>1, <1>2 DEF Attached, LifecycleInv, Sound, Suspended, Phases
<1>9. NothingStarts'
  BY <1>3 DEF NothingStarts, LifecycleInv, Sound
<1>10. ServicesComeUp'
  BY DEF ServicesComeUp, LifecycleInv, Sound
<1>11. LossIsKnown'
  BY <1>1, <1>2, <1>4 DEF LossIsKnown, LifecycleInv, Sound
<1>12. ServicesGoDown'
  BY <1>2, <1>3 DEF ServicesGoDown, LifecycleInv, Sound
<1>13. QED
  BY <1>5, <1>6, <1>7, <1>8, <1>9, <1>10, <1>11, <1>12 DEF Sound

LEMMA RecordedSound ==
    ASSUME LifecycleInv, NEW g \in Sessions, VersionRecorded(g)
    PROVE  Sound'
<1>1. pc[g] \in Suspended /\ pc'[g] = "done" /\ \A h \in Sessions : h # g => pc'[h] = pc[h]
  BY DEF VersionRecorded, Suspended, Phases, LifecycleInv, TypeOK
<1> USE DEF VersionRecorded, network, flags, recovery, process, ending, bounds
<1>2. OneSessionStart'
  BY <1>1 DEF OneSessionStart, LifecycleInv, Sound, Suspended
<1>3. ReadyMeansServing' /\ LossIsRecovered' /\ ReadyEndsReconnect'
  BY DEF ReadyMeansServing, LossIsRecovered, ReadyEndsReconnect, LifecycleInv, Sound
<1>4. Attached' /\ NothingStarts' /\ LossIsKnown'
  BY <1>1 DEF Attached, NothingStarts, LossIsKnown, LifecycleInv, Sound, Suspended
<1>5. ServicesComeUp' /\ ServicesGoDown'
  BY <1>1 DEF ServicesComeUp, ServicesGoDown, LifecycleInv, Sound
<1>6. QED
  BY <1>2, <1>3, <1>4, <1>5 DEF Sound

(* A session start that fails, for itself or with the process startup.      *)
LEMMA FailsSound ==
    ASSUME LifecycleInv, NEW g \in Sessions, pc[g] \in {"transport", "process", "readiness"}, Fails(g)
    PROVE  Sound'
<1>1. /\ pc[g] \in Suspended /\ pc[g] # "failing" /\ sessionTask = g /\ generation = g
      /\ link = "session"
  BY DEF Suspended, Phases, LifecycleInv, Sound, OneSessionStart, Attached
<1>2. pc'[g] = "failing" /\ \A h \in Sessions : h # g => pc'[h] = pc[h] /\ pc[h] \notin Suspended
  BY <1>1 DEF Fails, LifecycleInv, Sound, OneSessionStart, TypeOK
<1>3. stopper = "none" /\ ~shutdownDone /\ main = "running"
  BY <1>1 DEF LifecycleInv, Sound, NothingStarts
<1>4. ~runtimeReady' /\ exiting' = TRUE
  BY DEF Fails, CloseRouting
<1> USE DEF Fails
<1>5. OneSessionStart'
  BY <1>1, <1>2 DEF OneSessionStart
<1>6. ReadyMeansServing' /\ LossIsRecovered' /\ ReadyEndsReconnect'
  BY <1>4 DEF ReadyMeansServing, LossIsRecovered, ReadyEndsReconnect
<1>7. Attached'
  BY <1>1, <1>2, <1>4 DEF Attached
<1>8. NothingStarts'
  BY <1>1, <1>2, <1>3, <1>4 DEF NothingStarts
<1>9. ServicesComeUp' /\ ServicesGoDown'
  BY DEF ServicesComeUp, ServicesGoDown
<1>10. LossIsKnown'
  BY <1>1, <1>2, <1>4 DEF LossIsKnown, LifecycleInv, Sound, recovery
<1>11. QED
  BY <1>5, <1>6, <1>7, <1>8, <1>9, <1>10 DEF Sound

-----------------------------------------------------------------------------
(* Process startup and the reconnect task.                                  *)

LEMMA StartupPhaseSound ==
    ASSUME LifecycleInv, StartupPhaseDone
    PROVE  Sound'
<1>1. startup \in 1 .. 3 /\ services \subseteq services' /\ stopper = "none"
  BY PhasesKnown DEF StartupPhaseDone
<1>2. services' \subseteq Services
  BY NextTypes DEF LifecycleInv, Next, TypeOK
<1>3. services = Services => services' = Services
  BY <1>1, <1>2
<1>4. \A g \in Sessions :
          /\ pc'[g] \in Suspended => pc[g] \in Suspended
          /\ pc'[g] = pc[g] \/ (pc[g] = "process" /\ pc'[g] = "readiness" /\ startupDone')
          /\ (startupDone => startupDone')
  BY DEF StartupPhaseDone, Waiter, Suspended, Phases, LifecycleInv, TypeOK
<1>5. stage = 0 \/ failed \/ main # "running"
  BY DEF LifecycleInv, Sound, ServicesGoDown, TypeOK
<1> USE DEF network, flags, recovery, ending, ghosts, bounds
<1>6. UNCHANGED <<network, generation, sessionTask, flags, recovery, ending, ghosts, bounds>>
  BY DEF StartupPhaseDone
<1>7. OneSessionStart' /\ Attached'
  BY <1>4, <1>6 DEF OneSessionStart, Attached, LifecycleInv, Sound, Suspended, Phases
<1>8. ReadyMeansServing'
  <2>1. startupDone => startupDone'
    BY DEF StartupPhaseDone, LifecycleInv, TypeOK
  <2>2. QED
    BY <1>3, <1>6, <2>1 DEF ReadyMeansServing, LifecycleInv, Sound
<1>9. LossIsRecovered' /\ ReadyEndsReconnect' /\ NothingStarts'
  BY <1>4, <1>6 DEF LossIsRecovered, ReadyEndsReconnect, NothingStarts, LifecycleInv, Sound,
                    Suspended, Phases
<1>10. ServicesComeUp'
  <2> SUFFICES ASSUME stopper = "none", ~shutdownDone PROVE
          /\ startupDone' => services' = Services
          /\ \A i \in 1 .. 3 : i < startup' => StartedBy[StartupPhases[i]] \subseteq services'
    BY <1>6, PhasesKnown DEF ServicesComeUp
  <2>1. /\ startupDone => services = Services
        /\ \A i \in 1 .. 3 : i < startup => StartedBy[StartupPhases[i]] \subseteq services
    BY PhasesKnown DEF LifecycleInv, Sound, ServicesComeUp
  <2>2. \A i \in 1 .. 3 : i <= startup => StartedBy[StartupPhases[i]] \subseteq services'
    BY <1>1, <2>1 DEF StartupPhaseDone
  <2>3. CASE startup < 3
    BY <1>1, <1>3, <2>1, <2>2, <2>3, PhasesKnown DEF StartupPhaseDone
  <2>4. CASE startup = 3
    <3>1. startup' = 0
      BY <2>4, PhasesKnown DEF StartupPhaseDone
    <3>2. /\ StartedBy[StartupPhases[1]] \subseteq services'
          /\ StartedBy[StartupPhases[2]] \subseteq services'
          /\ StartedBy[StartupPhases[3]] \subseteq services'
      BY <2>2, <2>4
    <3>3. /\ StartedBy["storage"] \subseteq services' /\ StartedBy["plugins"] \subseteq services'
          /\ StartedBy["monitoring"] \subseteq services'
      BY <3>2 DEF StartupPhases
    <3>4. Services \subseteq services'
      BY <3>3 DEF StartedBy, Services
    <3>5. QED
      BY <1>2, <3>1, <3>4
  <2>5. QED
    BY <1>1, <2>3, <2>4
<1>11. LossIsKnown'
  BY <1>4, <1>6 DEF LossIsKnown, LifecycleInv, Sound, Suspended, Phases
<1>12. ServicesGoDown'
  <2>1. CASE failed
    BY <1>6, <2>1 DEF ServicesGoDown
  <2>2. CASE ~failed
    <3>1. stage = 0
      BY <1>1, <2>2 DEF LifecycleInv, Sound, ServicesGoDown, TypeOK
    <3>2. QED
      BY <1>4, <1>6, <2>2, <3>1, PhasesKnown DEF ServicesGoDown, LifecycleInv, Sound
  <2>3. QED
    BY <2>1, <2>2
<1>13. QED
  BY <1>7, <1>8, <1>9, <1>10, <1>11, <1>12 DEF Sound

LEMMA StartupFailsSound ==
    ASSUME LifecycleInv, StartupFails
    PROVE  Sound'
<1>1. CASE \E g \in Sessions : pc[g] = "process" /\ Fails(g)
  BY <1>1, FailsSound
<1>2. CASE UNCHANGED <<network, sessions, flags, recovery, ending, ghosts, losses>>
  <2>1. services \subseteq services' /\ services' \subseteq Services
    BY NextTypes DEF LifecycleInv, Next, TypeOK, StartupFails
  <2>2. startup' = 0 /\ startupDone' = startupDone /\ stopper = "none" /\ startup # 0
    BY DEF StartupFails
  <2> USE <1>2 DEF network, sessions, flags, recovery, ending, ghosts
  <2>3. OneSessionStart' /\ Attached' /\ LossIsKnown'
    BY <2>2 DEF OneSessionStart, Attached, LossIsKnown, LifecycleInv, Sound
  <2>4. ReadyMeansServing' /\ LossIsRecovered' /\ ReadyEndsReconnect' /\ NothingStarts'
    BY <2>1, <2>2 DEF ReadyMeansServing, LossIsRecovered, ReadyEndsReconnect, NothingStarts,
                      LifecycleInv, Sound
  <2>5. ServicesComeUp'
    <3>1. ~shutdownDone /\ startupDone => services' = Services
      BY <2>1, <2>2 DEF ServicesComeUp, LifecycleInv, Sound
    <3>2. \A i \in 1 .. 3 : ~(i < startup')
      BY <2>2
    <3>3. QED
      BY <2>2, <3>1, <3>2, PhasesKnown DEF ServicesComeUp
  <2>6. ServicesGoDown'
    <3>1. failed \/ stage = 0
      BY <2>2 DEF LifecycleInv, Sound, ServicesGoDown, TypeOK
    <3>2. QED
      BY <2>2, <3>1, PhasesKnown DEF ServicesGoDown, LifecycleInv, Sound
  <2>7. QED
    BY <2>3, <2>4, <2>5, <2>6 DEF Sound
<1>3. QED
  BY <1>1, <1>2 DEF StartupFails, Waiter

LEMMA ReconnectSound ==
    ASSUME LifecycleInv, ReconnectStep
    PROVE  Sound'
<1>1. UNCHANGED <<closing, sessions, flags, reconnecting, wasReconnecting, startReceived,
                  readyEvent, process, ending, ghosts, bounds>>
  BY DEF ReconnectStep, ReconnectConnects, ReconnectSettles, network
<1>2. /\ link' = link \/ (link = "down" /\ link' = "opening" /\ ~exiting /\ ~shutdownDone)
      /\ link' # link => reconnect = "delay" /\ reconnect' = "waiting"
  BY DEF ReconnectStep, ReconnectConnects, ReconnectSettles, network, ReconnectSuppressed
<1> USE DEF sessions, flags, process, ending, ghosts, bounds, LifecycleInv, Sound
<1>3. OneSessionStart'
  BY <1>1 DEF OneSessionStart
<1>4. ReadyMeansServing'
  BY <1>1, <1>2 DEF ReadyMeansServing
<1>5. LossIsRecovered'
  BY <1>1, <1>2 DEF LossIsRecovered, ReconnectStep, ReconnectConnects, ReconnectSettles,
                    ReconnectSuppressed, NothingStarts, LossIsKnown, network
<1>6. ReadyEndsReconnect'
  BY <1>1 DEF ReadyEndsReconnect, ReconnectStep, ReconnectConnects, ReconnectSettles,
              LossIsKnown, ReadyMeansServing
<1>7. Attached'
  BY <1>1, <1>2 DEF Attached
<1>8. NothingStarts' /\ ServicesComeUp' /\ ServicesGoDown'
  BY <1>1, <1>2 DEF NothingStarts, ServicesComeUp, ServicesGoDown
<1>9. LossIsKnown'
  BY <1>1, <1>2 DEF LossIsKnown, ReconnectStep, ReconnectConnects, ReconnectSettles,
                    ReconnectSuppressed, network
<1>10. QED
  BY <1>3, <1>4, <1>5, <1>6, <1>7, <1>8, <1>9

-----------------------------------------------------------------------------
(* Ending the process.                                                      *)

LEMMA SignalSound ==
    ASSUME LifecycleInv, Signal
    PROVE  Sound'
<1> USE DEF Signal, sessions, flags, recovery, process, ghosts, bounds, LifecycleInv, Sound
<1>1. exiting' = TRUE /\ stopper = "none" /\ ~shutdownDone /\ main = "running"
  BY DEF NothingStarts, TypeOK
<1>2. link' = link \/ (link \in {"down", "opening"} /\ link' = "down")
  BY DEF TypeOK
<1>3. OneSessionStart'
  BY DEF OneSessionStart
<1>4. ReadyMeansServing' /\ LossIsRecovered' /\ ReadyEndsReconnect'
  BY <1>2 DEF ReadyMeansServing, LossIsRecovered, ReadyEndsReconnect
<1>5. Attached'
  BY <1>1, <1>2 DEF Attached
<1>6. NothingStarts' /\ ServicesComeUp'
  BY <1>1 DEF NothingStarts, ServicesComeUp
<1>7. LossIsKnown'
  BY <1>1, <1>2 DEF LossIsKnown
<1>8. ServicesGoDown'
  BY <1>1 DEF ServicesGoDown
<1>9. QED
  BY <1>3, <1>4, <1>5, <1>6, <1>7, <1>8

LEMMA MainStopsSound ==
    ASSUME LifecycleInv, MainStops
    PROVE  Sound'
<1> USE DEF MainStops, network, sessions, recovery, process, ghosts, bounds, LifecycleInv, Sound
<1>1. exiting /\ link = "down" /\ stopper = "none" /\ main = "stopping"
  BY DEF NothingStarts
<1>2. \A g \in Sessions : pc[g] \in Suspended => pc[g] = "failing"
  BY <1>1 DEF Attached
<1>3. runtimeReady' = FALSE /\ (sessionReady' \/ ~sessionReady' \/ sessionReady' = sessionReady)
  BY <1>1 DEF CloseRouting, flags, ReadyMeansServing, TypeOK
<1>4. OneSessionStart' /\ LossIsKnown'
  BY DEF OneSessionStart, LossIsKnown
<1>5. ReadyMeansServing' /\ LossIsRecovered' /\ ReadyEndsReconnect'
  BY <1>1, <1>3 DEF ReadyMeansServing, LossIsRecovered, ReadyEndsReconnect
<1>6. Attached'
  BY <1>1, <1>2 DEF Attached
<1>7. NothingStarts'
  BY <1>1, <1>2, <1>3 DEF NothingStarts
<1>8. ServicesComeUp'
  BY <1>1 DEF ServicesComeUp
<1>9. ServicesGoDown'
  BY <1>1 DEF ServicesGoDown
<1>10. QED
  BY <1>4, <1>5, <1>6, <1>7, <1>8, <1>9

LEMMA ShutdownBeginsSound ==
    ASSUME LifecycleInv, ShutdownBegins
    PROVE  Sound'
<1> USE DEF ShutdownBegins, network, flags, recovery, ending, ghosts, bounds, LifecycleInv, Sound
<1>1. Waiter = {}
  BY DEF NothingStarts, Waiter, Suspended, Phases
<1>2. startup' = 0 /\ UNCHANGED <<pc, sessionTask>>
  BY <1>1 DEF CancelProcessStartup
<1>3. OneSessionStart' /\ Attached' /\ NothingStarts' /\ LossIsKnown'
  BY <1>2 DEF OneSessionStart, Attached, NothingStarts, LossIsKnown
<1>4. ReadyMeansServing' /\ LossIsRecovered' /\ ReadyEndsReconnect' /\ ServicesComeUp'
  BY DEF ReadyMeansServing, LossIsRecovered, ReadyEndsReconnect, ServicesComeUp
<1>5. ServicesGoDown'
  BY <1>2 DEF ServicesGoDown
<1>6. QED
  BY <1>3, <1>4, <1>5

LEMMA ShutdownPhaseSound ==
    ASSUME LifecycleInv, ShutdownPhase
    PROVE  Sound'
<1> USE DEF ShutdownPhase, network, sessions, flags, LifecycleInv, Sound
<1>1. stopper # "none" /\ stage' = stage + 1 /\ stage + 1 \in 1 .. 10 /\ startup' = 0
  BY PhasesKnown DEF TypeOK
<1>2. exiting /\ ~runtimeReady
  BY <1>1 DEF NothingStarts
<1>3. reconnect' = reconnect \/ reconnect' = "none"
  OBVIOUS
<1>4. OneSessionStart' /\ Attached' /\ NothingStarts'
  BY DEF OneSessionStart, Attached, NothingStarts
<1>5. ReadyMeansServing' /\ LossIsRecovered' /\ ReadyEndsReconnect' /\ ServicesComeUp'
  BY <1>1, <1>2 DEF ReadyMeansServing, LossIsRecovered, ReadyEndsReconnect, ServicesComeUp
<1>6. LossIsKnown'
  BY <1>2, <1>3 DEF LossIsKnown
<1>7. ServicesGoDown'
  <2>1. CASE failed
    BY <2>1 DEF ServicesGoDown
  <2>2. CASE ~failed
    <3>1. /\ stopper = "main" /\ main = "stopping" /\ \A g \in Sessions : pc[g] # "failing"
          /\ ~shutdownDone
      BY <1>1, <2>2 DEF ServicesGoDown, NothingStarts, TypeOK
    <3>2. services' \subseteq services /\ broken \subseteq broken'
      OBVIOUS
    <3>3. services' \cap StoppedBy[ShutdownPhases[stage + 1]] \subseteq broken'
      OBVIOUS
    <3>4. ASSUME NEW i \in 1 .. 10, i <= stage'
          PROVE  services' \cap StoppedBy[ShutdownPhases[i]] \subseteq broken'
      <4>1. CASE i = stage + 1
        <5>1. ShutdownPhases[i] = ShutdownPhases[stage + 1]
          BY <4>1
        <5>2. QED
          BY ONLY <3>3, <5>1
      <4>2. CASE i <= stage
        <5>1. services \cap StoppedBy[ShutdownPhases[i]] \subseteq broken
          BY <2>2, <4>2, PhasesKnown DEF ServicesGoDown
        <5>2. QED
          BY <3>2, <5>1
      <4>3. i = stage + 1 \/ i <= stage
        BY <1>1, <3>4 DEF TypeOK
      <4>4. QED
        BY ONLY <4>1, <4>2, <4>3
    <3>5. QED
      BY <1>1, <3>1, <3>4, PhasesKnown DEF ServicesGoDown
  <2>3. QED
    BY <2>1, <2>2
<1>8. QED
  BY <1>4, <1>5, <1>6, <1>7

LEMMA ShutdownEndsSound ==
    ASSUME LifecycleInv, ShutdownEnds
    PROVE  Sound'
<1> USE DEF ShutdownEnds, network, flags, recovery, process, ghosts, bounds, LifecycleInv, Sound
<1>1. exiting /\ ~runtimeReady /\ link \in {"session", "down"}
  BY DEF NothingStarts
<1>2. /\ stopper' = "none" /\ shutdownDone' = TRUE
      /\ stopper = "main" => main' = "ended" /\ UNCHANGED <<pc, sessionTask>>
      /\ stopper # "main" => main' = main /\ sessionTask' = NoSession
  OBVIOUS
<1>3. \A g \in Sessions :
          pc'[g] \in Suspended => pc'[g] = pc[g] /\ sessionTask' = sessionTask /\ stopper = "main"
  <2> SUFFICES ASSUME NEW g \in Sessions, pc'[g] \in Suspended, stopper # "main" PROVE FALSE
    BY <1>2
  <2>1. pc' = [pc EXCEPT ![sessionTask] = "done"]
    OBVIOUS
  <2>2. CASE g = sessionTask
    BY <2>1, <2>2 DEF TypeOK, Suspended
  <2>3. CASE g # sessionTask
    BY <2>1, <2>3 DEF TypeOK, OneSessionStart
  <2>4. QED
    BY <2>2, <2>3
<1>4. OneSessionStart' /\ Attached'
  BY <1>3 DEF OneSessionStart, Attached
<1>5. ReadyMeansServing' /\ LossIsRecovered' /\ ReadyEndsReconnect' /\ ServicesComeUp'
  BY <1>1, <1>2 DEF ReadyMeansServing, LossIsRecovered, ReadyEndsReconnect, ServicesComeUp
<1>6. NothingStarts'
  BY <1>1, <1>2, <1>3 DEF NothingStarts
<1>7. LossIsKnown'
  BY <1>3 DEF LossIsKnown
<1>8. ServicesGoDown'
  BY <1>2 DEF ServicesGoDown, NothingStarts, TypeOK
<1>9. QED
  BY <1>4, <1>5, <1>6, <1>7, <1>8

LEMMA NextSound == LifecycleInv /\ [Next]_vars => LifecycleInv'
<1> SUFFICES ASSUME LifecycleInv, [Next]_vars PROVE LifecycleInv'
  OBVIOUS
<1>1. TypeOK'
  BY NextTypes DEF LifecycleInv
<1>2. ASSUME NEW g \in Sessions, SessionFails(g) PROVE Sound'
  BY <1>2, FailsSound DEF SessionFails
<1>3. CASE UNCHANGED vars
  <2> USE <1>3 DEF vars, network, sessions, flags, recovery, process, ending, ghosts, bounds
  <2>1. OneSessionStart' /\ Attached' /\ NothingStarts' /\ LossIsKnown'
    BY DEF OneSessionStart, Attached, NothingStarts, LossIsKnown, LifecycleInv, Sound
  <2>2. ReadyMeansServing' /\ LossIsRecovered' /\ ReadyEndsReconnect'
    BY DEF ReadyMeansServing, LossIsRecovered, ReadyEndsReconnect, LifecycleInv, Sound
  <2>3. ServicesComeUp' /\ ServicesGoDown'
    BY DEF ServicesComeUp, ServicesGoDown, LifecycleInv, Sound
  <2>4. QED
    BY <1>1, <2>1, <2>2, <2>3 DEF LifecycleInv, Sound
<1>4. QED
  BY <1>1, <1>2, <1>3, OpensSound, SessionStartsSound, LostSound, TransportSound,
     ReadinessSound, RecordedSound, StartupPhaseSound, StartupFailsSound, ReconnectSound,
     SignalSound, MainStopsSound, ShutdownBeginsSound, ShutdownPhaseSound, ShutdownEndsSound
     DEF Next, SessionStep, ReconnectStep, StopStep, LifecycleInv

-----------------------------------------------------------------------------
(* In every reachable state routing is open only in a live session of a     *)
(* process whose services are all up, one session starts at a time, and a   *)
(* loss is recovered, whatever losses, timeouts, failures and a signal do.  *)
THEOREM SessionsAreAlwaysSound == Spec => []SessionsAreSound
<1>1. LifecycleInv => SessionsAreSound
  BY DEF LifecycleInv, Sound, SessionsAreSound
<1>2. QED
  BY InitSound, NextSound, <1>1, PTL DEF Spec

(* When main() has returned, every service is down but those whose own      *)
(* shutdown phase raised or timed out, unless a session start has failed.   *)
THEOREM ExitsAreClean == Spec => []CleanExitOnSignal
<1>1. LifecycleInv => CleanExitOnSignal
  <2> SUFFICES ASSUME LifecycleInv, ~failed, main = "ended" PROVE services \subseteq broken
    BY DEF CleanExitOnSignal, CleanExit
  <2>1. \A i \in 1 .. 10 : services \cap StoppedBy[ShutdownPhases[i]] \subseteq broken
    BY PhasesKnown DEF LifecycleInv, Sound, ServicesGoDown
  <2>2. /\ services \cap StoppedBy["alerts"] \subseteq broken
        /\ services \cap StoppedBy["watchdog"] \subseteq broken
        /\ services \cap StoppedBy["plugins"] \subseteq broken
        /\ services \cap StoppedBy["outbox"] \subseteq broken
        /\ services \cap StoppedBy["message_cache"] \subseteq broken
        /\ services \cap StoppedBy["db_workers"] \subseteq broken
        /\ services \cap StoppedBy["tasks"] \subseteq broken
        /\ services \cap StoppedBy["db"] \subseteq broken
    BY <2>1 DEF ShutdownPhases
  <2>3. \A s \in Services : s \in services => s \in broken
    BY <2>2 DEF StoppedBy, Services
  <2>4. QED
    BY <2>3 DEF LifecycleInv, TypeOK
<1>2. QED
  BY InitSound, NextSound, <1>1, PTL DEF Spec

(* The variables of Lifecycle have their types.                             *)
THEOREM TypesAreKept == Spec => []TypeOK
<1>1. LifecycleInv => TypeOK
  BY DEF LifecycleInv
<1>2. QED
  BY InitSound, NextSound, <1>1, PTL DEF Spec

-----------------------------------------------------------------------------
(* Other parts of an operator's day, as instances.  What they assume of     *)
(* their constants is a hypothesis of each theorem; TLC evaluates it for    *)
(* the constants of MCLifecycle.                                            *)
CONSTANTS
    Reported, Rooms, MaxChanges,        \* of Alerts
    None, Tasks, MaxValue, Bad,         \* of ConfigReload
    Versions, MaxStarts,                \* of Release
    MaxVersion,                         \* of Profile
    LastVersion, Creates, Builds, SnapshotKeep, \* of Migrations
    Commands, Keep, MaxWrites, MaxArchives,     \* of Backups
    MaxEdits, MaxFaults                 \* of more than one of them

VARIABLES
    cond, configured, snap, todo, since, long, state, sending, said, changes,
    file, config, boot, limiter, constants, running, task, unread, raced,
    code, done, owner, note, announced, record, told, sent, twice, cut, starts,
    files, marks, server, read, ok, unmarked, settled, refreshes,
    build, schema, unit, snapshots, found, workers, saving, dirty, lost,
    phase, ram, live, archives, orphans, due, expected, asked, writes, made,
    edits, faults

Alert == INSTANCE Alerts
Settings == INSTANCE ConfigReload
Announce == INSTANCE Release
Card == INSTANCE Profile WITH sessions <- refreshes
Schema == INSTANCE Migrations WITH Versions <- LastVersion
Backup == INSTANCE Backups

-----------------------------------------------------------------------------
(* The administrator's alerts (Alerts).                                     *)

LEMMA AlertTypes ==
    ASSUME Alert!AlertsAssumption, Alert!TypeOK
    PROVE  /\ \A c \in Alert!Callers : sending[c] \in Alert!Notifications \union {Alert!Quiet}
           /\ \A c \in Alert!Callers : sending[c] # Alert!Quiet =>
                 sending[c].key \in Alert!Keys /\ sending[c].kind \in {"open", "ongoing", "resolved"}
           /\ Alert!Quiet.key \notin Alert!Keys /\ Alert!Quiet.kind \notin {"open", "ongoing", "resolved"}
           /\ \A k \in Alert!Keys : state[k] \in [active : BOOLEAN, level : 0 .. 2, quiet : BOOLEAN]
           /\ Rooms \subseteq Alert!Keys /\ Reported \subseteq Alert!Keys
           /\ "poll" \in Alert!Callers /\ "report" \in Alert!Callers
  BY DEF Alert!AlertsAssumption, Alert!TypeOK, Alert!Notifications, Alert!Quiet, Alert!NoKind,
         Alert!Keys, Alert!Callers

LEMMA AlertFault ==
    ASSUME Alert!AlertsAssumption, Alert!TypeOK, Alert!Fault \/ faults' = faults
    PROVE  faults' \in 0 .. MaxFaults
  BY DEF Alert!AlertsAssumption, Alert!TypeOK, Alert!Fault

(* Nothing is sent and no alert changes.                                    *)
Silent == /\ sending' = sending /\ said' = said
          /\ \A k \in Alert!Keys : state'[k].active = state[k].active

LEMMA SilentHolds ==
    ASSUME Alert!AlertsAssumption, Alert!TypeOK, Alert!HeldInv, Silent
    PROVE  Alert!HeldInv'
  BY AlertTypes DEF Silent, Alert!HeldInv, Alert!Keys, Alert!Callers, Alert!Quiet, Alert!NoKind

(* A caller that sends nothing is given a notification, if nobody sends     *)
(* about the same key: that an alert is open only if it is active by then.  *)
LEMMA NotifyHolds ==
    ASSUME Alert!AlertsAssumption, Alert!TypeOK, Alert!HeldInv,
           NEW c \in Alert!Callers, sending[c] = Alert!Quiet, NEW k \in Alert!Keys,
           NEW kind \in {"open", "ongoing", "resolved"},
           Alert!Notify(c, k, kind) \/ UNCHANGED sending, said' = said,
           \A j \in Alert!Keys : state[j].active => state'[j].active,
           kind # "resolved" => state'[k].active
    PROVE  sending' \in [Alert!Callers -> Alert!Notifications \union {Alert!Quiet}] /\ Alert!HeldInv'
<1>1. CASE UNCHANGED sending
  <2>1. Alert!HeldInv'
    BY <1>1, AlertTypes DEF Alert!HeldInv, Alert!Keys, Alert!Callers, Alert!Quiet, Alert!NoKind
  <2> QED BY <1>1, <2>1 DEF Alert!TypeOK
<1>2. CASE ~Alert!Busy(k) /\ sending' = [sending EXCEPT ![c] = [key |-> k, kind |-> kind]]
  <2> DEFINE n == [key |-> k, kind |-> kind]
  <2>1. n \in Alert!Notifications /\ n # Alert!Quiet /\ n.key = k /\ n.kind = kind
    BY AlertTypes DEF Alert!Notifications
  <2>2. sending' \in [Alert!Callers -> Alert!Notifications \union {Alert!Quiet}]
    BY <1>2, <2>1 DEF Alert!TypeOK
  <2>3. \A d \in Alert!Callers : sending'[d] = IF d = c THEN n ELSE sending[d]
    BY <1>2 DEF Alert!TypeOK
  <2>4. \A d \in Alert!Callers : sending[d].key # k
    BY <1>2 DEF Alert!Busy
  <2>5. \A j \in Alert!Keys : said'[j] => state'[j].active
    BY DEF Alert!HeldInv
  <2>6. ASSUME NEW d \in Alert!Callers, sending'[d].kind \in {"open", "ongoing"}
        PROVE  state'[sending'[d].key].active
    <3>1. CASE d = c
      BY <2>1, <2>3, <2>6, <3>1
    <3>2. CASE d # c
      <4>1. sending'[d] = sending[d] /\ sending[d] # Alert!Quiet
        BY <2>3, <2>6, <3>2, AlertTypes
      <4> QED BY <2>6, <4>1, AlertTypes DEF Alert!HeldInv
    <3> QED BY <3>1, <3>2
  <2>7. ASSUME NEW d \in Alert!Callers, NEW e \in Alert!Callers,
               sending'[d] # Alert!Quiet, sending'[d].key = sending'[e].key
        PROVE  d = e
    BY <2>1, <2>3, <2>4, <2>7 DEF Alert!HeldInv
  <2>8. Alert!HeldInv'
    BY <2>5, <2>6, <2>7 DEF Alert!HeldInv, Alert!Keys, Alert!Callers, Alert!Quiet, Alert!NoKind
  <2> QED BY <2>2, <2>8
<1> QED BY <1>1, <1>2 DEF Alert!Notify

LEMMA SetActiveHolds ==
    ASSUME Alert!AlertsAssumption, Alert!TypeOK, Alert!HeldInv,
           NEW c \in Alert!Callers, sending[c] = Alert!Quiet, NEW k \in Alert!Keys,
           NEW level \in 0 .. 2, Alert!SetActive(c, k, level), said' = said
    PROVE  /\ state' \in [Alert!Keys -> [active : BOOLEAN, level : 0 .. 2, quiet : BOOLEAN]]
           /\ sending' \in [Alert!Callers -> Alert!Notifications \union {Alert!Quiet}]
           /\ Alert!HeldInv'
<1>1. /\ state' \in [Alert!Keys -> [active : BOOLEAN, level : 0 .. 2, quiet : BOOLEAN]]
      /\ state'[k].active /\ \A j \in Alert!Keys : state[j].active => state'[j].active
  BY DEF Alert!SetActive, Alert!TypeOK
<1>2. PICK kind \in {"open", "ongoing"} : Alert!Notify(c, k, kind) \/ UNCHANGED sending
  BY DEF Alert!SetActive
<1> QED BY <1>1, <1>2, NotifyHolds

LEMMA SetInactiveHolds ==
    ASSUME Alert!AlertsAssumption, Alert!TypeOK, Alert!HeldInv,
           NEW c \in Alert!Callers, sending[c] = Alert!Quiet, NEW k \in Alert!Keys,
           Alert!SetInactive(c, k), said' = said
    PROVE  /\ state' \in [Alert!Keys -> [active : BOOLEAN, level : 0 .. 2, quiet : BOOLEAN]]
           /\ sending' \in [Alert!Callers -> Alert!Notifications \union {Alert!Quiet}]
           /\ Alert!HeldInv'
<1>1. state' = state /\ (Alert!Notify(c, k, "resolved") \/ UNCHANGED sending)
  BY DEF Alert!SetInactive
<1>2. sending' \in [Alert!Callers -> Alert!Notifications \union {Alert!Quiet}] /\ Alert!HeldInv'
  BY <1>1, NotifyHolds
<1> QED BY <1>1, <1>2 DEF Alert!TypeOK

(* What is watched changes, or a poll begins.                               *)
LEMMA WatchedHolds ==
    ASSUME Alert!AlertsAssumption, Alert!TypeOK, Alert!HeldInv,
           \/ \E k \in Alert!Keys : Alert!Changes(k) \/ Alert!TimePasses(k)
           \/ \E r \in Rooms : Alert!Deconfigured(r)
           \/ Alert!PollStarts \/ UNCHANGED Alert!vars
    PROVE  Alert!TypeOK' /\ Alert!HeldInv'
<1>1. CASE \E k \in Alert!Keys : Alert!Changes(k)
  <2>1. PICK k \in Alert!Keys : Alert!Changes(k)
    BY <1>1
  <2>6. PICK level \in (IF k \in Rooms THEN 0 .. 1 ELSE 0 .. 2) : cond' = [cond EXCEPT ![k] = level]
    BY <2>1, Zenon DEF Alert!Changes
  <2>2. level \in 0 .. 2 /\ cond' = [cond EXCEPT ![k] = level]
    BY <2>6
  <2>3. changes' \in 0 .. MaxChanges
    BY <2>1 DEF Alert!Changes, Alert!TypeOK, Alert!AlertsAssumption
  <2>4. Alert!TypeOK'
    BY <2>1, <2>2, <2>3 DEF Alert!Changes, Alert!TypeOK
  <2>5. Silent
    BY <2>1 DEF Alert!Changes, Silent
  <2> QED BY <2>4, <2>5, SilentHolds
<1>2. CASE \E k \in Alert!Keys : Alert!TimePasses(k)
  <2>1. PICK k \in Alert!Keys : Alert!TimePasses(k)
    BY <1>2
  <2>2. state' \in [Alert!Keys -> [active : BOOLEAN, level : 0 .. 2, quiet : BOOLEAN]] /\ Silent
    BY <2>1 DEF Alert!TimePasses, Alert!TypeOK, Silent
  <2>3. Alert!TypeOK'
    BY <2>1, <2>2 DEF Alert!TimePasses, Alert!TypeOK
  <2> QED BY <2>2, <2>3, SilentHolds
<1>3. CASE \E r \in Rooms : Alert!Deconfigured(r)
  <2>1. Alert!TypeOK'
    BY <1>3 DEF Alert!Deconfigured, Alert!TypeOK, Alert!AlertsAssumption
  <2>2. Silent
    BY <1>3 DEF Alert!Deconfigured, Silent
  <2> QED BY <2>1, <2>2, SilentHolds
<1>4. CASE Alert!PollStarts
  <2>1. snap' \in [cond : [Alert!Keys -> 0 .. 2], configured : SUBSET Rooms]
    BY <1>4 DEF Alert!PollStarts, Alert!Collected, Alert!TypeOK
  <2>2. Alert!TypeOK'
    BY <1>4, <2>1, AlertFault DEF Alert!PollStarts, Alert!TypeOK
  <2>3. Silent
    BY <1>4 DEF Alert!PollStarts, Silent
  <2> QED BY <2>2, <2>3, SilentHolds
<1>5. CASE UNCHANGED Alert!vars
  <2>1. Silent
    BY <1>5 DEF Alert!vars, Silent
  <2>2. Alert!TypeOK'
    BY <1>5 DEF Alert!vars, Alert!TypeOK
  <2> QED BY <2>1, <2>2, SilentHolds
<1> QED BY <1>1, <1>2, <1>3, <1>4, <1>5

LEMMA ChecksHold ==
    ASSUME Alert!AlertsAssumption, Alert!TypeOK, Alert!HeldInv, NEW k \in Alert!Keys,
           Alert!Report(k) \/ Alert!Check(k)
    PROVE  Alert!TypeOK' /\ Alert!HeldInv'
<1>1. CASE Alert!Report(k)
  <2>1. cond[k] \in 0 .. 2
    BY DEF Alert!TypeOK
  <2>2. /\ state' \in [Alert!Keys -> [active : BOOLEAN, level : 0 .. 2, quiet : BOOLEAN]]
        /\ sending' \in [Alert!Callers -> Alert!Notifications \union {Alert!Quiet}]
        /\ Alert!HeldInv'
    BY <1>1, <2>1, AlertTypes, SetActiveHolds DEF Alert!Report
  <2> QED BY <1>1, <2>2 DEF Alert!Report, Alert!TypeOK
<1>2. CASE Alert!Check(k)
  <2>1. Alert!Level(k) \in 0 .. 2
    BY DEF Alert!TypeOK, Alert!Level
  <2>2. /\ sending["poll"] = Alert!Quiet /\ said' = said
        /\ UNCHANGED <<cond, configured, snap, said, changes, faults, since, long>>
        /\ todo' \subseteq Alert!Keys
    BY <1>2 DEF Alert!Check, Alert!Looks, Alert!TypeOK
  <2>3. Alert!SetActive("poll", k, Alert!Level(k)) \/ Alert!SetInactive("poll", k)
    BY <1>2 DEF Alert!Check
  <2>4. /\ state' \in [Alert!Keys -> [active : BOOLEAN, level : 0 .. 2, quiet : BOOLEAN]]
        /\ sending' \in [Alert!Callers -> Alert!Notifications \union {Alert!Quiet}]
        /\ Alert!HeldInv'
    BY <2>1, <2>2, <2>3, AlertTypes, SetActiveHolds, SetInactiveHolds
  <2> QED BY <2>2, <2>4 DEF Alert!TypeOK
<1> QED BY <1>1, <1>2

LEMMA RoomCheckHolds ==
    ASSUME Alert!AlertsAssumption, Alert!TypeOK, Alert!HeldInv, NEW r \in Rooms, Alert!CheckRoom(r)
    PROVE  Alert!TypeOK' /\ Alert!HeldInv'
<1>1. /\ sending["poll"] = Alert!Quiet /\ said' = said /\ r \in Alert!Keys
      /\ UNCHANGED <<cond, configured, snap, said, changes, faults>>
      /\ todo' \subseteq Alert!Keys
  BY AlertTypes DEF Alert!CheckRoom, Alert!Looks, Alert!TypeOK
<1>2. since' \subseteq Rooms /\ long' \subseteq since'
  BY DEF Alert!CheckRoom, Alert!TypeOK
<1>3. \/ Alert!SetActive("poll", r, 1) \/ Alert!SetInactive("poll", r)
      \/ UNCHANGED <<state, sending>>
  BY DEF Alert!CheckRoom
<1>4. /\ state' \in [Alert!Keys -> [active : BOOLEAN, level : 0 .. 2, quiet : BOOLEAN]]
      /\ sending' \in [Alert!Callers -> Alert!Notifications \union {Alert!Quiet}]
      /\ Alert!HeldInv'
  <2>1. CASE UNCHANGED <<state, sending>>
    BY <1>1, <2>1, SilentHolds DEF Silent, Alert!TypeOK
  <2>2. CASE Alert!SetActive("poll", r, 1) \/ Alert!SetInactive("poll", r)
    BY <1>1, <2>2, AlertTypes, SetActiveHolds, SetInactiveHolds
  <2> QED BY <1>3, <2>1, <2>2
<1> QED BY <1>1, <1>2, <1>4 DEF Alert!TypeOK

(* A notification goes out, or does not.                                    *)
LEMMA SendsHold ==
    ASSUME Alert!AlertsAssumption, Alert!TypeOK, Alert!HeldInv, NEW c \in Alert!Callers,
           Alert!Sent(c) \/ Alert!NotSent(c)
    PROVE  Alert!TypeOK' /\ Alert!HeldInv'
<1> DEFINE k == sending[c].key
           open == sending[c].kind # "resolved"
<1>1. /\ k \in Alert!Keys /\ sending[c].kind \in {"open", "ongoing", "resolved"}
      /\ sending[c] # Alert!Quiet /\ sending' = [sending EXCEPT ![c] = Alert!Quiet]
      /\ UNCHANGED <<cond, configured, snap, todo, since, long, changes>>
      /\ faults' \in 0 .. MaxFaults
  BY AlertTypes, AlertFault DEF Alert!Sent, Alert!NotSent
<1>2. /\ sending' \in [Alert!Callers -> Alert!Notifications \union {Alert!Quiet}]
      /\ \A d \in Alert!Callers : sending'[d] = IF d = c THEN Alert!Quiet ELSE sending[d]
  BY <1>1 DEF Alert!TypeOK
<1>3. \A d \in Alert!Callers : d # c => sending[d].key # k
  BY <1>1 DEF Alert!HeldInv
<1>4. \A d, e \in Alert!Callers : sending'[d] # Alert!Quiet /\ sending'[d].key = sending'[e].key => d = e
  BY <1>2, AlertTypes DEF Alert!HeldInv
<1>5. /\ state' \in [Alert!Keys -> [active : BOOLEAN, level : 0 .. 2, quiet : BOOLEAN]]
      /\ said' \in [Alert!Keys -> BOOLEAN]
      /\ \A j \in Alert!Keys : j # k => state'[j].active = state[j].active /\ said'[j] = said[j]
      /\ said'[k] => state'[k].active
  <2>1. CASE Alert!NotSent(c)
    BY <1>1, <2>1 DEF Alert!NotSent, Alert!TypeOK, Alert!HeldInv
  <2>2. CASE Alert!Sent(c)
    <3>1. /\ said' = [said EXCEPT ![k] = open]
          /\ state' = [state EXCEPT ![k] = [active |-> @.active /\ open, quiet |-> TRUE,
                                            level |-> IF open THEN @.level ELSE 0]]
      BY <2>2 DEF Alert!Sent
    <3>2. open => state[k].active
      BY <1>1 DEF Alert!HeldInv
    <3>3. state[k] \in [active : BOOLEAN, level : 0 .. 2, quiet : BOOLEAN]
      BY <1>1 DEF Alert!TypeOK
    <3> HIDE DEF k, open
    <3>4. PICK b \in BOOLEAN : b = open
      BY DEF open
    <3>5. said' = [said EXCEPT ![k] = b] /\ (b => state[k].active)
      BY <3>1, <3>2, <3>4
    <3>6. PICK l \in 0 .. 2 : l = IF b THEN state[k].level ELSE 0
      BY <3>3
    <3>7. state' = [state EXCEPT ![k] = [active |-> state[k].active /\ b, quiet |-> TRUE, level |-> l]]
      BY <3>1, <3>4, <3>6
    <3> QED BY <1>1, <3>3, <3>5, <3>7 DEF Alert!TypeOK
  <2> QED BY <2>1, <2>2
<1>6. \A j \in Alert!Keys : said'[j] => state'[j].active
  BY <1>5 DEF Alert!HeldInv
<1>7. ASSUME NEW d \in Alert!Callers, sending'[d].kind \in {"open", "ongoing"}
      PROVE  state'[sending'[d].key].active
  <2>1. d # c /\ sending'[d] = sending[d] /\ sending[d] # Alert!Quiet
    BY <1>2, <1>7, AlertTypes
  <2>2. sending[d].key \in Alert!Keys /\ sending[d].key # k
    BY <1>3, <2>1, AlertTypes
  <2> QED BY <1>5, <1>7, <2>1, <2>2 DEF Alert!HeldInv
<1>8. Alert!HeldInv'
  BY <1>4, <1>6, <1>7 DEF Alert!HeldInv, Alert!Keys, Alert!Callers, Alert!Quiet, Alert!NoKind
<1> QED BY <1>1, <1>2, <1>5, <1>8 DEF Alert!TypeOK

(* However polls, reports and failing notifications interleave: an alert    *)
(* that was announced, and whose end was not, is held active, unless a      *)
(* notification about it is on its way.  (_set, _notify)                    *)
THEOREM OpenAlertsAreHeld ==
    ASSUME Alert!AlertsAssumption PROVE Alert!Spec => []Alert!OpenIsHeld
<1> DEFINE Inv == Alert!TypeOK /\ Alert!HeldInv
<1>1. Alert!Init => Inv
  <2> SUFFICES ASSUME Alert!Init PROVE Inv
    OBVIOUS
  <2>1. Alert!TypeOK
    BY DEF Alert!Init, Alert!TypeOK, Alert!AlertsAssumption
  <2>2. Alert!HeldInv
    BY DEF Alert!Init, Alert!HeldInv, Alert!Quiet, Alert!NoKind
  <2> QED BY <2>1, <2>2
<1>2. Inv /\ [Alert!Next]_(Alert!vars) => Inv'
  BY WatchedHolds, ChecksHold, RoomCheckHolds, SendsHold DEF Alert!Next
<1>3. Inv => Alert!OpenIsHeld
  BY DEF Alert!HeldInv, Alert!OpenIsHeld
<1> QED BY <1>1, <1>2, <1>3, PTL DEF Alert!Spec

-----------------------------------------------------------------------------
(* The configuration (ConfigReload).                                        *)

LEMMA KeyKinds ==
    /\ Settings!Keys = {"jid", "limit", "interval", "min", "max"}
    /\ Settings!Startup = {"jid"} /\ Settings!RateLimitKeys = {"limit"}
    /\ Settings!TaskKeys = {"interval"} /\ Settings!Window = {"min", "max"}
  BY DEF Settings!Keys, Settings!Startup, Settings!RateLimitKeys, Settings!TaskKeys, Settings!Window

(* What is derived from a configuration.                                    *)
LEMMA DerivedTypes ==
    ASSUME Settings!ConfigReloadAssumption, NEW cfg \in [Settings!Keys -> Settings!Values]
    PROVE  /\ Settings!LimiterFrom(cfg) \in [Settings!RateLimitKeys -> Settings!Values]
           /\ Settings!Clamped(cfg) \in [Settings!TaskKeys \union Settings!Window -> Settings!Values]
           /\ 1 <= Settings!Clamped(cfg).min /\ Settings!Clamped(cfg).min <= Settings!Clamped(cfg).max
<1>1. /\ cfg["limit"] \in Settings!Values /\ cfg["interval"] \in Settings!Values
      /\ cfg["min"] \in Settings!Values /\ cfg["max"] \in Settings!Values
  BY KeyKinds
<1>2. 1 \in Settings!Values /\ MaxValue \in Settings!Values
      /\ \A v \in Settings!Values : v \in Nat /\ v <= MaxValue
  BY DEF Settings!ConfigReloadAssumption, Settings!Values
<1>3. /\ Settings!Or(cfg["limit"], MaxValue) \in Settings!Values
      /\ Settings!Or(cfg["interval"], MaxValue) \in Settings!Values
  BY <1>1, <1>2 DEF Settings!Or
<1>4. Settings!LimiterFrom(cfg) \in [Settings!RateLimitKeys -> Settings!Values]
  BY <1>3, KeyKinds DEF Settings!LimiterFrom
<1>5. PICK least : least = Settings!Bigger(1, cfg["min"])
  OBVIOUS
<1>6. PICK most : most = Settings!Bigger(least, cfg["max"])
  OBVIOUS
<1>7. least \in Settings!Values /\ 1 <= least
  BY <1>1, <1>2, <1>5 DEF Settings!Bigger
<1>8. most \in Settings!Values /\ least <= most
  BY <1>1, <1>2, <1>6, <1>7 DEF Settings!Bigger
<1>9. Settings!Clamped(cfg) = [interval |-> Settings!Or(cfg["interval"], MaxValue), min |-> least, max |-> most]
  BY <1>5, <1>6 DEF Settings!Clamped
<1>10. Settings!Clamped(cfg) \in [{"interval", "min", "max"} -> Settings!Values]
  BY <1>3, <1>7, <1>8, <1>9
<1>11. Settings!TaskKeys \union Settings!Window = {"interval", "min", "max"}
  BY KeyKinds
<1> QED BY <1>4, <1>7, <1>8, <1>9, <1>10, <1>11

(* Only the keys that changed change what is derived.                       *)
LEMMA DerivedFrom ==
    ASSUME NEW a, NEW b
    PROVE  /\ ~Settings!Changed(Settings!RateLimitKeys, a, b) => Settings!LimiterFrom(a) = Settings!LimiterFrom(b)
           /\ \A k \in Settings!TaskKeys : a[k] = b[k] => Settings!Clamped(a)[k] = Settings!Clamped(b)[k]
<1>1. ASSUME ~Settings!Changed(Settings!RateLimitKeys, a, b)
      PROVE  Settings!LimiterFrom(a) = Settings!LimiterFrom(b)
  BY <1>1 DEF Settings!Changed, Settings!LimiterFrom
<1>2. ASSUME NEW k \in Settings!TaskKeys, a[k] = b[k] PROVE Settings!Clamped(a)[k] = Settings!Clamped(b)[k]
  <2>1. k = "interval"
    BY KeyKinds
  <2> QED BY <1>2, <2>1 DEF Settings!Clamped
<1> QED BY <1>1, <1>2

LEMMA ConfigTypes ==
    ASSUME Settings!ConfigReloadAssumption, Settings!TypeOK
    PROVE  /\ \A t \in Tasks : /\ task[t] \in Settings!Jobs
                               /\ task[t].before \in [Settings!Keys -> Settings!Values]
                               /\ task[t].pc \in {"idle", "backup", "restart"}
           /\ Settings!Idle \in Settings!Jobs /\ Settings!Idle.pc = "idle"
           /\ edits \in 0 .. MaxEdits
<1>1. 0 \in Settings!Values
  BY DEF Settings!ConfigReloadAssumption, Settings!Values
<1>2. Settings!Idle \in Settings!Jobs /\ Settings!Idle.pc = "idle"
  BY <1>1 DEF Settings!Idle, Settings!Jobs
<1> QED BY <1>2 DEF Settings!TypeOK, Settings!Jobs

LEMMA EditIsCounted ==
    ASSUME Settings!ConfigReloadAssumption, Settings!TypeOK, Settings!Edit \/ edits' = edits
    PROVE  edits' \in 0 .. MaxEdits
  BY DEF Settings!ConfigReloadAssumption, Settings!TypeOK, Settings!Edit

(* A task gets a job, and the others keep theirs.                           *)
LEMMA JobTypes ==
    ASSUME Settings!ConfigReloadAssumption, Settings!TypeOK, NEW t \in Tasks, NEW job \in Settings!Jobs,
           task' = [task EXCEPT ![t] = job],
           job.pc = "backup" => job.key \in Settings!Keys \ Settings!Startup /\ job.value \in Settings!Values
    PROVE  /\ task' \in [Tasks -> Settings!Jobs]
           /\ \A u \in Tasks : task'[u] = IF u = t THEN job ELSE task[u]
           /\ \A u \in Tasks : task'[u].pc = "backup" =>
                 task'[u].key \in Settings!Keys \ Settings!Startup /\ task'[u].value \in Settings!Values
<1>1. /\ task' \in [Tasks -> Settings!Jobs]
      /\ \A u \in Tasks : task'[u] = IF u = t THEN job ELSE task[u]
  BY DEF Settings!TypeOK
<1> QED BY <1>1 DEF Settings!TypeOK

(* A command ends, or comes to its backup, without having applied anything. *)
LEMMA NothingApplied ==
    ASSUME Settings!ConfigReloadAssumption, Settings!TypeOK, Settings!ConfigInv,
           NEW t \in Tasks, task[t].pc # "restart", NEW job \in Settings!Jobs,
           task' = [task EXCEPT ![t] = job], job.pc \in {"idle", "backup"},
           job.pc = "backup" =>
              /\ job.key \in Settings!Keys \ Settings!Startup /\ job.value \in Settings!Values
              /\ \A k \in Settings!Startup : job.before[k] = boot[k],
           UNCHANGED <<file, config, boot, constants, running, unread, raced>>,
           limiter' \in {limiter, Settings!LimiterFrom(config)}, edits' \in 0 .. MaxEdits
    PROVE  Settings!TypeOK' /\ Settings!ConfigInv'
<1>1. /\ task' \in [Tasks -> Settings!Jobs]
      /\ \A u \in Tasks : task'[u] = IF u = t THEN job ELSE task[u]
      /\ \A u \in Tasks : task'[u].pc = "backup" =>
            task'[u].key \in Settings!Keys \ Settings!Startup /\ task'[u].value \in Settings!Values
  BY JobTypes
<1>2. Settings!TypeOK'
  <2>1. Settings!LimiterFrom(config) \in [Settings!RateLimitKeys -> Settings!Values]
    BY DerivedTypes DEF Settings!TypeOK
  <2> QED BY <1>1, <2>1 DEF Settings!TypeOK
<1>3. Settings!StartupIsKept' /\ Settings!FileIsInEffect'
  BY DEF Settings!ConfigInv, Settings!StartupIsKept, Settings!FileIsInEffect
<1>4. \A u \in Tasks : task'[u].pc # "idle" => \A k \in Settings!Startup : task'[u].before[k] = boot'[k]
  BY <1>1 DEF Settings!ConfigInv
<1>5. ASSUME ~raced'
      PROVE  /\ limiter' = Settings!LimiterFrom(config')
             /\ \A k \in Settings!TaskKeys :
                   \/ running'[k] = Settings!Clamped(config')[k]
                   \/ \E u \in Tasks : task'[u].pc = "restart" /\ task'[u].before[k] # config'[k]
  <2>1. limiter' = Settings!LimiterFrom(config')
    BY <1>5 DEF Settings!ConfigInv
  <2>2. \A u \in Tasks : task[u].pc = "restart" => task'[u] = task[u]
    BY <1>1
  <2>3. config' = config /\ running' = running
    OBVIOUS
  <2> QED BY <1>5, <2>1, <2>2, <2>3 DEF Settings!ConfigInv
<1>6. constants' = Settings!Clamped(config')
  BY DEF Settings!ConfigInv
<1> QED BY <1>2, <1>3, <1>4, <1>5, <1>6
     DEF Settings!ConfigInv, Settings!Startup, Settings!TaskKeys

(* A configuration is applied, or rolled back.                              *)
LEMMA ApplyHolds ==
    ASSUME Settings!ConfigReloadAssumption, Settings!TypeOK, Settings!ConfigInv,
           NEW t \in Tasks, task[t].pc # "restart", NEW before \in [Settings!Keys -> Settings!Values],
           \A k \in Settings!Startup : before[k] = boot[k],
           NEW new \in [Settings!Keys -> Settings!Values \union {Bad}], Settings!Valid(new),
           Settings!ApplyConfigReload(t, before, new),
           UNCHANGED <<boot, running>>, edits' \in 0 .. MaxEdits
    PROVE  Settings!TypeOK' /\ Settings!ConfigInv'
<1> DEFINE effective == Settings!Effective(before, new)
<1>1. new \in [Settings!Keys -> Settings!Values]
  BY DEF Settings!Valid
<1>2. /\ effective \in [Settings!Keys -> Settings!Values]
      /\ \A k \in Settings!Keys : effective[k] = IF k \in Settings!Startup THEN before[k] ELSE new[k]
  BY <1>1 DEF Settings!Effective
<1>3. PICK e \in [Settings!Keys -> Settings!Values] : e = effective
  BY <1>2
<1>4. CASE /\ config' = e /\ Settings!Runtime(before, e)
           /\ task' = [task EXCEPT ![t] = [pc |-> "restart", key |-> None, value |-> None, before |-> before]]
           /\ file' = new /\ raced' = (raced \/ before # config) /\ unread' = {}
  <2> DEFINE restart == [pc |-> "restart", key |-> None, value |-> None, before |-> before]
  <2>9. restart \in Settings!Jobs /\ restart.pc = "restart" /\ restart.before = before
    BY DEF Settings!Jobs
  <2>1. PICK job \in Settings!Jobs : job = restart /\ job.pc = "restart" /\ job.before = before
    BY <2>9
  <2>2. /\ task' \in [Tasks -> Settings!Jobs]
        /\ \A u \in Tasks : task'[u] = IF u = t THEN job ELSE task[u]
        /\ \A u \in Tasks : task'[u].pc = "backup" =>
              task'[u].key \in Settings!Keys \ Settings!Startup /\ task'[u].value \in Settings!Values
    BY <1>4, <2>1, JobTypes
  <2>3. /\ limiter' = IF Settings!Changed(Settings!RateLimitKeys, before, e)
                      THEN Settings!LimiterFrom(e) ELSE limiter
        /\ constants' = Settings!Clamped(e)
    BY <1>4 DEF Settings!Runtime
  <2>4. Settings!TypeOK'
    <3>1. limiter' \in [Settings!RateLimitKeys -> Settings!Values]
      BY <2>3, DerivedTypes DEF Settings!TypeOK
    <3>2. constants' \in [Settings!TaskKeys \union Settings!Window -> Settings!Values]
      BY <2>3, DerivedTypes
    <3>3. raced' \in BOOLEAN
      BY <1>4 DEF Settings!TypeOK
    <3> QED BY <1>4, <2>2, <3>1, <3>2, <3>3 DEF Settings!TypeOK
  <2>5. Settings!StartupIsKept'
    BY <1>2, <1>3, <1>4, KeyKinds DEF Settings!StartupIsKept, Settings!Startup
  <2>6. Settings!FileIsInEffect'
    <3>1. \A k \in Settings!Keys : k \notin Settings!Startup => file'[k] = config'[k]
      BY <1>2, <1>3, <1>4
    <3> QED BY <3>1 DEF Settings!FileIsInEffect, Settings!Startup, Settings!Keys,
         Settings!RateLimitKeys, Settings!TaskKeys, Settings!Window
  <2>7. \A u \in Tasks : task'[u].pc # "idle" => \A k \in Settings!Startup : task'[u].before[k] = boot'[k]
    BY <2>1, <2>2 DEF Settings!ConfigInv
  <2>8. ASSUME ~raced'
        PROVE  /\ limiter' = Settings!LimiterFrom(e)
               /\ \A k \in Settings!TaskKeys :
                     \/ running'[k] = Settings!Clamped(e)[k]
                     \/ \E u \in Tasks : task'[u].pc = "restart" /\ task'[u].before[k] # e[k]
    <3>1. ~raced /\ before = config
      BY <1>4, <2>8
    <3>2. limiter = Settings!LimiterFrom(before)
      BY <3>1 DEF Settings!ConfigInv
    <3>3. limiter' = Settings!LimiterFrom(e)
      BY <2>3, <3>2, DerivedFrom
    <3>4. ASSUME NEW k \in Settings!TaskKeys
          PROVE  \/ running'[k] = Settings!Clamped(e)[k]
                 \/ \E u \in Tasks : task'[u].pc = "restart" /\ task'[u].before[k] # e[k]
      <4>1. CASE before[k] # e[k]
        <5>1. task'[t].pc = "restart" /\ task'[t].before = before
          BY <2>1, <2>2
        <5> QED BY <4>1, <5>1
      <4>2. CASE before[k] = e[k]
        <5>1. Settings!Clamped(before)[k] = Settings!Clamped(e)[k]
          BY <4>2, DerivedFrom
        <5>2. \/ running[k] = Settings!Clamped(before)[k]
              \/ \E u \in Tasks : task[u].pc = "restart" /\ task[u].before[k] # before[k]
          BY <3>1 DEF Settings!ConfigInv
        <5>3. \A u \in Tasks : task[u].pc = "restart" => task'[u] = task[u]
          BY <2>2
        <5> QED BY <4>2, <5>1, <5>2, <5>3
      <4> QED BY <4>1, <4>2
    <3> QED BY <3>3, <3>4
  <2> QED BY <1>4, <2>3, <2>4, <2>5, <2>6, <2>7, <2>8
       DEF Settings!ConfigInv, Settings!Startup, Settings!TaskKeys
<1>5. CASE /\ Settings!RolledBack(e) /\ task' = [task EXCEPT ![t] = Settings!Idle]
           /\ UNCHANGED <<file, raced, unread>>
  <2>1. /\ limiter' \in {limiter, Settings!LimiterFrom(config)}
        /\ constants' = Settings!Clamped(config) /\ config' = config
    BY <1>5 DEF Settings!RolledBack, Settings!Runtime
  <2>2. constants' = constants
    BY <2>1 DEF Settings!ConfigInv
  <2> QED BY <1>5, <2>1, <2>2, ConfigTypes, NothingApplied
<1> QED BY <1>3, <1>4, <1>5 DEF Settings!ApplyConfigReload

LEMMA CommandHolds ==
    ASSUME Settings!ConfigReloadAssumption, Settings!TypeOK, Settings!ConfigInv, NEW t \in Tasks,
           \/ Settings!ConfigReload(t) \/ Settings!PersistConfigEdit(t) \/ Settings!TimesOut(t)
           \/ \E k \in Settings!Keys, v \in Settings!Values \ {0} : Settings!ConfigSet(t, k, v)
           \/ \E k \in Settings!Keys : Settings!ConfigUnset(t, k)
    PROVE  Settings!TypeOK' /\ Settings!ConfigInv'
<1>1. CASE Settings!ConfigReload(t)
  <2>1. /\ task[t].pc = "idle" /\ UNCHANGED <<boot, running>> /\ edits' \in 0 .. MaxEdits
    BY <1>1, ConfigTypes, EditIsCounted DEF Settings!ConfigReload
  <2>2. CASE Settings!Valid(file)
    <3>1. /\ config \in [Settings!Keys -> Settings!Values] /\ \A k \in Settings!Startup : config[k] = boot[k]
          /\ file \in [Settings!Keys -> Settings!Values \union {Bad}]
      BY DEF Settings!TypeOK, Settings!ConfigInv, Settings!StartupIsKept
    <3>2. Settings!ApplyConfigReload(t, config, file)
      BY <1>1, <2>2 DEF Settings!ConfigReload
    <3> QED BY <2>1, <2>2, <3>1, <3>2, ApplyHolds
  <2>3. CASE ~Settings!Valid(file)
    <3>1. task' = [task EXCEPT ![t] = Settings!Idle]
          /\ UNCHANGED <<file, config, limiter, constants, unread, raced>>
      BY <1>1, <2>3 DEF Settings!ConfigReload, Settings!TypeOK
    <3> QED BY <2>1, <3>1, ConfigTypes, NothingApplied
  <2> QED BY <2>2, <2>3
<1>2. CASE Settings!PersistConfigEdit(t)
  <2>1. /\ task[t].pc = "backup" /\ UNCHANGED <<boot, running>> /\ edits' \in 0 .. MaxEdits
    BY <1>2, ConfigTypes, EditIsCounted DEF Settings!PersistConfigEdit
  <2>2. PICK edited \in [Settings!Keys -> Settings!Values \union {Bad}] :
           edited = [file EXCEPT ![task[t].key] = task[t].value]
    BY <2>1 DEF Settings!TypeOK
  <2>3. CASE Settings!Valid(edited)
    <3>1. Settings!ApplyConfigReload(t, task[t].before, edited)
      BY <1>2, <2>2, <2>3 DEF Settings!PersistConfigEdit
    <3>2. PICK before \in [Settings!Keys -> Settings!Values] : before = task[t].before
      BY ConfigTypes
    <3>3. \A k \in Settings!Startup : before[k] = boot[k]
      BY <2>1, <3>2 DEF Settings!ConfigInv
    <3>4. Settings!ApplyConfigReload(t, before, edited)
      BY <3>1, <3>2
    <3> QED BY <2>1, <2>3, <3>3, <3>4, ApplyHolds
  <2>4. CASE ~Settings!Valid(edited)
    <3>1. /\ task' = [task EXCEPT ![t] = Settings!Idle]
          /\ UNCHANGED <<file, config, limiter, constants, unread, raced>>
      BY <1>2, <2>2, <2>4 DEF Settings!PersistConfigEdit
    <3> QED BY <2>1, <3>1, ConfigTypes, NothingApplied
  <2> QED BY <2>3, <2>4
<1>3. CASE Settings!TimesOut(t)
  <2>1. /\ task[t].pc = "backup" /\ task' = [task EXCEPT ![t] = Settings!Idle]
        /\ UNCHANGED <<file, config, boot, limiter, constants, running, unread, raced, edits>>
    BY <1>3 DEF Settings!TimesOut
  <2>2. edits' \in 0 .. MaxEdits
    BY <2>1, ConfigTypes
  <2> QED BY <2>1, <2>2, ConfigTypes, NothingApplied
<1>4. ASSUME NEW k \in Settings!Keys, NEW v \in Settings!Values, Settings!ConfigSet(t, k, v)
      PROVE  Settings!TypeOK' /\ Settings!ConfigInv'
  <2> DEFINE backup == [pc |-> "backup", key |-> k, value |-> v, before |-> config]
  <2>4. /\ backup \in Settings!Jobs /\ backup.pc = "backup" /\ backup.key = k
        /\ backup.value = v /\ backup.before = config
    BY DEF Settings!Jobs, Settings!TypeOK
  <2>1. PICK job \in Settings!Jobs :
           /\ job = backup
           /\ job.pc = "backup" /\ job.key = k /\ job.value = v /\ job.before = config
    BY <2>4
  <2>2. /\ task[t].pc = "idle" /\ task' = [task EXCEPT ![t] = job] /\ k \notin Settings!Startup
        /\ UNCHANGED <<file, config, boot, limiter, constants, running, unread, raced>>
        /\ edits' \in 0 .. MaxEdits
    BY <1>4, <2>1, ConfigTypes, EditIsCounted DEF Settings!ConfigSet, Settings!Writable
  <2>3. \A s \in Settings!Startup : job.before[s] = boot[s]
    BY <2>1 DEF Settings!ConfigInv, Settings!StartupIsKept
  <2> QED BY <2>1, <2>2, <2>3, NothingApplied
<1>5. 0 \in Settings!Values
  BY DEF Settings!ConfigReloadAssumption, Settings!Values
<1> QED BY <1>1, <1>2, <1>3, <1>4, <1>5 DEF Settings!ConfigUnset

LEMMA RestartHolds ==
    ASSUME Settings!ConfigReloadAssumption, Settings!TypeOK, Settings!ConfigInv, NEW t \in Tasks,
           Settings!RestartTasks(t)
    PROVE  Settings!TypeOK' /\ Settings!ConfigInv'
<1> USE DEF Settings!RestartTasks
<1>1. /\ task' \in [Tasks -> Settings!Jobs]
      /\ \A u \in Tasks : task'[u] = IF u = t THEN Settings!Idle ELSE task[u]
      /\ \A u \in Tasks : task'[u].pc = "backup" =>
            task'[u].key \in Settings!Keys \ Settings!Startup /\ task'[u].value \in Settings!Values
  BY ConfigTypes, JobTypes
<1>2. running' \in [Settings!TaskKeys -> Settings!Values]
  BY DEF Settings!TypeOK
<1>3. Settings!TypeOK'
  BY <1>1, <1>2 DEF Settings!TypeOK
<1>4. \A u \in Tasks : task'[u].pc # "idle" => \A k \in Settings!Startup : task'[u].before[k] = boot'[k]
  BY <1>1, ConfigTypes DEF Settings!ConfigInv
<1>5. ASSUME ~raced', NEW k \in Settings!TaskKeys
      PROVE  \/ running'[k] = Settings!Clamped(config')[k]
             \/ \E u \in Tasks : task'[u].pc = "restart" /\ task'[u].before[k] # config'[k]
  <2>1. \/ running[k] = Settings!Clamped(config)[k]
        \/ \E u \in Tasks : task[u].pc = "restart" /\ task[u].before[k] # config[k]
    BY <1>5 DEF Settings!ConfigInv
  <2>2. CASE Settings!Changed(Settings!TaskKeys, task[t].before, config)
    BY <2>2 DEF Settings!ConfigInv
  <2>3. CASE ~Settings!Changed(Settings!TaskKeys, task[t].before, config)
    <3>1. running' = running /\ config' = config /\ task[t].before[k] = config[k]
      BY <2>3 DEF Settings!Changed
    <3>2. \A u \in Tasks : task[u].before[k] # config[k] => task'[u] = task[u]
      BY <1>1, <3>1
    <3> QED BY <2>1, <3>1, <3>2
  <2> QED BY <2>2, <2>3
<1>6. Settings!StartupIsKept' /\ Settings!FileIsInEffect'
  BY DEF Settings!ConfigInv, Settings!StartupIsKept, Settings!FileIsInEffect
<1>7. constants' = Settings!Clamped(config') /\ (~raced' => limiter' = Settings!LimiterFrom(config'))
  BY DEF Settings!ConfigInv
<1> QED BY <1>3, <1>4, <1>5, <1>6, <1>7 DEF Settings!ConfigInv, Settings!Startup, Settings!TaskKeys

(* The file is edited by hand, or the process starts again.                 *)
LEMMA OperatorHolds ==
    ASSUME Settings!ConfigReloadAssumption, Settings!TypeOK, Settings!ConfigInv,
           \/ \E k \in Settings!Keys, v \in Settings!Values \union {Bad} : Settings!HandEdit(k, v)
           \/ Settings!ProcessRestarts
    PROVE  Settings!TypeOK' /\ Settings!ConfigInv'
<1>1. ASSUME NEW k \in Settings!Keys, NEW v \in Settings!Values \union {Bad}, Settings!HandEdit(k, v)
      PROVE  Settings!TypeOK' /\ Settings!ConfigInv'
  <2>1. /\ file' = [file EXCEPT ![k] = v] /\ unread' = unread \union {k} /\ edits' \in 0 .. MaxEdits
        /\ UNCHANGED <<config, boot, limiter, constants, running, task, raced>>
    BY <1>1, EditIsCounted DEF Settings!HandEdit
  <2>2. Settings!TypeOK'
    BY <2>1 DEF Settings!TypeOK
  <2>3. Settings!FileIsInEffect'
    BY <2>1 DEF Settings!ConfigInv, Settings!FileIsInEffect, Settings!TypeOK
  <2> QED BY <2>1, <2>2, <2>3 DEF Settings!ConfigInv, Settings!StartupIsKept
<1>2. CASE Settings!ProcessRestarts
  <2>1. PICK cfg \in [Settings!Keys -> Settings!Values] : cfg = file
    BY <1>2 DEF Settings!ProcessRestarts, Settings!Valid, Settings!TypeOK
  <2>2. /\ config' = cfg /\ boot' = cfg /\ limiter' = Settings!LimiterFrom(cfg)
        /\ constants' = Settings!Clamped(cfg)
        /\ running' = [k \in Settings!TaskKeys |-> Settings!Clamped(cfg)[k]]
        /\ task' = [t \in Tasks |-> Settings!Idle] /\ unread' = {} /\ raced' = FALSE /\ file' = cfg
        /\ edits' \in 0 .. MaxEdits
    BY <1>2, <2>1, EditIsCounted DEF Settings!ProcessRestarts
  <2>3. Settings!TypeOK'
    <3>1. /\ limiter' \in [Settings!RateLimitKeys -> Settings!Values]
          /\ constants' \in [Settings!TaskKeys \union Settings!Window -> Settings!Values]
      BY <2>2, DerivedTypes
    <3>2. running' \in [Settings!TaskKeys -> Settings!Values]
      BY <2>2, <3>1
    <3>3. file' \in [Settings!Keys -> Settings!Values \union {Bad}]
      BY <2>2
    <3>4. task' \in [Tasks -> Settings!Jobs] /\ \A t \in Tasks : task'[t].pc = "idle"
      BY <2>2, ConfigTypes
    <3> QED BY <2>2, <3>1, <3>2, <3>3, <3>4 DEF Settings!TypeOK
  <2>4. \A t \in Tasks : task'[t].pc = "idle"
    BY <2>2, ConfigTypes
  <2> QED BY <2>2, <2>3, <2>4 DEF Settings!ConfigInv, Settings!StartupIsKept, Settings!FileIsInEffect,
       Settings!Startup, Settings!TaskKeys
<1> QED BY <1>1, <1>2

(* Whatever is edited, set, unset, reloaded or rolled back, and in whatever *)
(* order two commands do it: the startup-only settings stay, what is in     *)
(* effect is what the file says, what was derived follows, and no range is  *)
(* empty.  (utils/config, config_cmd.py)                                    *)
THEOREM SettingsAreInEffect ==
    ASSUME Settings!ConfigReloadAssumption
    PROVE  Settings!Spec => [](/\ Settings!StartupIsKept /\ Settings!FileIsInEffect
                               /\ Settings!DerivedFollows /\ Settings!RangesAreProper)
<1> DEFINE Inv == Settings!TypeOK /\ Settings!ConfigInv
<1>1. Settings!Init => Inv
  <2> SUFFICES ASSUME Settings!Init PROVE Inv
    OBVIOUS
  <2>10. 1 \in Settings!Values
    BY DEF Settings!ConfigReloadAssumption, Settings!Values
  <2>11. [k \in Settings!Keys |-> 1] \in [Settings!Keys -> Settings!Values]
    BY <2>10
  <2>1. PICK cfg \in [Settings!Keys -> Settings!Values] : cfg = [k \in Settings!Keys |-> 1]
    BY <2>11
  <2>2. /\ file = cfg /\ config = cfg /\ boot = cfg /\ limiter = Settings!LimiterFrom(cfg)
        /\ constants = Settings!Clamped(cfg)
        /\ running = [k \in Settings!TaskKeys |-> Settings!Clamped(cfg)[k]]
        /\ task = [t \in Tasks |-> Settings!Idle] /\ unread = {} /\ raced = FALSE /\ edits = 0
    BY <2>1 DEF Settings!Init, Settings!StartsWith
  <2>3. /\ limiter \in [Settings!RateLimitKeys -> Settings!Values]
        /\ constants \in [Settings!TaskKeys \union Settings!Window -> Settings!Values]
    BY <2>2, DerivedTypes
  <2>4. running \in [Settings!TaskKeys -> Settings!Values]
    BY <2>2, <2>3
  <2>5. Settings!Idle \in Settings!Jobs /\ Settings!Idle.pc = "idle"
    BY DEF Settings!Idle, Settings!Jobs, Settings!ConfigReloadAssumption, Settings!Values
  <2>6. task \in [Tasks -> Settings!Jobs] /\ \A t \in Tasks : task[t].pc = "idle"
    BY <2>2, <2>5
  <2>7. 0 \in 0 .. MaxEdits
    BY DEF Settings!ConfigReloadAssumption
  <2>8. Settings!TypeOK
    BY <2>2, <2>3, <2>4, <2>6, <2>7 DEF Settings!TypeOK
  <2>9. Settings!ConfigInv
    BY <2>2, <2>6 DEF Settings!ConfigInv, Settings!StartupIsKept, Settings!FileIsInEffect
  <2> QED BY <2>8, <2>9
<1>2. Inv /\ [Settings!Next]_(Settings!vars) => Inv'
  <2> SUFFICES ASSUME Inv, [Settings!Next]_(Settings!vars) PROVE Inv'
    OBVIOUS
  <2>1. CASE UNCHANGED Settings!vars
    BY <2>1 DEF Settings!vars, Settings!TypeOK, Settings!ConfigInv, Settings!StartupIsKept,
       Settings!FileIsInEffect
  <2> QED BY <2>1, CommandHolds, RestartHolds, OperatorHolds DEF Settings!Next
<1>3. Inv => /\ Settings!StartupIsKept /\ Settings!FileIsInEffect
             /\ Settings!DerivedFollows /\ Settings!RangesAreProper
  <2> SUFFICES ASSUME Inv PROVE Settings!DerivedFollows /\ Settings!RangesAreProper
    BY DEF Settings!ConfigInv
  <2>1. Settings!DerivedFollows
    BY DEF Settings!ConfigInv, Settings!DerivedFollows
  <2>2. Settings!RangesAreProper
    BY DerivedTypes DEF Settings!ConfigInv, Settings!RangesAreProper, Settings!TypeOK
  <2> QED BY <2>1, <2>2
<1> QED BY <1>1, <1>2, <1>3, PTL DEF Settings!Spec

-----------------------------------------------------------------------------
(* Announcements of a version (Release).                                    *)

LEMMA ReleaseTypes ==
    ASSUME Announce!ReleaseAssumption, Announce!TypeOK
    PROVE  /\ code \in Versions /\ code \in Nat /\ code # 0
           /\ record.version \in Versions \union {0} /\ record.pending \in Announce!Changes
           /\ Announce!Nothing \in Announce!Changes
           /\ [from |-> note, to |-> code] \in Announce!Changes
           /\ starts \in 0 .. MaxStarts /\ faults \in 0 .. MaxFaults
  BY DEF Announce!ReleaseAssumption, Announce!TypeOK, Announce!Changes, Announce!Nothing, Announce!No

(* A fault is counted, and nothing else of it is left but what is noted.    *)
LEMMA FaultIsCounted ==
    ASSUME Announce!ReleaseAssumption, Announce!TypeOK, Announce!Fault
    PROVE  faults' \in 0 .. MaxFaults
  BY DEF Announce!ReleaseAssumption, Announce!TypeOK, Announce!Fault

LEMMA SameChange ==
    ASSUME NEW c \in Announce!Changes, NEW a, NEW b, c.from = a, c.to = b
    PROVE  c = [from |-> a, to |-> b]
  BY DEF Announce!Changes

(* What is owed after a version has been recorded.                          *)
LEMMA OwedTypes ==
    ASSUME Announce!ReleaseAssumption, Announce!TypeOK
    PROVE  Announce!Owed(record) \in Announce!Changes
<1>1. Announce!Merged(record.version, record.pending) \in Announce!Changes
  BY ReleaseTypes DEF Announce!Merged, Announce!Changes, Announce!Nothing, Announce!No
<1> QED BY <1>1, ReleaseTypes DEF Announce!Owed

LEMMA WhatIsMerged ==
    ASSUME Announce!ReleaseAssumption, Announce!TypeOK, Announce!RecordInv
    PROVE  Announce!Merged(record.version, record.pending) =
             IF record.version = 0 \/ Announce!Base = code THEN Announce!Nothing
             ELSE [from |-> Announce!Base, to |-> code]
  BY ReleaseTypes DEF Announce!Merged, Announce!Extends, Announce!Base, Announce!RecordInv, Announce!No

LEMMA StartHolds ==
    ASSUME Announce!ReleaseAssumption, Announce!TypeOK, Announce!ReleaseInv,
           NEW v \in Versions, Announce!Start(v)
    PROVE  Announce!TypeOK' /\ Announce!ReleaseInv'
<1>1. Announce!TypeOK'
  <2>1. starts' \in 0 .. MaxStarts
    BY DEF Announce!TypeOK, Announce!Start, Announce!ReleaseAssumption
  <2>2. sent' \subseteq Announce!Changes /\ announced' \in Announce!Changes
    BY ReleaseTypes DEF Announce!TypeOK, Announce!Start
  <2>3. done' \in BOOLEAN /\ owner' \in BOOLEAN /\ twice' \in BOOLEAN
    BY Zenon DEF Announce!TypeOK, Announce!Start
  <2> QED BY <2>1, <2>2, <2>3 DEF Announce!TypeOK, Announce!Start
<1>2. ASSUME cut' = {} PROVE Announce!RecordInv' /\ Announce!ToldInv'
  <2>1. Announce!RecordInv /\ Announce!ToldInv /\ pc = "down" /\ cut = cut'
    BY <1>2 DEF Announce!ReleaseInv, Announce!Start
  <2>2. record' = record /\ told' = told /\ Announce!Base' = Announce!Base
    BY DEF Announce!Start, Announce!Base
  <2>3. Announce!RecordInv'
    BY <2>1, <2>2 DEF Announce!RecordInv
  <2>4. Announce!ToldInv'
    BY <2>1, <2>2 DEF Announce!ToldInv, Announce!Start, Announce!Nothing
  <2> QED BY <2>3, <2>4
<1> QED BY <1>1, <1>2 DEF Announce!ReleaseInv

LEMMA PhaseHolds ==
    ASSUME Announce!ReleaseAssumption, Announce!TypeOK, Announce!ReleaseInv,
           Announce!ProcessPhase \/ Announce!SessionLost
    PROVE  Announce!TypeOK' /\ Announce!ReleaseInv'
<1>1. Announce!TypeOK'
  BY ReleaseTypes, FaultIsCounted
     DEF Announce!TypeOK, Announce!ProcessPhase, Announce!SessionLost, Announce!Cut
<1>2. ASSUME cut' = {} PROVE Announce!RecordInv' /\ Announce!ToldInv'
  <2>1. Announce!RecordInv /\ Announce!ToldInv /\ pc # "down" /\ pc' \notin {"down", "deliver"}
    BY <1>2 DEF Announce!ReleaseInv, Announce!ProcessPhase, Announce!SessionLost, Announce!Cut
  <2>2. /\ record' = record /\ told' = told /\ Announce!Base' = Announce!Base
        /\ announced' = announced /\ sent' = sent /\ code' = code /\ twice' = twice /\ note' = note
    BY DEF Announce!ProcessPhase, Announce!SessionLost, Announce!Base
  <2>3. Announce!RecordInv'
    BY <2>1, <2>2 DEF Announce!RecordInv
  <2>4. Announce!ToldInv'
    BY <2>1, <2>2 DEF Announce!ToldInv
  <2> QED BY <2>3, <2>4
<1> QED BY <1>1, <1>2 DEF Announce!ReleaseInv

LEMMA NoteHolds ==
    ASSUME Announce!ReleaseAssumption, Announce!TypeOK, Announce!ReleaseInv,
           Announce!SendRestartNotification
    PROVE  Announce!TypeOK' /\ Announce!ReleaseInv'
<1> USE DEF Announce!SendRestartNotification
<1>1. Announce!TypeOK'
  <2>1. faults' \in 0 .. MaxFaults
    BY ReleaseTypes, FaultIsCounted
  <2>2. note' \in Versions \union {0} /\ cut' \subseteq {"cut", "late"}
    BY DEF Announce!TypeOK, Announce!No
  <2>3. announced' \in Announce!Changes /\ told' \in Versions \union {0}
        /\ sent' \subseteq Announce!Changes /\ twice' \in BOOLEAN
    <3>1. CASE UNCHANGED <<announced, told, sent, twice>>
      BY <3>1 DEF Announce!TypeOK, Announce!No
    <3>2. CASE Announce!Announces(Announce!Noted) /\ announced' = Announce!Noted
      BY <3>2, ReleaseTypes DEF Announce!TypeOK, Announce!Announces, Announce!Noted, Announce!No
    <3> QED BY <3>1, <3>2
  <2> QED BY <2>1, <2>2, <2>3 DEF Announce!TypeOK, Announce!No
<1>2. ASSUME cut' = {} PROVE Announce!RecordInv' /\ Announce!ToldInv'
  <2>1. Announce!RecordInv /\ Announce!ToldInv /\ cut = {}
    BY <1>2 DEF Announce!ReleaseInv
  <2>2. /\ pc = "readiness" /\ pc' = "complete" /\ record' = record /\ code' = code
        /\ Announce!Base' = Announce!Base
    BY DEF Announce!Base
  <2>3. CASE UNCHANGED <<announced, told, sent, twice>> /\ note' \in {0, note}
    <3>1. Announce!RecordInv'
      BY <2>1, <2>2, <2>3 DEF Announce!RecordInv
    <3>2. Announce!ToldInv'
      BY <2>1, <2>2, <2>3 DEF Announce!ToldInv, Announce!No
    <3> QED BY <3>1, <3>2
  <2>4. CASE /\ note # 0 /\ note # code /\ note \in {code, told} /\ note' = 0
             /\ Announce!Announces(Announce!Noted) /\ announced' = Announce!Noted
    <3>1. note = told /\ told # code /\ sent = {} /\ announced = Announce!Nothing
      BY <2>1, <2>2, <2>4 DEF Announce!ToldInv, Announce!No
    <3>2. /\ told' = code /\ announced'.to = code /\ announced'.from = told /\ twice' = FALSE
      BY <2>1, <2>4, <3>1 DEF Announce!Announces, Announce!Noted, Announce!ToldInv
    <3>3. record.version # 0 => told = Announce!Base
      BY <2>1, <3>1 DEF Announce!RecordInv, Announce!No
    <3>4. announced' # Announce!Nothing
      BY <2>4, <3>1, <3>2 DEF Announce!Nothing, Announce!No
    <3>5. Announce!RecordInv'
      BY <2>1, <2>2, <3>2, <3>3, <3>4 DEF Announce!RecordInv, Announce!No
    <3>6. Announce!ToldInv'
      BY <2>2, <2>4, <3>1, <3>2 DEF Announce!ToldInv, Announce!No
    <3> QED BY <3>5, <3>6
  <2> QED BY <1>2, <2>1, <2>3, <2>4 DEF Announce!No, Announce!Fault
<1> QED BY <1>1, <1>2 DEF Announce!ReleaseInv

LEMMA FinalizeHolds ==
    ASSUME Announce!ReleaseAssumption, Announce!TypeOK, Announce!ReleaseInv,
           Announce!FinalizeSuccessfulStartupVersion
    PROVE  Announce!TypeOK' /\ Announce!ReleaseInv'
<1> USE DEF Announce!FinalizeSuccessfulStartupVersion
<1>1. Announce!TypeOK'
  <2>1. faults' \in 0 .. MaxFaults /\ cut' \subseteq {"cut", "late"}
    BY ReleaseTypes, FaultIsCounted DEF Announce!TypeOK, Announce!Cut
  <2>2. record' \in [version : Versions \union {0}, pending : Announce!Changes]
    <3>1. \/ record' = [version |-> code, pending |-> Announce!Owed(record)]
          \/ record' = [version |-> code, pending |-> Announce!Nothing] \/ record' = record
      OBVIOUS
    <3>2. PICK owed \in Announce!Changes : owed = Announce!Owed(record)
      BY OwedTypes
    <3>3. record \in [version : Versions \union {0}, pending : Announce!Changes]
      BY DEF Announce!TypeOK, Announce!No
    <3> QED BY <3>1, <3>2, <3>3, ReleaseTypes
  <2>3. told' \in Versions \union {0} /\ pc' \in {"up", "deliver"}
    BY ReleaseTypes DEF Announce!TypeOK, Announce!No
  <2> QED BY <2>1, <2>2, <2>3 DEF Announce!TypeOK, Announce!No
<1>2. ASSUME cut' = {} PROVE Announce!RecordInv' /\ Announce!ToldInv'
  <2>1. Announce!RecordInv /\ Announce!ToldInv /\ cut = {}
    BY <1>2 DEF Announce!ReleaseInv, Announce!Cut
  <2>2. /\ pc = "complete" /\ code' = code /\ note' = note /\ announced' = announced
        /\ sent' = sent /\ twice' = twice
    OBVIOUS
  <2>3. CASE UNCHANGED <<record, told>> /\ pc' = "up"
    <3>1. Announce!Base' = Announce!Base
      BY <2>3 DEF Announce!Base
    <3>2. Announce!RecordInv'
      BY <2>1, <2>2, <2>3, <3>1 DEF Announce!RecordInv
    <3>3. Announce!ToldInv'
      BY <2>1, <2>2, <2>3 DEF Announce!ToldInv
    <3> QED BY <3>2, <3>3
  <2>4. CASE /\ record' = [version |-> code, pending |-> Announce!Owed(record)]
             /\ pc' = IF Announce!Owed(record) = Announce!Nothing THEN "up" ELSE "deliver"
             /\ told' = IF record.version = 0 THEN code ELSE told
    <3> DEFINE m == Announce!Merged(record.version, record.pending)
    <3>1. record'.version = code /\ record'.pending = Announce!Owed(record) /\ code # 0
      BY <2>4, ReleaseTypes
    <3>2. m = IF record.version = 0 \/ Announce!Base = code THEN Announce!Nothing
              ELSE [from |-> Announce!Base, to |-> code]
      BY <2>1, WhatIsMerged
    <3>3. record.version # 0 => Announce!Base # 0
      BY <2>1 DEF Announce!RecordInv, Announce!Base, Announce!No
    <3>4. sent' # {} => told' = code'
      BY <2>1, <2>2, <2>4 DEF Announce!ToldInv
    <3>5. announced # Announce!Nothing =>
             told = code /\ announced.to = code /\ announced.from # code /\ note = 0
      BY <2>1, <2>2 DEF Announce!ToldInv, Announce!No
    <3>6. CASE Announce!Owed(record) = Announce!Nothing
      <4>1. told' = code
        <5>1. CASE record.version = 0 \/ announced # Announce!Nothing
          BY <2>4, <3>5, <5>1
        <5>2. CASE record.version # 0 /\ announced = Announce!Nothing
          <6>1. told = Announce!Base
            BY <2>1, <5>2 DEF Announce!RecordInv, Announce!No
          <6>2. m = Announce!Nothing
            BY <3>6, <5>2 DEF Announce!Owed
          <6>3. Announce!Base = code
            BY <3>2, <3>3, <5>2, <6>2 DEF Announce!Nothing, Announce!No
          <6> QED BY <2>4, <6>1, <6>3
        <5> QED BY <5>1, <5>2
      <4>2. record'.pending = Announce!Nothing /\ Announce!Base' = code
        BY <3>1, <3>6 DEF Announce!Base
      <4>3. Announce!RecordInv'
        BY <3>1, <4>1, <4>2 DEF Announce!RecordInv, Announce!No
      <4>4. Announce!ToldInv'
        BY <2>1, <2>2, <2>4, <3>4, <3>5, <3>6, <4>1 DEF Announce!ToldInv, Announce!No
      <4> QED BY <4>3, <4>4
    <3>7. CASE Announce!Owed(record) # Announce!Nothing
      <4>1. Announce!Owed(record) = m /\ m # Announce!Nothing /\ m # announced
        BY <3>7 DEF Announce!Owed
      <4>2. /\ record.version # 0 /\ Announce!Base # code /\ Announce!Base # 0
            /\ m.from = Announce!Base /\ m.to = code
        BY <3>2, <3>3, <4>1
      <4>3. announced = Announce!Nothing
        <5> SUFFICES ASSUME announced # Announce!Nothing PROVE FALSE
          OBVIOUS
        <5>1. announced.from = Announce!Base
          BY <2>1, <3>5, <4>2 DEF Announce!RecordInv, Announce!No
        <5>2. announced = [from |-> Announce!Base, to |-> code]
          BY <3>5, <5>1, SameChange DEF Announce!TypeOK
        <5> QED BY <3>2, <4>1, <4>2, <5>2
      <4>4. told = Announce!Base
        BY <2>1, <4>2, <4>3 DEF Announce!RecordInv, Announce!No
      <4>5. told' = told /\ Announce!Base' = Announce!Base
        <5>1. Announce!Base' = record'.pending.from
          BY <3>1, <4>1 DEF Announce!Base
        <5> QED BY <2>4, <3>1, <4>1, <4>2, <5>1
      <4>6. Announce!RecordInv'
        BY <3>1, <4>1, <4>2, <4>4, <4>5 DEF Announce!RecordInv, Announce!No
      <4>7. Announce!ToldInv'
        BY <2>1, <2>2, <2>4, <3>1, <3>4, <4>1, <4>3, <4>4, <4>5 DEF Announce!ToldInv
      <4> QED BY <4>6, <4>7
    <3> QED BY <3>6, <3>7
  <2>5. \/ UNCHANGED <<record, told>> /\ pc' = "up"
        \/ /\ record' = [version |-> code, pending |-> Announce!Owed(record)]
           /\ pc' = IF Announce!Owed(record) = Announce!Nothing THEN "up" ELSE "deliver"
           /\ told' = IF record.version = 0 THEN code ELSE told
    BY <1>2 DEF Announce!Cut, Announce!No
  <2> QED BY <2>3, <2>4, <2>5
<1> QED BY <1>1, <1>2 DEF Announce!ReleaseInv

LEMMA DeliverHolds ==
    ASSUME Announce!ReleaseAssumption, Announce!TypeOK, Announce!ReleaseInv,
           Announce!DeliverPending
    PROVE  Announce!TypeOK' /\ Announce!ReleaseInv'
<1> USE DEF Announce!DeliverPending
<1>1. Announce!TypeOK'
  <2>1. faults' \in 0 .. MaxFaults /\ cut' \subseteq {"cut", "late"}
    BY ReleaseTypes, FaultIsCounted DEF Announce!TypeOK, Announce!Cut
  <2>2. record' \in [version : Versions \union {0}, pending : Announce!Changes]
    BY ReleaseTypes DEF Announce!TypeOK, Announce!No
  <2>3. told' \in Versions \union {0} /\ sent' \subseteq Announce!Changes /\ twice' \in BOOLEAN
    <3>1. record.pending.to \in Versions \union {0}
      BY ReleaseTypes DEF Announce!Changes, Announce!No
    <3> QED BY <3>1, ReleaseTypes DEF Announce!TypeOK, Announce!Announces, Announce!No
  <2> QED BY <2>1, <2>2, <2>3 DEF Announce!TypeOK, Announce!No
<1>2. ASSUME cut' = {} PROVE Announce!RecordInv' /\ Announce!ToldInv'
  <2>1. Announce!RecordInv /\ Announce!ToldInv /\ cut = {}
    BY <1>2 DEF Announce!ReleaseInv, Announce!Cut
  <2>2. /\ pc = "deliver" /\ pc' = "up" /\ code' = code /\ note' = note /\ announced' = announced
    OBVIOUS
  <2>3. record.version = code /\ record.pending # Announce!Nothing /\ told = Announce!Base
    BY <2>1, <2>2 DEF Announce!ToldInv
  <2>4. CASE UNCHANGED <<told, sent, twice, record>>
    <3>1. Announce!Base' = Announce!Base
      BY <2>4 DEF Announce!Base
    <3>2. Announce!RecordInv'
      BY <2>1, <2>2, <2>4, <3>1 DEF Announce!RecordInv
    <3>3. Announce!ToldInv'
      BY <2>1, <2>2, <2>4 DEF Announce!ToldInv
    <3> QED BY <3>2, <3>3
  <2>5. CASE Announce!Announces(record.pending) /\ record' = [record EXCEPT !.pending = Announce!Nothing]
    <3>1. record.pending.to = code /\ record.pending.from # code /\ told # code
      BY <2>1, <2>3 DEF Announce!RecordInv, Announce!Base
    <3>2. sent = {} /\ announced = Announce!Nothing
      BY <2>1, <3>1 DEF Announce!ToldInv
    <3>3. told' = code /\ twice' = FALSE
      BY <2>1, <2>5, <3>1, <3>2 DEF Announce!Announces, Announce!ToldInv
    <3>4. record'.version = code /\ record'.pending = Announce!Nothing /\ Announce!Base' = code
      BY <2>3, <2>5 DEF Announce!TypeOK, Announce!Base
    <3>5. Announce!RecordInv'
      BY <3>3, <3>4, ReleaseTypes DEF Announce!RecordInv, Announce!No
    <3>6. Announce!ToldInv'
      BY <2>2, <3>2, <3>3 DEF Announce!ToldInv
    <3> QED BY <3>5, <3>6
  <2>6. \/ UNCHANGED <<told, sent, twice, record>>
        \/ Announce!Announces(record.pending) /\ record' = [record EXCEPT !.pending = Announce!Nothing]
    BY <1>2 DEF Announce!Cut
  <2> QED BY <2>4, <2>5, <2>6
<1> QED BY <1>1, <1>2 DEF Announce!ReleaseInv

LEMMA EndHolds ==
    ASSUME Announce!ReleaseAssumption, Announce!TypeOK, Announce!ReleaseInv,
           Announce!BotRestart \/ Announce!Ends
    PROVE  Announce!TypeOK' /\ Announce!ReleaseInv'
<1>1. /\ pc' = "down" /\ note' \in {note, code} /\ Announce!Cut(Announce!Unrecorded)
      /\ UNCHANGED <<code, done, owner, announced, record, told, sent, twice, starts>>
      /\ faults' \in 0 .. MaxFaults /\ pc # "down"
  BY ReleaseTypes, FaultIsCounted DEF Announce!BotRestart, Announce!Ends
<1>2. Announce!TypeOK'
  BY <1>1, ReleaseTypes DEF Announce!TypeOK, Announce!Cut
<1>3. ASSUME cut' = {} PROVE Announce!RecordInv' /\ Announce!ToldInv'
  <2>1. Announce!RecordInv /\ Announce!ToldInv /\ ~Announce!Unrecorded
    BY <1>1, <1>3 DEF Announce!ReleaseInv, Announce!Cut
  <2>2. Announce!Base' = Announce!Base
    BY <1>1 DEF Announce!Base
  <2>3. ASSUME record.version # 0 PROVE told = Announce!Base
    <3>1. CASE announced = Announce!Nothing
      BY <2>1, <2>3, <3>1 DEF Announce!RecordInv, Announce!No
    <3>2. CASE announced # Announce!Nothing
      <4>1. record.version = code /\ record.pending = Announce!Nothing
        BY <2>1, <3>2 DEF Announce!Unrecorded
      <4> QED BY <2>1, <3>2, <4>1 DEF Announce!ToldInv, Announce!Base
    <3> QED BY <3>1, <3>2
  <2>4. Announce!RecordInv'
    BY <1>1, <2>1, <2>2, <2>3 DEF Announce!RecordInv, Announce!No
  <2>5. Announce!ToldInv'
    BY <1>1, <2>1 DEF Announce!ToldInv
  <2> QED BY <2>4, <2>5
<1> QED BY <1>2, <1>3 DEF Announce!ReleaseInv

(* No change of the version is forgotten, and none is announced twice: for  *)
(* any versions, starts, restarts and faults.  (_send_restart_notification, *)
(* _finalize_successful_startup_version,                                    *)
(* _deliver_pending_version_announcement)                                   *)
THEOREM ChangesAreAnnounced ==
    ASSUME Announce!ReleaseAssumption
    PROVE  Announce!Spec => [](Announce!NothingIsForgotten /\ Announce!AnnouncedOnce)
<1> DEFINE Inv == Announce!TypeOK /\ Announce!ReleaseInv
<1>1. Announce!Init => Inv
  <2> SUFFICES ASSUME Announce!Init PROVE Inv
    OBVIOUS
  <2>1. Announce!Nothing \in Announce!Changes
    BY DEF Announce!Nothing, Announce!Changes, Announce!No
  <2>4. 0 \in 0 .. MaxStarts /\ 0 \in 0 .. MaxFaults
    BY DEF Announce!ReleaseAssumption
  <2>5. record \in [version : Versions \union {0}, pending : Announce!Changes]
    BY <2>1 DEF Announce!Init, Announce!No
  <2>6. done \in BOOLEAN /\ owner \in BOOLEAN /\ twice \in BOOLEAN
    BY Zenon DEF Announce!Init
  <2>2. Announce!TypeOK
    BY <2>1, <2>4, <2>5, <2>6 DEF Announce!Init, Announce!TypeOK, Announce!No
  <2>3. Announce!ReleaseInv
    BY DEF Announce!Init, Announce!ReleaseInv, Announce!RecordInv, Announce!ToldInv
  <2> QED BY <2>2, <2>3
<1>2. Inv /\ [Announce!Next]_(Announce!vars) => Inv'
  <2> SUFFICES ASSUME Inv, [Announce!Next]_(Announce!vars) PROVE Inv'
    OBVIOUS
  <2>1. CASE UNCHANGED Announce!vars
    BY <2>1 DEF Announce!vars, Announce!TypeOK, Announce!ReleaseInv, Announce!RecordInv,
         Announce!ToldInv, Announce!Base
  <2> QED BY <2>1, StartHolds, PhaseHolds, NoteHolds, FinalizeHolds, DeliverHolds, EndHolds
       DEF Announce!Next
<1>3. Inv => Announce!NothingIsForgotten /\ Announce!AnnouncedOnce
  <2> SUFFICES ASSUME Inv, cut = {} PROVE
        /\ \/ record.version = told \/ record.pending.to = record.version
           \/ announced # Announce!Nothing /\ told = announced.to
           \/ record.version = 0
        /\ ~twice
    BY DEF Announce!NothingIsForgotten, Announce!AnnouncedOnce, Announce!No
  <2>1. Announce!RecordInv /\ Announce!ToldInv
    BY DEF Announce!ReleaseInv
  <2>2. CASE announced # Announce!Nothing
    BY <2>1, <2>2 DEF Announce!ToldInv
  <2>3. CASE announced = Announce!Nothing
    BY <2>1, <2>3 DEF Announce!RecordInv, Announce!ToldInv, Announce!Base, Announce!No
  <2> QED BY <2>2, <2>3
<1> QED BY <1>1, <1>2, <1>3, PTL DEF Announce!Spec

-----------------------------------------------------------------------------
(* The profile (Profile).                                                   *)

LEMMA ProfileTypes ==
    ASSUME Card!ProfileAssumption, Card!TypeOK
    PROVE  /\ 0 \in 0 .. MaxVersion /\ 1 \in 0 .. MaxVersion
           /\ \A k \in Card!Kinds : files[k] \in 0 .. MaxVersion /\ marks[k] \in 0 .. MaxVersion
           /\ "card" \in Card!Kinds /\ "image" \in Card!Kinds
  BY DEF Card!ProfileAssumption, Card!TypeOK, Card!Kinds

LEMMA ProfileFault ==
    ASSUME Card!ProfileAssumption, Card!TypeOK, Card!Fine \/ Card!Fault
    PROVE  faults' \in 0 .. MaxFaults /\ settled' \in BOOLEAN
<1>0. faults \in 0 .. MaxFaults /\ settled \in BOOLEAN /\ MaxFaults \in Nat
  BY DEF Card!ProfileAssumption, Card!TypeOK
<1>1. CASE Card!Fine
  <2>1. faults' = faults /\ settled' = settled
    BY <1>1 DEF Card!Fine
  <2> QED BY <1>0, <2>1, Zenon
<1>2. CASE Card!Fault
  <2>1. faults < MaxFaults /\ faults' = faults + 1 /\ settled' = FALSE
    BY <1>2 DEF Card!Fault
  <2>2. faults' \in 0 .. MaxFaults
    BY <1>0, <2>1
  <2> QED BY <2>1, <2>2, Zenon
<1> QED BY <1>1, <1>2

(* What publishes nothing and writes no marker.                             *)
LEMMA NothingPublished ==
    ASSUME Card!ProfileAssumption, Card!TypeOK, Card!UpdateInv,
           \/ \E kind \in Card!Kinds, v \in 0 .. MaxVersion : Card!EditFile(kind, v)
           \/ Card!OnSessionReady \/ Card!SkipVcard \/ Card!SkipAvatar \/ Card!UpdateAvatar
           \/ Card!SessionLost \/ UNCHANGED Card!vars
    PROVE  Card!TypeOK' /\ Card!UpdateInv'
<1> USE DEF Card!Bounds
<1>1. CASE \E kind \in Card!Kinds, v \in 0 .. MaxVersion : Card!EditFile(kind, v)
  <2>0. PICK kind \in Card!Kinds, v \in 0 .. MaxVersion : Card!EditFile(kind, v)
    BY <1>1
  <2>2. files' \in [Card!Kinds -> 0 .. MaxVersion]
    BY <2>0 DEF Card!EditFile, Card!TypeOK
  <2>3. edits' \in 0 .. MaxEdits
    BY <2>0 DEF Card!EditFile, Card!TypeOK, Card!ProfileAssumption
  <2>1. Card!TypeOK'
    BY <2>0, <2>2, <2>3 DEF Card!EditFile, Card!TypeOK
  <2> QED BY <1>1, <2>1 DEF Card!EditFile, Card!UpdateInv, Card!MarkersAreTrue
<1>2. CASE Card!OnSessionReady
  <2>1. Card!TypeOK'
    BY <1>2 DEF Card!OnSessionReady, Card!TypeOK, Card!ProfileAssumption
  <2> QED BY <1>2, <2>1 DEF Card!OnSessionReady, Card!UpdateInv, Card!MarkersAreTrue
<1>3. CASE Card!SkipVcard \/ Card!SkipAvatar \/ Card!SessionLost
  <2>1. UNCHANGED <<files, marks, server, read, ok, unmarked, edits, refreshes>> /\ pc' \in {"image", "idle"}
    BY <1>3 DEF Card!SkipVcard, Card!SkipAvatar, Card!SessionLost
  <2>2. Card!TypeOK'
    BY <1>3, <2>1, ProfileFault DEF Card!SkipVcard, Card!SkipAvatar, Card!SessionLost, Card!TypeOK
  <2> QED BY <2>1, <2>2 DEF Card!UpdateInv, Card!MarkersAreTrue
<1>4. CASE Card!UpdateAvatar
  <2>1. Card!TypeOK'
    BY <1>4, ProfileTypes, ProfileFault DEF Card!UpdateAvatar, Card!TypeOK
  <2> QED BY <1>4, <2>1 DEF Card!UpdateAvatar, Card!UpdateInv, Card!MarkersAreTrue
<1>5. CASE UNCHANGED Card!vars
  BY <1>5 DEF Card!vars, Card!TypeOK, Card!UpdateInv, Card!MarkersAreTrue
<1> QED BY <1>1, <1>2, <1>3, <1>4, <1>5

LEMMA VcardHolds ==
    ASSUME Card!ProfileAssumption, Card!TypeOK, Card!UpdateInv, Card!UpdateVcard
    PROVE  Card!TypeOK' /\ Card!UpdateInv'
<1> USE DEF Card!UpdateVcard, Card!Bounds
<1>1. CASE /\ server' = Card!SetVcard(files["card"]) /\ pc' = "markCard"
           /\ unmarked' = unmarked \union {"card"} /\ Card!Fine
  <2>1. /\ server' \in [{"card", "photo", "pep"} -> 0 .. MaxVersion]
        /\ server'.card = files["card"] /\ server'.pep = server.pep
    BY <1>1, ProfileTypes DEF Card!SetVcard, Card!TypeOK, Card!Missing
  <2>2. Card!TypeOK'
    BY <1>1, <2>1, ProfileTypes, ProfileFault DEF Card!TypeOK
  <2> QED BY <1>1, <2>1, <2>2 DEF Card!UpdateInv, Card!MarkersAreTrue
<1>2. CASE Card!Fault /\ pc' = "image" /\ UNCHANGED <<server, unmarked>>
  <2>1. Card!TypeOK'
    BY <1>2, ProfileTypes, ProfileFault DEF Card!TypeOK
  <2> QED BY <1>2, <2>1 DEF Card!UpdateInv, Card!MarkersAreTrue
<1> QED BY <1>1, <1>2

LEMMA MarkHolds ==
    ASSUME Card!ProfileAssumption, Card!TypeOK, Card!UpdateInv, Card!MarkVcard \/ Card!MarkAvatar
    PROVE  Card!TypeOK' /\ Card!UpdateInv'
<1> USE DEF Card!Bounds, Card!WriteHash
<1>1. CASE Card!MarkVcard
  <2>1. Card!TypeOK'
    BY <1>1, ProfileTypes, ProfileFault DEF Card!MarkVcard, Card!TypeOK
  <2> QED BY <1>1, <2>1, ProfileTypes DEF Card!MarkVcard, Card!UpdateInv, Card!MarkersAreTrue, Card!TypeOK
<1>2. CASE Card!MarkAvatar
  <2>1. Card!TypeOK'
    BY <1>2, ProfileTypes, ProfileFault DEF Card!MarkAvatar, Card!TypeOK
  <2> QED BY <1>2, <2>1, ProfileTypes DEF Card!MarkAvatar, Card!UpdateInv, Card!MarkersAreTrue, Card!TypeOK
<1> QED BY <1>1, <1>2

LEMMA PublishHolds ==
    ASSUME Card!ProfileAssumption, Card!TypeOK, Card!UpdateInv,
           Card!PublishXep0084 \/ Card!PublishXep0153
    PROVE  Card!TypeOK' /\ Card!UpdateInv'
<1> USE DEF Card!Bounds, Card!Publish
<1>1. CASE Card!PublishXep0084
  <2>1. Card!TypeOK'
    BY <1>1, ProfileFault DEF Card!PublishXep0084, Card!TypeOK, Card!Kinds
  <2>2. server'.card = server.card
    BY <1>1 DEF Card!PublishXep0084, Card!TypeOK
  <2>3. "pep" \in ok' => server'.pep = read /\ "image" \in unmarked'
    BY <1>1 DEF Card!PublishXep0084, Card!TypeOK, Card!UpdateInv
  <2>4. Card!MarkersAreTrue'
    BY <1>1, <2>2 DEF Card!PublishXep0084, Card!UpdateInv, Card!MarkersAreTrue
  <2> QED BY <1>1, <2>1, <2>3, <2>4 DEF Card!PublishXep0084, Card!UpdateInv
<1>2. CASE Card!PublishXep0153
  <2>1. pc' \in {"markImage", "idle"} /\ (pc' = "markImage" => "pep" \in ok')
    BY <1>2 DEF Card!PublishXep0153, Card!Published
  <2>2. Card!TypeOK'
    BY <1>2, <2>1, ProfileFault DEF Card!PublishXep0153, Card!TypeOK, Card!Kinds
  <2>3. server'.card = server.card /\ server'.pep = server.pep /\ ("pep" \in ok' => "pep" \in ok)
    BY <1>2 DEF Card!PublishXep0153, Card!TypeOK
  <2>4. Card!MarkersAreTrue'
    BY <1>2, <2>3 DEF Card!PublishXep0153, Card!UpdateInv, Card!MarkersAreTrue
  <2>5. pc = "photo" /\ read' = read
    BY <1>2 DEF Card!PublishXep0153
  <2> QED BY <2>1, <2>2, <2>3, <2>4, <2>5 DEF Card!UpdateInv
<1> QED BY <1>1, <1>2

(* Whatever fails or is cut off: the marker of the vCard, and that of the   *)
(* avatar, say what the server shows, unless it could not be written after  *)
(* a publication.  (_reg_profile.py: update_vcard, update_avatar)           *)
THEOREM MarkersAreAlwaysTrue ==
    ASSUME Card!ProfileAssumption PROVE Card!Spec => []Card!MarkersAreTrue
<1> DEFINE Inv == Card!TypeOK /\ Card!UpdateInv
<1>1. Card!Init => Inv
  <2> SUFFICES ASSUME Card!Init PROVE Inv
    OBVIOUS
  <2>3. 0 \in 0 .. MaxVersion /\ 1 \in 0 .. MaxVersion /\ 0 \in 0 .. MaxEdits
        /\ 0 \in 0 .. MaxSessions /\ 0 \in 0 .. MaxFaults
    BY DEF Card!ProfileAssumption
  <2>4. /\ files \in [Card!Kinds -> 0 .. MaxVersion] /\ marks \in [Card!Kinds -> 0 .. MaxVersion]
        /\ server \in [{"card", "photo", "pep"} -> 0 .. MaxVersion]
    BY <2>3 DEF Card!Init, Card!Missing
  <2>5. settled \in BOOLEAN
    BY Zenon DEF Card!Init
  <2>1. Card!TypeOK
    BY <2>3, <2>4, <2>5 DEF Card!Init, Card!TypeOK, Card!Missing
  <2>2. Card!UpdateInv
    BY DEF Card!Init, Card!UpdateInv, Card!MarkersAreTrue, Card!Kinds
  <2> QED BY <2>1, <2>2
<1>2. Inv /\ [Card!Next]_(Card!vars) => Inv'
  BY NothingPublished, VcardHolds, MarkHolds, PublishHolds DEF Card!Next
<1>3. Inv => Card!MarkersAreTrue
  BY DEF Card!UpdateInv
<1> QED BY <1>1, <1>2, <1>3, PTL DEF Card!Spec

-----------------------------------------------------------------------------
(* The schema (Migrations).                                                 *)

LEMMA SchemaNumbers ==
    ASSUME Schema!MigrationsAssumption
    PROVE  /\ LastVersion \in Nat /\ MaxStarts \in Nat /\ MaxFaults \in Nat
           /\ SnapshotKeep \in Nat \ {0}
  BY Zenon DEF Schema!MigrationsAssumption

LEMMA SchemaBuilds ==
    ASSUME Schema!MigrationsAssumption
    PROVE  None # "" /\ \A b \in Builds : b.known \in 0 .. LastVersion /\ b.sum # None
  BY Zenon DEF Schema!MigrationsAssumption

LEMMA SchemaFault ==
    ASSUME Schema!MigrationsAssumption, Schema!TypeOK, Schema!Fault \/ faults' = faults
    PROVE  faults' \in 0 .. MaxFaults
<1>1. faults \in 0 .. MaxFaults
  BY Zenon DEF Schema!TypeOK
<1> QED BY <1>1, SchemaNumbers DEF Schema!Fault

LEMMA BuildTypes ==
    ASSUME Schema!MigrationsAssumption, build \in Builds
    PROVE  /\ build.known \in 0 .. LastVersion /\ build.sum # None
           /\ build.sum \in Schema!Checksums /\ LastVersion \in Nat
           /\ \A v \in 1 .. build.known : v \in 1 .. LastVersion
<1>1. build.known \in 0 .. LastVersion /\ build.sum # None
  BY SchemaBuilds, Zenon
<1>2. build.sum \in Schema!Checksums
  BY Zenon DEF Schema!Checksums
<1> QED BY <1>1, <1>2, SchemaNumbers

(* What is recorded has no gap, so the next migration follows the last one. *)
LEMMA NextFollows ==
    ASSUME Schema!MigrationsAssumption, Schema!SchemaIsRecorded, build \in Builds, Schema!Pending # {}
    PROVE  \E k \in 0 .. LastVersion :
               /\ Schema!Applied(record) = 1 .. k /\ Schema!Next1 = k + 1
               /\ k + 1 \in 1 .. LastVersion /\ k + 1 <= build.known
<1>1. PICK k \in 0 .. LastVersion : Schema!Applied(record) = 1 .. k
  BY DEF Schema!SchemaIsRecorded
<1>2. k \in Nat /\ build.known \in Nat /\ build.known <= LastVersion /\ LastVersion \in Nat
  BY BuildTypes
<1>3. \A v \in 1 .. LastVersion : record[v] = None <=> v \notin 1 .. k
  BY <1>1 DEF Schema!Applied
<1>4. \A v \in Schema!Pending : v \in Nat /\ k + 1 <= v /\ v <= build.known /\ v \in 1 .. LastVersion
  BY <1>2, <1>3 DEF Schema!Pending
<1>5. k + 1 <= build.known
  BY <1>2, <1>4
<1>6. k + 1 \in Schema!Pending
  BY <1>2, <1>3, <1>5 DEF Schema!Pending
<1>7. Schema!Next1 = k + 1
  <2>1. Schema!Next1 \in Schema!Pending /\ \A w \in Schema!Pending : Schema!Next1 <= w
    BY <1>4, <1>6 DEF Schema!Next1, Schema!Min
  <2> QED BY <1>2, <1>4, <1>6, <2>1
<1> QED BY <1>1, <1>2, <1>5, <1>7

LEMMA SchemaStays ==
    ASSUME Schema!SchemaInv, UNCHANGED <<record, schema, build, unit, snapshots, found>>,
           pc' = pc, Schema!WorkersInv'
    PROVE  Schema!SchemaInv'
<1>1. Schema!SchemaIsRecorded'
  BY DEF Schema!SchemaInv, Schema!SchemaIsRecorded, Schema!Applied
<1>2. Schema!UnitInv'
  BY DEF Schema!SchemaInv, Schema!UnitInv, Schema!Pending, Schema!Next1
<1>3. Schema!ConnectInv'
  BY DEF Schema!SchemaInv, Schema!ConnectInv, Schema!SnapshotIsKept, Schema!Unknown, Schema!Changed,
     Schema!Applied, Schema!Pending
<1> QED BY <1>1, <1>2, <1>3 DEF Schema!SchemaInv

(* The process is gone, or connect() or close() has come to an end.         *)
LEMMA ClosedHolds ==
    ASSUME Schema!MigrationsAssumption, Schema!TypeOK, Schema!SchemaInv, Schema!Closed,
           UNCHANGED <<record, schema, snapshots, found>>, starts' = starts,
           dirty' \in BOOLEAN, lost' = FALSE, faults' \in 0 .. MaxFaults
    PROVE  Schema!TypeOK' /\ Schema!SchemaInv'
<1> USE DEF Schema!Closed
<1>1. Schema!TypeOK'
  BY DEF Schema!TypeOK
<1>2. Schema!SchemaIsRecorded'
  BY DEF Schema!SchemaInv, Schema!SchemaIsRecorded, Schema!Applied
<1>3. Schema!UnitInv' /\ Schema!ConnectInv'
  BY DEF Schema!UnitInv, Schema!ConnectInv, Schema!SnapshotIsKept
<1>4. Schema!WorkersInv'
  BY DEF Schema!WorkersInv, Schema!CloseIsHonest
<1> QED BY <1>1, <1>2, <1>3, <1>4 DEF Schema!SchemaInv

LEMMA ClosesHold ==
    ASSUME Schema!MigrationsAssumption, Schema!TypeOK, Schema!SchemaInv,
           Schema!MigrationFails \/ Schema!Crash \/ Schema!ConnectionClosed
    PROVE  Schema!TypeOK' /\ Schema!SchemaInv'
<1>1. Schema!Closed /\ UNCHANGED <<record, schema, snapshots, found>> /\ starts' = starts
  BY DEF Schema!MigrationFails, Schema!Crash, Schema!ConnectionClosed, Schema!File
<1>2. faults' \in 0 .. MaxFaults
  BY SchemaFault DEF Schema!MigrationFails, Schema!Crash, Schema!ConnectionClosed
<1>3. lost = FALSE /\ dirty \in BOOLEAN
  BY DEF Schema!SchemaInv, Schema!WorkersInv, Schema!CloseIsHonest, Schema!TypeOK
<1>4. dirty' \in BOOLEAN /\ lost' = FALSE
  BY <1>3 DEF Schema!MigrationFails, Schema!Crash, Schema!ConnectionClosed, Schema!FinalFlush
<1> QED BY <1>1, <1>2, <1>4, ClosedHolds

LEMMA ConnectHolds ==
    ASSUME Schema!MigrationsAssumption, Schema!TypeOK, Schema!SchemaInv,
           NEW b \in Builds, Schema!Connect(b)
    PROVE  Schema!TypeOK' /\ Schema!SchemaInv'
<1> USE DEF Schema!Connect, Schema!File, Schema!Runtime
<1>1. Schema!TypeOK'
  <2>1. starts' \in 0 .. MaxStarts
    <3>1. starts \in 0 .. MaxStarts
      BY Zenon DEF Schema!TypeOK
    <3> QED BY <3>1, SchemaNumbers
  <2> QED BY <2>1 DEF Schema!TypeOK
<1>2. Schema!SchemaIsRecorded'
  BY DEF Schema!SchemaInv, Schema!SchemaIsRecorded, Schema!Applied
<1>3. unit = None
  BY DEF Schema!SchemaInv, Schema!UnitInv
<1>4. Schema!UnitInv' /\ Schema!ConnectInv'
  BY <1>3 DEF Schema!UnitInv, Schema!ConnectInv, Schema!SnapshotIsKept
<1>5. Schema!WorkersInv'
  BY DEF Schema!SchemaInv, Schema!WorkersInv, Schema!CloseIsHonest
<1> QED BY <1>1, <1>2, <1>4, <1>5 DEF Schema!SchemaInv

LEMMA BootstrapHolds ==
    ASSUME Schema!MigrationsAssumption, Schema!TypeOK, Schema!SchemaInv, Schema!InitSchemaMigrations
    PROVE  Schema!TypeOK' /\ Schema!SchemaInv'
<1> USE DEF Schema!InitSchemaMigrations, Schema!Process, Schema!Runtime
<1>1. build \in Builds
  BY DEF Schema!SchemaInv, Schema!ConnectInv
<1>2. /\ record' \in [1 .. LastVersion -> Schema!Checksums]
      /\ \A v \in 1 .. LastVersion : record'[v] = None <=> record[v] = None
  BY <1>1, BuildTypes DEF Schema!Bootstrapped, Schema!TypeOK, Schema!MigrationsAssumption
<1>3. Schema!TypeOK'
  BY <1>2 DEF Schema!TypeOK
<1>4. Schema!Applied(record') = Schema!Applied(record)
  BY <1>2 DEF Schema!Applied
<1>5. Schema!SchemaIsRecorded'
  BY <1>4 DEF Schema!SchemaInv, Schema!SchemaIsRecorded
<1>6. Schema!UnitInv' /\ Schema!ConnectInv'
  BY DEF Schema!SchemaInv, Schema!UnitInv, Schema!ConnectInv, Schema!SnapshotIsKept
<1>7. Schema!WorkersInv'
  BY DEF Schema!SchemaInv, Schema!WorkersInv, Schema!CloseIsHonest
<1> QED BY <1>3, <1>5, <1>6, <1>7 DEF Schema!SchemaInv

LEMMA CheckHolds ==
    ASSUME Schema!MigrationsAssumption, Schema!TypeOK, Schema!SchemaInv, Schema!AssertSchemaCompatible
    PROVE  Schema!TypeOK' /\ Schema!SchemaInv'
<1> USE DEF Schema!AssertSchemaCompatible, Schema!File
<1>1. CASE Schema!Unknown \union Schema!Changed # {}
  <2>1. Schema!Closed /\ UNCHANGED <<record, schema, snapshots, found>> /\ starts' = starts
    BY <1>1
  <2>2. dirty' \in BOOLEAN /\ lost' = FALSE /\ faults' \in 0 .. MaxFaults
    BY DEF Schema!SchemaInv, Schema!WorkersInv, Schema!CloseIsHonest, Schema!TypeOK
  <2> QED BY <2>1, <2>2, ClosedHolds
<1>2. CASE Schema!Unknown \union Schema!Changed = {}
  <2>1. /\ pc = "check" /\ pc' \in {"open", "snapshot"} /\ UNCHANGED <<build, unit, saving>>
        /\ workers' \subseteq Schema!Workers /\ (pc' = "open" => Schema!Pending = {})
        /\ (pc' = "snapshot" => workers' = {})
    BY <1>2
  <2>2. Schema!TypeOK'
    BY <2>1 DEF Schema!TypeOK
  <2>3. Schema!SchemaIsRecorded'
    BY DEF Schema!SchemaInv, Schema!SchemaIsRecorded, Schema!Applied
  <2>4. Schema!UnitInv'
    BY <2>1 DEF Schema!SchemaInv, Schema!UnitInv
  <2>5. Schema!ConnectInv'
    <3>1. (Schema!Unknown \union Schema!Changed)' = {} /\ Schema!Pending' = Schema!Pending
      BY <1>2, <2>1 DEF Schema!Unknown, Schema!Changed, Schema!Applied, Schema!Pending
    <3> QED BY <2>1, <3>1 DEF Schema!SchemaInv, Schema!ConnectInv, Schema!SnapshotIsKept
  <2>6. Schema!WorkersInv'
    BY <2>1 DEF Schema!SchemaInv, Schema!WorkersInv, Schema!CloseIsHonest
  <2> QED BY <2>2, <2>3, <2>4, <2>5, <2>6 DEF Schema!SchemaInv
<1> QED BY <1>1, <1>2

(* The newest snapshot stays, however few are kept.                         *)
LEMMA NewestIsKept ==
    ASSUME Schema!MigrationsAssumption, NEW S, NEW a \in Seq(S), Len(a) >= 1
    PROVE  /\ Schema!Kept(a) \in Seq(S)
           /\ \E i \in 1 .. Len(Schema!Kept(a)) : Schema!Kept(a)[i] = a[Len(a)]
<1>1. Len(a) \in Nat /\ SnapshotKeep \in Nat /\ SnapshotKeep >= 1
  BY SchemaNumbers
<1>2. CASE Len(a) > SnapshotKeep
  <2>1. Tail(a) \in Seq(S) /\ Len(Tail(a)) = Len(a) - 1
    BY <1>1, <1>2
  <2>2. Len(a) - 1 \in 1 .. Len(Tail(a))
    BY <1>1, <1>2, <2>1
  <2>3. Tail(a)[Len(a) - 1] = a[Len(a)]
    BY <1>1, <1>2, <2>2
  <2>4. Schema!Kept(a) = Tail(a)
    BY <1>2 DEF Schema!Kept
  <2> QED BY <2>1, <2>2, <2>3, <2>4
<1>3. CASE ~(Len(a) > SnapshotKeep)
  BY <1>1, <1>3 DEF Schema!Kept
<1> QED BY <1>2, <1>3

LEMMA BackupHolds ==
    ASSUME Schema!MigrationsAssumption, Schema!TypeOK, Schema!SchemaInv, Schema!BackupDatabase
    PROVE  Schema!TypeOK' /\ Schema!SchemaInv'
<1> USE DEF Schema!BackupDatabase, Schema!File
<1>1. CASE Schema!Fault /\ Schema!Closed /\ UNCHANGED snapshots
  <2>1. dirty' \in BOOLEAN /\ lost' = FALSE /\ faults' \in 0 .. MaxFaults
    BY <1>1, SchemaFault DEF Schema!SchemaInv, Schema!WorkersInv, Schema!CloseIsHonest, Schema!TypeOK
  <2> QED BY <1>1, <2>1, ClosedHolds
<1>2. CASE /\ pc' = "migrate" /\ snapshots' = Schema!Kept(Append(snapshots, schema))
           /\ UNCHANGED <<build, unit, workers, saving, faults>>
  <2>1. snapshots' \in Seq(SUBSET Schema!Objects)
        /\ \E i \in 1 .. Len(snapshots') : snapshots'[i] = schema
    <3>1. snapshots \in Seq(SUBSET Schema!Objects) /\ schema \in SUBSET Schema!Objects
      BY Zenon DEF Schema!TypeOK
    <3> DEFINE a == Append(snapshots, schema)
    <3>2. a \in Seq(SUBSET Schema!Objects) /\ Len(a) >= 1 /\ a[Len(a)] = schema
      BY <3>1
    <3> HIDE DEF a
    <3>3. /\ Schema!Kept(a) \in Seq(SUBSET Schema!Objects)
          /\ \E i \in 1 .. Len(Schema!Kept(a)) : Schema!Kept(a)[i] = a[Len(a)]
      BY <3>2, NewestIsKept
    <3> QED BY <1>2, <3>2, <3>3 DEF a
  <2>2. found' = schema
    BY DEF Schema!SchemaInv, Schema!ConnectInv
  <2>3. Schema!TypeOK'
    BY <1>2, <2>1 DEF Schema!TypeOK
  <2>4. Schema!SchemaIsRecorded'
    BY DEF Schema!SchemaInv, Schema!SchemaIsRecorded, Schema!Applied
  <2>5. Schema!UnitInv'
    BY <1>2 DEF Schema!SchemaInv, Schema!UnitInv
  <2>6. Schema!ConnectInv'
    <3>1. (Schema!Unknown \union Schema!Changed)' = {}
      BY <1>2 DEF Schema!SchemaInv, Schema!ConnectInv, Schema!Unknown, Schema!Changed, Schema!Applied
    <3> QED BY <1>2, <2>1, <2>2, <3>1 DEF Schema!SchemaInv, Schema!ConnectInv, Schema!SnapshotIsKept
  <2>7. Schema!WorkersInv'
    BY <1>2 DEF Schema!SchemaInv, Schema!WorkersInv, Schema!CloseIsHonest
  <2> QED BY <2>3, <2>4, <2>5, <2>6, <2>7 DEF Schema!SchemaInv
<1> QED BY <1>1, <1>2

LEMMA RunHolds ==
    ASSUME Schema!MigrationsAssumption, Schema!TypeOK, Schema!SchemaInv, Schema!RunMigration
    PROVE  Schema!TypeOK' /\ Schema!SchemaInv'
<1> USE DEF Schema!RunMigration, Schema!Recorded, Schema!Process, Schema!Runtime
<1>1. UNCHANGED <<record, schema, build, pc, snapshots, found, workers, saving, dirty, lost, starts, faults>>
  OBVIOUS
<1>2. Schema!TypeOK'
  BY <1>1 DEF Schema!TypeOK
<1>3. Schema!SchemaIsRecorded'
  BY <1>1 DEF Schema!SchemaInv, Schema!SchemaIsRecorded, Schema!Applied
<1>4. Schema!Pending' = Schema!Pending /\ Schema!Next1' = Schema!Next1
  BY <1>1 DEF Schema!Pending, Schema!Next1
<1>5. Schema!UnitInv'
  BY <1>1, <1>4 DEF Schema!UnitInv
<1>6. Schema!ConnectInv'
  BY <1>1 DEF Schema!SchemaInv, Schema!ConnectInv, Schema!SnapshotIsKept, Schema!Unknown, Schema!Changed,
     Schema!Applied, Schema!Pending
<1>7. Schema!WorkersInv'
  BY <1>1 DEF Schema!SchemaInv, Schema!WorkersInv, Schema!CloseIsHonest
<1> QED BY <1>2, <1>3, <1>5, <1>6, <1>7 DEF Schema!SchemaInv

LEMMA DoneHolds ==
    ASSUME Schema!MigrationsAssumption, Schema!TypeOK, Schema!SchemaInv, Schema!MigrationDone
    PROVE  Schema!TypeOK' /\ Schema!SchemaInv'
<1> USE DEF Schema!MigrationDone, Schema!Process, Schema!Runtime
<1>1. build \in Builds /\ Schema!Pending # {}
  BY DEF Schema!SchemaInv, Schema!ConnectInv, Schema!UnitInv
<1>2. PICK k \in 0 .. LastVersion : /\ Schema!Applied(record) = 1 .. k /\ Schema!Next1 = k + 1
                                    /\ k + 1 \in 1 .. LastVersion /\ k + 1 <= build.known
  BY <1>1, NextFollows DEF Schema!SchemaInv
<1>3. record' = [record EXCEPT ![k + 1] = build.sum] /\ schema' = schema \union Creates[k + 1]
  BY <1>2 DEF Schema!SchemaInv, Schema!UnitInv
<1>4. /\ record' \in [1 .. LastVersion -> Schema!Checksums]
      /\ \A v \in 1 .. LastVersion : record'[v] = IF v = k + 1 THEN build.sum ELSE record[v]
  BY <1>1, <1>2, <1>3, BuildTypes DEF Schema!TypeOK
<1>5. Schema!Applied(record') = 1 .. (k + 1)
  <2>1. k \in Nat /\ LastVersion \in Nat
    BY <1>1, BuildTypes
  <2>2. \A v \in 1 .. LastVersion : record[v] # None <=> v \in 1 .. k
    BY <1>2 DEF Schema!Applied
  <2>3. \A v \in 1 .. LastVersion : record'[v] # None <=> v \in 1 .. (k + 1)
    BY <1>1, <1>2, <1>4, <2>1, <2>2, BuildTypes
  <2>4. \A v \in 1 .. (k + 1) : v \in 1 .. LastVersion
    BY <1>2, <2>1
  <2> QED BY <2>3, <2>4 DEF Schema!Applied
<1>6. Schema!SchemaIsRecorded'
  <2>1. schema = UNION {Creates[v] : v \in 1 .. k}
    BY <1>2 DEF Schema!SchemaInv, Schema!SchemaIsRecorded
  <2>2. \A v : v \in 1 .. (k + 1) <=> v \in 1 .. k \/ v = k + 1
    BY <1>2
  <2>3. schema' = UNION {Creates[v] : v \in 1 .. (k + 1)}
    BY <1>3, <2>1, <2>2
  <2>4. k + 1 \in 0 .. LastVersion
    BY <1>2
  <2> QED BY <1>5, <2>3, <2>4 DEF Schema!SchemaIsRecorded
<1>7. Schema!TypeOK'
  <2>1. Creates[k + 1] \subseteq Schema!Objects
    BY <1>2 DEF Schema!Objects
  <2> QED BY <1>3, <1>4, <2>1 DEF Schema!TypeOK
<1>8. Schema!UnitInv'
  BY DEF Schema!UnitInv
<1>9. Schema!ConnectInv'
  <2>1. \A v \in 1 .. LastVersion : record[v] # None => v <= build.known /\ record[v] = build.sum
    <3> SUFFICES ASSUME NEW v \in 1 .. LastVersion, record[v] # None
                 PROVE  v <= build.known /\ record[v] = build.sum
      OBVIOUS
    <3>1. v \notin Schema!Unknown /\ v \notin Schema!Changed
      BY DEF Schema!SchemaInv, Schema!ConnectInv
    <3>2. v \in Schema!Applied(record)
      BY DEF Schema!Applied
    <3> QED BY <1>1, <3>1, <3>2, BuildTypes DEF Schema!Unknown, Schema!Changed
  <2>2. \A v \in 1 .. LastVersion : record'[v] # None => v <= build.known /\ record'[v] = build.sum
    BY <1>2, <1>4, <2>1
  <2>3. (Schema!Unknown \union Schema!Changed)' = {}
    BY <1>1, <2>2, BuildTypes DEF Schema!Unknown, Schema!Changed, Schema!Applied
  <2> QED BY <2>3 DEF Schema!SchemaInv, Schema!ConnectInv, Schema!SnapshotIsKept
<1>10. Schema!WorkersInv'
  BY DEF Schema!SchemaInv, Schema!WorkersInv, Schema!CloseIsHonest
<1> QED BY <1>6, <1>7, <1>8, <1>9, <1>10 DEF Schema!SchemaInv

LEMMA OpenedHolds ==
    ASSUME Schema!MigrationsAssumption, Schema!TypeOK, Schema!SchemaInv, Schema!Opened
    PROVE  Schema!TypeOK' /\ Schema!SchemaInv'
<1> USE DEF Schema!Opened, Schema!Process, Schema!File
<1>1. Schema!TypeOK'
  BY DEF Schema!TypeOK
<1>2. Schema!SchemaIsRecorded'
  BY DEF Schema!SchemaInv, Schema!SchemaIsRecorded, Schema!Applied
<1>3. Schema!UnitInv'
  BY DEF Schema!UnitInv
<1>4. Schema!ConnectInv'
  BY DEF Schema!SchemaInv, Schema!ConnectInv, Schema!SnapshotIsKept, Schema!Unknown, Schema!Changed,
     Schema!Applied, Schema!Pending
<1>5. Schema!WorkersInv'
  BY DEF Schema!SchemaInv, Schema!WorkersInv, Schema!CloseIsHonest
<1> QED BY <1>1, <1>2, <1>3, <1>4, <1>5 DEF Schema!SchemaInv

(* The workers, the changes they save, and close().                         *)
LEMMA ServiceHolds ==
    ASSUME Schema!MigrationsAssumption, Schema!TypeOK, Schema!SchemaInv,
           \/ Schema!Change \/ Schema!FlushLoop \/ Schema!Flushed \/ Schema!MaintenanceLoop
           \/ Schema!Close \/ Schema!StopTimedOut \/ Schema!WorkersStopped
    PROVE  Schema!TypeOK' /\ Schema!SchemaInv'
<1> USE DEF Schema!Process, Schema!File, Schema!Runtime
<1>1. UNCHANGED <<record, schema, build, unit, snapshots, found, starts>> /\ lost' = lost
  BY DEF Schema!Change, Schema!FlushLoop, Schema!Flushed, Schema!MaintenanceLoop,
     Schema!Close, Schema!StopTimedOut, Schema!WorkersStopped
<1>2. faults' \in 0 .. MaxFaults
  BY SchemaFault DEF Schema!Change, Schema!FlushLoop, Schema!Flushed, Schema!MaintenanceLoop,
     Schema!Close, Schema!StopTimedOut, Schema!WorkersStopped
<1>3. workers' \subseteq workers /\ dirty' \in BOOLEAN /\ saving' \in BOOLEAN /\ (saving' => "flush" \in workers')
  <2>1. saving \in BOOLEAN /\ dirty \in BOOLEAN /\ (saving => "flush" \in workers)
    BY Zenon DEF Schema!TypeOK, Schema!SchemaInv, Schema!WorkersInv
  <2>2. CASE Schema!Change \/ Schema!FlushLoop
    <3>1. (saving' = saving /\ dirty' = TRUE /\ workers' = workers) \/ (saving' = TRUE /\ dirty' = dirty /\ workers' = workers /\ "flush" \in workers)
      BY <2>2 DEF Schema!Change, Schema!FlushLoop
    <3>2. CASE saving' = saving /\ dirty' = TRUE /\ workers' = workers
      BY <2>1, <3>2, Zenon
    <3>3. CASE saving' = TRUE /\ dirty' = dirty /\ workers' = workers /\ "flush" \in workers
      BY <2>1, <3>3, Zenon
    <3> QED BY <3>1, <3>2, <3>3
  <2>3. CASE Schema!Flushed
    BY <2>1, <2>3 DEF Schema!Flushed
  <2>4. CASE Schema!MaintenanceLoop
    BY <2>1, <2>4 DEF Schema!MaintenanceLoop
  <2>5. CASE Schema!Close \/ Schema!WorkersStopped
    <3>1. saving' = saving /\ dirty' = dirty /\ workers' = workers
      BY <2>5 DEF Schema!Close, Schema!WorkersStopped
    <3> QED BY <2>1, <3>1, Zenon
  <2>6. CASE Schema!StopTimedOut
    BY <2>1, <2>6, Zenon DEF Schema!StopTimedOut
  <2> QED BY <2>2, <2>3, <2>4, <2>5, <2>6
<1>4. \/ pc' = pc \/ (pc = "open" /\ pc' = "stopping")
      \/ (pc = "stopping" /\ pc' = "closing" /\ workers' = {})
  BY DEF Schema!Change, Schema!FlushLoop, Schema!Flushed, Schema!MaintenanceLoop,
     Schema!Close, Schema!StopTimedOut, Schema!WorkersStopped
<1>5. Schema!TypeOK'
  BY <1>1, <1>2, <1>3, <1>4 DEF Schema!TypeOK
<1>6. Schema!WorkersInv'
  <2>1. pc' \notin {"open", "stopping"} => workers' = {}
    BY <1>3, <1>4 DEF Schema!SchemaInv, Schema!WorkersInv
  <2>2. lost' = FALSE
    BY <1>1 DEF Schema!SchemaInv, Schema!WorkersInv, Schema!CloseIsHonest, Schema!TypeOK
  <2> QED BY <1>3, <2>1, <2>2 DEF Schema!WorkersInv, Schema!CloseIsHonest
<1>7. CASE pc' = pc
  BY <1>1, <1>5, <1>6, <1>7, SchemaStays
<1>8. CASE pc \in {"open", "stopping"} /\ pc' \in {"stopping", "closing"}
  <2>1. Schema!SchemaIsRecorded'
    BY <1>1 DEF Schema!SchemaInv, Schema!SchemaIsRecorded, Schema!Applied
  <2>2. Schema!UnitInv'
    BY <1>1, <1>8 DEF Schema!SchemaInv, Schema!UnitInv
  <2>3. Schema!ConnectInv'
    BY <1>1, <1>8 DEF Schema!SchemaInv, Schema!ConnectInv, Schema!SnapshotIsKept, Schema!Unknown,
       Schema!Changed, Schema!Applied, Schema!Pending
  <2> QED BY <1>5, <1>6, <2>1, <2>2, <2>3 DEF Schema!SchemaInv
<1> QED BY <1>4, <1>7, <1>8

(* For any builds, catalogs, starts and faults: the file holds what its     *)
(* records say, the runtime works only on a schema that its build has       *)
(* recorded, a snapshot of what a start found is kept while the schema      *)
(* changes, and close() says what was not saved.  (database/manager.py)     *)
THEOREM SchemaIsAlwaysRecorded ==
    ASSUME Schema!MigrationsAssumption
    PROVE  Schema!Spec => [](/\ Schema!SchemaIsRecorded /\ Schema!ServesItsSchema
                             /\ Schema!SnapshotIsKept /\ Schema!CloseIsHonest)
<1> DEFINE Inv == Schema!TypeOK /\ Schema!SchemaInv
<1>1. Schema!Init => Inv
  <2> SUFFICES ASSUME Schema!Init PROVE Inv
    OBVIOUS
  <2>1. PICK k \in 0 .. LastVersion :
            /\ record = [v \in 1 .. LastVersion |-> IF v <= k THEN "" ELSE None]
            /\ schema = UNION {Creates[v] : v \in 1 .. k}
    BY DEF Schema!Init
  <2>2. /\ record \in [1 .. LastVersion -> Schema!Checksums]
        /\ \A v \in 1 .. LastVersion : record[v] # None <=> v <= k
    BY <2>1, SchemaBuilds DEF Schema!Checksums
  <2>3. k \in Nat /\ LastVersion \in Nat /\ k <= LastVersion /\ 0 \in 0 .. MaxStarts /\ 0 \in 0 .. MaxFaults
    BY SchemaNumbers
  <2>4. Schema!Applied(record) = 1 .. k
    BY <2>2, <2>3 DEF Schema!Applied
  <2>5. schema \subseteq Schema!Objects
    <3>1. 1 .. k \subseteq 1 .. LastVersion
      BY <2>3
    <3> QED BY <2>1, <3>1 DEF Schema!Objects
  <2>6. Schema!TypeOK
    <3>1. snapshots = <<>> /\ found = {} /\ workers = {} /\ starts = 0 /\ faults = 0 /\ build = None /\ pc = "off"
      BY DEF Schema!Init
    <3>2. {saving, dirty, lost} \subseteq BOOLEAN
      BY Zenon DEF Schema!Init
    <3>3. snapshots \in Seq(SUBSET Schema!Objects)
      BY <3>1
    <3>4. starts \in 0 .. MaxStarts /\ faults \in 0 .. MaxFaults
      BY <2>3, <3>1
    <3>5. pc \in {"off", "init", "check", "snapshot", "migrate", "open", "stopping", "closing"}
      BY <3>1
    <3>6. found \subseteq Schema!Objects /\ workers \subseteq Schema!Workers /\ build \in Builds \union {None}
      BY <3>1
    <3> QED BY <2>2, <2>5, <3>2, <3>3, <3>4, <3>5, <3>6, Zenon DEF Schema!TypeOK
  <2>7. Schema!SchemaIsRecorded
    BY <2>1, <2>4 DEF Schema!SchemaIsRecorded
  <2>8. Schema!UnitInv /\ Schema!ConnectInv /\ Schema!WorkersInv
    BY DEF Schema!Init, Schema!UnitInv, Schema!ConnectInv, Schema!SnapshotIsKept, Schema!WorkersInv,
       Schema!CloseIsHonest
  <2> QED BY <2>6, <2>7, <2>8 DEF Schema!SchemaInv
<1>2. Inv /\ [Schema!Next]_(Schema!vars) => Inv'
  <2> SUFFICES ASSUME Inv, [Schema!Next]_(Schema!vars) PROVE Inv'
    OBVIOUS
  <2>1. CASE UNCHANGED Schema!vars
    <3>1. Schema!TypeOK'
      BY <2>1 DEF Schema!vars, Schema!TypeOK
    <3>2. Schema!WorkersInv'
      BY <2>1 DEF Schema!vars, Schema!SchemaInv, Schema!WorkersInv, Schema!CloseIsHonest
    <3>3. Schema!SchemaInv'
      BY <2>1, <3>2, SchemaStays DEF Schema!vars
    <3> QED BY <3>1, <3>3
  <2> QED BY <2>1, ConnectHolds, BootstrapHolds, CheckHolds, BackupHolds, RunHolds, DoneHolds,
       ClosesHold, OpenedHolds, ServiceHolds DEF Schema!Next
<1>3. Inv => /\ Schema!SchemaIsRecorded /\ Schema!ServesItsSchema
             /\ Schema!SnapshotIsKept /\ Schema!CloseIsHonest
  <2> SUFFICES ASSUME Inv PROVE Schema!ServesItsSchema
    BY DEF Schema!SchemaInv, Schema!ConnectInv, Schema!WorkersInv
  <2> SUFFICES ASSUME pc \in {"open", "stopping", "closing"}, NEW v \in 1 .. LastVersion
               PROVE  record[v] = IF v <= build.known THEN build.sum ELSE None
    BY DEF Schema!ServesItsSchema
  <2>1. Schema!Unknown \union Schema!Changed = {} /\ Schema!Pending = {} /\ build \in Builds
    BY DEF Schema!SchemaInv, Schema!ConnectInv
  <2>2. build.known \in 0 .. LastVersion /\ v \in Nat /\ build.known \in Nat /\ 1 <= v
    BY <2>1, BuildTypes
  <2>3. CASE v <= build.known
    <3>1. v \notin Schema!Pending /\ v \in 1 .. build.known
      BY <2>1, <2>2, <2>3
    <3>2. record[v] # None
      BY <3>1 DEF Schema!Pending
    <3> QED BY <2>1, <2>3, <3>2 DEF Schema!Changed, Schema!Applied
  <2>4. CASE ~(v <= build.known)
    BY <2>1, <2>2, <2>4 DEF Schema!Unknown, Schema!Applied
  <2> QED BY <2>3, <2>4
<1> QED BY <1>1, <1>2, <1>3, PTL DEF Schema!Spec

-----------------------------------------------------------------------------
(* Backups and restores (Backups).                                          *)

LEMMA BackupNumbers ==
    ASSUME Backup!BackupsAssumption
    PROVE  /\ Keep \in Nat \ {0} /\ MaxWrites \in Nat /\ MaxArchives \in Nat /\ MaxFaults \in Nat
           /\ \A w \in 0 .. MaxWrites : w # None
  BY Zenon DEF Backup!BackupsAssumption

LEMMA SameCardinality == ASSUME NEW S PROVE Backup!Cardinality(S) = Cardinality(S)
  BY DEF Backup!Cardinality, Cardinality

(* Numbers are given in order, so no more archives are newer than were made since. *)
LEMMA PrunedAreOld ==
    ASSUME Backup!BackupsAssumption, Backup!TypeOK, Backup!ArchivesInv, NEW x \in Backup!Pruned(Keep)
    PROVE  made - x.no >= Keep
<1>1. x \in archives /\ Cardinality(Backup!Newer(x.no)) >= Keep
  BY SameCardinality DEF Backup!Pruned
<1>2. made \in Nat /\ x.no \in Nat /\ x.no <= made /\ Keep \in Nat
  <2>1. made \in 0 .. MaxArchives /\ archives \subseteq Backup!Managed
    BY Zenon DEF Backup!TypeOK
  <2>2. x.no \in 1 .. MaxArchives
    BY <1>1, <2>1, Zenon DEF Backup!Managed
  <2> QED BY <1>1, <2>1, <2>2, BackupNumbers DEF Backup!ArchivesInv
<1> DEFINE S == Backup!Newer(x.no)
           T == (x.no + 1) .. made
           f == [y \in S |-> y.no]
<1>3. IsFiniteSet(T) /\ Cardinality(T) = made - x.no
  <2>1. x.no + 1 \in Int /\ made \in Int
    BY <1>2
  <2>2. /\ IsFiniteSet((x.no + 1) .. made)
        /\ Cardinality((x.no + 1) .. made) = IF x.no + 1 > made THEN 0 ELSE made - (x.no + 1) + 1
    BY <2>1, FS_Interval
  <2> QED BY <1>2, <2>2
<1>4. f \in Injection(S, T)
  <2>1. \A y \in S : y.no \in T
    <3> SUFFICES ASSUME NEW y \in S PROVE y.no \in T
      OBVIOUS
    <3>1. y \in archives /\ y.no > x.no /\ y.no <= made
      BY DEF Backup!Newer, Backup!ArchivesInv
    <3>2. y.no \in Nat
      <4>1. archives \subseteq Backup!Managed
        BY Zenon DEF Backup!TypeOK
      <4>2. y.no \in 1 .. MaxArchives
        BY <3>1, <4>1, Zenon DEF Backup!Managed
      <4> QED BY <4>2
    <3> QED BY <1>2, <3>1, <3>2
  <2>2. \A y, z \in S : y.no = z.no => y = z
    BY DEF Backup!Newer, Backup!ArchivesInv
  <2>3. f \in [S -> T]
    BY <2>1
  <2> QED BY <2>2, <2>3 DEF Injection, IsInjective
<1>5. Cardinality(S) <= Cardinality(T)
  BY <1>3, <1>4, FS_Injection
<1>6. Cardinality(S) \in Nat
  BY <1>3, <1>4, FS_Injection, FS_CardinalityType
<1> QED BY <1>1, <1>2, <1>3, <1>5, <1>6
LEMMA BackupTypes ==
    ASSUME Backup!BackupsAssumption, Backup!TypeOK
    PROVE  /\ made \in 0 .. MaxArchives /\ faults \in 0 .. MaxFaults /\ writes \in 0 .. MaxWrites
           /\ ram \in 0 .. MaxWrites /\ made \in Nat /\ Keep \in Nat
           /\ archives \subseteq Backup!Managed /\ task \in [Backup!Actors -> Backup!Tasks]
           /\ live \in [Backup!Files -> Backup!Contents] /\ orphans \subseteq [db : Backup!Contents]
           /\ cut \subseteq 1 .. MaxArchives /\ asked \subseteq 1 .. MaxArchives
<1>1. /\ made \in 0 .. MaxArchives /\ faults \in 0 .. MaxFaults /\ writes \in 0 .. MaxWrites
      /\ ram \in 0 .. MaxWrites
  BY Zenon DEF Backup!TypeOK
<1>2. archives \subseteq Backup!Managed /\ task \in [Backup!Actors -> Backup!Tasks]
      /\ live \in [Backup!Files -> Backup!Contents] /\ orphans \subseteq [db : Backup!Contents]
  BY Zenon DEF Backup!TypeOK
<1>3. cut \union asked \subseteq 1 .. MaxArchives
  BY Zenon DEF Backup!TypeOK
<1> QED BY <1>1, <1>2, <1>3, BackupNumbers

LEMMA BackupFault ==
    ASSUME Backup!BackupsAssumption, Backup!TypeOK, Backup!Fault \/ faults' = faults
    PROVE  faults' \in 0 .. MaxFaults
  BY BackupTypes, BackupNumbers DEF Backup!Fault

(* What an actor with the same record may rely on: nobody removes its       *)
(* safety archive or touches the files that it publishes.                   *)
Beside(b) ==
    /\ made' \in Nat /\ made' >= made /\ asked \subseteq asked'
    /\ \A x \in archives' : x \in archives \/ x.no = made + 1
    /\ \A x \in archives : x \in archives' \/ ~x.safety \/ x.no \in asked' \/ made - x.no >= Keep
    /\ task[b].pc = "publish" => UNCHANGED <<phase, live, expected>>

LEMMA OthersHold ==
    ASSUME Backup!BackupsAssumption, Backup!TypeOK, Backup!BackupsInv, NEW b \in Backup!Actors, task'[b] = task[b], Beside(b)
    PROVE  Backup!WayInv(b)' /\ Backup!OwnInv(b)' /\ Backup!PublishInv(b)'
<1>1. Backup!WayInv(b) /\ Backup!OwnInv(b) /\ Backup!PublishInv(b)
  BY DEF Backup!BackupsInv
<1>2. Backup!WayInv(b)'
  BY <1>1 DEF Backup!WayInv
<1>3. Backup!PublishInv(b)'
  BY <1>1 DEF Backup!PublishInv, Beside
<1>4. made \in Nat /\ made' \in Nat /\ made' >= made /\ Keep \in Nat
  BY BackupTypes DEF Beside
<1>5. ASSUME NEW no \in 1 .. made, Backup!Kept(no) PROVE Backup!Kept(no)'
  <2>1. CASE \E x \in archives : x.no = no /\ x.safety /\ x.db # None
    <3>1. PICK x \in archives : x.no = no /\ x.safety /\ x.db # None
      BY <2>1
    <3>2. x \in archives' \/ no \in asked' \/ made - no >= Keep
      BY <3>1 DEF Beside
    <3>3. made - no >= Keep => made' - no >= Keep
      BY <1>4
    <3> QED BY <3>1, <3>2, <3>3 DEF Backup!Kept
  <2>2. CASE no \in asked
    BY <2>2 DEF Beside, Backup!Kept
  <2>3. CASE made - no >= Keep
    <3>1. made' - no >= Keep
      BY <1>4, <2>3
    <3> QED BY <3>1 DEF Backup!Kept
  <2> QED BY <1>5, <2>1, <2>2, <2>3 DEF Backup!Kept
<1> DEFINE no == task[b].no
<1>6. /\ task[b].pc \in {"test", "verify", "quiesce", "publish", "restart"} => no \in 1 .. made
      /\ task[b].pc = "test" => \A x \in archives : x.no = no => ~x.safety
      /\ task[b].pc \in {"verify", "quiesce", "publish", "restart"} => Backup!Kept(no)
  BY <1>1 DEF Backup!OwnInv
<1>7. task[b].pc \in {"test", "verify", "quiesce", "publish", "restart"} => no \in 1 .. made'
  BY <1>4, <1>6
<1>8. task[b].pc = "test" => \A x \in archives' : x.no = no => ~x.safety
  <2> SUFFICES ASSUME task[b].pc = "test", NEW x \in archives', x.no = no PROVE ~x.safety
    OBVIOUS
  <2>1. no \in 1 .. made
    BY <1>6
  <2>2. x.no # made + 1
    BY <1>4, <2>1
  <2> QED BY <1>6, <2>2 DEF Beside
<1>9. task[b].pc \in {"verify", "quiesce", "publish", "restart"} => Backup!Kept(no)'
  BY <1>5, <1>6
<1>10. Backup!OwnInv(b)'
  BY <1>7, <1>8, <1>9 DEF Backup!OwnInv
<1> QED BY <1>2, <1>3, <1>10

LEMMA NobodyMoves ==
    ASSUME Backup!BackupsAssumption, Backup!TypeOK, Backup!BackupsInv, task' = task, \A b \in Backup!Actors : Beside(b),
           Backup!ArchivesInv', Backup!RestoreIsWhole', live'["db"] # None
    PROVE  Backup!BackupsInv'
<1>1. \A b \in Backup!Actors : Backup!WayInv(b)' /\ Backup!OwnInv(b)' /\ Backup!PublishInv(b)'
  BY OthersHold
<1>2. Backup!AloneInv'
  BY DEF Backup!BackupsInv, Backup!AloneInv
<1> QED BY <1>1, <1>2 DEF Backup!BackupsInv

LEMMA OneMoves ==
    ASSUME Backup!BackupsAssumption, Backup!TypeOK, Backup!BackupsInv, NEW a \in Backup!Actors,
           \A b \in Backup!Actors \ {a} : task'[b] = task[b] /\ Beside(b),
           Backup!WayInv(a)', Backup!OwnInv(a)', Backup!PublishInv(a)',
           \/ task'[a].op # "restore" \/ task[a].op = "restore"
           \/ \A b \in Backup!Actors : task[b].op # "restore",
           Backup!ArchivesInv', Backup!RestoreIsWhole', live'["db"] # None
    PROVE  Backup!BackupsInv'
<1>1. \A b \in Backup!Actors : Backup!WayInv(b)' /\ Backup!OwnInv(b)' /\ Backup!PublishInv(b)'
  BY OthersHold
<1>2. Backup!AloneInv'
  BY DEF Backup!BackupsInv, Backup!AloneInv
<1> QED BY <1>1, <1>2 DEF Backup!BackupsInv

(* Nothing happens to the archives or to the files that are published.      *)
LEMMA NothingBeside ==
    ASSUME Backup!BackupsAssumption, Backup!TypeOK, Backup!BackupsInv, UNCHANGED <<archives, made, asked>>,
           cut \subseteq cut',
           \/ UNCHANGED <<phase, live, expected>>
           \/ \A b \in Backup!Actors : task[b].pc # "publish"
    PROVE  Backup!ArchivesInv' /\ \A b \in Backup!Actors : Beside(b)
<1>1. Backup!ArchivesInv'
  BY DEF Backup!BackupsInv, Backup!ArchivesInv
<1>2. made \in Nat
  BY BackupTypes
<1> QED BY <1>1, <1>2 DEF Beside

(* While the runtime is up, nobody publishes, and nothing is restored.      *)
LEMMA UpMeansAlone ==
    ASSUME Backup!BackupsInv, phase = "up"
    PROVE  expected = {} /\ \A b \in Backup!Actors : task[b].pc # "publish"
  BY DEF Backup!BackupsInv, Backup!RestoreIsWhole, Backup!PublishInv
LEMMA WriteHolds ==
    ASSUME Backup!BackupsAssumption, Backup!TypeOK, Backup!BackupsInv, Backup!Write
    PROVE  Backup!TypeOK' /\ Backup!BackupsInv'
<1>1. /\ phase = "up" /\ phase' = phase /\ expected' = expected /\ task' = task
      /\ UNCHANGED <<archives, made, asked, cut, unit, orphans, due, faults>>
      /\ writes < MaxWrites /\ writes' = writes + 1
  BY DEF Backup!Write
<1>2. writes' \in 0 .. MaxWrites
  BY <1>1, BackupTypes, BackupNumbers
<1>3. writes + 1 \in Backup!Contents
  BY <1>1, <1>2 DEF Backup!Contents
<1>4. ram' \in 0 .. MaxWrites
  BY <1>1, <1>2, BackupTypes DEF Backup!Write
<1>5. live' \in [Backup!Files -> Backup!Contents] /\ live'["db"] = live["db"]
  BY <1>3, BackupTypes DEF Backup!Write, Backup!Files
<1>6. Backup!TypeOK'
  BY <1>1, <1>2, <1>4, <1>5, Zenon DEF Backup!TypeOK
<1>7. Backup!ArchivesInv' /\ \A b \in Backup!Actors : Beside(b)
  BY <1>1, UpMeansAlone, NothingBeside
<1>8. Backup!RestoreIsWhole' /\ live'["db"] # None
  BY <1>1, <1>5, UpMeansAlone DEF Backup!RestoreIsWhole, Backup!BackupsInv
<1> QED BY <1>1, <1>6, <1>7, <1>8, NobodyMoves

LEMMA FlushHolds ==
    ASSUME Backup!BackupsAssumption, Backup!TypeOK, Backup!BackupsInv, Backup!Flush
    PROVE  Backup!TypeOK' /\ Backup!BackupsInv'
<1>1. /\ phase = "up" /\ phase' = phase /\ expected' = expected /\ task' = task
      /\ UNCHANGED <<archives, made, asked, cut, unit, orphans, due, faults, writes, ram>>
      /\ live' = [live EXCEPT !["db"] = ram]
  BY DEF Backup!Flush, Backup!Rest
<1>2. live' \in [Backup!Files -> Backup!Contents] /\ live'["db"] = ram
  BY <1>1, BackupTypes DEF Backup!Files, Backup!Contents
<1>3. Backup!TypeOK'
  BY <1>1, <1>2, Zenon DEF Backup!TypeOK
<1>4. Backup!ArchivesInv' /\ \A b \in Backup!Actors : Beside(b)
  BY <1>1, UpMeansAlone, NothingBeside
<1>5. Backup!RestoreIsWhole' /\ live'["db"] # None
  BY <1>1, <1>2, UpMeansAlone, BackupTypes, BackupNumbers DEF Backup!RestoreIsWhole
<1> QED BY <1>1, <1>3, <1>4, <1>5, NobodyMoves

LEMMA UnitHolds ==
    ASSUME Backup!BackupsAssumption, Backup!TypeOK, Backup!BackupsInv, Backup!Unit \/ Backup!Ages
    PROVE  Backup!TypeOK' /\ Backup!BackupsInv'
<1>1. /\ UNCHANGED <<phase, live, expected, task, archives, made, asked, cut, orphans, faults, writes, ram>>
  BY DEF Backup!Unit, Backup!Ages, Backup!Rest
<1>2. unit' \in BOOLEAN /\ due' \in BOOLEAN
  <2>1. unit \in BOOLEAN /\ due \in BOOLEAN
    BY Zenon DEF Backup!TypeOK
  <2>2. CASE Backup!Unit
    <3>1. unit' = ~unit
      BY <2>2, Zenon DEF Backup!Unit
    <3>2. due' = due
      BY <2>2 DEF Backup!Unit
    <3> QED BY <2>1, <3>1, <3>2, Zenon
  <2>3. CASE Backup!Ages
    <3>1. due' = TRUE
      BY <2>3, Zenon DEF Backup!Ages
    <3>2. unit' = unit
      BY <2>3 DEF Backup!Ages
    <3> QED BY <2>1, <3>1, <3>2, Zenon
  <2> QED BY <2>2, <2>3
<1>3. Backup!TypeOK'
  BY <1>1, <1>2, Zenon DEF Backup!TypeOK
<1>4. Backup!ArchivesInv' /\ \A b \in Backup!Actors : Beside(b)
  BY <1>1, NothingBeside
<1>5. Backup!RestoreIsWhole' /\ live'["db"] # None
  BY <1>1 DEF Backup!RestoreIsWhole, Backup!BackupsInv
<1> QED BY <1>1, <1>3, <1>4, <1>5, NobodyMoves

(* A new archive has a number of its own.                                   *)
LEMMA ArchiveAdded ==
    ASSUME Backup!BackupsAssumption, Backup!TypeOK, Backup!BackupsInv, NEW db \in Backup!Contents, NEW safety \in BOOLEAN,
           Backup!Archive(db, safety), asked' = asked, cut \subseteq cut', db # None \/ made + 1 \in cut'
    PROVE  /\ Backup!ArchivesInv' /\ archives' \subseteq Backup!Managed /\ made' \in 0 .. MaxArchives
           /\ made' = made + 1 /\ made + 1 \in 1 .. made' /\ made + 1 \in 1 .. MaxArchives
           /\ \A b \in Backup!Actors : (task[b].pc = "publish" => UNCHANGED <<phase, live, expected>>) => Beside(b)
           /\ \E x \in archives' : x.no = made + 1 /\ x.db = db /\ x.safety = safety
           /\ \A x \in archives' : x.no = made + 1 => x.safety = safety
<1>1. made < MaxArchives /\ made' = made + 1 /\ made \in 0 .. MaxArchives /\ made \in Nat /\ MaxArchives \in Nat
  BY BackupTypes, BackupNumbers DEF Backup!Archive
<1>2. made' \in 0 .. MaxArchives /\ made + 1 \in 1 .. made' /\ made + 1 \in 1 .. MaxArchives
  BY <1>1
<1> DEFINE n == [no |-> made + 1, db |-> db, config |-> live["config"], safety |-> safety]
<1>3. live["config"] \in Backup!Contents
  BY BackupTypes DEF Backup!Files
<1>4. n \in Backup!Managed
  BY <1>2, <1>3, Zenon DEF Backup!Managed
<1>5. n.no = made + 1 /\ n.db = db /\ n.safety = safety
  OBVIOUS
<1>6. archives' = archives \union {n}
  BY DEF Backup!Archive
<1> HIDE DEF n
<1>7. archives \subseteq Backup!Managed /\ archives' \subseteq Backup!Managed
  BY <1>4, <1>6, BackupTypes
<1>8. \A x \in archives : x.no \in Nat /\ x.no <= made
  <2> SUFFICES ASSUME NEW x \in archives PROVE x.no \in Nat /\ x.no <= made
    OBVIOUS
  <2>1. x.no \in 1 .. MaxArchives
    BY <1>7, Zenon DEF Backup!Managed
  <2> QED BY <1>1, <2>1 DEF Backup!BackupsInv, Backup!ArchivesInv
<1>9. \A x \in archives : x.no # made + 1
  BY <1>1, <1>8
<1>10. Backup!ArchivesInv'
  <2>1. \A x \in archives' : x.no <= made'
    BY <1>1, <1>5, <1>6, <1>8
  <2>2. \A x \in archives' : x.db = None => x.no \in cut'
    BY <1>5, <1>6 DEF Backup!BackupsInv, Backup!ArchivesInv
  <2>3. \A x, y \in archives' : x.no = y.no => x = y
    BY <1>5, <1>6, <1>9 DEF Backup!BackupsInv, Backup!ArchivesInv
  <2> QED BY <2>1, <2>2, <2>3 DEF Backup!ArchivesInv
<1>11. \A b \in Backup!Actors : (task[b].pc = "publish" => UNCHANGED <<phase, live, expected>>) => Beside(b)
  <2>1. made' \in Nat /\ made' >= made
    BY <1>1
  <2> QED BY <1>5, <1>6, <2>1 DEF Beside
<1> QED BY <1>1, <1>2, <1>5, <1>6, <1>7, <1>9, <1>10, <1>11

LEMMA OrphanHolds ==
    ASSUME Backup!BackupsAssumption, Backup!TypeOK, Backup!BackupsInv, Backup!OrphanBuilt
    PROVE  Backup!TypeOK' /\ Backup!BackupsInv'
<1>1. PICK o \in orphans : orphans' = orphans \ {o} /\ Backup!Archive(o.db, FALSE) /\ due' = FALSE
                           /\ cut' = cut \union {made + 1}
  BY DEF Backup!OrphanBuilt
<1>2. UNCHANGED <<phase, live, expected, task, asked, faults, writes, ram, unit>>
  BY DEF Backup!OrphanBuilt
<1>3. o.db \in Backup!Contents
  BY BackupTypes
<1>4. PICK db \in Backup!Contents : db = o.db
  BY <1>3
<1>5. Backup!Archive(db, FALSE)
  BY <1>1, <1>4
<1>6. /\ Backup!ArchivesInv' /\ archives' \subseteq Backup!Managed /\ made' \in 0 .. MaxArchives
      /\ \A b \in Backup!Actors : Beside(b)
      /\ made + 1 \in 1 .. MaxArchives
  BY <1>1, <1>2, <1>5, ArchiveAdded
<1>7. orphans' \subseteq [db : Backup!Contents] /\ cut' \union asked' \subseteq 1 .. MaxArchives
  BY <1>1, <1>2, <1>6, BackupTypes
<1>8. due' \in BOOLEAN
  BY <1>1, Zenon
<1>9. Backup!TypeOK'
  BY <1>2, <1>6, <1>7, <1>8, Zenon DEF Backup!TypeOK
<1>10. Backup!RestoreIsWhole' /\ live'["db"] # None
  BY <1>2 DEF Backup!RestoreIsWhole, Backup!BackupsInv
<1> QED BY <1>2, <1>6, <1>9, <1>10, NobodyMoves
LEMMA PruneHolds ==
    ASSUME Backup!BackupsAssumption, Backup!TypeOK, Backup!BackupsInv, NEW keep, Backup!BackupPrune(keep)
    PROVE  Backup!TypeOK' /\ Backup!BackupsInv'
<1>1. /\ UNCHANGED <<phase, live, expected, task, made, cut, orphans, due, faults, writes, ram, unit>>
      /\ archives' = archives \ Backup!Pruned(keep)
      /\ asked' = asked \union {x.no : x \in Backup!Pruned(keep)}
  BY DEF Backup!BackupPrune
<1>2. Backup!Pruned(keep) \subseteq archives
  BY DEF Backup!Pruned
<1>3. \A x \in archives : x.no \in 1 .. MaxArchives
  <2> SUFFICES ASSUME NEW x \in archives PROVE x.no \in 1 .. MaxArchives
    OBVIOUS
  <2>1. x \in Backup!Managed
    BY BackupTypes
  <2> QED BY <2>1, Zenon DEF Backup!Managed
<1>4. cut' \union asked' \subseteq 1 .. MaxArchives /\ archives' \subseteq Backup!Managed
  BY <1>1, <1>2, <1>3, BackupTypes
<1>5. Backup!TypeOK'
  BY <1>1, <1>4, Zenon DEF Backup!TypeOK
<1>6. Backup!ArchivesInv'
  BY <1>1 DEF Backup!BackupsInv, Backup!ArchivesInv
<1>7. \A b \in Backup!Actors : Beside(b)
  BY <1>1, BackupTypes DEF Beside
<1>8. Backup!RestoreIsWhole' /\ live'["db"] # None
  BY <1>1 DEF Backup!RestoreIsWhole, Backup!BackupsInv
<1> QED BY <1>1, <1>5, <1>6, <1>7, <1>8, NobodyMoves

LEMMA IdleTask ==
    ASSUME Backup!BackupsAssumption, Backup!TypeOK
    PROVE  /\ Backup!Idle \in Backup!Tasks /\ Backup!Idle.op = "idle" /\ Backup!Idle.pc = "end"
<1>1. None \in Backup!Contents
  BY DEF Backup!Contents
<1> QED BY <1>1 DEF Backup!Idle, Backup!Tasks

LEMMA IdleHolds ==
    ASSUME NEW a \in Backup!Actors, task'[a].op = "idle", task'[a].pc = "end"
    PROVE  Backup!WayInv(a)' /\ Backup!OwnInv(a)' /\ Backup!PublishInv(a)'
  BY DEF Backup!WayInv, Backup!OwnInv, Backup!PublishInv

(* The process ends, and another one starts.                                *)
LEMMA ProcessHolds ==
    ASSUME Backup!BackupsAssumption, Backup!TypeOK, Backup!BackupsInv, Backup!ProcessEnds
    PROVE  Backup!TypeOK' /\ Backup!BackupsInv'
<1>1. /\ phase' = "gone" /\ task' = [a \in Backup!Actors |-> Backup!Idle] /\ orphans' = {} /\ unit' = FALSE
      /\ UNCHANGED <<ram, live, archives, due, expected, writes, made, asked>>
  BY DEF Backup!ProcessEnds, Backup!Rest
<1>2. \A a \in Backup!Actors : task'[a] = Backup!Idle
  BY <1>1
<1>3. task' \in [Backup!Actors -> Backup!Tasks]
  BY <1>1, IdleTask
<1>4. cut \subseteq cut' /\ cut' \subseteq 1 .. MaxArchives /\ faults' \in 0 .. MaxFaults
  <2>1. CASE UNCHANGED <<faults, cut>>
    BY <2>1, BackupTypes
  <2>2. CASE Backup!Fault /\ cut' = cut \union {task[a].no : a \in {b \in Backup!Actors : Backup!Making(b, "test")}}
    <3>1. \A b \in Backup!Actors : Backup!Making(b, "test") => task[b].no \in 1 .. MaxArchives
      <4> SUFFICES ASSUME NEW b \in Backup!Actors, Backup!Making(b, "test") PROVE task[b].no \in 1 .. MaxArchives
        OBVIOUS
      <4>1. task[b].no \in 1 .. made
        BY DEF Backup!BackupsInv, Backup!OwnInv, Backup!Making
      <4> QED BY <4>1, BackupTypes, BackupNumbers
    <3> QED BY <2>2, <3>1, BackupTypes, BackupFault
  <2> QED BY <2>1, <2>2 DEF Backup!ProcessEnds
<1>5. unit' \in BOOLEAN /\ phase' \in {"up", "down", "gone"}
  BY <1>1, Zenon
<1>6. cut' \union asked' \subseteq 1 .. MaxArchives /\ orphans' \subseteq [db : Backup!Contents]
  BY <1>1, <1>4, BackupTypes
<1>7. Backup!TypeOK'
  BY <1>1, <1>3, <1>4, <1>5, <1>6, Zenon DEF Backup!TypeOK
<1>8. Backup!ArchivesInv'
  BY <1>1, <1>4 DEF Backup!BackupsInv, Backup!ArchivesInv
<1>9. \A a \in Backup!Actors : Backup!WayInv(a)' /\ Backup!OwnInv(a)' /\ Backup!PublishInv(a)'
  BY <1>2, IdleTask, IdleHolds
<1>10. Backup!AloneInv'
  BY <1>2, IdleTask DEF Backup!AloneInv
<1>11. Backup!RestoreIsWhole' /\ live'["db"] # None
  BY <1>1 DEF Backup!RestoreIsWhole, Backup!BackupsInv
<1> QED BY <1>7, <1>8, <1>9, <1>10, <1>11 DEF Backup!BackupsInv

LEMMA BootHolds ==
    ASSUME Backup!BackupsAssumption, Backup!TypeOK, Backup!BackupsInv, Backup!Boot
    PROVE  Backup!TypeOK' /\ Backup!BackupsInv'
<1>1. /\ phase = "gone" /\ phase' = "up" /\ live["db"] # None /\ ram' = live["db"] /\ expected' = {}
      /\ UNCHANGED <<live, unit, archives, task, orphans, due, cut, faults, writes, made, asked>>
  BY DEF Backup!Boot, Backup!Rest
<1>2. ram' \in 0 .. MaxWrites
  BY <1>1, BackupTypes DEF Backup!Files, Backup!Contents
<1>3. Backup!TypeOK'
  BY <1>1, <1>2, Zenon DEF Backup!TypeOK
<1>4. \A b \in Backup!Actors : task[b].pc # "publish"
  BY <1>1 DEF Backup!BackupsInv, Backup!PublishInv
<1>5. Backup!ArchivesInv' /\ \A b \in Backup!Actors : Beside(b)
  BY <1>1, <1>4, NothingBeside
<1>6. Backup!RestoreIsWhole' /\ live'["db"] # None
  BY <1>1 DEF Backup!RestoreIsWhole
<1> QED BY <1>1, <1>3, <1>5, <1>6, NobodyMoves

(* One actor goes on with another record.                                   *)
LEMMA TaskChanges ==
    ASSUME Backup!BackupsAssumption, Backup!TypeOK, NEW a \in Backup!Actors, NEW r \in Backup!Tasks, task' = [task EXCEPT ![a] = r]
    PROVE  /\ task' \in [Backup!Actors -> Backup!Tasks] /\ task'[a] = r
           /\ \A b \in Backup!Actors \ {a} : task'[b] = task[b]
  BY BackupTypes

LEMMA TaskGoes ==
    ASSUME Backup!BackupsAssumption, Backup!TypeOK, NEW a \in Backup!Actors,
           NEW to \in {"end", "check", "flush", "copying", "build", "test", "prune", "verify",
                       "quiesce", "publish", "restart"}, Backup!Goes(a, to)
    PROVE  /\ task' \in [Backup!Actors -> Backup!Tasks] /\ task'[a].pc = to /\ task'[a].op = task[a].op
           /\ task'[a].no = task[a].no /\ task'[a].db = task[a].db /\ task'[a].chosen = task[a].chosen
           /\ task'[a].before = task[a].before /\ task'[a].todo = task[a].todo
           /\ \A b \in Backup!Actors \ {a} : task'[b] = task[b]
  BY BackupTypes DEF Backup!Goes, Backup!Tasks

LEMMA TaskEnds ==
    ASSUME Backup!BackupsAssumption, Backup!TypeOK, NEW a \in Backup!Actors, Backup!Ends(a)
    PROVE  /\ task' \in [Backup!Actors -> Backup!Tasks] /\ task'[a].op = "idle" /\ task'[a].pc = "end"
           /\ \A b \in Backup!Actors \ {a} : task'[b] = task[b]
  BY BackupTypes, IdleTask DEF Backup!Ends
LEMMA StartsHold ==
    ASSUME Backup!BackupsAssumption, Backup!TypeOK, Backup!BackupsInv, NEW a \in Backup!Actors,
           NEW op \in {"create", "restore"}, NEW chosen \in Backup!Managed \union {None}, Backup!Starts(a, op, chosen),
           UNCHANGED <<phase, ram, live, unit, archives, orphans, due, expected, cut, faults>>, Backup!Rest,
           op = "restore" => /\ a \in Commands /\ chosen \in Backup!Managed
                             /\ \A b \in Backup!Actors : task[b].op # "restore"
    PROVE  Backup!TypeOK' /\ Backup!BackupsInv'
<1>1. UNCHANGED <<writes, made, asked>>
  BY DEF Backup!Rest
<1> DEFINE r == [Backup!Idle EXCEPT !.op = op, !.chosen = chosen,
                               !.pc = IF op = "create" THEN "flush" ELSE "check"]
<1>2. /\ r \in Backup!Tasks /\ r.op = op /\ r.chosen = chosen
      /\ r.pc = IF op = "create" THEN "flush" ELSE "check"
  <2>1. None \in Backup!Contents
    BY DEF Backup!Contents
  <2> QED BY <2>1 DEF Backup!Idle, Backup!Tasks
<1>3. task' = [task EXCEPT ![a] = r]
  BY DEF Backup!Starts
<1> HIDE DEF r
<1>4. /\ task' \in [Backup!Actors -> Backup!Tasks] /\ task'[a] = r
      /\ \A b \in Backup!Actors \ {a} : task'[b] = task[b]
  BY <1>2, <1>3, TaskChanges
<1>5. Backup!TypeOK'
  BY <1>1, <1>4, Zenon DEF Backup!TypeOK
<1>6. Backup!ArchivesInv' /\ \A b \in Backup!Actors : Beside(b)
  BY <1>1, NothingBeside
<1>7. Backup!WayInv(a)' /\ Backup!OwnInv(a)' /\ Backup!PublishInv(a)'
  <2>1. CASE op = "create"
    BY <1>2, <1>4, <2>1 DEF Backup!WayInv, Backup!OwnInv, Backup!PublishInv
  <2>2. CASE op = "restore"
    BY <1>2, <1>4, <2>2 DEF Backup!WayInv, Backup!OwnInv, Backup!PublishInv
  <2> QED BY <2>1, <2>2
<1>8. \/ task'[a].op # "restore" \/ task[a].op = "restore"
      \/ \A b \in Backup!Actors : task[b].op # "restore"
  BY <1>2, <1>4
<1>9. Backup!RestoreIsWhole' /\ live'["db"] # None
  BY DEF Backup!RestoreIsWhole, Backup!BackupsInv
<1> QED BY <1>4, <1>5, <1>6, <1>7, <1>8, <1>9, OneMoves

LEMMA CreateHolds ==
    ASSUME Backup!BackupsAssumption, Backup!TypeOK, Backup!BackupsInv,
           Backup!WorkerCreates \/ \E a \in Commands : Backup!BackupCreate(a) \/ Backup!BackupRestore(a)
    PROVE  Backup!TypeOK' /\ Backup!BackupsInv'
<1>1. CASE Backup!WorkerCreates
  <2>1. "worker" \in Backup!Actors
    BY DEF Backup!Actors
  <2>2. /\ Backup!Starts("worker", "create", None) /\ Backup!Rest
        /\ UNCHANGED <<phase, ram, live, unit, archives, orphans, due, expected, cut, faults>>
    BY <1>1 DEF Backup!WorkerCreates
  <2> QED BY <2>1, <2>2, StartsHold
<1>2. CASE \E a \in Commands : Backup!BackupCreate(a)
  <2>1. PICK a \in Commands : Backup!BackupCreate(a)
    BY <1>2
  <2>2. a \in Backup!Actors
    BY DEF Backup!Actors
  <2>3. /\ Backup!Starts(a, "create", None) /\ Backup!Rest
        /\ UNCHANGED <<phase, ram, live, unit, archives, orphans, due, expected, cut, faults>>
    BY <2>1 DEF Backup!BackupCreate
  <2> QED BY <2>2, <2>3, StartsHold
<1>3. CASE \E a \in Commands : Backup!BackupRestore(a)
  <2>1. PICK a \in Commands : Backup!BackupRestore(a)
    BY <1>3
  <2>2. a \in Backup!Actors
    BY DEF Backup!Actors
  <2>3. PICK x \in archives : Backup!Starts(a, "restore", x)
    BY <2>1 DEF Backup!BackupRestore
  <2>4. /\ Backup!Rest /\ \A b \in Backup!Actors : task[b].op # "restore"
        /\ UNCHANGED <<phase, ram, live, unit, archives, orphans, due, expected, cut, faults>>
    BY <2>1 DEF Backup!BackupRestore
  <2>5. x \in Backup!Managed
    BY BackupTypes
  <2> QED BY <2>2, <2>3, <2>4, <2>5, StartsHold
<1> QED BY <1>1, <1>2, <1>3

(* The database is stored before a snapshot of it is taken.                 *)
LEMMA FlushedHolds ==
    ASSUME Backup!BackupsAssumption, Backup!TypeOK, Backup!BackupsInv, NEW a \in Backup!Actors, Backup!Flushed(a)
    PROVE  Backup!TypeOK' /\ Backup!BackupsInv'
<1>1. /\ task[a].pc = "flush" /\ Backup!Goes(a, "copying")
      /\ live' = (IF phase = "up" THEN [live EXCEPT !["db"] = ram] ELSE live)
      /\ UNCHANGED <<phase, ram, unit, archives, orphans, due, expected, cut, faults, writes, made, asked>>
  BY DEF Backup!Flushed, Backup!Making, Backup!Rest
<1>2. /\ task' \in [Backup!Actors -> Backup!Tasks] /\ task'[a].pc = "copying" /\ task'[a].op = task[a].op
      /\ task'[a].chosen = task[a].chosen /\ \A b \in Backup!Actors \ {a} : task'[b] = task[b]
  BY <1>1, TaskGoes
<1>3. live' \in [Backup!Files -> Backup!Contents] /\ live'["db"] # None
  <2>1. CASE phase = "up"
    BY <1>1, <2>1, BackupTypes, BackupNumbers DEF Backup!Files, Backup!Contents
  <2>2. CASE phase # "up"
    BY <1>1, <2>2, BackupTypes DEF Backup!BackupsInv
  <2> QED BY <2>1, <2>2
<1>4. Backup!TypeOK'
  BY <1>1, <1>2, <1>3, Zenon DEF Backup!TypeOK
<1>5. \/ UNCHANGED <<phase, live, expected>>
      \/ \A b \in Backup!Actors : task[b].pc # "publish"
  BY <1>1, UpMeansAlone
<1>6. Backup!ArchivesInv' /\ \A b \in Backup!Actors : Beside(b)
  BY <1>1, <1>5, NothingBeside
<1>7. Backup!WayInv(a)' /\ Backup!OwnInv(a)' /\ Backup!PublishInv(a)'
  BY <1>1, <1>2 DEF Backup!BackupsInv, Backup!WayInv, Backup!OwnInv, Backup!PublishInv
<1>8. Backup!RestoreIsWhole'
  BY <1>1, UpMeansAlone DEF Backup!RestoreIsWhole, Backup!BackupsInv
<1> QED BY <1>2, <1>3, <1>4, <1>6, <1>7, <1>8, OneMoves

(* An actor's step that leaves everything but its own record alone.         *)
LEMMA OwnStepHolds ==
    ASSUME Backup!BackupsAssumption, Backup!TypeOK, Backup!BackupsInv, NEW a \in Backup!Actors,
           task' \in [Backup!Actors -> Backup!Tasks], \A b \in Backup!Actors \ {a} : task'[b] = task[b],
           UNCHANGED <<phase, ram, live, unit, archives, orphans, due, expected, cut, faults, writes, made, asked>>,
           task'[a].op # "restore" \/ task[a].op = "restore",
           Backup!WayInv(a)', Backup!OwnInv(a)', Backup!PublishInv(a)'
    PROVE  Backup!TypeOK' /\ Backup!BackupsInv'
<1>1. Backup!TypeOK'
  BY Zenon DEF Backup!TypeOK
<1>2. Backup!ArchivesInv' /\ \A b \in Backup!Actors : Beside(b)
  BY NothingBeside
<1>3. Backup!RestoreIsWhole' /\ live'["db"] # None
  BY DEF Backup!RestoreIsWhole, Backup!BackupsInv
<1> QED BY <1>1, <1>2, <1>3, OneMoves

LEMMA SnapshotHolds ==
    ASSUME Backup!BackupsAssumption, Backup!TypeOK, Backup!BackupsInv, NEW a \in Backup!Actors, Backup!Snapshot(a)
    PROVE  Backup!TypeOK' /\ Backup!BackupsInv'
<1>1. /\ task[a].pc = "copying" /\ task' = [task EXCEPT ![a] = [@ EXCEPT !.pc = "build", !.db = live["db"]]]
      /\ UNCHANGED <<phase, ram, live, unit, archives, orphans, due, expected, cut, faults, writes, made, asked>>
  BY DEF Backup!Snapshot, Backup!Making, Backup!Rest
<1> DEFINE r == [task[a] EXCEPT !.pc = "build", !.db = live["db"]]
<1>2. live["db"] \in Backup!Contents /\ live["db"] # None /\ task[a] \in Backup!Tasks
  BY BackupTypes DEF Backup!Files, Backup!BackupsInv
<1>3. r \in Backup!Tasks /\ r.pc = "build" /\ r.db = live["db"] /\ r.op = task[a].op /\ r.chosen = task[a].chosen
  BY <1>2 DEF Backup!Tasks
<1>4. task' = [task EXCEPT ![a] = r]
  BY <1>1
<1> HIDE DEF r
<1>5. /\ task' \in [Backup!Actors -> Backup!Tasks] /\ task'[a] = r
      /\ \A b \in Backup!Actors \ {a} : task'[b] = task[b]
  BY <1>3, <1>4, TaskChanges
<1>6. Backup!WayInv(a)' /\ Backup!OwnInv(a)' /\ Backup!PublishInv(a)'
  BY <1>1, <1>2, <1>3, <1>5 DEF Backup!BackupsInv, Backup!WayInv, Backup!OwnInv, Backup!PublishInv
<1> QED BY <1>1, <1>3, <1>5, <1>6, OwnStepHolds

LEMMA TestedHolds ==
    ASSUME Backup!BackupsAssumption, Backup!TypeOK, Backup!BackupsInv, NEW a \in Backup!Actors, Backup!Tested(a)
    PROVE  Backup!TypeOK' /\ Backup!BackupsInv'
<1>1. /\ task[a].pc = "test" /\ Backup!Goes(a, "prune")
      /\ UNCHANGED <<phase, ram, live, unit, archives, orphans, due, expected, cut, faults, writes, made, asked>>
  BY DEF Backup!Tested, Backup!Making, Backup!Rest
<1>2. /\ task' \in [Backup!Actors -> Backup!Tasks] /\ task'[a].pc = "prune" /\ task'[a].op = task[a].op
      /\ \A b \in Backup!Actors \ {a} : task'[b] = task[b]
  BY <1>1, TaskGoes
<1>3. Backup!WayInv(a)' /\ Backup!OwnInv(a)' /\ Backup!PublishInv(a)'
  BY <1>1, <1>2 DEF Backup!BackupsInv, Backup!WayInv, Backup!OwnInv, Backup!PublishInv
<1> QED BY <1>1, <1>2, <1>3, OwnStepHolds

LEMMA StagedHolds ==
    ASSUME Backup!BackupsAssumption, Backup!TypeOK, Backup!BackupsInv, NEW a \in Backup!Actors, Backup!Staged(a) \/ Backup!SafetyVerified(a)
    PROVE  Backup!TypeOK' /\ Backup!BackupsInv'
<1>1. /\ UNCHANGED <<phase, ram, live, unit, archives, orphans, due, expected, cut, faults, writes, made, asked>>
      /\ task[a].op = "restore"
  BY DEF Backup!Staged, Backup!SafetyVerified, Backup!At, Backup!Rest
<1>2. CASE Backup!Ends(a)
  <2>1. /\ task' \in [Backup!Actors -> Backup!Tasks] /\ task'[a].op = "idle" /\ task'[a].pc = "end"
        /\ \A b \in Backup!Actors \ {a} : task'[b] = task[b]
    BY <1>2, TaskEnds
  <2> QED BY <1>1, <2>1, IdleHolds, OwnStepHolds
<1>3. CASE Backup!Staged(a) /\ ~Backup!Ends(a)
  <2>1. task[a].pc = "check" /\ Backup!Goes(a, "flush") /\ task[a].chosen.db # None
    BY <1>3 DEF Backup!Staged, Backup!At, Backup!SmokePasses
  <2>2. /\ task' \in [Backup!Actors -> Backup!Tasks] /\ task'[a].pc = "flush" /\ task'[a].op = task[a].op
        /\ task'[a].chosen = task[a].chosen /\ \A b \in Backup!Actors \ {a} : task'[b] = task[b]
    BY <2>1, TaskGoes
  <2>3. Backup!WayInv(a)' /\ Backup!OwnInv(a)' /\ Backup!PublishInv(a)'
    BY <1>1, <2>1, <2>2 DEF Backup!BackupsInv, Backup!WayInv, Backup!OwnInv, Backup!PublishInv
  <2> QED BY <1>1, <2>2, <2>3, OwnStepHolds
<1>4. CASE Backup!SafetyVerified(a) /\ ~Backup!Ends(a)
  <2>1. task[a].pc = "verify" /\ Backup!Goes(a, "quiesce")
    BY <1>4 DEF Backup!SafetyVerified, Backup!At
  <2>2. /\ task' \in [Backup!Actors -> Backup!Tasks] /\ task'[a].pc = "quiesce" /\ task'[a].op = task[a].op
        /\ task'[a].no = task[a].no /\ task'[a].chosen = task[a].chosen
        /\ \A b \in Backup!Actors \ {a} : task'[b] = task[b]
    BY <2>1, TaskGoes
  <2>3. Backup!WayInv(a)' /\ Backup!PublishInv(a)'
    BY <1>1, <2>1, <2>2 DEF Backup!BackupsInv, Backup!WayInv, Backup!PublishInv
  <2>4. Backup!OwnInv(a)'
    BY <1>1, <2>1, <2>2 DEF Backup!BackupsInv, Backup!OwnInv, Backup!Kept
  <2> QED BY <1>1, <2>2, <2>3, <2>4, OwnStepHolds
<1> QED BY <1>2, <1>3, <1>4
LEMMA BuiltHolds ==
    ASSUME Backup!BackupsAssumption, Backup!TypeOK, Backup!BackupsInv, NEW a \in Backup!Actors, Backup!Built(a)
    PROVE  Backup!TypeOK' /\ Backup!BackupsInv'
<1>1. /\ task[a].pc = "build" /\ due' = FALSE /\ Backup!Archive(task[a].db, task[a].op = "restore")
      /\ UNCHANGED <<phase, ram, live, unit, orphans, expected, cut, asked, writes, faults>>
      /\ task' = [task EXCEPT ![a] = [@ EXCEPT !.no = made + 1, !.db = None,
                                        !.pc = IF task[a].op = "create" THEN "test" ELSE "verify"]]
  BY DEF Backup!Built, Backup!Making
<1>2. task[a] \in Backup!Tasks /\ task[a].db # None /\ Backup!WayInv(a)
  BY <1>1, BackupTypes DEF Backup!BackupsInv, Backup!WayInv
<1>3. task[a].db \in Backup!Contents /\ task[a].op \in {"create", "restore"}
  <2>1. task[a].db \in Backup!Contents /\ task[a].op \in {"idle", "create", "restore"}
    BY <1>2 DEF Backup!Tasks
  <2> QED BY <1>1, <1>2, <2>1 DEF Backup!WayInv
<1>4. PICK db \in Backup!Contents, safety \in BOOLEAN : db = task[a].db /\ safety = (task[a].op = "restore")
  <2>1. (task[a].op = "restore") \in BOOLEAN
    BY Zenon
  <2> QED BY <1>3, <2>1, Zenon
<1>5. Backup!Archive(db, safety)
  BY <1>1, <1>4
<1>6. /\ Backup!ArchivesInv' /\ archives' \subseteq Backup!Managed /\ made' \in 0 .. MaxArchives
      /\ made' = made + 1 /\ made + 1 \in 1 .. made' /\ made + 1 \in 1 .. MaxArchives
      /\ \A b \in Backup!Actors : (task[b].pc = "publish" => UNCHANGED <<phase, live, expected>>) => Beside(b)
      /\ \E x \in archives' : x.no = made + 1 /\ x.db = db /\ x.safety = safety
      /\ \A x \in archives' : x.no = made + 1 => x.safety = safety
  BY <1>1, <1>2, <1>4, <1>5, ArchiveAdded
<1> DEFINE r == [task[a] EXCEPT !.no = made + 1, !.db = None,
                                !.pc = IF task[a].op = "create" THEN "test" ELSE "verify"]
<1>7. /\ r \in Backup!Tasks /\ r.no = made + 1 /\ r.op = task[a].op /\ r.chosen = task[a].chosen
      /\ r.pc = IF task[a].op = "create" THEN "test" ELSE "verify"
  <2>1. None \in Backup!Contents
    BY DEF Backup!Contents
  <2> QED BY <1>2, <1>6, <2>1 DEF Backup!Tasks
<1>8. task' = [task EXCEPT ![a] = r]
  BY <1>1
<1> HIDE DEF r
<1>9. /\ task' \in [Backup!Actors -> Backup!Tasks] /\ task'[a] = r
      /\ \A b \in Backup!Actors \ {a} : task'[b] = task[b]
  BY <1>7, <1>8, TaskChanges
<1>10. due' \in BOOLEAN
  BY <1>1, Zenon
<1>11. Backup!TypeOK'
  BY <1>1, <1>6, <1>9, <1>10, Zenon DEF Backup!TypeOK
<1>12. \A b \in Backup!Actors : Beside(b)
  BY <1>1, <1>6
<1>13. Backup!WayInv(a)' /\ Backup!PublishInv(a)'
  <2>1. CASE task[a].op = "create"
    BY <1>7, <1>9, <2>1 DEF Backup!WayInv, Backup!PublishInv
  <2>2. CASE task[a].op = "restore"
    BY <1>1, <1>2, <1>7, <1>9, <2>2 DEF Backup!WayInv, Backup!PublishInv
  <2> QED BY <1>3, <2>1, <2>2
<1>14. Backup!OwnInv(a)'
  <2>1. CASE task[a].op = "create"
    <3>1. task'[a].pc = "test" /\ task'[a].no = made + 1 /\ safety = FALSE
      BY <1>4, <1>7, <1>9, <2>1
    <3> QED BY <1>6, <3>1 DEF Backup!OwnInv
  <2>2. CASE task[a].op = "restore"
    <3>1. task'[a].pc = "verify" /\ task'[a].no = made + 1 /\ safety = TRUE
      BY <1>4, <1>7, <1>9, <2>2
    <3>2. PICK no \in 1 .. made' : no = made + 1
      BY <1>6
    <3>3. \E x \in archives' : x.no = no /\ x.safety /\ x.db # None
      BY <1>2, <1>4, <1>6, <3>1, <3>2
    <3>4. Backup!Kept(no)'
      BY <3>3 DEF Backup!Kept
    <3> QED BY <3>1, <3>2, <3>4 DEF Backup!OwnInv
  <2> QED BY <1>3, <2>1, <2>2
<1>15. Backup!RestoreIsWhole' /\ live'["db"] # None
  BY <1>1 DEF Backup!RestoreIsWhole, Backup!BackupsInv
<1> QED BY <1>6, <1>7, <1>9, <1>11, <1>12, <1>13, <1>14, <1>15, OneMoves

(* Archives go: one that failed its test, or the ones that too many newer   *)
(* ones have displaced.                                                      *)
LEMMA RemovedHolds ==
    ASSUME Backup!BackupsAssumption, Backup!TypeOK, Backup!BackupsInv, NEW a \in Backup!Actors, Backup!Refused(a) \/ Backup!PruneOld(a)
    PROVE  Backup!TypeOK' /\ Backup!BackupsInv'
<1>1. /\ Backup!Ends(a) /\ archives' \subseteq archives
      /\ UNCHANGED <<phase, ram, live, unit, orphans, due, expected, cut, asked, writes, made>>
  BY DEF Backup!Refused, Backup!PruneOld, Backup!Rest
<1>2. faults' \in 0 .. MaxFaults
  BY BackupFault DEF Backup!Refused, Backup!PruneOld
<1>3. /\ task' \in [Backup!Actors -> Backup!Tasks] /\ task'[a].op = "idle" /\ task'[a].pc = "end"
      /\ \A b \in Backup!Actors \ {a} : task'[b] = task[b]
  BY <1>1, TaskEnds
<1>4. archives' \subseteq Backup!Managed
  BY <1>1, BackupTypes
<1>5. Backup!TypeOK'
  BY <1>1, <1>2, <1>3, <1>4, Zenon DEF Backup!TypeOK
<1>6. Backup!ArchivesInv'
  BY <1>1 DEF Backup!BackupsInv, Backup!ArchivesInv
<1>7. \A x \in archives : x \in archives' \/ ~x.safety \/ made - x.no >= Keep
  <2>1. CASE Backup!Refused(a)
    <3>1. task[a].pc = "test" /\ archives' = {x \in archives : x.no # task[a].no}
      BY <2>1 DEF Backup!Refused, Backup!Making
    <3> QED BY <3>1 DEF Backup!BackupsInv, Backup!OwnInv
  <2>2. CASE Backup!PruneOld(a)
    <3>1. archives' = archives \ Backup!Pruned(Keep)
      BY <2>2 DEF Backup!PruneOld
    <3> QED BY <3>1, PrunedAreOld DEF Backup!BackupsInv
  <2> QED BY <2>1, <2>2
<1>8. \A b \in Backup!Actors : Beside(b)
  BY <1>1, <1>7, BackupTypes DEF Beside
<1>9. Backup!WayInv(a)' /\ Backup!OwnInv(a)' /\ Backup!PublishInv(a)'
  BY <1>3, IdleHolds
<1>10. Backup!RestoreIsWhole' /\ live'["db"] # None
  BY <1>1 DEF Backup!RestoreIsWhole, Backup!BackupsInv
<1> QED BY <1>3, <1>5, <1>6, <1>8, <1>9, <1>10, OneMoves

LEMMA InterruptedHolds ==
    ASSUME Backup!BackupsAssumption, Backup!TypeOK, Backup!BackupsInv, NEW a \in Backup!Actors, Backup!Interrupted(a)
    PROVE  Backup!TypeOK' /\ Backup!BackupsInv'
<1>1. /\ Backup!Ends(a) /\ Backup!Fault
      /\ UNCHANGED <<phase, ram, live, unit, archives, due, expected, asked, writes, made>>
  BY DEF Backup!Interrupted, Backup!Rest
<1>2. /\ task' \in [Backup!Actors -> Backup!Tasks] /\ task'[a].op = "idle" /\ task'[a].pc = "end"
      /\ \A b \in Backup!Actors \ {a} : task'[b] = task[b]
  BY <1>1, TaskEnds
<1>3. faults' \in 0 .. MaxFaults
  BY <1>1, BackupFault
<1>4. /\ cut \subseteq cut' /\ cut' \subseteq 1 .. MaxArchives /\ orphans' \subseteq [db : Backup!Contents]
  <2>1. CASE UNCHANGED <<orphans, cut>>
    BY <2>1, BackupTypes
  <2>2. CASE /\ task[a].pc = "build" /\ cut' = cut
             /\ \E db \in {task[a].db, None} : orphans' = orphans \union {[db |-> db]}
    <3>1. task[a] \in Backup!Tasks
      BY BackupTypes
    <3>2. task[a].db \in Backup!Contents /\ None \in Backup!Contents
      BY <3>1 DEF Backup!Tasks, Backup!Contents
    <3> QED BY <2>2, <3>2, BackupTypes
  <2>3. CASE task[a].pc = "test" /\ cut' = cut \union {task[a].no} /\ UNCHANGED orphans
    <3>1. task[a].no \in 1 .. made
      BY <2>3 DEF Backup!BackupsInv, Backup!OwnInv
    <3> QED BY <2>3, <3>1, BackupTypes, BackupNumbers
  <2> QED BY <2>1, <2>2, <2>3 DEF Backup!Interrupted
<1>5. cut' \union asked' \subseteq 1 .. MaxArchives
  BY <1>1, <1>4, BackupTypes
<1>6. Backup!TypeOK'
  BY <1>1, <1>2, <1>3, <1>4, <1>5, Zenon DEF Backup!TypeOK
<1>7. Backup!ArchivesInv' /\ \A b \in Backup!Actors : Beside(b)
  BY <1>1, <1>4, NothingBeside
<1>8. Backup!WayInv(a)' /\ Backup!OwnInv(a)' /\ Backup!PublishInv(a)'
  BY <1>2, IdleHolds
<1>9. Backup!RestoreIsWhole' /\ live'["db"] # None
  BY <1>1 DEF Backup!RestoreIsWhole, Backup!BackupsInv
<1> QED BY <1>2, <1>6, <1>7, <1>8, <1>9, OneMoves
(* The runtime is stopped: whoever restores is alone with the files.        *)
LEMMA QuiesceHolds ==
    ASSUME Backup!BackupsAssumption, Backup!TypeOK, Backup!BackupsInv, NEW a \in Commands, Backup!Quiesce(a)
    PROVE  Backup!TypeOK' /\ Backup!BackupsInv'
<1> DEFINE stored == [live EXCEPT !["db"] = ram]
<1>1. /\ phase = "up" /\ phase' = "down" /\ task[a].op = "restore" /\ task[a].pc = "quiesce"
      /\ UNCHANGED <<ram, unit, archives, due, expected, writes, made, asked>>
  BY DEF Backup!Quiesce, Backup!Quiesced, Backup!At, Backup!Rest
<1>2. a \in Backup!Actors /\ "worker" \in Backup!Actors /\ a # "worker"
  BY Zenon DEF Backup!Actors, Backup!BackupsAssumption
<1>3. /\ stored \in [Backup!Files -> Backup!Contents] /\ stored["db"] # None
      /\ live \in [Backup!Files -> Backup!Contents] /\ live["db"] # None
  BY BackupTypes, BackupNumbers DEF Backup!Files, Backup!Contents, Backup!BackupsInv
<1>4. task[a] \in Backup!Tasks /\ task \in [Backup!Actors -> Backup!Tasks] /\ Backup!WayInv(a) /\ Backup!OwnInv(a)
  BY <1>2, BackupTypes DEF Backup!BackupsInv
<1>5. expected = {} /\ \A b \in Backup!Actors : task[b].pc # "publish"
  BY <1>1, UpMeansAlone
<1>6. /\ cut \subseteq cut' /\ cut' \union asked' \subseteq 1 .. MaxArchives
      /\ orphans' \subseteq [db : Backup!Contents]
  <2>1. task["worker"].pc = "test" => task["worker"].no \in 1 .. made
    BY <1>2 DEF Backup!BackupsInv, Backup!OwnInv
  <2>2. cut' = IF task["worker"].pc = "test" THEN cut \union {task["worker"].no} ELSE cut
    BY DEF Backup!Quiesce
  <2>3. orphans' = orphans \/ orphans' = orphans \union {[db |-> None]}
    BY DEF Backup!Quiesce
  <2>4. None \in Backup!Contents
    BY DEF Backup!Contents
  <2> QED BY <1>1, <2>1, <2>2, <2>3, <2>4, BackupTypes, BackupNumbers
<1>7. \E r \in Backup!Tasks :
        /\ task' = [task EXCEPT !["worker"] = Backup!Idle, ![a] = r]
        /\ r.op = "restore" /\ r.no = task[a].no /\ r.chosen = task[a].chosen
        /\ live' \in [Backup!Files -> Backup!Contents] /\ live'["db"] # None /\ faults' \in 0 .. MaxFaults
        /\ \/ r.pc = "restart"
           \/ r.pc = "publish" /\ r.before = stored /\ r.todo = Backup!Files /\ live' = stored
  <2>1. CASE /\ Backup!Quiesced(stored) /\ UNCHANGED faults
             /\ task' = [task EXCEPT !["worker"] = Backup!Idle,
                           ![a] = [@ EXCEPT !.pc = "publish", !.before = stored, !.todo = Backup!Files]]
    <3> DEFINE r == [task[a] EXCEPT !.pc = "publish", !.before = stored, !.todo = Backup!Files]
    <3>1. /\ r \in Backup!Tasks /\ r.op = "restore" /\ r.no = task[a].no /\ r.chosen = task[a].chosen
          /\ r.pc = "publish" /\ r.before = stored /\ r.todo = Backup!Files
      BY <1>1, <1>3, <1>4 DEF Backup!Tasks
    <3>2. task' = [task EXCEPT !["worker"] = Backup!Idle, ![a] = r]
      BY <1>2, <1>4, <2>1
    <3>3. live' = stored /\ faults' \in 0 .. MaxFaults
      BY <2>1, BackupTypes DEF Backup!Quiesced
    <3> HIDE DEF r, stored
    <3> QED BY <1>3, <3>1, <3>2, <3>3
  <2>2. CASE /\ Backup!Fault /\ phase' = "down" /\ live' \in {live, stored}
             /\ task' = [task EXCEPT !["worker"] = Backup!Idle, ![a] = [@ EXCEPT !.pc = "restart"]]
    <3> DEFINE r == [task[a] EXCEPT !.pc = "restart"]
    <3>1. /\ r \in Backup!Tasks /\ r.op = "restore" /\ r.no = task[a].no /\ r.chosen = task[a].chosen
          /\ r.pc = "restart"
      BY <1>1, <1>4 DEF Backup!Tasks
    <3>2. task' = [task EXCEPT !["worker"] = Backup!Idle, ![a] = r]
      BY <1>2, <1>4, <2>2
    <3>3. live' \in {live, stored} /\ faults' \in 0 .. MaxFaults
      BY <2>2, BackupFault
    <3> HIDE DEF r, stored
    <3> QED BY <1>3, <3>1, <3>2, <3>3
  <2> QED BY <2>1, <2>2 DEF Backup!Quiesce
<1>8. PICK r \in Backup!Tasks :
        /\ task' = [task EXCEPT !["worker"] = Backup!Idle, ![a] = r]
        /\ r.op = "restore" /\ r.no = task[a].no /\ r.chosen = task[a].chosen
        /\ live' \in [Backup!Files -> Backup!Contents] /\ live'["db"] # None /\ faults' \in 0 .. MaxFaults
        /\ \/ r.pc = "restart"
           \/ r.pc = "publish" /\ r.before = stored /\ r.todo = Backup!Files /\ live' = stored
  BY <1>7
<1>9. /\ task' \in [Backup!Actors -> Backup!Tasks] /\ task'[a] = r /\ task'["worker"] = Backup!Idle
      /\ \A b \in Backup!Actors \ {a, "worker"} : task'[b] = task[b]
  BY <1>2, <1>4, <1>8, IdleTask
<1>10. Backup!TypeOK'
  <2>1. phase' \in {"up", "down", "gone"}
    BY <1>1
  <2> QED BY <1>1, <1>6, <1>8, <1>9, <2>1, Zenon DEF Backup!TypeOK
<1>11. Backup!ArchivesInv' /\ \A b \in Backup!Actors : Beside(b)
  BY <1>1, <1>5, <1>6, NothingBeside
<1>12. Backup!WayInv(a)' /\ Backup!OwnInv(a)' /\ Backup!PublishInv(a)'
  <2>1. Backup!WayInv(a)'
    BY <1>1, <1>4, <1>8, <1>9 DEF Backup!WayInv
  <2>2. Backup!OwnInv(a)'
    BY <1>1, <1>4, <1>8, <1>9 DEF Backup!OwnInv, Backup!Kept
  <2>3. CASE r.pc = "restart"
    BY <1>9, <2>1, <2>2, <2>3 DEF Backup!PublishInv
  <2>4. CASE r.pc = "publish" /\ r.before = stored /\ r.todo = Backup!Files /\ live' = stored
    <3> HIDE DEF stored
    <3>1. Backup!PublishInv(a)'
      BY <1>1, <1>3, <1>5, <1>9, <2>4 DEF Backup!PublishInv, Backup!Files
    <3> QED BY <2>1, <2>2, <3>1
  <2> QED BY <1>8, <2>3, <2>4
<1>13. \A b \in Backup!Actors \ {a} : Backup!WayInv(b)' /\ Backup!OwnInv(b)' /\ Backup!PublishInv(b)'
  <2>1. Backup!WayInv("worker")' /\ Backup!OwnInv("worker")' /\ Backup!PublishInv("worker")'
    BY <1>2, <1>9, IdleTask, IdleHolds
  <2>2. \A b \in Backup!Actors \ {a, "worker"} : Backup!WayInv(b)' /\ Backup!OwnInv(b)' /\ Backup!PublishInv(b)'
    BY <1>9, <1>11, OthersHold
  <2> QED BY <2>1, <2>2
<1>14. Backup!AloneInv'
  BY <1>1, <1>2, <1>8, <1>9, IdleTask DEF Backup!BackupsInv, Backup!AloneInv
<1>15. Backup!RestoreIsWhole'
  BY <1>1, <1>5 DEF Backup!RestoreIsWhole
<1> QED BY <1>8, <1>10, <1>11, <1>12, <1>13, <1>14, <1>15 DEF Backup!BackupsInv

LEMMA RestoredHolds ==
    ASSUME Backup!BackupsAssumption, Backup!TypeOK, Backup!BackupsInv, NEW a \in Backup!Actors,
           Backup!Publish(a) \/ Backup!PublishFails(a)
    PROVE  Backup!TypeOK' /\ Backup!BackupsInv'
<1>1. /\ task[a].pc = "publish"
      /\ UNCHANGED <<phase, ram, unit, archives, orphans, due, cut, writes, made, asked>>
  BY DEF Backup!Publish, Backup!PublishFails, Backup!At, Backup!Rest
<1>2. task[a] \in Backup!Tasks /\ live \in [Backup!Files -> Backup!Contents] /\ Backup!WayInv(a) /\ Backup!OwnInv(a) /\ Backup!PublishInv(a)
  BY BackupTypes DEF Backup!BackupsInv
<1>3. task[a].op = "restore" /\ task[a].todo \subseteq Backup!Files
  BY <1>1, <1>2 DEF Backup!WayInv, Backup!Tasks
<1>4. /\ phase = "down" /\ expected = {} /\ task[a].todo # {}
      /\ task[a].before \in [Backup!Files -> Backup!Contents] /\ task[a].before["db"] # None
      /\ \A f \in Backup!Files \ task[a].todo : live[f] = task[a].chosen[f]
  BY <1>1, <1>2 DEF Backup!PublishInv
<1>5. /\ task[a].chosen["db"] \in Backup!Contents /\ task[a].chosen["config"] \in Backup!Contents
      /\ task[a].chosen["db"] # None
  BY <1>1, <1>2, <1>3 DEF Backup!WayInv, Backup!Managed
<1>6. \A b \in Backup!Actors \ {a} : task[b].pc # "publish"
  <2> SUFFICES ASSUME NEW b \in Backup!Actors \ {a}, task[b].pc = "publish" PROVE FALSE
    OBVIOUS
  <2>1. task[b] \in Backup!Tasks /\ Backup!WayInv(b)
    BY BackupTypes DEF Backup!BackupsInv
  <2>2. task[b].op \in {"idle", "create", "restore"}
    BY <2>1 DEF Backup!Tasks
  <2>3. task[b].op = "restore"
    BY <2>1, <2>2 DEF Backup!WayInv
  <2> QED BY <1>3, <2>3 DEF Backup!BackupsInv, Backup!AloneInv
<1>7. /\ \E r \in Backup!Tasks :
            /\ task' = [task EXCEPT ![a] = r]
            /\ r.op = "restore" /\ r.no = task[a].no /\ r.chosen = task[a].chosen
            /\ r.before = task[a].before
            /\ \/ r.pc = "restart" /\ (expected' # {} => live' \in expected')
               \/ /\ r.pc = "publish" /\ r.todo # {} /\ expected' = {}
                  /\ \A f \in Backup!Files \ r.todo : live'[f] = r.chosen[f]
      /\ live' \in [Backup!Files -> Backup!Contents] /\ live'["db"] # None /\ faults' \in 0 .. MaxFaults
  <2>1. CASE Backup!Publish(a)
    <3> DEFINE w(g) == [task[a] EXCEPT !.todo = task[a].todo \ {g},
                          !.pc = IF task[a].todo = {g} THEN "restart" ELSE task[a].pc]
    <3>1. PICK f \in task[a].todo :
            /\ live' = [live EXCEPT ![f] = task[a].chosen[f]] /\ faults' = faults
            /\ task' = [task EXCEPT ![a] = w(f)]
            /\ expected' = IF task[a].todo = {f} THEN {[g \in Backup!Files |-> task[a].chosen[g]]} ELSE {}
      BY <2>1 DEF Backup!Publish
    <3> DEFINE r == w(f)
    <3>2. /\ r \in Backup!Tasks /\ r.op = "restore" /\ r.no = task[a].no /\ r.chosen = task[a].chosen
          /\ r.before = task[a].before /\ r.todo = task[a].todo \ {f}
          /\ r.pc = IF task[a].todo = {f} THEN "restart" ELSE "publish"
      BY <1>1, <1>2, <1>3 DEF Backup!Tasks
    <3>3. task' = [task EXCEPT ![a] = r]
      BY <3>1
    <3> HIDE DEF r, w
    <3>4. f \in Backup!Files /\ task[a].chosen[f] \in Backup!Contents /\ (f = "db" => task[a].chosen[f] # None)
      BY <1>3, <1>5 DEF Backup!Files
    <3>5. live' \in [Backup!Files -> Backup!Contents] /\ live'["db"] # None
      BY <1>2, <3>1, <3>4 DEF Backup!Files, Backup!BackupsInv
    <3>6. \A g \in Backup!Files \ r.todo : live'[g] = task[a].chosen[g]
      BY <1>2, <1>4, <3>1, <3>2, <3>4
    <3>7. CASE task[a].todo = {f}
      <4>1. live' = [g \in Backup!Files |-> task[a].chosen[g]]
        BY <3>2, <3>5, <3>6, <3>7
      <4>2. live' \in expected'
        BY <3>1, <3>7, <4>1
      <4> QED BY <3>1, <3>2, <3>3, <3>5, <3>7, <4>2, BackupTypes
    <3>8. CASE task[a].todo # {f}
      <4>1. r.todo # {} /\ r.pc = "publish" /\ expected' = {}
        BY <3>1, <3>2, <3>8
      <4> QED BY <3>1, <3>2, <3>3, <3>5, <3>6, <4>1, BackupTypes
    <3> QED BY <3>7, <3>8
  <2>2. CASE Backup!PublishFails(a)
    <3> DEFINE r == [task[a] EXCEPT !.pc = "restart"]
    <3>1. /\ r \in Backup!Tasks /\ r.op = "restore" /\ r.no = task[a].no /\ r.chosen = task[a].chosen
          /\ r.before = task[a].before /\ r.pc = "restart"
      BY <1>2, <1>3 DEF Backup!Tasks
    <3>2. task' = [task EXCEPT ![a] = r]
      BY <1>2, <2>2, BackupTypes DEF Backup!PublishFails, Backup!Goes
    <3> HIDE DEF r
    <3>3. \/ live' = task[a].before /\ expected' = {task[a].before}
          \/ expected' = {} /\ live' = live
      BY <2>2 DEF Backup!PublishFails, Backup!RolledBack
    <3>4. faults' \in 0 .. MaxFaults
      BY <2>2, BackupFault DEF Backup!PublishFails
    <3>5. live' \in [Backup!Files -> Backup!Contents] /\ live'["db"] # None /\ (expected' # {} => live' \in expected')
      BY <1>2, <1>4, <3>3 DEF Backup!BackupsInv
    <3> QED BY <3>1, <3>2, <3>4, <3>5
  <2> QED BY <2>1, <2>2
<1>8. PICK r \in Backup!Tasks :
        /\ task' = [task EXCEPT ![a] = r]
        /\ r.op = "restore" /\ r.no = task[a].no /\ r.chosen = task[a].chosen
        /\ r.before = task[a].before
        /\ \/ r.pc = "restart" /\ (expected' # {} => live' \in expected')
           \/ /\ r.pc = "publish" /\ r.todo # {} /\ expected' = {}
              /\ \A f \in Backup!Files \ r.todo : live'[f] = r.chosen[f]
  BY <1>7
<1>9. /\ task' \in [Backup!Actors -> Backup!Tasks] /\ task'[a] = r
      /\ \A b \in Backup!Actors \ {a} : task'[b] = task[b]
  BY <1>8, TaskChanges
<1>10. Backup!TypeOK'
  BY <1>1, <1>7, <1>9, Zenon DEF Backup!TypeOK
<1>11. Backup!ArchivesInv' /\ \A b \in Backup!Actors \ {a} : Beside(b)
  BY <1>1, <1>6, BackupTypes DEF Beside, Backup!BackupsInv, Backup!ArchivesInv
<1>12. Backup!WayInv(a)'
  BY <1>1, <1>2, <1>3, <1>8, <1>9 DEF Backup!WayInv
<1>13. Backup!OwnInv(a)'
  BY <1>1, <1>2, <1>8, <1>9 DEF Backup!OwnInv, Backup!Kept
<1>14. Backup!PublishInv(a)' /\ Backup!RestoreIsWhole'
  BY <1>1, <1>4, <1>8, <1>9 DEF Backup!PublishInv, Backup!RestoreIsWhole
<1> QED BY <1>3, <1>7, <1>9, <1>10, <1>11, <1>12, <1>13, <1>14, OneMoves

(* For any commands, archives, writes and faults: a restore leaves every    *)
(* file the archive's or every file what it was, its safety archive is      *)
(* there until newer ones displace it, and the database never goes missing. *)
(* (utils/backups.py: restore_backup, create_backup, prune_old_backups)     *)
THEOREM RestoresAreAlwaysWhole ==
    ASSUME Backup!BackupsAssumption
    PROVE  Backup!Spec => [](Backup!RestoreIsWhole /\ Backup!SafetyIsThere /\ Backup!DatabaseIsThere)
<1> DEFINE Inv == Backup!TypeOK /\ Backup!BackupsInv
<1>1. Backup!Init => Inv
  <2> SUFFICES ASSUME Backup!Init PROVE Inv
    OBVIOUS
  <2>1. /\ phase = "up" /\ ram = 0 /\ live = [f \in Backup!Files |-> 0] /\ archives = {} /\ orphans = {}
        /\ task = [a \in Backup!Actors |-> Backup!Idle] /\ expected = {} /\ cut = {} /\ asked = {}
        /\ writes = 0 /\ made = 0 /\ faults = 0
    BY DEF Backup!Init
  <2>2. unit \in BOOLEAN /\ due \in BOOLEAN
    BY Zenon DEF Backup!Init
  <2>3. 0 \in 0 .. MaxWrites /\ 0 \in 0 .. MaxArchives /\ 0 \in 0 .. MaxFaults /\ 0 # None
    BY BackupNumbers
  <2>4. 0 \in Backup!Contents /\ None \in Backup!Contents
    BY <2>3 DEF Backup!Contents
  <2>5. Backup!Idle \in Backup!Tasks /\ Backup!Idle.op = "idle" /\ Backup!Idle.pc = "end"
    BY <2>4 DEF Backup!Idle, Backup!Tasks
  <2>6. Backup!TypeOK
    <3>1. live \in [Backup!Files -> Backup!Contents] /\ task \in [Backup!Actors -> Backup!Tasks]
      BY <2>1, <2>4, <2>5
    <3>2. cut \union asked \subseteq 1 .. MaxArchives /\ archives \subseteq Backup!Managed
          /\ orphans \subseteq [db : Backup!Contents] /\ phase \in {"up", "down", "gone"}
      BY <2>1
    <3>3. /\ ram \in 0 .. MaxWrites /\ writes \in 0 .. MaxWrites /\ made \in 0 .. MaxArchives
          /\ faults \in 0 .. MaxFaults
      BY <2>1, <2>3
    <3> QED BY <2>2, <3>1, <3>2, <3>3, Zenon DEF Backup!TypeOK
  <2>7. \A a \in Backup!Actors : task[a].op = "idle" /\ task[a].pc = "end"
    BY <2>1, <2>5
  <2>8. \A a \in Backup!Actors : Backup!WayInv(a) /\ Backup!OwnInv(a) /\ Backup!PublishInv(a)
    BY <2>7 DEF Backup!WayInv, Backup!OwnInv, Backup!PublishInv
  <2>9. Backup!ArchivesInv /\ Backup!AloneInv /\ Backup!RestoreIsWhole
    BY <2>1, <2>7 DEF Backup!ArchivesInv, Backup!AloneInv, Backup!RestoreIsWhole
  <2>10. live["db"] # None
    BY <2>1, <2>3 DEF Backup!Files
  <2> QED BY <2>6, <2>8, <2>9, <2>10 DEF Backup!BackupsInv
<1>2. Inv /\ [Backup!Next]_(Backup!vars) => Inv'
  <2> SUFFICES ASSUME Inv, [Backup!Next]_(Backup!vars) PROVE Inv'
    OBVIOUS
  <2>1. CASE UNCHANGED Backup!vars
    <3>1. /\ UNCHANGED <<phase, ram, live, unit, archives, task, orphans, due, expected, cut, asked>>
          /\ UNCHANGED <<writes, made, faults>>
      BY <2>1 DEF Backup!vars
    <3>2. Backup!TypeOK'
      BY <3>1, Zenon DEF Backup!TypeOK
    <3>3. Backup!ArchivesInv' /\ \A b \in Backup!Actors : Beside(b)
      BY <3>1, NothingBeside
    <3>4. Backup!RestoreIsWhole' /\ live'["db"] # None
      BY <3>1 DEF Backup!RestoreIsWhole, Backup!BackupsInv
    <3> QED BY <3>1, <3>2, <3>3, <3>4, NobodyMoves
  <2>2. \A a \in Commands : a \in Backup!Actors
    BY DEF Backup!Actors
  <2>3. "worker" \in Backup!Actors
    BY DEF Backup!Actors
  <2>4. CASE Backup!Write \/ Backup!Flush \/ Backup!Unit \/ Backup!Ages \/ Backup!OrphanBuilt \/ Backup!ProcessEnds \/ Backup!Boot
    BY <2>4, WriteHolds, FlushHolds, UnitHolds, OrphanHolds, ProcessHolds, BootHolds
  <2>5. CASE Backup!Worker
    BY <2>3, <2>5, CreateHolds, SnapshotHolds, FlushedHolds, BuiltHolds, TestedHolds, RemovedHolds DEF Backup!Worker
  <2>6. CASE \E keep \in 1 .. Keep : Backup!BackupPrune(keep)
    BY <2>6, PruneHolds
  <2>7. CASE \E a \in Commands :
               \/ Backup!BackupCreate(a) \/ Backup!BackupRestore(a) \/ Backup!Flushed(a) \/ Backup!Built(a)
               \/ Backup!Tested(a) \/ Backup!Refused(a) \/ Backup!PruneOld(a) \/ Backup!Staged(a) \/ Backup!SafetyVerified(a)
               \/ Backup!Quiesce(a) \/ Backup!Publish(a) \/ Backup!PublishFails(a)
    BY <2>2, <2>7, CreateHolds, FlushedHolds, BuiltHolds, TestedHolds, RemovedHolds, StagedHolds,
       QuiesceHolds, RestoredHolds
  <2>8. CASE \E a \in Backup!Actors : Backup!Interrupted(a)
    BY <2>8, InterruptedHolds
  <2> QED BY <2>1, <2>4, <2>5, <2>6, <2>7, <2>8 DEF Backup!Next
<1>3. Inv => Backup!RestoreIsWhole /\ Backup!SafetyIsThere /\ Backup!DatabaseIsThere
  <2> SUFFICES ASSUME Inv PROVE Backup!RestoreIsWhole /\ Backup!SafetyIsThere /\ Backup!DatabaseIsThere
    OBVIOUS
  <2>1. Backup!SafetyIsThere
    BY DEF Backup!BackupsInv, Backup!OwnInv, Backup!Kept, Backup!SafetyIsThere
  <2>2. Backup!DatabaseIsThere
    BY DEF Backup!BackupsInv, Backup!ArchivesInv, Backup!DatabaseIsThere
  <2> QED BY <2>1, <2>2 DEF Backup!BackupsInv
<1> QED BY <1>1, <1>2, <1>3, PTL DEF Backup!Spec
=============================================================================
