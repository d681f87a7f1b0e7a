------------------------------- MODULE MCOutbox -------------------------------
(***************************************************************************)
(* What the bot owes its users over time, for TLC: the queue (Outbox), the *)
(* messages left for absent users (Tell), reminders, feeds, birthdays and  *)
(* the comics.  They share no state, so that a behaviour follows one of    *)
(* them while the others rest, and one run checks all at the cost of the   *)
(* sum of their states.  v1, v2, ... are the variables of the one that is  *)
(* followed.                                                               *)
(***************************************************************************)
EXTENDS Outbox

CONSTANTS
    c1, c2, chat, room, alert, r1, r2, u1, d1, d2, scan

VARIABLES
    part,       \* the component this behaviour follows
    v1, v2, v3, v4, v5, v6, v7, v8, v9, v10, v11, v12, v13, v14, v15, v16

Tells == INSTANCE Tell WITH
    Rooms <- {r1, r2}, Deliveries <- {d1, d2}, MaxTells <- 2,
    MaxPresences <- 3, MaxRefusals <- 1, MaxReloads <- 1, stored <- v1,
    enabled <- v2, handlers <- v3, waiting <- v4, delivery <- v5,
    copies <- v6, overtaken <- v7, presences <- v8, refusals <- v9,
    reloads <- v10

Remind == INSTANCE Reminders WITH
    TasksEach <- 2, MaxReminders <- 2, RoomReminders <- {2}, MaxEvents <- 2,
    rows <- v1, enabled <- v2, roomOn <- v3, task <- v4, active <- v5,
    creating <- v6, op <- v7, copies <- v8, unsure <- v9, raced <- v10,
    left <- v11, events <- v12

Rss == INSTANCE Feeds WITH
    Rooms <- {r1}, Users <- {u1}, Window <- 2, MaxPerPoll <- 1, Burst <- 1,
    MaxEntries <- 2, MaxCommands <- 3, MaxFaults <- 1, published <- v1,
    feed <- v2, disk <- v3, joined <- v4, worker <- v5, adding <- v6,
    bursting <- v7, copies <- v8, since <- v9, skipped <- v10, cut <- v11,
    crashed <- v12, overlapped <- v13, wanted <- v14, commands <- v15,
    faults <- v16

Bdays == INSTANCE Birthdays WITH
    Rooms <- {r1}, Checks <- {d1}, Scan <- scan, MaxDays <- 2, MaxStarts <- 1,
    MaxFaults <- 1, day <- v1, here <- v2, enabled <- v3, profile <- v4,
    cached <- v5, memory <- v6, stored <- v7, disk <- v8, task <- v9,
    scanned <- v10, copies <- v11, twice <- v12, starts <- v13, faults <- v14

Comic == INSTANCE Xkcd WITH
    Rooms <- {r1}, Missing <- {2}, MaxComics <- 3, MaxMoves <- 2,
    MaxFaults <- 1, latest <- v1, enabled <- v2, joined <- v3, last <- v4,
    saved <- v5, disk <- v6, check <- v7, build <- v8, copies <- v9,
    since <- v10, lost <- v11, cut <- v12, buried <- v13, moves <- v14,
    faults <- v15

pool == <<v1, v2, v3, v4, v5, v6, v7, v8, v9, v10, v11, v12, v13, v14, v15, v16>>
allVars == <<part, vars, pool>>

(* The variables that a component does not use stay None.                   *)
HostInit == Init /\
    \/ part = "outbox" /\ v1 = None /\ v2 = None /\ v3 = None /\ v4 = None
       /\ v5 = None /\ v6 = None /\ v7 = None /\ v8 = None /\ v9 = None
       /\ v10 = None /\ v11 = None /\ v12 = None /\ v13 = None /\ v14 = None
       /\ v15 = None /\ v16 = None
    \/ part = "tell" /\ Tells!Init /\ v11 = None /\ v12 = None /\ v13 = None
       /\ v14 = None /\ v15 = None /\ v16 = None
    \/ part = "reminders" /\ Remind!Init /\ v13 = None /\ v14 = None
       /\ v15 = None /\ v16 = None
    \/ part = "feeds" /\ Rss!Init
    \/ part = "birthdays" /\ Bdays!Init /\ v15 = None /\ v16 = None
    \/ part = "xkcd" /\ Comic!Init /\ v16 = None

In(p, A) == part = p /\ A /\ UNCHANGED <<part, vars>>

HostNext ==
    \/ part = "outbox" /\ Next /\ UNCHANGED <<part, pool>>
    \/ In("tell", Tells!Next /\ UNCHANGED <<v11, v12, v13, v14, v15, v16>>)
    \/ In("reminders", Remind!Next /\ UNCHANGED <<v13, v14, v15, v16>>)
    \/ In("feeds", Rss!Next)
    \/ In("birthdays", Bdays!Next /\ UNCHANGED <<v15, v16>>)
    \/ In("xkcd", Comic!Next /\ UNCHANGED <<v16>>)

InOutbox(A) == part = "outbox" /\ A /\ UNCHANGED <<part, pool>>

(* The fairness of the outbox, for the behaviours that follow it.           *)
HostSpec ==
    /\ HostInit /\ [][HostNext]_allVars
    /\ WF_allVars(InOutbox(WorkerProceeds))
    /\ WF_allVars(InOutbox(SessionStarts \/ RuntimeReady))
    /\ \A k \in Keys : WF_allVars(InOutbox(ComesDue(k))) /\ WF_allVars(InOutbox(RoomJoined(k)))

(* The type invariants of all of them.                                      *)
TypesOK ==
    /\ TypeOK
    /\ part = "tell" => Tells!TypeOK
    /\ part = "reminders" => Remind!TypeOK
    /\ part = "feeds" => Rss!TypeOK
    /\ part = "birthdays" => Bdays!TypeOK
    /\ part = "xkcd" => Comic!TypeOK

(* Tell and Reminders: a message leaves the store unsent only with its room *)
(* or after another task replaced the list, and a reminder that its owner   *)
(* was told is deleted is not sent afterwards.                              *)
NothingIsUndone ==
    [][/\ part = "tell" => Tells!KeptStep
       /\ part = "reminders" => Remind!SilentStep]_allVars

(* Reminders: each is sent once, unless it was interrupted or raced, and    *)
(* every row has a task or somebody who will start one.                     *)
RemindersArrive == part = "reminders" => Remind!RemindersArrive

(* Feeds: no active subscriber misses an entry the cursor has passed, or    *)
(* gets one twice without a cut, and subscriptions last.                    *)
EntriesArrive == part = "feeds" => Rss!EntriesArrive

(* What the theorems about these parts assume of their constants.           *)
ASSUME PartsAssumption ==
    /\ Rss!FeedsAssumption /\ Remind!RemindersAssumption
    /\ Tells!TellAssumption /\ Bdays!BirthdaysAssumption
    /\ Comic!XkcdAssumption

(* Birthdays and Xkcd: a room is congratulated once a day and sent every    *)
(* comic once, and what was posted can be found.                            *)
RoomsHearOnce ==
    /\ part = "birthdays" => Bdays!OncePerDay
    /\ part = "xkcd" => Comic!EveryComicOnce /\ Comic!PostedIsIndexed
===============================================================================
