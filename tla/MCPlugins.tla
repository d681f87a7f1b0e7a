------------------------------ MODULE MCPlugins ------------------------------
(***************************************************************************)
(* Plugins, for TLC: how they are loaded, made ready, reloaded and         *)
(* unloaded (PluginManager), the store for what they keep (UserStore at its *)
(* limit), and what some of them do with it: polls (Polls), pins (Pins) and *)
(* IdleRPG (GameRoom, GameLoop, GameItems, GameStore, GameExport).  They    *)
(* share no state, so that a behaviour follows one of them while the others *)
(* rest; v1, v2, ... are its variables.                                     *)
(***************************************************************************)
EXTENDS MCPluginManager

CONSTANTS
    r1, r2, p1, p2, t1, t2, n1, n2, s1, f1, None, Absent, Global, Free

VARIABLES
    part,       \* the component this behaviour follows
    v1, v2, v3, v4, v5, v6, v7, v8, v9, v10, v11, v12, v13, v14, v15, v16

Poll == INSTANCE Polls WITH
    Voters <- {p1}, MaxHistory <- 1, MaxPolls <- 2, MaxLoads <- 2,
    status <- v1, timed <- v2, due <- v3, votes <- v4, history <- v5,
    timers <- v6, closing <- v7, plugin <- v8, todo <- v9, announced <- v10,
    removed <- v11, loads <- v12

Pin == INSTANCE Pins WITH
    Rooms <- {r1, r2}, MaxPins <- 3, MaxLists <- 4, MaxClean <- 1,
    rooms <- v1, lists <- v2, id <- v3, tagged <- v4, asking <- v5,
    home <- v6, clean <- v7, exposed <- v8

Store == INSTANCE UserStore WITH
    Clients <- {t1}, Jids <- {p1, Global}, Fields <- {f1}, Limit <- 1,
    MaxChanges <- 2, MaxFlushErrors <- 1, MaxCrashes <- 0,
    SharedLoads <- FALSE, DeleteRaces <- FALSE, db <- v1, cache <- v2,
    dirty <- v3, task <- v4, flush <- v5, snapshot <- v6, unchanged <- v7,
    todo <- v8, staged <- v9, mode <- v10, attempts <- v11, told <- v12,
    raced <- v13, changes <- v14, errors <- v15, crashes <- v16

Play == INSTANCE GameRoom WITH
    Players <- {p1, p2}, Nicks <- {n1, n2}, Guests <- {p2}, QuestSize <- 1,
    QuestLimit <- 1, MaxAccount <- 1, MaxNews <- 2, MaxOps <- 1,
    enabled <- v1, grace <- v2, players <- v3, char <- v4, seat <- v5,
    news <- v6, quest <- v7, account <- v8, hit <- v9, today <- v10,
    mistaken <- v11, missed <- v12, ops <- v13

Loop == INSTANCE GameLoop WITH
    Actors <- {t1, t2}, MaxTime <- 2, MaxLoops <- 3, MaxOps <- 2,
    MaxFaults <- 1, enabled <- v1, loaded <- v2, room <- v3, alive <- v4,
    created <- v5, lock <- v6, actor <- v7, clock <- v8, lastTick <- v9,
    credited <- v10, watched <- v11, crossed <- v12, ops <- v13, faults <- v14

Item == INSTANCE GameItems WITH
    Players <- {p1, p2}, Slots <- {s1}, MaxTier <- 2, MaxLevel <- 4,
    MaxResets <- 2, items <- v1, unique <- v2, party <- v3, place <- v4,
    rested <- v5, reset <- v6, resets <- v7

Game == INSTANCE GameStore WITH
    Handlers <- {t1, t2}, Jids <- {p1, p2}, EventLogLimit <- 2, MaxEdits <- 2,
    MaxFaults <- 1, rows <- v1, known <- v2, ready <- v3, lock <- v4,
    work <- v5, object <- v6, cache <- v7, handler <- v8, edits <- v9,
    recorded <- v10, twice <- v11, missed <- v12, faults <- v13

Export == INSTANCE GameExport WITH
    Workers <- {t1, t2}, MaxCommits <- 2, MaxFaults <- 1, db <- v1,
    commits <- v2, enabled <- v3, cursor <- v4, waits <- v5, lock <- v6,
    thread <- v7, disk <- v8, generation <- v9, abandoned <- v10,
    faults <- v11

pool == <<v1, v2, v3, v4, v5, v6, v7, v8, v9, v10, v11, v12, v13, v14, v15, v16>>
allVars == <<part, vars, pool>>

(* The variables that a component does not use stay None.                   *)
HostInit == Init /\
    \/ part = "plugins" /\ v1 = None /\ v2 = None /\ v3 = None /\ v4 = None
       /\ v5 = None /\ v6 = None /\ v7 = None /\ v8 = None /\ v9 = None
       /\ v10 = None /\ v11 = None /\ v12 = None /\ v13 = None /\ v14 = None
       /\ v15 = None /\ v16 = None
    \/ part = "polls" /\ Poll!Init /\ v13 = None /\ v14 = None /\ v15 = None
       /\ v16 = None
    \/ part = "pins" /\ Pin!Init /\ v9 = None /\ v10 = None /\ v11 = None
       /\ v12 = None /\ v13 = None /\ v14 = None /\ v15 = None /\ v16 = None
    \/ part = "userstore" /\ Store!Init
    \/ part = "game" /\ Play!Init /\ v14 = None /\ v15 = None /\ v16 = None
    \/ part = "loop" /\ Loop!Init /\ v15 = None /\ v16 = None
    \/ part = "items" /\ Item!Init /\ v8 = None /\ v9 = None /\ v10 = None
       /\ v11 = None /\ v12 = None /\ v13 = None /\ v14 = None /\ v15 = None
       /\ v16 = None
    \/ part = "gamestore" /\ Game!Init /\ v14 = None /\ v15 = None
       /\ v16 = None
    \/ part = "export" /\ Export!Init /\ v12 = None /\ v13 = None
       /\ v14 = None /\ v15 = None /\ v16 = None

In(p, A) == part = p /\ A /\ UNCHANGED <<part, vars>>

HostNext ==
    \/ part = "plugins" /\ Next /\ UNCHANGED <<part, pool>>
    \/ In("polls", Poll!Next /\ UNCHANGED <<v13, v14, v15, v16>>)
    \/ In("pins", Pin!Next /\ UNCHANGED <<v9, v10, v11, v12, v13, v14, v15, v16>>)
    \/ In("userstore", Store!Next)
    \/ In("game", Play!Next /\ UNCHANGED <<v14, v15, v16>>)
    \/ In("loop", Loop!Next /\ UNCHANGED <<v15, v16>>)
    \/ In("items", Item!Next /\ UNCHANGED <<v8, v9, v10, v11, v12, v13, v14, v15, v16>>)
    \/ In("gamestore", Game!Next /\ UNCHANGED <<v14, v15, v16>>)
    \/ In("export", Export!Next /\ UNCHANGED <<v12, v13, v14, v15, v16>>)

(* The fairness of the plugin manager and of the flushes.  Only one of the  *)
(* components moves, so that two actions may share a condition.             *)
Base(A) == part = "plugins" /\ A /\ UNCHANGED <<part, pool>>
Flush(A) == In("userstore", A)

HostSpec ==
    /\ HostInit /\ [][HostNext]_allVars
    /\ WF_allVars(Base(Reject) \/ Flush(Store!FlushBegin))
    /\ WF_allVars(Base(Acquire) \/ Flush(Store!FlushStep))
    /\ WF_allVars(Base(Advance) \/ Flush(Store!Restart))
    /\ WF_allVars(Base(LoadStep)) /\ WF_allVars(Base(UnloadStep))
    /\ WF_allVars(Base(HookStep)) /\ WF_allVars(Base(TakeCancellation))
    /\ WF_allVars(Base(TargetEnds)) /\ WF_allVars(Base(GraceTimeout))
    /\ WF_allVars(Base(CancelTimeout)) /\ WF_allVars(Base(CallUnloadAll))
    /\ WF_allVars(Base(UnloadTimeout))

ASSUME RoomPluginsAssumption ==
    Poll!PollsAssumption /\ Store!UserStoreAssumption
ASSUME IdleRPGAssumption ==
    /\ Export!GameExportAssumption /\ Game!GameStoreAssumption /\ Loop!GameLoopAssumption
    /\ Play!GameRoomAssumption /\ Item!GameItemsAssumption

(* The type invariants of all of them.                                      *)
TypesOK ==
    /\ TypeOK
    /\ part = "polls" => Poll!TypeOK
    /\ part = "pins" => Pin!TypeOK
    /\ part = "userstore" => Store!TypeOK
    /\ part = "export" => Export!TypeOK
    /\ part = "gamestore" => Game!TypeOK
    /\ part = "loop" => Loop!TypeOK
    /\ part = "game" => Play!TypeOK
    /\ part = "items" => Item!TypeOK

(* Polls: a result is the last word on its poll; GameRoom, GameLoop and     *)
(* GameItems: players of IdleRPG pay for what they did, are credited with   *)
(* the time that they were watched, quest once a day and wear what they own.*)
PlayIsFair ==
    /\ part = "polls" => Poll!ResultIsFinal /\ Poll!TimersAreSet
    /\ part = "game" =>
        /\ Play!PenaltiesAreEarned /\ Play!ReturnCancels
        /\ Play!TimeQuestIsClean /\ Play!DailyLimitHolds
    /\ part = "loop" => Loop!OnlyWatchedTimeCounts /\ Loop!LoopsAreRight
    /\ part = "items" => Item!UniquesAreWorn

(* GameItems: a duel's and a battle's swap of items takes from nobody       *)
(* without giving back.                                                     *)
SwapsAreFair == [][part = "items" => Item!FairSwap]_allVars

(* Pins, UserStore, GameStore and GameExport: what was stored for a room is *)
(* there, is not evicted before it is saved, and what is published of it    *)
(* was stored like that.                                                    *)
RoomDataIsKept ==
    /\ part = "pins" => Pin!NumbersAreUnique /\ Pin!PinsAreKept
    /\ part = "userstore" => Store!DirtyIsCached
    /\ part = "gamestore" => Game!HashesAreTrue /\ Game!AllIsSaved
    /\ part = "export" => Export!GenerationsAreWhole

(* PluginManager: the plugin phase of the shutdown ends; UserStore: a dirty *)
(* entry is flushed, or close() says that it could not be.                  *)
Watched == <<"runtime", p1>>
WorkEnds ==
    ((part = "plugins" /\ shutdown) \/ (part = "userstore" /\ Store!Unsaved(Watched))) ~>
        (/\ part = "plugins" => phase \in {"ok", "partial", "timeout", "stuck"}
         /\ part = "userstore" => Store!SavedOrFailed(Watched))
===============================================================================
