------------------------------ MODULE MCIncoming ------------------------------
(***************************************************************************)
(* What comes in from the server, for TLC: the rate limiter (RateLimiter), *)
(* the message cache (MessageCache), commands and their replies            *)
(* (Commands), room membership (Rooms), the users seen (Users), and two    *)
(* plugins that answer in rooms: ducks (Ducks) and translations            *)
(* (Translate).  They share no state, so that a behaviour follows one of   *)
(* them while the others rest.  v1, v2, ... are the variables of the one   *)
(* that is followed beside the limiter's.                                  *)
(***************************************************************************)
EXTENDS RateLimiter

CONSTANTS
    c1, c2, s1, a1, a2, a3, Stop, olga, uma, vera, r1, nick1, nick2, t1, t2

Message(s, direct, enc, name, target, new) ==
    [sender |-> s, direct |-> direct, enc |-> enc, name |-> name, target |-> target, new |-> new]

Written ==
    {Message(vera, FALSE, TRUE, "hello", vera, 80), Message(olga, TRUE, FALSE, "role", uma, 80),
     Message(uma, TRUE, FALSE, "role", vera, 40),
     Message(olga, TRUE, FALSE, "delete", vera, 80)}

VARIABLES
    part,       \* the component this behaviour follows
    v1, v2, v3, v4, v5, v6, v7, v8, v9, v10, v11, v12, v13, v14, v15, v16,
    v17, v18

Cache == INSTANCE MessageCache WITH
    Conversations <- {c1, c2}, StanzaIds <- {s1}, Limit <- 1,
    BacklogLimit <- 2, SaveAttempts <- 2, MaxArrivals <- 3, MaxFailures <- 3,
    MaxStarts <- 2, up <- v1, persist <- v2, memory <- v3, queue <- v4,
    writer <- v5, batch <- v6, stopAfter <- v7, attempt <- v8, backlog <- v9,
    table <- v10, closer <- v11, history <- v12, dropped <- v13,
    arrivals <- v14, failures <- v15, starts <- v16

Cmd == INSTANCE Commands WITH
    Senders <- {olga, uma, vera}, Owner <- olga, RoomAdmins <- {vera}, Tasks <- {t1, t2},
    Omemo <- TRUE, PlainFallback <- FALSE, Messages <- Written,
    MaxMessages <- 2, accepting <- v1, row <- v2, task <- v3, replies <- v4,
    drain <- v5, maker <- v6, sent <- v7, early <- v8, messages <- v9

Muc == INSTANCE Rooms WITH
    Rooms <- {r1}, MaxCommands <- 2, MaxFaults <- 2, stored <- v1,
    joined <- v2, mirror <- v3, leaving <- v4, backoff <- v5, enabled <- v6,
    pending <- v7, cached <- v8, server <- v9, presence <- v10, up <- v11,
    prog <- v12, join <- v13, left <- v14, crossed <- v15, commands <- v16,
    faults <- v17

People == INSTANCE Users WITH
    Users <- {uma, vera}, Nicks <- {nick1, nick2}, Rooms <- {r1}, Roster <- {vera},
    Tasks <- {t1, t2}, MAX_ROOM_NICKS <- 2, MaxEvents <- 3, row <- v1,
    listed <- v2, history <- v3, grants <- v4, index <- v5, stored <- v6,
    shared <- v7, occupants <- v8, task <- v9, raced <- v10, stale <- v11,
    failed <- v12, events <- v13

Duck == INSTANCE Ducks WITH
    MaxHandlers <- 2, Limits <- {1, 0}, MaxThreshold <- 1, SaveEvery <- 1,
    MaxDucks <- 2, MaxEvents <- 1, enabled <- v1, limit <- v2, timed <- v3,
    kept <- v4, daily <- v5, stats <- v6, active <- v7, pending <- v8,
    count <- v9, threshold <- v10, spawnTask <- v11, expireTask <- v12,
    spawns <- v13, expires <- v14, at <- v15, caught <- v16, crossed <- v17,
    events <- v18

Tr == INSTANCE Translate WITH
    Requests <- {t1, t2}, Providers <- 2, InitialLimit <- 1, MaxLimit <- 2,
    RetryAfter <- {1}, MaxFetches <- 2, pc <- v1, at <- v2, outcomes <- v3,
    answers <- v4, seen <- v5, left <- v6, backoff <- v7, slot <- v8,
    lacking <- v9, task <- v10, fetches <- v11

pool == <<v1, v2, v3, v4, v5, v6, v7, v8, v9, v10, v11, v12, v13, v14, v15, v16, v17,
          v18>>
allVars == <<part, vars, pool>>

(* The variables that a component does not use stay None.                   *)
HostInit == Init /\
    \/ part = "limiter" /\ v1 = None /\ v2 = None /\ v3 = None /\ v4 = None
       /\ v5 = None /\ v6 = None /\ v7 = None /\ v8 = None /\ v9 = None
       /\ v10 = None /\ v11 = None /\ v12 = None /\ v13 = None /\ v14 = None
       /\ v15 = None /\ v16 = None /\ v17 = None /\ v18 = None
    \/ part = "cache" /\ Cache!Init /\ v17 = None /\ v18 = None
    \/ part = "commands" /\ Cmd!Init /\ v10 = None /\ v11 = None /\ v12 = None
       /\ v13 = None /\ v14 = None /\ v15 = None /\ v16 = None /\ v17 = None
       /\ v18 = None
    \/ part = "rooms" /\ Muc!Init /\ v18 = None
    \/ part = "users" /\ People!Init /\ v14 = None /\ v15 = None /\ v16 = None
       /\ v17 = None /\ v18 = None
    \/ part = "ducks" /\ Duck!Init
    \/ part = "translate" /\ Tr!Init /\ v12 = None /\ v13 = None /\ v14 = None
       /\ v15 = None /\ v16 = None /\ v17 = None /\ v18 = None

In(p, A) == part = p /\ A /\ UNCHANGED <<part, vars>>

HostNext ==
    \/ part = "limiter" /\ Next /\ UNCHANGED <<part, pool>>
    \/ In("cache", Cache!Next /\ UNCHANGED <<v17, v18>>)
    \/ In("commands", Cmd!Next /\ UNCHANGED <<v10, v11, v12, v13, v14, v15, v16, v17, v18>>)
    \/ In("rooms", Muc!Next /\ UNCHANGED <<v18>>)
    \/ In("users", People!Next /\ UNCHANGED <<v14, v15, v16, v17, v18>>)
    \/ In("ducks", Duck!Next)
    \/ In("translate", Tr!Next /\ UNCHANGED <<v12, v13, v14, v15, v16, v17, v18>>)

(* The fairness of the writer and of close(), of the room tasks and of      *)
(* Translate.  Only one of the components moves, so that actions of several *)
(* may share a condition.                                                   *)
Steps(A, B, C) ==
    \/ In("cache", A /\ UNCHANGED <<v17, v18>>)
    \/ In("rooms", B /\ UNCHANGED <<v18>>)
    \/ In("translate", C /\ UNCHANGED <<v12, v13, v14, v15, v16, v17, v18>>)

HostSpec ==
    /\ HostInit /\ [][HostNext]_allVars
    /\ WF_allVars(Steps(Cache!WriterStep, Muc!Progress, Tr!Works(t1)))
    /\ WF_allVars(Steps(Cache!CloserStep, Muc!BackoffPasses(r1), Tr!Works(t2)))

ASSUME CacheAssumption == Cache!MessageCacheAssumption
ASSUME CommandsAssumption ==
    Cmd!OwnerAssumption /\ Cmd!MessagesAssumption /\ Cmd!NoneAssumption
ASSUME MembershipAssumption == Muc!RoomsAssumption /\ People!UsersAssumption
ASSUME PluginsAssumption == Duck!DucksAssumption /\ Tr!TranslateAssumption

(* The type invariants of all of them.                                      *)
TypesOK ==
    /\ TypeOK
    /\ part = "cache" => Cache!TypeOK
    /\ part = "commands" => Cmd!TypeOK
    /\ part = "rooms" => Muc!TypeOK
    /\ part = "users" => People!TypeOK
    /\ part = "ducks" => Duck!TypeOK
    /\ part = "translate" => Tr!TypeOK

(* MessageCache: no accepted message is lost on its way to the table, and   *)
(* close() says True only when everything is saved.                         *)
CacheIsKept == part = "cache" => Cache!InTransitIsKept /\ Cache!CloseIsHonest


(* Commands: a reply to an encrypted message is encrypted, and no reply     *)
(* that was pending when shutdown drained them outlives the drain.          *)
RepliesAreSettled == part = "commands" => Cmd!RepliesAreSettled

(* Rooms: at rest the mirrors show the rooms the bot is in, and a room that *)
(* a command left is not joined again.                                      *)
RoomsAreTrue == part = "rooms" => Muc!RoomsAreTrue

(* Users: the nick index agrees with the histories, deleted users are       *)
(* forgotten and users who are seen are shown.                              *)
PeopleAreKnown == part = "users" => People!PeopleAreKnown


(* MessageCache: the writer empties its queue and close() ends; Rooms: a    *)
(* room with autojoin is joined in the end; Translate: a command is         *)
(* answered or cut off.                                                     *)
Owed(r) ==
    \/ part = "cache" /\ (IF r = t1 THEN Cache!HasWork ELSE Cache!Closing)
    \/ part = "rooms" /\ Muc!Wanted(r1)
    \/ part = "translate" /\ Tr!Accepted(r)

Served(r) ==
    /\ part = "cache" => IF r = t1 THEN Cache!WorkDone ELSE Cache!Closed
    /\ part = "rooms" => Muc!Healed(r1)
    /\ part = "translate" => Tr!Ended(r)

WorkIsServed == \A r \in {t1, t2} : Owed(r) ~> Served(r)
===============================================================================
