-------------------------------- MODULE Xkcd --------------------------------
(***************************************************************************)
(* plugins/xkcd.py.  The check task asks for the latest comic and takes    *)
(* every comic after LAST_COMIC_ID in turn: into the search index, to the  *)
(* subscribed rooms, and into the saved last id.  The index task builds    *)
(* the whole index once after on_load.  The id and the index are values of *)
(* the global runtime store, which is flushed as one row and hands out the *)
(* objects it caches: the index task works on the stored index itself,     *)
(* except while there is none.                                             *)
(***************************************************************************)
EXTENDS Naturals, FiniteSets

CONSTANTS
    Rooms,
    None,
    Missing,        \* MISSING_COMIC_IDS
    MaxComics,      \* bound: comics published
    MaxMoves,       \* bound: joins, departures and switches of rooms
    MaxFaults       \* bound: failed requests and sends, reloads and crashes

Comics == 1 .. MaxComics

VARIABLES
    latest,         \* the newest comic of the site
    enabled,        \* rooms with XKCD posting on
    joined,         \* JOINED_ROOMS
    last,           \* LAST_COMIC_ID
    saved,          \* xkcd_last_id and the index in the store
    disk,           \* the same as flushed
    check,          \* CHECK_TASK
    build,          \* INDEX_TASK
    copies,         \* how often each room was sent each comic
    since,          \* per room: the newest comic when it became a subscriber
                    \* that is present, MaxComics while it is none
    lost,           \* comics and rooms whose request or send failed, and what
                    \* was there at the first start
    cut,            \* comics whose broadcast was interrupted before the save
    buried,         \* comics stored in an index that the build replaced
    moves, faults

ghosts == <<copies, since, lost, cut, buried>>
site == <<latest, enabled, joined>>
bounds == <<moves, faults>>
vars == <<site, last, saved, disk, check, build, ghosts, bounds>>

Store == [last : 0 .. MaxComics, index : (SUBSET Comics) \cup {None}]

XkcdAssumption == MaxComics \in Nat \ {0} /\ \A s \in SUBSET Comics : s # None

Checking == [at : {"starting", "asleep", "next", "sending"}, next : 1 .. MaxComics + 1,
             upto : 0 .. MaxComics, todo : SUBSET Rooms]
Building == [at : {"waiting", "building", "done"}, own : SUBSET Comics, live : BOOLEAN,
             next : 1 .. MaxComics + 1, upto : 0 .. MaxComics]

TypeOK ==
    /\ latest \in Comics /\ enabled \cup joined \subseteq Rooms
    /\ last \in 0 .. MaxComics
    /\ saved \in Store /\ disk \in Store
    /\ check \in Checking /\ build \in Building
    /\ copies \in [Rooms -> [Comics -> Nat]] /\ since \in [Rooms -> Comics]
    /\ lost \subseteq Rooms \X Comics /\ cut \cup buried \subseteq Comics

Starting == [at |-> "starting", next |-> 1, upto |-> 0, todo |-> {}]
Waiting == [at |-> "waiting", own |-> {}, live |-> FALSE, next |-> 1, upto |-> 0]

Init ==
    /\ latest = 1 /\ enabled \in SUBSET Rooms /\ joined = Rooms
    /\ last = 0 /\ saved = [last |-> 0, index |-> None] /\ disk = saved
    /\ check = Starting /\ build = Waiting
    /\ copies = [r \in Rooms |-> [c \in Comics |-> 0]]
    /\ since = [r \in Rooms |-> IF r \in enabled THEN 1 ELSE MaxComics]
    /\ lost = {} /\ cut = {} /\ buried = {}
    /\ moves = 0 /\ faults = 0

Fault == faults < MaxFaults /\ faults' = faults + 1

Publish ==
    /\ latest < MaxComics /\ latest' = latest + 1
    /\ UNCHANGED <<enabled, joined, last, saved, disk, check, build, ghosts, bounds>>

Toggle(S, r) == IF r \in S THEN S \ {r} ELSE S \cup {r}

(* xkcd on and off, and the bot's joins and departures.                     *)
Moves(r) ==
    /\ moves < MaxMoves /\ moves' = moves + 1
    /\ \/ enabled' = Toggle(enabled, r) /\ UNCHANGED joined
       \/ joined' = Toggle(joined, r) /\ UNCHANGED enabled
    /\ since' = [since EXCEPT ![r] = IF r \in enabled' \cap joined' THEN latest ELSE MaxComics]
    /\ UNCHANGED <<latest, last, saved, disk, check, build, copies, lost, cut, buried, faults>>

-----------------------------------------------------------------------------
(* xkcd_check_loop.  Before the runtime is ready and while the site does    *)
(* not answer it sleeps and asks again; the first comic ever seen is only   *)
(* remembered.                                                              *)
Checks(next) == check' = next /\ UNCHANGED <<site, disk, build, since, moves>>

Sleeps == [check EXCEPT !.at = "asleep"]
CatchUp(from) ==
    IF latest > from THEN [at |-> "next", next |-> from + 1, upto |-> latest, todo |-> {}]
    ELSE Sleeps

FirstAnswer ==
    /\ check.at = "starting"
    /\ IF saved.last = 0
       THEN /\ last' = latest /\ saved' = [saved EXCEPT !.last = latest]
            /\ lost' = lost \cup (Rooms \X (1 .. latest))
            /\ Checks(Sleeps)
       ELSE /\ last' = saved.last /\ UNCHANGED <<saved, lost>>
            /\ Checks(CatchUp(saved.last))
    /\ UNCHANGED <<copies, cut, buried, faults>>

Poll ==
    /\ check.at = "asleep" /\ latest > last
    /\ Checks(CatchUp(last))
    /\ UNCHANGED <<last, saved, copies, lost, cut, buried, faults>>

(* _persist of the id; the task goes on with the next comic.                *)
Saved(c) ==
    /\ last' = c /\ saved' = [saved EXCEPT !.last = c]
    /\ Checks(IF c = check.upto THEN Sleeps ELSE [check EXCEPT !.at = "next", !.next = c + 1])

Gap ==
    /\ check.at = "next" /\ check.next \in Missing
    /\ Saved(check.next)
    /\ UNCHANGED <<copies, lost, cut, buried, faults>>

(* A comic that cannot be fetched is passed over for good.                  *)
NotFetched ==
    /\ check.at = "next" /\ check.next \notin Missing /\ Fault
    /\ Saved(check.next)
    /\ lost' = lost \cup (Rooms \X {check.next})
    /\ UNCHANGED <<copies, cut, buried>>

(* add_comic_to_index, and the rooms that subscribe now.                    *)
Indexed(c) == IF saved.index = None THEN {c} ELSE saved.index \cup {c}

Fetched ==
    /\ check.at = "next" /\ check.next \notin Missing
    /\ saved' = [saved EXCEPT !.index = Indexed(check.next)]
    /\ Checks([check EXCEPT !.at = "sending", !.todo = enabled])
    /\ UNCHANGED <<last, copies, lost, cut, buried, faults>>

(* One room of the broadcast; rooms that are not joined are left out.       *)
SendRoom(r) ==
    /\ check.at = "sending" /\ r \in check.todo
    /\ copies' = IF r \in joined THEN [copies EXCEPT ![r][check.next] = @ + 1] ELSE copies
    /\ Checks([check EXCEPT !.todo = @ \ {r}])
    /\ UNCHANGED <<last, saved, lost, cut, buried, faults>>

SendFails(r) ==
    /\ check.at = "sending" /\ r \in check.todo \cap joined /\ Fault
    /\ lost' = lost \cup {<<r, check.next>>}
    /\ Checks([check EXCEPT !.todo = @ \ {r}])
    /\ UNCHANGED <<last, saved, copies, cut, buried>>

(* LAST_COMIC_ID and the store follow only after the whole broadcast.       *)
Ready_Early == TRUE
Ready == check.todo = {}

BroadcastDone ==
    /\ check.at = "sending" /\ Ready
    /\ Saved(check.next)
    /\ UNCHANGED <<copies, lost, cut, buried, faults>>

-----------------------------------------------------------------------------
(* build_full_index.                                                        *)
Builds(next) == build' = next /\ UNCHANGED <<site, last, disk, check, copies, since, lost, cut,
                                             moves>>

(* What the task knows by now: a stored index it works on grows with it.    *)
Known == IF build.live THEN saved.index ELSE build.own

(* Every comic that exists is in the index, so there is nothing to build.   *)
Full(index, upto) == Cardinality(index) >= upto - Cardinality({c \in Missing : c <= upto})

BuildBegins ==
    /\ build.at = "waiting"
    /\ Builds(IF saved.index \notin {None, {}} /\ Full(saved.index, latest)
              THEN [Waiting EXCEPT !.at = "done"]
              ELSE [at |-> "building", own |-> {}, live |-> saved.index # None, next |-> 1, upto |-> latest])
    /\ UNCHANGED <<saved, buried, faults>>

(* The next comic that is not in the index: what could not be fetched is    *)
(* left out.                                                                *)
BuildNext(ok) ==
    LET c == build.next
        known == IF ok /\ c \notin Missing THEN Known \cup {c} ELSE Known
    IN  /\ build.at = "building" /\ c <= build.upto
        /\ IF ok THEN UNCHANGED faults ELSE c \notin Missing \cup Known /\ Fault
        /\ saved' = IF build.live THEN [saved EXCEPT !.index = known] ELSE saved
        /\ Builds([build EXCEPT !.next = c + 1, !.own = IF build.live THEN @ ELSE known])
        /\ UNCHANGED buried

(* _persist_xkcd_index, every so many comics, at the end or when cancelled: *)
(* the stored index becomes that of the task.                               *)
Persist ==
    /\ saved' = [saved EXCEPT !.index = Known]
    /\ buried' = buried \cup ((IF saved.index = None THEN {} ELSE saved.index) \ Known)

BuildPersists ==
    /\ build.at = "building" /\ ~build.live
    /\ Persist
    /\ Builds([build EXCEPT !.live = TRUE, !.own = {}])
    /\ UNCHANGED faults

BuildEnds ==
    /\ build.at = "building" /\ build.next > build.upto
    /\ Persist
    /\ Builds([Waiting EXCEPT !.at = "done"])
    /\ UNCHANGED faults

-----------------------------------------------------------------------------
Interrupted == IF check.at = "sending" THEN {check.next} ELSE {}

(* on_load cancels both tasks and starts them again; a build that waits for *)
(* a comic persists what it has.                                            *)
Reload ==
    /\ Fault
    /\ check' = Starting /\ build' = Waiting
    /\ IF build.at = "building" THEN Persist ELSE UNCHANGED <<saved, buried>>
    /\ cut' = cut \cup Interrupted
    /\ UNCHANGED <<site, last, disk, copies, since, lost, moves>>

Flush ==
    /\ disk # saved /\ disk' = saved
    /\ UNCHANGED <<site, last, saved, check, build, ghosts, bounds>>

Crash ==
    /\ Fault
    /\ check' = Starting /\ build' = Waiting
    /\ saved' = disk /\ last' = 0
    /\ cut' = cut \cup Interrupted \cup {c \in Comics : c > disk.last}
    /\ UNCHANGED <<site, disk, copies, since, lost, buried, moves>>

Next ==
    \/ Publish \/ \E r \in Rooms : Moves(r) \/ SendRoom(r) \/ SendFails(r)
    \/ FirstAnswer \/ Poll \/ Gap \/ NotFetched \/ Fetched \/ BroadcastDone
    \/ BuildBegins \/ (\E ok \in BOOLEAN : BuildNext(ok)) \/ BuildPersists \/ BuildEnds
    \/ Reload \/ Flush \/ Crash

Spec == Init /\ [][Next]_vars

(* A room that has been a subscriber, and joined, since before a comic was  *)
(* published has been sent it when the last id passes it, unless a request  *)
(* or the send failed or the bot was new (catch_up_missing_comics); and it  *)
(* was sent it once,                                                        *)
(* unless its broadcast was interrupted or the save was not flushed.        *)
EveryComicOnce ==
    \A r \in Rooms : \A c \in Comics \ Missing :
        /\ c \in since[r] + 1 .. last => copies[r][c] > 0 \/ <<r, c>> \in lost
        /\ copies[r][c] > 1 => c \in cut

(* A comic that was posted is found by the search, unless an index that was *)
(* built from nothing replaced the one it was put in.                       *)
PostedIsIndexed ==
    \A r \in Rooms : \A c \in Comics :
        copies[r][c] > 0 /\ c \notin cut \cup buried => saved.index # None /\ c \in saved.index

(* The inductive invariant.  The saved id is the position of the check: up  *)
(* to it every comic was sent or is accounted for, beyond it only the comic *)
(* that is being sent, to the rooms that are no longer on the list; and     *)
(* what was posted is in the index, as stored and, as far as its id goes,   *)
(* as flushed.                                                              *)
PositionInv ==
    /\ last \in {0, saved.last} /\ disk.last <= saved.last /\ saved.last <= latest
    /\ check.at # "starting" => last = saved.last
    /\ check.at \in {"next", "sending"} =>
          check.next = saved.last + 1 /\ check.next <= check.upto /\ check.upto <= latest
    /\ build.upto <= latest /\ (build.at = "building" /\ build.live => saved.index # None)

SentInv ==
    \A r \in Rooms :
        /\ r \notin enabled \cap joined => since[r] = MaxComics
        /\ \A c \in Comics \ Missing :
              c > since[r] /\ c <= saved.last => copies[r][c] > 0 \/ <<r, c>> \in lost
        /\ check.at = "sending" /\ r \notin check.todo /\ check.next > since[r]
              => copies[r][check.next] > 0 \/ <<r, check.next>> \in lost
        /\ \A c \in Comics \ cut :
              /\ copies[r][c] <= 1
              /\ copies[r][c] > 0 /\ c > saved.last
                    => check.at = "sending" /\ c = check.next /\ r \notin check.todo

FoundIn(s, c) == s.index # None /\ c \in s.index

IndexInv ==
    /\ check.at = "sending" /\ check.next \notin buried => FoundIn(saved, check.next)
    /\ \A r \in Rooms : \A c \in Comics \ (cut \cup buried) : copies[r][c] > 0 =>
          FoundIn(saved, c) /\ (c <= disk.last => FoundIn(disk, c))

XkcdInv == PositionInv /\ SentInv /\ IndexInv
=============================================================================
