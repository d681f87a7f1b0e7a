-------------------------------- MODULE GameStore --------------------------------
(***************************************************************************)
(* The state of one IdleRPG room: an object in memory that every handler   *)
(* changes in place (plugins/idlerpg/state.py), and its rows in the        *)
(* database (database/idlerpg.py), which a save brings up to date by what  *)
(* it knows of them: a hash per row and the events that are marked recent. *)
(*                                                                         *)
(* A handler gets the object, changes it and records an event; then it     *)
(* saves.  A save reads the object while others change it.  An object that *)
(* is loaded is the one that all handlers use, until another load that     *)
(* has begun before gives a second one.                                    *)
(*                                                                         *)
(* A character is the number of the edit that made it (0: there is none),  *)
(* its row and its hash are that too.                                      *)
(***************************************************************************)
EXTENDS Integers, Sequences, FiniteSets, SequencesExt

CONSTANTS
    Handlers,      \* commands, presences and ticks that run at once
    Jids,
    Nobody,
    EventLogLimit, \* EVENT_LOG_LIMIT: how many recent events are kept in memory
    MaxEdits,      \* bound on the edits
    MaxFaults      \* bound on failed saves and crashes

(* A save sees at most one edit of every other handler.                     *)
GameStoreAssumption == Nobody \notin Handlers /\ EventLogLimit >= Cardinality(Handlers)

VARIABLES
    rows,     \* committed: characters, events, which of them are recent, the season
    known,    \* the hashes and the recent events that the store remembers
    ready,    \* _cache_ready
    lock,     \* the lock of the store: who saves
    work,     \* the rows of the open transaction, and the new hashes
    object,   \* per handler: an object that it has loaded
    cache,    \* bot._idlerpg_state_cache: the handler whose object it is
    handler,  \* per handler: [pc, data: whose object it works with, todo]
    edits,    \* how many edits there were
    recorded, \* ghost: the events of the season
    twice,    \* ghost: an object was loaded while there was another one
    missed,   \* ghost: a save has failed, and no later one has repaired it
    faults

vars == <<rows, known, ready, lock, work, object, cache, handler, edits, recorded, twice, missed,
          faults>>

Edits == 0..MaxEdits
Rows == [players : [Jids -> Edits], events : SUBSET Edits, recent : SUBSET Edits, season : Edits]
Known == [players : [Jids -> Edits], recent : SUBSET Edits, season : Edits]
NoRows == [players |-> [j \in Jids |-> 0], events |-> {}, recent |-> {}, season |-> 0]
KnownOf(r) == [players |-> r.players, recent |-> r.recent, season |-> r.season]
Blank == [players |-> NoRows.players, events |-> <<>>, pending |-> {}, season |-> 0]
NoWork == [rows |-> NoRows, known |-> KnownOf(NoRows)]
Idle == [pc |-> "idle", data |-> Nobody, todo |-> {}]

Logs == UNION {[1..n -> Edits] : n \in 0..EventLogLimit}
TypeOK ==
    /\ rows \in Rows /\ known \in Known /\ ready \in BOOLEAN
    /\ lock \in Handlers \union {Nobody}
    /\ work \in [rows : Rows, known : Known]
    /\ object \in [Handlers -> [players : [Jids -> Edits], events : Logs, pending : SUBSET Edits,
                                season : Edits]]
    /\ cache \in Handlers \union {Nobody}
    /\ handler \in [Handlers -> [pc : {"idle", "load", "edit", "save", "players", "events", "log",
                                       "commit"},
                                 data : Handlers \union {Nobody}, todo : SUBSET (Jids \X Edits)]]
    /\ edits \in Edits /\ recorded \subseteq Edits
    /\ twice \in BOOLEAN /\ missed \in BOOLEAN /\ faults \in 0..MaxFaults

Init ==
    /\ rows = NoRows /\ known = KnownOf(NoRows) /\ ready = FALSE /\ lock = Nobody /\ work = NoWork
    /\ object = [h \in Handlers |-> Blank] /\ cache = Nobody
    /\ handler = [h \in Handlers |-> Idle]
    /\ edits = 0 /\ recorded = {} /\ twice = FALSE /\ missed = FALSE /\ faults = 0

Goes(h, pc) == handler' = [handler EXCEPT ![h].pc = pc]

-----------------------------------------------------------------------------
(* The object that is there is given at once; a load waits for the lock.    *)
GetData(h) ==
    /\ handler[h] = Idle /\ edits < MaxEdits
    /\ handler' = [handler EXCEPT ![h] =
           IF cache # Nobody THEN [Idle EXCEPT !.pc = "edit", !.data = cache]
           ELSE [Idle EXCEPT !.pc = "load", !.data = h]]
    /\ UNCHANGED <<rows, known, ready, lock, work, object, cache, edits, recorded, twice,
                   missed, faults>>

(* The rows by their order: the events that are marked recent, oldest first.*)
LoadStateLocked ==
    [players |-> rows.players, events |-> SetToSortSeq(rows.recent, <), pending |-> {},
     season |-> rows.season]

LoadState(h) ==
    /\ handler[h].pc = "load" /\ lock = Nobody
    /\ object' = [object EXCEPT ![h] = LoadStateLocked]
    /\ known' = KnownOf(rows) /\ ready' = TRUE /\ cache' = h
    /\ twice' = (twice \/ cache # Nobody)
    /\ Goes(h, "edit")
    /\ UNCHANGED <<rows, lock, work, edits, recorded, missed, faults>>

(* The snapshot for an export reads the same rows, and forgets what it read.*)
LoadExportSnapshot ==
    /\ lock = Nobody /\ known' = KnownOf(rows) /\ ready' = TRUE
    /\ UNCHANGED <<rows, lock, work, object, cache, handler, edits, recorded, twice, missed,
                   faults>>

-----------------------------------------------------------------------------
(* _prune_events: the last EventLogLimit events stay.                       *)
PruneLog(log) == IF Len(log) > EventLogLimit THEN Tail(log) ELSE log

(* _record_event: in the log and among those that are to be saved.          *)
RecordEvent(o, e) == [o EXCEPT !.events = PruneLog(Append(@, e)), !.pending = @ \union {e}]

(* What a handler does to the object: it registers or changes a character,  *)
(* removes it, or ends the season; with one event.                          *)
Edit(h) ==
    /\ handler[h].pc = "edit" /\ edits < MaxEdits /\ edits' = edits + 1
    /\ LET d == handler[h].data
           o == object[d]
       IN  \/ \E j \in Jids, v \in {0, edits'} :
                  /\ v # o.players[j]
                  /\ object' = [object EXCEPT ![d] = RecordEvent([o EXCEPT !.players[j] = v], edits')]
                  /\ recorded' = recorded \union {edits'}
           \/ /\ object' = [object EXCEPT ![d] = RecordEvent([o EXCEPT !.season = edits'], edits')]
              /\ recorded' = {edits'}
    /\ Goes(h, "save")
    /\ UNCHANGED <<rows, known, ready, lock, work, cache, twice, missed, faults>>

-----------------------------------------------------------------------------
(* save_state: with the lock, on copies of what is known, in a transaction. *)
(* The row of the room and the characters that are gone come first.         *)
SaveState(h) ==
    /\ handler[h].pc = "save" /\ lock = Nobody /\ lock' = h
    /\ LET o == object[handler[h].data]
           base == IF ready THEN known ELSE KnownOf(rows)
           gone == {j \in Jids : base.players[j] # 0 /\ o.players[j] = 0}
           Without(p) == [j \in Jids |-> IF j \in gone THEN 0 ELSE p[j]]
       IN  /\ work' = [rows |-> [rows EXCEPT !.players = Without(@)],
                       known |-> [base EXCEPT !.players = Without(@)]]
           /\ known' = base /\ ready' = TRUE
           /\ handler' = [handler EXCEPT ![h].pc = "players",
                              ![h].todo = {<<j, o.players[j]>> : j \in {i \in Jids : o.players[i] # 0}}]
    /\ UNCHANGED <<rows, object, cache, edits, recorded, twice, missed, faults>>

(* _save_players: one by one, as they are when their turn comes; a row that *)
(* has the hash already is left.  One that has gone since is written as it  *)
(* was, which is its hash then.                                             *)
SavePlayer(h) ==
    /\ handler[h].pc = "players" /\ handler[h].todo # {}
    /\ \E t \in handler[h].todo :
           LET j == t[1]
               now == object[handler[h].data].players[j]
               v == IF now # 0 THEN now ELSE t[2]
           IN  /\ work' = [rows |-> [work.rows EXCEPT !.players[j] = IF known.players[j] = v
                                                                        THEN @
                                                                        ELSE v],
                           known |-> [work.known EXCEPT !.players[j] = v]]
               /\ handler' = [handler EXCEPT ![h].todo = @ \ {t}]
    /\ UNCHANGED <<rows, known, ready, lock, object, cache, edits, recorded, twice, missed, faults>>

SaveSeasons(h) ==
    /\ handler[h].pc = "players" /\ handler[h].todo = {}
    /\ LET o == object[handler[h].data]
       IN  work' = [rows |-> [work.rows EXCEPT !.season = IF known.season = o.season THEN @
                                                          ELSE o.season],
                    known |-> [work.known EXCEPT !.season = o.season]]
    /\ Goes(h, "events")
    /\ UNCHANGED <<rows, known, ready, lock, object, cache, edits, recorded, twice, missed, faults>>

(* _prepare_events: the log and what is to be saved, as they are now.       *)
PrepareEvents(h) ==
    /\ handler[h].pc = "events"
    /\ LET o == object[handler[h].data]
           recent == ToSet(o.events)
       IN  work' = [rows |-> [work.rows EXCEPT !.events = @ \union recent \union o.pending,
                                               !.recent = (@ \ (known.recent \ recent)) \union recent],
                    known |-> [work.known EXCEPT !.recent = recent]]
    /\ Goes(h, "log")
    /\ UNCHANGED <<rows, known, ready, lock, object, cache, edits, recorded, twice, missed, faults>>

(* After the rows are written nothing is to be saved any more, which is     *)
(* said of what came in the meantime too.                                   *)
SaveEvents(h) ==
    /\ handler[h].pc = "log"
    /\ object' = [object EXCEPT ![handler[h].data].pending = {}]
    /\ Goes(h, "commit")
    /\ UNCHANGED <<rows, known, ready, lock, work, cache, edits, recorded, twice, missed, faults>>

(* The transaction is committed, and only then the hashes are the new ones. *)
Commit(h) ==
    /\ handler[h].pc = "commit"
    /\ rows' = work.rows /\ known' = work.known /\ work' = NoWork
    /\ lock' = Nobody /\ cache' = handler[h].data
    /\ twice' = (twice \/ cache # handler[h].data)
    /\ missed' = FALSE
    /\ handler' = [handler EXCEPT ![h] = Idle]
    /\ UNCHANGED <<ready, object, edits, recorded, faults>>

KnownAfterFailure_Kept(h) == work.known
KnownAfterFailure(h) == known

(* A statement or the commit fails, or the handler is cancelled.  The events *)
(* that are not to be saved any more are in the log only, as long as it has *)
(* room: nothing is promised of them.                                       *)
Fails(h) ==
    /\ lock = h /\ faults < MaxFaults /\ faults' = faults + 1
    /\ work' = NoWork /\ lock' = Nobody /\ missed' = TRUE
    /\ known' = KnownAfterFailure(h)
    /\ recorded' = IF handler[h].pc = "commit"
                   THEN recorded \intersect (rows.events \union object[handler[h].data].pending)
                   ELSE recorded
    /\ handler' = [handler EXCEPT ![h] = Idle]
    /\ UNCHANGED <<rows, ready, object, cache, edits, twice>>

(* prune_events: what is old, not recent and not of the season that the     *)
(* database has.                                                            *)
PruneEvents ==
    /\ lock = Nobody
    /\ rows' = [rows EXCEPT !.events = {e \in @ : e \in rows.recent \/ e >= rows.season}]
    /\ UNCHANGED <<known, ready, lock, work, object, cache, handler, edits, recorded, twice, missed,
                   faults>>

Crash ==
    /\ faults < MaxFaults /\ faults' = faults + 1
    /\ known' = KnownOf(NoRows) /\ ready' = FALSE /\ lock' = Nobody /\ work' = NoWork
    /\ object' = [h \in Handlers |-> Blank] /\ cache' = Nobody
    /\ handler' = [h \in Handlers |-> Idle]
    /\ recorded' = {e \in rows.events : e >= rows.season} /\ twice' = FALSE /\ missed' = FALSE
    /\ UNCHANGED <<rows, edits>>

Works(h) ==
    \/ LoadState(h) \/ Edit(h) \/ SaveState(h) \/ SavePlayer(h) \/ SaveSeasons(h) \/ PrepareEvents(h)
    \/ SaveEvents(h) \/ Commit(h)

Next ==
    \/ LoadExportSnapshot \/ PruneEvents \/ Crash
    \/ \E h \in Handlers : GetData(h) \/ Works(h) \/ Fails(h)

Spec == Init /\ [][Next]_vars

-----------------------------------------------------------------------------
(* What the store remembers of the rows is what they are: a hash of a row   *)
(* that was rolled back would keep that row from ever being written.        *)
HashesAreTrue == ready => known = KnownOf(rows)

(* When no handler is at work, all that was changed is in the database:     *)
(* every character as it is in memory, the season, and every event of the   *)
(* season, whatever came while others saved.                                *)
AllIsSaved ==
    (\A h \in Handlers : handler[h] = Idle) /\ cache # Nobody /\ ~twice /\ ~missed =>
        /\ rows.players = object[cache].players /\ rows.season = object[cache].season
        /\ recorded \subseteq rows.events
=============================================================================
