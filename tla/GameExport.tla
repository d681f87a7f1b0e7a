-------------------------------- MODULE GameExport --------------------------------
(***************************************************************************)
(* The public files of one IdleRPG room (plugins/idlerpg/export.py), which *)
(* a web site reads (contrib/idlerpg-site/index.php).  A thread writes     *)
(* them from a snapshot of the database: the files of the room, the chunks *)
(* of the season's history with their manifest, and last a generation that *)
(* lists the hashes of all of them.  A reader takes only files that have   *)
(* the hashes of one generation.                                           *)
(*                                                                         *)
(* A file is what was exported into it, and its hash is that too.  The     *)
(* coroutine that has started the thread may be cancelled: the thread goes *)
(* on, and the lock is free for another one.                               *)
(***************************************************************************)
EXTENDS Integers, FiniteSets

CONSTANTS
    Workers,    \* the threads that write
    Free,
    MaxCommits, \* bound on the saves of the game
    MaxFaults   \* bound on failures, cancellations and crashes

GameExportAssumption == Free \notin Workers /\ MaxFaults \in Nat

VARIABLES
    db,        \* committed: the room's state and the revision of its season's events
    commits,   \* ghost: everything that was ever committed
    enabled,   \* the room plays IdleRPG
    cursor,    \* _PUBLIC_EXPORT_SEASON_REVISIONS: what the history on disk has reached
    waits,     \* the interval between two exports is not over
    lock,      \* _public_export_lock: the thread that its holder waits for
    thread,    \* per thread: what it does
    disk,      \* the files: room.json, the chunks and season_events.json
    generation,\* generation.json: the hashes of the files that it commits
    abandoned, \* ghost: a thread was left alone, and no full export has followed
    faults

vars == <<db, commits, enabled, cursor, waits, lock, thread, disk, generation, abandoned, faults>>

Files == {"room", "chunks", "manifest"}
NoState == [season |-> 0, n |-> 0]
Contents == [season : Nat, n : Int]
NoFiles == [f \in Files |-> NoState]
Idle == [pc |-> "idle", mode |-> "full", db |-> [room |-> NoState, events |-> NoState],
         base |-> NoState, current |-> NoFiles, alone |-> TRUE]

Rooms == [room : Contents, events : Contents]
TypeOK ==
    /\ db \in Rooms /\ commits \subseteq Rooms /\ enabled \in BOOLEAN
    /\ cursor \in Contents /\ waits \in BOOLEAN
    /\ lock \in Workers \union {Free}
    /\ thread \in [Workers -> [pc : {"idle", "room", "chunks", "manifest", "remove", "publish"},
                               mode : {"full", "append", "preserve", "off"}, db : Rooms,
                               base : Contents, current : [Files -> Contents],
                               alone : BOOLEAN]]
    /\ disk \in [Files -> Contents] /\ generation \in [Files -> Contents]
    /\ abandoned \in BOOLEAN /\ faults \in 0..MaxFaults

Init ==
    /\ db = [room |-> [season |-> 1, n |-> 1], events |-> [season |-> 1, n |-> 0]]
    /\ commits = {db} /\ enabled = TRUE /\ cursor = NoState /\ waits = FALSE /\ lock = Free
    /\ thread = [w \in Workers |-> Idle] /\ disk = NoFiles /\ generation = NoFiles
    /\ abandoned = FALSE /\ faults = 0

-----------------------------------------------------------------------------
(* The game saves: with an event or without one, or with a season that ends.*)
SaveState ==
    /\ db.room.n < MaxCommits
    /\ \E e \in {db.events, [db.events EXCEPT !.n = @ + 1], [season |-> db.events.season + 1, n |-> 1]} :
           db' = [room |-> [season |-> e.season, n |-> db.room.n + 1], events |-> e]
    /\ commits' = commits \union {db'}
    /\ UNCHANGED <<enabled, cursor, waits, lock, thread, disk, generation, abandoned, faults>>

Toggle ==
    /\ db.room.n < MaxCommits /\ enabled' = ~enabled
    /\ UNCHANGED <<db, commits, cursor, waits, lock, thread, disk, generation, abandoned, faults>>

TimePasses ==
    /\ waits /\ waits' = FALSE
    /\ UNCHANGED <<db, commits, enabled, cursor, lock, thread, disk, generation, abandoned, faults>>

Active == {w \in Workers : thread[w].pc # "idle"}

(* load_export_snapshot: how the history is written, by what is known to be *)
(* on disk.  A forced export writes everything.                             *)
Mode(forced) ==
    CASE ~enabled -> "off"
      [] enabled /\ ~forced /\ cursor = db.events -> "preserve"
      [] enabled /\ ~forced /\ cursor # db.events /\ cursor # NoState
                 /\ cursor.season = db.events.season -> "append"
      [] OTHER -> "full"

(* A tree of files without a generation is given one first.                 *)
BootstrapExistingGenerations ==
    generation' = IF generation = NoFiles THEN disk ELSE generation

RefreshPublicExport(w, forced) ==
    /\ lock = Free /\ thread[w] = Idle /\ (forced \/ ~waits) /\ lock' = w
    /\ thread' = [thread EXCEPT ![w] =
           [pc |-> IF enabled THEN "room" ELSE "remove", mode |-> Mode(forced), db |-> db,
            base |-> cursor, current |-> NoFiles, alone |-> Active = {}]]
    /\ BootstrapExistingGenerations
    /\ UNCHANGED <<db, commits, enabled, cursor, waits, disk, abandoned, faults>>

-----------------------------------------------------------------------------
(* _DeltaExportWriter: a file is put in place and its hash noted.           *)
Put(w, file, content, next) ==
    /\ disk' = [disk EXCEPT ![file] = content]
    /\ thread' = [thread EXCEPT ![w].pc = next, ![w].current[file] = content]

(* A file that is unchanged is listed with the hash that it has now.        *)
Preserve(w, file, next) ==
    /\ thread' = [thread EXCEPT ![w].pc = next, ![w].current[file] = disk[file]]
    /\ disk' = disk

WriteRoom(w) ==
    /\ thread[w].pc = "room" /\ Put(w, "room", thread[w].db.room, "chunks")
    /\ UNCHANGED <<db, commits, enabled, cursor, waits, lock, generation, abandoned, faults>>

(* What an append asks of the manifest that it finds.                       *)
AppendFits(w) == disk["manifest"] = thread[w].base

WriteChunks(w) ==
    /\ thread[w].pc = "chunks"
    /\ \/ thread[w].mode = "full" /\ Put(w, "chunks", thread[w].db.events, "manifest")
       \/ thread[w].mode = "append" /\ AppendFits(w)
          /\ Put(w, "chunks", [disk["chunks"] EXCEPT !.n = @ + thread[w].db.events.n - thread[w].base.n],
                 "manifest")
       \/ thread[w].mode = "preserve" /\ disk["manifest"] # NoState
          /\ Preserve(w, "chunks", "manifest")
    /\ UNCHANGED <<db, commits, enabled, cursor, waits, lock, generation, abandoned, faults>>

WriteManifest(w) ==
    /\ thread[w].pc = "manifest"
    /\ IF thread[w].mode = "preserve" THEN Preserve(w, "manifest", "publish")
       ELSE Put(w, "manifest", thread[w].db.events, "publish")
    /\ UNCHANGED <<db, commits, enabled, cursor, waits, lock, generation, abandoned, faults>>

(* A room that does not play any more: its files go.                        *)
RemoveRoom(w) ==
    /\ thread[w].pc = "remove" /\ disk' = NoFiles /\ thread' = [thread EXCEPT ![w].pc = "publish"]
    /\ UNCHANGED <<db, commits, enabled, cursor, waits, lock, generation, abandoned, faults>>

-----------------------------------------------------------------------------
(* _record_public_export_result: only when the coroutine is still there.    *)
Cursor_Kept(w, ok) == IF ok THEN thread[w].db.events ELSE cursor
CursorAfter(w, ok) == IF ok /\ thread[w].mode # "off" THEN thread[w].db.events ELSE NoState

Ends(w, ok) ==
    /\ thread' = [thread EXCEPT ![w] = Idle]
    /\ IF lock = w
       THEN lock' = Free /\ waits' = ok /\ cursor' = CursorAfter(w, ok)
       ELSE UNCHANGED <<lock, waits, cursor>>

(* finish: the generation is put in place when every file is.               *)
Finish(w) ==
    /\ thread[w].pc = "publish" /\ generation' = thread[w].current /\ Ends(w, TRUE)
    /\ abandoned' = (abandoned /\ ~(lock = w /\ thread[w].alone /\ thread[w].mode \in {"full", "off"}))
    /\ UNCHANGED <<db, commits, enabled, disk, faults>>

(* The write of a file fails, or the append does not fit.                   *)
Fails(w) ==
    /\ thread[w].pc # "idle"
    /\ IF thread[w].pc = "chunks" /\ thread[w].mode = "append" /\ ~AppendFits(w)
       THEN faults' = faults
       ELSE faults < MaxFaults /\ faults' = faults + 1
    /\ Ends(w, FALSE)
    /\ UNCHANGED <<db, commits, enabled, disk, generation, abandoned>>

(* The game loop is cancelled while it waits for its thread.                *)
Cancelled(w) ==
    /\ lock = w /\ faults < MaxFaults /\ faults' = faults + 1 /\ lock' = Free
    /\ abandoned' = TRUE
    /\ UNCHANGED <<db, commits, enabled, cursor, waits, thread, disk, generation>>

Crash ==
    /\ faults < MaxFaults /\ faults' = faults + 1
    /\ thread' = [w \in Workers |-> Idle] /\ lock' = Free /\ cursor' = NoState /\ waits' = FALSE
    /\ UNCHANGED <<db, commits, enabled, disk, generation, abandoned>>

Step(w) ==
    \/ WriteRoom(w) \/ WriteChunks(w) \/ WriteManifest(w) \/ RemoveRoom(w) \/ Finish(w) \/ Fails(w)

Next ==
    \/ SaveState \/ Toggle \/ TimePasses \/ Crash
    \/ \E w \in Workers :
           \/ (\E forced \in BOOLEAN : RefreshPublicExport(w, forced)) \/ Step(w) \/ Cancelled(w)

Spec == Init /\ [][Next]_vars

-----------------------------------------------------------------------------
(* What one generation lists was committed together: a reader never sees    *)
(* the players of one save with the history of another, nor a history that  *)
(* has lost or repeated an event.  Only the files that a first export has   *)
(* left behind may be incomplete.                                           *)
Whole(g) ==
    \/ \E c \in commits : g["room"] = c.room /\ g["chunks"] = c.events /\ g["manifest"] = c.events
    \/ g["manifest"] = NoState

GenerationsAreWhole == abandoned \/ Whole(generation)

(* What keeps them.  A thread that holds the lock, and was alone when it    *)
(* started, is alone: what it has written is what is there.  Unless a       *)
(* thread was left alone there is no other, the cursor is what the history  *)
(* on disk has reached, and so appending to it and preserving it are right. *)
SnapshotsInv ==
    /\ db \in commits /\ \A c \in commits : c.events.season # 0
    /\ \A w \in Active : thread[w].db \in commits

Sole(w) == lock = w /\ w \in Active /\ thread[w].alone

Written(w, file, content) == disk[file] = content /\ thread[w].current[file] = content

\* the steps that a thread has behind it
Progress(w) ==
    LET t == thread[w]
    IN  /\ t.pc \in {"room", "chunks", "manifest"} => t.mode # "off"
        /\ t.pc = "remove" => t.mode = "off" /\ t.current = NoFiles
        /\ t.pc = "publish" /\ t.mode = "off" => disk = NoFiles /\ t.current = NoFiles
        /\ t.pc \in {"chunks", "manifest", "publish"} /\ t.mode # "off" =>
               Written(w, "room", t.db.room)
        /\ t.mode = "full" \/ (~abandoned /\ t.mode # "off") =>
               /\ t.pc \in {"manifest", "publish"} => Written(w, "chunks", t.db.events)
               /\ t.pc = "publish" => Written(w, "manifest", t.db.events)

\* what an append, or an export that leaves the history as it is, relies on
Based(w) ==
    LET t == thread[w]
    IN  /\ t.mode = "append" => t.base.season = t.db.events.season
        /\ t.mode = "preserve" => t.base = t.db.events
        /\ t.mode \in {"append", "preserve"} /\ t.pc \in {"room", "chunks"} =>
               disk["chunks"] = t.base /\ disk["manifest"] = t.base
        /\ t.mode = "preserve" /\ t.pc = "manifest" => disk["manifest"] = t.base
        /\ generation = NoFiles /\ t.pc \in {"room", "chunks", "manifest"} =>
               disk["manifest"] = NoState

SoleInv == \A w \in Workers : Sole(w) => Active = {w} /\ Progress(w)

ReachedInv ==
    ~abandoned =>
        /\ \A w \in Active : Sole(w) /\ Based(w)
        /\ Whole(generation) /\ (generation = NoFiles => Whole(disk))
        /\ Active = {} /\ cursor # NoState => disk["chunks"] = cursor /\ disk["manifest"] = cursor

ExportInv == SnapshotsInv /\ SoleInv /\ ReachedInv

(* "One export generation can never combine player/season state from one    *)
(* commit with event history from a later commit."                          *)
NeverCombined ==
    generation["room"] # NoState /\ generation["manifest"] # NoState =>
        \E c \in commits : generation["room"] = c.room /\ generation["manifest"] = c.events
=============================================================================
