------------------------------ MODULE UserStore ------------------------------
(***************************************************************************)
(* database/users.py: the read-through, write-behind caches in front of    *)
(* the tables users and users_runtime, with the flush of                   *)
(* database/manager.py (_flush_loop, _flush_with_retry, close).            *)
(*                                                                         *)
(* The database is the one Transactions describes: one unit of work at a   *)
(* time, all or nothing.  An operation on a cached entry runs without      *)
(* giving up the event loop and is one step here.  An operation on an      *)
(* entry that is not cached first reads the row under the database lock,   *)
(* and what it does with the row is a second step: between the two every   *)
(* other task may run.                                                     *)
(*                                                                         *)
(* An entry is a record of fields: the columns of a user row, or one field *)
(* per plugin for a runtime blob.  A written value is the number of the    *)
(* change that wrote it; 0 is a missing field.                             *)
(***************************************************************************)
EXTENDS Naturals, FiniteSets, TLC

CONSTANTS
    Clients,        \* tasks running commands and event handlers
    Jids,           \* user JIDs, and the JID of the plugin-global blob
    Global,         \* GLOBAL_JID
    Fields,         \* columns / plugin namespaces
    Absent,         \* no row, no cache entry
    None,           \* no operation in progress
    Limit,          \* user_cache_max_entries, user_runtime_cache_max_entries
    MaxChanges,     \* bound: changes made in a run
    MaxFlushErrors, \* bound: flush transactions that fail for a reason of SQLite's
    MaxCrashes,     \* bound: times the process dies
    SharedLoads,    \* may two tasks read the same uncached entry at once?
    DeleteRaces     \* may a user be deleted while an operation on it waits for its row?

Kinds == {"users", "runtime"}
Ops == {"get", "set", "drop", "ensure"}
Retries == 3        \* _flush_with_retry(max_retries=3)

ASSUME UserStoreAssumption ==
    /\ Global \in Jids
    /\ Limit \in Nat \ {0}
    /\ MaxChanges \in Nat /\ MaxFlushErrors \in Nat /\ MaxCrashes \in Nat
    /\ SharedLoads \in BOOLEAN /\ DeleteRaces \in BOOLEAN
    /\ Absent \notin [Fields -> 0 .. MaxChanges]

VARIABLES
    db,         \* the committed tables
    cache,      \* _users_cache and _runtime_cache
    dirty,      \* _dirty_users and _dirty_runtime
    task,       \* per client: the operation waiting for its row, or None
    flush,      \* "idle", "waiting" for the database lock, or "writing"
    snapshot,   \* the dirty entries this flush set out to write
    unchanged,  \* those whose dirty version is still the snapshot's
    todo,       \* those not yet written
    staged,     \* the tables as the open flush transaction sees them
    mode,       \* "up", "closing", "closed", or "failed" (close() raised)
    attempts,   \* failed attempts of the current _flush_with_retry
    told,       \* the entries as the operations that returned describe them
    raced,      \* entries two tasks loaded at once, or deleted while loading
    changes, errors, crashes    \* how much of each bound is used

memory == <<cache, dirty, unchanged>>
flushVars == <<flush, snapshot, todo, staged>>
bounds == <<changes, errors, crashes>>
ghosts == <<told, raced>>
vars == <<db, memory, task, flushVars, mode, attempts, ghosts, bounds>>

Entries == Kinds \X Jids
Fresh == [f \in Fields |-> 0]
Values == [Fields -> 0 .. MaxChanges] \cup {Absent}
Tables == [Kinds -> [Jids -> Values]]
Operation == [kind : Kinds, jid : Jids, op : Ops, field : Fields]

TypeOK ==
    /\ db \in Tables /\ cache \in Tables /\ staged \in Tables /\ told \in Tables
    /\ dirty \subseteq Entries
    /\ task \in [Clients -> Operation \cup {None}]
    /\ flush \in {"idle", "waiting", "writing"}
    /\ unchanged \subseteq snapshot
    /\ todo \subseteq snapshot
    /\ snapshot \subseteq Entries
    /\ mode \in {"up", "closing", "closed", "failed"}
    /\ attempts \in 0 .. Retries
    /\ raced \subseteq Entries
    /\ changes \in 0 .. MaxChanges

(* The database after init(): the global user and its blob exist and the    *)
(* blob is cached; the other JIDs have a row each or none.                  *)
Init ==
    /\ \E known \in SUBSET (Jids \ {Global}) :
           db = [k \in Kinds |-> [j \in Jids |->
                    IF j \in known \cup {Global} THEN Fresh ELSE Absent]]
    /\ cache = [k \in Kinds |-> [j \in Jids |->
                    IF k = "runtime" /\ j = Global THEN Fresh ELSE Absent]]
    /\ dirty = {}
    /\ task = [c \in Clients |-> None]
    /\ flush = "idle"
    /\ snapshot = {}
    /\ unchanged = {}
    /\ todo = {}
    /\ staged = db
    /\ mode = "up"
    /\ attempts = 0
    /\ told = db
    /\ raced = {}
    /\ changes = 0
    /\ errors = 0
    /\ crashes = 0

-----------------------------------------------------------------------------
(* Cache eviction.                                                          *)

Cached(c, k) == {j \in Jids : c[k][j] # Absent}
Pinned(k) == IF k = "runtime" THEN {Global} ELSE {}
Evictable_Dirty(c, d, k) == Cached(c, k) \ Pinned(k)
Evictable(c, d, k) == {j \in Cached(c, k) \ Pinned(k) : <<k, j>> \notin d}

Without(c, gone) ==
    [k \in Kinds |-> [j \in Jids |-> IF <<k, j>> \in gone THEN Absent ELSE c[k][j]]]

(* What one prune pass may remove from cache k: expired entries, then least *)
(* recently used ones while the cache is over its limit.  The entry touched *)
(* last is never expired and goes last.                                     *)
PrunedFrom(c, d, k, touched) ==
    {gone \in SUBSET Evictable(c, d, k) :
        /\ \/ Cardinality(Cached(c, k) \ gone) <= Limit
           \/ gone = Evictable(c, d, k)
        /\ touched \in gone =>
               /\ gone = Evictable(c, d, k)
               /\ Cardinality(Cached(c, k) \ (gone \ {touched})) > Limit}

(* The caches after a prune pass over both, k/touched being the entry just  *)
(* used.                                                                    *)
PrunedOne(c, d, m, touched) == {Without(c, {m} \X gone) : gone \in PrunedFrom(c, d, m, touched)}
Pruned(c, d, k, touched) ==
    LET last(m) == IF m = k THEN touched ELSE None
    IN UNION {PrunedOne(u, d, "runtime", last("runtime")) :
                  u \in PrunedOne(c, d, "users", last("users"))}

(* A touch prunes when the prune interval has passed.                       *)
AfterTouch(c, d, k, j) == Pruned(c, d, k, j) \cup {c}

Put(c, k, j, e) == [c EXCEPT ![k][j] = e]

-----------------------------------------------------------------------------
(* Operations of PluginRuntimeStore and UserManager.                        *)

MarkDirty_Forgotten(k, j) == UNCHANGED <<dirty, unchanged>>
MarkDirty(k, j) ==
    /\ dirty' = dirty \cup {<<k, j>>}
    /\ unchanged' = unchanged \ {<<k, j>>}

Change(o, e) == IF o.op = "set" THEN [e EXCEPT ![o.field] = changes + 1]
                                ELSE [e EXCEPT ![o.field] = 0]
Changing(o, e) == o.op = "set" \/ (o.op = "drop" /\ e[o.field] # 0)

(* Everything an operation does once its entry e is at hand: touch the      *)
(* cache, which may prune it, and then change the entry and mark it dirty.  *)
(* UserManager.set keeps the row it was given, so it changes a detached row *)
(* if the prune dropped it; the runtime store looks the entry up again and  *)
(* raises a KeyError.                                                       *)
Perform(o, e) ==
    \E c \in AfterTouch(Put(cache, o.kind, o.jid, e), dirty, o.kind, o.jid) :
        LET kept == c[o.kind][o.jid] # Absent
            done == Changing(o, e) /\ (kept \/ o.kind = "users")
        IN IF done
           THEN /\ changes < MaxChanges
                /\ cache' = IF kept THEN Put(c, o.kind, o.jid, Change(o, e)) ELSE c
                /\ told' = [told EXCEPT ![o.kind][o.jid] = Change(o, IF @ = Absent THEN Fresh
                                                                     ELSE @)]
                /\ changes' = changes + 1
                /\ MarkDirty(o.kind, o.jid)
           ELSE /\ cache' = c
                /\ UNCHANGED <<dirty, unchanged, told, changes>>

(* create(): a new row, cached and dirty before the cache is pruned.        *)
Create(j) ==
    /\ MarkDirty("users", j)
    /\ cache' \in AfterTouch(Put(cache, "users", j, Fresh), dirty', "users", j)
    /\ told' = [told EXCEPT !["users"][j] = Fresh]
    /\ UNCHANGED changes

(* What callers ask for: they have looked the user up before they write to  *)
(* its runtime blob (track_room_nick).                                      *)
Wanted(o) ==
    /\ o.op = "drop" => o.kind = "runtime"
    /\ o.op = "ensure" => o.kind = "users"
    /\ o.jid = Global => o.kind = "runtime"
    /\ o.kind = "runtime" /\ o.op = "set" => told["users"][o.jid] # Absent

(* The entry is cached: get()/set()/delete() run to their end.              *)
Hit(c, o) ==
    /\ mode = "up"
    /\ task[c] = None
    /\ Wanted(o)
    /\ cache[o.kind][o.jid] # Absent
    /\ Perform(o, cache[o.kind][o.jid])
    /\ UNCHANGED <<db, task, flushVars, mode, attempts, raced, errors, crashes>>

Loading(c, o) ==
    IF task[c] = None THEN FALSE ELSE <<task[c].kind, task[c].jid>> = <<o.kind, o.jid>>

(* It is not: the task asks for the row and waits for the database lock.    *)
Miss(c, o) ==
    /\ mode = "up"
    /\ task[c] = None
    /\ Wanted(o)
    /\ cache[o.kind][o.jid] = Absent
    /\ LET shared == \E d \in Clients : Loading(d, o)
       IN /\ shared => SharedLoads
          /\ raced' = IF shared THEN raced \cup {<<o.kind, o.jid>>} ELSE raced
    /\ task' = [task EXCEPT ![c] = o]
    /\ UNCHANGED <<db, memory, flushVars, mode, attempts, told, bounds>>

(* The row arrives and is stored over whatever the cache now holds.  A user *)
(* without a row stays uncached and "ensure" (get, then create when there   *)
(* is none) creates it unless another task did; a runtime blob without a    *)
(* row starts empty.                                                        *)
Loaded(c) ==
    /\ task[c] # None
    /\ LET o == task[c]
           row == db[o.kind][o.jid]
       IN /\ mode = "up"
          /\ flush # "writing"
          /\ task' = [task EXCEPT ![c] = None]
          /\ \/ /\ row # Absent
                /\ Perform(o, row)
             \/ /\ row = Absent
                /\ o.kind = "runtime"
                /\ Perform(o, Fresh)
             \/ /\ row = Absent
                /\ o.op = "ensure"
                /\ cache["users"][o.jid] = Absent
                /\ Create(o.jid)
             \/ /\ row = Absent
                /\ o.kind = "users"
                /\ o.op # "ensure" \/ cache["users"][o.jid] # Absent
                /\ UNCHANGED <<memory, told, changes>>
          /\ UNCHANGED <<db, flushVars, mode, attempts, raced, errors, crashes>>

(* delete(): both rows in one transaction, then both cache entries and      *)
(* their dirty marks.                                                       *)
Uncached_Kept(j) == cache
Uncached(j) == Without(cache, Kinds \X {j})
Unmarked_Kept(j) == dirty
Unmarked(j) == dirty \ (Kinds \X {j})

Delete(j) ==
    /\ mode = "up"
    /\ flush # "writing"
    /\ j # Global
    /\ told["users"][j] # Absent
    /\ LET loading == {e \in Kinds \X {j} :
                          \E c \in Clients : Loading(c, [kind |-> e[1], jid |-> j])}
       IN /\ loading # {} => DeleteRaces
          /\ raced' = raced \cup loading
    /\ db' = Without(db, Kinds \X {j})
    /\ staged' = db'
    /\ cache' = Uncached(j)
    /\ dirty' = Unmarked(j)
    /\ unchanged' = unchanged \ (Kinds \X {j})
    /\ told' = Without(told, Kinds \X {j})
    /\ UNCHANGED <<task, flush, snapshot, todo, mode, attempts, bounds>>

-----------------------------------------------------------------------------
(* flush_all().                                                             *)

Flushing == mode \in {"up", "closing"}

(* The nick index is written into the global blob, which is always cached:  *)
(* the blob is dirty in every flush.                                        *)
FlushBegin ==
    /\ Flushing
    /\ flush = "idle"
    /\ flush' = "waiting"
    /\ dirty' = dirty \cup {<<"runtime", Global>>}
    /\ snapshot' = dirty'
    /\ unchanged' = dirty'
    /\ todo' = {}
    /\ UNCHANGED <<db, cache, task, staged, mode, attempts, ghosts, bounds>>

FlushOpens ==
    /\ flush = "waiting"
    /\ flush' = "writing"
    /\ staged' = db
    /\ todo' = snapshot
    /\ UNCHANGED <<db, memory, task, snapshot, mode, attempts, ghosts, bounds>>

(* One row, written with what the cache holds now.  User rows come first.   *)
WriteUser(j) ==
    /\ flush = "writing"
    /\ <<"users", j>> \in todo
    /\ staged' = IF cache["users"][j] = Absent THEN staged
                 ELSE Put(staged, "users", j, cache["users"][j])
    /\ todo' = todo \ {<<"users", j>>}
    /\ UNCHANGED <<db, memory, task, flush, snapshot, mode, attempts, ghosts, bounds>>

(* A runtime row: skipped when its JID was deleted since the snapshot.      *)
Skipped(j) == cache["runtime"][j] = Absent /\ <<"runtime", j>> \notin dirty
Refused(j) == ~Skipped(j) /\ staged["users"][j] = Absent

WriteRuntime(j) ==
    /\ flush = "writing"
    /\ todo \cap ({"users"} \X Jids) = {}
    /\ <<"runtime", j>> \in todo
    /\ ~Refused(j)
    /\ staged' = IF Skipped(j) THEN staged
                 ELSE Put(staged, "runtime", j,
                          IF cache["runtime"][j] = Absent THEN Fresh ELSE cache["runtime"][j])
    /\ todo' = todo \ {<<"runtime", j>>}
    /\ UNCHANGED <<db, memory, task, flush, snapshot, mode, attempts, ghosts, bounds>>

(* The snapshot of a flush is a local of flush_all().                       *)
FlushEnds_Keeps == snapshot' = {} /\ todo' = {} /\ UNCHANGED unchanged
FlushEnds == snapshot' = {} /\ todo' = {} /\ unchanged' = {}

ClearFlushedDirty_Unversioned == dirty \ snapshot
ClearFlushedDirty_Nothing == dirty
ClearFlushedDirty == dirty \ unchanged

(* Commit, clear the dirty marks nobody renewed, prune.                     *)
FlushCommits ==
    /\ flush = "writing"
    /\ todo = {}
    /\ flush' = "idle"
    /\ db' = staged
    /\ dirty' = ClearFlushedDirty
    /\ cache' \in Pruned(cache, dirty', "users", None)
    /\ FlushEnds
    /\ attempts' = 0
    /\ mode' = IF mode = "closing" THEN "closed" ELSE mode
    /\ UNCHANGED <<task, staged, ghosts, bounds>>

(* The transaction raises: a runtime row without its user row violates the  *)
(* foreign key, or SQLite reports an error.  It is rolled back, nothing is  *)
(* clean; _flush_with_retry tries three times, then the loop waits for its  *)
(* next turn and close() raises.                                            *)
FlushFails ==
    /\ flush = "writing"
    /\ \/ /\ todo \cap ({"users"} \X Jids) = {}
          /\ \E j \in Jids : <<"runtime", j>> \in todo /\ Refused(j)
          /\ UNCHANGED errors
       \/ /\ errors < MaxFlushErrors
          /\ errors' = errors + 1
    /\ flush' = "idle"
    /\ attempts' = (attempts + 1) % Retries
    /\ mode' = IF mode = "closing" /\ attempts' = 0 THEN "failed" ELSE mode
    /\ FlushEnds
    /\ staged' = db
    /\ UNCHANGED <<db, cache, dirty, task, ghosts, changes, crashes>>

(* close(): stop_background_tasks() lets a running flush end, then the      *)
(* final flush runs and the connection is closed.                           *)
Close_NoFlush ==
    /\ mode = "up"
    /\ flush = "idle"
    /\ mode' = "closed"
    /\ attempts' = 0
    /\ task' = [c \in Clients |-> None]
    /\ UNCHANGED <<db, memory, flushVars, ghosts, bounds>>

Close ==
    /\ mode = "up"
    /\ flush = "idle"
    /\ mode' = "closing"
    /\ attempts' = 0
    /\ task' = [c \in Clients |-> None]
    /\ UNCHANGED <<db, memory, flushVars, ghosts, bounds>>

(* A new process on what was committed: after a crash anywhere, or after    *)
(* close().                                                                 *)
Restart ==
    /\ \/ mode \in {"closed", "failed"} /\ UNCHANGED crashes
       \/ Flushing /\ crashes < MaxCrashes /\ crashes' = crashes + 1
    /\ cache' = [k \in Kinds |-> [j \in Jids |->
                    IF k = "runtime" /\ j = Global THEN db[k][j] ELSE Absent]]
    /\ dirty' = {}
    /\ task' = [c \in Clients |-> None]
    /\ flush' = "idle"
    /\ FlushEnds
    /\ mode' = "up"
    /\ attempts' = 0
    /\ staged' = db
    /\ told' = db
    /\ raced' = {}
    /\ UNCHANGED <<db, changes, errors>>

-----------------------------------------------------------------------------
FlushStep ==
    \/ FlushOpens
    \/ \E j \in Jids : WriteUser(j) \/ WriteRuntime(j)
    \/ FlushCommits
    \/ FlushFails

Next ==
    \/ \E c \in Clients : (\E o \in Operation : Hit(c, o) \/ Miss(c, o)) \/ Loaded(c)
    \/ \E j \in Jids : Delete(j)
    \/ FlushBegin \/ FlushStep
    \/ Close \/ Restart

Spec == Init /\ [][Next]_vars

(* The flush loop wakes every flush_interval seconds, its statements are    *)
(* answered and a closed process is started again.                          *)
FairSpec ==
    /\ Spec
    /\ WF_vars(FlushBegin)
    /\ WF_vars(FlushStep)
    /\ WF_vars(Restart)

-----------------------------------------------------------------------------
(* Properties.                                                              *)

Current(k, j) == IF cache[k][j] # Absent THEN cache[k][j] ELSE db[k][j]
SameEntry(a, b) == a = b \/ {a, b} = {Absent, Fresh}

(* What an operation reported is what the next one sees, from the cache or  *)
(* from the database: no update is lost while the process lives.            *)
(* (docstring of PluginRuntimeStore: "`_runtime_cache[jid]` always contains *)
(* the full JSON blob for that user").                                      *)
Lost(k, j) == ~SameEntry(Current(k, j), told[k][j])
Alive == mode \in {"up", "closing"}
NoUpdateIsLost == Alive => \A k \in Kinds, j \in Jids : ~Lost(k, j)

(* The only updates that get lost belong to entries that two tasks loaded   *)
(* at once or that were deleted while they were loaded: flushes, evictions, *)
(* retries and every other interleaving keep them.                          *)
OnlyRacedUpdatesAreLost ==
    Alive => \A k \in Kinds, j \in Jids : Lost(k, j) => <<k, j>> \in raced

(* A cached entry without a dirty mark equals its row: neither a flush that *)
(* races with changes nor an eviction declares unsaved data clean.          *)
(* (_clear_flushed_dirty, _prune_one_cache)                                 *)
CleanIsPersisted ==
    \A k \in Kinds, j \in Jids :
        cache[k][j] # Absent /\ <<k, j>> \notin dirty /\ Alive =>
            SameEntry(cache[k][j], db[k][j])

(* A dirty mark always has its entry in the cache ("dirty state is never    *)
(* dropped").                                                               *)
DirtyIsCached == \A e \in dirty : cache[e[1]][e[2]] # Absent

(* A deleted user does not come back with a flush that was under way: there *)
(* is a row only for users the bot still knows. (UserManager.delete)        *)
NoResurrection ==
    Alive =>
        \A j \in Jids : told["users"][j] = Absent =>
            db["users"][j] = Absent /\ db["runtime"][j] = Absent

(* close() that returns has saved every change, those above excepted.       *)
(* (DatabaseManager.close)                                                  *)
CloseSavesAll ==
    mode = "closed" => \A k \in Kinds, j \in Jids :
                           SameEntry(db[k][j], told[k][j]) \/ <<k, j>> \in raced

(* The flags agree with the tables: what is not dirty is in the database as *)
(* it is in the cache, and what is dirty is cached.                         *)
StoreIsConsistent == TypeOK /\ CleanIsPersisted /\ DirtyIsCached

(* A change is lost only to a second load of the same row or to a deletion  *)
(* during a load, and close() says that all is saved only when it is.       *)
UpdatesAreKept == OnlyRacedUpdatesAreLost /\ CloseSavesAll

Unsaved(e) == e \in dirty
SavedOrFailed(e) == e \notin dirty \/ mode = "failed"

(* A dirty entry becomes clean, or the process ends: every change reaches   *)
(* the database although flushes fail and race with new changes.            *)
(* (docs/diagnostics.md: "A dirty cache entry was changed in memory and is  *)
(* waiting for the next successful database flush".)                        *)
DirtyIsFlushed == \A e \in Entries : Unsaved(e) ~> SavedOrFailed(e)

-----------------------------------------------------------------------------
(* What makes NoResurrection and CleanIsPersisted inductive, whatever the   *)
(* limit of the caches (proved in UserStoreProofs).                         *)

(* Nothing can bring an unknown user back: neither the cache nor a flush    *)
(* that is being written has a row of it, and the table has none.           *)
Gone ==
    \A j \in Jids : told["users"][j] = Absent =>
        /\ cache["users"][j] = Absent /\ db["users"][j] = Absent
        /\ flush = "writing" => staged["users"][j] = Absent

(* There is no runtime row without a user row, in what is committed and in  *)
(* what is being written.                                                   *)
ForeignKey ==
    \A j \in Jids :
        /\ db["users"][j] = Absent => db["runtime"][j] = Absent
        /\ flush = "writing" /\ staged["users"][j] = Absent => staged["runtime"][j] = Absent

(* A cached entry that is clean, or will be when the flush commits, equals  *)
(* the row that there is, or will be.                                       *)
Matches(k, j, tables) == cache[k][j] # Absent => SameEntry(cache[k][j], tables[k][j])

CleanMatches ==
    \A k \in Kinds, j \in Jids :
        /\ <<k, j>> \notin dirty => Matches(k, j, db)
        /\ flush = "writing" /\ (<<k, j>> \notin dirty \/ <<k, j>> \in unchanged \ todo) =>
               Matches(k, j, staged)

-----------------------------------------------------------------------------
(* What makes UpdatesAreKept and DirtyIsCached inductive while each cache   *)
(* has room for everybody (proved in UserStoreProofs).                      *)
Roomy == IsFiniteSet(Jids) /\ Cardinality(Jids) <= Limit

(* The global blob is there, wherever it is looked for.                     *)
GlobalIsThere ==
    /\ cache["runtime"][Global] # Absent /\ db["runtime"][Global] # Absent
    /\ flush = "writing" => staged["runtime"][Global] # Absent

(* An entry one task is loading is not cached, and no other task loads it,  *)
(* unless it is one of those raced for.                                     *)
LoadsAreAlone ==
    \A c \in Clients : task[c] # None =>
        \/ <<task[c].kind, task[c].jid>> \in raced
        \/ /\ cache[task[c].kind][task[c].jid] = Absent
           /\ \A d \in Clients : Loading(d, task[c]) => d = c

EnsuresAreUsers ==
    \A c \in Clients : task[c] # None /\ task[c].op = "ensure" => task[c].kind = "users"

NothingIsLost == \A k \in Kinds, j \in Jids : Lost(k, j) => <<k, j>> \in raced

(* A flush does not touch the rows of entries that are not cached.          *)
UncachedIsLeft ==
    flush = "writing" => \A k \in Kinds, j \in Jids :
        cache[k][j] = Absent => SameEntry(staged[k][j], db[k][j])

(* Nobody changes anything once close() has begun, so that its flush writes *)
(* all there is.                                                            *)
ClosingWritesAll ==
    /\ mode = "closing" /\ flush # "idle" => dirty \subseteq unchanged
    /\ mode \in {"closed", "failed"} => flush = "idle"
    /\ mode = "closed" => dirty = {}

Kept ==
    /\ DirtyIsCached /\ GlobalIsThere /\ LoadsAreAlone /\ EnsuresAreUsers
    /\ NothingIsLost /\ UncachedIsLeft /\ ClosingWritesAll

(* For TLC: no action prefers one task to another.                          *)
Symmetry == Permutations(Clients)

=============================================================================
