--------------------------------- MODULE Users ---------------------------------
(***************************************************************************)
(* What the users plugin (core_plugins/users) knows of the people around   *)
(* the bot: their rows, where they were seen, the nicks they use in rooms, *)
(* the index from nicks to users, and plugin grants, while presences,      *)
(* direct messages, deletions and grants overlap, the plugin is reloaded   *)
(* and the store is flushed.  The user store itself is UserStore's.        *)
(***************************************************************************)
EXTENDS Integers, FiniteSets, Sequences

CONSTANTS
    None,
    Users,
    Nicks,
    Rooms,
    Roster,             \* users in the bot's roster
    Tasks,              \* handlers that may run at the same time
    MAX_ROOM_NICKS,
    MaxEvents           \* bound on presences, messages and commands

Lists == {"direct", "room", "deleted"}

UsersAssumption == None \notin Users /\ MAX_ROOM_NICKS \in Nat /\ MaxEvents \in Nat

VARIABLES
    row,        \* users with a row
    listed,     \* the persisted sets of users, per list
    history,    \* roomnicks, newest first
    grants,     \* users with a plugin grant
    index,      \* _nick_index: [type, jids] per nick
    stored,     \* the copy of the index in the runtime store
    shared,     \* whether both are the same object
    occupants,  \* users visible in joined rooms
    task,       \* what each handler does
    raced,      \* ghost: users whose deletion overlapped another handler of theirs
    stale,      \* ghost: users whose entries a reload took back
    failed,     \* ghost: users whose entries an exception cut short
    events

vars == <<row, listed, history, grants, index, stored, shared, occupants, task,
          raced, stale, failed, events>>

Idle == [kind |-> "idle", user |-> None, room |-> None, nick |-> None, pc |-> "end"]
Nobody == [type |-> "list", jids |-> {}]
Forgotten == [r \in Rooms |-> <<>>]
Items(s) == {s[i] : i \in 1..Len(s)}
Known(h) == UNION {Items(h[r]) : r \in Rooms}
Indexed(idx, u) == {n \in Nicks : u \in idx[n].jids}
Quiet == \A t \in Tasks : task[t] = Idle

(* What a handler can be doing.                                             *)
Handlers ==
    {Idle}
    \union [kind : {"presence"}, user : Users, room : Rooms, nick : Nicks,
            pc : {"row", "clear", "add", "nick"}]
    \union [kind : {"message"}, user : Users, room : {None}, nick : {None},
            pc : {"row", "clear", "add"}]
    \union [kind : {"delete"}, user : Users, room : {None}, nick : {None},
            pc : {"drop", "direct", "room", "deleted"}]
    \union [kind : {"grant", "revoke"}, user : Users, room : {None}, nick : {None}, pc : {"set"}]

Indexes == [Nicks -> [type : {"list", "set"}, jids : SUBSET Users]]

TypeOK ==
    /\ row \subseteq Users /\ listed \in [Lists -> SUBSET Users]
    /\ history \in [Users -> [Rooms -> Seq(Nicks)]]
    /\ \A u \in Users, r \in Rooms : Len(history[u][r]) <= MAX_ROOM_NICKS
    /\ index \in Indexes /\ stored \in Indexes
    /\ \A s \in {grants, occupants, raced, stale, failed} : s \subseteq Users
    /\ shared \in BOOLEAN /\ events \in 0..MaxEvents
    /\ task \in [Tasks -> Handlers]

Init ==
    /\ row = {} /\ listed = [l \in Lists |-> {}]
    /\ history = [u \in Users |-> Forgotten] /\ grants = {}
    /\ index = [n \in Nicks |-> Nobody] /\ stored = index /\ shared = TRUE
    /\ occupants = {} /\ task = [t \in Tasks |-> Idle]
    /\ raced = {} /\ stale = {} /\ failed = {} /\ events = 0

-----------------------------------------------------------------------------
(* A handler starts.  Deletions and grants are validated first: the row     *)
(* must exist (the roles are those of module Commands).                     *)

Overlaps(kind, u) ==
    \E t \in Tasks : task[t].user = u /\ (kind = "delete" \/ task[t].kind = "delete")

Starts(t, kind, u, r, n, pc) ==
    /\ task[t] = Idle /\ events < MaxEvents /\ events' = events + 1
    /\ task' = [task EXCEPT ![t] = [kind |-> kind, user |-> u, room |-> r, nick |-> n, pc |-> pc]]
    /\ raced' = IF Overlaps(kind, u) THEN raced \union {u} ELSE raced
    /\ UNCHANGED <<row, listed, history, grants, index, stored, shared, stale, failed>>

(* on_muc_presence, of an occupant whose JID is visible.                     *)
Presence(t, u, r, n) ==
    Starts(t, "presence", u, r, n, "row") /\ occupants' = occupants \union {u}

PrivateMessage(t, u) == Starts(t, "message", u, None, None, "row") /\ UNCHANGED occupants

UsersDelete(t, u) == u \in row /\ Starts(t, "delete", u, None, None, "drop") /\ UNCHANGED occupants

ValidateGrantChange(t, u) ==
    /\ u \in row
    /\ \E kind \in {"grant", "revoke"} : Starts(t, kind, u, None, None, "set")
    /\ UNCHANGED occupants

OccupantLeaves(u) ==
    /\ u \in occupants /\ occupants' = occupants \ {u}
    /\ UNCHANGED <<row, listed, history, grants, index, stored, shared, task, raced, stale,
                   failed, events>>

-----------------------------------------------------------------------------
(* The steps of a handler, from one place where it may be suspended to the  *)
(* next.                                                                     *)

At(t, pc) == task[t].pc = pc /\ task[t] # Idle
Goes(t, pc) ==
    task' = [task EXCEPT ![t] = IF pc = "end" THEN Idle ELSE [@ EXCEPT !.pc = pc]]

CreateRow(t) ==
    /\ At(t, "row") /\ Goes(t, "clear") /\ row' = row \union {task[t].user}
    /\ UNCHANGED <<listed, history, grants, index, stored, shared, occupants, raced, stale,
                   failed, events>>

(* _update_persisted_jid_set, under the lock of the runtime store.          *)
SetListed(t, list, present) ==
    LET u == task[t].user IN
    /\ listed' = [listed EXCEPT ![list] = IF present THEN @ \union {u} ELSE @ \ {u}]
    /\ UNCHANGED <<row, history, grants, index, stored, shared, occupants, raced, stale,
                   failed, events>>

Clears_Never(t) == Goes(t, "add") /\ UNCHANGED <<row, listed, history, grants, index, stored,
                       shared, occupants, raced, stale, failed, events>>
Clears(t) == Goes(t, "add") /\ SetListed(t, "deleted", FALSE)

ClearUserDeleted(t) == At(t, "clear") /\ Clears(t)

RememberUserSource(t) ==
    /\ At(t, "add")
    /\ IF task[t].kind = "presence"
       THEN Goes(t, "nick") /\ SetListed(t, "room", TRUE)
       ELSE Goes(t, "end") /\ SetListed(t, "direct", TRUE)

(* track_room_nick: the nick moves to the front of its room's list; all the *)
(* nicks of the user are then indexed anew (no list has a nick twice, so   *)
(* that the place found is the first).  An entry that a deletion left  *)
(* behind as a set has no append: the exception ends the loop early.        *)
Removed(s, n) ==
    IF n \notin Items(s) THEN s
    ELSE LET i == CHOOSE k \in 1..Len(s) : s[k] = n
         IN SubSeq(s, 1, i - 1) \o SubSeq(s, i + 1, Len(s))

Front(s, n) ==
    LET t == <<n>> \o Removed(s, n)
    IN SubSeq(t, 1, IF Len(t) < MAX_ROOM_NICKS THEN Len(t) ELSE MAX_ROOM_NICKS)

Without(u) ==
    [n \in Nicks |-> IF u \in index[n].jids
                     THEN [type |-> "list", jids |-> index[n].jids \ {u}] ELSE index[n]]

Plus(idx, u, ns) == [n \in Nicks |-> IF n \in ns THEN [idx[n] EXCEPT !.jids = @ \union {u}]
                                     ELSE idx[n]]

Reindexed_Adds(u) == index
Reindexed(u) == Without(u)

Reindex(u, new) ==
    LET bare == Reindexed(u)
        sets == {n \in new : bare[n].type = "set"}
    IN  IF sets = {}
        THEN index' = Plus(bare, u, new) /\ stale' = stale \ {u} /\ failed' = failed \ {u}
        ELSE /\ \E some \in SUBSET (new \ sets) : index' = Plus(bare, u, some)
             /\ failed' = failed \union {u} /\ UNCHANGED stale

TrackNick(t) ==
    LET u == task[t].user
        r == task[t].room
        n == task[t].nick
    IN  /\ At(t, "nick") /\ Goes(t, "end")
        /\ IF history[u][r] # <<>> /\ Head(history[u][r]) = n
           THEN UNCHANGED <<history, index, stored, stale, failed>>
           ELSE /\ history' = [history EXCEPT ![u][r] = Front(@, n)]
                /\ Reindex(u, Known(history'[u]))
                /\ stored' = IF shared THEN index' ELSE stored
        /\ UNCHANGED <<row, listed, grants, shared, occupants, raced, events>>

(* UserManager.delete: both rows, the caches and the index.                 *)
Unindexed(u) ==
    [n \in Nicks |-> IF u \notin index[n].jids THEN index[n]
                     ELSE IF index[n].jids = {u} THEN Nobody
                     ELSE [type |-> "set", jids |-> index[n].jids \ {u}]]

DropRows_Grants(u) ==
    row' = row \ {u} /\ history' = [history EXCEPT ![u] = Forgotten] /\ grants' = grants
DropRows(u) ==
    /\ row' = row \ {u}
    /\ history' = [history EXCEPT ![u] = Forgotten] /\ grants' = grants \ {u}

Drop(t) ==
    LET u == task[t].user IN
    /\ At(t, "drop") /\ Goes(t, "direct") /\ DropRows(u)
    /\ index' = Unindexed(u) /\ stored' = IF shared THEN index' ELSE stored
    /\ stale' = stale \ {u} /\ failed' = failed \ {u}
    /\ UNCHANGED <<listed, shared, occupants, raced, events>>

MarkUserDeleted(t) ==
    \/ At(t, "direct") /\ Goes(t, "room") /\ SetListed(t, "direct", FALSE)
    \/ At(t, "room") /\ Goes(t, "deleted") /\ SetListed(t, "room", FALSE)
    \/ At(t, "deleted") /\ Goes(t, "end") /\ SetListed(t, "deleted", TRUE)

SetGrants(t) ==
    /\ At(t, "set") /\ Goes(t, "end")
    /\ grants' = IF task[t].kind = "grant" THEN grants \union {task[t].user}
                 ELSE grants \ {task[t].user}
    /\ UNCHANGED <<row, listed, history, index, stored, shared, occupants, raced, stale,
                   failed, events>>

-----------------------------------------------------------------------------
(* flush_all stores a copy; a reload of the plugin takes the stored copy,   *)
(* and the live index is that object until the next flush.                  *)

Flush ==
    /\ stored' = [n \in Nicks |-> [index[n] EXCEPT !.type = "list"]] /\ shared' = FALSE
    /\ stored' # stored \/ shared
    /\ UNCHANGED <<row, listed, history, grants, index, occupants, task, raced, stale, failed,
                   events>>

Reload ==
    /\ Quiet /\ ~shared /\ shared' = TRUE /\ index' = stored /\ UNCHANGED stored
    /\ stale' = {u \in Users : Indexed(stored, u) # Known(history[u])}
    /\ UNCHANGED <<row, listed, history, grants, occupants, task, raced, failed, events>>

Next ==
    \/ \E t \in Tasks, u \in Users :
        \/ \E r \in Rooms, n \in Nicks : Presence(t, u, r, n)
        \/ PrivateMessage(t, u) \/ UsersDelete(t, u) \/ ValidateGrantChange(t, u)
    \/ \E t \in Tasks :
        \/ CreateRow(t) \/ ClearUserDeleted(t) \/ RememberUserSource(t) \/ TrackNick(t)
        \/ Drop(t) \/ MarkUserDeleted(t) \/ SetGrants(t)
    \/ \E u \in Users : OccupantLeaves(u)
    \/ Flush \/ Reload

Spec == Init /\ [][Next]_vars

-----------------------------------------------------------------------------
(* users list: the part of the list that shows a user, if any.              *)

Suppressed_None == {}
Suppressed == listed["deleted"] \ row

Section(u) ==
    LET seen == row \union Roster \union occupants
    IN  IF u \in Suppressed \/ u \notin seen THEN None
        ELSE IF u \in listed["direct"] \union Roster THEN "active"
        ELSE IF u \in occupants \/ (u \in listed["room"] /\ u \in row) THEN "passive"
        ELSE "known"

(* The index leads from a nick to exactly the users whose history has it,   *)
(* but for entries that a reload took back or an exception cut short.       *)
IndexIsHistory ==
    \A u \in Users \ (stale \union failed) : Indexed(index, u) = Known(history[u])

(* A deleted user is forgotten: no row, nick, grant or source is left, and  *)
(* users list does not show them, though they may sit in a room or in the   *)
(* roster; unless another handler of theirs overlapped the deletion.        *)
DeletedIsForgotten ==
    Quiet => \A u \in listed["deleted"] \ raced :
        /\ u \notin row /\ u \notin grants /\ Known(history[u]) = {}
        /\ u \notin listed["direct"] \union listed["room"] /\ Section(u) = None

(* Activity brings a user back: who has a row and a source is shown with    *)
(* it, and nicks and grants belong to rows.                                 *)
SeenIsShown ==
    Quiet => \A u \in Users \ raced :
        /\ u \in listed["direct"] \union listed["room"] => Section(u) \in {"active", "passive"}
        /\ u \in grants \/ Known(history[u]) # {} => u \in row

(* The bot's own claim for the index: it is maintained, whatever happened.  *)
IndexIsMaintained ==
    \A u \in Users \ stale : Indexed(index, u) = Known(history[u])

PeopleAreKnown == IndexIsHistory /\ DeletedIsForgotten /\ SeenIsShown

-----------------------------------------------------------------------------
(* The inductive invariant behind PeopleAreKnown, for a user whose deletion *)
(* nothing overlapped: the deletion is alone, each handler finds what the   *)
(* ones before it left, and what is known of a user belongs to a row.       *)
Of(u) == {t \in Tasks : task[t].user = u}
Forgetting(u) == \E t \in Of(u) : task[t].pc \in {"direct", "room", "deleted"}

AloneInv(u) == \A t \in Of(u) : task[t].kind = "delete" => Of(u) = {t}

HandlersInv(u) ==
    \A t \in Of(u) :
        /\ task[t].pc \in {"clear", "add", "nick", "set", "drop"} => u \in row
        /\ task[t].pc \in {"add", "nick"} => u \notin listed["deleted"]
        /\ task[t].pc \in {"direct", "room", "deleted"} => u \notin row
        /\ task[t].pc \in {"room", "deleted"} => u \notin listed["direct"]
        /\ task[t].pc = "deleted" => u \notin listed["room"]

RestInv(u) ==
    /\ u \in listed["direct"] \union listed["room"] => u \in row \/ Forgetting(u)
    /\ u \in grants \/ Known(history[u]) # {} => u \in row
    /\ u \in listed["deleted"] \intersect row => \E t \in Of(u) : task[t].pc = "clear"

AccountInv == \A u \in Users \ raced : AloneInv(u) /\ HandlersInv(u) /\ RestInv(u)
=============================================================================
