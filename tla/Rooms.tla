--------------------------------- MODULE Rooms ---------------------------------
(***************************************************************************)
(* Room membership (core_plugins/rooms, database/rooms.py): which rooms    *)
(* the bot is in according to the table, to its two runtime mirrors and to *)
(* the server, under joins that are awaited, kicks, reconnects, the health *)
(* check with its backoff, the administrators' commands and invites.       *)
(* slixmpp's room cache, the MUC service and the store of invites are      *)
(* external.                                                               *)
(***************************************************************************)
EXTENDS Integers, FiniteSets, Sequences

CONSTANTS
    None,
    Rooms,
    MaxCommands,    \* bound on the administrators' commands
    MaxFaults       \* bound on refused joins, kicks, invites and reconnects

(* Who joins rooms: the periodic check, the hook of a new session, and one  *)
(* command (rooms join, sync, invite accept, or a reload of the plugin).    *)
Joiners == {"check", "session", "command"}

Kinds == {"idle", "list", "reconcile", "join", "accept", "sync", "delete", "reload"}

RoomsAssumption ==
    /\ None \notin {"stub", "plain", "sure"} /\ None \notin BOOLEAN
    /\ MaxCommands \in Nat /\ MaxFaults \in Nat

VARIABLES
    stored,     \* rooms table: None or the autojoin flag
    joined,     \* JOINED_ROOMS: None, "stub" (nick unknown), "plain" or "sure" (confirmed)
    mirror,     \* presence.joined_rooms
    leaving,    \* _LEAVING_ROOMS
    backoff,    \* _REJOIN_STATE entries whose next_attempt lies ahead
    enabled,    \* rooms with their features switched on
    pending,    \* rooms with a pending invite
    cached,     \* slixmpp's joined rooms
    server,     \* rooms whose service counts the bot as an occupant
    presence,   \* the bot's own presences on their way, per room
    up,         \* a session exists
    prog,       \* what each joiner does
    join,       \* the joins each of them awaits
    left,       \* ghost: rooms a command left and none has asked for since
    crossed,    \* ghost: rooms left or lost while a join of them was awaited
    commands, faults

vars == <<stored, joined, mirror, leaving, backoff, enabled, pending, cached, server,
          presence, up, prog, join, left, crossed, commands, faults>>

Idle == [kind |-> "idle", todo |-> {}]
NoJoins == [r \in Rooms |-> "no"]

TypeOK ==
    /\ stored \in [Rooms -> BOOLEAN \union {None}]
    /\ joined \in [Rooms -> {None, "stub", "plain", "sure"}]
    /\ \A s \in {mirror, leaving, backoff, enabled, pending, cached, server, left, crossed} :
          s \subseteq Rooms
    /\ presence \in [Rooms -> Seq({"here", "gone"})] /\ up \in BOOLEAN
    /\ prog \in [Joiners -> [kind : Kinds, todo : SUBSET Rooms]]
    /\ join \in [Joiners -> [Rooms -> {"no", "sent", "heard", "lookup", "write", "forget"}]]
    /\ commands \in 0..MaxCommands /\ faults \in 0..MaxFaults

Init ==
    /\ stored \in [Rooms -> BOOLEAN \union {None}]
    /\ joined = [r \in Rooms |-> None] /\ mirror = {} /\ leaving = {} /\ backoff = {}
    /\ enabled = {} /\ pending = {} /\ cached = {} /\ server = {}
    /\ presence = [r \in Rooms |-> <<>>] /\ up = FALSE
    /\ prog = [o \in Joiners |-> Idle] /\ join = [o \in Joiners |-> NoJoins]
    /\ left = {} /\ crossed = {} /\ commands = 0 /\ faults = 0

Autojoin == {r \in Rooms : stored[r] = TRUE}
InFlight(r) == \E o \in Joiners : join[o][r] # "no"
Overlap(o, r) == \E p \in Joiners \ {o} : join[p][r] # "no"
Busy(o) == prog[o] # Idle
Ready == up /\ ~Busy("session")
Mirrors == <<joined, mirror>>
Table == <<stored, enabled, pending>>

-----------------------------------------------------------------------------
(* The service.  A join or a leave is answered with the bot's own presence. *)

Answers(in, out) ==
    presence' = [r \in Rooms |->
        presence[r] \o (IF r \in out THEN <<"gone">> ELSE <<>>)
                    \o (IF r \in in THEN <<"here">> ELSE <<>>)]

Refusals == up => faults < MaxFaults

(* join_muc_confirmed sends the join of every room of rs for o.  A join     *)
(* that is refused or lost is answered by nothing.                          *)
SendJoins(o, rs) ==
    \E in \in SUBSET rs :
        /\ in # rs => Refusals
        /\ in # {} => up
        /\ leaving' = leaving \ rs /\ cached' = cached \union rs
        /\ left' = left \ rs
        /\ crossed' = {r \in crossed : Overlap(o, r) \/ (r \notin in /\ (r \in rs => joined[r] = "sure"))}
        /\ server' = server \union in /\ Answers(in, {})
        /\ faults' = IF up /\ in # rs THEN faults + 1 ELSE faults
        /\ join' = [join EXCEPT ![o] = [r \in Rooms |->
                        IF r \notin rs THEN @[r]
                        ELSE IF joined[r] = "sure" THEN "heard" ELSE "sent"]]

NoJoin == UNCHANGED <<leaving, cached, left, crossed, server, presence, faults, join>>

SendLeaves(rs) ==
    /\ cached' = cached \ rs
    /\ server' = server \ rs /\ Answers({}, rs \intersect server)

Kick(r) ==
    /\ r \in server /\ faults < MaxFaults /\ faults' = faults + 1
    /\ server' = server \ {r} /\ Answers({}, {r})
    /\ UNCHANGED <<stored, joined, mirror, leaving, backoff, enabled, pending, cached, up,
                   prog, join, left, crossed, commands>>

(* on_muc_presence: "here" confirms and wakes whoever waits for it; "gone"  *)
(* removes both mirrors, and leaves a stub where nothing was known.         *)
Ignored(r) == r \in leaving /\ joined[r] = None

Presence(r) ==
    /\ presence[r] # <<>> /\ presence' = [presence EXCEPT ![r] = Tail(@)]
    /\ IF Ignored(r)
       THEN UNCHANGED <<joined, mirror, join>>
       ELSE IF Head(presence[r]) = "here"
       THEN /\ joined' = [joined EXCEPT ![r] = "sure"] /\ mirror' = mirror \union {r}
            /\ join' = [o \in Joiners |->
                          [join[o] EXCEPT ![r] = IF @ = "sent" THEN "heard" ELSE @]]
       ELSE IF joined[r] \in {None, "stub"}
       THEN joined' = [joined EXCEPT ![r] = "stub"] /\ UNCHANGED <<mirror, join>>
       ELSE joined' = [joined EXCEPT ![r] = None] /\ mirror' = mirror \ {r} /\ UNCHANGED join
    /\ crossed' = IF Head(presence[r]) = "gone" /\ InFlight(r) THEN crossed \union {r} ELSE crossed
    /\ UNCHANGED <<stored, leaving, backoff, enabled, pending, cached, server, up, prog, left,
                   commands, faults>>

-----------------------------------------------------------------------------
(* Joins that are awaited.                                                   *)

Finish(o, r) == join' = [join EXCEPT ![o][r] = "no"]
Goes(o, r, place) == join' = [join EXCEPT ![o][r] = place]

(* _join_muc_with_timeout gives up: it clears the mirrors and sends a       *)
(* leave; the check, the session and a reload retry after a delay.          *)
MayFail(r) == presence[r] # <<>> \/ r \in server => faults < MaxFaults

JoinFails(o, r) ==
    /\ join[o][r] = "sent" /\ MayFail(r) /\ Finish(o, r)
    /\ joined' = [joined EXCEPT ![r] = None] /\ mirror' = mirror \ {r}
    /\ SendLeaves({r})
    /\ faults' = IF presence[r] # <<>> \/ r \in server THEN faults + 1 ELSE faults
    /\ backoff' = IF o # "command" \/ (prog[o].kind = "reload" /\ stored[r] = TRUE)
                  THEN backoff \union {r} ELSE backoff
    /\ UNCHANGED <<stored, leaving, enabled, pending, up, prog, left, crossed, commands>>

(* The await returns after the presence was heard, perhaps much later.      *)
(* _join_room marks the room; the commands go on with the table.            *)
Resumes(o, r) ==
    LET kind == prog[o].kind IN
    /\ join[o][r] = "heard"
    /\ \/ /\ kind \in {"join", "accept"} /\ Goes(o, r, "lookup")
          /\ UNCHANGED <<joined, mirror, backoff>>
       \/ /\ kind = "sync" /\ Finish(o, r)
          /\ joined' = [joined EXCEPT ![r] = "plain"] /\ mirror' = mirror \union {r}
          /\ UNCHANGED backoff
       \/ /\ kind \in {"reconcile", "reload"} /\ Finish(o, r)
          /\ joined' = [joined EXCEPT ![r] = "sure"] /\ mirror' = mirror \union {r}
          /\ backoff' = backoff \ {r}
    /\ UNCHANGED <<Table, leaving, cached, server, presence, up, prog, left, crossed, commands,
                   faults>>

(* rooms join: the row is read, the mirrors are set, the row is written.    *)
JoinLookup(r) ==
    /\ prog["command"].kind = "join" /\ join["command"][r] = "lookup" /\ Goes("command", r, "write")
    /\ joined' = [joined EXCEPT ![r] = IF @ = None THEN "plain" ELSE @]
    /\ mirror' = mirror \union {r}
    /\ UNCHANGED <<Table, leaving, backoff, cached, server, presence, up, prog, left, crossed,
                   commands, faults>>

JoinWrite(r) ==
    /\ prog["command"].kind = "join" /\ join["command"][r] = "write" /\ Finish("command", r)
    /\ stored' = [stored EXCEPT ![r] = IF @ = None THEN FALSE ELSE @]
    /\ UNCHANGED <<Mirrors, leaving, backoff, enabled, pending, cached, server, presence, up,
                   prog, left, crossed, commands, faults>>

(* rooms invite accept: stored with autojoin, mirrored anew, and only then  *)
(* forgotten.                                                                *)
AcceptWrite(r) ==
    /\ prog["command"].kind = "accept" /\ join["command"][r] = "lookup"
    /\ Goes("command", r, "forget")
    /\ stored' = [stored EXCEPT ![r] = TRUE] /\ enabled' = enabled \union {r}
    /\ joined' = [joined EXCEPT ![r] = "plain"] /\ mirror' = mirror \union {r}
    /\ UNCHANGED <<leaving, backoff, pending, cached, server, presence, up, prog, left, crossed,
                   commands, faults>>

AcceptForgets(r) ==
    /\ join["command"][r] = "forget" /\ Finish("command", r)
    /\ pending' = pending \ {r}
    /\ UNCHANGED <<stored, enabled, Mirrors, leaving, backoff, cached, server, presence, up, prog,
                   left, crossed, commands, faults>>

-----------------------------------------------------------------------------
(* reconcile_autojoin_rooms: the rooms one after another, after the table   *)
(* was read.                                                                 *)

Confirmed_Mirrors(r) == joined[r] # None
Confirmed(r) == joined[r] \in {"plain", "sure"} /\ r \in mirror /\ r \in cached

Listed(o) ==
    /\ prog[o].kind = "list"
    /\ prog' = [prog EXCEPT ![o] = [kind |-> "reconcile", todo |-> Autojoin]]
    /\ backoff' = backoff \intersect Autojoin
    /\ UNCHANGED <<Table, Mirrors, leaving, cached, server, presence, up, join, left, crossed,
                   commands, faults>>

Skips_Leaving(r) == FALSE
Skips(r) == r \in leaving

Examine(o, r) ==
    /\ prog[o].kind = "reconcile" /\ r \in prog[o].todo /\ join[o] = NoJoins
    /\ prog' = [prog EXCEPT ![o].todo = @ \ {r}]
    /\ IF Skips(r)
       THEN NoJoin /\ UNCHANGED <<joined, mirror, backoff>>
       ELSE IF Confirmed(r)
       THEN NoJoin /\ backoff' = backoff \ {r} /\ UNCHANGED <<joined, mirror>>
       ELSE /\ joined' = [joined EXCEPT ![r] = None] /\ mirror' = mirror \ {r}
            /\ UNCHANGED backoff
            /\ IF r \in backoff THEN NoJoin
               ELSE \E in \in SUBSET {r} :
                 /\ in = {} => Refusals
                 /\ in # {} => up
                 /\ leaving' = leaving \ {r} /\ cached' = cached \union {r}
                 /\ left' = left /\ crossed' = IF Overlap(o, r) THEN crossed ELSE crossed \ {r}
                 /\ server' = server \union in /\ Answers(in, {})
                 /\ faults' = IF up /\ in = {} THEN faults + 1 ELSE faults
                 /\ Goes(o, r, "sent")
    /\ UNCHANGED <<Table, up, commands>>

Done(o) ==
    /\ Busy(o) /\ prog[o].kind # "list" /\ prog[o].todo = {} /\ join[o] = NoJoins
    /\ prog' = [prog EXCEPT ![o] = Idle]
    /\ UNCHANGED <<Table, Mirrors, leaving, backoff, cached, server, presence, up, join, left,
                   crossed,
                   commands, faults>>

(* room_join_health_loop waits until the runtime is ready.                  *)
CheckStarts ==
    /\ Ready /\ ~Busy("check") /\ prog["command"].kind # "reload"
    /\ \E r \in Autojoin : ~Confirmed(r) /\ r \notin leaving
    /\ prog' = [prog EXCEPT !["check"] = [kind |-> "list", todo |-> {}]]
    /\ UNCHANGED <<Table, Mirrors, leaving, backoff, cached, server, presence, up, join, left,
                   crossed,
                   commands, faults>>

BackoffPasses(r) ==
    /\ r \in backoff /\ backoff' = backoff \ {r}
    /\ UNCHANGED <<Table, Mirrors, leaving, cached, server, presence, up, prog, join, left, crossed,
                   commands, faults>>

-----------------------------------------------------------------------------
(* Sessions.  on_session_ready discards every mirror of the old one.        *)

SessionEnds ==
    /\ up /\ up' = FALSE /\ faults < MaxFaults /\ faults' = faults + 1
    /\ server' = {} /\ presence' = [r \in Rooms |-> <<>>]
    /\ prog' = [prog EXCEPT !["session"] = Idle] /\ join' = [join EXCEPT !["session"] = NoJoins]
    /\ UNCHANGED <<Table, Mirrors, leaving, backoff, cached, left, crossed, commands>>

Inherited_Kept == <<joined, mirror>>
Inherited == <<[r \in Rooms |-> None], {}>>

SessionReady ==
    /\ ~up /\ up' = TRUE
    /\ joined' = Inherited[1] /\ mirror' = Inherited[2] /\ backoff' = {}
    /\ prog' = [prog EXCEPT !["session"] = [kind |-> "list", todo |-> {}]]
    /\ crossed' = crossed \union {r \in Rooms : InFlight(r)}
    /\ UNCHANGED <<Table, leaving, cached, server, presence, join, left, commands, faults>>

-----------------------------------------------------------------------------
(* Commands.  They run while the runtime is ready, one at a time here.      *)

Command ==
    /\ Ready /\ ~Busy("command") /\ commands < MaxCommands
    /\ commands' = commands + 1

Runs(kind, todo) == prog' = [prog EXCEPT !["command"] = [kind |-> kind, todo |-> todo]]

AddRoom(r, autojoin) ==
    /\ Command /\ stored[r] = None
    /\ stored' = [stored EXCEPT ![r] = autojoin] /\ enabled' = enabled \union {r}
    /\ NoJoin /\ UNCHANGED <<Mirrors, backoff, pending, up, prog>>

UpdateRoom(r, autojoin) ==
    /\ Command /\ stored[r] = ~autojoin
    /\ stored' = [stored EXCEPT ![r] = autojoin]
    /\ NoJoin /\ UNCHANGED <<Mirrors, backoff, enabled, pending, up, prog>>

(* _leave_runtime_room.                                                      *)
Marked_Never(rs) == {}
Marked(rs) == {r \in rs : joined[r] # None \/ r \in mirror}

Leave(rs) ==
    /\ leaving' = leaving \union Marked(rs)
    /\ left' = left \union {r \in rs : joined[r] # None \/ r \in mirror}
    /\ crossed' = crossed \union {r \in rs : InFlight(r) \/ r \in prog["check"].todo}
    /\ SendLeaves({r \in rs : joined[r] # None \/ r \in mirror})
    /\ joined' = [r \in Rooms |-> IF r \in rs THEN None ELSE joined[r]] /\ mirror' = mirror \ rs

LeaveRoom(r) ==
    /\ Command /\ Leave({r})
    /\ UNCHANGED <<Table, backoff, up, prog, join, faults>>

(* The features and the row go first, the membership after further awaits.  *)
DeleteRoom(r) ==
    /\ Command /\ Runs("delete", {r})
    /\ enabled' = enabled \ {r} /\ stored' = [stored EXCEPT ![r] = None]
    /\ NoJoin /\ UNCHANGED <<Mirrors, backoff, pending, up>>

DeleteLeaves(r) ==
    /\ prog["command"].kind = "delete" /\ r \in prog["command"].todo
    /\ prog' = [prog EXCEPT !["command"].todo = {}]
    /\ Leave({r}) /\ UNCHANGED <<Table, backoff, up, join, commands, faults>>

JoinRoom(r) ==
    /\ Command /\ Runs("join", {}) /\ SendJoins("command", {r})
    /\ UNCHANGED <<Table, Mirrors, backoff, up>>

(* Every room is left, then the stored ones are joined at once.             *)
SyncLeaves ==
    /\ Command /\ Leave({r \in Rooms : joined[r] # None}) /\ Runs("sync", Autojoin)
    /\ UNCHANGED <<Table, backoff, up, join, faults>>

SyncJoins ==
    /\ prog["command"].kind = "sync" /\ prog["command"].todo # {}
    /\ SendJoins("command", prog["command"].todo) /\ Runs("sync", {})
    /\ UNCHANGED <<Table, Mirrors, backoff, up, commands>>

(* on_unload and on_load: the rooms are left and joined again in turn.      *)
Unload ==
    /\ Command
    /\ LET rs == {r \in Rooms : joined[r] # None} IN
       /\ SendLeaves(rs)
       /\ prog' = [prog EXCEPT !["command"] = [kind |-> "reload", todo |-> rs], !["check"] = Idle]
    /\ joined' = [r \in Rooms |-> None] /\ mirror' = {} /\ backoff' = {}
    /\ join' = [join EXCEPT !["check"] = NoJoins]
    /\ UNCHANGED <<Table, leaving, up, left, crossed, faults>>

LoadJoins(r) ==
    /\ prog["command"].kind = "reload" /\ r \in prog["command"].todo /\ join["command"] = NoJoins
    /\ SendJoins("command", {r}) /\ prog' = [prog EXCEPT !["command"].todo = @ \ {r}]
    /\ UNCHANGED <<Table, Mirrors, backoff, up, commands>>

(* handle_room_invite, and the administrators' answers.                     *)
Invited(r) ==
    /\ up /\ faults < MaxFaults /\ faults' = faults + 1
    /\ joined[r] = None /\ stored[r] # TRUE /\ pending' = pending \union {r}
    /\ UNCHANGED <<stored, enabled, Mirrors, leaving, backoff, cached, server, presence, up, prog,
                   join, left, crossed, commands>>

AcceptInvite(r) ==
    /\ r \in pending /\ Command /\ Runs("accept", {}) /\ SendJoins("command", {r})
    /\ UNCHANGED <<Table, Mirrors, backoff, up>>

DeclineInvite(r) ==
    /\ r \in pending /\ Command /\ pending' = pending \ {r}
    /\ NoJoin /\ UNCHANGED <<stored, enabled, Mirrors, backoff, up, prog>>

Awaited(r) ==
    \/ \E o \in Joiners : JoinFails(o, r) \/ Resumes(o, r) \/ Examine(o, r)
    \/ JoinLookup(r) \/ JoinWrite(r) \/ AcceptWrite(r) \/ AcceptForgets(r)
    \/ DeleteLeaves(r) \/ LoadJoins(r)

Next ==
    \/ \E r \in Rooms :
        \/ Awaited(r) \/ Presence(r) \/ Kick(r) \/ Invited(r) \/ BackoffPasses(r)
        \/ LeaveRoom(r) \/ DeleteRoom(r) \/ JoinRoom(r) \/ AcceptInvite(r) \/ DeclineInvite(r)
        \/ \E a \in BOOLEAN : AddRoom(r, a) \/ UpdateRoom(r, a)
    \/ \E o \in Joiners : Listed(o) \/ Done(o)
    \/ SyncLeaves \/ SyncJoins \/ Unload \/ CheckStarts \/ SessionEnds \/ SessionReady

(* What the event loop, the timers and the reconnect loop bring about.      *)
Progress ==
    \/ \E r \in Rooms : Awaited(r) \/ Presence(r)
    \/ \E o \in Joiners : Listed(o) \/ Done(o)
    \/ SyncJoins \/ CheckStarts \/ SessionReady

Spec ==
    /\ Init /\ [][Next]_vars
    /\ WF_vars(Progress) /\ \A r \in Rooms : WF_vars(BackoffPasses(r))

-----------------------------------------------------------------------------
Wanted(r) == stored[r] = TRUE /\ r \notin leaving
Resting ==
    /\ up /\ \A o \in Joiners : ~Busy(o)
    /\ \A r \in Rooms : presence[r] = <<>>

(* With nothing under way the mirrors show the rooms the bot is in, except  *)
(* for rooms that were left while a join of them was awaited.               *)
MirrorsAreTrue ==
    Resting => \A r \in Rooms \ crossed :
        /\ r \in mirror <=> r \in server
        /\ joined[r] \in {"plain", "sure"} <=> r \in server

(* A room that a command left is not joined again, in this session or a     *)
(* later one, until a command asks for it (_LEAVING_ROOMS), whatever joins  *)
(* of it were awaited when it was left.                                     *)
LeftStaysLeft == left \intersect server = {}

RoomsAreTrue == MirrorsAreTrue /\ LeftStaysLeft

(* A room with autojoin that nobody left is joined and mirrored in the end, *)
(* after any refusals, kicks and reconnects.                                *)
Healed(r) == Wanted(r) /\ r \notin crossed => r \in server /\ r \in mirror
RoomsHeal == \A r \in Rooms : Wanted(r) ~> Healed(r)

-----------------------------------------------------------------------------
(* The inductive invariant behind RoomsAreTrue.  The last presence on its   *)
(* way tells what the service says; what has been heard of a room where the *)
(* bot is shows in both mirrors; and a join that goes on after its presence *)
(* was heard goes on in a room where the bot is, unless it is crossed.      *)
Awake(o, r) == join[o][r] \in {"heard", "lookup", "write", "forget"}
Shown(r) == joined[r] \in {"plain", "sure"}
Heard(r) == presence[r] = <<>>
LastSent(r) == presence[r][Len(presence[r])]

ServiceInv(r) ==
    /\ r \in server => r \notin leaving /\ r \in cached /\ up
    /\ r \in left => r \in leaving
    /\ ~up => Heard(r)
    /\ ~Heard(r) => (LastSent(r) = "here" <=> r \in server)

HeardInv(r) ==
    /\ r \in mirror => joined[r] # None
    /\ Heard(r) /\ r \in server => Shown(r) /\ r \in mirror

UncrossedInv(r) ==
    /\ \A o \in Joiners : Awake(o, r) => joined[r] # "stub" /\ (Heard(r) => r \in server)
    /\ ~InFlight(r) /\ joined[r] = "stub" => r \notin mirror
    /\ Heard(r) /\ joined[r] = "sure" => r \in server
    /\ Heard(r) /\ ~InFlight(r) /\ Shown(r) => r \in server

RoomInv(r) == ServiceInv(r) /\ HeardInv(r) /\ (up /\ r \notin crossed => UncrossedInv(r))
MembershipInv == \A r \in Rooms : RoomInv(r)

(* A joiner that does nothing awaits no join.                               *)
AwaitedInv == \A o \in Joiners : ~Busy(o) => join[o] = NoJoins
=============================================================================
