--------------------------------- MODULE Polls ---------------------------------
(***************************************************************************)
(* The polls of one room (plugins/poll.py).  Each poll with a time limit   *)
(* has a task that closes it; loading the plugin restores the tasks and    *)
(* closes what ran out meanwhile.  The finished polls are kept up to a     *)
(* limit.  A poll that is closed is announced when the store has taken it: *)
(* whatever else is done to the polls of the room may come in between.     *)
(***************************************************************************)
EXTENDS Integers, Sequences, FiniteSets, SequencesExt

CONSTANTS
    Voters,
    MaxHistory, \* finished polls that a room keeps
    MaxPolls,   \* bound on polls that are created
    MaxLoads    \* bound on loads of the plugin

PollsAssumption == MaxHistory \in Nat

VARIABLES
    status,    \* persisted: "none", "open", "closed" or "cancelled"
    timed,     \* persisted: the polls with a time limit
    due,       \* the polls whose time has run out
    votes,     \* persisted: who has voted
    history,   \* persisted: the finished polls, in the order in which they ended
    timers,    \* AUTO_CLOSE_TASKS
    closing,   \* closed and not yet announced: by whom, "task", "restore" or "command"
    plugin,    \* "down", "restoring", "announcing", "failing", "failed" or "up"
    todo,      \* the polls that the restoring has still to look at
    announced, \* ghost: the votes that each announcement of a result has counted
    removed,   \* ghost: the polls of the room when it was deleted
    loads

polls == <<status, timed, votes, history>>
vars == <<polls, due, timers, closing, plugin, todo, announced, removed, loads>>

Ids == 1..MaxPolls
Closers == {"none", "task", "restore", "command"}

TypeOK ==
    /\ status \in [Ids -> {"none", "open", "closed", "cancelled"}]
    /\ timed \subseteq Ids /\ due \subseteq timed /\ votes \in [Ids -> SUBSET Voters]
    /\ history \in Seq(Ids) /\ timers \subseteq Ids /\ closing \in [Ids -> Closers]
    /\ plugin \in {"down", "restoring", "announcing", "failing", "failed", "up"}
    /\ todo \subseteq Ids /\ announced \in [Ids -> Seq(SUBSET Voters)]
    /\ removed \subseteq Ids /\ loads \in 0..MaxLoads

Init ==
    /\ status = [p \in Ids |-> "none"] /\ timed = {} /\ due = {}
    /\ votes = [p \in Ids |-> {}] /\ history = <<>>
    /\ timers = {} /\ closing = [p \in Ids |-> "none"]
    /\ plugin = "down" /\ todo = {} /\ announced = [p \in Ids |-> <<>>] /\ removed = {} /\ loads = 0

(* Numbers are given in order, but start anew when the room was deleted; a  *)
(* deleted poll and its successor are told apart here.                      *)
Fresh == {p \in Ids : \A q \in Ids : (status[q] = "none" /\ q \notin removed) <=> q >= p}

-----------------------------------------------------------------------------
(* poll create: the poll is stored, then its task is started.               *)
Create(p, limited) ==
    /\ plugin = "up" /\ p \in Fresh
    /\ status' = [status EXCEPT ![p] = "open"]
    /\ timed' = IF limited THEN timed \union {p} ELSE timed
    /\ timers' = IF limited THEN timers \union {p} ELSE timers
    /\ UNCHANGED <<due, votes, history, closing, plugin, todo, announced, removed, loads>>

TimePasses(p) ==
    /\ p \in timed \ due /\ due' = due \union {p}
    /\ UNCHANGED <<polls, timers, closing, plugin, todo, announced, removed, loads>>

(* poll vote: a vote takes the place of an earlier one.                     *)
IsOpen_Kept(p) == status[p] \in {"open", "closed"}
IsOpen(p) == status[p] = "open"

Vote(v, p) ==
    /\ plugin = "up" /\ IsOpen(p) /\ votes' = [votes EXCEPT ![p] = @ \union {v}]
    /\ UNCHANGED <<status, timed, history, due, timers, closing, plugin, todo, announced,
                   removed, loads>>

-----------------------------------------------------------------------------
(* _trim_history: what is more than the limit, oldest first.                *)
TrimHistory(h) == SubSeq(h, IF Len(h) > MaxHistory THEN Len(h) - MaxHistory + 1 ELSE 1, Len(h))

(* _close_poll up to its write, and what it does when it is written.  The   *)
(* poll is changed in place, so that whoever comes second finds it closed.  *)
ClosePoll(p, by, end) ==
    /\ IsOpen(p) /\ status' = [status EXCEPT ![p] = end]
    /\ history' = TrimHistory(Append(history, p))
    /\ closing' = [closing EXCEPT ![p] = by]

Announce(p) ==
    /\ closing' = [closing EXCEPT ![p] = "none"] /\ timers' = timers \ {p}
    /\ announced' = [announced EXCEPT ![p] = Append(@, votes[p])]

(* poll close, poll cancel: by who created the poll or manages the room.    *)
Close(p, end) ==
    /\ plugin = "up" /\ ClosePoll(p, "command", end)
    /\ UNCHANGED <<timed, due, votes, timers, plugin, todo, announced, removed, loads>>

AutoClose(p) ==
    /\ p \in timers \cap due /\ ClosePoll(p, "task", "closed")
    /\ UNCHANGED <<timed, due, votes, timers, plugin, todo, announced, removed, loads>>

(* The task finds the poll closed or gone, and ends.                        *)
AutoCloseIdle(p) ==
    /\ p \in timers \cap due /\ ~IsOpen(p) /\ closing[p] # "task" /\ timers' = timers \ {p}
    /\ UNCHANGED <<polls, due, closing, plugin, todo, announced, removed, loads>>

AnnounceClosed(p) ==
    /\ closing[p] \in {"command", "task"} /\ Announce(p)
    /\ UNCHANGED <<polls, due, plugin, todo, removed, loads>>

(* poll delete: a finished poll leaves the history.                         *)
Delete(p) ==
    /\ plugin = "up" /\ Contains(history, p)
    /\ history' = SelectSeq(history, LAMBDA q : q # p)
    /\ UNCHANGED <<status, timed, due, votes, timers, closing, plugin, todo, announced,
                   removed, loads>>

(* The room is deleted: the tasks first, then everything it has stored.     *)
CleanupRoomState ==
    /\ plugin = "up" /\ timers' = {}
    /\ status' = [p \in Ids |-> "none"] /\ history' = <<>> /\ timed' = {} /\ due' = {}
    /\ votes' = [p \in Ids |-> {}]
    /\ removed' = removed \union {p \in Ids : status[p] # "none"}
    /\ UNCHANGED <<closing, announced, plugin, todo, loads>>

-----------------------------------------------------------------------------
(* on_load: one poll after the other, in the order in which they are stored.*)
OnLoad ==
    /\ plugin \in {"down", "failed"} /\ loads < MaxLoads /\ loads' = loads + 1
    /\ plugin' = "restoring"
    /\ todo' = {p \in Ids : status[p] = "open" \/ Contains(history, p)}
    /\ UNCHANGED <<polls, due, timers, closing, announced, removed>>

Next1 == CHOOSE p \in todo : \A q \in todo : p <= q
Overdue(p) == status[p] = "open" /\ p \in due

RestoreTask ==
    /\ plugin = "restoring" /\ todo # {} /\ ~Overdue(Next1) /\ todo' = todo \ {Next1}
    /\ timers' = IF status[Next1] = "open" /\ Next1 \in timed THEN timers \union {Next1} ELSE timers
    /\ UNCHANGED <<polls, due, closing, plugin, announced, removed, loads>>

(* The polls are iterated over while the history is trimmed: when one of    *)
(* them is removed the iteration fails, and with it the load.               *)
IterationFails == Len(history') <= Len(history)

RestoreCloses ==
    /\ plugin = "restoring" /\ todo # {} /\ Overdue(Next1)
    /\ ClosePoll(Next1, "restore", "closed")
    /\ todo' = todo \ {Next1} /\ plugin' = IF IterationFails THEN "failing" ELSE "announcing"
    /\ UNCHANGED <<timed, due, votes, timers, announced, removed, loads>>

RestoreAnnounces ==
    \E p \in Ids :
        /\ closing[p] = "restore" /\ Announce(p)
        /\ plugin' = IF plugin = "failing" THEN "failed" ELSE "restoring"
        /\ UNCHANGED <<polls, due, todo, removed, loads>>

Restored ==
    /\ plugin = "restoring" /\ todo = {} /\ plugin' = "up"
    /\ UNCHANGED <<polls, due, timers, closing, todo, announced, removed, loads>>

(* The tasks of a plugin that is unloaded, or that has failed, are stopped; *)
(* what one of them had closed is not announced any more.                   *)
OnUnload ==
    /\ \/ plugin = "up" /\ plugin' = "down"
       \/ plugin = "failed" /\ timers # {} /\ plugin' = plugin
    /\ timers' = {} /\ closing' = [p \in Ids |-> "none"]
    /\ UNCHANGED <<polls, due, todo, announced, removed, loads>>

Poll(p) ==
    \/ (\E limited \in BOOLEAN : Create(p, limited)) \/ TimePasses(p)
    \/ (\E v \in Voters : Vote(v, p))
    \/ (\E end \in {"closed", "cancelled"} : Close(p, end))
    \/ AutoClose(p) \/ AutoCloseIdle(p) \/ AnnounceClosed(p) \/ Delete(p)

Plugin ==
    \/ CleanupRoomState \/ OnLoad \/ RestoreTask \/ RestoreCloses \/ RestoreAnnounces
    \/ Restored \/ OnUnload

Next == (\E p \in Ids : Poll(p)) \/ Plugin

Spec == Init /\ [][Next]_vars

(* The tasks run; somebody loads the plugin when it is not loaded.          *)
FairSpec ==
    /\ Spec
    /\ WF_vars(Plugin /\ ~CleanupRoomState /\ plugin # "up")
    /\ \A p \in Ids : WF_vars(AutoClose(p) \/ AutoCloseIdle(p) \/ AnnounceClosed(p) \/ TimePasses(p))

-----------------------------------------------------------------------------
(* A result is announced once, and it is the result: no vote is added to it *)
(* between the poll's end, its announcement and whatever comes later.       *)
ResultIsFinal ==
    \A p \in Ids \ removed :
        /\ Len(announced[p]) <= 1
        /\ announced[p] # <<>> => announced[p][1] = votes[p]

(* While the plugin is loaded, an open poll with a time limit has its task. *)
TimersAreSet ==
    plugin = "up" => \A p \in timed : status[p] = "open" => p \in timers

(* docs/plugins/poll.md:14: "Room polls with voting, history and            *)
(* auto-close": a poll is closed when its time has run out, also when that  *)
(* was while the plugin was not loaded; loading it then does not fail       *)
(* (tests/plugins/test_poll.py:346: "restore cleans up already closed       *)
(* polls").                                                                 *)
LoadSucceeds == plugin # "failed"
=============================================================================
