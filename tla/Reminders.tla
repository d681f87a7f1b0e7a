----------------------------- MODULE Reminders -----------------------------
(***************************************************************************)
(* plugins/reminder: reminders are rows, and an asyncio task per reminder  *)
(* sleeps until it is due, sends it and deletes the row.  ACTIVE_REMINDERS *)
(* maps a row id to its task.  Two switches, one global and one of the     *)
(* room, cancel and restore the tasks; the room's switch is read from the  *)
(* cached global store, which does not suspend.  Row ids are those SQLite  *)
(* gives an INTEGER PRIMARY KEY: the highest in use plus one, so that the  *)
(* id of a deleted row comes back.                                         *)
(*                                                                         *)
(* One command of an administrator or owner runs at a time (op); commands  *)
(* that create reminders and the tasks overlap it.                         *)
(***************************************************************************)
EXTENDS Naturals

CONSTANTS
    TasksEach,      \* bound: asyncio tasks of one reminder at a time
    None,
    MaxReminders,   \* bound: reminders created
    RoomReminders,  \* those that are for the room, not for a user
    MaxEvents       \* bound: administrator commands, failures and restarts

Serials == 1 .. MaxReminders    \* a reminder, whatever row id it has
Ids == 1 .. MaxReminders
Tasks == Serials \X (1 .. TasksEach)
Reminder == [id : Ids, who : Serials, room : BOOLEAN]
Jobs == [of : Reminder, at : {"new", "asleep", "sent", "done"}, cancelled : BOOLEAN]
Operations ==
    [do : {"none", "reading", "cancelling", "listing", "relisting", "deleting", "popping"},
     todo : SUBSET Ids, wait : Tasks \cup {None}, gone : SUBSET Ids]
Restores ==
    [do : {"restoring"}, todo : SUBSET Reminder, wait : Tasks \cup {None}, gone : SUBSET Ids]

RemindersAssumption ==
    /\ MaxReminders \in Nat /\ TasksEach \in Nat
    /\ None \notin Tasks /\ None \notin Jobs /\ None \notin Nat

VARIABLES
    rows,           \* the table
    enabled,        \* REMINDER_ENABLED
    roomOn,         \* the room's switch
    task,           \* per task: the reminder, its point and a cancellation
    active,         \* ACTIVE_REMINDERS
    creating,       \* rows inserted whose task is not scheduled yet
    op,             \* the command in progress
    copies,         \* how often each reminder was sent
    unsure,         \* sent, but interrupted before the row was deleted
    raced,          \* scheduled twice, around a command that deletes its row, or
                    \* with the id of a row that is not quite gone, or
                    \* while the map is cleared
    left,           \* rows a task left after a failed send
    events          \* how much of that bound is used

stored == <<rows, enabled, roomOn>>
ghosts == <<copies, unsure, raced, left>>
vars == <<stored, task, active, creating, op, ghosts, events>>

Busy == {t \in Tasks : task[t] # None}
Live == {t \in Busy : ~task[t].cancelled}
Used == {w \in Serials : copies[w] # None}

TypeOK ==
    /\ rows \subseteq Reminder /\ creating \subseteq Reminder
    /\ \A r, s \in rows : r.id = s.id => r = s
    /\ {enabled, roomOn} \subseteq BOOLEAN
    /\ task \in [Tasks -> Jobs \cup {None}] /\ active \in [Ids -> Tasks \cup {None}]
    /\ op \in IF op.do = "restoring" THEN Restores ELSE Operations
    /\ copies \in [Serials -> Nat \cup {None}] /\ events \in Nat
    /\ unsure \cup raced \cup left \subseteq Serials

Idle == [do |-> "none", todo |-> {}, wait |-> None, gone |-> {}]

Init ==
    /\ rows = {} /\ enabled = TRUE /\ roomOn = TRUE
    /\ task = [t \in Tasks |-> None] /\ active = [i \in Ids |-> None]
    /\ creating = {} /\ op = Idle
    /\ copies = [w \in Serials |-> None]
    /\ unsure = {} /\ raced = {} /\ left = {}
    /\ events = 0

RowsOfRoom == {r.id : r \in {x \in rows : x.room}}
Running(i) == active[i] \in Busy

(* _schedule_task for each of todo: a task that is still there is cancelled *)
(* and its place in ACTIVE_REMINDERS taken.                                 *)
Schedule(todo) ==
    LET free(r) == {t \in Tasks \ Busy :
                       t[1] = r.who /\ op.wait # t /\ \A i \in Ids : active[i] # t}
        new(r) == CHOOSE t \in free(r) : TRUE
        replaced == {active[r.id] : r \in todo} \cap Busy
    IN  /\ \A r \in todo : free(r) # {}
        /\ task' = [t \in Tasks |->
             IF t \in replaced THEN [task[t] EXCEPT !.cancelled = TRUE]
             ELSE IF \E r \in todo : new(r) = t
             THEN [of |-> CHOOSE r \in todo : new(r) = t, at |-> "new", cancelled |-> FALSE]
             ELSE task[t]]
        /\ active' = [i \in Ids |->
             IF \E r \in todo : r.id = i THEN new(CHOOSE r \in todo : r.id = i) ELSE active[i]]
        /\ raced' = raced \cup {task[t].of.who : t \in replaced}
                          \cup {r.who : r \in {x \in todo : x.id \in op.gone \cup {task[t].of.id : t \in Busy}}}
        /\ left' = left \ {r.who : r \in todo}

(* Ids that some task or command still works with.                          *)
HeldIds ==
    {r.id : r \in creating} \cup {task[t].of.id : t \in Busy} \cup op.gone
        \cup (IF op.do = "restoring" THEN {r.id : r \in op.todo} ELSE op.todo)

(* remind_command: the row, and after the insert has returned its task.     *)
Create ==
    \E i \in Ids, w \in Serials :
        LET r == [id |-> i, who |-> w, room |-> w \in RoomReminders]
        IN  /\ enabled /\ (r.room => roomOn) /\ w \notin Used /\ 1 .. w - 1 \subseteq Used
            /\ (\A x \in rows : x.id < i) /\ (i > 1 => \E x \in rows : x.id = i - 1)
            /\ rows' = rows \cup {r} /\ creating' = creating \cup {r}
            /\ copies' = [copies EXCEPT ![w] = 0]
            /\ raced' = IF i \in HeldIds THEN raced \cup {w} ELSE raced
            /\ UNCHANGED <<enabled, roomOn, task, active, op, unsure, left, events>>

Created(r) ==
    /\ r \in creating /\ creating' = creating \ {r}
    /\ Schedule({r})
    /\ UNCHANGED <<stored, op, copies, unsure, events>>

Starts(t) ==
    /\ t \in Live /\ task[t].at = "new"
    /\ task' = [task EXCEPT ![t].at = "asleep"]
    /\ UNCHANGED <<stored, active, creating, op, ghosts, events>>

(* The task's finally clause, whatever the map holds for the id by then.    *)
Ends(t) ==
    /\ task' = [task EXCEPT ![t] = None]
    /\ active' = [active EXCEPT ![task[t].of.id] = None]

(* The reminder is due.  A switch that is off leaves the row for the next   *)
(* restore, and so does a refused send; the send is awaited, and then the   *)
(* row is deleted by its id.                                                *)
DueButOff(t) ==
    /\ t \in Live /\ task[t].at = "asleep"
    /\ ~enabled \/ (task[t].of.room /\ ~roomOn)
    /\ Ends(t)
    /\ UNCHANGED <<stored, creating, op, ghosts, events>>

Due(t) == t \in Live /\ task[t].at = "asleep" /\ enabled /\ (task[t].of.room => roomOn)

Sends(t) ==
    /\ Due(t)
    /\ task' = [task EXCEPT ![t].at = "sent"]
    /\ copies' = [copies EXCEPT ![task[t].of.who] = @ + 1]
    /\ UNCHANGED <<stored, active, creating, op, unsure, raced, left, events>>

SendRefused(t) ==
    /\ Due(t) /\ events < MaxEvents
    /\ Ends(t)
    /\ left' = left \cup {task[t].of.who}
    /\ events' = events + 1
    /\ UNCHANGED <<stored, creating, op, copies, unsure, raced>>

(* What a command or a restore holds and is about to schedule.              *)
Promised == creating \cup (IF op.do = "restoring" THEN op.todo ELSE {})

(* Rows go by their id; raced notes those that are still promised, and the  *)
(* reminders of tasks left behind by the map.                               *)
Remove(ids, forgotten) ==
    LET gone == {r \in rows : r.id \in ids}
    IN  /\ rows' = rows \ gone
        /\ raced' = raced \cup {r.who : r \in gone \cap Promised} \cup {task[t].of.who : t \in forgotten}

DeletesRow(t) ==
    /\ t \in Live /\ task[t].at = "sent"
    /\ Remove({task[t].of.id}, {})
    /\ task' = [task EXCEPT ![t].at = "done"]
    /\ UNCHANGED <<enabled, roomOn, active, creating, op, copies, unsure, left, events>>

DeleteFails(t) ==
    /\ t \in Live /\ task[t].at = "sent" /\ events < MaxEvents
    /\ Ends(t)
    /\ unsure' = unsure \cup {task[t].of.who} /\ left' = left \cup {task[t].of.who}
    /\ events' = events + 1
    /\ UNCHANGED <<stored, creating, op, copies, raced>>

Finishes(t) ==
    /\ t \in Live /\ task[t].at = "done"
    /\ Ends(t)
    /\ UNCHANGED <<stored, creating, op, ghosts, events>>

(* A cancelled task runs its finally clause, unless it had never started.   *)
Cancelled(t) ==
    /\ t \in Busy \ Live
    /\ IF task[t].at = "new"
       THEN task' = [task EXCEPT ![t] = None] /\ UNCHANGED active
       ELSE Ends(t)
    /\ unsure' = IF task[t].at = "sent" THEN unsure \cup {task[t].of.who} ELSE unsure
    /\ UNCHANGED <<stored, creating, op, copies, raced, left, events>>

Begin(new) ==
    /\ op = Idle /\ events < MaxEvents
    /\ op' = new /\ events' = events + 1
    /\ UNCHANGED <<task, active, creating, ghosts>>

GlobalOn ==
    /\ ~enabled /\ enabled' = TRUE /\ UNCHANGED <<rows, roomOn>>
    /\ Begin([Idle EXCEPT !.do = "reading"])

GlobalOff ==
    /\ enabled /\ enabled' = FALSE /\ UNCHANGED <<rows, roomOn>>
    /\ Begin([Idle EXCEPT !.do = "cancelling", !.todo = {i \in Ids : active[i] # None}])

RoomOn ==
    /\ ~roomOn /\ roomOn' = TRUE /\ UNCHANGED <<rows, enabled>>
    /\ Begin(IF enabled THEN [Idle EXCEPT !.do = "reading"] ELSE Idle)

RoomOff ==
    /\ roomOn /\ roomOn' = FALSE /\ UNCHANGED <<rows, enabled>>
    /\ Begin([Idle EXCEPT !.do = "listing"])

(* delete_reminder has read the row and found its owner.                    *)
DeleteReminder(r) ==
    /\ r \in rows
    /\ Begin([Idle EXCEPT !.do = "deleting", !.todo = {r.id}])
    /\ UNCHANGED stored

CleanupRoomState ==
    /\ Begin([Idle EXCEPT !.do = "relisting", !.gone = RowsOfRoom])
    /\ UNCHANGED stored

ReadPending ==
    /\ op.do = "reading"
    /\ op' = [op EXCEPT !.do = "restoring", !.todo = rows]
    /\ UNCHANGED <<stored, task, active, creating, ghosts, events>>

Restorable_NoRoom(r) == ~Running(r.id) /\ ~r.room
Restorable(r) == ~Running(r.id) /\ (r.room => roomOn)

(* _restore_pending_reminders goes through the rows it read.                *)
Restore ==
    /\ op.do = "restoring"
    /\ Schedule({r \in op.todo : Restorable(r)})
    /\ op' = Idle
    /\ UNCHANGED <<stored, creating, copies, unsure, events>>

ListRoom ==
    /\ op.do \in {"listing", "relisting"}
    /\ op' = [op EXCEPT !.do = "popping", !.todo = RowsOfRoom]
    /\ raced' = IF op.do = "listing" THEN raced
                ELSE raced \cup {r.who : r \in {x \in rows : x.room /\ x.id \notin op.gone}}
    /\ UNCHANGED <<stored, task, active, creating, copies, unsure, left, events>>

DeleteRow ==
    /\ op.do = "deleting"
    /\ Remove(op.todo, {})
    /\ op' = [op EXCEPT !.do = "popping"]
    /\ UNCHANGED <<enabled, roomOn, task, active, creating, copies, unsure, left, events>>

(* Cancelling one task after the other and awaiting each: the command for   *)
(* one room or one reminder pops the entry first, the global one clears the *)
(* whole map at the end.                                                    *)
Waited == op.wait = None \/ op.wait \notin Busy

CancelNext(i) ==
    /\ op.do \in {"cancelling", "popping"} /\ Waited /\ i \in op.todo
    /\ op' = [op EXCEPT !.todo = @ \ {i}, !.wait = IF Running(i) THEN active[i] ELSE None]
    /\ task' = IF Running(i) THEN [task EXCEPT ![active[i]].cancelled = TRUE] ELSE task
    /\ active' = IF op.do = "popping" THEN [active EXCEPT ![i] = None] ELSE active
    /\ UNCHANGED <<stored, creating, ghosts, events>>

AllCancelled ==
    /\ op.do \in {"cancelling", "popping"} /\ Waited /\ op.todo = {}
    /\ Remove(op.gone, IF op.do = "cancelling" THEN {active[i] : i \in Ids} \cap Busy ELSE {})
    /\ active' = IF op.do = "cancelling" THEN [i \in Ids |-> None] ELSE active
    /\ op' = Idle
    /\ UNCHANGED <<enabled, roomOn, task, creating, copies, unsure, left, events>>

(* A crash, or the end of the process, and the next start: on_ready.        *)
Restart ==
    /\ events < MaxEvents /\ events' = events + 1
    /\ task' = [t \in Tasks |-> None] /\ active' = [i \in Ids |-> None]
    /\ creating' = {} /\ enabled' = TRUE
    /\ op' = [Idle EXCEPT !.do = "reading"]
    /\ unsure' = unsure \cup {task[t].of.who : t \in {u \in Busy : task[u].at = "sent"}}
    /\ UNCHANGED <<rows, roomOn, copies, raced, left>>

TaskStep(t) ==
    \/ Starts(t) \/ DueButOff(t) \/ Sends(t) \/ SendRefused(t) \/ DeletesRow(t)
    \/ DeleteFails(t) \/ Finishes(t) \/ Cancelled(t)

OpStep ==
    \/ ReadPending \/ Restore \/ ListRoom \/ DeleteRow
    \/ (\E i \in Ids : CancelNext(i)) \/ AllCancelled

Next ==
    \/ Create
    \/ \E r \in creating : Created(r)
    \/ \E t \in Tasks : TaskStep(t)
    \/ GlobalOn \/ GlobalOff \/ RoomOn \/ RoomOff \/ CleanupRoomState
    \/ \E r \in rows : DeleteReminder(r)
    \/ OpStep \/ Restart

Spec == Init /\ [][Next]_vars

(* A reminder is sent twice only if its task was interrupted between the    *)
(* send and the deletion of its row, or if a restore that had already read  *)
(* the row, or a second task, raced with the first.                         *)
SentOnce ==
    \A w \in Serials : copies[w] # None /\ copies[w] > 1 => w \in unsure \cup raced

(* Once no command is in progress, a reminder that is switched on has a     *)
(* task that nobody cancelled, unless a send or the deletion of its row     *)
(* failed: no order of the two switches, of deletions and of reused row ids *)
(* leaves a reminder that nobody is going to send before the next start.    *)
NobodyIsForgotten ==
    op = Idle /\ enabled => \A r \in rows \ creating :
        (r.room => roomOn) => \/ r.who \in left \cup raced
                              \/ \E t \in Live : task[t].of = r

(* A deleted reminder is not sent any more once the command that deleted it *)
(* is over, unless a restore or a second task raced.                        *)
SilentStep ==
    \A w \in Serials : copies[w] # None /\ copies'[w] # copies[w] =>
        w \in raced \/ op.do = "popping" \/ \E r \in rows : r.who = w

DeletedIsSilent == [][SilentStep]_vars

RemindersArrive == SentOnce /\ NobodyIsForgotten

-----------------------------------------------------------------------------
(* The inductive invariants.  Every reminder has one record, wherever it is *)
(* found, and an id that came back is known to have raced.                  *)
Known == rows \cup Promised \cup {task[t].of : t \in Busy}

RecordsInv ==
    /\ \A r \in Known : r.who \in Used
    /\ \A r, s \in Known : r.who = s.who => r = s
    /\ \A r \in rows, s \in Known : r.id = s.id /\ r # s => r.who \in raced
    /\ \A r \in Promised : r \in rows \/ r.who \in raced
    /\ op.do = "restoring" => \A r, s \in op.todo : r.id = s.id => r = s

(* A task that nobody cancelled is the one its id leads to, and the only    *)
(* one; a cancelled one is waited for.                                      *)
MapInv ==
    /\ \A i \in Ids : Running(i) => task[active[i]].of.id = i
    /\ \A t \in Busy : task[t].of.who \in raced \/
          IF task[t].cancelled
          THEN op.do \in {"cancelling", "popping"} /\ op.wait = t
          ELSE /\ active[task[t].of.id] = t
               /\ \A u \in Busy : task[u].of.id = task[t].of.id => u = t

(* What was sent is not sent again: no task is about to, and its row is     *)
(* about to go.                                                             *)
SentInv ==
    /\ \A t \in Busy : task[t].at = "done" => task[t].of \notin rows
    /\ \A w \in Used \ (unsure \cup raced) :
          /\ copies[w] \in {0, 1}
          /\ \A t \in Live : task[t].of.who = w /\ task[t].at \in {"new", "asleep"} => copies[w] = 0
          /\ copies[w] = 1 => \A r \in rows : r.who = w =>
                \E t \in Busy : task[t].of = r /\ task[t].at = "sent"

(* What a command has set out to do.                                        *)
CommandInv ==
    /\ op.do = "cancelling" => ~enabled
    /\ op.do = "listing" => ~roomOn
    /\ op.do \notin {"relisting", "popping"} => op.gone = {}
    /\ \A r \in rows : r.id \in op.gone => r.room \/ r.who \in raced
    /\ op.do = "popping" => \A r \in rows : r.id \in op.todo =>
          r.id \in op.gone \/ (r.room /\ ~roomOn) \/ r.who \in raced
    /\ \A t \in Live : task[t].of.who \notin raced /\ task[t].at \in {"new", "asleep"} =>
          /\ op.do = "popping" /\ task[t].of.id \in op.gone => task[t].of.id \in op.todo
          /\ task[t].of \in rows \/ (op.do = "popping" /\ task[t].of.id \in op.todo)

(* Who will see to a reminder that is switched on.                          *)
CareInv ==
    enabled => \A r \in rows \ creating :
        (r.room => roomOn) =>
            \/ r.who \in left \cup raced \/ r.id \in op.gone \/ op.do = "reading"
            \/ op.do = "restoring" /\ r \in op.todo
            \/ \E t \in Live : task[t].of = r

RemindersInv == RecordsInv /\ MapInv /\ SentInv /\ CommandInv /\ CareInv
=============================================================================
