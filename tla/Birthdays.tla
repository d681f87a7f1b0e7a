----------------------------- MODULE Birthdays -----------------------------
(***************************************************************************)
(* plugins/birthday_notify.py, seen from one user.  Whether today is the   *)
(* user's birthday is asked of a cache or of the user's vCard, and checked *)
(* by three kinds of tasks that do not know of each other: the daily scan, *)
(* a presence of the user in a room, and switching the feature on.  A      *)
(* check remembers the date it began on.  A calendar day is a number.      *)
(***************************************************************************)
EXTENDS Naturals

CONSTANTS
    Rooms,
    Checks,         \* tasks started by presences and by the switch
    Scan,           \* _BIRTHDAY_CHECK_TASK
    None,
    MaxDays,        \* bound: calendar days
    MaxStarts,      \* bound: presences and switches that start a check
    MaxFaults       \* bound: failed sends, cancelled tasks and restarts

Days == 1 .. MaxDays
Tasks == Checks \cup {Scan}

VARIABLES
    day,            \* _today()
    here,           \* rooms whose JOINED_ROOMS entry shows the user
    enabled,        \* rooms with the feature switched on
    profile,        \* the day of the vCard's BDAY, or None
    cached,         \* cached_bday, or None
    memory,         \* ANNOUNCED_TODAY, per room
    stored,         \* announced_dates_by_room
    disk,           \* cached_bday and announced_dates_by_room as flushed
    task,           \* per task: the room, its point and the date it began on
    scanned,        \* last_full_check_date
    copies,         \* announcements per room and day
    twice,          \* rooms and days for which a second announcement is excused
    starts, faults

ghosts == <<copies, twice>>
bounds == <<starts, faults>>
world == <<day, here, enabled, profile>>
store == <<cached, memory, stored, disk>>
vars == <<world, store, task, scanned, ghosts, bounds>>

Answer == Days \cup {None}
Lookup == [value : Answer, at : Days]
Saved == [cached : Lookup \cup {None}, stored : [Rooms -> Answer]]
Job == [at : {"delay", "rooms", "check", "lookup", "send", "mark"}, room : Rooms \cup {None},
        todo : SUBSET Rooms, began : Days, on : Days, old : Answer]
Busy == {t \in Tasks : task[t] # None}

BirthdaysAssumption ==
    /\ MaxDays \in Nat \ {0} /\ None \notin Nat
    /\ None \notin Lookup /\ None \notin Job

TypeOK ==
    /\ day \in Days /\ here \cup enabled \subseteq Rooms /\ profile \in Answer
    /\ cached \in Lookup \cup {None} /\ disk \in Saved
    /\ memory \in [Rooms -> Answer] /\ stored \in [Rooms -> Answer]
    /\ task \in [Tasks -> Job \cup {None}]
    /\ copies \in [Rooms -> [Days -> Nat]]
    /\ scanned \in Answer /\ twice \subseteq Rooms \X Days

Nowhere == [r \in Rooms |-> None]

Init ==
    /\ day = 1 /\ here = {} /\ enabled = Rooms /\ profile \in Answer
    /\ cached = None /\ memory = Nowhere /\ stored = Nowhere
    /\ disk = [cached |-> None, stored |-> Nowhere]
    /\ task = [t \in Tasks |-> None] /\ scanned = None
    /\ copies = [r \in Rooms |-> [d \in Days |-> 0]] /\ twice = {}
    /\ starts = 0 /\ faults = 0

Fault == faults < MaxFaults /\ faults' = faults + 1

Midnight ==
    /\ day < MaxDays /\ day' = day + 1
    /\ UNCHANGED <<here, enabled, profile, store, task, scanned, ghosts, bounds>>

Leaves(r) ==
    /\ r \in here /\ here' = here \ {r}
    /\ UNCHANGED <<day, enabled, profile, store, task, scanned, ghosts, bounds>>

(* A task that goes through rooms, or waits before it checks one.           *)
Task(where, r, rooms) ==
    [at |-> where, room |-> r, todo |-> rooms, began |-> day, on |-> day, old |-> None]

Begins(t, new) ==
    /\ t \in Checks \ Busy /\ starts < MaxStarts
    /\ starts' = starts + 1 /\ task' = [task EXCEPT ![t] = new]

(* on_muc_presence, for a join and for every later status of an occupant.   *)
Presence(t, r) ==
    /\ here' = here \cup {r}
    /\ IF r \in enabled THEN Begins(t, Task("delay", r, {})) ELSE UNCHANGED <<task, starts>>
    /\ UNCHANGED <<day, enabled, profile, store, scanned, ghosts, faults>>

(* birthday_notify on and off.                                              *)
SwitchOn(t, r) ==
    /\ r \notin enabled /\ enabled' = enabled \cup {r}
    /\ Begins(t, Task("rooms", None, {r}))
    /\ UNCHANGED <<day, here, profile, store, scanned, ghosts, faults>>

SwitchOff(r) ==
    /\ r \in enabled /\ enabled' = enabled \ {r}
    /\ UNCHANGED <<day, here, profile, store, task, scanned, ghosts, bounds>>

Go(t, where) == task' = [task EXCEPT ![t].at = where]
Stops(t) == task' = [task EXCEPT ![t] = None]
Goes(t) == IF task[t].todo = {} /\ t # Scan THEN Stops(t) ELSE Go(t, "rooms")

(* The scan looks at all rooms once a day, and notes the day it began on.   *)
ScanBegins ==
    /\ task[Scan] = None /\ scanned # day
    /\ task' = [task EXCEPT ![Scan] = Task("rooms", None, Rooms)]
    /\ UNCHANGED <<world, store, scanned, ghosts, bounds>>

ScanEnds ==
    /\ task[Scan] # None /\ task[Scan].at = "rooms" /\ task[Scan].todo = {}
    /\ Stops(Scan) /\ scanned' = task[Scan].began
    /\ UNCHANGED <<world, store, ghosts, bounds>>

(* _check_room_birthdays: the user is looked for in the room.               *)
NextRoom(t, r) ==
    /\ t \in Busy /\ task[t].at = "rooms" /\ r \in task[t].todo
    /\ LET rest == task[t].todo \ {r}
       IN  IF r \in enabled \cap here
           THEN task' = [task EXCEPT ![t].at = "check", ![t].room = r, ![t].todo = rest]
           ELSE IF rest = {} /\ t # Scan THEN Stops(t) ELSE task' = [task EXCEPT ![t].todo = rest]
    /\ UNCHANGED <<world, store, scanned, ghosts, bounds>>

(* The join is stable: the occupant is still there after the delay.         *)
Stable(t) ==
    /\ t \in Busy /\ task[t].at = "delay"
    /\ IF task[t].room \in here THEN Go(t, "check") ELSE Stops(t)
    /\ UNCHANGED <<world, store, scanned, ghosts, bounds>>

(* _is_birthday_today asks the calendar again: the check may have begun on  *)
(* another day than the one it congratulates on.                            *)
Decided(t, birthday, date) ==
    IF birthday = day
    THEN task' = [task EXCEPT ![t].at = "send", ![t].on = date]
    ELSE Goes(t)

(* The checks of the user in a room that found it not served.               *)
Within(r) == {u \in Busy : task[u].room = r /\ task[u].at \in {"lookup", "send", "mark"}}

(* _check_user_birthday up to the first request: a room that was served     *)
(* today, by the memory or else by the store, ends the check, and so does a *)
(* cached answer that is not older than twelve hours (fresh).               *)
Announced_Memory(r) == memory[r]
Announced(r) == IF memory[r] # None THEN memory[r] ELSE stored[r]

Check(t, fresh) ==
    LET r == task[t].room
    IN  /\ t \in Busy /\ task[t].at = "check"
        /\ fresh => cached # None /\ cached.at >= day - 1
        /\ memory' = [memory EXCEPT ![r] = Announced(r)]
        /\ IF Announced(r) = day THEN Goes(t)
           ELSE IF fresh THEN Decided(t, cached.value, day)
           ELSE task' = [task EXCEPT ![t].at = "lookup", ![t].on = day,
                           ![t].old = IF cached = None THEN None ELSE cached.value]
        /\ twice' = IF Within(r) # {} THEN twice \cup ({r} \X (Days \cap {day, day + 1}))
                    ELSE twice
        /\ UNCHANGED <<world, cached, stored, disk, scanned, copies, bounds>>

(* The vCard answers, and the answer, also that there is none, is cached;   *)
(* when it cannot be had an old positive answer serves.                     *)
Answered(t) ==
    /\ t \in Busy /\ task[t].at = "lookup"
    /\ cached' = [value |-> profile, at |-> day]
    /\ Decided(t, profile, task[t].on)
    /\ UNCHANGED <<world, memory, stored, disk, scanned, ghosts, bounds>>

NoAnswer(t) ==
    /\ t \in Busy /\ task[t].at = "lookup" /\ Fault
    /\ Decided(t, task[t].old, task[t].on)
    /\ UNCHANGED <<world, store, scanned, ghosts, starts>>

Sent(t) ==
    /\ t \in Busy /\ task[t].at = "send"
    /\ Go(t, "mark")
    /\ copies' = [copies EXCEPT ![task[t].room][day] = @ + 1]
    /\ twice' = IF task[t].on # day THEN twice \cup {<<task[t].room, day>>} ELSE twice
    /\ UNCHANGED <<world, store, scanned, bounds>>

NotSent(t) ==
    /\ t \in Busy /\ task[t].at = "send" /\ Fault
    /\ Goes(t)
    /\ UNCHANGED <<world, store, scanned, ghosts, starts>>

(* _mark_announced, with the date the check began on.                       *)
Mark(t) ==
    /\ t \in Busy /\ task[t].at = "mark"
    /\ stored' = [stored EXCEPT ![task[t].room] = task[t].on]
    /\ memory' = [memory EXCEPT ![task[t].room] = task[t].on]
    /\ Goes(t)
    /\ UNCHANGED <<world, cached, disk, scanned, ghosts, bounds>>

Interrupted(tasks) ==
    {<<task[t].room, day>> : t \in {u \in tasks \cap Busy : task[u].at \in {"send", "mark"}}}

(* on_ready of every session restarts the scan.                             *)
Ready ==
    /\ Fault
    /\ task' = [task EXCEPT ![Scan] = None] /\ scanned' = None
    /\ twice' = twice \cup Interrupted({Scan})
    /\ UNCHANGED <<world, store, copies, starts>>

(* on_unload ends all tasks and forgets ANNOUNCED_TODAY; the plugin is      *)
(* loaded again.                                                            *)
Reload ==
    /\ Fault
    /\ task' = [t \in Tasks |-> None] /\ scanned' = None /\ memory' = Nowhere
    /\ twice' = twice \cup Interrupted(Tasks)
    /\ UNCHANGED <<world, cached, stored, disk, copies, starts>>

Flush ==
    /\ disk' = [cached |-> cached, stored |-> stored] /\ disk' # disk
    /\ UNCHANGED <<world, cached, memory, stored, task, scanned, ghosts, bounds>>

Crash ==
    /\ Fault
    /\ task' = [t \in Tasks |-> None] /\ scanned' = None /\ here' = {}
    /\ cached' = disk.cached /\ stored' = disk.stored /\ memory' = Nowhere
    /\ twice' = twice \cup Interrupted(Tasks)
                      \cup {<<r, day>> : r \in {x \in Rooms : stored[x] # disk.stored[x]}}
    /\ UNCHANGED <<day, enabled, profile, disk, copies, starts>>

(* The room is deleted; what was announced there is forgotten.              *)
CleanupRoomState(r) ==
    /\ Announced(r) # None
    /\ here' = here \ {r}
    /\ memory' = [memory EXCEPT ![r] = None] /\ stored' = [stored EXCEPT ![r] = None]
    /\ copies' = [copies EXCEPT ![r] = [d \in Days |-> 0]]
    /\ UNCHANGED <<day, enabled, profile, cached, disk, task, scanned, twice, bounds>>

Next ==
    \/ Midnight \/ ScanBegins \/ ScanEnds \/ Ready \/ Reload \/ Flush \/ Crash
    \/ \E r \in Rooms : Leaves(r) \/ SwitchOff(r) \/ CleanupRoomState(r)
    \/ \E t \in Checks, r \in Rooms : Presence(t, r) \/ SwitchOn(t, r)
    \/ \E t \in Tasks :
         \/ Stable(t) \/ Answered(t) \/ NoAnswer(t) \/ Sent(t) \/ NotSent(t) \/ Mark(t)
         \/ \E r \in Rooms : NextRoom(t, r)
         \/ \E fresh \in BOOLEAN : Check(t, fresh)

Spec == Init /\ [][Next]_vars

(* A room congratulates a user once a day, over restarts, reloads and new   *)
(* sessions, unless two checks of the user in that room overlapped, a check *)
(* went over midnight, or one was cut off between its send and the next     *)
(* flush. (_load_announced_date, _mark_announced)                           *)
OncePerDay ==
    \A r \in Rooms : \A d \in Days : copies[r][d] > 1 => <<r, d>> \in twice

(* The inductive invariant.  While today is not excused for a room, a check *)
(* that began today is the only one there; until it has sent, nothing was   *)
(* sent today, and afterwards either it has yet to mark the room, or the    *)
(* room is marked and nobody is there who could mark it otherwise.          *)
OnceInv ==
    /\ \A r \in Rooms : memory[r] \in {None, stored[r]}
    /\ \A t \in Busy : task[t].on <= day /\ (task[t].at # "rooms" => task[t].room \in Rooms)
    /\ \A r \in Rooms, d \in Days : d > day => copies[r][d] = 0
    /\ \A r \in Rooms : <<r, day>> \in twice \/
          /\ \A t, u \in Within(r) : task[t].on = day => u = t
          /\ \A t \in Within(r) : task[t].on = day /\ task[t].at # "mark" => copies[r][day] = 0
          /\ copies[r][day] > 0 =>
                \/ stored[r] = day /\ Within(r) = {}
                \/ \E t \in Within(r) : task[t].at = "mark" /\ task[t].on = day
=============================================================================
