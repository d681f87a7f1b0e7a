-------------------------------- MODULE Alerts --------------------------------
(***************************************************************************)
(* The administrator's alerts (utils/admin_alerts.py, utils/health.py): a  *)
(* poll takes a snapshot of the runtime's health and goes through it; some *)
(* conditions are reported as well by the code that meets them, while a    *)
(* poll may be sending.  A level stands for a condition's fingerprint.     *)
(***************************************************************************)
EXTENDS Integers, FiniteSets

CONSTANTS
    Reported,   \* conditions that are polled and reported: outbox, circuits, lag
    Rooms,      \* autojoin rooms
    MaxChanges, \* bound on changes of what is watched
    MaxFaults   \* bound on notifications and collections that fail

Keys == Reported \union Rooms
Callers == {"poll", "report"}
NoKind == "none"

AlertsAssumption ==
    /\ Reported \intersect Rooms = {} /\ NoKind \notin Keys
    /\ MaxChanges \in Nat /\ MaxFaults \in Nat

VARIABLES
    cond,       \* what is the case: 0 is well
    configured, \* rooms that have autojoin
    snap,       \* the snapshot of the poll under way
    todo,       \* what it has still to look at
    since,      \* _room_missing_since
    long,       \* rooms of it over the threshold
    state,      \* _states: [active, level, quiet]
    sending,    \* what each caller is sending: [key, kind]
    said,       \* ghost: whether the last that was sent about a key calls it active
    changes, faults

vars == <<cond, configured, snap, todo, since, long, state, sending, said, changes, faults>>

Quiet == [key |-> NoKind, kind |-> NoKind]
Notifications == [key : Keys, kind : {"open", "ongoing", "resolved"}]

TypeOK ==
    /\ cond \in [Keys -> 0..2] /\ configured \subseteq Rooms /\ todo \subseteq Keys
    /\ snap \in [cond : [Keys -> 0..2], configured : SUBSET Rooms]
    /\ long \subseteq since /\ since \subseteq Rooms
    /\ state \in [Keys -> [active : BOOLEAN, level : 0..2, quiet : BOOLEAN]]
    /\ sending \in [Callers -> Notifications \union {Quiet}]
    /\ said \in [Keys -> BOOLEAN] /\ changes \in 0..MaxChanges /\ faults \in 0..MaxFaults

Init ==
    /\ cond = [k \in Keys |-> 0] /\ configured = Rooms
    /\ snap = [cond |-> cond, configured |-> Rooms] /\ todo = {}
    /\ since = {} /\ long = {}
    /\ state = [k \in Keys |-> [active |-> FALSE, level |-> 0, quiet |-> FALSE]]
    /\ sending = [c \in Callers |-> Quiet] /\ said = [k \in Keys |-> FALSE]
    /\ changes = 0 /\ faults = 0

Fault == faults < MaxFaults /\ faults' = faults + 1

-----------------------------------------------------------------------------
(* What is watched changes; the cooldown of a key passes, and a room that   *)
(* is missing reaches the threshold.                                        *)

Changes(k) ==
    /\ changes < MaxChanges /\ changes' = changes + 1
    /\ \E level \in (IF k \in Rooms THEN 0..1 ELSE 0..2) \ {cond[k]} :
          cond' = [cond EXCEPT ![k] = level]
    /\ UNCHANGED <<configured, snap, todo, since, long, state, sending, said, faults>>

Deconfigured(r) ==
    /\ changes < MaxChanges /\ changes' = changes + 1
    /\ r \in configured /\ configured' = configured \ {r}
    /\ UNCHANGED <<cond, snap, todo, since, long, state, sending, said, faults>>

TimePasses(k) ==
    /\ state' = [state EXCEPT ![k].quiet = FALSE] /\ long' = long \union (since \intersect {k})
    /\ UNCHANGED <<cond, configured, snap, todo, since, sending, said, changes, faults>>

-----------------------------------------------------------------------------
(* AdminAlertManager._set and _notify                                       *)

Busy_Never(k) == FALSE
Busy(k) == \E c \in Callers : sending[c].key = k

Notify(c, k, kind) ==
    sending' = IF Busy(k) THEN sending ELSE [sending EXCEPT ![c] = [key |-> k, kind |-> kind]]

SetActive(c, k, level) ==
    /\ state' = [state EXCEPT ![k].active = TRUE, ![k].level = level]
    /\ IF ~state[k].active THEN Notify(c, k, "open")
       ELSE IF level # state[k].level \/ ~state[k].quiet THEN Notify(c, k, "ongoing")
       ELSE UNCHANGED sending

SetInactive(c, k) ==
    /\ IF state[k].active THEN Notify(c, k, "resolved") ELSE UNCHANGED sending
    /\ UNCHANGED state

(* A notification that is sent is queued durably.  One that cannot be sent  *)
(* leaves the state as it is: the alert stays active until it is resolved.  *)
Sent(c) ==
    /\ sending[c] # Quiet /\ sending' = [sending EXCEPT ![c] = Quiet]
    /\ LET k == sending[c].key
           open == sending[c].kind # "resolved"
       IN  /\ said' = [said EXCEPT ![k] = open]
           /\ state' = [state EXCEPT ![k] = [active |-> @.active /\ open, quiet |-> TRUE,
                                             level |-> IF open THEN @.level ELSE 0]]
    /\ UNCHANGED <<cond, configured, snap, todo, since, long, changes, faults>>


NotSent(c) ==
    /\ sending[c] # Quiet /\ sending' = [sending EXCEPT ![c] = Quiet] /\ Fault
    /\ UNCHANGED <<cond, configured, snap, todo, since, long, state, said, changes>>

-----------------------------------------------------------------------------
(* report_outbox_dead, report_task_circuit, report_event_loop_lag, ...      *)
Report(k) ==
    /\ k \in Reported /\ cond[k] # 0 /\ sending["report"] = Quiet
    /\ SetActive("report", k, cond[k])
    /\ UNCHANGED <<cond, configured, snap, todo, since, long, said, changes, faults>>

(* collect_health_snapshot                                                  *)
Collected == [cond |-> cond, configured |-> configured]

(* run_once.  A collection that fails leaves its check without data, which  *)
(* _check_rooms reads as no room being configured.                          *)
PollStarts ==
    /\ todo = {} /\ sending["poll"] = Quiet /\ todo' = Keys
    /\ \/ snap' = Collected /\ UNCHANGED faults
       \/ snap' = [cond |-> cond, configured |-> {}] /\ Fault
    /\ UNCHANGED <<cond, configured, since, long, state, sending, said, changes>>

Looks(k) ==
    /\ k \in todo /\ todo' = todo \ {k} /\ sending["poll"] = Quiet
    /\ UNCHANGED <<cond, configured, snap, said, changes, faults>>

(* _check_outbox, _check_tasks, _check_database, _check_watchdog, ...       *)
Level(k) == snap.cond[k]

Check(k) ==
    /\ k \in Reported /\ Looks(k) /\ UNCHANGED <<since, long>>
    /\ IF Level(k) # 0 THEN SetActive("poll", k, Level(k)) ELSE SetInactive("poll", k)

(* _check_rooms                                                             *)
CheckRoom(r) ==
    /\ r \in Rooms /\ Looks(r)
    /\ IF r \in snap.configured /\ snap.cond[r] # 0
       THEN /\ since' = since \union {r} /\ UNCHANGED long
            /\ IF r \in long THEN SetActive("poll", r, 1) ELSE SetInactive("poll", r)
       ELSE /\ since' = since \ {r} /\ long' = long \ {r}
            /\ IF r \in snap.configured \union since THEN SetInactive("poll", r)
               ELSE UNCHANGED <<state, sending>>

-----------------------------------------------------------------------------
Next ==
    \/ \E k \in Keys : Changes(k) \/ TimePasses(k) \/ Report(k) \/ Check(k)
    \/ \E r \in Rooms : Deconfigured(r) \/ CheckRoom(r)
    \/ \E c \in Callers : Sent(c) \/ NotSent(c)
    \/ PollStarts

Spec == Init /\ [][Next]_vars

(* The loop runs under supervision, sending returns, and time passes.       *)
Poll == PollStarts \/ \E k \in Keys : Check(k) \/ CheckRoom(k)
Sends(c) == Sent(c) \/ NotSent(c)
FairSpec ==
    /\ Spec /\ WF_vars(Poll) /\ \A k \in Keys : WF_vars(TimePasses(k))
    /\ \A c \in Callers : WF_vars(Sends(c))

-----------------------------------------------------------------------------
(* While a notification about a key is not being sent, an alert the         *)
(* administrator has seen open and not closed is one the manager holds      *)
(* active: whoever reports while a resolution is sent, none is orphaned.    *)
OpenIsHeld == \A k \in Keys : said[k] /\ ~Busy(k) => state[k].active

(* What keeps it: nobody sends that an alert is open which is not active,   *)
(* and a key is the business of one caller at a time.                       *)
HeldInv ==
    /\ \A k \in Keys : said[k] => state[k].active
    /\ \A c \in Callers : sending[c].kind \in {"open", "ongoing"} => state[sending[c].key].active
    /\ \A c, d \in Callers : sending[c] # Quiet /\ sending[c].key = sending[d].key => c = d

Untold(k) == (cond[k] # 0) # said[k] /\ (k \in Rooms => k \in configured)
Told(k) == ((cond[k] # 0) <=> said[k]) \/ (k \in Rooms /\ k \notin configured)

(* A condition that lasts is announced in the end, and so is its end:       *)
(* notifications that fail are sent again.                                  *)
ChangesAreTold == \A k \in Keys : Untold(k) ~> Told(k)

(* The comment in _set says the next pass retries a resolution that could   *)
(* not be sent: also when the room is no longer configured.                 *)
RoomAlertsClose == \A r \in Rooms : (r \notin configured /\ said[r]) ~> ~said[r]
=============================================================================
