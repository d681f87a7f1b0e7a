-------------------------------- MODULE Release --------------------------------
(***************************************************************************)
(* Announcing that the running version changed (bot/lifecycle.py): the     *)
(* restart command leaves a note for the next process, the first healthy   *)
(* session of a process records the version with the announcement that is  *)
(* still owed, and a task delivers it.  Any of it may fail or be cut off.  *)
(***************************************************************************)
EXTENDS Integers

CONSTANTS
    Versions,   \* numbers greater than 0
    MaxStarts,  \* bound on starts of the process
    MaxFaults   \* bound on failures, session losses and crashes

ReleaseAssumption ==
    Versions \subseteq Nat \ {0} /\ MaxStarts \in Nat /\ MaxFaults \in Nat

No == 0
Nothing == [from |-> No, to |-> No]

VARIABLES
    code,       \* the version that runs
    pc,         \* "down", "startup", "readiness", "complete", "deliver" or "up"
    done,       \* _process_startup_complete
    owner,      \* the session's process phase returned initialized=True
    note,       \* the restart notification: the version that was asked to restart
    announced,  \* _restart_version_change_announced
    record,     \* the stored release state: [version, pending]
    told,       \* ghost: the version the administrator takes to be running
    sent,       \* ghost: the announcements delivered since the version last changed
    twice,      \* ghost: one of them was delivered once more
    cut,        \* ghost: a step was "cut" off or unread, or a note overtook ("late")
    starts, faults

vars == <<code, pc, done, owner, note, announced, record, told, sent, twice, cut, starts, faults>>

Changes == [from : Versions \union {No}, to : Versions \union {No}]

TypeOK ==
    /\ code \in Versions /\ done \in BOOLEAN /\ owner \in BOOLEAN
    /\ pc \in {"down", "startup", "readiness", "complete", "deliver", "up"}
    /\ note \in Versions \union {No} /\ announced \in Changes
    /\ record \in [version : Versions \union {No}, pending : Changes]
    /\ told \in Versions \union {No} /\ sent \subseteq Changes /\ twice \in BOOLEAN
    /\ cut \subseteq {"cut", "late"}
    /\ starts \in 0..MaxStarts /\ faults \in 0..MaxFaults

Init ==
    /\ code \in Versions /\ pc = "down" /\ done = FALSE /\ owner = FALSE /\ note = No
    /\ announced = Nothing /\ record = [version |-> No, pending |-> Nothing]
    /\ told = No /\ sent = {} /\ twice = FALSE /\ cut = {} /\ starts = 0 /\ faults = 0

Fault == faults < MaxFaults /\ faults' = faults + 1
Cut(lost) == cut' = IF lost THEN cut \union {"cut"} ELSE cut
Announces(change) ==
    told' = change.to /\ sent' = sent \union {change} /\ twice' = (twice \/ change \in sent)

-----------------------------------------------------------------------------
Start(v) ==
    /\ pc = "down" /\ starts < MaxStarts /\ starts' = starts + 1
    /\ code' = v /\ pc' = "startup" /\ done' = FALSE /\ owner' = FALSE /\ announced' = Nothing
    /\ sent' = IF v = code THEN sent ELSE {}
    /\ UNCHANGED <<note, record, told, twice, cut, faults>>

(* The process phase: only the session that initialized the process, or     *)
(* waited for it to be, gets True.                                           *)
ProcessPhase ==
    /\ pc = "startup" /\ pc' = "readiness" /\ owner' = ~done /\ done' = TRUE
    /\ UNCHANGED <<code, note, announced, record, told, sent, twice, cut, starts, faults>>

(* _send_restart_notification: it says what changed, and the note is        *)
(* removed when it was sent and not cut off.                                 *)
Noted == [from |-> note, to |-> code]

SendRestartNotification ==
    /\ pc = "readiness" /\ pc' = "complete"
    /\ \/ /\ note # No /\ note' = No
          /\ IF note # code THEN Announces(Noted) /\ announced' = Noted
             ELSE UNCHANGED <<told, sent, twice, announced>>
          /\ cut' = IF note \notin {code, told} THEN cut \union {"late"} ELSE cut
          /\ UNCHANGED faults
       \/ note = No /\ UNCHANGED <<note, announced, told, sent, twice, cut, faults>>
       \/ /\ note # No /\ Fault /\ cut' = cut \union {"late"}
          /\ UNCHANGED <<note, announced, told, sent, twice>>
    /\ UNCHANGED <<code, done, owner, record, starts>>

(* A session that is lost before it is complete is followed by another one. *)
SessionLost ==
    /\ pc \in {"readiness", "complete"} /\ pc' = "startup" /\ Fault
    /\ Cut(announced # Nothing) /\ owner' = FALSE
    /\ UNCHANGED <<code, done, note, announced, record, told, sent, twice, starts>>

-----------------------------------------------------------------------------
(* _merge_pending_version_change: an owed announcement is extended, and     *)
(* dropped when the version is back where it started.                        *)
Extends_Never(previous, pending) == FALSE
Extends(previous, pending) == pending # Nothing /\ pending.to = previous

Merged(previous, pending) ==
    LET from == IF Extends(previous, pending) THEN pending.from ELSE previous
    IN  IF previous = No \/ from = code THEN Nothing ELSE [from |-> from, to |-> code]

Owed_Replaces(state) ==
    IF announced # Nothing THEN Nothing ELSE Merged(state.version, Nothing)
Owed_Again(state) == Merged(state.version, state.pending)
Owed(state) ==
    LET pending == Merged(state.version, state.pending)
    IN  IF pending = announced THEN Nothing ELSE pending

(* _complete_session_start, _finalize_successful_startup_version: degraded  *)
(* starts and sessions that did not initialize the process record nothing;  *)
(* a state that cannot be read counts as none, and a failed write as before.*)
FinalizeSuccessfulStartupVersion ==
    /\ pc = "complete"
    /\ \/ /\ owner /\ record' = [version |-> code, pending |-> Owed(record)]
          /\ pc' = IF Owed(record) = Nothing THEN "up" ELSE "deliver"
          /\ told' = IF record.version = No THEN code ELSE told
          /\ UNCHANGED <<cut, faults>>
       \/ /\ owner /\ Fault /\ record' = [version |-> code, pending |-> Nothing]
          /\ pc' = "up" /\ Cut(TRUE) /\ UNCHANGED told
       \/ /\ owner /\ Fault /\ pc' = "up" /\ Cut(announced # Nothing)
          /\ UNCHANGED <<record, told>>
       \/ ~owner /\ pc' = "up" /\ UNCHANGED <<record, told, cut, faults>>
    /\ UNCHANGED <<code, done, owner, note, announced, sent, twice, starts>>

(* _deliver_pending_version_announcement, with the entry it clears only if  *)
(* it is still the one that was delivered.                                   *)
DeliverPending ==
    /\ pc = "deliver" /\ pc' = "up"
    /\ \/ /\ Announces(record.pending) /\ record' = [record EXCEPT !.pending = Nothing]
          /\ UNCHANGED <<cut, faults>>
       \/ Announces(record.pending) /\ Fault /\ Cut(TRUE) /\ UNCHANGED record
       \/ Fault /\ UNCHANGED <<told, sent, twice, record, cut>>
    /\ UNCHANGED <<code, done, owner, note, announced, starts>>

-----------------------------------------------------------------------------
(* What was announced is not what is recorded.                              *)
Unrecorded == announced # Nothing /\ record # [version |-> code, pending |-> Nothing]

(* bot restart, written to every path before the process ends.              *)
BotRestart ==
    /\ pc \in {"deliver", "up"} /\ pc' = "down" /\ note' = code
    /\ Cut(Unrecorded)
    /\ UNCHANGED <<code, done, owner, announced, record, told, sent, twice, starts, faults>>

Ends ==
    /\ pc # "down" /\ pc' = "down" /\ Fault
    /\ Cut(Unrecorded)
    /\ UNCHANGED <<code, done, owner, note, announced, record, told, sent, twice, starts>>

Next ==
    \/ \E v \in Versions : Start(v)
    \/ ProcessPhase \/ SendRestartNotification \/ SessionLost
    \/ FinalizeSuccessfulStartupVersion \/ DeliverPending \/ BotRestart \/ Ends

Spec == Init /\ [][Next]_vars

-----------------------------------------------------------------------------
(* No change is forgotten: at any time the administrator knows the version  *)
(* that was recorded last, or the record owes the announcement of it, or a  *)
(* newer one was already announced by the restart notification.             *)
NothingIsForgotten ==
    cut = {} =>
        \/ record.version = told \/ record.pending.to = record.version
        \/ announced # Nothing /\ told = announced.to
        \/ record.version = No

(* Nor is the same change announced twice, whichever of the two paths was   *)
(* first.                                                                    *)
AnnouncedOnce == cut = {} => ~twice

(* What keeps both: the version the administrator was told last is the one  *)
(* that the record starts from, unless this process has announced a change  *)
(* by its note and not recorded it yet.                                     *)
Base == IF record.pending = Nothing THEN record.version ELSE record.pending.from

RecordInv ==
    /\ record.version = No => record.pending = Nothing
    /\ record.pending # Nothing =>
          record.pending.to = record.version /\ record.pending.from \notin {No, record.version}
    /\ record.version # No => told = Base \/ (announced # Nothing /\ announced.from = Base /\ pc # "down")

ToldInv ==
    /\ ~twice
    /\ sent # {} => told = code
    /\ announced # Nothing => /\ told = code /\ announced.to = code /\ announced.from # code
                              /\ pc # "down" => note = No
    /\ pc = "deliver" => record.version = code /\ record.pending # Nothing /\ told = Base

ReleaseInv == cut = {} => RecordInv /\ ToldInv
=============================================================================
