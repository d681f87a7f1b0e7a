------------------------------- MODULE Outbox -------------------------------
(***************************************************************************)
(* utils/outbox.py: the persistent queue for messages whose transport      *)
(* failed, with the durable part of bot/messages.py:_safe_send_message     *)
(* that fills it and the commands of core_plugins/outbox.py.               *)
(*                                                                         *)
(* The table outbox_messages belongs to envs_xmpp_core.OutboxStore, which  *)
(* is not in the repository: its operations are modelled as the callers    *)
(* and tests/database/test_outbox.py use them, each one transaction.  Rows *)
(* are keyed by their dedupe key.  A call of durable_send is a number: it  *)
(* is the XEP-0359 origin id the call attaches and the id of the row the   *)
(* call creates.                                                           *)
(*                                                                         *)
(* A message that the transport takes at once never meets the queue and is *)
(* not modelled, nor is an encrypted one, which is never queued.           *)
(***************************************************************************)
EXTENDS Naturals, FiniteSets

CONSTANTS
    Keys,           \* dedupe keys: category, destination and body
    RoomKeys,       \* those addressed to a MUC
    AlertKeys,      \* those addressed to a configured notification MUC
    Callers,        \* tasks that send durably
    None,
    MaxAttempts,    \* outbox_max_attempts
    MaxPending,     \* outbox_max_pending
    BatchSize,      \* outbox_batch_size
    MaxSends,       \* bound: calls of durable_send that need the queue
    MaxCuts,        \* bound: crashes, cancelled workers and failed transactions
    MaxDrops        \* bound: lost connections and rooms

ASSUME OutboxAssumption ==
    /\ AlertKeys \subseteq RoomKeys
    /\ RoomKeys \subseteq Keys
    /\ {MaxAttempts, MaxPending, BatchSize} \subseteq Nat \ {0}
    /\ {MaxSends, MaxCuts, MaxDrops} \subseteq Nat

Sends == 1 .. MaxSends

VARIABLES
    rows,       \* the table: a row or None per key
    session,    \* "down", "started" (session_ready), "ready" (runtime_ready)
    joined,     \* the keys whose MUC is in JOINED_ROOMS
    caller,     \* per task: the message it is storing, or None
    worker,     \* "off", "idle", "claiming", "sending", "stopped"
    batch,      \* claimed messages not handled yet
    current,    \* the message in hand and what it waits for, or None
    stopping,   \* stop_event
    accepted,   \* keys a caller was told the outbox owns
    removed,    \* keys whose row the administrator or the retention deleted
    wire,       \* origin ids the transport took since the row was created
    copies,     \* how many times it took the row
    tries,      \* failed transports since the row was queued or retried
    sends, cuts, drops  \* how much of each bound is used

queue == <<rows>>
network == <<session, joined>>
workerVars == <<worker, batch, current, stopping>>
ghosts == <<accepted, removed, wire, copies, tries>>
bounds == <<sends, cuts, drops>>
vars == <<queue, network, caller, workerVars, ghosts, bounds>>

(* due: a pending row's available_at has passed, or an inflight row is      *)
(* older than outbox_inflight_timeout_seconds.                              *)
Row == [id : Sends, origin : Sends, status : {"pending", "inflight", "dead"},
        attempts : 0 .. MaxAttempts, due : BOOLEAN]
Claim == [key : Keys, id : Sends, origin : Sends, attempts : 0 .. MaxAttempts]
Phases == {"joining", "deferring", "failing", "marking"}
Message == [key : Keys, origin : Sends]
Holding == [claim : Claim, phase : Phases]

ASSUME NoneIsNothing == None \notin Row \cup Message \cup Holding

TypeOK ==
    /\ rows \in [Keys -> Row \cup {None}]
    /\ session \in {"down", "started", "ready"}
    /\ joined \subseteq RoomKeys
    /\ caller \in [Callers -> Message \cup {None}]
    /\ worker \in {"off", "idle", "claiming", "sending", "stopped"}
    /\ batch \subseteq Claim
    /\ current \in Holding \cup {None}
    /\ stopping \in BOOLEAN
    /\ accepted \cup removed \subseteq Keys
    /\ wire \in [Keys -> SUBSET Sends]
    /\ copies \in [Keys -> Nat] /\ tries \in [Keys -> Nat]
    /\ sends \in 0 .. MaxSends /\ cuts \in 0 .. MaxCuts

Init ==
    /\ rows = [k \in Keys |-> None]
    /\ session = "down"
    /\ joined = {}
    /\ caller = [c \in Callers |-> None]
    /\ worker = "off"
    /\ batch = {}
    /\ current = None
    /\ stopping = FALSE
    /\ accepted = {}
    /\ removed = {}
    /\ wire = [k \in Keys |-> {}]
    /\ copies = [k \in Keys |-> 0]
    /\ tries = [k \in Keys |-> 0]
    /\ sends = 0
    /\ cuts = 0
    /\ drops = 0

Present == {k \in Keys : rows[k] # None}
Status(k) == IF rows[k] = None THEN "absent" ELSE rows[k].status
With(status) == {k \in Keys : Status(k) = status}

-----------------------------------------------------------------------------
(* The connection and the rooms.                                            *)

SessionStarts ==
    /\ session = "down"
    /\ session' = "started"
    /\ UNCHANGED <<queue, joined, caller, workerVars, ghosts, bounds>>

RuntimeReady ==
    /\ session = "started"
    /\ worker # "off"
    /\ session' = "ready"
    /\ UNCHANGED <<queue, joined, caller, workerVars, ghosts, bounds>>

Disconnects ==
    /\ session # "down"
    /\ drops < MaxDrops
    /\ drops' = drops + 1
    /\ session' = "down"
    /\ joined' = {}
    /\ UNCHANGED <<queue, caller, workerVars, ghosts, sends, cuts>>

RoomJoined(k) ==
    /\ session # "down"
    /\ k \in RoomKeys \ joined
    /\ joined' = joined \cup {k}
    /\ UNCHANGED <<queue, session, caller, workerVars, ghosts, bounds>>

RoomLost(k) ==
    /\ k \in joined
    /\ drops < MaxDrops
    /\ drops' = drops + 1
    /\ joined' = joined \ {k}
    /\ UNCHANGED <<queue, session, caller, workerVars, ghosts, sends, cuts>>

-----------------------------------------------------------------------------
(* _safe_send_message(persist=True).                                        *)

(* The session is not ready or the transport refuses the stanza: the        *)
(* message, which already carries its origin id, goes to the outbox.        *)
SendFails(c, k) ==
    /\ worker # "off"
    /\ caller[c] = None
    /\ sends < MaxSends
    /\ sends' = sends + 1
    /\ caller' = [caller EXCEPT ![c] = [key |-> k, origin |-> sends']]
    /\ UNCHANGED <<queue, network, workerVars, ghosts, cuts, drops>>

NewRow(o) ==
    [id |-> o, origin |-> o, status |-> "pending", attempts |-> 0, due |-> TRUE]

(* A second message with the key of a queued one is merged into its row,    *)
(* which keeps its identity and its place.                                  *)
Merge_Origin(row, o) == [row EXCEPT !.origin = o]
Merge_Requeues(row, o) == [row EXCEPT !.status = "pending", !.due = TRUE]
Merge(row, o) == row

HasRoom(k) == Cardinality(With("pending") \cup With("inflight")) < MaxPending

Enqueued(c) ==
    /\ caller[c] # None
    /\ LET k == caller[c].key
           o == caller[c].origin
       IN /\ caller' = [caller EXCEPT ![c] = None]
          /\ accepted' = accepted \cup {k}
          /\ \/ /\ k \notin Present
                /\ HasRoom(k)
                /\ rows' = [rows EXCEPT ![k] = NewRow(o)]
                /\ removed' = removed \ {k}
                /\ wire' = [wire EXCEPT ![k] = {}]
                /\ copies' = [copies EXCEPT ![k] = 0]
                /\ tries' = [tries EXCEPT ![k] = 0]
             \/ /\ k \in Present
                /\ rows' = [rows EXCEPT ![k] = Merge(@, o)]
                /\ UNCHANGED <<removed, wire, copies, tries>>
    /\ UNCHANGED <<network, workerVars, bounds>>

(* The capacity is exhausted or the transaction fails: the caller is told   *)
(* that nobody owns the message.                                            *)
EnqueueRejected(c) ==
    /\ caller[c] # None
    /\ \/ /\ caller[c].key \notin Present
          /\ ~HasRoom(caller[c].key)
          /\ UNCHANGED cuts
       \/ /\ cuts < MaxCuts
          /\ cuts' = cuts + 1
    /\ caller' = [caller EXCEPT ![c] = None]
    /\ UNCHANGED <<queue, network, workerVars, ghosts, sends, drops>>

-----------------------------------------------------------------------------
(* The worker.                                                              *)

Requeue(row) == [row EXCEPT !.status = "pending", !.due = TRUE]
Recovered_Nothing(ks) == rows
Recovered(ks) == [k \in Keys |-> IF k \in ks THEN Requeue(rows[k]) ELSE rows[k]]

(* start(): every inflight row is of a previous process.                    *)
Start ==
    /\ worker = "off"
    /\ rows' = Recovered(With("inflight"))
    /\ worker' = "idle"
    /\ stopping' = FALSE
    /\ UNCHANGED <<network, caller, batch, current, ghosts, bounds>>

(* run_once(): rows left inflight for too long become pending again ...     *)
Recover ==
    /\ worker = "idle"
    /\ ~stopping
    /\ session = "ready"
    /\ rows' = Recovered({k \in With("inflight") : rows[k].due})
    /\ worker' = "claiming"
    /\ UNCHANGED <<network, caller, batch, current, stopping, ghosts, bounds>>

Due == {k \in With("pending") : rows[k].due}
Claims(ks) ==
    {[key |-> k, id |-> rows[k].id, origin |-> rows[k].origin,
      attempts |-> rows[k].attempts] : k \in ks}

(* ... and up to BatchSize due rows are claimed in one transaction.         *)
ClaimDue ==
    /\ worker = "claiming"
    /\ \E ks \in SUBSET Due :
           /\ Cardinality(ks) <= BatchSize
           /\ ks = Due \/ Cardinality(ks) = BatchSize
           /\ batch' = Claims(ks)
           /\ rows' = [k \in Keys |-> IF k \in ks
                          THEN [rows[k] EXCEPT !.status = "inflight", !.due = FALSE]
                          ELSE rows[k]]
           /\ worker' = IF ks = {} THEN "idle" ELSE "sending"
    /\ UNCHANGED <<network, caller, current, stopping, ghosts, bounds>>

(* The row a claim was made of: an administrator may have deleted it, and   *)
(* the key may be queued again since.                                       *)
Alive(q) == IF rows[q.key] = None THEN FALSE ELSE rows[q.key].id = q.id

Handle(q, phase) == current' = [claim |-> q, phase |-> phase]

(* _safe_send_message(persist=False): the stanza carries the row's id.      *)
StanzaOrigin_Fresh(q) == copies[q.key] + 1
StanzaOrigin(q) == q.origin

Transmit(q) ==
    \/ /\ session # "down"
       /\ Handle(q, "marking")
       /\ wire' = [wire EXCEPT ![q.key] = IF Alive(q) THEN @ \cup {StanzaOrigin(q)} ELSE @]
       /\ copies' = [copies EXCEPT ![q.key] = IF Alive(q) THEN @ + 1 ELSE @]
       /\ UNCHANGED tries
    \/ /\ Handle(q, "failing")
       /\ tries' = [tries EXCEPT ![q.key] = IF Alive(q) /\ @ < MaxAttempts THEN @ + 1 ELSE @]
       /\ UNCHANGED <<wire, copies>>

RoomReady(k) == k \in RoomKeys => k \in joined

(* _send_one(): between the look at JOINED_ROOMS and the transport there is *)
(* no await, so both are one step.                                          *)
SendOne(q) ==
    /\ worker = "sending"
    /\ current = None
    /\ q \in batch
    /\ ~stopping
    /\ batch' = batch \ {q}
    /\ \/ /\ RoomReady(q.key)
          /\ Transmit(q)
       \/ /\ ~RoomReady(q.key)
          /\ \/ q.key \in AlertKeys /\ Handle(q, "joining")
             \/ Handle(q, "deferring")
          /\ UNCHANGED <<wire, copies, tries>>
    /\ UNCHANGED <<queue, network, caller, worker, stopping, accepted, removed, bounds>>

(* ensure_room_joined() returns.                                            *)
JoinReturns ==
    /\ worker = "sending"
    /\ current # None
    /\ LET q == current.claim
       IN /\ current.phase = "joining"
          /\ \/ /\ session # "down"
                /\ joined' = joined \cup {q.key}
                /\ Transmit(q)
             \/ /\ Handle(q, "deferring")
                /\ UNCHANGED <<joined, wire, copies, tries>>
    /\ UNCHANGED <<queue, session, caller, worker, batch, stopping, accepted, removed, bounds>>

Fail_NeverDead(row) ==
    [row EXCEPT !.status = "pending", !.attempts = @ + 1, !.due = FALSE]
Fail(row) ==
    [row EXCEPT !.status = IF row.attempts + 1 >= MaxAttempts THEN "dead" ELSE "pending",
                !.attempts = @ + 1,
                !.due = FALSE]
Defer_Counts(row) == Fail(row)
Defer(row) == [row EXCEPT !.status = "pending", !.due = FALSE]

Settled_Kept(phase, row) == IF phase = "failing" THEN Fail(row) ELSE Defer(row)
Settled_Lost(phase, row) == IF phase = "deferring" THEN Defer(row) ELSE None
Settled(phase, row) ==
    CASE phase = "marking" -> None
      [] phase = "failing" -> Fail(row)
      [] phase = "deferring" -> Defer(row)

NextInBatch ==
    /\ current' = None
    /\ worker' = IF batch = {} THEN (IF stopping THEN "stopped" ELSE "idle") ELSE worker

(* defer, mark_failed and mark_sent find the row by its id.                 *)
Settle ==
    /\ worker = "sending"
    /\ current # None
    /\ LET q == current.claim
       IN /\ current.phase # "joining"
          /\ rows' = IF Alive(q) THEN [rows EXCEPT ![q.key] = Settled(current.phase, @)]
                     ELSE rows
    /\ NextInBatch
    /\ UNCHANGED <<network, caller, batch, stopping, ghosts, bounds>>

(* A store operation of the worker raises: _run logs it and waits for the   *)
(* next turn; the rest of the batch stays inflight.                         *)
StoreFails ==
    /\ worker = "claiming" \/ (IF current = None THEN FALSE ELSE current.phase # "joining")
    /\ cuts < MaxCuts
    /\ cuts' = cuts + 1
    /\ batch' = {}
    /\ current' = None
    /\ worker' = IF stopping THEN "stopped" ELSE "idle"
    /\ UNCHANGED <<queue, network, caller, stopping, ghosts, sends, drops>>

(* Time passes for one row.                                                 *)
ComesDue(k) ==
    /\ k \in Present
    /\ ~rows[k].due
    /\ Status(k) # "dead"
    /\ rows' = [rows EXCEPT ![k].due = TRUE]
    /\ UNCHANGED <<network, caller, workerVars, ghosts, bounds>>

(* stop(): the worker leaves its loop when it looks at the event; what it   *)
(* claimed and did not handle stays inflight.                               *)
Stop ==
    /\ worker \notin {"off", "stopped"}
    /\ ~stopping
    /\ stopping' = TRUE
    /\ UNCHANGED <<queue, network, caller, worker, batch, current, ghosts, bounds>>

WorkerStops ==
    /\ stopping
    /\ \/ worker = "idle"
       \/ worker = "sending" /\ current = None
    /\ worker' = "stopped"
    /\ batch' = {}
    /\ UNCHANGED <<queue, network, caller, current, stopping, ghosts, bounds>>

(* stop() gives up after its timeout and cancels the worker.                *)
WorkerCancelled ==
    /\ stopping
    /\ worker \in {"claiming", "sending"}
    /\ cuts < MaxCuts
    /\ cuts' = cuts + 1
    /\ worker' = "stopped"
    /\ batch' = {}
    /\ current' = None
    /\ UNCHANGED <<queue, network, caller, stopping, ghosts, sends, drops>>

(* The process ends, in good order or by a crash, and the table survives.   *)
ProcessEnds ==
    /\ worker # "off"
    /\ \/ worker = "stopped" /\ UNCHANGED cuts
       \/ cuts < MaxCuts /\ cuts' = cuts + 1
    /\ worker' = "off"
    /\ batch' = {}
    /\ current' = None
    /\ stopping' = FALSE
    /\ session' = "down"
    /\ joined' = {}
    /\ caller' = [c \in Callers |-> None]
    /\ UNCHANGED <<queue, ghosts, sends, drops>>

-----------------------------------------------------------------------------
(* ,outbox retry, ,outbox delete and the retention of dead letters.         *)

RetryDead(k) ==
    /\ worker # "off"
    /\ Status(k) = "dead"
    /\ rows' = [rows EXCEPT ![k] = [Requeue(@) EXCEPT !.attempts = 0]]
    /\ tries' = [tries EXCEPT ![k] = 0]
    /\ UNCHANGED <<network, caller, workerVars, accepted, removed, wire, copies, bounds>>

Delete(k) ==
    /\ worker # "off"
    /\ k \in Present
    /\ rows' = [rows EXCEPT ![k] = None]
    /\ removed' = removed \cup {k}
    /\ UNCHANGED <<network, caller, workerVars, accepted, wire, copies, tries, bounds>>

-----------------------------------------------------------------------------
WorkerStep ==
    \/ ClaimDue \/ (\E q \in batch : SendOne(q)) \/ JoinReturns \/ Settle \/ WorkerStops

Next ==
    \/ SessionStarts \/ RuntimeReady \/ Disconnects
    \/ \E k \in Keys : RoomJoined(k) \/ RoomLost(k)
    \/ \E c \in Callers : (\E k \in Keys : SendFails(c, k)) \/ Enqueued(c) \/ EnqueueRejected(c)
    \/ Start \/ Recover \/ WorkerStep \/ StoreFails
    \/ Stop \/ WorkerCancelled \/ ProcessEnds
    \/ \E k \in Keys : ComesDue(k) \/ RetryDead(k) \/ Delete(k)

Spec == Init /\ [][Next]_vars

(* The process is started again and the worker goes on: its poll times out, *)
(* its store operations and joins return.                                   *)
WorkerProceeds ==
    Start \/ Recover \/ WorkerStep \/ (worker = "stopped" /\ ProcessEnds)

(* The worker goes on, time passes, and a lost connection comes back.       *)
FairSpec ==
    /\ Spec
    /\ WF_vars(WorkerProceeds)
    /\ WF_vars(SessionStarts \/ RuntimeReady)
    /\ \A k \in Keys : WF_vars(ComesDue(k)) /\ WF_vars(RoomJoined(k))

-----------------------------------------------------------------------------
(* Properties.                                                              *)

(* A message durable_send accepted for the queue was taken by the transport *)
(* or is still in the table, dead letters included, unless it was deleted:  *)
(* no crash, failed transaction or cancelled worker loses it. ("the central *)
(* outbox owns the remaining delivery retries", bot/messages.py)            *)
AcceptedIsOwned ==
    \A k \in accepted : k \in Present \/ wire[k] # {} \/ k \in removed

(* Every copy of a message on the wire has the same origin id, so that a    *)
(* replay can be recognised. ("keep one stable XEP-0359 origin-id across    *)
(* every retry", docs/diagnostics.md)                                       *)
ReplaysShareOrigin == \A k \in Keys : Cardinality(wire[k]) <= 1

(* A message is a dead letter only after MaxAttempts transports failed: a   *)
(* room that is not joined, a restart and an interrupted batch cost no      *)
(* attempt. (_send_one, defer)                                              *)
DeadWasTried == \A k \in With("dead") : tries[k] >= MaxAttempts

(* A row the worker holds is inflight: nothing queued again or expired can  *)
(* be claimed a second time while it is being sent. (claim_due, recover)    *)
Held == batch \cup (IF current = None THEN {} ELSE {current.claim})

HeldIsInflight == \A q \in Held : Alive(q) => q.key \in With("inflight")

(* Without a crash, a failed transaction or a cancelled worker a message    *)
(* goes out once, and each of them adds at most one copy.                   *)
(* ("transport accepted but not yet marked sent", docs/architecture.md)     *)
ReplayNeedsACut == \A k \in Keys : copies[k] <= 1 + cuts

(* An accepted message stays in the table until the transport took it or it *)
(* was deleted, and nothing the worker holds can be claimed twice.          *)
OutboxOwns == AcceptedIsOwned /\ HeldIsInflight

(* Every copy carries one origin id, a second copy needs a cut, and dead    *)
(* letters used up their attempts.                                          *)
ReplaysAreHonest == ReplaysShareOrigin /\ ReplayNeedsACut /\ DeadWasTried

(* A queued message is sent, becomes a dead letter or is deleted, if the    *)
(* bot stops being stopped. (PersistentOutbox._run)                         *)
QueueDrains ==
    (<>[]~stopping) => \A k \in Keys : k \in With("pending") \cup With("inflight") ~>
                            Status(k) \in {"absent", "dead"}

-----------------------------------------------------------------------------
(* What makes OutboxOwns and ReplaysAreHonest inductive (proved in          *)
(* OutboxProofs).                                                           *)

(* The number of a call that is still being stored is nobody else's, so     *)
(* that a claim never takes a new row for the one it was made of.           *)
IdsAreFresh ==
    /\ \A k \in Present : rows[k].id <= sends /\ rows[k].origin = rows[k].id
    /\ \A q \in Held : q.id <= sends /\ q.origin = q.id
    /\ \A c \in Callers : caller[c] # None =>
           /\ caller[c].origin <= sends
           /\ \A k \in Present : rows[k].id # caller[c].origin
           /\ \A q \in Held : q.id # caller[c].origin
           /\ \A d \in Callers : caller[d] # None /\ caller[d].origin = caller[c].origin => d = c

(* The worker holds messages while it is sending, one of each key, and      *)
(* joins rooms only.                                                        *)
HeldApart ==
    /\ worker # "sending" => batch = {} /\ current = None
    /\ \A p, q \in batch : p.key = q.key => p = q
    /\ current # None =>
           /\ \A q \in batch : q.key # current.claim.key
           /\ current.phase = "joining" => current.claim.key \in RoomKeys

(* The row of key k is the one in hand, in this phase.                      *)
Doing(k, phase) ==
    IF current = None THEN FALSE
    ELSE current.phase = phase /\ current.claim.key = k /\ Alive(current.claim)

(* What went out is the row's, and only what went out is marked as sent.    *)
WireIsRows ==
    \A k \in Keys :
        /\ \A o, p \in wire[k] : o = p
        /\ k \in Present => wire[k] \subseteq {rows[k].origin}
        /\ Doing(k, "marking") => wire[k] # {}

(* A row that went out and is not being marked as sent was cut off.         *)
CopiesAreCounted ==
    \A k \in Keys :
        /\ copies[k] <= 1 + cuts
        /\ k \in Present /\ ~Doing(k, "marking") => copies[k] <= cuts

(* A row counts no attempt that was not made.                               *)
AttemptsAreTries ==
    \A k \in Present :
        /\ rows[k].attempts <= tries[k]
        /\ Doing(k, "failing") => rows[k].attempts < tries[k]
        /\ IF rows[k].status = "dead" THEN tries[k] >= MaxAttempts
                                      ELSE rows[k].attempts < MaxAttempts
=============================================================================
