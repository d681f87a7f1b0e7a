------------------------------ MODULE OutboxProofs ------------------------------
(***************************************************************************)
(* Theorems about Outbox: for any messages, callers, limits, crashes, cut  *)
(* transactions and lost sessions, an accepted message is owned until it   *)
(* is sent or deleted, one worker holds it, and what its row and its       *)
(* stanzas say of it is true.                                              *)
(***************************************************************************)
EXTENDS Outbox, FiniteSetTheorems, TLAPS

Inv ==
    /\ TypeOK /\ IdsAreFresh /\ HeldApart /\ HeldIsInflight
    /\ AcceptedIsOwned /\ WireIsRows /\ CopiesAreCounted /\ AttemptsAreTries

-----------------------------------------------------------------------------
(* Rows and what is done to them.                                           *)

LEMMA Limits ==
    /\ MaxAttempts \in Nat /\ MaxAttempts > 0
    /\ MaxSends \in Nat /\ MaxCuts \in Nat
    /\ AlertKeys \subseteq RoomKeys /\ RoomKeys \subseteq Keys
  BY OutboxAssumption

LEMMA RowTypes ==
    ASSUME NEW r \in Row
    PROVE  /\ r.id \in Sends /\ r.origin \in Sends /\ r.attempts \in 0 .. MaxAttempts
           /\ r.status \in {"pending", "inflight", "dead"} /\ r.due \in BOOLEAN
           /\ r # None
  BY NoneIsNothing DEF Row

LEMMA NewRowIsRow ==
    ASSUME NEW o \in Sends
    PROVE  /\ NewRow(o) \in Row
           /\ NewRow(o).id = o /\ NewRow(o).origin = o
           /\ NewRow(o).status = "pending" /\ NewRow(o).attempts = 0
  BY Limits DEF NewRow, Row

LEMMA RequeueIsRow ==
    ASSUME NEW r \in Row
    PROVE  /\ Requeue(r) \in Row
           /\ Requeue(r).id = r.id /\ Requeue(r).origin = r.origin
           /\ Requeue(r).attempts = r.attempts /\ Requeue(r).status = "pending"
  BY DEF Requeue, Row

LEMMA DeferIsRow ==
    ASSUME NEW r \in Row
    PROVE  /\ Defer(r) \in Row
           /\ Defer(r).id = r.id /\ Defer(r).origin = r.origin
           /\ Defer(r).attempts = r.attempts /\ Defer(r).status = "pending"
  BY DEF Defer, Row

LEMMA FailIsRow ==
    ASSUME NEW r \in Row, r.attempts < MaxAttempts
    PROVE  /\ Fail(r) \in Row
           /\ Fail(r).id = r.id /\ Fail(r).origin = r.origin
           /\ Fail(r).attempts = r.attempts + 1
           /\ Fail(r).status = IF r.attempts + 1 >= MaxAttempts THEN "dead" ELSE "pending"
<1>1. r.attempts \in Nat /\ r.attempts + 1 \in 0 .. MaxAttempts
  BY RowTypes, Limits
<1>2. QED
  BY <1>1 DEF Fail, Row

LEMMA PresentIsRow ==
    ASSUME TypeOK, NEW k \in Present
    PROVE  rows[k] \in Row
  BY DEF TypeOK, Present

-----------------------------------------------------------------------------
(* The first state.                                                         *)

LEMMA InitInv == Init => Inv
<1> SUFFICES ASSUME Init PROVE Inv
  OBVIOUS
<1>1. TypeOK
  <2>1. sends \in 0 .. MaxSends /\ cuts \in 0 .. MaxCuts
    BY Limits DEF Init
  <2>2. /\ wire \in [Keys -> SUBSET Sends]
        /\ copies \in [Keys -> Nat] /\ tries \in [Keys -> Nat]
    BY DEF Init
  <2>3. stopping \in BOOLEAN
    BY DEF Init
  <2>4. QED
    BY <2>1, <2>2, <2>3 DEF Init, TypeOK
<1>2. Present = {} /\ Held = {}
  BY DEF Init, Present, Held
<1>3. IdsAreFresh /\ HeldApart /\ HeldIsInflight /\ AcceptedIsOwned
  BY <1>2 DEF Init, IdsAreFresh, HeldApart, HeldIsInflight, AcceptedIsOwned
<1>4. WireIsRows /\ CopiesAreCounted /\ AttemptsAreTries
  BY <1>2 DEF Init, WireIsRows, CopiesAreCounted, AttemptsAreTries, Doing
<1>5. QED
  BY <1>1, <1>3, <1>4 DEF Inv

-----------------------------------------------------------------------------
(* Steps that touch neither a row nor what is held.                         *)

LEMMA QuietKeeps ==
    ASSUME Inv, UNCHANGED <<rows, batch, current, ghosts>>, cuts' \in Nat, cuts <= cuts',
           worker' = worker
    PROVE  /\ HeldApart' /\ HeldIsInflight' /\ AcceptedIsOwned'
           /\ WireIsRows' /\ CopiesAreCounted' /\ AttemptsAreTries'
<1>1. UNCHANGED <<accepted, removed, wire, copies, tries>>
  BY DEF ghosts
<1>2. HeldApart' /\ HeldIsInflight' /\ AcceptedIsOwned'
  BY <1>1 DEF Inv, HeldApart, HeldIsInflight, Held, Alive, With, Status, AcceptedIsOwned, Present
<1>3. \A k, ph : Doing(k, ph)' = Doing(k, ph)
  BY DEF Doing, Alive
<1>4. WireIsRows' /\ AttemptsAreTries'
  BY <1>1, <1>3 DEF Inv, WireIsRows, AttemptsAreTries, Present
<1>5. \A k \in Keys : copies[k] \in Nat
  BY DEF Inv, TypeOK
<1>6. cuts \in Nat
  BY Limits DEF Inv, TypeOK
<1>7. CopiesAreCounted'
  BY <1>1, <1>3, <1>5, <1>6 DEF Inv, CopiesAreCounted, Present
<1>8. QED
  BY <1>2, <1>4, <1>7

LEMMA NetworkKeepsInv ==
    ASSUME Inv, UNCHANGED <<queue, caller, workerVars, ghosts, sends, cuts>>,
           session' \in {"down", "started", "ready"}, joined' \subseteq RoomKeys
    PROVE  Inv'
<1>1. TypeOK'
  BY DEF Inv, TypeOK, queue, workerVars, ghosts
<1>2. IdsAreFresh'
  BY DEF Inv, IdsAreFresh, Present, Held, queue, workerVars
<1>3. cuts' \in Nat /\ cuts <= cuts'
  BY Limits DEF Inv, TypeOK
<1>4. QED
  BY <1>1, <1>2, <1>3, QuietKeeps DEF Inv, queue, workerVars

LEMMA SendFailsKeepsInv ==
    ASSUME Inv, NEW c \in Callers, NEW k \in Keys, SendFails(c, k)
    PROVE  Inv'
<1> DEFINE m == [key |-> k, origin |-> sends + 1]
<1>1. /\ sends < MaxSends /\ sends' = sends + 1 /\ caller' = [caller EXCEPT ![c] = m]
      /\ UNCHANGED <<queue, network, workerVars, ghosts, cuts, drops>>
  BY DEF SendFails
<1>2. sends \in Nat /\ sends' \in 0 .. MaxSends /\ sends + 1 \in Sends
  BY <1>1, Limits DEF Inv, TypeOK, Sends
<1>3. m \in Message /\ m.origin = sends + 1
  BY <1>2 DEF Message
<1> HIDE DEF m
<1>4. caller' = [d \in Callers |-> IF d = c THEN m ELSE caller[d]]
  BY <1>1 DEF Inv, TypeOK
<1>5. TypeOK'
  BY <1>1, <1>2, <1>3, <1>4 DEF Inv, TypeOK, queue, network, workerVars, ghosts
<1>6. Present' = Present /\ Held' = Held /\ rows' = rows
  BY <1>1 DEF queue, workerVars, Present, Held
<1>7. IdsAreFresh'
  <2>1. /\ \A l \in Present : rows[l].id \in Nat
        /\ \A q \in Held : q.id \in Nat
        /\ \A d \in Callers : caller[d] # None => caller[d].origin \in Nat
    BY RowTypes, PresentIsRow DEF Inv, TypeOK, Held, Claim, Holding, Message, Sends
  <2>2. /\ \A l \in Present : rows[l].id <= sends /\ rows[l].origin = rows[l].id
        /\ \A q \in Held : q.id <= sends /\ q.origin = q.id
        /\ \A d \in Callers : caller[d] # None =>
               /\ caller[d].origin <= sends
               /\ \A l \in Present : rows[l].id # caller[d].origin
               /\ \A q \in Held : q.id # caller[d].origin
               /\ \A e \in Callers :
                      caller[e] # None /\ caller[e].origin = caller[d].origin => e = d
    BY DEF Inv, IdsAreFresh
  <2>3. /\ \A l \in Present : rows[l].id <= sends + 1 /\ rows[l].id # sends + 1
        /\ \A q \in Held : q.id <= sends + 1 /\ q.id # sends + 1
        /\ \A d \in Callers : caller[d] # None =>
               caller[d].origin <= sends + 1 /\ caller[d].origin # sends + 1
    BY <1>2, <2>1, <2>2
  <2>4. QED
    BY <1>1, <1>2, <1>3, <1>4, <1>6, <2>2, <2>3 DEF IdsAreFresh
<1>8. cuts' \in Nat /\ cuts <= cuts'
  BY <1>1, Limits DEF Inv, TypeOK
<1>9. QED
  BY <1>1, <1>5, <1>7, <1>8, QuietKeeps DEF Inv, queue, workerVars

(* Fewer callers, and as many numbers or more.                              *)
LEMMA FewerCallers ==
    ASSUME Inv, UNCHANGED <<rows, sends>>, Held' \subseteq Held,
           \A c \in Callers : caller'[c] = None \/ caller'[c] = caller[c]
    PROVE  IdsAreFresh'
<1>1. Present' = Present
  BY DEF Present
<1>2. /\ \A k \in Present : rows'[k].id <= sends' /\ rows'[k].origin = rows'[k].id
      /\ \A q \in Held' : q.id <= sends' /\ q.origin = q.id
  BY DEF Inv, IdsAreFresh
<1>3. ASSUME NEW c \in Callers, caller'[c] # None
      PROVE  /\ caller'[c].origin <= sends'
             /\ \A k \in Present : rows'[k].id # caller'[c].origin
             /\ \A q \in Held' : q.id # caller'[c].origin
             /\ \A d \in Callers :
                    caller'[d] # None /\ caller'[d].origin = caller'[c].origin => d = c
  <2>1. caller'[c] = caller[c] /\ \A d \in Callers : caller'[d] # None => caller'[d] = caller[d]
    BY <1>3
  <2>2. QED
    BY <1>3, <2>1 DEF Inv, IdsAreFresh
<1>4. QED
  BY <1>1, <1>2, <1>3 DEF IdsAreFresh

LEMMA EnqueueRejectedKeepsInv ==
    ASSUME Inv, NEW c \in Callers, EnqueueRejected(c)
    PROVE  Inv'
<1>1. /\ caller' = [caller EXCEPT ![c] = None]
      /\ UNCHANGED <<queue, network, workerVars, ghosts, sends, drops>>
  BY DEF EnqueueRejected
<1>2. cuts' \in 0 .. MaxCuts /\ cuts <= cuts'
  BY Limits DEF EnqueueRejected, Inv, TypeOK
<1>3. caller' = [d \in Callers |-> IF d = c THEN None ELSE caller[d]]
  BY <1>1 DEF Inv, TypeOK
<1>4. TypeOK'
  BY <1>1, <1>2, <1>3 DEF Inv, TypeOK, queue, network, workerVars, ghosts
<1>5. Held' = Held
  BY <1>1 DEF Held, workerVars
<1>6. IdsAreFresh'
  BY <1>1, <1>3, <1>5, FewerCallers DEF queue
<1>7. cuts' \in Nat
  BY <1>2
<1>8. QED
  BY <1>1, <1>2, <1>4, <1>6, <1>7, QuietKeeps DEF Inv, queue, workerVars

LEMMA StopKeepsInv == Inv /\ Stop => Inv'
<1> SUFFICES ASSUME Inv, Stop PROVE Inv'
  OBVIOUS
<1>1. UNCHANGED <<rows, network, caller, worker, batch, current, ghosts, bounds>>
  BY DEF Stop, queue
<1>2. TypeOK'
  BY <1>1 DEF Stop, Inv, TypeOK, network, ghosts, bounds
<1>3. Held' = Held /\ UNCHANGED <<sends, cuts>>
  BY <1>1 DEF Held, bounds
<1>4. IdsAreFresh'
  BY <1>1, <1>3, FewerCallers
<1>5. cuts' \in Nat /\ cuts <= cuts'
  BY <1>3, Limits DEF Inv, TypeOK
<1>6. QED
  BY <1>1, <1>2, <1>4, <1>5, QuietKeeps DEF Inv

-----------------------------------------------------------------------------
(* Steps that let go of what is held: a batch that is given up.             *)

LEMMA LettingGoKeepsInv ==
    ASSUME Inv, UNCHANGED <<rows, ghosts, sends>>, batch' = {}, current' = None,
           cuts' \in 0 .. MaxCuts, cuts <= cuts',
           \A k \in Keys : Doing(k, "marking") => cuts < cuts',
           session' \in {"down", "started", "ready"}, joined' \subseteq RoomKeys,
           worker' \in {"off", "idle", "stopped"}, stopping' \in BOOLEAN,
           caller' \in [Callers -> Message \cup {None}],
           \A c \in Callers : caller'[c] = None \/ caller'[c] = caller[c]
    PROVE  Inv'
<1>1. UNCHANGED <<accepted, removed, wire, copies, tries>>
  BY DEF ghosts
<1>2. TypeOK'
  BY <1>1 DEF Inv, TypeOK
<1>3. Held' = {} /\ Present' = Present
  BY DEF Held, Present
<1>4. IdsAreFresh'
  BY <1>3, FewerCallers
<1>5. HeldApart' /\ HeldIsInflight'
  BY <1>3 DEF HeldApart, HeldIsInflight
<1>6. \A k, ph : ~Doing(k, ph)'
  BY DEF Doing
<1>7. AcceptedIsOwned' /\ WireIsRows' /\ AttemptsAreTries'
  BY <1>1, <1>3, <1>6 DEF Inv, AcceptedIsOwned, WireIsRows, AttemptsAreTries
<1>8. cuts \in Nat /\ cuts' \in Nat /\ \A k \in Keys : copies[k] \in Nat
  BY Limits DEF Inv, TypeOK
<1>9. CopiesAreCounted'
  <2> SUFFICES ASSUME NEW k \in Keys
               PROVE  copies[k] <= 1 + cuts' /\ (k \in Present => copies[k] <= cuts')
    BY <1>1, <1>3, <1>6 DEF CopiesAreCounted
  <2>1. copies[k] <= 1 + cuts /\ (k \in Present /\ ~Doing(k, "marking") => copies[k] <= cuts)
    BY DEF Inv, CopiesAreCounted
  <2>2. QED
    BY <1>8, <2>1
<1>10. QED
  BY <1>2, <1>4, <1>5, <1>7, <1>9 DEF Inv

LEMMA CutsAreNumbers == TypeOK => cuts \in 0 .. MaxCuts /\ cuts \in Nat /\ MaxCuts \in Nat
  BY Limits DEF TypeOK

(* A cut is one more, and pays for a copy that was not marked.              *)
LEMMA StoreFailsKeepsInv == Inv /\ StoreFails => Inv'
<1> SUFFICES ASSUME Inv, StoreFails PROVE Inv'
  OBVIOUS
<1>1. /\ cuts < MaxCuts /\ cuts' = cuts + 1 /\ batch' = {} /\ current' = None
      /\ worker' = IF stopping THEN "stopped" ELSE "idle"
      /\ UNCHANGED <<queue, network, caller, stopping, ghosts, sends, drops>>
  BY DEF StoreFails
<1>2. cuts' \in 0 .. MaxCuts /\ cuts < cuts' /\ cuts <= cuts'
  BY <1>1, CutsAreNumbers DEF Inv
<1>3. worker' \in {"off", "idle", "stopped"}
  BY <1>1
<1>4. QED
  BY <1>1, <1>2, <1>3, LettingGoKeepsInv DEF queue, network, Inv, TypeOK

LEMMA WorkerStopsKeepsInv == Inv /\ WorkerStops => Inv'
<1> SUFFICES ASSUME Inv, WorkerStops PROVE Inv'
  OBVIOUS
<1>1. /\ worker' = "stopped" /\ batch' = {} /\ current' = current
      /\ UNCHANGED <<queue, network, caller, stopping, ghosts, bounds>>
  BY DEF WorkerStops
<1>2. current = None
  BY DEF WorkerStops, Inv, HeldApart
<1>3. \A k \in Keys : ~Doing(k, "marking")
  BY <1>2 DEF Doing
<1>4. cuts' \in 0 .. MaxCuts /\ cuts <= cuts'
  BY <1>1, CutsAreNumbers DEF Inv, bounds
<1>5. QED
  BY <1>1, <1>2, <1>3, <1>4, LettingGoKeepsInv DEF queue, network, bounds, Inv, TypeOK

LEMMA WorkerCancelledKeepsInv == Inv /\ WorkerCancelled => Inv'
<1> SUFFICES ASSUME Inv, WorkerCancelled PROVE Inv'
  OBVIOUS
<1>1. /\ cuts < MaxCuts /\ cuts' = cuts + 1 /\ batch' = {} /\ current' = None
      /\ worker' = "stopped"
      /\ UNCHANGED <<queue, network, caller, stopping, ghosts, sends, drops>>
  BY DEF WorkerCancelled
<1>2. cuts' \in 0 .. MaxCuts /\ cuts < cuts' /\ cuts <= cuts'
  BY <1>1, CutsAreNumbers DEF Inv
<1>3. QED
  BY <1>1, <1>2, LettingGoKeepsInv DEF queue, network, Inv, TypeOK

LEMMA ProcessEndsKeepsInv == Inv /\ ProcessEnds => Inv'
<1> SUFFICES ASSUME Inv, ProcessEnds PROVE Inv'
  OBVIOUS
<1>1. /\ worker' = "off" /\ batch' = {} /\ current' = None /\ stopping' = FALSE
      /\ session' = "down" /\ joined' = {} /\ caller' = [c \in Callers |-> None]
      /\ UNCHANGED <<queue, ghosts, sends, drops>>
  BY DEF ProcessEnds
<1>2. /\ cuts' \in 0 .. MaxCuts /\ cuts <= cuts'
      /\ cuts < cuts' \/ worker = "stopped"
  BY CutsAreNumbers DEF Inv, ProcessEnds
<1>3. worker = "stopped" => \A k \in Keys : ~Doing(k, "marking")
  BY DEF Inv, HeldApart, Doing
<1>4. stopping' \in BOOLEAN /\ joined' \subseteq RoomKeys
  BY <1>1
<1>5. QED
  BY <1>1, <1>2, <1>3, <1>4, LettingGoKeepsInv DEF queue

-----------------------------------------------------------------------------
(* Steps that make rows due or pending and keep what they say.              *)

LEMMA RequeueingKeepsInv ==
    ASSUME Inv, UNCHANGED <<batch, current, caller, network, ghosts, bounds>>,
           rows' \in [Keys -> Row \cup {None}],
           \A k \in Keys : rows[k] = None => rows'[k] = None,
           \A k \in Present :
               /\ rows'[k] \in Row
               /\ rows'[k].id = rows[k].id /\ rows'[k].origin = rows[k].origin
               /\ rows'[k].attempts = rows[k].attempts
               /\ \/ rows'[k].status = rows[k].status
                  \/ /\ rows[k].status = "inflight" /\ rows'[k].status = "pending"
                     /\ batch = {} /\ current = None,
           worker' \in {"off", "idle", "claiming", "sending", "stopped"}, stopping' \in BOOLEAN,
           worker' # "sending" => batch = {} /\ current = None
    PROVE  Inv'
<1>1. /\ UNCHANGED <<accepted, removed, wire, copies, tries>> /\ UNCHANGED <<sends, cuts>>
      /\ UNCHANGED <<session, joined>>
  BY DEF ghosts, bounds, network
<1>2. TypeOK'
  BY <1>1 DEF Inv, TypeOK
<1>3. Held' = Held
  BY DEF Held
<1>4. Present' = Present
  BY RowTypes DEF Present
<1>5. IdsAreFresh'
  BY <1>1, <1>3, <1>4 DEF Inv, IdsAreFresh
<1>6. HeldApart'
  BY DEF Inv, HeldApart
<1>7. \A q : q.key \in Keys => Alive(q)' = Alive(q)
  <2> SUFFICES ASSUME NEW q, q.key \in Keys PROVE Alive(q)' = Alive(q)
    OBVIOUS
  <2>1. CASE q.key \in Present
    <3>1. rows'[q.key] # None /\ rows[q.key] # None /\ rows'[q.key].id = rows[q.key].id
      BY <1>4, <2>1 DEF Present
    <3>2. QED
      BY <3>1 DEF Alive
  <2>2. CASE q.key \notin Present
    BY <2>2 DEF Alive, Present
  <2>3. QED
    BY <2>1, <2>2
<1>8. \A q \in Held : q.key \in Keys
  BY DEF Inv, TypeOK, Held, Holding, Claim
<1>9. HeldIsInflight'
  <2> SUFFICES ASSUME NEW q \in Held, Alive(q) PROVE Status(q.key)' = "inflight"
    BY <1>3, <1>7, <1>8 DEF HeldIsInflight, With
  <2>1. q.key \in Present /\ rows[q.key].status = "inflight"
    BY <1>8 DEF Inv, HeldIsInflight, With, Status, Alive, Present
  <2>2. ~(batch = {} /\ current = None)
    BY DEF Held
  <2>3. rows'[q.key].status = "inflight" /\ rows'[q.key] # None
    BY <1>4, <2>1, <2>2 DEF Present
  <2>4. QED
    BY <2>3 DEF Status
<1>10. AcceptedIsOwned'
  BY <1>1, <1>4 DEF Inv, AcceptedIsOwned
<1>11. \A k, ph : Doing(k, ph)' = Doing(k, ph)
  <2> SUFFICES ASSUME NEW k, NEW ph PROVE Doing(k, ph)' = Doing(k, ph)
    OBVIOUS
  <2>1. CASE current = None
    BY <2>1 DEF Doing
  <2>2. CASE current # None
    <3>1. current.claim.key \in Keys
      BY <1>8, <2>2 DEF Held
    <3>2. Alive(current.claim)' = Alive(current.claim)
      BY <1>7, <3>1 DEF Alive
    <3>3. QED
      BY <2>2, <3>2 DEF Doing
  <2>3. QED
    BY <2>1, <2>2
<1>12. WireIsRows' /\ CopiesAreCounted' /\ AttemptsAreTries'
  <2>1. WireIsRows'
    BY <1>1, <1>4, <1>11 DEF Inv, WireIsRows
  <2>2. CopiesAreCounted'
    BY <1>1, <1>4, <1>11 DEF Inv, CopiesAreCounted
  <2>3. AttemptsAreTries'
    BY <1>1, <1>4, <1>11 DEF Inv, AttemptsAreTries
  <2>4. QED
    BY <2>1, <2>2, <2>3
<1>13. QED
  BY <1>2, <1>5, <1>6, <1>9, <1>10, <1>12 DEF Inv

LEMMA RecoveredRows ==
    ASSUME TypeOK, NEW ks \in SUBSET With("inflight")
    PROVE  /\ Recovered(ks) \in [Keys -> Row \cup {None}]
           /\ \A k \in Keys : rows[k] = None => Recovered(ks)[k] = None
           /\ \A k \in Present :
                  /\ Recovered(ks)[k] \in Row
                  /\ Recovered(ks)[k].id = rows[k].id /\ Recovered(ks)[k].origin = rows[k].origin
                  /\ Recovered(ks)[k].attempts = rows[k].attempts
                  /\ \/ Recovered(ks)[k].status = rows[k].status
                     \/ rows[k].status = "inflight" /\ Recovered(ks)[k].status = "pending"
<1>1. \A k \in ks : k \in Present /\ rows[k].status = "inflight"
  BY DEF With, Status, Present
<1>2. \A k \in Present : rows[k] \in Row
  BY PresentIsRow
<1>3. \A k \in Keys : Recovered(ks)[k] = IF k \in ks THEN Requeue(rows[k]) ELSE rows[k]
  BY DEF Recovered
<1>4. Recovered(ks) \in [Keys -> Row \cup {None}]
  <2>1. \A k \in Keys : (IF k \in ks THEN Requeue(rows[k]) ELSE rows[k]) \in Row \cup {None}
    BY <1>1, <1>2, RequeueIsRow DEF TypeOK
  <2>2. QED
    BY <2>1 DEF Recovered
<1>5. QED
  BY <1>1, <1>2, <1>3, <1>4, RequeueIsRow DEF Present

LEMMA StartKeepsInv == Inv /\ Start => Inv'
<1> SUFFICES ASSUME Inv, Start PROVE Inv'
  OBVIOUS
<1>1. batch = {} /\ current = None
  BY DEF Start, Inv, HeldApart
<1>2. /\ rows' = Recovered(With("inflight")) /\ worker' = "idle" /\ stopping' = FALSE
      /\ UNCHANGED <<network, caller, batch, current, ghosts, bounds>>
  BY DEF Start
<1>3. stopping' \in BOOLEAN
  BY <1>2
<1>4. QED
  BY <1>1, <1>2, <1>3, RecoveredRows, RequeueingKeepsInv DEF Inv

LEMMA RecoverKeepsInv == Inv /\ Recover => Inv'
<1> SUFFICES ASSUME Inv, Recover PROVE Inv'
  OBVIOUS
<1>1. batch = {} /\ current = None
  BY DEF Recover, Inv, HeldApart
<1> DEFINE ks == {k \in With("inflight") : rows[k].due}
<1>2. /\ rows' = Recovered(ks) /\ worker' = "claiming" /\ stopping' = stopping
      /\ UNCHANGED <<network, caller, batch, current, ghosts, bounds>>
  BY DEF Recover
<1>3. stopping' \in BOOLEAN
  BY <1>2 DEF Inv, TypeOK
<1>4. ks \in SUBSET With("inflight")
  OBVIOUS
<1> HIDE DEF ks
<1>5. QED
  BY <1>1, <1>2, <1>3, <1>4, RecoveredRows, RequeueingKeepsInv DEF Inv

LEMMA ComesDueKeepsInv ==
    ASSUME Inv, NEW k \in Keys, ComesDue(k)
    PROVE  Inv'
<1>1. /\ k \in Present /\ rows' = [rows EXCEPT ![k].due = TRUE]
      /\ UNCHANGED <<network, caller, workerVars, ghosts, bounds>>
  BY DEF ComesDue
<1>2. rows[k] \in Row
  BY <1>1, PresentIsRow DEF Inv
<1> DEFINE r == [rows[k] EXCEPT !.due = TRUE]
<1>3. /\ r \in Row /\ r.id = rows[k].id /\ r.origin = rows[k].origin
      /\ r.attempts = rows[k].attempts /\ r.status = rows[k].status
  BY <1>2 DEF Row
<1>4. rows' = [l \in Keys |-> IF l = k THEN r ELSE rows[l]]
  BY <1>1 DEF Inv, TypeOK
<1> HIDE DEF r
<1>5. rows' \in [Keys -> Row \cup {None}]
  BY <1>3, <1>4 DEF Inv, TypeOK
<1>6. /\ \A l \in Keys : rows[l] = None => rows'[l] = None
      /\ \A l \in Present :
             /\ rows'[l] \in Row
             /\ rows'[l].id = rows[l].id /\ rows'[l].origin = rows[l].origin
             /\ rows'[l].attempts = rows[l].attempts
             /\ rows'[l].status = rows[l].status
  BY <1>1, <1>3, <1>4, PresentIsRow DEF Inv, Present
<1>7. /\ worker' \in {"off", "idle", "claiming", "sending", "stopped"} /\ stopping' \in BOOLEAN
      /\ worker' # "sending" => batch = {} /\ current = None
  BY <1>1 DEF workerVars, Inv, TypeOK, HeldApart
<1>8. QED
  BY <1>1, <1>5, <1>6, <1>7, RequeueingKeepsInv DEF workerVars

-----------------------------------------------------------------------------
(* Claiming.                                                                *)

LEMMA ClaimDueKeepsInv == Inv /\ ClaimDue => Inv'
<1> SUFFICES ASSUME Inv, ClaimDue PROVE Inv'
  OBVIOUS
<1>1. PICK ks \in SUBSET Due :
        /\ batch' = Claims(ks)
        /\ rows' = [k \in Keys |-> IF k \in ks
                       THEN [rows[k] EXCEPT !.status = "inflight", !.due = FALSE]
                       ELSE rows[k]]
        /\ worker' = IF ks = {} THEN "idle" ELSE "sending"
  BY DEF ClaimDue
<1>2. /\ worker = "claiming" /\ batch = {} /\ current = None /\ current' = None
      /\ UNCHANGED <<network, caller, stopping, ghosts, bounds>>
  BY DEF ClaimDue, Inv, HeldApart
<1>3. UNCHANGED <<session, joined, accepted, removed, wire, copies, tries, sends, cuts>>
  BY <1>2 DEF network, ghosts, bounds
<1>4. \A k \in ks : k \in Present /\ rows[k] \in Row /\ rows[k].status = "pending"
  BY PresentIsRow DEF Due, With, Status, Present, Inv
<1>5. ASSUME NEW k \in ks
      PROVE  /\ rows'[k] \in Row /\ rows'[k].id = rows[k].id /\ rows'[k].origin = rows[k].origin
             /\ rows'[k].attempts = rows[k].attempts /\ rows'[k].status = "inflight"
  <2>1. rows'[k] = [rows[k] EXCEPT !.status = "inflight", !.due = FALSE]
    BY <1>1, <1>4 DEF Present
  <2>2. QED
    BY <1>4, <2>1 DEF Row
<1>6. \A k \in Keys : k \notin ks => rows'[k] = rows[k]
  BY <1>1
<1>7. Present' = Present
  BY <1>4, <1>5, <1>6, RowTypes DEF Present
<1>8. rows' \in [Keys -> Row \cup {None}]
  <2>1. DOMAIN rows' = Keys /\ rows' = [k \in Keys |-> rows'[k]]
    BY <1>1
  <2>2. \A k \in Keys : rows'[k] \in Row \cup {None}
    BY <1>5, <1>6 DEF Inv, TypeOK
  <2>3. QED
    BY <2>1, <2>2
<1>9. ASSUME NEW q \in batch'
      PROVE  /\ q \in Claim /\ q.key \in ks
             /\ q.id = rows[q.key].id /\ q.origin = rows[q.key].origin
             /\ q.attempts = rows[q.key].attempts
             /\ q = [key |-> q.key, id |-> q.id, origin |-> q.origin, attempts |-> q.attempts]
  <2>1. PICK k \in ks : q = [key |-> k, id |-> rows[k].id, origin |-> rows[k].origin,
                             attempts |-> rows[k].attempts]
    BY <1>1, <1>9 DEF Claims
  <2>2. k \in Keys /\ rows[k].id \in Sends /\ rows[k].origin \in Sends
        /\ rows[k].attempts \in 0 .. MaxAttempts
    BY <1>4, RowTypes DEF Present
  <2>3. QED
    BY <2>1, <2>2 DEF Claim
<1>10. TypeOK'
  <2>1. worker' \in {"off", "idle", "claiming", "sending", "stopped"}
    BY <1>1
  <2>2. QED
    BY <1>2, <1>3, <1>8, <1>9, <2>1 DEF Inv, TypeOK
<1>11. Held' = batch'
  BY <1>2 DEF Held
<1>12. \A k \in Present : rows'[k].id = rows[k].id /\ rows'[k].origin = rows[k].origin
                          /\ rows'[k].attempts = rows[k].attempts
  BY <1>5, <1>6 DEF Present
<1>13. IdsAreFresh'
  <2>1. \A q \in Held' : q.key \in Present /\ q.id = rows[q.key].id
                         /\ q.origin = rows[q.key].origin
    BY <1>4, <1>9, <1>11
  <2>2. \A k \in Present : rows[k].id <= sends /\ rows[k].origin = rows[k].id
    BY DEF Inv, IdsAreFresh
  <2>3. \A c \in Callers : caller[c] # None => \A k \in Present : rows[k].id # caller[c].origin
    BY DEF Inv, IdsAreFresh
  <2>4. \A q \in Held' : q.id <= sends /\ q.origin = q.id
    BY <2>1, <2>2
  <2>5. \A c \in Callers : caller[c] # None => \A q \in Held' : q.id # caller[c].origin
    BY <2>1, <2>3
  <2>6. QED
    BY <1>2, <1>3, <1>7, <1>12, <2>4, <2>5 DEF Inv, IdsAreFresh
<1>14. HeldApart'
  <2>1. worker' # "sending" => batch' = {}
    BY <1>1 DEF Claims
  <2>2. \A p, q \in batch' : p.key = q.key => p = q
    BY <1>9
  <2>3. QED
    BY <1>2, <2>1, <2>2 DEF HeldApart
<1>15. HeldIsInflight'
  <2> SUFFICES ASSUME NEW q \in batch' PROVE q.key \in Keys /\ Status(q.key)' = "inflight"
    BY <1>11 DEF HeldIsInflight, With
  <2>1. q.key \in ks
    BY <1>9
  <2>2. QED
    BY <1>4, <1>5, <1>7, <2>1 DEF Status, Present
<1>16. \A k, ph : ~Doing(k, ph) /\ ~Doing(k, ph)'
  BY <1>2 DEF Doing
<1>17. AcceptedIsOwned'
  BY <1>3, <1>7 DEF Inv, AcceptedIsOwned
<1>18. WireIsRows' /\ CopiesAreCounted'
  BY <1>3, <1>7, <1>12, <1>16 DEF Inv, WireIsRows, CopiesAreCounted
<1>19. AttemptsAreTries'
  BY <1>3, <1>4, <1>5, <1>6, <1>7, <1>16 DEF Inv, AttemptsAreTries, Present
<1>20. QED
  BY <1>10, <1>13, <1>14, <1>15, <1>17, <1>18, <1>19 DEF Inv

-----------------------------------------------------------------------------
(* Taking a message in hand.                                                *)

LEMMA HeldTypes ==
    ASSUME Inv, NEW q \in Held
    PROVE  q \in Claim /\ q.key \in Keys /\ q.id \in Sends /\ q.origin \in Sends
  BY DEF Inv, TypeOK, Held, Holding, Claim

LEMMA AliveRow ==
    ASSUME Inv, NEW q \in Held, Alive(q)
    PROVE  /\ q.key \in Present /\ rows[q.key] \in Row /\ rows[q.key].status = "inflight"
           /\ rows[q.key].origin = q.origin /\ rows[q.key].attempts < MaxAttempts
<1>1. q.key \in Keys
  BY HeldTypes
<1>2. q.key \in Present /\ rows[q.key].id = q.id
  BY <1>1 DEF Alive, Present
<1>3. rows[q.key].status = "inflight"
  BY <1>2 DEF Inv, HeldIsInflight, With, Status, Present
<1>4. rows[q.key].origin = q.origin
  BY <1>2 DEF Inv, IdsAreFresh
<1>5. rows[q.key].attempts < MaxAttempts
  BY <1>2, <1>3 DEF Inv, AttemptsAreTries
<1>6. QED
  BY <1>2, <1>3, <1>4, <1>5, PresentIsRow DEF Inv

LEMMA HandlingKeepsInv ==
    ASSUME Inv, worker = "sending", NEW q \in Held, NEW ph \in Phases,
           Handle(q, ph), batch' \subseteq batch, \A p \in batch' : p.key # q.key,
           ph = "joining" => q.key \in RoomKeys,
           \A k \in Keys : ~Doing(k, "marking"),
           \/ /\ ph = "marking"
              /\ wire' = [wire EXCEPT ![q.key] = IF Alive(q) THEN @ \cup {StanzaOrigin(q)} ELSE @]
              /\ copies' = [copies EXCEPT ![q.key] = IF Alive(q) THEN @ + 1 ELSE @]
              /\ UNCHANGED tries
           \/ /\ ph = "failing"
              /\ tries' = [tries EXCEPT ![q.key] = IF Alive(q) /\ @ < MaxAttempts THEN @ + 1 ELSE @]
              /\ UNCHANGED <<wire, copies>>
           \/ ph \in {"joining", "deferring"} /\ UNCHANGED <<wire, copies, tries>>,
           joined' \subseteq RoomKeys,
           UNCHANGED <<queue, session, caller, worker, stopping, accepted, removed, bounds>>
    PROVE  Inv'
<1>1. /\ UNCHANGED <<rows, sends, cuts>> /\ Present' = Present
      /\ \A p : Alive(p)' = Alive(p)
  BY DEF queue, bounds, Present, Alive
<1>2. /\ q \in Claim /\ q.key \in Keys /\ q.origin \in Sends
      /\ wire \in [Keys -> SUBSET Sends] /\ copies \in [Keys -> Nat] /\ tries \in [Keys -> Nat]
  BY HeldTypes DEF Inv, TypeOK
<1> DEFINE h == [claim |-> q, phase |-> ph]
<1>3. h \in Holding /\ h # None /\ h.claim = q /\ h.phase = ph
  BY <1>2, NoneIsNothing DEF Holding
<1>4. current' = h
  BY DEF Handle
<1> HIDE DEF h
<1>5. Held' = batch' \cup {q} /\ Held' \subseteq Held
  BY <1>3, <1>4 DEF Held
<1>6. \A k, x : Doing(k, x)' <=> x = ph /\ k = q.key /\ Alive(q)
  BY <1>1, <1>3, <1>4 DEF Doing
<1>7. ASSUME Alive(q)
      PROVE  /\ q.key \in Present /\ rows[q.key].origin = q.origin
             /\ rows[q.key].attempts < MaxAttempts /\ rows[q.key].status # "dead"
             /\ rows[q.key].attempts \in Nat
  BY <1>7, AliveRow, RowTypes, Limits
<1>8. /\ wire' \in [Keys -> SUBSET Sends]
      /\ \A k \in Keys : wire'[k] = IF ph = "marking" /\ k = q.key /\ Alive(q)
                                    THEN wire[k] \cup {q.origin} ELSE wire[k]
  <2>1. ph = "marking" => wire' = [wire EXCEPT ![q.key] = IF Alive(q) THEN @ \cup {q.origin} ELSE @]
    BY DEF StanzaOrigin
  <2>2. ph # "marking" => wire' = wire
    OBVIOUS
  <2>3. wire[q.key] \cup {q.origin} \in SUBSET Sends
    BY <1>2
  <2>4. CASE ph = "marking" /\ Alive(q)
    <3>1. wire' = [wire EXCEPT ![q.key] = wire[q.key] \cup {q.origin}]
      BY <2>1, <2>4
    <3>2. QED
      BY <1>2, <2>3, <2>4, <3>1
  <2>5. CASE ~(ph = "marking" /\ Alive(q))
    <3>1. wire' = wire
      BY <1>2, <2>1, <2>2, <2>5
    <3>2. QED
      BY <1>2, <2>5, <3>1
  <2>6. QED
    BY <2>4, <2>5
<1>9. /\ copies' \in [Keys -> Nat]
      /\ \A k \in Keys : copies'[k] = IF ph = "marking" /\ k = q.key /\ Alive(q)
                                      THEN copies[k] + 1 ELSE copies[k]
  BY <1>2
<1>10. /\ tries' \in [Keys -> Nat]
       /\ \A k \in Keys : tries'[k] = IF ph = "failing" /\ k = q.key /\ Alive(q)
                                         /\ tries[k] < MaxAttempts
                                      THEN tries[k] + 1 ELSE tries[k]
  BY <1>2
<1>11. TypeOK'
  BY <1>1, <1>3, <1>4, <1>8, <1>9, <1>10 DEF Inv, TypeOK
<1>12. IdsAreFresh'
  BY <1>1, <1>5, FewerCallers
<1>13. HeldApart'
  BY <1>3, <1>4 DEF Inv, HeldApart
<1>14. HeldIsInflight'
  BY <1>1, <1>5 DEF Inv, HeldIsInflight, With, Status
<1>15. AcceptedIsOwned'
  <2>1. \A k \in Keys : wire[k] # {} => wire'[k] # {}
    BY <1>8
  <2>2. QED
    BY <1>1, <2>1 DEF Inv, TypeOK, AcceptedIsOwned
<1>16. WireIsRows'
  BY <1>1, <1>6, <1>7, <1>8 DEF Inv, WireIsRows
<1>17. CopiesAreCounted'
  <2> SUFFICES ASSUME NEW k \in Keys
               PROVE  /\ copies'[k] <= 1 + cuts
                      /\ k \in Present /\ ~Doing(k, "marking")' => copies'[k] <= cuts
    BY <1>1 DEF CopiesAreCounted
  <2>1. copies[k] <= 1 + cuts /\ (k \in Present => copies[k] <= cuts)
    BY DEF Inv, CopiesAreCounted
  <2>2. copies[k] \in Nat /\ cuts \in Nat
    BY <1>2, CutsAreNumbers DEF Inv
  <2>3. QED
    BY <1>6, <1>7, <1>9, <2>1, <2>2
<1>18. AttemptsAreTries'
  <2> SUFFICES ASSUME NEW k \in Present
               PROVE  /\ rows[k].attempts <= tries'[k]
                      /\ Doing(k, "failing")' => rows[k].attempts < tries'[k]
                      /\ IF rows[k].status = "dead" THEN tries'[k] >= MaxAttempts
                                                    ELSE rows[k].attempts < MaxAttempts
    BY <1>1 DEF AttemptsAreTries
  <2>1. /\ rows[k].attempts <= tries[k]
        /\ IF rows[k].status = "dead" THEN tries[k] >= MaxAttempts
                                      ELSE rows[k].attempts < MaxAttempts
    BY DEF Inv, AttemptsAreTries
  <2>2. k \in Keys /\ rows[k].attempts \in Nat /\ tries[k] \in Nat /\ MaxAttempts \in Nat
    BY <1>2, PresentIsRow, RowTypes, Limits DEF Present, Inv
  <2>3. QED
    BY <1>6, <1>7, <1>10, <2>1, <2>2
<1>19. QED
  BY <1>11, <1>12, <1>13, <1>14, <1>15, <1>16, <1>17, <1>18 DEF Inv

LEMMA SendOneKeepsInv ==
    ASSUME Inv, NEW q \in batch, SendOne(q)
    PROVE  Inv'
<1>1. /\ worker = "sending" /\ current = None /\ batch' = batch \ {q}
      /\ UNCHANGED <<queue, network, caller, worker, stopping, accepted, removed, bounds>>
  BY DEF SendOne
<1>2. q \in Held /\ batch' \subseteq batch
  BY <1>1 DEF Held
<1>3. \A p \in batch' : p.key # q.key
  BY <1>1 DEF Inv, HeldApart
<1>4. \A k \in Keys : ~Doing(k, "marking")
  BY <1>1 DEF Doing
<1>5. joined' \subseteq RoomKeys /\ session' = session
  BY <1>1 DEF network, Inv, TypeOK
<1>6. CASE Transmit(q)
  BY <1>1, <1>2, <1>3, <1>4, <1>5, <1>6, HandlingKeepsInv DEF Transmit, Phases
<1>7. CASE /\ (q.key \in AlertKeys /\ Handle(q, "joining")) \/ Handle(q, "deferring")
           /\ UNCHANGED <<wire, copies, tries>>
  BY <1>1, <1>2, <1>3, <1>4, <1>5, <1>7, HandlingKeepsInv, Limits DEF Phases
<1>8. QED
  BY <1>6, <1>7 DEF SendOne

LEMMA JoinReturnsKeepsInv == Inv /\ JoinReturns => Inv'
<1> SUFFICES ASSUME Inv, JoinReturns PROVE Inv'
  OBVIOUS
<1> DEFINE q == current.claim
<1>1. /\ worker = "sending" /\ current # None /\ current.phase = "joining" /\ batch' = batch
      /\ UNCHANGED <<queue, session, caller, worker, stopping, accepted, removed, bounds>>
  BY DEF JoinReturns
<1>2. q \in Held /\ batch' \subseteq batch
  BY <1>1 DEF Held
<1>3. (\A p \in batch' : p.key # q.key) /\ q.key \in RoomKeys
  BY <1>1 DEF Inv, HeldApart
<1>4. \A k \in Keys : ~Doing(k, "marking")
  BY <1>1 DEF Doing
<1>5. CASE joined' = joined \cup {q.key} /\ Transmit(q)
  <2>1. joined' \subseteq RoomKeys
    BY <1>3, <1>5 DEF Inv, TypeOK
  <2> HIDE DEF q
  <2>2. QED
    BY <1>1, <1>2, <1>3, <1>4, <1>5, <2>1, HandlingKeepsInv DEF Transmit, Phases
<1>6. CASE Handle(q, "deferring") /\ UNCHANGED <<joined, wire, copies, tries>>
  <2>1. joined' \subseteq RoomKeys
    BY <1>6 DEF Inv, TypeOK
  <2> HIDE DEF q
  <2>2. QED
    BY <1>1, <1>2, <1>3, <1>4, <1>6, <2>1, HandlingKeepsInv DEF Phases
<1>7. QED
  BY <1>5, <1>6 DEF JoinReturns

-----------------------------------------------------------------------------
(* Settling: the row is dropped, counted or put off.                        *)

LEMMA SettleKeepsInv == Inv /\ Settle => Inv'
<1> SUFFICES ASSUME Inv, Settle PROVE Inv'
  OBVIOUS
<1> DEFINE q == current.claim
           ph == current.phase
<1>1. /\ worker = "sending" /\ current # None /\ ph # "joining"
      /\ rows' = IF Alive(q) THEN [rows EXCEPT ![q.key] = Settled(ph, @)] ELSE rows
      /\ current' = None
      /\ worker' = IF batch = {} THEN (IF stopping THEN "stopped" ELSE "idle") ELSE worker
      /\ UNCHANGED <<network, caller, batch, stopping, ghosts, bounds>>
  BY DEF Settle, NextInBatch
<1>2. UNCHANGED <<session, joined, accepted, removed, wire, copies, tries, sends, cuts>>
  BY <1>1 DEF network, ghosts, bounds
<1>3. /\ q \in Held /\ Held' = batch /\ Held' \subseteq Held
      /\ \A p \in batch : p.key # q.key
  BY <1>1 DEF Held, Inv, HeldApart
<1>4. q.key \in Keys /\ \A p \in Held : p.key \in Keys
  BY <1>3, HeldTypes
<1>5. ph \in {"deferring", "failing", "marking"}
  BY <1>1 DEF Inv, TypeOK, Holding, Phases
<1>6. \A k \in Keys : Doing(k, "marking") <=> ph = "marking" /\ k = q.key /\ Alive(q)
  BY <1>1 DEF Doing
<1>7. \A k, x : ~Doing(k, x)'
  BY <1>1 DEF Doing
<1>8. rows \in [Keys -> Row \cup {None}]
  BY DEF Inv, TypeOK
<1>9. ASSUME Alive(q)
      PROVE  /\ q.key \in Present /\ rows[q.key] \in Row /\ rows[q.key].status = "inflight"
             /\ rows[q.key].attempts < MaxAttempts
             /\ rows[q.key].attempts \in Nat /\ tries[q.key] \in Nat
             /\ ph = "failing" => rows[q.key].attempts < tries[q.key]
  <2>1. /\ q.key \in Present /\ rows[q.key] \in Row /\ rows[q.key].status = "inflight"
        /\ rows[q.key].attempts < MaxAttempts
    BY <1>3, <1>9, AliveRow
  <2>2. rows[q.key].attempts \in Nat /\ tries[q.key] \in Nat
    BY <1>4, <2>1, RowTypes, Limits DEF Inv, TypeOK
  <2>3. ph = "failing" => Doing(q.key, "failing")
    BY <1>1, <1>9 DEF Doing
  <2>4. ph = "failing" => rows[q.key].attempts < tries[q.key]
    BY <2>1, <2>3 DEF Inv, AttemptsAreTries
  <2>5. QED
    BY <2>1, <2>2, <2>4
<1> DEFINE r == Settled(ph, rows[q.key])
<1>10. ASSUME Alive(q)
       PROVE  \/ ph = "marking" /\ r = None
              \/ /\ ph \in {"failing", "deferring"} /\ r \in Row /\ r # None
                 /\ r.id = rows[q.key].id /\ r.origin = rows[q.key].origin
                 /\ r.attempts \in Nat /\ r.attempts <= tries[q.key]
                 /\ IF r.status = "dead" THEN tries[q.key] >= MaxAttempts
                                         ELSE r.attempts < MaxAttempts
  <2>1. CASE ph = "marking"
    BY <2>1 DEF Settled
  <2>2. CASE ph = "failing"
    <3>1. r = Fail(rows[q.key])
      BY <2>2 DEF Settled
    <3> HIDE DEF r
    <3>2. /\ r \in Row /\ r.id = rows[q.key].id /\ r.origin = rows[q.key].origin
          /\ r.attempts = rows[q.key].attempts + 1
          /\ r.status = IF rows[q.key].attempts + 1 >= MaxAttempts THEN "dead" ELSE "pending"
      BY <1>9, <1>10, <3>1, FailIsRow
    <3>3. QED
      BY <1>9, <1>10, <2>2, <3>2, RowTypes, Limits
  <2>3. CASE ph = "deferring"
    <3>1. r = Defer(rows[q.key])
      BY <2>3 DEF Settled
    <3> HIDE DEF r
    <3>2. /\ r \in Row /\ r.id = rows[q.key].id /\ r.origin = rows[q.key].origin
          /\ r.attempts = rows[q.key].attempts /\ r.status = "pending"
      BY <1>9, <1>10, <3>1, DeferIsRow
    <3>3. rows[q.key].attempts <= tries[q.key]
      BY <1>9, <1>10 DEF Inv, AttemptsAreTries
    <3>4. QED
      BY <1>9, <1>10, <2>3, <3>2, <3>3, RowTypes
  <2>4. QED
    BY <1>5, <2>1, <2>2, <2>3
<1> HIDE DEF r
<1>11. /\ rows' \in [Keys -> Row \cup {None}]
       /\ \A k \in Keys : rows'[k] = IF k = q.key /\ Alive(q) THEN r ELSE rows[k]
  <2>1. CASE Alive(q)
    <3>1. rows' = [rows EXCEPT ![q.key] = r]
      BY <1>1, <2>1 DEF r
    <3>2. r \in Row \cup {None}
      BY <1>10, <2>1
    <3>3. QED
      BY <1>4, <1>8, <2>1, <3>1, <3>2
  <2>2. CASE ~Alive(q)
    BY <1>1, <1>8, <2>2
  <2>3. QED
    BY <2>1, <2>2
<1>12. TypeOK'
  <2>1. worker' \in {"off", "idle", "claiming", "sending", "stopped"}
    BY <1>1
  <2>2. QED
    BY <1>1, <1>2, <1>11, <2>1 DEF Inv, TypeOK
<1>13. ASSUME NEW k \in Present'
       PROVE  k \in Present /\ rows'[k].id = rows[k].id /\ rows'[k].origin = rows[k].origin
  <2>1. k \in Keys /\ rows'[k] # None
    BY <1>13 DEF Present
  <2>2. QED
    BY <1>9, <1>10, <1>11, <2>1 DEF Present
<1>14. IdsAreFresh'
  <2>1. \A k \in Present' : rows'[k].id <= sends /\ rows'[k].origin = rows'[k].id
    BY <1>13 DEF Inv, IdsAreFresh
  <2>2. \A c \in Callers : caller[c] # None => \A k \in Present' : rows'[k].id # caller[c].origin
    BY <1>13 DEF Inv, IdsAreFresh
  <2>3. QED
    BY <1>1, <1>2, <1>3, <2>1, <2>2 DEF Inv, IdsAreFresh
<1>15. HeldApart'
  BY <1>1 DEF Inv, HeldApart
<1>16. HeldIsInflight'
  <2> SUFFICES ASSUME NEW p \in batch, Alive(p)' PROVE p.key \in Keys /\ Status(p.key)' = "inflight"
    BY <1>3 DEF HeldIsInflight, With
  <2>1. p \in Held /\ p.key # q.key /\ p.key \in Keys
    BY <1>3, <1>4 DEF Held
  <2>2. rows'[p.key] = rows[p.key]
    BY <1>11, <2>1
  <2>3. Alive(p)
    BY <2>2 DEF Alive
  <2>4. p.key \in With("inflight")
    BY <2>1, <2>3 DEF Inv, HeldIsInflight
  <2>5. QED
    BY <2>2, <2>4 DEF With, Status
<1>17. AcceptedIsOwned'
  <2> SUFFICES ASSUME NEW k \in accepted, wire[k] = {}, k \notin removed PROVE k \in Present'
    BY <1>2 DEF AcceptedIsOwned
  <2>1. k \in Present /\ k \in Keys
    BY DEF Inv, AcceptedIsOwned, Present
  <2>2. ~(ph = "marking" /\ k = q.key /\ Alive(q))
    BY <1>6, <2>1 DEF Inv, WireIsRows
  <2>3. QED
    BY <1>10, <1>11, <2>1, <2>2 DEF Present
<1>18. WireIsRows'
  BY <1>2, <1>7, <1>13 DEF Inv, WireIsRows
<1>19. CopiesAreCounted'
  <2> SUFFICES ASSUME NEW k \in Keys
               PROVE  copies[k] <= 1 + cuts /\ (k \in Present' => copies[k] <= cuts)
    BY <1>2, <1>7 DEF CopiesAreCounted
  <2>1. k \in Present' => k \in Present /\ ~Doing(k, "marking")
    <3>1. CASE k = q.key /\ Alive(q) /\ ph = "marking"
      BY <1>10, <1>11, <3>1 DEF Present
    <3>2. CASE ~(k = q.key /\ Alive(q) /\ ph = "marking")
      BY <1>6, <1>13, <3>2
    <3>3. QED
      BY <3>1, <3>2
  <2>2. QED
    BY <2>1 DEF Inv, CopiesAreCounted
<1>20. AttemptsAreTries'
  <2> SUFFICES ASSUME NEW k \in Present'
               PROVE  /\ rows'[k].attempts <= tries[k]
                      /\ IF rows'[k].status = "dead" THEN tries[k] >= MaxAttempts
                                                     ELSE rows'[k].attempts < MaxAttempts
    BY <1>2, <1>7 DEF AttemptsAreTries
  <2>1. k \in Keys /\ rows'[k] # None /\ k \in Present
    BY <1>13 DEF Present
  <2>2. CASE k = q.key /\ Alive(q)
    BY <1>10, <1>11, <2>1, <2>2
  <2>3. CASE ~(k = q.key /\ Alive(q))
    BY <1>11, <2>1, <2>3 DEF Inv, AttemptsAreTries
  <2>4. QED
    BY <2>2, <2>3
<1>21. QED
  BY <1>12, <1>14, <1>15, <1>16, <1>17, <1>18, <1>19, <1>20 DEF Inv

-----------------------------------------------------------------------------
(* A row replaced by one that nobody holds, or by none.                     *)

LEMMA ReplacingKeepsInv ==
    ASSUME Inv, NEW k \in Keys, NEW r \in Row \cup {None},
           rows' = [rows EXCEPT ![k] = r],
           r # None =>
               /\ r.status = "pending" /\ r.attempts = 0
               /\ r.id <= sends /\ r.origin = r.id
               /\ \A q \in Held : q.key = k => q.id # r.id
               /\ \A c \in Callers : caller'[c] # None => caller'[c].origin # r.id
               /\ wire'[k] \subseteq {r.origin} /\ copies'[k] <= cuts,
           r = None => k \in removed',
           wire' \in [Keys -> SUBSET Sends], copies' \in [Keys -> Nat], tries' \in [Keys -> Nat],
           \A l \in Keys : l # k =>
               wire'[l] = wire[l] /\ copies'[l] = copies[l] /\ tries'[l] = tries[l],
           \A o, p \in wire'[k] : o = p,
           copies'[k] <= 1 + cuts,
           accepted' \subseteq accepted \cup {k}, removed' \subseteq removed \cup {k},
           removed \subseteq removed' \cup {k},
           caller' \in [Callers -> Message \cup {None}],
           \A c \in Callers : caller'[c] = None \/ caller'[c] = caller[c],
           UNCHANGED <<network, workerVars, bounds>>
    PROVE  Inv'
<1>1. UNCHANGED <<session, joined, worker, batch, current, stopping, sends, cuts>>
  BY DEF network, workerVars, bounds
<1>2. /\ rows' \in [Keys -> Row \cup {None}]
      /\ \A l \in Keys : rows'[l] = IF l = k THEN r ELSE rows[l]
  BY DEF Inv, TypeOK
<1>3. TypeOK'
  <2>1. accepted' \cup removed' \subseteq Keys
    BY DEF Inv, TypeOK
  <2>2. QED
    BY <1>1, <1>2, <2>1 DEF Inv, TypeOK
<1>4. Held' = Held /\ \A q \in Held : q.key \in Keys
  BY <1>1, HeldTypes DEF Held
<1>5. \A q \in Held : Alive(q)' <=> q.key # k /\ Alive(q)
  BY <1>2, <1>4 DEF Alive
<1>6. \A l \in Keys : \A x : Doing(l, x)' <=> l # k /\ Doing(l, x)
  <2> SUFFICES ASSUME NEW l \in Keys, NEW x PROVE Doing(l, x)' <=> l # k /\ Doing(l, x)
    OBVIOUS
  <2>1. CASE current = None
    BY <1>1, <2>1 DEF Doing
  <2>2. CASE current # None
    <3>1. current.claim \in Held
      BY <2>2 DEF Held
    <3>2. Alive(current.claim)' <=> current.claim.key # k /\ Alive(current.claim)
      BY <1>1, <1>5, <3>1 DEF Alive
    <3>3. QED
      BY <1>1, <2>2, <3>2 DEF Doing
  <2>3. QED
    BY <2>1, <2>2
<1>7. \A l \in Keys : l # k => (l \in Present' <=> l \in Present)
  BY <1>2 DEF Present
<1>8. k \in Present' <=> r # None
  BY <1>2 DEF Present
<1>9. \A l \in Present' : l \in Keys /\ (l # k => l \in Present /\ rows'[l] = rows[l])
                                     /\ (l = k => rows'[l] = r /\ r # None)
  BY <1>2, <1>7, <1>8 DEF Present
<1>10. IdsAreFresh'
  <2>1. \A l \in Present' : rows'[l].id <= sends' /\ rows'[l].origin = rows'[l].id
    BY <1>1, <1>9 DEF Inv, IdsAreFresh
  <2>2. ASSUME NEW c \in Callers, caller'[c] # None
        PROVE  /\ caller'[c].origin <= sends'
               /\ \A l \in Present' : rows'[l].id # caller'[c].origin
               /\ \A q \in Held' : q.id # caller'[c].origin
               /\ \A d \in Callers :
                      caller'[d] # None /\ caller'[d].origin = caller'[c].origin => d = c
    <3>1. caller'[c] = caller[c] /\ \A d \in Callers : caller'[d] # None => caller'[d] = caller[d]
      BY <2>2
    <3>2. /\ caller[c].origin <= sends
          /\ \A l \in Present : rows[l].id # caller[c].origin
          /\ \A q \in Held : q.id # caller[c].origin
          /\ \A d \in Callers :
                 caller[d] # None /\ caller[d].origin = caller[c].origin => d = c
      BY <2>2, <3>1 DEF Inv, IdsAreFresh
    <3>3. \A l \in Present' : rows'[l].id # caller'[c].origin
      BY <1>9, <2>2, <3>1, <3>2
    <3>4. QED
      BY <1>1, <1>4, <2>2, <3>1, <3>2, <3>3
  <2>3. QED
    BY <1>1, <1>4, <2>1, <2>2 DEF Inv, IdsAreFresh
<1>11. HeldApart'
  BY <1>1 DEF Inv, HeldApart
<1>12. HeldIsInflight'
  <2> SUFFICES ASSUME NEW q \in Held, Alive(q)' PROVE q.key \in Keys /\ Status(q.key)' = "inflight"
    BY <1>4 DEF HeldIsInflight, With
  <2>1. q.key # k /\ q.key \in Keys /\ Alive(q)
    BY <1>4, <1>5
  <2>2. q.key \in With("inflight") /\ rows'[q.key] = rows[q.key]
    BY <1>2, <2>1 DEF Inv, HeldIsInflight
  <2>3. QED
    BY <2>1, <2>2 DEF With, Status
<1>13. AcceptedIsOwned'
  <2> SUFFICES ASSUME NEW l \in accepted'
               PROVE  l \in Present' \/ wire'[l] # {} \/ l \in removed'
    BY DEF AcceptedIsOwned
  <2>1. CASE l = k
    BY <1>8, <2>1
  <2>2. CASE l # k
    <3>1. l \in accepted /\ l \in Keys
      BY <2>2 DEF Inv, TypeOK
    <3>2. QED
      BY <1>7, <2>2, <3>1 DEF Inv, AcceptedIsOwned
  <2>3. QED
    BY <2>1, <2>2
<1>14. WireIsRows'
  <2> SUFFICES ASSUME NEW l \in Keys
               PROVE  /\ \A o, p \in wire'[l] : o = p
                      /\ l \in Present' => wire'[l] \subseteq {rows'[l].origin}
                      /\ Doing(l, "marking")' => wire'[l] # {}
    BY DEF WireIsRows
  <2>1. CASE l = k
    BY <1>6, <1>9, <2>1
  <2>2. CASE l # k
    BY <1>6, <1>9, <2>2 DEF Inv, WireIsRows
  <2>3. QED
    BY <2>1, <2>2
<1>15. CopiesAreCounted'
  <2> SUFFICES ASSUME NEW l \in Keys
               PROVE  /\ copies'[l] <= 1 + cuts
                      /\ l \in Present' /\ ~Doing(l, "marking")' => copies'[l] <= cuts
    BY <1>1 DEF CopiesAreCounted
  <2>1. CASE l = k
    BY <1>8, <2>1
  <2>2. CASE l # k
    BY <1>6, <1>7, <2>2 DEF Inv, CopiesAreCounted
  <2>3. QED
    BY <2>1, <2>2
<1>16. AttemptsAreTries'
  <2> SUFFICES ASSUME NEW l \in Present'
               PROVE  /\ rows'[l].attempts <= tries'[l]
                      /\ Doing(l, "failing")' => rows'[l].attempts < tries'[l]
                      /\ IF rows'[l].status = "dead" THEN tries'[l] >= MaxAttempts
                                                     ELSE rows'[l].attempts < MaxAttempts
    BY DEF AttemptsAreTries
  <2>1. CASE l = k
    <3>1. tries'[l] \in Nat /\ rows'[l].attempts = 0 /\ rows'[l].status = "pending"
      BY <1>9, <2>1
    <3>2. QED
      BY <1>6, <2>1, <3>1, Limits
  <2>2. CASE l # k
    BY <1>6, <1>9, <2>2 DEF Inv, AttemptsAreTries
  <2>3. QED
    BY <2>1, <2>2
<1>17. QED
  BY <1>3, <1>10, <1>11, <1>12, <1>13, <1>14, <1>15, <1>16 DEF Inv

LEMMA EnqueuedKeepsInv ==
    ASSUME Inv, NEW c \in Callers, Enqueued(c)
    PROVE  Inv'
<1> DEFINE k == caller[c].key
           o == caller[c].origin
<1>1. /\ caller[c] # None /\ caller' = [caller EXCEPT ![c] = None]
      /\ accepted' = accepted \cup {k} /\ UNCHANGED <<network, workerVars, bounds>>
  BY DEF Enqueued
<1>2. caller[c] \in Message
  BY <1>1 DEF Inv, TypeOK
<1>3. k \in Keys /\ o \in Sends
  BY <1>2 DEF Message
<1>4. /\ caller' \in [Callers -> Message \cup {None}]
      /\ \A d \in Callers : caller'[d] = IF d = c THEN None ELSE caller[d]
  BY <1>1 DEF Inv, TypeOK
<1>5. /\ o <= sends
      /\ \A q \in Held : q.id # o
      /\ \A d \in Callers : caller'[d] # None => caller'[d].origin # o
  BY <1>1, <1>4 DEF Inv, IdsAreFresh
<1>6. /\ wire \in [Keys -> SUBSET Sends] /\ copies \in [Keys -> Nat] /\ tries \in [Keys -> Nat]
      /\ rows \in [Keys -> Row \cup {None}] /\ cuts \in Nat
  BY CutsAreNumbers DEF Inv, TypeOK
<1>7. CASE /\ k \notin Present /\ rows' = [rows EXCEPT ![k] = NewRow(o)]
           /\ removed' = removed \ {k}
           /\ wire' = [wire EXCEPT ![k] = {}]
           /\ copies' = [copies EXCEPT ![k] = 0]
           /\ tries' = [tries EXCEPT ![k] = 0]
  <2> DEFINE r == NewRow(o)
  <2>1. /\ r \in Row /\ r # None /\ r.id = o /\ r.origin = o /\ r.status = "pending"
        /\ r.attempts = 0
    BY <1>3, NewRowIsRow, RowTypes
  <2>2. rows' = [rows EXCEPT ![k] = r]
    BY <1>7
  <2> HIDE DEF r, k, o
  <2>3. /\ wire' \in [Keys -> SUBSET Sends] /\ wire'[k] = {}
        /\ \A l \in Keys : l # k => wire'[l] = wire[l]
    BY <1>3, <1>6, <1>7
  <2>4. /\ copies' \in [Keys -> Nat] /\ copies'[k] = 0
        /\ \A l \in Keys : l # k => copies'[l] = copies[l]
    BY <1>3, <1>6, <1>7
  <2>5. /\ tries' \in [Keys -> Nat]
        /\ \A l \in Keys : l # k => tries'[l] = tries[l]
    BY <1>3, <1>6, <1>7
  <2>6. copies'[k] <= cuts /\ copies'[k] <= 1 + cuts
    BY <1>6, <2>4
  <2>7. removed' \subseteq removed \cup {k} /\ removed \subseteq removed' \cup {k}
    BY <1>7
  <2>8. \A d \in Callers : caller'[d] = None \/ caller'[d] = caller[d]
    BY <1>4
  <2>9. /\ r.status = "pending" /\ r.attempts = 0
        /\ r.id <= sends /\ r.origin = r.id
        /\ \A q \in Held : q.key = k => q.id # r.id
        /\ \A d \in Callers : caller'[d] # None => caller'[d].origin # r.id
        /\ wire'[k] \subseteq {r.origin} /\ copies'[k] <= cuts
    BY <1>5, <2>1, <2>3, <2>6
  <2>10. \A x, y \in wire'[k] : x = y
    BY <2>3
  <2>11. \A l \in Keys : l # k =>
            wire'[l] = wire[l] /\ copies'[l] = copies[l] /\ tries'[l] = tries[l]
    BY <2>3, <2>4, <2>5
  <2>12. accepted' \subseteq accepted \cup {k} /\ caller' \in [Callers -> Message \cup {None}]
    BY <1>1, <1>4
  <2>13. UNCHANGED <<network, workerVars, bounds>> /\ k \in Keys /\ r \in Row \cup {None}
    BY <1>1, <1>3, <2>1
  <2>14. QED
    BY <2>1, <2>2, <2>3, <2>4, <2>5, <2>6, <2>7, <2>8, <2>9, <2>10, <2>11, <2>12, <2>13,
       ReplacingKeepsInv
<1>8. CASE /\ k \in Present /\ rows' = [rows EXCEPT ![k] = Merge(@, o)]
           /\ UNCHANGED <<removed, wire, copies, tries>>
  <2>1. rows' = rows
    BY <1>3, <1>6, <1>8 DEF Merge
  <2>2. UNCHANGED <<session, joined, worker, batch, current, stopping, sends, cuts>>
    BY <1>1 DEF network, workerVars, bounds
  <2>3. TypeOK'
    <3>1. accepted' \cup removed' \subseteq Keys
      BY <1>1, <1>3, <1>8 DEF Inv, TypeOK
    <3>2. QED
      BY <1>4, <1>8, <2>1, <2>2, <3>1 DEF Inv, TypeOK
  <2>4. Held' = Held /\ Present' = Present
    BY <2>1, <2>2 DEF Held, Present
  <2>5. IdsAreFresh'
    BY <1>4, <2>1, <2>2, <2>4, FewerCallers
  <2>6. AcceptedIsOwned'
    BY <1>1, <1>8, <2>4 DEF Inv, AcceptedIsOwned
  <2>7. HeldApart' /\ HeldIsInflight'
    BY <2>1, <2>2, <2>4 DEF Inv, HeldApart, HeldIsInflight, Alive, With, Status
  <2>8. \A l, x : Doing(l, x)' = Doing(l, x)
    BY <2>1, <2>2 DEF Doing, Alive
  <2>9. WireIsRows' /\ CopiesAreCounted' /\ AttemptsAreTries'
    BY <1>8, <2>1, <2>2, <2>4, <2>8 DEF Inv, WireIsRows, CopiesAreCounted, AttemptsAreTries
  <2>10. QED
    BY <2>3, <2>5, <2>6, <2>7, <2>9 DEF Inv
<1>9. QED
  BY <1>7, <1>8 DEF Enqueued

LEMMA RetryDeadKeepsInv ==
    ASSUME Inv, NEW k \in Keys, RetryDead(k)
    PROVE  Inv'
<1> DEFINE r == [Requeue(rows[k]) EXCEPT !.attempts = 0]
<1>1. /\ rows' = [rows EXCEPT ![k] = r] /\ tries' = [tries EXCEPT ![k] = 0]
      /\ UNCHANGED <<network, caller, workerVars, accepted, removed, wire, copies, bounds>>
  BY DEF RetryDead
<1>2. k \in Present /\ rows[k].status = "dead"
  BY DEF RetryDead, Status, Present
<1>3. rows[k] \in Row
  BY <1>2, PresentIsRow DEF Inv
<1>4. /\ r \in Row /\ r # None /\ r.id = rows[k].id /\ r.origin = rows[k].origin
      /\ r.status = "pending" /\ r.attempts = 0
  <2>1. 0 \in 0 .. MaxAttempts
    BY Limits
  <2>2. r \in Row /\ r.id = rows[k].id /\ r.origin = rows[k].origin
        /\ r.status = "pending" /\ r.attempts = 0
    BY <1>3, <2>1 DEF Requeue, Row
  <2> HIDE DEF r
  <2>3. QED
    BY <2>2, RowTypes
<1> HIDE DEF r
<1>5. /\ r.id <= sends /\ r.origin = r.id
      /\ \A c \in Callers : caller'[c] # None => caller'[c].origin # r.id
  BY <1>1, <1>2, <1>4 DEF Inv, IdsAreFresh
<1>6. ASSUME NEW q \in Held, q.key = k PROVE q.id # r.id
  <2>1. q.id = r.id => Alive(q)
    BY <1>2, <1>4, <1>6 DEF Alive, Present
  <2>2. Alive(q) => rows[k].status = "inflight"
    BY <1>6, AliveRow
  <2>3. QED
    BY <1>2, <2>1, <2>2
<1>7. ~Doing(k, "marking")
  <2>1. ASSUME current # None, current.claim.key = k, Alive(current.claim) PROVE FALSE
    <3>1. current.claim \in Held
      BY <2>1 DEF Held
    <3>2. QED
      BY <1>2, <2>1, <3>1, AliveRow
  <2>2. QED
    BY <2>1 DEF Doing
<1>8. /\ wire'[k] \subseteq {r.origin} /\ copies'[k] <= cuts /\ copies'[k] <= 1 + cuts
      /\ \A o, p \in wire'[k] : o = p
  BY <1>1, <1>2, <1>4, <1>7 DEF Inv, WireIsRows, CopiesAreCounted
<1>9. /\ wire' \in [Keys -> SUBSET Sends] /\ copies' \in [Keys -> Nat]
      /\ tries' \in [Keys -> Nat]
      /\ \A l \in Keys : l # k => tries'[l] = tries[l]
      /\ caller' \in [Callers -> Message \cup {None}]
  BY <1>1 DEF Inv, TypeOK
<1>10. QED
  BY <1>1, <1>4, <1>5, <1>6, <1>8, <1>9, ReplacingKeepsInv

LEMMA DeleteKeepsInv ==
    ASSUME Inv, NEW k \in Keys, Delete(k)
    PROVE  Inv'
<1>1. /\ rows' = [rows EXCEPT ![k] = None] /\ removed' = removed \cup {k}
      /\ UNCHANGED <<network, caller, workerVars, accepted, wire, copies, tries, bounds>>
  BY DEF Delete
<1>2. /\ \A o, p \in wire'[k] : o = p
      /\ copies'[k] <= 1 + cuts
  BY <1>1 DEF Inv, WireIsRows, CopiesAreCounted
<1>3. /\ wire' \in [Keys -> SUBSET Sends] /\ copies' \in [Keys -> Nat]
      /\ tries' \in [Keys -> Nat]
      /\ caller' \in [Callers -> Message \cup {None}]
  BY <1>1 DEF Inv, TypeOK
<1> DEFINE r == None
<1>4. r \in Row \cup {None} /\ r = None /\ rows' = [rows EXCEPT ![k] = r]
  BY <1>1
<1> HIDE DEF r
<1>5. QED
  BY <1>1, <1>2, <1>3, <1>4, ReplacingKeepsInv

LEMMA NextKeepsInv == Inv /\ [Next]_vars => Inv'
<1> SUFFICES ASSUME Inv, [Next]_vars PROVE Inv'
  OBVIOUS
<1>1. CASE SessionStarts \/ RuntimeReady \/ Disconnects
  <2>1. session' \in {"down", "started", "ready"} /\ joined' \subseteq RoomKeys
    BY <1>1 DEF SessionStarts, RuntimeReady, Disconnects, Inv, TypeOK
  <2>2. UNCHANGED <<queue, caller, workerVars, ghosts, sends, cuts>>
    BY <1>1 DEF SessionStarts, RuntimeReady, Disconnects, bounds
  <2>3. QED
    BY <2>1, <2>2, NetworkKeepsInv
<1>2. ASSUME NEW k \in Keys, RoomJoined(k) \/ RoomLost(k) PROVE Inv'
  <2>1. session' \in {"down", "started", "ready"} /\ joined' \subseteq RoomKeys
    BY <1>2 DEF RoomJoined, RoomLost, Inv, TypeOK
  <2>2. UNCHANGED <<queue, caller, workerVars, ghosts, sends, cuts>>
    BY <1>2 DEF RoomJoined, RoomLost, bounds
  <2>3. QED
    BY <2>1, <2>2, NetworkKeepsInv
<1>3. ASSUME NEW c \in Callers, Enqueued(c) \/ EnqueueRejected(c) \/ (\E k \in Keys : SendFails(c, k))
      PROVE  Inv'
  BY <1>3, SendFailsKeepsInv, EnqueuedKeepsInv, EnqueueRejectedKeepsInv
<1>4. CASE Start \/ Recover \/ StoreFails \/ Stop \/ WorkerCancelled \/ ProcessEnds
  BY <1>4, StartKeepsInv, RecoverKeepsInv, StoreFailsKeepsInv, StopKeepsInv,
     WorkerCancelledKeepsInv, ProcessEndsKeepsInv
<1>5. CASE WorkerStep
  BY <1>5, ClaimDueKeepsInv, SendOneKeepsInv, JoinReturnsKeepsInv, SettleKeepsInv,
     WorkerStopsKeepsInv DEF WorkerStep
<1>6. ASSUME NEW k \in Keys, ComesDue(k) \/ RetryDead(k) \/ Delete(k) PROVE Inv'
  BY <1>6, ComesDueKeepsInv, RetryDeadKeepsInv, DeleteKeepsInv
<1>7. CASE UNCHANGED vars
  <2>1. UNCHANGED <<queue, caller, workerVars, ghosts, sends, cuts>>
    BY <1>7 DEF vars, bounds
  <2>2. session' \in {"down", "started", "ready"} /\ joined' \subseteq RoomKeys
    BY <1>7 DEF vars, network, Inv, TypeOK
  <2>3. QED
    BY <2>1, <2>2, NetworkKeepsInv
<1>8. QED
  BY <1>1, <1>2, <1>3, <1>4, <1>5, <1>6, <1>7 DEF Next

-----------------------------------------------------------------------------
(* The theorems.                                                            *)

(* A message durable_send accepted is in the table until the transport took *)
(* it or somebody deleted it, and no row can be claimed while a worker      *)
(* holds it. ("the central outbox owns the remaining delivery retries",     *)
(* bot/messages.py)                                                         *)
THEOREM AcceptedIsAlwaysOwned == Spec => []OutboxOwns
<1>1. Inv => OutboxOwns
  BY DEF Inv, OutboxOwns
<1>2. QED
  BY <1>1, InitInv, NextKeepsInv, PTL DEF Spec

(* Every copy of a message carries one origin id, a second copy needs a     *)
(* crash, a failed transaction or a cancelled worker, and a dead letter was *)
(* tried as often as configured. (docs/diagnostics.md, docs/architecture.md)*)
THEOREM ReplaysAreAlwaysHonest == Spec => []ReplaysAreHonest
<1>1. ASSUME Inv PROVE ReplaysAreHonest
  <2>1. ReplaysShareOrigin
    <3> SUFFICES ASSUME NEW k \in Keys PROVE Cardinality(wire[k]) <= 1
      BY DEF ReplaysShareOrigin
    <3>1. \A o, p \in wire[k] : o = p
      BY <1>1 DEF Inv, WireIsRows
    <3>2. CASE wire[k] = {}
      BY <3>2, FS_EmptySet
    <3>3. CASE wire[k] # {}
      <4>1. PICK o : wire[k] = {o}
        BY <3>1, <3>3
      <4>2. QED
        BY <4>1, FS_Singleton
    <3>4. QED
      BY <3>2, <3>3
  <2>2. ReplayNeedsACut
    BY <1>1 DEF Inv, CopiesAreCounted, ReplayNeedsACut
  <2>3. DeadWasTried
    BY <1>1 DEF Inv, AttemptsAreTries, DeadWasTried, With, Status, Present
  <2>4. QED
    BY <2>1, <2>2, <2>3 DEF ReplaysAreHonest
<1>2. QED
  BY <1>1, InitInv, NextKeepsInv, PTL DEF Spec
=================================================================================
