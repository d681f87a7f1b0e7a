----------------------------- MODULE CommandsProofs -----------------------------
(***************************************************************************)
(* Theorems about Commands: for any senders, room administrators, messages *)
(* and number of tasks, whatever the order in which their steps follow one *)
(* another, nobody is given a role by somebody who did not rank higher, an *)
(* encrypted message gets no plaintext answer that the configuration does  *)
(* not allow, and the drain leaves no reply behind.  And about four more   *)
(* parts of what comes in: room membership (Rooms), the users plugin       *)
(* (Users), the translate plugin (Translate) and the duck game (Ducks).    *)
(***************************************************************************)
EXTENDS Commands, Sequences, FiniteSetTheorems, TLAPS

(* What the module assumes of its constants; TLC evaluates it.              *)
Assumptions == OwnerAssumption /\ MessagesAssumption /\ NoneAssumption

-----------------------------------------------------------------------------
(* Tasks and roles.                                                         *)

LEMMA HandlingTypes ==
    ASSUME Assumptions, TypeOK, NEW k \in Tasks, task[k] # None
    PROVE  /\ task[k] \in Handling
           /\ task[k].sender \in Senders /\ task[k].target \in Senders
           /\ task[k].direct \in BOOLEAN /\ task[k].enc \in BOOLEAN
           /\ task[k].name \in Names /\ task[k].new \in Assignable
           /\ task[k].at \in Places /\ task[k].no \in 1 .. MaxMessages
           /\ task[k].role \in Roles \union {None} /\ task[k].seen \in Roles \union {None}
<1>1. task[k] \in Handling
  BY DEF TypeOK
<1> QED BY <1>1 DEF Handling

LEMMA StoredRoleTypes ==
    ASSUME NEW r \in Roles \union {None}
    PROVE  StoredRole(r) \in Roles \ {OwnerRole}
  BY DEF StoredRole, Roles, OwnerRole, User, Superadmin, Admin, Moderator, Banned

(* Only the owner has the owner's role.                                     *)
LEMMA RoleTypes ==
    ASSUME Assumptions, TypeOK, NEW s \in Senders, NEW b \in BOOLEAN
    PROVE  /\ RoleOf(s, b) \in Roles
           /\ RoleOf(s, b) = OwnerRole => s = Owner
<1>1. row[s] \in Roles \union {None}
  BY DEF TypeOK
<1>2. StoredRole(row[s]) \in Roles \ {OwnerRole}
  BY <1>1, StoredRoleTypes
<1>3. OwnerRole \in Roles /\ Moderator \in Roles \ {OwnerRole}
  BY DEF Roles, OwnerRole, Moderator
<1> QED BY <1>2, <1>3 DEF RoleOf, Elevated

LEMMA RolesAreNumbers == Roles \subseteq Nat /\ Assignable \subseteq Roles /\ User \in Roles
  BY DEF Roles, Assignable, OwnerRole, User, Superadmin, Admin, Moderator, Banned

-----------------------------------------------------------------------------
(* Type correctness.                                                        *)

LEMMA InitTypes == ASSUME Assumptions, Init PROVE TypeOK
<1>1. row \in [Senders -> Roles \union {None}]
  BY DEF Init, Roles
<1>2. maker \in [Senders -> Makers \union {None}]
  BY DEF Init, Makers, Assumptions, OwnerAssumption, Roles
<1> QED BY <1>1, <1>2 DEF Init, TypeOK, Assumptions, MessagesAssumption

LEMMA ReceiveTypes ==
    ASSUME Assumptions, TypeOK, NEW k \in Tasks, NEW m \in Messages, Receive(k, m)
    PROVE  /\ TypeOK'
           /\ task'[k] \in Handling /\ task'[k].no = messages + 1 /\ task'[k].at = "prepare"
           /\ \A j \in Tasks \ {k} : task'[j] = task[j]
<1> DEFINE t == [sender |-> m.sender, direct |-> m.direct, enc |-> m.enc, name |-> m.name,
                 target |-> m.target, new |-> m.new, at |-> "prepare", no |-> messages + 1,
                 role |-> None, seen |-> None]
<1>1. /\ task' = [task EXCEPT ![k] = t] /\ messages' = messages + 1 /\ messages < MaxMessages
      /\ UNCHANGED <<accepting, row, replies, drain, maker, sent, early>>
  BY DEF Receive
<1>2. MaxMessages \in Nat /\ messages \in 0 .. MaxMessages
  BY DEF Assumptions, MessagesAssumption, TypeOK
<1>3. messages + 1 \in 1 .. MaxMessages
  BY <1>1, <1>2
<1>4. m \in [sender : Senders, direct : BOOLEAN, enc : BOOLEAN, name : Names,
             target : Senders, new : Assignable]
  BY DEF Assumptions, MessagesAssumption
<1>5. t \in Handling
  BY <1>3, <1>4 DEF Handling, Places
<1>6. t.no = messages + 1 /\ t.at = "prepare"
  OBVIOUS
<1> HIDE DEF t
<1>7. task'[k] = t /\ \A j \in Tasks \ {k} : task'[j] = task[j]
  BY <1>1 DEF TypeOK
<1>8. task' \in [Tasks -> Handling \union {None}]
  BY <1>1, <1>5 DEF TypeOK
<1>9. TypeOK'
  <2>1. messages' \in 0 .. MaxMessages
    BY <1>1, <1>2
  <2> QED BY ONLY <1>1, <1>8, <2>1, TypeOK DEF TypeOK
<1> QED BY <1>5, <1>6, <1>7, <1>9

(* What a step of one task may do to the tasks: it goes on or ends.         *)
GoesOn(k, place) ==
    /\ task' \in [Tasks -> Handling \union {None}]
    /\ task'[k] # None /\ task'[k].at = place
    /\ task'[k].no = task[k].no
    /\ \A j \in Tasks \ {k} : task'[j] = task[j]

IsOver(k) ==
    /\ task' \in [Tasks -> Handling \union {None}] /\ task'[k] = None
    /\ \A j \in Tasks \ {k} : task'[j] = task[j]

Answered(k) ==
    replies' = replies \union {[no |-> task[k].no, direct |-> task[k].direct,
                                enc |-> task[k].enc, mode |-> ScheduledMode(task[k].enc)]}

LEMMA AnswerTypes ==
    ASSUME Assumptions, TypeOK, NEW k \in Tasks, task[k] # None, Answered(k)
    PROVE  replies' \subseteq Answers
<1> DEFINE r == [no |-> task[k].no, direct |-> task[k].direct, enc |-> task[k].enc,
                 mode |-> ScheduledMode(task[k].enc)]
<1>1. ScheduledMode(task[k].enc) \in {TRUE, None}
  BY DEF ScheduledMode
<1>2. /\ task[k].no \in 1 .. MaxMessages /\ task[k].direct \in BOOLEAN /\ task[k].enc \in BOOLEAN
  BY HandlingTypes
<1>3. r \in Answers
  BY <1>1, <1>2 DEF Answers
<1>4. replies' = replies \union {r}
  BY DEF Answered
<1> HIDE DEF r
<1> QED BY <1>3, <1>4 DEF TypeOK

LEMMA OverWhenEnded ==
    ASSUME TypeOK, NEW k \in Tasks, Ends(k)
    PROVE  IsOver(k)
  BY DEF Ends, IsOver, TypeOK

LEMMA GoesOnWhenMoved ==
    ASSUME Assumptions, TypeOK, NEW k \in Tasks, task[k] # None, NEW place \in Places,
           NEW r \in Roles \union {None}, NEW s \in Roles \union {None},
           task' = [task EXCEPT ![k] = [task[k] EXCEPT !.at = place, !.role = r, !.seen = s]]
    PROVE  /\ GoesOn(k, place)
           /\ task'[k].role = r /\ task'[k].seen = s
           /\ task'[k].sender = task[k].sender /\ task'[k].target = task[k].target
           /\ task'[k].new = task[k].new /\ task'[k].name = task[k].name
<1> DEFINE t == [task[k] EXCEPT !.at = place, !.role = r, !.seen = s]
<1>1. task[k] \in Handling
  BY HandlingTypes
<1>2. /\ t \in Handling /\ t.at = place /\ t.no = task[k].no /\ t.role = r /\ t.seen = s
      /\ t.sender = task[k].sender /\ t.target = task[k].target /\ t.new = task[k].new
      /\ t.name = task[k].name
  BY <1>1 DEF Handling
<1>3. task' = [task EXCEPT ![k] = t]
  OBVIOUS
<1> HIDE DEF t
<1>4. t # None
  BY <1>2 DEF Assumptions, NoneAssumption
<1>5. task'[k] = t /\ \A j \in Tasks \ {k} : task'[j] = task[j]
  BY <1>3 DEF TypeOK
<1>6. task' \in [Tasks -> Handling \union {None}]
  BY <1>2, <1>3 DEF TypeOK
<1> QED BY <1>2, <1>4, <1>5, <1>6 DEF GoesOn

-----------------------------------------------------------------------------
(* The shape of a task's step: how it goes on, what it answers, and what it *)
(* does to the roles.                                                       *)
TaskStep(k) ==
    /\ task[k] # None
    /\ UNCHANGED <<accepting, drain, sent, early, messages>>
    /\ \/ \E place \in Places \ {"audit"} :
             GoesOn(k, place) /\ Unanswered(k) /\ UNCHANGED replies
       \/ IsOver(k) /\ UNCHANGED replies
       \/ IsOver(k) /\ Unanswered(k) /\ Answered(k)
       \/ GoesOn(k, "audit") /\ Unanswered(k) /\ Answered(k)

Noticed(s) == row' = [row EXCEPT ![s] = IF @ = None THEN User ELSE @] /\ UNCHANGED maker

Granted(t, rank) ==
    /\ rank \in Roles /\ rank < t.new /\ t.target # t.sender
    /\ t.new = Superadmin => t.sender = Owner
    /\ row' = [row EXCEPT ![t.target] = t.new]
    /\ maker' = [maker EXCEPT ![t.target] = [by |-> t.sender, rank |-> rank]]

Removed(s) == row' = [row EXCEPT ![s] = None] /\ maker' = [maker EXCEPT ![s] = None]

RolesStep(k) ==
    /\ At(k, "clear")' => Entitled(task[k])'
    /\ \/ UNCHANGED <<row, maker>> \/ Noticed(task[k].target) \/ Removed(task[k].target)
       \/ \E rank \in Roles : Granted(task[k], rank)

LEMMA AtFacts ==
    ASSUME Assumptions, TypeOK, NEW k \in Tasks, NEW place \in Places, At(k, place)
    PROVE  /\ task[k] # None /\ task[k].at = place
           /\ place # "audit" => Unanswered(k)
           /\ task[k].role \in Roles \union {None} /\ task[k].seen \in Roles \union {None}
           /\ task[k].sender \in Senders /\ task[k].target \in Senders
           /\ task[k].new \in Roles /\ task[k].new \in Nat /\ task[k].name \in Names
  BY HandlingTypes, RolesAreNumbers DEF At, Unanswered

LEMMA PlacesAre ==
    /\ "prepare" \in Places /\ "role" \in Places /\ "limit" \in Places /\ "work" \in Places
    /\ "target" \in Places /\ "actor" \in Places /\ "clear" \in Places
    /\ "delete" \in Places /\ "answer" \in Places /\ "audit" \in Places
  BY DEF Places

(* A record that keeps its role and the row it has seen.                    *)
LEMMA GotoMoves ==
    ASSUME Assumptions, TypeOK, NEW k \in Tasks, task[k] # None, NEW place \in Places,
           Goto(k, place)
    PROVE  /\ GoesOn(k, place)
           /\ task'[k].role = task[k].role /\ task'[k].seen = task[k].seen
           /\ task'[k].sender = task[k].sender /\ task'[k].target = task[k].target
           /\ task'[k].new = task[k].new /\ task'[k].name = task[k].name
<1> DEFINE t == [task[k] EXCEPT !.at = place]
<1>1. task[k] \in Handling
  BY HandlingTypes
<1>2. /\ t \in Handling /\ t.at = place /\ t.no = task[k].no /\ t.role = task[k].role
      /\ t.seen = task[k].seen /\ t.sender = task[k].sender /\ t.target = task[k].target
      /\ t.new = task[k].new /\ t.name = task[k].name
  BY <1>1 DEF Handling
<1>3. task' = [task EXCEPT ![k] = t]
  BY DEF Goto
<1> HIDE DEF t
<1>4. t # None
  BY <1>2 DEF Assumptions, NoneAssumption
<1>5. task'[k] = t /\ \A j \in Tasks \ {k} : task'[j] = task[j]
  BY <1>3 DEF TypeOK
<1>6. task' \in [Tasks -> Handling \union {None}]
  BY <1>2, <1>3 DEF TypeOK
<1> QED BY <1>2, <1>4, <1>5, <1>6 DEF GoesOn

(* The dispatcher's and the command's own check keep the role they found.   *)
LEMMA RoleHeld ==
    ASSUME Assumptions, TypeOK, NEW k \in Tasks, task[k] # None, NEW place \in Places,
           NEW r \in Roles \union {None},
           task' = [task EXCEPT ![k].at = place, ![k].role = r]
    PROVE  /\ GoesOn(k, place) /\ task'[k].role = r
           /\ task'[k].sender = task[k].sender /\ task'[k].target = task[k].target
           /\ task'[k].new = task[k].new
<1> DEFINE t == [task[k] EXCEPT !.at = place, !.role = r]
<1>1. task[k] \in Handling
  BY HandlingTypes
<1>2. /\ t \in Handling /\ t.at = place /\ t.no = task[k].no /\ t.role = r
      /\ t.sender = task[k].sender /\ t.target = task[k].target /\ t.new = task[k].new
  BY <1>1 DEF Handling
<1>3. [[task[k] EXCEPT !.at = place] EXCEPT !.role = r] = t
  BY <1>1 DEF Handling
<1>4. task' = [task EXCEPT ![k] = t]
  BY <1>3 DEF TypeOK
<1> HIDE DEF t
<1>5. t # None
  BY <1>2 DEF Assumptions, NoneAssumption
<1>6. task'[k] = t /\ \A j \in Tasks \ {k} : task'[j] = task[j]
  BY <1>4 DEF TypeOK
<1>7. task' \in [Tasks -> Handling \union {None}]
  BY <1>2, <1>4 DEF TypeOK
<1> QED BY <1>2, <1>5, <1>6, <1>7 DEF GoesOn

LEMMA NotCleared ==
    ASSUME NEW k, NEW place, GoesOn(k, place), place # "clear"
    PROVE  ~At(k, "clear")'
  BY DEF GoesOn, At

LEMMA OverNotCleared ==
    ASSUME NEW k, IsOver(k)
    PROVE  ~At(k, "clear")'
  BY DEF IsOver, At

LEMMA Replying ==
    ASSUME Assumptions, TypeOK, NEW k \in Tasks, task[k] # None,
           Reply(task[k]) \/ HandlerReply(task[k])
    PROVE  Answered(k)
  BY DEF Answered, Reply, HandlerReply, ReplyIn, HandlerMode

LEMMA PreparedStep ==
    ASSUME Assumptions, TypeOK, NEW k \in Tasks, Prepared(k)
    PROVE  TaskStep(k) /\ RolesStep(k)
<1>1. /\ task[k] # None /\ Unanswered(k)
      /\ UNCHANGED <<accepting, drain, sent, early, messages, row, maker>>
  BY AtFacts, PlacesAre DEF Prepared, Rest
<1>2. CASE accepting
  <2>1. GoesOn(k, "role") /\ UNCHANGED replies
    BY <1>1, <1>2, GotoMoves, PlacesAre DEF Prepared
  <2> QED BY <1>1, <2>1, NotCleared, PlacesAre DEF TaskStep, RolesStep
<1>3. CASE ~accepting
  <2>1. IsOver(k) /\ Answered(k)
    BY <1>1, <1>3, OverWhenEnded, Replying DEF Prepared
  <2> QED BY <1>1, <2>1, OverNotCleared DEF TaskStep, RolesStep
<1> QED BY <1>2, <1>3

LEMMA DecideStep ==
    ASSUME Assumptions, TypeOK, NEW k \in Tasks, task[k] # None, Unanswered(k),
           NEW r \in Roles \union {None}, Decide(k, r), Rest, UNCHANGED <<row, maker>>
    PROVE  TaskStep(k) /\ RolesStep(k)
<1>1. UNCHANGED <<accepting, drain, sent, early, messages, row, maker>>
  BY DEF Rest
<1>2. CASE Permitted(r, task[k].name, task[k].direct)
  <2> DEFINE place == Handlers[task[k].name]
  <2>1. task[k].name \in Names /\ task[k].seen \in Roles \union {None} /\ task[k] \in Handling
    BY HandlingTypes
  <2>2. place \in {"work", "target"}
    BY <2>1 DEF Handlers, Names
  <2>3. /\ task' = [task EXCEPT ![k].at = place, ![k].role = r]
        /\ UNCHANGED replies
    BY <1>2 DEF Decide
  <2> HIDE DEF place
  <2>6. GoesOn(k, place)
    BY <2>2, <2>3, RoleHeld, PlacesAre
  <2>7. place \in Places \ {"audit"} /\ place # "clear"
    BY <2>2, PlacesAre
  <2> QED BY <1>1, <2>3, <2>6, <2>7, NotCleared DEF TaskStep, RolesStep
<1>3. CASE ~Permitted(r, task[k].name, task[k].direct)
  <2>1. IsOver(k) /\ Answered(k)
    BY <1>3, OverWhenEnded, Replying DEF Decide
  <2> QED BY <1>1, <2>1, OverNotCleared DEF TaskStep, RolesStep
<1> QED BY <1>2, <1>3

LEMMA RoleKnownStep ==
    ASSUME Assumptions, TypeOK, NEW k \in Tasks, RoleKnown(k)
    PROVE  TaskStep(k) /\ RolesStep(k)
<1> DEFINE r == RoleOf(task[k].sender, ~task[k].direct)
<1>1. At(k, "role") /\ Rest /\ UNCHANGED <<row, maker>>
  BY DEF RoleKnown
<1>2. task[k] # None /\ Unanswered(k)
  BY <1>1, AtFacts, PlacesAre
<1>3. /\ task[k].seen \in Roles \union {None} /\ task[k] \in Handling
      /\ task[k].sender \in Senders /\ (~task[k].direct) \in BOOLEAN
  BY <1>2, HandlingTypes
<1>4. r \in Roles
  BY <1>3, RoleTypes
<1>5. CASE BypassesLimit(r)
  <2>1. Decide(k, r)
    BY <1>5 DEF RoleKnown
  <2> HIDE DEF r
  <2> QED BY <1>1, <1>2, <1>4, <2>1, DecideStep
<1>6. CASE ~BypassesLimit(r)
  <2>1. task' = [task EXCEPT ![k].at = "limit", ![k].role = r] /\ UNCHANGED replies
    BY <1>6 DEF RoleKnown
  <2> HIDE DEF r
  <2>4. GoesOn(k, "limit")
    BY <1>2, <1>4, <2>1, RoleHeld, PlacesAre
  <2> QED BY <1>1, <1>2, <2>1, <2>4, NotCleared, PlacesAre DEF TaskStep, RolesStep, Rest
<1> QED BY <1>5, <1>6

LEMMA LimitedStep ==
    ASSUME Assumptions, TypeOK, NEW k \in Tasks, Limited(k)
    PROVE  TaskStep(k) /\ RolesStep(k)
<1>1. At(k, "limit") /\ Rest /\ UNCHANGED <<row, maker>>
  BY DEF Limited
<1>2. task[k] # None /\ Unanswered(k) /\ task[k].role \in Roles \union {None}
  BY <1>1, AtFacts, PlacesAre
<1>3. CASE Decide(k, task[k].role)
  BY <1>1, <1>2, <1>3, DecideStep
<1>4. CASE Ends(k) /\ UNCHANGED replies
  <2>1. IsOver(k)
    BY <1>4, OverWhenEnded
  <2> QED BY <1>1, <1>2, <1>4, <2>1, OverNotCleared DEF TaskStep, RolesStep, Rest
<1> QED BY <1>3, <1>4 DEF Limited

LEMMA ReadTargetStep ==
    ASSUME Assumptions, TypeOK, NEW k \in Tasks, ReadTarget(k)
    PROVE  TaskStep(k) /\ RolesStep(k)
<1>1. At(k, "target") /\ UNCHANGED <<accepting, drain, sent, early, messages, row, maker, replies>>
  BY DEF ReadTarget, Rest
<1>2. task[k] # None /\ Unanswered(k)
  BY <1>1, AtFacts, PlacesAre
<1>3. /\ task[k].role \in Roles \union {None} /\ task[k] \in Handling
      /\ row[task[k].target] \in Roles \union {None}
  BY <1>2, HandlingTypes DEF TypeOK
<1> DEFINE place == IF task[k].name = "delete" /\ row[task[k].target] = None
                    THEN "answer" ELSE "actor"
           seen == row[task[k].target]
<1>4. place \in Places \ {"audit"} /\ place # "clear"
  BY PlacesAre
<1>5. task' = [task EXCEPT ![k].seen = seen, ![k].at = place]
  BY DEF ReadTarget
<1> HIDE DEF place, seen
<1>6. [[task[k] EXCEPT !.seen = seen] EXCEPT !.at = place] =
         [task[k] EXCEPT !.at = place, !.role = task[k].role, !.seen = seen]
  BY <1>3 DEF Handling
<1>7. task' = [task EXCEPT ![k] = [task[k] EXCEPT !.at = place, !.role = task[k].role,
                                                   !.seen = seen]]
  BY <1>5, <1>6 DEF TypeOK
<1>8. seen \in Roles \union {None}
  BY <1>3 DEF seen
<1>9. GoesOn(k, place)
  BY <1>2, <1>3, <1>4, <1>7, <1>8, GoesOnWhenMoved
<1> QED BY <1>1, <1>2, <1>4, <1>9, NotCleared DEF TaskStep, RolesStep

(* A step that goes on to a place other than "clear" and "audit".           *)
LEMMA Onwards ==
    ASSUME Assumptions, TypeOK, NEW k \in Tasks, Unanswered(k),
           NEW place \in Places \ {"audit", "clear"}, Goto(k, place), Rest, UNCHANGED replies
    PROVE  TaskStep(k) /\ ~At(k, "clear")'
<1>1. task[k] # None /\ GoesOn(k, place)
  BY GotoMoves DEF Unanswered
<1> QED BY <1>1, NotCleared DEF TaskStep, Rest

(* Who may change a role may give it.                                       *)
LEMMA WhoMayChange ==
    ASSUME Assumptions, TypeOK, NEW k \in Tasks, task[k] # None, NEW rank, NEW old,
           rank = RoleOf(task[k].sender, FALSE),
           MayChange(rank, task[k].sender, task[k].target, old, task[k].new)
    PROVE  /\ rank \in Roles /\ rank < task[k].new
           /\ task[k].target \notin {Owner, task[k].sender}
           /\ task[k].new = Superadmin => task[k].sender = Owner
<1>1. task[k].sender \in Senders /\ task[k].new \in Nat
  BY HandlingTypes, RolesAreNumbers
<1>2. rank \in Roles /\ rank \in Nat /\ (rank = OwnerRole => task[k].sender = Owner)
  BY <1>1, RoleTypes, RolesAreNumbers
<1>3. /\ task[k].target \notin {Owner, task[k].sender} /\ task[k].new > rank
      /\ task[k].new = Superadmin => rank = OwnerRole
  BY DEF MayChange
<1> QED BY <1>1, <1>2, <1>3

LEMMA StoreRoleStep ==
    ASSUME NEW k, NEW rank \in Roles, rank < task[k].new, task[k].target # task[k].sender,
           task[k].new = Superadmin => task[k].sender = Owner, StoreRole(k, rank)
    PROVE  UNCHANGED <<row, maker>> \/ Granted(task[k], rank)
<1>1. CASE row[task[k].target] = None
  BY <1>1 DEF StoreRole
<1>2. CASE row[task[k].target] # None
  BY <1>2 DEF StoreRole, Granted, Made
<1> QED BY <1>1, <1>2

LEMMA ChangeRoleStep ==
    ASSUME Assumptions, TypeOK, NEW k \in Tasks, At(k, "actor"), NEW rank,
           rank = RoleOf(task[k].sender, FALSE), ChangeRole(k, rank), Rest, UNCHANGED replies
    PROVE  TaskStep(k) /\ RolesStep(k)
<1> DEFINE may == MayChange(rank, task[k].sender, task[k].target, StoredRole(task[k].seen),
                            task[k].new)
<1>1. task[k] # None /\ Unanswered(k)
  BY AtFacts, PlacesAre
<1>2. "answer" \in Places \ {"audit", "clear"}
  BY PlacesAre
<1>3. \/ /\ may /\ task[k].seen = None /\ Noticed(task[k].target)
         /\ task' = [task EXCEPT ![k].at = "clear", ![k].role = rank]
      \/ may /\ Goto(k, "answer") /\ StoreRole(k, rank)
      \/ Goto(k, "answer") /\ UNCHANGED <<row, maker>>
  BY DEF ChangeRole, Noticed
<1> HIDE DEF may
<1>4. CASE /\ may /\ Noticed(task[k].target)
           /\ task' = [task EXCEPT ![k].at = "clear", ![k].role = rank]
  <2>1. /\ rank \in Roles /\ rank < task[k].new
        /\ task[k].target \notin {Owner, task[k].sender}
        /\ task[k].new = Superadmin => task[k].sender = Owner
    <3>1. MayChange(rank, task[k].sender, task[k].target, StoredRole(task[k].seen), task[k].new)
      BY <1>4 DEF may
    <3> QED BY <1>1, <3>1, WhoMayChange
  <2>2. /\ GoesOn(k, "clear") /\ task'[k].role = rank
        /\ task'[k].sender = task[k].sender /\ task'[k].target = task[k].target
        /\ task'[k].new = task[k].new
    <3>1. rank \in Roles \union {None} /\ "clear" \in Places
      BY <2>1, PlacesAre
    <3>2. task' = [task EXCEPT ![k].at = "clear", ![k].role = rank]
      BY <1>4
    <3> QED BY ONLY <1>1, <3>1, <3>2, RoleHeld, Assumptions, TypeOK, k \in Tasks
  <2>3. Entitled(task[k])'
    BY <2>1, <2>2 DEF Entitled
  <2>4. RolesStep(k)
    BY <1>4, <2>3 DEF RolesStep
  <2>5. TaskStep(k)
    BY <1>1, <2>2, PlacesAre DEF TaskStep, Rest
  <2> QED BY <2>4, <2>5
<1>5. CASE may /\ Goto(k, "answer") /\ StoreRole(k, rank)
  <2>1. /\ rank \in Roles /\ rank < task[k].new
        /\ task[k].target # task[k].sender
        /\ task[k].new = Superadmin => task[k].sender = Owner
    BY <1>1, <1>5, WhoMayChange DEF may
  <2>2. UNCHANGED <<row, maker>> \/ Granted(task[k], rank)
    BY <1>5, <2>1, StoreRoleStep
  <2> QED BY <1>1, <1>2, <1>5, <2>1, <2>2, Onwards DEF RolesStep
<1>6. CASE Goto(k, "answer") /\ UNCHANGED <<row, maker>>
  BY <1>1, <1>2, <1>6, Onwards DEF RolesStep
<1> QED BY <1>3, <1>4, <1>5, <1>6

LEMMA CheckActorStep ==
    ASSUME Assumptions, TypeOK, NEW k \in Tasks, CheckActor(k)
    PROVE  TaskStep(k) /\ RolesStep(k)
<1>1. At(k, "actor") /\ Rest /\ UNCHANGED replies
  BY DEF CheckActor
<1>2. task[k] # None /\ Unanswered(k)
  BY <1>1, AtFacts, PlacesAre
<1>3. PICK rank : rank = RoleOf(task[k].sender, FALSE)
  OBVIOUS
<1>4. CASE ChangeRole(k, rank)
  BY <1>1, <1>3, <1>4, ChangeRoleStep
<1>5. ASSUME NEW place \in {"delete", "answer"}, Goto(k, place), UNCHANGED <<row, maker>>
      PROVE  TaskStep(k) /\ RolesStep(k)
  <2>1. place \in Places \ {"audit", "clear"}
    BY <1>5, PlacesAre
  <2>2. TaskStep(k) /\ ~At(k, "clear")'
    BY <1>1, <1>2, <1>5, <2>1, Onwards
  <2> QED BY <1>5, <2>2 DEF RolesStep
<1> QED BY <1>3, <1>4, <1>5 DEF CheckActor

LEMMA ClearedStep ==
    ASSUME Assumptions, TypeOK, AuthorityInv, NEW k \in Tasks, Cleared(k)
    PROVE  TaskStep(k) /\ RolesStep(k)
<1>1. At(k, "clear") /\ Goto(k, "answer") /\ Rest /\ UNCHANGED replies
  BY DEF Cleared
<1>2. task[k] # None /\ Unanswered(k)
  BY <1>1, AtFacts, PlacesAre
<1>3. TaskStep(k) /\ ~At(k, "clear")'
  BY <1>1, <1>2, Onwards, PlacesAre
<1>4. Entitled(task[k])
  BY <1>1 DEF AuthorityInv
<1>5. UNCHANGED <<row, maker>> \/ Granted(task[k], task[k].role)
  BY <1>4, StoreRoleStep DEF Cleared, Entitled
<1> QED BY <1>3, <1>4, <1>5 DEF RolesStep, Entitled

LEMMA DeletedStep ==
    ASSUME Assumptions, TypeOK, NEW k \in Tasks, Deleted(k)
    PROVE  TaskStep(k) /\ RolesStep(k)
<1>1. At(k, "delete") /\ Goto(k, "answer") /\ Rest /\ UNCHANGED replies
  BY DEF Deleted
<1>2. task[k] # None /\ Unanswered(k)
  BY <1>1, AtFacts, PlacesAre
<1>3. TaskStep(k) /\ ~At(k, "clear")'
  BY <1>1, <1>2, Onwards, PlacesAre
<1> QED BY <1>3 DEF RolesStep, Removed, Deleted

LEMMA LastSteps ==
    ASSUME Assumptions, TypeOK, NEW k \in Tasks, Answer(k) \/ Interrupt(k) \/ Audited(k)
    PROVE  TaskStep(k) /\ RolesStep(k)
<1>1. task[k] # None /\ Rest /\ UNCHANGED <<row, maker>>
  BY DEF Answer, Interrupt, Audited, At
<1>2. CASE Answer(k) \/ Interrupt(k)
  <2>1. Goto(k, "audit") /\ (Reply(task[k]) \/ HandlerReply(task[k])) /\ task[k].at # "audit"
    BY <1>2 DEF Answer, Interrupt, At
  <2>2. GoesOn(k, "audit") /\ Answered(k) /\ Unanswered(k)
    BY <1>1, <2>1, GotoMoves, Replying, PlacesAre DEF Unanswered
  <2> QED BY <1>1, <2>2, NotCleared DEF TaskStep, RolesStep, Rest
<1>3. CASE Audited(k)
  <2>1. IsOver(k) /\ UNCHANGED replies
    BY <1>3, OverWhenEnded DEF Audited
  <2> QED BY <1>1, <2>1, OverNotCleared DEF TaskStep, RolesStep, Rest
<1> QED BY <1>2, <1>3

-----------------------------------------------------------------------------
(* What the steps preserve.                                                 *)

Handles(k) ==
    \/ Prepared(k) \/ RoleKnown(k) \/ Limited(k) \/ ReadTarget(k) \/ CheckActor(k)
    \/ Cleared(k) \/ Deleted(k) \/ Answer(k) \/ Interrupt(k) \/ Audited(k)

LEMMA HandlesStep ==
    ASSUME Assumptions, TypeOK, AuthorityInv, NEW k \in Tasks, Handles(k)
    PROVE  TaskStep(k) /\ RolesStep(k)
  BY PreparedStep, RoleKnownStep, LimitedStep, ReadTargetStep, CheckActorStep, ClearedStep,
     DeletedStep, LastSteps DEF Handles

LEMMA StepTypes ==
    ASSUME Assumptions, TypeOK, NEW k \in Tasks, TaskStep(k), RolesStep(k)
    PROVE  TypeOK'
<1>1. task' \in [Tasks -> Handling \union {None}]
  BY DEF TaskStep, GoesOn, IsOver
<1>2. /\ task[k] # None /\ task[k].target \in Senders /\ task[k].new \in Roles
      /\ task[k].sender \in Senders
      /\ task[k].no \in 1 .. MaxMessages /\ task[k].direct \in BOOLEAN /\ task[k].enc \in BOOLEAN
  BY HandlingTypes, RolesAreNumbers DEF TaskStep
<1>3. /\ row' \in [Senders -> Roles \union {None}]
      /\ maker' \in [Senders -> Makers \union {None}]
  <2>1. CASE UNCHANGED <<row, maker>>
    BY <2>1 DEF TypeOK
  <2>2. CASE Noticed(task[k].target)
    BY <1>2, <2>2, RolesAreNumbers DEF TypeOK, Noticed
  <2>3. CASE Removed(task[k].target)
    BY <1>2, <2>3 DEF TypeOK, Removed
  <2>4. ASSUME NEW rank \in Roles, Granted(task[k], rank)
        PROVE  /\ row' \in [Senders -> Roles \union {None}]
               /\ maker' \in [Senders -> Makers \union {None}]
    <3>1. [by |-> task[k].sender, rank |-> rank] \in Makers
      BY <1>2 DEF Makers
    <3> QED BY <1>2, <2>4, <3>1 DEF TypeOK, Granted
  <2> QED BY <2>1, <2>2, <2>3, <2>4 DEF RolesStep
<1>4. replies' \subseteq Answers
  <2>1. CASE UNCHANGED replies
    BY <2>1 DEF TypeOK
  <2>2. CASE Answered(k)
    BY <1>2, <2>2, AnswerTypes
  <2> QED BY <2>1, <2>2 DEF TaskStep
<1> QED BY <1>1, <1>3, <1>4 DEF TypeOK, TaskStep

LEMMA StepAuthority ==
    ASSUME Assumptions, TypeOK, AuthorityInv, NEW k \in Tasks, TaskStep(k), RolesStep(k)
    PROVE  AuthorityInv'
<1>1. \A j \in Tasks : At(j, "clear")' => Entitled(task[j])'
  <2> SUFFICES ASSUME NEW j \in Tasks, At(j, "clear")' PROVE Entitled(task[j])'
    OBVIOUS
  <2>1. CASE j = k
    BY <2>1 DEF RolesStep
  <2>2. CASE j # k
    <3>1. task'[j] = task[j]
      BY <2>2 DEF TaskStep, GoesOn, IsOver
    <3> QED BY <3>1 DEF At, AuthorityInv, Entitled
  <2> QED BY <2>1, <2>2
<1>2. /\ task[k].target \in Senders /\ task[k].sender \in Senders
      /\ task[k].new \in Nat /\ task[k].new \in Roles
  BY HandlingTypes, RolesAreNumbers DEF TaskStep
<1>3. AuthorityIsTraced'
  <2>1. CASE UNCHANGED <<row, maker>>
    BY <2>1 DEF AuthorityInv, AuthorityIsTraced
  <2>2. CASE Noticed(task[k].target)
    BY <1>2, <2>2 DEF AuthorityInv, AuthorityIsTraced, Noticed, TypeOK, User, Superadmin
  <2>3. CASE Removed(task[k].target)
    BY <1>2, <2>3 DEF AuthorityInv, AuthorityIsTraced, Removed, TypeOK
  <2>4. ASSUME NEW rank \in Roles, Granted(task[k], rank)
        PROVE  AuthorityIsTraced'
    <3> DEFINE t == task[k].target
               m == [by |-> task[k].sender, rank |-> rank]
    <3>1. m \in Makers /\ m.by = task[k].sender /\ m.rank = rank
      BY <1>2 DEF Makers
    <3>2. /\ row'[t] = task[k].new /\ maker'[t] = m
          /\ \A s \in Senders \ {t} : row'[s] = row[s] /\ maker'[s] = maker[s]
      BY <1>2, <2>4 DEF Granted, TypeOK
    <3>3. m # None
      BY <3>1 DEF Assumptions, NoneAssumption
    <3>4. /\ rank < task[k].new /\ t # task[k].sender
          /\ task[k].new = Superadmin => task[k].sender = Owner
      BY <2>4 DEF Granted
    <3> HIDE DEF t, m
    <3> SUFFICES ASSUME NEW s \in Senders, row'[s] # None, row'[s] < User
                 PROVE  /\ maker'[s] # None /\ maker'[s].by # s /\ maker'[s].rank < row'[s]
                        /\ row'[s] = Superadmin => maker'[s].by = Owner
      BY DEF AuthorityIsTraced
    <3>5. CASE s = t
      BY <3>1, <3>2, <3>3, <3>4, <3>5
    <3>6. CASE s # t
      BY <3>2, <3>6 DEF AuthorityInv, AuthorityIsTraced
    <3> QED BY <3>5, <3>6
  <2> QED BY <2>1, <2>2, <2>3, <2>4 DEF RolesStep
<1> QED BY <1>1, <1>3 DEF AuthorityInv

(* An answer has the number of its task, which has not answered before.     *)
LEMMA AnsweredOnce ==
    ASSUME Assumptions, TypeOK, RepliesInv, NEW k \in Tasks, Unanswered(k), Answered(k),
           UNCHANGED <<drain, sent, early, messages>>
    PROVE  /\ RepliesAreSettled'
           /\ \A r \in replies' : r.no <= messages /\ (r.enc => r.mode = TRUE)
           /\ \A r \in replies' : r \in replies \/ r.no = task[k].no
<1> DEFINE a == [no |-> task[k].no, direct |-> task[k].direct, enc |-> task[k].enc,
                 mode |-> ScheduledMode(task[k].enc)]
<1>1. /\ a.no = task[k].no /\ a.enc = task[k].enc
      /\ a.enc => a.mode = TRUE
  <2>1. task[k].enc \in BOOLEAN
    BY HandlingTypes DEF Unanswered
  <2> QED BY <2>1 DEF ScheduledMode
<1>2. replies' = replies \union {a}
  BY DEF Answered
<1> HIDE DEF a
<1>3. task[k].no <= messages /\ task[k].no \notin early
  BY DEF RepliesInv, NumbersAreTasks, Unanswered
<1>4. /\ \A r \in replies' : r.no <= messages /\ (r.enc => r.mode = TRUE)
      /\ \A r \in replies' : r \in replies \/ r.no = task[k].no
  BY <1>1, <1>2, <1>3 DEF RepliesInv, NumbersAreTasks
<1>5. RepliesKeepSecrets'
  BY DEF RepliesInv, RepliesAreSettled, RepliesKeepSecrets
<1>6. DrainIsComplete'
  BY <1>3, <1>4 DEF RepliesInv, RepliesAreSettled, DrainIsComplete
<1> QED BY <1>4, <1>5, <1>6 DEF RepliesAreSettled

LEMMA StepReplies ==
    ASSUME Assumptions, TypeOK, RepliesInv, NEW k \in Tasks, TaskStep(k)
    PROVE  RepliesInv'
<1>1. /\ task[k] # None /\ UNCHANGED <<drain, sent, early, messages>>
      /\ \A j \in Tasks \ {k} : task'[j] = task[j]
  BY DEF TaskStep, GoesOn, IsOver
<1>2. task'[k] # None => task'[k].no = task[k].no
  BY DEF TaskStep, GoesOn, IsOver
<1>3. Unanswered(k)' => Unanswered(k) /\ UNCHANGED replies
  BY DEF TaskStep, GoesOn, IsOver, Unanswered
<1>4. /\ \A j \in Tasks : task'[j] # None => task[j] # None /\ task'[j].no = task[j].no
      /\ \A j \in Tasks : Unanswered(j)' => Unanswered(j)
  BY <1>1, <1>2, <1>3 DEF Unanswered
<1>5. /\ RepliesAreSettled'
      /\ \A r \in replies' : r.no <= messages /\ (r.enc => r.mode = TRUE)
      /\ \A r \in replies' : r \in replies \/ (Unanswered(k) /\ r.no = task[k].no)
  <2>1. CASE UNCHANGED replies
    BY <1>1, <2>1 DEF RepliesInv, RepliesAreSettled, RepliesKeepSecrets, DrainIsComplete,
       NumbersAreTasks
  <2>2. CASE Unanswered(k) /\ Answered(k)
    BY <1>1, <2>2, AnsweredOnce
  <2> QED BY <2>1, <2>2 DEF TaskStep
<1>6. NumbersAreTasks'
  BY <1>1, <1>4, <1>5 DEF RepliesInv, NumbersAreTasks
<1>7. ASSUME NEW j \in Tasks, Unanswered(j)'
      PROVE  task'[j].no \notin early' /\ \A r \in replies' : r.no # task'[j].no
  <2>1. Unanswered(j) /\ task[j] # None /\ task'[j].no = task[j].no
    BY <1>4, <1>7 DEF Unanswered
  <2>2. task[j].no \notin early /\ \A r \in replies : r.no # task[j].no
    BY <2>1 DEF RepliesInv
  <2>3. CASE j = k
    BY <1>1, <1>3, <1>7, <2>1, <2>2, <2>3
  <2>4. CASE j # k
    <3>1. task[j].no # task[k].no
      BY <1>1, <2>1, <2>4 DEF RepliesInv, NumbersAreTasks
    <3> QED BY <1>1, <1>5, <2>1, <2>2, <3>1
  <2> QED BY <2>3, <2>4
<1> QED BY <1>1, <1>5, <1>6, <1>7 DEF RepliesInv

LEMMA ReceiveStep ==
    ASSUME Assumptions, TypeOK, AuthorityInv, RepliesInv,
           NEW k \in Tasks, NEW m \in Messages, Receive(k, m)
    PROVE  TypeOK' /\ AuthorityInv' /\ RepliesInv'
<1>1. /\ TypeOK' /\ task'[k] \in Handling /\ task'[k].no = messages + 1
      /\ task'[k].at = "prepare" /\ \A j \in Tasks \ {k} : task'[j] = task[j]
  BY ReceiveTypes
<1>2. /\ task[k] = None /\ messages' = messages + 1 /\ messages \in Nat
      /\ UNCHANGED <<accepting, row, replies, drain, maker, sent, early>>
  BY DEF Receive, TypeOK
<1>3. AuthorityInv'
  <2>1. AuthorityIsTraced'
    BY <1>2 DEF AuthorityInv, AuthorityIsTraced
  <2>2. \A j \in Tasks : At(j, "clear")' => j # k /\ At(j, "clear")
    BY <1>1 DEF At
  <2>3. \A j \in Tasks : At(j, "clear")' => Entitled(task[j])'
    BY <1>1, <2>2 DEF AuthorityInv, Entitled
  <2> QED BY <2>1, <2>3 DEF AuthorityInv
<1>4. \A n \in early : n \in Nat /\ n <= messages
  BY DEF TypeOK, RepliesInv, NumbersAreTasks, Assumptions, MessagesAssumption
<1>5. \A r \in replies : r.no \in Nat /\ r.no <= messages
  <2>1. \A r \in replies : r.no \in 1 .. MaxMessages
    BY DEF TypeOK, Answers
  <2>2. \A r \in replies : r.no <= messages
    BY DEF RepliesInv, NumbersAreTasks
  <2> QED BY <2>1, <2>2
<1>6. \A j \in Tasks : task[j] # None => task[j].no \in Nat /\ task[j].no <= messages
  BY HandlingTypes DEF RepliesInv, NumbersAreTasks
<1>7. NumbersAreTasks'
  <2>1. \A j \in Tasks : task'[j] # None => task'[j].no <= messages'
    BY <1>1, <1>2, <1>6
  <2>2. ASSUME NEW i \in Tasks, NEW j \in Tasks, i # j, task'[i] # None, task'[j] # None
        PROVE  task'[i].no # task'[j].no
    BY <1>1, <1>2, <1>6, <2>2 DEF RepliesInv, NumbersAreTasks
  <2> QED BY <1>2, <1>4, <1>5, <2>1, <2>2 DEF NumbersAreTasks
<1>8. ASSUME NEW j \in Tasks, Unanswered(j)'
      PROVE  task'[j].no \notin early' /\ \A r \in replies' : r.no # task'[j].no
  <2>1. CASE j = k
    BY <1>1, <1>2, <1>4, <1>5, <2>1
  <2>2. CASE j # k
    BY <1>1, <1>2, <1>8, <2>2 DEF RepliesInv, Unanswered
  <2> QED BY <2>1, <2>2
<1>9. RepliesAreSettled' /\ \A r \in replies' : r.enc => r.mode = TRUE
  BY <1>2 DEF RepliesInv, RepliesAreSettled, RepliesKeepSecrets, DrainIsComplete
<1> QED BY <1>1, <1>3, <1>7, <1>8, <1>9 DEF RepliesInv

(* What happens beside the tasks leaves them alone, sets no role above the  *)
(* default one, and takes replies away.                                     *)
LEMMA BesideTheTasks ==
    ASSUME AuthorityInv, RepliesInv, UNCHANGED <<task, maker, messages>>,
           replies' \subseteq replies, early' \subseteq early \union {r.no : r \in replies},
           \A s \in Senders : row'[s] # None /\ row'[s] < User => row'[s] = row[s],
           RepliesAreSettled'
    PROVE  AuthorityInv' /\ RepliesInv'
<1>1. AuthorityInv'
  BY DEF AuthorityInv, AuthorityIsTraced, At, Entitled
<1>2. \A n \in early' : n <= messages
  BY DEF RepliesInv, NumbersAreTasks
<1>3. NumbersAreTasks'
  BY <1>2 DEF RepliesInv, NumbersAreTasks
<1>4. ASSUME NEW k \in Tasks, Unanswered(k)'
      PROVE  task'[k].no \notin early' /\ \A r \in replies' : r.no # task'[k].no
  <2>1. Unanswered(k)
    BY <1>4 DEF Unanswered
  <2> QED BY <2>1 DEF RepliesInv
<1> QED BY <1>1, <1>3, <1>4 DEF RepliesInv

LEMMA SendReplyStep ==
    ASSUME Assumptions, TypeOK, AuthorityInv, RepliesInv, NEW r \in replies, SendReply(r)
    PROVE  TypeOK' /\ AuthorityInv' /\ RepliesInv'
<1>1. /\ replies' = replies \ {r}
      /\ UNCHANGED <<accepting, row, task, drain, maker, early, messages>>
  BY DEF SendReply
<1>2. /\ r.direct \in BOOLEAN /\ r.enc \in BOOLEAN
      /\ r.enc => r.mode = TRUE
  BY DEF TypeOK, Answers, RepliesInv
<1>3. \/ UNCHANGED sent
      \/ \E way \in {"omemo", "plain"} :
            /\ sent' = sent \union {[direct |-> r.direct, enc |-> r.enc, way |-> way]}
            /\ r.enc /\ ~PlainFallback => way = "omemo"
  <2>1. r.enc => SendMode(r) = TRUE
    BY <1>2 DEF SendMode
  <2> QED BY <2>1 DEF SendReply, Went, FallbackAllowed
<1>4. /\ sent' \subseteq [direct : BOOLEAN, enc : BOOLEAN, way : {"omemo", "plain"}]
      /\ RepliesKeepSecrets'
  <2>1. CASE UNCHANGED sent
    BY <2>1 DEF TypeOK, RepliesInv, RepliesAreSettled, RepliesKeepSecrets
  <2>2. ASSUME NEW way \in {"omemo", "plain"},
               sent' = sent \union {[direct |-> r.direct, enc |-> r.enc, way |-> way]},
               r.enc /\ ~PlainFallback => way = "omemo"
        PROVE  /\ sent' \subseteq [direct : BOOLEAN, enc : BOOLEAN, way : {"omemo", "plain"}]
               /\ RepliesKeepSecrets'
    <3> DEFINE s == [direct |-> r.direct, enc |-> r.enc, way |-> way]
    <3>1. /\ s \in [direct : BOOLEAN, enc : BOOLEAN, way : {"omemo", "plain"}]
          /\ s.enc /\ ~PlainFallback => s.way = "omemo"
      BY <1>2, <2>2
    <3>2. sent' = sent \union {s}
      BY <2>2
    <3> HIDE DEF s
    <3> QED BY <3>1, <3>2 DEF TypeOK, RepliesInv, RepliesAreSettled, RepliesKeepSecrets
  <2> QED BY <1>3, <2>1, <2>2
<1>5. TypeOK'
  BY <1>1, <1>4 DEF TypeOK
<1>6. RepliesAreSettled'
  BY <1>1, <1>4 DEF RepliesInv, RepliesAreSettled, DrainIsComplete
<1> QED BY <1>1, <1>5, <1>6, BesideTheTasks

LEMMA OutsideStep ==
    ASSUME Assumptions, TypeOK, AuthorityInv, RepliesInv,
           (\E s \in Senders : Seen(s)) \/ Shutdown \/ DrainEnds \/ UNCHANGED vars
    PROVE  TypeOK' /\ AuthorityInv' /\ RepliesInv'
<1>1. ASSUME NEW s \in Senders, Seen(s)
      PROVE  TypeOK' /\ AuthorityInv' /\ RepliesInv'
  <2>1. /\ row' = [row EXCEPT ![s] = User]
        /\ UNCHANGED <<accepting, drain, sent, early, messages, task, replies, maker>>
    BY <1>1 DEF Seen, Rest
  <2>2. TypeOK'
    BY <2>1, RolesAreNumbers DEF TypeOK
  <2>3. \A q \in Senders : row'[q] # None /\ row'[q] < User => row'[q] = row[q]
    BY <2>1 DEF TypeOK, User
  <2>4. RepliesAreSettled'
    BY <2>1 DEF RepliesInv, RepliesAreSettled, RepliesKeepSecrets, DrainIsComplete
  <2> QED BY <2>1, <2>2, <2>3, <2>4, BesideTheTasks
<1>2. CASE Shutdown
  <2>1. /\ accepting' = FALSE /\ drain' = "waiting" /\ early' = {r.no : r \in replies}
        /\ UNCHANGED <<row, task, replies, maker, sent, messages>>
    BY <1>2 DEF Shutdown
  <2>2. early' \subseteq 1 .. MaxMessages
    BY <2>1 DEF TypeOK, Answers
  <2>3. TypeOK'
    BY <2>1, <2>2 DEF TypeOK
  <2>4. RepliesAreSettled'
    BY <2>1 DEF RepliesInv, RepliesAreSettled, RepliesKeepSecrets, DrainIsComplete
  <2> QED BY <2>1, <2>3, <2>4, BesideTheTasks
<1>3. CASE DrainEnds
  <2>1. /\ drain' = "over" /\ replies' = {}
        /\ UNCHANGED <<accepting, row, task, maker, sent, early, messages>>
    BY <1>3 DEF DrainEnds, Cancelled
  <2>2. TypeOK'
    BY <2>1 DEF TypeOK
  <2>3. RepliesAreSettled'
    BY <2>1 DEF RepliesInv, RepliesAreSettled, RepliesKeepSecrets, DrainIsComplete
  <2> QED BY <2>1, <2>2, <2>3, BesideTheTasks
<1>4. CASE UNCHANGED vars
  <2>1. TypeOK'
    BY <1>4 DEF vars, TypeOK
  <2>2. RepliesAreSettled'
    BY <1>4 DEF vars, RepliesInv, RepliesAreSettled, RepliesKeepSecrets, DrainIsComplete
  <2> QED BY <1>4, <2>1, <2>2, BesideTheTasks DEF vars
<1> QED BY <1>1, <1>2, <1>3, <1>4

-----------------------------------------------------------------------------
(* The theorems.                                                            *)

CommandsInv == TypeOK /\ AuthorityInv /\ RepliesInv

LEMMA InitInv == ASSUME Assumptions, Init PROVE CommandsInv
<1>1. TypeOK
  BY InitTypes
<1>2. AuthorityInv
  <2>1. PICK admins \in SUBSET (Senders \ {Owner}) :
           /\ row = [s \in Senders |-> IF s \in admins THEN Admin ELSE None]
           /\ maker = [s \in Senders |-> IF s \in admins THEN [by |-> Owner, rank |-> OwnerRole]
                                         ELSE None]
    BY DEF Init
  <2>2. [by |-> Owner, rank |-> OwnerRole] \in Makers
    BY DEF Makers, Assumptions, OwnerAssumption, Roles
  <2>3. [by |-> Owner, rank |-> OwnerRole] # None
    BY <2>2 DEF Assumptions, NoneAssumption
  <2>4. AuthorityIsTraced
    BY <2>1, <2>3 DEF AuthorityIsTraced, Admin, OwnerRole, Superadmin, User
  <2> QED BY <2>4 DEF AuthorityInv, At, Init
<1>3. RepliesInv
  BY DEF Init, RepliesInv, RepliesAreSettled, RepliesKeepSecrets, DrainIsComplete,
     NumbersAreTasks, Unanswered
<1> QED BY <1>1, <1>2, <1>3 DEF CommandsInv

LEMMA NextInv == ASSUME Assumptions, CommandsInv, [Next]_vars PROVE CommandsInv'
<1> USE DEF CommandsInv
<1>1. ASSUME NEW k \in Tasks, NEW m \in Messages, Receive(k, m) PROVE CommandsInv'
  BY <1>1, ReceiveStep
<1>2. ASSUME NEW k \in Tasks, Handles(k) PROVE CommandsInv'
  <2>1. TaskStep(k) /\ RolesStep(k)
    BY <1>2, HandlesStep
  <2> QED BY <2>1, StepTypes, StepAuthority, StepReplies
<1>3. ASSUME NEW r \in replies, SendReply(r) PROVE CommandsInv'
  BY <1>3, SendReplyStep
<1>4. CASE (\E s \in Senders : Seen(s)) \/ Shutdown \/ DrainEnds \/ UNCHANGED vars
  BY <1>4, OutsideStep
<1> QED BY <1>1, <1>2, <1>3, <1>4 DEF Next, Handles

(* A role above the default one was given by somebody else who then held a  *)
(* higher one, the superadmin's by the owner (_can_change_role), whatever   *)
(* other commands did while a command awaited the store.                    *)
THEOREM AuthorityIsAlwaysTraced ==
    ASSUME Assumptions PROVE Spec => []AuthorityIsTraced
<1>1. Init => CommandsInv
  BY InitInv
<1>2. CommandsInv /\ [Next]_vars => CommandsInv'
  BY NextInv
<1>3. CommandsInv => AuthorityIsTraced
  BY DEF CommandsInv, AuthorityInv
<1> QED BY <1>1, <1>2, <1>3, PTL DEF Spec

(* No encrypted message is answered in plain text unless the configuration  *)
(* allows it, and no reply that was pending when the drain began outlives   *)
(* it (reply, _drain_reply_tasks).                                          *)
THEOREM RepliesAreAlwaysSettled ==
    ASSUME Assumptions PROVE Spec => []RepliesAreSettled
<1>1. Init => CommandsInv
  BY InitInv
<1>2. CommandsInv /\ [Next]_vars => CommandsInv'
  BY NextInv
<1>3. CommandsInv => RepliesAreSettled
  BY DEF CommandsInv, RepliesInv
<1> QED BY <1>1, <1>2, <1>3, PTL DEF Spec

-----------------------------------------------------------------------------
(* Room membership (Rooms) and the users plugin (Users), which share no     *)
(* state with Commands: each is an instance with the constants and          *)
(* variables declared here, and with those of Commands that have the same   *)
(* name.                                                                     *)

CONSTANTS Rooms, MaxCommands, MaxFaults

VARIABLES
    stored, joined, mirror, leaving, backoff, enabled, pending, cached, server,
    presence, up, prog, join, left, crossed, commands, faults

Muc == INSTANCE Rooms

CONSTANTS Users, Nicks, Roster, MAX_ROOM_NICKS, MaxEvents

VARIABLES
    listed, history, grants, index, shared, occupants, raced, stale, failed, events

People == INSTANCE Users

-----------------------------------------------------------------------------
(* Rooms.                                                                    *)

Here == {"here", "gone"}
Positions == {"no", "sent", "heard", "lookup", "write", "forget"}

(* What one presence more does to a queue, and one less.                    *)
LEMMA OneMore ==
    ASSUME NEW q \in Seq(Here), NEW x \in Here, NEW w, w = q \o <<x>>
    PROVE  w \in Seq(Here) /\ w # <<>> /\ w[Len(w)] = x
<1>1. w \in Seq(Here) /\ Len(w) = Len(q) + 1 /\ w[Len(q) + 1] = x
  OBVIOUS
<1> QED BY <1>1

LEMMA OneLess ==
    ASSUME NEW q \in Seq(Here), q # <<>>, NEW w, w = Tail(q)
    PROVE  /\ w \in Seq(Here) /\ Head(q) \in Here
           /\ w # <<>> => w[Len(w)] = q[Len(q)]
           /\ w = <<>> => Head(q) = q[Len(q)]
<1>1. Len(q) \in Nat /\ Len(q) > 0 /\ q \in [1 .. Len(q) -> Here]
  OBVIOUS
<1>2. w \in Seq(Here) /\ Len(w) = Len(q) - 1 /\ \A i \in 1 .. Len(w) : w[i] = q[i + 1]
  BY <1>1
<1>3. w # <<>> => w[Len(w)] = q[Len(q)]
  BY <1>1, <1>2
<1>4. w = <<>> => Len(q) = 1
  BY <1>1, <1>2
<1> QED BY <1>1, <1>2, <1>3, <1>4

LEMMA PresenceType ==
    ASSUME Muc!TypeOK
    PROVE  presence \in [Rooms -> Seq(Here)] /\ joined \in [Rooms -> {None, "stub", "plain",
        "sure"}]
           /\ join \in [Muc!Joiners -> [Rooms -> Positions]]
  BY DEF Muc!TypeOK, Here, Positions

(* One joiner awaits one room elsewhere, or has something else left to do.  *)
LEMMA OnePlace ==
    ASSUME Muc!TypeOK, NEW r \in Rooms, NEW o \in Muc!Joiners, NEW x \in Positions, Muc!Goes(o, r,
           x)
    PROVE  /\ join' \in [Muc!Joiners -> [Rooms -> Positions]]
           /\ join'[o][r] = x
           /\ \A p \in Muc!Joiners, q \in Rooms : p # o \/ q # r => join'[p][q] = join[p][q]
  BY PresenceType DEF Muc!Goes

LEMMA OneTodo ==
    ASSUME Muc!TypeOK, NEW o \in Muc!Joiners, NEW s \in SUBSET Rooms,
           prog' = [prog EXCEPT ![o].todo = s]
    PROVE  prog' \in [Muc!Joiners -> [kind : Muc!Kinds, todo : SUBSET Rooms]]
<1>1. prog \in [Muc!Joiners -> [kind : Muc!Kinds, todo : SUBSET Rooms]]
  BY DEF Muc!TypeOK
<1> QED BY <1>1

(* The answers of the service, room by room.                                *)
LEMMA JoinIsAnswered ==
    ASSUME Muc!TypeOK, NEW in, NEW out, Muc!Answers(in, out), in \intersect out = {}
    PROVE  /\ presence' \in [Rooms -> Seq(Here)]
           /\ \A r \in Rooms :
                 /\ r \notin in \union out => presence'[r] = presence[r]
                 /\ r \in in => ~Muc!Heard(r)' /\ Muc!LastSent(r)' = "here"
                 /\ r \in out => ~Muc!Heard(r)' /\ Muc!LastSent(r)' = "gone"
<1> SUFFICES ASSUME NEW r \in Rooms
             PROVE  /\ presence'[r] \in Seq(Here)
                    /\ r \notin in \union out => presence'[r] = presence[r]
                    /\ r \in in => presence'[r] # <<>> /\ presence'[r][Len(presence'[r])] = "here"
                    /\ r \in out => presence'[r] # <<>> /\ presence'[r][Len(presence'[r])] = "gone"
  BY DEF Muc!Answers, Muc!Heard, Muc!LastSent
<1>1. PICK q \in Seq(Here) : q = presence[r]
  BY PresenceType
<1>2. q \o <<>> = q
  OBVIOUS
<1>3. presence'[r] = q \o (IF r \in out THEN <<"gone">> ELSE <<>>)
                       \o (IF r \in in THEN <<"here">> ELSE <<>>)
  BY <1>1 DEF Muc!Answers
<1>4. CASE r \notin in \union out
  <2>1. presence'[r] = q
    BY <1>2, <1>3, <1>4
  <2> QED BY <1>1, <1>4, <2>1
<1>5. CASE r \in in
  <2>1. presence'[r] = q \o <<"here">>
    BY <1>2, <1>3, <1>5
  <2>2. "here" \in Here
    BY DEF Here
  <2> QED BY <1>5, <2>1, <2>2, OneMore
<1>6. CASE r \in out
  <2>1. (q \o <<"gone">>) \in Seq(Here) /\ "gone" \in Here
    BY DEF Here
  <2>2. presence'[r] = q \o <<"gone">>
    BY <2>1, <1>3, <1>6
  <2> QED BY <1>6, <2>1, <2>2, OneMore
<1> QED BY <1>4, <1>5, <1>6

(* A room that a step does not concern.                                     *)
Still(r) ==
    /\ joined'[r] = joined[r] /\ (r \in mirror' <=> r \in mirror)
    /\ (r \in leaving' <=> r \in leaving) /\ (r \in left' <=> r \in left)
    /\ (r \in cached' <=> r \in cached) /\ (r \in server' <=> r \in server)
    /\ presence'[r] = presence[r] /\ (\A o \in Muc!Joiners : join'[o][r] = join[o][r])
    /\ (r \in crossed => r \in crossed') /\ up' = up

LEMMA StillHolds ==
    ASSUME NEW r \in Rooms, Muc!RoomInv(r), Still(r)
    PROVE  Muc!RoomInv(r)'
<1>1. /\ Muc!Heard(r)' <=> Muc!Heard(r)
      /\ Muc!Shown(r)' <=> Muc!Shown(r)
      /\ Muc!LastSent(r)' = Muc!LastSent(r)
      /\ Muc!InFlight(r)' <=> Muc!InFlight(r)
      /\ \A o \in Muc!Joiners : Muc!Awake(o, r)' <=> Muc!Awake(o, r)
  BY DEF Still, Muc!Heard, Muc!Shown, Muc!LastSent, Muc!InFlight, Muc!Awake
<1>2. Muc!ServiceInv(r)'
  BY <1>1 DEF Still, Muc!RoomInv, Muc!ServiceInv
<1>3. Muc!HeardInv(r)'
  BY <1>1 DEF Still, Muc!RoomInv, Muc!HeardInv
<1>4. ASSUME up', r \notin crossed' PROVE Muc!UncrossedInv(r)'
  BY <1>1, <1>4 DEF Still, Muc!RoomInv, Muc!UncrossedInv
<1> QED BY <1>2, <1>3, <1>4 DEF Muc!RoomInv

(* The type invariant.  SendJoins, SendLeaves, Leave and NoJoin give the    *)
(* variables they set their types.                                          *)
LEMMA JoinsSent ==
    ASSUME Muc!TypeOK, NEW o \in Muc!Joiners, NEW rs, rs \subseteq Rooms, Muc!SendJoins(o, rs),
           Muc!RoomsAssumption
    PROVE  /\ leaving' \subseteq Rooms /\ cached' \subseteq Rooms /\ left' \subseteq Rooms
           /\ crossed' \subseteq Rooms /\ server' \subseteq Rooms /\ faults' \in 0 .. MaxFaults
           /\ presence' \in [Rooms -> Seq(Here)] /\ join' \in [Muc!Joiners -> [Rooms -> Positions]]
<1>1. PICK in \in SUBSET rs :
        /\ in # rs => Muc!Refusals
        /\ leaving' = leaving \ rs /\ cached' = cached \union rs /\ left' = left \ rs
        /\ crossed' = {r \in crossed : Muc!Overlap(o, r)
                          \/ (r \notin in /\ (r \in rs => joined[r] = "sure"))}
        /\ server' = server \union in /\ Muc!Answers(in, {})
        /\ faults' = IF up /\ in # rs THEN faults + 1 ELSE faults
        /\ join' = [join EXCEPT ![o] = [r \in Rooms |->
                        IF r \notin rs THEN @[r]
                        ELSE IF joined[r] = "sure" THEN "heard" ELSE "sent"]]
  BY DEF Muc!SendJoins
<1>2. presence' \in [Rooms -> Seq(Here)]
  <2>1. in \intersect {} = {}
    OBVIOUS
  <2> QED BY <1>1, <2>1, JoinIsAnswered
<1>3. join' \in [Muc!Joiners -> [Rooms -> Positions]]
  <2>1. join \in [Muc!Joiners -> [Rooms -> Positions]]
    BY PresenceType
  <2> QED BY <1>1, <2>1 DEF Positions
<1>4. faults' \in 0 .. MaxFaults
  BY <1>1 DEF Muc!TypeOK, Muc!Refusals, Muc!RoomsAssumption
<1> QED BY <1>1, <1>2, <1>3, <1>4 DEF Muc!TypeOK

LEMMA LeavesSent ==
    ASSUME Muc!TypeOK, NEW rs, Muc!SendLeaves(rs)
    PROVE  /\ presence' \in [Rooms -> Seq(Here)]
           /\ cached' \subseteq Rooms /\ server' \subseteq Rooms
<1>1. Muc!Answers({}, rs \intersect server) /\ {} \intersect (rs \intersect server) = {}
  BY DEF Muc!SendLeaves
<1> QED BY <1>1, JoinIsAnswered DEF Muc!SendLeaves, Muc!TypeOK

LEMMA LeftTypes ==
    ASSUME Muc!TypeOK, NEW rs, rs \subseteq Rooms, Muc!Leave(rs)
    PROVE  /\ presence' \in [Rooms -> Seq(Here)]
           /\ cached' \subseteq Rooms /\ server' \subseteq Rooms /\ leaving' \subseteq Rooms
           /\ left' \subseteq Rooms /\ crossed' \subseteq Rooms /\ mirror' \subseteq Rooms
           /\ joined' \in [Rooms -> {None, "stub", "plain", "sure"}]
<1>1. Muc!SendLeaves({r \in rs : joined[r] # None \/ r \in mirror})
  BY DEF Muc!Leave
<1> QED BY <1>1, LeavesSent DEF Muc!Leave, Muc!TypeOK, Muc!Marked

LEMMA RoomSteps ==
    ASSUME Muc!RoomsAssumption, Muc!TypeOK, NEW r \in Rooms, NEW o \in Muc!Joiners,
           \/ Muc!JoinFails(o, r) \/ Muc!Resumes(o, r) \/ Muc!Examine(o, r)
           \/ Muc!JoinLookup(r) \/ Muc!JoinWrite(r) \/ Muc!AcceptWrite(r)
           \/ Muc!AcceptForgets(r)
           \/ Muc!DeleteLeaves(r) \/ Muc!LoadJoins(r)
    PROVE  Muc!TypeOK'
<1> USE PresenceType
<1>1. CASE Muc!JoinFails(o, r)
  <2>1. faults' \in 0 .. MaxFaults
    BY <1>1 DEF Muc!JoinFails, Muc!MayFail, Muc!TypeOK, Muc!RoomsAssumption
  <2>2. Muc!SendLeaves({r}) /\ join' \in [Muc!Joiners -> [Rooms -> Positions]]
    BY <1>1 DEF Muc!JoinFails, Muc!Finish, Positions
  <2>3. /\ presence' \in [Rooms -> Seq(Here)]
        /\ cached' \subseteq Rooms /\ server' \subseteq Rooms
    BY <2>2, LeavesSent
  <2>4. /\ joined' = [joined EXCEPT ![r] = None] /\ mirror' = mirror \ {r}
        /\ backoff' \in {backoff, backoff \union {r}}
        /\ UNCHANGED <<stored, leaving, enabled, pending, up, prog, left, crossed, commands>>
    BY <1>1 DEF Muc!JoinFails
  <2> QED BY <2>1, <2>2, <2>3, <2>4 DEF Muc!TypeOK, Here, Positions
<1>2. CASE Muc!Resumes(o, r)
  <2>1. join' \in [Muc!Joiners -> [Rooms -> Positions]]
    <3>1. PICK x \in Positions : Muc!Goes(o, r, x)
      BY <1>2 DEF Muc!Resumes, Muc!Finish, Muc!Goes, Positions
    <3> QED BY <3>1, OnePlace
  <2>2. /\ joined' \in [Rooms -> {None, "stub", "plain", "sure"}]
        /\ mirror' \subseteq Rooms /\ backoff' \subseteq Rooms
    BY <1>2 DEF Muc!Resumes, Muc!TypeOK
  <2> QED BY <1>2, <2>1, <2>2 DEF Muc!Resumes, Muc!TypeOK, Muc!Table, Here, Positions
<1>3. CASE Muc!Examine(o, r)
  <2>1. prog' \in [Muc!Joiners -> [kind : Muc!Kinds, todo : SUBSET Rooms]]
    <3>1. PICK s \in SUBSET Rooms : prog' = [prog EXCEPT ![o].todo = s]
      <4>1. prog[o].todo \ {r} \in SUBSET Rooms
        BY DEF Muc!TypeOK
      <4> QED BY <1>3, <4>1 DEF Muc!Examine
    <3> QED BY <3>1, OneTodo
  <2>2. /\ joined' \in [Rooms -> {None, "stub", "plain", "sure"}]
        /\ mirror' \subseteq Rooms /\ backoff' \subseteq Rooms
    BY <1>3 DEF Muc!Examine, Muc!TypeOK
  <2>3. UNCHANGED <<Muc!Table, up, commands>>
    BY <1>3 DEF Muc!Examine
  <2>4. CASE Muc!NoJoin
    BY <2>1, <2>2, <2>3, <2>4 DEF Muc!NoJoin, Muc!TypeOK, Muc!Table, Here, Positions
  <2>5. CASE ~Muc!NoJoin
    <3>1. PICK in \in SUBSET {r} :
             /\ in = {} => Muc!Refusals
             /\ leaving' = leaving \ {r} /\ cached' = cached \union {r}
             /\ left' = left /\ crossed' = IF Muc!Overlap(o, r) THEN crossed ELSE crossed \ {r}
             /\ server' = server \union in /\ Muc!Answers(in, {})
             /\ faults' = IF up /\ in = {} THEN faults + 1 ELSE faults
             /\ Muc!Goes(o, r, "sent")
      BY <1>3, <2>5 DEF Muc!Examine
    <3>2. in \intersect {} = {}
      OBVIOUS
    <3>3. presence' \in [Rooms -> Seq(Here)]
      BY <3>1, <3>2, JoinIsAnswered
    <3>4. join' \in [Muc!Joiners -> [Rooms -> Positions]]
      BY <3>1 DEF Muc!Goes, Positions
    <3>5. faults' \in 0 .. MaxFaults
      BY <3>1 DEF Muc!TypeOK, Muc!Refusals, Muc!RoomsAssumption
    <3>6. /\ leaving' \subseteq Rooms /\ cached' \subseteq Rooms /\ left' \subseteq Rooms
          /\ crossed' \subseteq Rooms /\ server' \subseteq Rooms
      BY <3>1 DEF Muc!TypeOK
    <3> QED BY <2>1, <2>2, <2>3, <3>3, <3>4, <3>5, <3>6
            DEF Muc!TypeOK, Muc!Table, Here, Positions
  <2> QED BY <2>4, <2>5
<1>4. CASE Muc!JoinLookup(r)
  <2>1. join' \in [Muc!Joiners -> [Rooms -> Positions]] /\ "command" \in Muc!Joiners
    BY <1>4 DEF Muc!JoinLookup, Muc!Goes, Positions, Muc!Joiners
  <2> QED BY <1>4, <2>1 DEF Muc!JoinLookup, Muc!TypeOK, Muc!Table, Here, Positions
<1>5. CASE Muc!JoinWrite(r)
  <2>1. join' \in [Muc!Joiners -> [Rooms -> Positions]] /\ "command" \in Muc!Joiners
    BY <1>5 DEF Muc!JoinWrite, Muc!Finish, Positions, Muc!Joiners
  <2> QED BY <1>5, <2>1 DEF Muc!JoinWrite, Muc!TypeOK, Muc!Mirrors, Here, Positions
<1>6. CASE Muc!AcceptWrite(r)
  <2>1. join' \in [Muc!Joiners -> [Rooms -> Positions]] /\ "command" \in Muc!Joiners
    BY <1>6 DEF Muc!AcceptWrite, Muc!Goes, Positions, Muc!Joiners
  <2> QED BY <1>6, <2>1 DEF Muc!AcceptWrite, Muc!TypeOK, Here, Positions
<1>7. CASE Muc!AcceptForgets(r)
  <2>1. join' \in [Muc!Joiners -> [Rooms -> Positions]] /\ "command" \in Muc!Joiners
    BY <1>7 DEF Muc!AcceptForgets, Muc!Finish, Positions, Muc!Joiners
  <2> QED BY <1>7, <2>1 DEF Muc!AcceptForgets, Muc!TypeOK, Muc!Mirrors, Here, Positions
<1>8. CASE Muc!DeleteLeaves(r)
  <2>1. prog' \in [Muc!Joiners -> [kind : Muc!Kinds, todo : SUBSET Rooms]]
    <3>1. prog' = [prog EXCEPT !["command"].todo = {}] /\ "command" \in Muc!Joiners
      BY <1>8 DEF Muc!DeleteLeaves, Muc!Joiners
    <3>2. PICK s \in SUBSET Rooms : s = {}
      OBVIOUS
    <3> QED BY <3>1, <3>2, OneTodo
  <2> QED BY <1>8, <2>1, LeftTypes DEF Muc!DeleteLeaves, Muc!TypeOK, Muc!Table, Here, Positions
<1>9. CASE Muc!LoadJoins(r)
  <2>1. prog' \in [Muc!Joiners -> [kind : Muc!Kinds,
      todo : SUBSET Rooms]] /\ "command" \in Muc!Joiners
    <3>1. PICK s \in SUBSET Rooms : prog' = [prog EXCEPT !["command"].todo = s]
      <4>1. prog["command"].todo \ {r} \in SUBSET Rooms
        BY DEF Muc!TypeOK, Muc!Joiners
      <4> QED BY <1>9, <4>1 DEF Muc!LoadJoins
    <3>2. "command" \in Muc!Joiners
      BY DEF Muc!Joiners
    <3> QED BY <3>1, <3>2, OneTodo
  <2>2. Muc!SendJoins("command", {r}) /\ {r} \subseteq Rooms
    BY <1>9 DEF Muc!LoadJoins
  <2>3. /\ leaving' \subseteq Rooms /\ cached' \subseteq Rooms /\ left' \subseteq Rooms
        /\ crossed' \subseteq Rooms /\ server' \subseteq Rooms /\ faults' \in 0 .. MaxFaults
        /\ presence' \in [Rooms -> Seq(Here)] /\ join' \in [Muc!Joiners -> [Rooms -> Positions]]
    BY <2>1, <2>2, JoinsSent
  <2> QED BY <1>9, <2>1, <2>3
       DEF Muc!LoadJoins, Muc!TypeOK, Muc!Table, Muc!Mirrors, Here, Positions
<1> QED BY <1>1, <1>2, <1>3, <1>4, <1>5, <1>6, <1>7, <1>8, <1>9

LEMMA OtherSteps ==
    ASSUME Muc!RoomsAssumption, Muc!TypeOK, NEW r \in Rooms, NEW a \in BOOLEAN,
           \/ Muc!Presence(r) \/ Muc!Kick(r) \/ Muc!Invited(r) \/ Muc!BackoffPasses(r)
           \/ Muc!LeaveRoom(r) \/ Muc!DeleteRoom(r) \/ Muc!JoinRoom(r) \/ Muc!AcceptInvite(r)
           \/ Muc!DeclineInvite(r) \/ Muc!AddRoom(r, a) \/ Muc!UpdateRoom(r, a)
    PROVE  Muc!TypeOK'
<1> USE PresenceType
<1>0. "command" \in Muc!Joiners /\ {r} \subseteq Rooms
  BY DEF Muc!Joiners
<1>c. Muc!Command => commands' \in 0 .. MaxCommands
  BY DEF Muc!Command, Muc!TypeOK, Muc!RoomsAssumption
<1>p. ASSUME NEW kind \in Muc!Kinds, NEW todo \in SUBSET Rooms, Muc!Runs(kind, todo)
      PROVE  prog' \in [Muc!Joiners -> [kind : Muc!Kinds, todo : SUBSET Rooms]]
  BY <1>p DEF Muc!Runs, Muc!TypeOK
<1>j. ASSUME Muc!SendJoins("command", {r})
      PROVE  /\ leaving' \subseteq Rooms /\ cached' \subseteq Rooms /\ left' \subseteq Rooms
             /\ crossed' \subseteq Rooms /\ server' \subseteq Rooms /\ faults' \in 0 .. MaxFaults
             /\ presence' \in [Rooms -> Seq(Here)] /\ join' \in [Muc!Joiners -> [Rooms -> Positions]]
  BY <1>0, <1>j, JoinsSent
<1>1. CASE Muc!Presence(r)
  <2>1. PICK q \in Seq(Here) : q = presence[r] /\ q # <<>>
    BY <1>1 DEF Muc!Presence
  <2>2. Tail(q) \in Seq(Here)
    BY <2>1, OneLess
  <2>3. presence' \in [Rooms -> Seq(Here)]
    BY <1>1, <2>1, <2>2 DEF Muc!Presence
  <2>4. join' \in [Muc!Joiners -> [Rooms -> Positions]]
    <3>1. \/ join' = join
          \/ join' = [o \in Muc!Joiners |->
                          [join[o] EXCEPT ![r] = IF @ = "sent" THEN "heard" ELSE @]]
      BY <1>1 DEF Muc!Presence
    <3>2. join \in [Muc!Joiners -> [Rooms -> Positions]]
      OBVIOUS
    <3>3. "heard" \in Positions
      BY DEF Positions
    <3> QED BY ONLY <3>1, <3>2, <3>3
  <2>5. joined' \in [Rooms -> {None, "stub", "plain", "sure"}] /\ mirror' \subseteq Rooms
    BY <1>1 DEF Muc!Presence, Muc!TypeOK
  <2>6. crossed' \subseteq Rooms
    BY <1>1 DEF Muc!Presence, Muc!TypeOK
  <2> QED BY <1>1, <2>3, <2>4, <2>5, <2>6 DEF Muc!Presence, Muc!TypeOK, Here, Positions
<1>2. CASE Muc!Kick(r)
  <2>1. Muc!Answers({}, {r}) /\ {} \intersect {r} = {}
    BY <1>2 DEF Muc!Kick
  <2>2. presence' \in [Rooms -> Seq(Here)]
    BY <2>1, JoinIsAnswered
  <2>3. faults' \in 0 .. MaxFaults
    BY <1>2 DEF Muc!Kick, Muc!TypeOK, Muc!RoomsAssumption
  <2> QED BY <1>2, <2>2, <2>3 DEF Muc!Kick, Muc!TypeOK, Here, Positions
<1>3. CASE Muc!Invited(r)
  <2>3. faults' \in 0 .. MaxFaults
    BY <1>3 DEF Muc!Invited, Muc!TypeOK, Muc!RoomsAssumption
  <2> QED BY <1>3, <2>3 DEF Muc!Invited, Muc!TypeOK, Here, Positions, Muc!Mirrors
<1>4. CASE Muc!BackoffPasses(r)
  BY <1>4 DEF Muc!BackoffPasses, Muc!TypeOK, Here, Positions, Muc!Mirrors, Muc!Table
<1>5. CASE Muc!LeaveRoom(r)
  <2>1. Muc!Leave({r}) /\ Muc!Command
    BY <1>5 DEF Muc!LeaveRoom
  <2> QED BY <1>0, <1>5, <1>c, <2>1, LeftTypes
       DEF Muc!LeaveRoom, Muc!TypeOK, Here, Positions, Muc!Table
<1>6. CASE Muc!DeleteRoom(r)
  <2>1. Muc!Command /\ prog' \in [Muc!Joiners -> [kind : Muc!Kinds, todo : SUBSET Rooms]]
    BY <1>6, <1>p DEF Muc!DeleteRoom, Muc!Kinds
  <2> QED BY <1>6, <1>c, <2>1
       DEF Muc!DeleteRoom, Muc!NoJoin, Muc!TypeOK, Here, Positions, Muc!Mirrors
<1>7. CASE Muc!JoinRoom(r)
  <2>1. Muc!Command /\ prog' \in [Muc!Joiners -> [kind : Muc!Kinds, todo : SUBSET Rooms]]
        /\ Muc!SendJoins("command", {r})
    BY <1>7, <1>p DEF Muc!JoinRoom, Muc!Kinds
  <2> QED BY <1>7, <1>c, <1>j, <2>1
       DEF Muc!JoinRoom, Muc!TypeOK, Here, Positions, Muc!Mirrors, Muc!Table
<1>8. CASE Muc!AcceptInvite(r)
  <2>1. Muc!Command /\ prog' \in [Muc!Joiners -> [kind : Muc!Kinds, todo : SUBSET Rooms]]
        /\ Muc!SendJoins("command", {r})
    BY <1>8, <1>p DEF Muc!AcceptInvite, Muc!Kinds
  <2> QED BY <1>8, <1>c, <1>j, <2>1
       DEF Muc!AcceptInvite, Muc!TypeOK, Here, Positions, Muc!Mirrors, Muc!Table
<1>9. CASE Muc!DeclineInvite(r)
  BY <1>9, <1>c DEF Muc!DeclineInvite, Muc!NoJoin, Muc!TypeOK, Here, Positions, Muc!Mirrors
<1>10. CASE Muc!AddRoom(r, a)
  BY <1>10, <1>c DEF Muc!AddRoom, Muc!NoJoin, Muc!TypeOK, Here, Positions, Muc!Mirrors
<1>11. CASE Muc!UpdateRoom(r, a)
  BY <1>11, <1>c DEF Muc!UpdateRoom, Muc!NoJoin, Muc!TypeOK, Here, Positions, Muc!Mirrors
<1> QED BY <1>1, <1>2, <1>3, <1>4, <1>5, <1>6, <1>7, <1>8, <1>9, <1>10, <1>11

LEMMA WholeSteps ==
    ASSUME Muc!RoomsAssumption, Muc!TypeOK, NEW o \in Muc!Joiners,
           \/ Muc!Listed(o) \/ Muc!Done(o)
           \/ Muc!SyncLeaves \/ Muc!SyncJoins \/ Muc!Unload \/ Muc!CheckStarts
           \/ Muc!SessionEnds \/ Muc!SessionReady
    PROVE  Muc!TypeOK'
<1> USE PresenceType
<1>0. "command" \in Muc!Joiners /\ "check" \in Muc!Joiners /\ "session" \in Muc!Joiners
  BY DEF Muc!Joiners
<1>c. Muc!Command => commands' \in 0 .. MaxCommands
  BY DEF Muc!Command, Muc!TypeOK, Muc!RoomsAssumption
<1>p. ASSUME NEW kind \in Muc!Kinds, NEW todo \in SUBSET Rooms, Muc!Runs(kind, todo)
      PROVE  prog' \in [Muc!Joiners -> [kind : Muc!Kinds, todo : SUBSET Rooms]]
  BY <1>p DEF Muc!Runs, Muc!TypeOK
<1>i. /\ Muc!Idle \in [kind : Muc!Kinds, todo : SUBSET Rooms]
      /\ Muc!NoJoins \in [Rooms -> Positions] /\ Muc!Autojoin \in SUBSET Rooms
  BY DEF Muc!Idle, Muc!Kinds, Muc!NoJoins, Positions, Muc!Autojoin
<1>1. CASE Muc!Listed(o)
  <2>1. [kind |-> "reconcile", todo |-> Muc!Autojoin] \in [kind : Muc!Kinds,
      todo : SUBSET Rooms]
    BY <1>i DEF Muc!Kinds
  <2>2. prog' \in [Muc!Joiners -> [kind : Muc!Kinds, todo : SUBSET Rooms]]
    BY <1>1, <2>1 DEF Muc!Listed, Muc!TypeOK
  <2> QED BY <1>1, <2>2 DEF Muc!Listed, Muc!TypeOK, Muc!Table, Muc!Mirrors, Here, Positions
<1>2. CASE Muc!Done(o)
  <2>2. prog' \in [Muc!Joiners -> [kind : Muc!Kinds, todo : SUBSET Rooms]]
    BY <1>2, <1>i DEF Muc!Done, Muc!TypeOK
  <2> QED BY <1>2, <2>2 DEF Muc!Done, Muc!TypeOK, Muc!Table, Muc!Mirrors, Here, Positions
<1>3. CASE Muc!SyncLeaves
  <2>1. PICK rs \in SUBSET Rooms : Muc!Leave(rs)
    BY <1>3 DEF Muc!SyncLeaves
  <2>2. Muc!Command /\ prog' \in [Muc!Joiners -> [kind : Muc!Kinds, todo : SUBSET Rooms]]
    BY <1>3, <1>i, <1>p DEF Muc!SyncLeaves, Muc!Kinds
  <2> QED BY <1>3, <1>c, <2>1, <2>2, LeftTypes
       DEF Muc!SyncLeaves, Muc!TypeOK, Muc!Table, Here, Positions
<1>4. CASE Muc!SyncJoins
  <2>1. PICK rs \in SUBSET Rooms : Muc!SendJoins("command", rs)
    BY <1>0, <1>4 DEF Muc!SyncJoins, Muc!TypeOK
  <2>2. prog' \in [Muc!Joiners -> [kind : Muc!Kinds, todo : SUBSET Rooms]]
    BY <1>4, <1>i, <1>p DEF Muc!SyncJoins, Muc!Kinds
  <2>3. /\ leaving' \subseteq Rooms /\ cached' \subseteq Rooms /\ left' \subseteq Rooms
        /\ crossed' \subseteq Rooms /\ server' \subseteq Rooms /\ faults' \in 0 .. MaxFaults
        /\ presence' \in [Rooms -> Seq(Here)] /\ join' \in [Muc!Joiners -> [Rooms -> Positions]]
    BY <1>0, <2>1, JoinsSent
  <2> QED BY <1>4, <2>2, <2>3
       DEF Muc!SyncJoins, Muc!TypeOK, Muc!Table, Muc!Mirrors, Here, Positions
<1>5. CASE Muc!Unload
  <2>1. PICK rs \in SUBSET Rooms :
          /\ Muc!SendLeaves(rs)
          /\ prog' = [prog EXCEPT !["command"] = [kind |-> "reload", todo |-> rs],
                                  !["check"] = Muc!Idle]
    BY <1>5 DEF Muc!Unload
  <2>2. [kind |-> "reload", todo |-> rs] \in [kind : Muc!Kinds, todo : SUBSET Rooms]
    BY DEF Muc!Kinds
  <2>3. prog' \in [Muc!Joiners -> [kind : Muc!Kinds, todo : SUBSET Rooms]]
    BY <1>i, <2>1, <2>2 DEF Muc!TypeOK
  <2>4. join' \in [Muc!Joiners -> [Rooms -> Positions]]
    BY <1>5, <1>i DEF Muc!Unload
  <2>5. /\ presence' \in [Rooms -> Seq(Here)]
        /\ cached' \subseteq Rooms /\ server' \subseteq Rooms
    BY <2>1, LeavesSent
  <2>6. joined' \in [Rooms -> {None, "stub", "plain", "sure"}]
    BY <1>5 DEF Muc!Unload
  <2>7. /\ mirror' = {} /\ backoff' = {} /\ Muc!Command
        /\ UNCHANGED <<stored, enabled, pending, leaving, up, left, crossed, faults>>
    BY <1>5 DEF Muc!Unload, Muc!Table
  <2> QED BY <1>c, <2>3, <2>4, <2>5, <2>6, <2>7 DEF Muc!TypeOK, Here, Positions
<1>6. CASE Muc!CheckStarts
  <2>1. [kind |-> "list", todo |-> {}] \in [kind : Muc!Kinds, todo : SUBSET Rooms]
    BY DEF Muc!Kinds
  <2>2. prog' \in [Muc!Joiners -> [kind : Muc!Kinds, todo : SUBSET Rooms]]
    BY <1>6, <2>1 DEF Muc!CheckStarts, Muc!TypeOK
  <2> QED BY <1>6, <2>2 DEF Muc!CheckStarts, Muc!TypeOK, Muc!Table, Muc!Mirrors, Here, Positions
<1>7. CASE Muc!SessionEnds
  <2>1. prog' \in [Muc!Joiners -> [kind : Muc!Kinds, todo : SUBSET Rooms]]
    BY <1>7, <1>i DEF Muc!SessionEnds, Muc!TypeOK
  <2>2. join' \in [Muc!Joiners -> [Rooms -> Positions]]
    BY <1>7, <1>i DEF Muc!SessionEnds
  <2>3. faults' \in 0 .. MaxFaults
    BY <1>7 DEF Muc!SessionEnds, Muc!TypeOK, Muc!RoomsAssumption
  <2>4. presence' \in [Rooms -> Seq(Here)]
    <3>1. <<>> \in Seq(Here)
      OBVIOUS
    <3> QED BY <1>7, <3>1 DEF Muc!SessionEnds
  <2>5. server' \subseteq Rooms /\ up' \in BOOLEAN
    BY <1>7 DEF Muc!SessionEnds
  <2> QED BY <1>7, <2>1, <2>2, <2>3, <2>4, <2>5
       DEF Muc!SessionEnds, Muc!TypeOK, Muc!Table, Muc!Mirrors, Here, Positions
<1>8. CASE Muc!SessionReady
  <2>1. [kind |-> "list", todo |-> {}] \in [kind : Muc!Kinds, todo : SUBSET Rooms]
    BY DEF Muc!Kinds
  <2>2. prog' \in [Muc!Joiners -> [kind : Muc!Kinds, todo : SUBSET Rooms]]
    BY <1>8, <2>1 DEF Muc!SessionReady, Muc!TypeOK
  <2>3. joined' = [r \in Rooms |-> None] /\ mirror' = {}
    BY <1>8 DEF Muc!SessionReady, Muc!Inherited
  <2> QED BY <1>8, <2>2, <2>3 DEF Muc!SessionReady, Muc!TypeOK, Muc!Table, Here, Positions
<1> QED BY <1>1, <1>2, <1>3, <1>4, <1>5, <1>6, <1>7, <1>8

(* The room that a step concerns.  First the joins and the leaves that are  *)
(* sent.                                                                     *)
LEMMA JoinsHold ==
    ASSUME Muc!TypeOK, Muc!MembershipInv, NEW o \in Muc!Joiners, NEW rs, rs \subseteq Rooms,
           Muc!SendJoins(o, rs), UNCHANGED <<Muc!Mirrors, up>>, NEW r \in Rooms
    PROVE  Muc!RoomInv(r)'
<1>1. PICK in \in SUBSET rs :
        /\ in # {} => up
        /\ leaving' = leaving \ rs /\ cached' = cached \union rs /\ left' = left \ rs
        /\ crossed' = {q \in crossed : Muc!Overlap(o, q)
                          \/ (q \notin in /\ (q \in rs => joined[q] = "sure"))}
        /\ server' = server \union in /\ Muc!Answers(in, {})
        /\ join' = [join EXCEPT ![o] = [q \in Rooms |->
                        IF q \notin rs THEN @[q]
                        ELSE IF joined[q] = "sure" THEN "heard" ELSE "sent"]]
  BY DEF Muc!SendJoins
<1>2. in \intersect {} = {}
  OBVIOUS
<1>3. /\ r \notin in => presence'[r] = presence[r]
      /\ r \in in => ~Muc!Heard(r)' /\ Muc!LastSent(r)' = "here"
  BY <1>1, <1>2, JoinIsAnswered
<1>4. join \in [Muc!Joiners -> [Rooms -> Positions]]
  BY PresenceType
<1>5. \A p \in Muc!Joiners : p # o => join'[p][r] = join[p][r]
  BY <1>1, <1>4
<1>6. Muc!RoomInv(r) /\ joined' = joined /\ mirror' = mirror /\ up' = up
  BY DEF Muc!MembershipInv, Muc!Mirrors
<1>7. CASE r \notin rs
  <2>1. join'[o][r] = join[o][r]
    BY <1>1, <1>4, <1>7
  <2>2. Still(r)
    BY <1>1, <1>3, <1>5, <1>6, <1>7, <2>1 DEF Still
  <2> QED BY <1>6, <2>2, StillHolds
<1>8. CASE r \in rs
  <2>1. join'[o][r] = IF joined[r] = "sure" THEN "heard" ELSE "sent"
    BY <1>1, <1>4, <1>8
  <2>2. /\ r \notin leaving' /\ r \notin left' /\ r \in cached'
        /\ r \in server' <=> r \in server \/ r \in in
        /\ r \in in => up
    BY <1>1, <1>8
  <2>3. Muc!InFlight(r)'
    BY <2>1 DEF Muc!InFlight
  <2>4. Muc!ServiceInv(r)'
    BY <1>3, <1>6, <2>2 DEF Muc!RoomInv, Muc!ServiceInv, Muc!Heard, Muc!LastSent
  <2>5. Muc!HeardInv(r)'
    BY <1>3, <1>6, <2>2 DEF Muc!RoomInv, Muc!HeardInv, Muc!Heard, Muc!Shown
  <2>6. ASSUME up', r \notin crossed' PROVE Muc!UncrossedInv(r)'
    <3>1. r \in crossed => ~Muc!Overlap(o, r) /\ (r \in in \/ joined[r] # "sure")
      BY <1>1, <1>8, <2>6
    <3>2. r \in crossed => \A p \in Muc!Joiners : ~(p # o /\ Muc!Awake(p, r)')
      BY <1>5, <3>1 DEF Muc!Overlap, Muc!Awake
    <3>3. Muc!Awake(o, r)' <=> joined[r] = "sure"
      BY <2>1 DEF Muc!Awake
    <3>4. r \notin crossed => Muc!UncrossedInv(r)
      BY <1>6, <2>6 DEF Muc!RoomInv
    <3>5. \A p \in Muc!Joiners : p # o => (Muc!Awake(p, r)' <=> Muc!Awake(p, r))
      BY <1>5 DEF Muc!Awake
    <3>6. Muc!Heard(r)' => Muc!Heard(r) /\ r \notin in
      BY <1>3 DEF Muc!Heard
    <3>7. ASSUME NEW p \in Muc!Joiners, Muc!Awake(p, r)'
          PROVE  joined[r] # "stub" /\ (Muc!Heard(r)' => r \in server')
      <4>1. CASE r \in crossed
        BY <2>2, <3>1, <3>2, <3>3, <3>6, <3>7, <4>1
      <4>2. CASE r \notin crossed /\ p = o
        BY <2>2, <3>3, <3>4, <3>6, <3>7, <4>2 DEF Muc!UncrossedInv
      <4>3. CASE r \notin crossed /\ p # o
        BY <2>2, <3>4, <3>5, <3>6, <3>7, <4>3 DEF Muc!UncrossedInv
      <4> QED BY <4>1, <4>2, <4>3
    <3>8. Muc!Heard(r)' /\ joined[r] = "sure" => r \in server'
      BY <2>2, <3>1, <3>4, <3>6 DEF Muc!UncrossedInv
    <3> QED BY <1>6, <2>3, <3>7, <3>8 DEF Muc!UncrossedInv
  <2> QED BY <2>4, <2>5, <2>6 DEF Muc!RoomInv
<1> QED BY <1>7, <1>8

(* A room that was left, and the answer of the service if the bot was in it.*)
LEMMA LeftRoom ==
    ASSUME Muc!TypeOK, NEW rs, Muc!SendLeaves(rs), NEW r \in Rooms
    PROVE  /\ r \in cached' <=> r \in cached /\ r \notin rs
           /\ r \in server' <=> r \in server /\ r \notin rs
           /\ ~(r \in rs /\ r \in server) => presence'[r] = presence[r]
           /\ r \in rs /\ r \in server => ~Muc!Heard(r)' /\ Muc!LastSent(r)' = "gone"
<1>1. Muc!Answers({}, rs \intersect server) /\ {} \intersect (rs \intersect server) = {}
  BY DEF Muc!SendLeaves
<1> QED BY <1>1, JoinIsAnswered DEF Muc!SendLeaves

(* It may be marked, its mirrors are gone, and its joins that were awaited  *)
(* are given up or crossed unless nothing was left.                         *)
LEMMA GoneHolds ==
    ASSUME NEW r \in Rooms, Muc!RoomInv(r), up' = up, joined'[r] = None, r \notin mirror',
           None # "stub", None # "plain", None # "sure",
           r \in server' => r \in server /\ r \in cached' /\ r \notin leaving' /\ ~Muc!Heard(r),
           r \in left' => r \in leaving',
           r \notin server => r \notin server',
           r \in server /\ r \notin server' => ~Muc!Heard(r)' /\ Muc!LastSent(r)' = "gone",
           r \in server' \/ r \notin server => presence'[r] = presence[r],
           r \in crossed => r \in crossed',
           r \notin crossed' => \A o \in Muc!Joiners : Muc!Awake(o, r)' => Muc!Awake(o, r)
    PROVE  Muc!RoomInv(r)'
<1>1. Muc!ServiceInv(r)'
  BY DEF Muc!RoomInv, Muc!ServiceInv, Muc!Heard, Muc!LastSent
<1>2. Muc!HeardInv(r)'
  BY DEF Muc!HeardInv, Muc!Heard
<1>3. ASSUME up', r \notin crossed' PROVE Muc!UncrossedInv(r)'
  <2>1. Muc!UncrossedInv(r)
    BY <1>3 DEF Muc!RoomInv
  <2>2. ASSUME NEW o \in Muc!Joiners, Muc!Awake(o, r)', Muc!Heard(r)' PROVE r \in server'
    <3>1. Muc!Heard(r) => r \in server
      BY <1>3, <2>1, <2>2 DEF Muc!UncrossedInv
    <3> QED BY <2>2, <3>1 DEF Muc!Heard
  <2> QED BY <2>2 DEF Muc!UncrossedInv, Muc!Shown
<1> QED BY <1>1, <1>2, <1>3 DEF Muc!RoomInv

(* Leave, and with it LeaveRoom, DeleteLeaves and SyncLeaves.               *)
LEMMA LeaveHolds ==
    ASSUME Muc!RoomsAssumption, Muc!TypeOK, Muc!MembershipInv, NEW rs, rs \subseteq Rooms,
           Muc!Leave(rs),
           UNCHANGED <<up, join>>, NEW r \in Rooms
    PROVE  Muc!RoomInv(r)'
<1> DEFINE Held == {q \in rs : joined[q] # None \/ q \in mirror}
<1>1. Muc!RoomInv(r) /\ Muc!SendLeaves(Held)
  BY DEF Muc!MembershipInv, Muc!Leave
<1>2. /\ leaving' = leaving \union Held /\ left' = left \union Held
      /\ r \in mirror' <=> r \in mirror /\ r \notin rs
      /\ joined'[r] = IF r \in rs THEN None ELSE joined[r]
      /\ r \in crossed \/ (r \in rs /\ Muc!InFlight(r)) => r \in crossed'
  BY DEF Muc!Leave, Muc!Marked
<1>3. r \in Held <=> r \in rs /\ (joined[r] # None \/ r \in mirror)
  OBVIOUS
<1> HIDE DEF Held
<1>4. /\ r \in cached' <=> r \in cached /\ r \notin Held
      /\ r \in server' <=> r \in server /\ r \notin Held
      /\ ~(r \in Held /\ r \in server) => presence'[r] = presence[r]
      /\ r \in Held /\ r \in server => ~Muc!Heard(r)' /\ Muc!LastSent(r)' = "gone"
  BY <1>1, LeftRoom
<1>5. CASE r \notin rs
  <2>1. Still(r)
    BY <1>2, <1>3, <1>4, <1>5 DEF Still
  <2> QED BY <1>1, <2>1, StillHolds
<1>6. CASE r \in rs
  <2>1. None # "stub" /\ None # "plain" /\ None # "sure"
    BY DEF Muc!RoomsAssumption
  <2>2. r \in server' => ~Muc!Heard(r)
    BY <1>1, <1>3, <1>4, <1>6, <2>1 DEF Muc!RoomInv, Muc!HeardInv, Muc!Shown
  <2>3. r \notin crossed' => \A o \in Muc!Joiners : Muc!Awake(o, r)' => Muc!Awake(o, r)
    BY DEF Muc!Awake
  <2>4. r \in server' => r \in server /\ r \in cached' /\ r \notin leaving'
    BY <1>1, <1>2, <1>4 DEF Muc!RoomInv, Muc!ServiceInv
  <2>5. r \in left' => r \in leaving'
    BY <1>1, <1>2 DEF Muc!RoomInv, Muc!ServiceInv
  <2>6. joined'[r] = None /\ r \notin mirror' /\ up' = up
    BY <1>2, <1>6
  <2> QED BY <1>1, <1>2, <1>4, <2>1, <2>2, <2>3, <2>4, <2>5, <2>6, GoneHolds
<1> QED BY <1>5, <1>6

(* A join that goes on: its room where it was, or settled; what it does to  *)
(* the mirrors shows the room.                                              *)
LEMMA GoesOnHolds ==
    ASSUME Muc!TypeOK, NEW r \in Rooms, Muc!RoomInv(r), NEW o \in Muc!Joiners, Muc!Awake(o, r),
           None # "stub", None # "plain", None # "sure",
           NEW x \in {"no", "lookup", "write", "forget"}, Muc!Goes(o, r, x),
           UNCHANGED <<leaving, cached, server, presence, up, left, crossed>>,
           \/ joined'[r] = joined[r] /\ (r \in mirror' <=> r \in mirror)
           \/ joined'[r] \in {"plain", "sure"} /\ r \in mirror'
           \/ joined'[r] = joined[r] /\ joined[r] # None /\ r \in mirror'
    PROVE  Muc!RoomInv(r)'
<1>1. /\ \A p \in Muc!Joiners : p # o => join'[p][r] = join[p][r]
      /\ join'[o][r] = x /\ x \in Positions
  <2>1. x \in Positions
    BY DEF Positions
  <2> QED BY <2>1, OnePlace
<1>2. \A p \in Muc!Joiners : Muc!Awake(p, r)' => Muc!Awake(p, r)
  BY <1>1 DEF Muc!Awake
<1>3. Muc!ServiceInv(r)'
  BY DEF Muc!RoomInv, Muc!ServiceInv, Muc!Heard, Muc!LastSent
<1>4. Muc!HeardInv(r)'
  BY DEF Muc!RoomInv, Muc!HeardInv, Muc!Heard, Muc!Shown
<1>5. ASSUME up', r \notin crossed' PROVE Muc!UncrossedInv(r)'
  <2>1. Muc!UncrossedInv(r)
    BY <1>5 DEF Muc!RoomInv
  <2>2. joined[r] # "stub" /\ (Muc!Heard(r) => r \in server)
    BY <2>1 DEF Muc!UncrossedInv
  <2>3. joined'[r] # "stub" /\ (Muc!Heard(r)' => r \in server')
    BY <2>2 DEF Muc!Heard
  <2> QED BY <2>3 DEF Muc!UncrossedInv
<1> QED BY <1>3, <1>4, <1>5 DEF Muc!RoomInv

LEMMA AwaitedHolds ==
    ASSUME Muc!RoomsAssumption, Muc!TypeOK, NEW r \in Rooms, Muc!RoomInv(r),
           NEW o \in Muc!Joiners,
           \/ Muc!Resumes(o, r) \/ Muc!JoinLookup(r) \/ Muc!JoinWrite(r) \/ Muc!AcceptWrite(r)
           \/ Muc!AcceptForgets(r)
    PROVE  Muc!RoomInv(r)'
<1>0. /\ None # "stub" /\ None # "plain" /\ None # "sure" /\ "command" \in Muc!Joiners
      /\ joined \in [Rooms -> {None, "stub", "plain", "sure"}]
  BY DEF Muc!RoomsAssumption, Muc!TypeOK, Muc!Joiners
<1> SUFFICES ASSUME NEW p \in Muc!Joiners
             PROVE  (/\ Muc!Awake(p, r)
                     /\ \E x \in {"no", "lookup", "write", "forget"} : Muc!Goes(p, r, x)
                     /\ UNCHANGED <<leaving, cached, server, presence, up, left, crossed>>
                     /\ \/ joined'[r] = joined[r] /\ (r \in mirror' <=> r \in mirror)
                        \/ joined'[r] \in {"plain", "sure"} /\ r \in mirror'
                        \/ joined'[r] = joined[r] /\ joined[r] # None /\ r \in mirror')
                     => Muc!RoomInv(r)'
  <2>1. CASE Muc!Resumes(o, r)
    <3>1. /\ Muc!Awake(o, r)
          /\ \E x \in {"no", "lookup", "write", "forget"} : Muc!Goes(o, r, x)
      BY <2>1 DEF Muc!Resumes, Muc!Awake, Muc!Goes, Muc!Finish
    <3>2. UNCHANGED <<leaving, cached, server, presence, up, left, crossed>>
      BY <2>1 DEF Muc!Resumes
    <3>3. \/ joined'[r] = joined[r] /\ (r \in mirror' <=> r \in mirror)
          \/ joined'[r] \in {"plain", "sure"} /\ r \in mirror'
      BY <1>0, <2>1 DEF Muc!Resumes
    <3> QED BY <3>1, <3>2, <3>3
  <2>2. CASE Muc!JoinLookup(r)
    <3>1. /\ Muc!Awake("command", r)
          /\ \E x \in {"no", "lookup", "write", "forget"} : Muc!Goes("command", r, x)
      BY <2>2 DEF Muc!JoinLookup, Muc!Awake, Muc!Goes
    <3>2. UNCHANGED <<leaving, cached, server, presence, up, left, crossed>>
      BY <2>2 DEF Muc!JoinLookup
    <3>3. \/ joined'[r] \in {"plain", "sure"} /\ r \in mirror'
          \/ joined'[r] = joined[r] /\ joined[r] # None /\ r \in mirror'
      BY <1>0, <2>2 DEF Muc!JoinLookup
    <3> QED BY <1>0, <3>1, <3>2, <3>3
  <2>3. CASE Muc!JoinWrite(r)
    <3>1. /\ Muc!Awake("command", r)
          /\ \E x \in {"no", "lookup", "write", "forget"} : Muc!Goes("command", r, x)
      BY <2>3 DEF Muc!JoinWrite, Muc!Awake, Muc!Goes, Muc!Finish
    <3>2. UNCHANGED <<leaving, cached, server, presence, up, left, crossed, Muc!Mirrors>>
      BY <2>3 DEF Muc!JoinWrite
    <3> QED BY <1>0, <3>1, <3>2 DEF Muc!Mirrors
  <2>4. CASE Muc!AcceptWrite(r)
    <3>1. /\ Muc!Awake("command", r)
          /\ \E x \in {"no", "lookup", "write", "forget"} : Muc!Goes("command", r, x)
      BY <2>4 DEF Muc!AcceptWrite, Muc!Awake, Muc!Goes
    <3>2. UNCHANGED <<leaving, cached, server, presence, up, left, crossed>>
      BY <2>4 DEF Muc!AcceptWrite
    <3>3. joined'[r] \in {"plain", "sure"} /\ r \in mirror'
      BY <1>0, <2>4 DEF Muc!AcceptWrite
    <3> QED BY <1>0, <3>1, <3>2, <3>3
  <2>5. CASE Muc!AcceptForgets(r)
    <3>1. /\ Muc!Awake("command", r)
          /\ \E x \in {"no", "lookup", "write", "forget"} : Muc!Goes("command", r, x)
      BY <2>5 DEF Muc!AcceptForgets, Muc!Awake, Muc!Goes, Muc!Finish
    <3>2. UNCHANGED <<leaving, cached, server, presence, up, left, crossed, Muc!Mirrors>>
      BY <2>5 DEF Muc!AcceptForgets
    <3> QED BY <1>0, <3>1, <3>2 DEF Muc!Mirrors
  <2> QED BY <2>1, <2>2, <2>3, <2>4, <2>5
<1> QED BY <1>0, GoesOnHolds

LEMMA FailHolds ==
    ASSUME Muc!RoomsAssumption, Muc!TypeOK, NEW r \in Rooms, Muc!RoomInv(r),
           NEW o \in Muc!Joiners,
           Muc!JoinFails(o, r)
    PROVE  Muc!RoomInv(r)'
<1>1. /\ Muc!SendLeaves({r}) /\ Muc!Goes(o, r, "no") /\ joined'[r] = None /\ r \notin mirror'
      /\ UNCHANGED <<leaving, left, crossed, up>>
  BY DEF Muc!JoinFails, Muc!TypeOK, Muc!Finish, Muc!Goes
<1>2. r \in {r}
  OBVIOUS
<1>3. /\ r \notin cached' /\ r \notin server'
      /\ r \notin server => presence'[r] = presence[r]
      /\ r \in server => ~Muc!Heard(r)' /\ Muc!LastSent(r)' = "gone"
  BY <1>1, <1>2, LeftRoom
<1>4. \A p \in Muc!Joiners : Muc!Awake(p, r)' => Muc!Awake(p, r)
  <2>1. "no" \in Positions
    BY DEF Positions
  <2>2. join'[o][r] = "no" /\ \A p \in Muc!Joiners : p # o => join'[p][r] = join[p][r]
    BY <1>1, <2>1, OnePlace
  <2> QED BY <2>2 DEF Muc!Awake
<1>5. None # "stub" /\ None # "plain" /\ None # "sure"
  BY DEF Muc!RoomsAssumption
<1>6. r \in left' => r \in leaving'
  BY <1>1 DEF Muc!RoomInv, Muc!ServiceInv
<1> QED BY <1>1, <1>3, <1>4, <1>5, <1>6, GoneHolds

LEMMA ExamineHolds ==
    ASSUME Muc!RoomsAssumption, Muc!TypeOK, NEW r \in Rooms, Muc!RoomInv(r),
           NEW o \in Muc!Joiners,
           Muc!Examine(o, r)
    PROVE  Muc!RoomInv(r)'
<1>1. up' = up /\ join[o] = Muc!NoJoins
  BY DEF Muc!Examine
<1>2. CASE Muc!NoJoin /\ UNCHANGED <<joined, mirror>>
  <2>1. Still(r)
    BY <1>1, <1>2 DEF Muc!NoJoin, Still
  <2> QED BY <2>1, StillHolds
<1>3. CASE ~(Muc!NoJoin /\ UNCHANGED <<joined, mirror>>)
  <2>0. None # "stub" /\ None # "plain" /\ None # "sure"
    BY DEF Muc!RoomsAssumption
  <2>1. /\ r \notin leaving /\ ~Muc!Confirmed(r) /\ joined'[r] = None /\ r \notin mirror'
    BY <1>3 DEF Muc!Examine, Muc!Skips, Muc!TypeOK
  <2>2. r \in server => ~Muc!Heard(r)
    BY <2>1 DEF Muc!Confirmed, Muc!RoomInv, Muc!ServiceInv, Muc!HeardInv, Muc!Shown
  <2>3. CASE Muc!NoJoin
    <3>1. UNCHANGED <<leaving, cached, left, crossed, server, presence, join>>
      BY <2>3 DEF Muc!NoJoin
    <3>2. \A p \in Muc!Joiners : Muc!Awake(p, r)' => Muc!Awake(p, r)
      BY <3>1 DEF Muc!Awake
    <3>3. r \in server => r \in cached /\ r \notin leaving
      BY DEF Muc!RoomInv, Muc!ServiceInv
    <3>4. r \in left => r \in leaving
      BY DEF Muc!RoomInv, Muc!ServiceInv
    <3> QED BY <1>1, <2>0, <2>1, <2>2, <3>1, <3>2, <3>3, <3>4, GoneHolds
  <2>4. CASE ~Muc!NoJoin
    <3>1. PICK in \in SUBSET {r} :
             /\ in # {} => up
             /\ leaving' = leaving \ {r} /\ cached' = cached \union {r}
             /\ left' = left /\ crossed' = IF Muc!Overlap(o, r) THEN crossed ELSE crossed \ {r}
             /\ server' = server \union in /\ Muc!Answers(in, {})
             /\ Muc!Goes(o, r, "sent")
      BY <1>3, <2>4 DEF Muc!Examine
    <3>2. in \intersect {} = {}
      OBVIOUS
    <3>3. /\ r \notin in => presence'[r] = presence[r]
          /\ r \in in => ~Muc!Heard(r)' /\ Muc!LastSent(r)' = "here"
      BY <3>1, <3>2, JoinIsAnswered
    <3>4. join'[o][r] = "sent" /\ \A p \in Muc!Joiners : p # o => join'[p][r] = join[p][r]
      <4>1. "sent" \in Positions
        BY DEF Positions
      <4> QED BY <3>1, <4>1, OnePlace
    <3>5. /\ r \notin leaving' /\ r \notin left' /\ r \in cached'
          /\ r \in server' <=> r \in server \/ r \in in
          /\ r \in in => up
      BY <2>1, <3>1 DEF Muc!RoomInv, Muc!ServiceInv
    <3>6. Muc!ServiceInv(r)'
      BY <1>1, <3>3, <3>5 DEF Muc!RoomInv, Muc!ServiceInv, Muc!Heard, Muc!LastSent
    <3>7. Muc!HeardInv(r)'
      BY <2>1, <2>2, <3>3, <3>5 DEF Muc!HeardInv, Muc!Heard
    <3>8. ASSUME up', r \notin crossed' PROVE Muc!UncrossedInv(r)'
      <4>1. r \in crossed => ~Muc!Overlap(o, r)
        BY <3>1, <3>8
      <4>2. ASSUME NEW p \in Muc!Joiners, Muc!Awake(p, r)', Muc!Heard(r)' PROVE r \in server'
        <5>1. p # o /\ Muc!Awake(p, r) /\ Muc!Heard(r)
          BY <3>3, <3>4, <4>2 DEF Muc!Awake, Muc!Heard
        <5>2. r \notin crossed
          BY <4>1, <5>1 DEF Muc!Overlap, Muc!Awake
        <5>3. Muc!UncrossedInv(r)
          BY <1>1, <3>8, <5>2 DEF Muc!RoomInv
        <5> QED BY <3>5, <5>1, <5>3 DEF Muc!UncrossedInv
      <4> QED BY <2>0, <2>1, <4>2 DEF Muc!UncrossedInv, Muc!Shown
    <3> QED BY <3>6, <3>7, <3>8 DEF Muc!RoomInv
  <2> QED BY <2>3, <2>4
<1> QED BY <1>2, <1>3

LEMMA KickHolds ==
    ASSUME Muc!TypeOK, NEW r \in Rooms, Muc!RoomInv(r), Muc!Kick(r)
    PROVE  Muc!RoomInv(r)'
<1>1. Muc!Answers({}, {r}) /\ {} \intersect {r} = {} /\ r \in {r}
  BY DEF Muc!Kick
<1>2. ~Muc!Heard(r)' /\ Muc!LastSent(r)' = "gone" /\ r \notin server' /\ r \in server
  BY <1>1, JoinIsAnswered DEF Muc!Kick
<1>3. UNCHANGED <<joined, mirror, leaving, cached, up, join, left, crossed>>
  BY DEF Muc!Kick
<1>4. (Muc!Shown(r)' <=> Muc!Shown(r)) /\ (Muc!InFlight(r)' <=> Muc!InFlight(r))
      /\ \A o \in Muc!Joiners : Muc!Awake(o, r)' <=> Muc!Awake(o, r)
  BY <1>3 DEF Muc!Shown, Muc!InFlight, Muc!Awake
<1>5. Muc!ServiceInv(r)'
  BY <1>2, <1>3 DEF Muc!RoomInv, Muc!ServiceInv
<1>6. Muc!HeardInv(r)'
  BY <1>2, <1>3 DEF Muc!RoomInv, Muc!HeardInv
<1>7. ASSUME up', r \notin crossed' PROVE Muc!UncrossedInv(r)'
  BY <1>2, <1>3, <1>4, <1>7 DEF Muc!RoomInv, Muc!UncrossedInv
<1> QED BY <1>5, <1>6, <1>7 DEF Muc!RoomInv

(* The next presence of the room is heard.                                  *)
LEMMA PresenceHolds ==
    ASSUME Muc!RoomsAssumption, Muc!TypeOK, NEW r \in Rooms, Muc!RoomInv(r), Muc!Presence(r)
    PROVE  Muc!RoomInv(r)'
<1>0. /\ None # "stub" /\ None # "plain" /\ None # "sure"
      /\ joined \in [Rooms -> {None, "stub", "plain", "sure"}]
      /\ join \in [Muc!Joiners -> [Rooms -> Positions]]
  BY PresenceType DEF Muc!RoomsAssumption
<1>1. PICK q \in Seq(Here) : q = presence[r] /\ q # <<>>
  BY PresenceType DEF Muc!Presence
<1>2. PICK w : w = Tail(q)
  OBVIOUS
<1>3. presence'[r] = w
  BY <1>1, <1>2, PresenceType DEF Muc!Presence
<1>4. /\ Head(q) \in Here
      /\ w # <<>> => w[Len(w)] = q[Len(q)]
      /\ w = <<>> => Head(q) = q[Len(q)]
  BY <1>1, <1>2, OneLess
<1>5. /\ ~Muc!Heard(r) /\ up
      /\ Muc!Heard(r)' <=> w = <<>>
      /\ q[Len(q)] = "here" <=> r \in server
      /\ ~Muc!Heard(r)' => Muc!LastSent(r)' = q[Len(q)]
  BY <1>1, <1>3, <1>4 DEF Muc!RoomInv, Muc!ServiceInv, Muc!Heard, Muc!LastSent
<1>6. UNCHANGED <<leaving, cached, server, up, left>>
  BY DEF Muc!Presence
<1>7. /\ r \in crossed => r \in crossed'
      /\ Head(q) = "gone" /\ Muc!InFlight(r) => r \in crossed'
  BY <1>1 DEF Muc!Presence
<1>8. Head(q) = "here" \/ Head(q) = "gone"
  BY <1>4 DEF Here
<1>9. Muc!ServiceInv(r)'
  BY <1>5, <1>6 DEF Muc!RoomInv, Muc!ServiceInv
<1>10. Muc!Heard(r)' => (Head(q) = "here" <=> r \in server)
  BY <1>4, <1>5
<1>11. CASE Muc!Ignored(r)
  <2>1. UNCHANGED <<joined, mirror, join>> /\ r \in leaving /\ joined[r] = None
    BY <1>11 DEF Muc!Presence, Muc!Ignored
  <2>2. r \notin server
    BY <2>1 DEF Muc!RoomInv, Muc!ServiceInv
  <2>3. Muc!HeardInv(r)'
    BY <1>6, <2>1, <2>2 DEF Muc!RoomInv, Muc!HeardInv
  <2>4. ASSUME up', r \notin crossed' PROVE Muc!UncrossedInv(r)'
    <3>1. Muc!Heard(r)' => ~Muc!InFlight(r)
      BY <1>7, <1>8, <1>10, <2>2, <2>4
    <3>2. \A o \in Muc!Joiners : Muc!Awake(o, r)' => Muc!InFlight(r)
      BY <2>1 DEF Muc!Awake, Muc!InFlight
    <3> QED BY <1>0, <2>1, <3>1, <3>2 DEF Muc!UncrossedInv, Muc!Shown
  <2> QED BY <1>9, <2>3, <2>4 DEF Muc!RoomInv
<1>12. CASE ~Muc!Ignored(r) /\ Head(q) = "here"
  <2>1. joined'[r] = "sure" /\ r \in mirror'
    BY <1>0, <1>1, <1>12 DEF Muc!Presence
  <2>2. Muc!Heard(r)' => r \in server'
    BY <1>6, <1>10, <1>12
  <2>3. Muc!HeardInv(r)'
    BY <1>0, <2>1 DEF Muc!HeardInv, Muc!Shown
  <2>4. Muc!UncrossedInv(r)'
    BY <2>1, <2>2 DEF Muc!UncrossedInv
  <2> QED BY <1>9, <2>3, <2>4 DEF Muc!RoomInv
<1>13. CASE ~Muc!Ignored(r) /\ Head(q) = "gone"
  <2>1. join' = join
    BY <1>1, <1>13 DEF Muc!Presence
  <2>2. Muc!Heard(r)' => r \notin server'
    BY <1>6, <1>10, <1>13
  <2>3. \/ /\ joined[r] \in {None, "stub"} /\ joined'[r] = "stub" /\ mirror' = mirror
        \/ joined'[r] = None /\ r \notin mirror'
    BY <1>0, <1>1, <1>13 DEF Muc!Presence
  <2>4. Muc!HeardInv(r)'
    BY <1>0, <2>2, <2>3 DEF Muc!HeardInv
  <2>5. ASSUME up', r \notin crossed' PROVE Muc!UncrossedInv(r)'
    <3>1. ~Muc!InFlight(r) /\ Muc!UncrossedInv(r)
      BY <1>5, <1>7, <1>13, <2>5 DEF Muc!RoomInv
    <3>2. \A o \in Muc!Joiners : ~Muc!Awake(o, r)'
      BY <2>1, <3>1 DEF Muc!Awake, Muc!InFlight
    <3>3. joined'[r] = "stub" => r \notin mirror'
      BY <1>0, <2>3, <3>1 DEF Muc!RoomInv, Muc!HeardInv, Muc!UncrossedInv
    <3> QED BY <1>0, <2>3, <3>2, <3>3 DEF Muc!UncrossedInv, Muc!Shown
  <2> QED BY <1>9, <2>4, <2>5 DEF Muc!RoomInv
<1> QED BY <1>8, <1>11, <1>12, <1>13

LEMMA UnloadHolds ==
    ASSUME Muc!RoomsAssumption, Muc!TypeOK, NEW r \in Rooms, Muc!RoomInv(r), Muc!Unload
    PROVE  Muc!RoomInv(r)'
<1>0. /\ None # "stub" /\ None # "plain" /\ None # "sure"
      /\ join \in [Muc!Joiners -> [Rooms -> Positions]]
  BY PresenceType DEF Muc!RoomsAssumption
<1>1. PICK rs : Muc!SendLeaves(rs) /\ (r \in rs <=> joined[r] # None)
  BY DEF Muc!Unload
<1>2. /\ r \in cached' <=> r \in cached /\ r \notin rs
      /\ r \in server' <=> r \in server /\ r \notin rs
      /\ ~(r \in rs /\ r \in server) => presence'[r] = presence[r]
      /\ r \in rs /\ r \in server => ~Muc!Heard(r)' /\ Muc!LastSent(r)' = "gone"
  BY <1>1, LeftRoom
<1>3. joined'[r] = None /\ r \notin mirror' /\ UNCHANGED <<leaving, up, left, crossed>>
  BY DEF Muc!Unload
<1>4. \A o \in Muc!Joiners : Muc!Awake(o, r)' => Muc!Awake(o, r)
  BY <1>0 DEF Muc!Unload, Muc!NoJoins, Muc!Awake
<1>5. r \in server' => r \in server /\ r \in cached' /\ r \notin leaving' /\ ~Muc!Heard(r)
  BY <1>0, <1>1, <1>2, <1>3 DEF Muc!RoomInv, Muc!ServiceInv, Muc!HeardInv, Muc!Shown
<1>6. r \in left' => r \in leaving'
  BY <1>3 DEF Muc!RoomInv, Muc!ServiceInv
<1> QED BY <1>0, <1>2, <1>3, <1>4, <1>5, <1>6, GoneHolds

LEMMA SessionHolds ==
    ASSUME Muc!RoomsAssumption, Muc!TypeOK, NEW r \in Rooms, Muc!RoomInv(r),
           Muc!SessionEnds \/ Muc!SessionReady
    PROVE  Muc!RoomInv(r)'
<1>0. None # "stub" /\ None # "plain" /\ None # "sure"
  BY DEF Muc!RoomsAssumption
<1>1. CASE Muc!SessionEnds
  <2>1. /\ r \notin server' /\ presence'[r] = <<>> /\ ~up'
        /\ UNCHANGED <<joined, mirror, leaving, left, cached>>
    BY <1>1 DEF Muc!SessionEnds, Muc!Mirrors
  <2> QED BY <2>1 DEF Muc!RoomInv, Muc!ServiceInv, Muc!HeardInv, Muc!Heard
<1>2. CASE Muc!SessionReady
  <2>1. /\ joined'[r] = None /\ r \notin mirror' /\ ~up /\ up'
        /\ Muc!InFlight(r) => r \in crossed'
        /\ UNCHANGED <<leaving, left, cached, server, presence, join>>
    BY <1>2 DEF Muc!SessionReady, Muc!Inherited
  <2>2. r \notin server /\ Muc!Heard(r)
    BY <2>1 DEF Muc!RoomInv, Muc!ServiceInv
  <2>3. \A o \in Muc!Joiners : Muc!Awake(o, r)' => Muc!InFlight(r)
    BY <2>1 DEF Muc!Awake, Muc!InFlight
  <2>4. Muc!ServiceInv(r)'
    BY <2>1, <2>2 DEF Muc!RoomInv, Muc!ServiceInv, Muc!Heard
  <2>5. Muc!HeardInv(r)'
    BY <2>1, <2>2 DEF Muc!HeardInv
  <2>6. r \notin crossed' => Muc!UncrossedInv(r)'
    BY <1>0, <2>1, <2>3 DEF Muc!UncrossedInv, Muc!Shown
  <2> QED BY <2>4, <2>5, <2>6 DEF Muc!RoomInv
<1> QED BY <1>1, <1>2

(* Rooms that an action on one of them does not concern.                    *)
LEMMA OtherRooms ==
    ASSUME Muc!RoomsAssumption, Muc!TypeOK, Muc!MembershipInv, NEW r \in Rooms,
           NEW q \in Rooms, q # r,
           NEW o \in Muc!Joiners,
           \/ Muc!JoinFails(o, r) \/ Muc!Resumes(o, r) \/ Muc!Examine(o, r) \/ Muc!JoinLookup(r)
           \/ Muc!JoinWrite(r) \/ Muc!AcceptWrite(r) \/ Muc!AcceptForgets(r)
           \/ Muc!Presence(r) \/ Muc!Kick(r)
    PROVE  Muc!RoomInv(q)'
<1>0. /\ joined \in [Rooms -> {None, "stub", "plain", "sure"}]
      /\ join \in [Muc!Joiners -> [Rooms -> Positions]] /\ "command" \in Muc!Joiners
  BY PresenceType DEF Muc!Joiners
<1> SUFFICES Still(q)
  BY StillHolds DEF Muc!MembershipInv
<1>j. ASSUME NEW p \in Muc!Joiners, NEW x \in Positions, Muc!Goes(p, r, x)
      PROVE  \A s \in Muc!Joiners : join'[s][q] = join[s][q]
  BY <1>j, OnePlace
<1>f. \A p \in Muc!Joiners : Muc!Finish(p, r) <=> Muc!Goes(p, r, "no")
  BY DEF Muc!Finish, Muc!Goes
<1>p. "no" \in Positions /\ "lookup" \in Positions /\ "write" \in Positions /\ "forget" \in Positions
      /\ "sent" \in Positions
  BY DEF Positions
<1>1. CASE Muc!JoinFails(o, r)
  <2>1. Muc!SendLeaves({r}) /\ Muc!Goes(o, r, "no")
    BY <1>1, <1>f DEF Muc!JoinFails
  <2>2. q \notin {r}
    OBVIOUS
  <2>3. /\ q \in cached' <=> q \in cached
        /\ q \in server' <=> q \in server
        /\ presence'[q] = presence[q]
    BY <2>1, <2>2, LeftRoom
  <2>4. \A s \in Muc!Joiners : join'[s][q] = join[s][q]
    BY <1>j, <1>p, <2>1
  <2> QED BY <1>0, <1>1, <2>3, <2>4 DEF Muc!JoinFails, Still
<1>2. CASE Muc!Resumes(o, r)
  <2>1. PICK x \in Positions : Muc!Goes(o, r, x)
    BY <1>2, <1>f, <1>p DEF Muc!Resumes
  <2>2. \A s \in Muc!Joiners : join'[s][q] = join[s][q]
    BY <1>j, <2>1
  <2>3. joined'[q] = joined[q] /\ (q \in mirror' <=> q \in mirror)
    BY <1>0, <1>2 DEF Muc!Resumes
  <2> QED BY <1>2, <2>2, <2>3 DEF Muc!Resumes, Still
<1>3. CASE Muc!Examine(o, r)
  <2>1. joined'[q] = joined[q] /\ (q \in mirror' <=> q \in mirror) /\ up' = up
    BY <1>0, <1>3 DEF Muc!Examine
  <2>2. CASE Muc!NoJoin
    BY <2>1, <2>2 DEF Muc!NoJoin, Still
  <2>3. CASE ~Muc!NoJoin
    <3>1. PICK in \in SUBSET {r} :
             /\ leaving' = leaving \ {r} /\ cached' = cached \union {r}
             /\ left' = left /\ crossed' = IF Muc!Overlap(o, r) THEN crossed ELSE crossed \ {r}
             /\ server' = server \union in /\ Muc!Answers(in, {})
             /\ Muc!Goes(o, r, "sent")
      BY <1>3, <2>3 DEF Muc!Examine
    <3>2. in \intersect {} = {} /\ q \notin in \union {}
      OBVIOUS
    <3>3. presence'[q] = presence[q]
      BY <3>1, <3>2, JoinIsAnswered
    <3>4. \A s \in Muc!Joiners : join'[s][q] = join[s][q]
      BY <1>j, <1>p, <3>1
    <3> QED BY <2>1, <3>1, <3>2, <3>3, <3>4 DEF Still
  <2> QED BY <2>2, <2>3
<1>4. CASE Muc!JoinLookup(r)
  <2>1. \A s \in Muc!Joiners : join'[s][q] = join[s][q]
    BY <1>0, <1>4, <1>j, <1>p DEF Muc!JoinLookup
  <2> QED BY <1>0, <1>4, <2>1 DEF Muc!JoinLookup, Still
<1>5. CASE Muc!JoinWrite(r)
  <2>1. \A s \in Muc!Joiners : join'[s][q] = join[s][q]
    BY <1>0, <1>5, <1>f, <1>j, <1>p DEF Muc!JoinWrite
  <2> QED BY <1>5, <2>1 DEF Muc!JoinWrite, Muc!Mirrors, Still
<1>6. CASE Muc!AcceptWrite(r)
  <2>1. \A s \in Muc!Joiners : join'[s][q] = join[s][q]
    BY <1>0, <1>6, <1>j, <1>p DEF Muc!AcceptWrite
  <2> QED BY <1>0, <1>6, <2>1 DEF Muc!AcceptWrite, Still
<1>7. CASE Muc!AcceptForgets(r)
  <2>1. \A s \in Muc!Joiners : join'[s][q] = join[s][q]
    BY <1>0, <1>7, <1>f, <1>j, <1>p DEF Muc!AcceptForgets
  <2> QED BY <1>7, <2>1 DEF Muc!AcceptForgets, Muc!Mirrors, Still
<1>8. CASE Muc!Presence(r)
  <2>1. presence'[q] = presence[q]
    BY <1>8, PresenceType DEF Muc!Presence
  <2>2. \A s \in Muc!Joiners : join'[s][q] = join[s][q]
    BY <1>0, <1>8 DEF Muc!Presence
  <2>3. joined'[q] = joined[q] /\ (q \in mirror' <=> q \in mirror)
    BY <1>0, <1>8 DEF Muc!Presence
  <2> QED BY <1>8, <2>1, <2>2, <2>3 DEF Muc!Presence, Still
<1>9. CASE Muc!Kick(r)
  <2>1. Muc!Answers({}, {r}) /\ {} \intersect {r} = {} /\ q \notin {} \union {r}
    BY <1>9 DEF Muc!Kick
  <2>2. presence'[q] = presence[q]
    BY <2>1, JoinIsAnswered
  <2> QED BY <1>9, <2>2 DEF Muc!Kick, Still
<1> QED BY <1>1, <1>2, <1>3, <1>4, <1>5, <1>6, <1>7, <1>8, <1>9

(* Actions that are no matter of membership.                                *)
Quiet == UNCHANGED <<joined, mirror, leaving, cached, server, presence, up, join, left,
    crossed>>

LEMMA QuietHolds ==
    ASSUME Muc!MembershipInv, Quiet
    PROVE  Muc!MembershipInv'
<1> SUFFICES ASSUME NEW r \in Rooms PROVE Muc!RoomInv(r)'
  BY DEF Muc!MembershipInv
<1>1. Still(r)
  BY DEF Quiet, Still
<1> QED BY <1>1, StillHolds DEF Muc!MembershipInv

LEMMA MembershipStep ==
    ASSUME Muc!RoomsAssumption, Muc!TypeOK, Muc!MembershipInv, [Muc!Next]_(Muc!vars)
    PROVE  Muc!TypeOK' /\ Muc!MembershipInv'
<1>0. "command" \in Muc!Joiners /\ TRUE \in BOOLEAN
  BY DEF Muc!Joiners
<1>1. ASSUME NEW r \in Rooms, NEW o \in Muc!Joiners,
             Muc!JoinFails(o, r) \/ Muc!Resumes(o, r) \/ Muc!Examine(o, r)
      PROVE  Muc!TypeOK' /\ Muc!MembershipInv'
  <2>1. Muc!TypeOK'
    BY <1>1, RoomSteps
  <2>2. \A q \in Rooms : q # r => Muc!RoomInv(q)'
    BY <1>1, OtherRooms
  <2>3. Muc!RoomInv(r)
    BY DEF Muc!MembershipInv
  <2>4. Muc!RoomInv(r)'
    BY <1>1, <2>3, FailHolds, AwaitedHolds, ExamineHolds
  <2> QED BY <2>1, <2>2, <2>4 DEF Muc!MembershipInv
<1>2. ASSUME NEW r \in Rooms,
             Muc!JoinLookup(r) \/ Muc!JoinWrite(r) \/ Muc!AcceptWrite(r) \/ Muc!AcceptForgets(r)
      PROVE  Muc!TypeOK' /\ Muc!MembershipInv'
  <2>1. Muc!TypeOK'
    BY <1>0, <1>2, RoomSteps
  <2>2. \A q \in Rooms : q # r => Muc!RoomInv(q)'
    BY <1>0, <1>2, OtherRooms
  <2>3. Muc!RoomInv(r)
    BY DEF Muc!MembershipInv
  <2>4. Muc!RoomInv(r)'
    BY <1>0, <1>2, <2>3, AwaitedHolds
  <2> QED BY <2>1, <2>2, <2>4 DEF Muc!MembershipInv
<1>3. ASSUME NEW r \in Rooms, Muc!Presence(r) \/ Muc!Kick(r)
      PROVE  Muc!TypeOK' /\ Muc!MembershipInv'
  <2>1. Muc!TypeOK'
    BY <1>0, <1>3, OtherSteps
  <2>2. \A q \in Rooms : q # r => Muc!RoomInv(q)'
    BY <1>0, <1>3, OtherRooms
  <2>3. Muc!RoomInv(r)
    BY DEF Muc!MembershipInv
  <2>4. Muc!RoomInv(r)'
    BY <1>3, <2>3, PresenceHolds, KickHolds
  <2> QED BY <2>1, <2>2, <2>4 DEF Muc!MembershipInv
<1>4. ASSUME NEW r \in Rooms, Muc!DeleteLeaves(r) \/ Muc!LeaveRoom(r)
      PROVE  Muc!TypeOK' /\ Muc!MembershipInv'
  <2>1. Muc!TypeOK'
    BY <1>0, <1>4, RoomSteps, OtherSteps
  <2>2. Muc!Leave({r}) /\ UNCHANGED <<up, join>> /\ {r} \subseteq Rooms
    BY <1>4 DEF Muc!DeleteLeaves, Muc!LeaveRoom
  <2> QED BY <2>1, <2>2, LeaveHolds DEF Muc!MembershipInv
<1>5. ASSUME NEW r \in Rooms, Muc!LoadJoins(r) \/ Muc!JoinRoom(r) \/ Muc!AcceptInvite(r)
      PROVE  Muc!TypeOK' /\ Muc!MembershipInv'
  <2>1. Muc!TypeOK'
    BY <1>0, <1>5, RoomSteps, OtherSteps
  <2>2. Muc!SendJoins("command", {r}) /\ UNCHANGED <<Muc!Mirrors, up>> /\ {r} \subseteq Rooms
    BY <1>5 DEF Muc!LoadJoins, Muc!JoinRoom, Muc!AcceptInvite
  <2> QED BY <1>0, <2>1, <2>2, JoinsHold DEF Muc!MembershipInv
<1>6. ASSUME NEW r \in Rooms, NEW a \in BOOLEAN,
             \/ Muc!Invited(r) \/ Muc!BackoffPasses(r) \/ Muc!DeleteRoom(r)
             \/ Muc!DeclineInvite(r)
             \/ Muc!AddRoom(r, a) \/ Muc!UpdateRoom(r, a)
      PROVE  Muc!TypeOK' /\ Muc!MembershipInv'
  <2>1. Muc!TypeOK'
    BY <1>6, OtherSteps
  <2>2. Quiet
    BY <1>6
         DEF Muc!Invited, Muc!BackoffPasses, Muc!DeleteRoom, Muc!DeclineInvite, Muc!AddRoom,
             Muc!UpdateRoom, Muc!NoJoin,
       Muc!Mirrors, Quiet
  <2> QED BY <2>1, <2>2, QuietHolds
<1>7. ASSUME NEW o \in Muc!Joiners, Muc!Listed(o) \/ Muc!Done(o) \/ Muc!CheckStarts
      PROVE  Muc!TypeOK' /\ Muc!MembershipInv'
  <2>1. Muc!TypeOK'
    BY <1>7, WholeSteps
  <2>2. Quiet
    BY <1>7 DEF Muc!Listed, Muc!Done, Muc!CheckStarts, Muc!Mirrors, Quiet
  <2> QED BY <2>1, <2>2, QuietHolds
<1>8. CASE Muc!SyncLeaves
  <2>1. Muc!TypeOK'
    BY <1>0, <1>8, WholeSteps
  <2>2. PICK rs \in SUBSET Rooms : Muc!Leave(rs)
    BY <1>8 DEF Muc!SyncLeaves
  <2>3. UNCHANGED <<up, join>>
    BY <1>8 DEF Muc!SyncLeaves
  <2> QED BY <2>1, <2>2, <2>3, LeaveHolds DEF Muc!MembershipInv
<1>9. CASE Muc!SyncJoins
  <2>1. Muc!TypeOK'
    BY <1>0, <1>9, WholeSteps
  <2>2. PICK rs \in SUBSET Rooms : Muc!SendJoins("command", rs)
    BY <1>0, <1>9 DEF Muc!SyncJoins, Muc!TypeOK
  <2>3. UNCHANGED <<Muc!Mirrors, up>>
    BY <1>9 DEF Muc!SyncJoins
  <2> QED BY <1>0, <2>1, <2>2, <2>3, JoinsHold DEF Muc!MembershipInv
<1>10. CASE Muc!Unload \/ Muc!SessionEnds \/ Muc!SessionReady
  <2>1. Muc!TypeOK'
    BY <1>0, <1>10, WholeSteps
  <2> QED BY <1>10, <2>1, UnloadHolds, SessionHolds DEF Muc!MembershipInv
<1>11. CASE UNCHANGED Muc!vars
  <2>1. Quiet
    BY <1>11 DEF Muc!vars, Quiet
  <2>2. Muc!TypeOK'
    BY <1>11 DEF Muc!vars, Muc!TypeOK
  <2> QED BY <2>1, <2>2, QuietHolds
<1> QED
  <2>1. Muc!Next \/ UNCHANGED Muc!vars
    OBVIOUS
  <2> QED BY <1>0, <1>1, <1>2, <1>3, <1>4, <1>5, <1>6, <1>7, <1>8, <1>9, <1>10, <1>11, <2>1
          DEF Muc!Next, Muc!Awaited

LEMMA MembershipStart == ASSUME Muc!RoomsAssumption,
    Muc!Init PROVE Muc!TypeOK /\ Muc!MembershipInv
<1>1. Muc!TypeOK
  <2>1. /\ presence \in [Rooms -> Seq(Here)]
        /\ prog \in [Muc!Joiners -> [kind : Muc!Kinds, todo : SUBSET Rooms]]
        /\ join \in [Muc!Joiners -> [Rooms -> Positions]]
    <3>1. <<>> \in Seq(Here)
      OBVIOUS
    <3> QED BY <3>1 DEF Muc!Init, Muc!Idle, Muc!Kinds, Muc!NoJoins, Positions
  <2>2. /\ commands \in 0 .. MaxCommands /\ faults \in 0 .. MaxFaults /\ up \in BOOLEAN
        /\ joined \in [Rooms -> {None, "stub", "plain", "sure"}]
    <3>1. MaxCommands \in Nat /\ MaxFaults \in Nat
      BY DEF Muc!RoomsAssumption
    <3>2. commands = 0 /\ faults = 0 /\ up = FALSE /\ joined = [r \in Rooms |-> None]
      BY DEF Muc!Init
    <3>3. 0 \in 0 .. MaxCommands /\ 0 \in 0 .. MaxFaults
      BY ONLY <3>1
    <3> QED BY ONLY <3>2, <3>3
  <2>3. \A s \in {mirror, leaving, backoff, enabled, pending, cached, server, left, crossed} :
           s \subseteq Rooms
    BY DEF Muc!Init
  <2>4. stored \in [Rooms -> BOOLEAN \union {None}]
    BY DEF Muc!Init
  <2> QED BY <2>1, <2>2, <2>3, <2>4 DEF Muc!TypeOK, Here, Positions
<1>2. ASSUME NEW r \in Rooms PROVE Muc!RoomInv(r)
  BY DEF Muc!Init, Muc!RoomInv, Muc!ServiceInv, Muc!HeardInv, Muc!Heard
<1> QED BY <1>1, <1>2 DEF Muc!MembershipInv

(* A joiner that becomes idle awaits nothing, and one that awaits is busy.  *)
LEMMA BusyStep ==
    ASSUME Muc!TypeOK, Muc!AwaitedInv, NEW o \in Muc!Joiners, NEW p \in Muc!Joiners,
           NEW r \in Rooms,
           \/ Muc!JoinFails(o, r) \/ Muc!Resumes(o, r) \/ Muc!Examine(o, r) \/ Muc!JoinLookup(r)
           \/ Muc!JoinWrite(r) \/ Muc!AcceptWrite(r) \/ Muc!AcceptForgets(r)
           \/ Muc!DeleteLeaves(r)
           \/ Muc!LoadJoins(r) \/ Muc!Presence(r)
    PROVE  prog'[p] # Muc!Idle \/ join'[p] = Muc!NoJoins
<1>0. /\ prog \in [Muc!Joiners -> [kind : Muc!Kinds, todo : SUBSET Rooms]]
      /\ join \in [Muc!Joiners -> [Rooms -> Positions]] /\ "command" \in Muc!Joiners
  BY PresenceType DEF Muc!TypeOK, Muc!Joiners
<1>1. ASSUME prog' = prog, NEW s \in Muc!Joiners, NEW x \in Positions, Muc!Goes(s, r, x),
             join[s][r] # "no"
      PROVE  prog'[p] # Muc!Idle \/ join'[p] = Muc!NoJoins
  <2>1. prog[s] # Muc!Idle
    BY <1>1 DEF Muc!AwaitedInv, Muc!Busy, Muc!NoJoins
  <2>2. p # s => join'[p] = join[p]
    BY <1>0, <1>1 DEF Muc!Goes
  <2> QED BY <1>1, <2>1, <2>2 DEF Muc!AwaitedInv, Muc!Busy
<1>2. \A s \in Muc!Joiners : Muc!Finish(s, r) <=> Muc!Goes(s, r, "no")
  BY DEF Muc!Finish, Muc!Goes
<1>3. /\ "no" \in Positions /\ "lookup" \in Positions /\ "write" \in Positions /\ "forget" \in Positions
      /\ "sent" \in Positions
  BY DEF Positions
<1>4. CASE Muc!JoinFails(o, r)
  <2>1. prog' = prog /\ Muc!Goes(o, r, "no") /\ join[o][r] # "no"
    BY <1>2, <1>4 DEF Muc!JoinFails
  <2> QED BY <1>1, <1>3, <2>1
<1>5. CASE Muc!Resumes(o, r)
  <2>1. prog' = prog /\ join[o][r] # "no" /\ \E x \in Positions : Muc!Goes(o, r, x)
    BY <1>2, <1>3, <1>5 DEF Muc!Resumes
  <2> QED BY <1>1, <2>1
<1>6. CASE Muc!JoinLookup(r)
  <2>1. prog' = prog /\ Muc!Goes("command", r, "write") /\ join["command"][r] # "no"
    BY <1>6 DEF Muc!JoinLookup
  <2> QED BY <1>0, <1>1, <1>3, <2>1
<1>7. CASE Muc!JoinWrite(r)
  <2>1. prog' = prog /\ Muc!Goes("command", r, "no") /\ join["command"][r] # "no"
    BY <1>0, <1>2, <1>7 DEF Muc!JoinWrite
  <2> QED BY <1>0, <1>1, <1>3, <2>1
<1>8. CASE Muc!AcceptWrite(r)
  <2>1. prog' = prog /\ Muc!Goes("command", r, "forget") /\ join["command"][r] # "no"
    BY <1>8 DEF Muc!AcceptWrite
  <2> QED BY <1>0, <1>1, <1>3, <2>1
<1>9. CASE Muc!AcceptForgets(r)
  <2>1. prog' = prog /\ Muc!Goes("command", r, "no") /\ join["command"][r] # "no"
    BY <1>0, <1>2, <1>9 DEF Muc!AcceptForgets
  <2> QED BY <1>0, <1>1, <1>3, <2>1
<1>10. CASE Muc!Examine(o, r)
  <2>1. prog[o].kind = "reconcile" /\ prog' = [prog EXCEPT ![o].todo = @ \ {r}]
    BY <1>10 DEF Muc!Examine
  <2>2. p # o => prog'[p] = prog[p]
    BY <1>0, <2>1
  <2>3. prog'[o] # Muc!Idle
    <3>1. prog'[o].kind = "reconcile"
      BY <1>0, <2>1
    <3> QED BY <3>1 DEF Muc!Idle
  <2>4. p # o => join'[p] = join[p]
    BY <1>0, <1>10 DEF Muc!Examine, Muc!NoJoin, Muc!Goes
  <2> QED BY <2>2, <2>3, <2>4 DEF Muc!AwaitedInv, Muc!Busy
<1>11. CASE Muc!DeleteLeaves(r) \/ Muc!LoadJoins(r)
  <2>1. prog["command"].kind # "idle" /\ \E s : prog' = [prog EXCEPT !["command"].todo = s]
    BY <1>11 DEF Muc!DeleteLeaves, Muc!LoadJoins
  <2>2. p # "command" => prog'[p] = prog[p]
    BY <1>0, <2>1
  <2>3. prog'["command"] # Muc!Idle
    <3>1. prog'["command"].kind # "idle"
      BY <1>0, <2>1
    <3> QED BY <3>1 DEF Muc!Idle
  <2>4. p # "command" => join'[p] = join[p]
    BY <1>0, <1>11 DEF Muc!DeleteLeaves, Muc!LoadJoins, Muc!SendJoins
  <2> QED BY <2>2, <2>3, <2>4 DEF Muc!AwaitedInv, Muc!Busy
<1>12. CASE Muc!Presence(r)
  <2>1. prog' = prog
    BY <1>12 DEF Muc!Presence
  <2>2. join[p] = Muc!NoJoins => join'[p] = Muc!NoJoins
    <3>1. \/ join' = join
          \/ join' = [s \in Muc!Joiners |->
                          [join[s] EXCEPT ![r] = IF @ = "sent" THEN "heard" ELSE @]]
      BY <1>12 DEF Muc!Presence
    <3> QED BY <1>0, <3>1 DEF Muc!NoJoins
  <2> QED BY <2>1, <2>2 DEF Muc!AwaitedInv, Muc!Busy
<1> QED BY <1>4, <1>5, <1>6, <1>7, <1>8, <1>9, <1>10, <1>11, <1>12

LEMMA BusyBegin ==
    ASSUME Muc!TypeOK, Muc!AwaitedInv, NEW p \in Muc!Joiners, NEW o \in Muc!Joiners,
           \/ \E r \in Rooms : Muc!DeleteRoom(r) \/ Muc!JoinRoom(r) \/ Muc!AcceptInvite(r)
           \/ Muc!SyncLeaves \/ Muc!SyncJoins \/ Muc!Unload
           \/ Muc!Listed(o) \/ Muc!Done(o) \/ Muc!CheckStarts \/ Muc!SessionEnds
           \/ Muc!SessionReady
    PROVE  prog'[p] # Muc!Idle \/ join'[p] = Muc!NoJoins
<1>0. /\ prog \in [Muc!Joiners -> [kind : Muc!Kinds, todo : SUBSET Rooms]]
      /\ join \in [Muc!Joiners -> [Rooms -> Positions]]
      /\ "command" \in Muc!Joiners /\ "check" \in Muc!Joiners /\ "session" \in Muc!Joiners
  BY PresenceType DEF Muc!TypeOK, Muc!Joiners
<1>1. ASSUME NEW k \in Muc!Kinds, k # "idle", NEW s, Muc!Runs(k, s),
             \A q \in Muc!Joiners \ {"command"} : join'[q] = join[q]
      PROVE  prog'[p] # Muc!Idle \/ join'[p] = Muc!NoJoins
  <2>1. p # "command" => prog'[p] = prog[p]
    BY <1>0, <1>1 DEF Muc!Runs
  <2>2. prog'["command"] # Muc!Idle
    <3>1. prog'["command"].kind = k
      BY <1>0, <1>1 DEF Muc!Runs
    <3> QED BY <1>1, <3>1 DEF Muc!Idle
  <2> QED BY <1>1, <2>1, <2>2 DEF Muc!AwaitedInv, Muc!Busy
<1>2. CASE (\E r \in Rooms : Muc!DeleteRoom(r)) \/ Muc!SyncLeaves
  <2>1. join' = join /\ \E k \in Muc!Kinds, s \in SUBSET Rooms : k # "idle" /\ Muc!Runs(k, s)
    BY <1>2 DEF Muc!DeleteRoom, Muc!SyncLeaves, Muc!NoJoin, Muc!Kinds, Muc!Autojoin
  <2> QED BY <1>1, <2>1
<1>3. CASE (\E r \in Rooms : Muc!JoinRoom(r) \/ Muc!AcceptInvite(r)) \/ Muc!SyncJoins
  <2>1. \E k \in Muc!Kinds, s \in SUBSET Rooms : k # "idle" /\ Muc!Runs(k, s)
    BY <1>3 DEF Muc!JoinRoom, Muc!AcceptInvite, Muc!SyncJoins, Muc!Kinds
  <2>2. \A q \in Muc!Joiners \ {"command"} : join'[q] = join[q]
    BY <1>0, <1>3 DEF Muc!JoinRoom, Muc!AcceptInvite, Muc!SyncJoins, Muc!SendJoins
  <2> QED BY <1>1, <2>1, <2>2
<1>4. CASE Muc!Unload
  <2>1. PICK rs : prog' = [prog EXCEPT !["command"] = [kind |-> "reload", todo |-> rs],
                                       !["check"] = Muc!Idle]
    BY <1>4 DEF Muc!Unload
  <2>2. join' = [join EXCEPT !["check"] = Muc!NoJoins]
    BY <1>4 DEF Muc!Unload
  <2>3. [kind |-> "reload", todo |-> rs] # Muc!Idle
    <3>1. [kind |-> "reload", todo |-> rs].kind # Muc!Idle.kind
      BY DEF Muc!Idle
    <3> QED BY <3>1
  <2>4. CASE p = "command"
    BY <1>0, <2>1, <2>3, <2>4
  <2>5. CASE p = "check"
    BY <1>0, <2>2, <2>5
  <2>6. CASE p # "command" /\ p # "check"
    BY <1>0, <2>1, <2>2, <2>6 DEF Muc!AwaitedInv, Muc!Busy
  <2> QED BY <2>4, <2>5, <2>6
<1>5. ASSUME NEW q \in Muc!Joiners, NEW k, k # "idle", NEW s,
             prog' = [prog EXCEPT ![q] = [kind |-> k, todo |-> s]], join' = join
      PROVE  prog'[p] # Muc!Idle \/ join'[p] = Muc!NoJoins
  <2>1. [kind |-> k, todo |-> s] # Muc!Idle
    <3>1. [kind |-> k, todo |-> s].kind # Muc!Idle.kind
      BY <1>5 DEF Muc!Idle
    <3> QED BY <3>1
  <2> QED BY <1>0, <1>5, <2>1 DEF Muc!AwaitedInv, Muc!Busy
<1>6. CASE Muc!Listed(o)
  BY <1>5, <1>6 DEF Muc!Listed
<1>7. CASE Muc!CheckStarts
  BY <1>0, <1>5, <1>7 DEF Muc!CheckStarts
<1>8. CASE Muc!SessionReady
  BY <1>0, <1>5, <1>8 DEF Muc!SessionReady
<1>9. CASE Muc!Done(o)
  <2>1. join' = join /\ join[o] = Muc!NoJoins /\ prog' = [prog EXCEPT ![o] = Muc!Idle]
    BY <1>9 DEF Muc!Done
  <2> QED BY <1>0, <2>1 DEF Muc!AwaitedInv, Muc!Busy
<1>10. CASE Muc!SessionEnds
  <2>1. /\ prog' = [prog EXCEPT !["session"] = Muc!Idle]
        /\ join' = [join EXCEPT !["session"] = Muc!NoJoins]
    BY <1>10 DEF Muc!SessionEnds
  <2> QED BY <1>0, <2>1 DEF Muc!AwaitedInv, Muc!Busy
<1> QED BY <1>2, <1>3, <1>4, <1>6, <1>7, <1>8, <1>9, <1>10

LEMMA AwaitedStep ==
    ASSUME Muc!TypeOK, Muc!AwaitedInv, [Muc!Next]_(Muc!vars)
    PROVE  Muc!AwaitedInv'
<1> SUFFICES ASSUME NEW p \in Muc!Joiners PROVE prog'[p] # Muc!Idle \/ join'[p] = Muc!NoJoins
  BY DEF Muc!AwaitedInv, Muc!Busy
<1>0. "command" \in Muc!Joiners
  BY DEF Muc!Joiners
<1>1. ASSUME UNCHANGED <<prog, join>> PROVE prog'[p] # Muc!Idle \/ join'[p] = Muc!NoJoins
  BY <1>1 DEF Muc!AwaitedInv, Muc!Busy
<1>2. ASSUME NEW r \in Rooms, NEW a \in BOOLEAN,
             \/ Muc!Kick(r) \/ Muc!Invited(r) \/ Muc!BackoffPasses(r) \/ Muc!LeaveRoom(r)
             \/ Muc!DeclineInvite(r)
             \/ Muc!AddRoom(r, a) \/ Muc!UpdateRoom(r, a)
      PROVE  UNCHANGED <<prog, join>>
  BY <1>2
       DEF Muc!Kick, Muc!Invited, Muc!BackoffPasses, Muc!LeaveRoom, Muc!DeclineInvite,
           Muc!AddRoom, Muc!UpdateRoom, Muc!NoJoin
<1>3. ASSUME NEW o \in Muc!Joiners,
             \/ \E r \in Rooms : Muc!DeleteRoom(r) \/ Muc!JoinRoom(r) \/ Muc!AcceptInvite(r)
             \/ Muc!Listed(o) \/ Muc!Done(o)
             \/ Muc!SyncLeaves \/ Muc!SyncJoins \/ Muc!Unload \/ Muc!CheckStarts
             \/ Muc!SessionEnds \/ Muc!SessionReady
      PROVE  prog'[p] # Muc!Idle \/ join'[p] = Muc!NoJoins
  BY <1>3, BusyBegin
<1>5. CASE UNCHANGED Muc!vars
  BY <1>1, <1>5 DEF Muc!vars
<1> QED
  <2>1. Muc!Next \/ UNCHANGED Muc!vars
    OBVIOUS
  <2> QED BY <1>0, <1>1, <1>2, <1>3, <1>5, <2>1, BusyStep DEF Muc!Next, Muc!Awaited

(* With nothing under way the mirrors show the rooms the bot is in, unless  *)
(* a join of the room was crossed, and a room that a command left stays     *)
(* left until a command asks for it.                                        *)
THEOREM RoomsAreAlwaysTrue == ASSUME Muc!RoomsAssumption PROVE Muc!Spec => []Muc!RoomsAreTrue
<1> DEFINE Inv == Muc!TypeOK /\ Muc!AwaitedInv /\ Muc!MembershipInv
<1>1. Muc!Init => Inv
  <2>1. Muc!Init => Muc!AwaitedInv
    BY DEF Muc!Init, Muc!AwaitedInv
  <2> QED BY <2>1, MembershipStart
<1>2. Inv /\ [Muc!Next]_(Muc!vars) => Inv'
  BY AwaitedStep, MembershipStep
<1>3. Inv => Muc!RoomsAreTrue
  <2> SUFFICES ASSUME Muc!TypeOK, Muc!AwaitedInv, Muc!MembershipInv PROVE Muc!RoomsAreTrue
    OBVIOUS
  <2>1. Muc!LeftStaysLeft
    BY DEF Muc!LeftStaysLeft, Muc!MembershipInv, Muc!RoomInv, Muc!ServiceInv, Muc!TypeOK
  <2>2. ASSUME Muc!Resting, NEW r \in Rooms, r \notin crossed
        PROVE  (r \in mirror <=> r \in server) /\ (Muc!Shown(r) <=> r \in server)
    <3>1. Muc!RoomInv(r) /\ None # "stub" /\ None # "plain" /\ None # "sure"
      BY DEF Muc!MembershipInv, Muc!RoomsAssumption
    <3>2. Muc!Heard(r) /\ up
      BY <2>2 DEF Muc!Resting, Muc!Heard
    <3>3. ~Muc!InFlight(r)
      BY <2>2 DEF Muc!Resting, Muc!AwaitedInv, Muc!InFlight, Muc!NoJoins
    <3>4. joined[r] \in {None, "stub", "plain", "sure"}
      BY DEF Muc!TypeOK
    <3> QED BY <2>2, <3>1, <3>2, <3>3, <3>4
         DEF Muc!RoomInv, Muc!HeardInv, Muc!UncrossedInv, Muc!Shown
  <2> QED BY <2>1, <2>2 DEF Muc!RoomsAreTrue, Muc!MirrorsAreTrue, Muc!Shown
<1> QED BY <1>1, <1>2, <1>3, PTL DEF Muc!Spec

-----------------------------------------------------------------------------
(* Users.                                                                   *)

(* A list of nicks stays one.                                               *)
LEMMA RemovedType ==
    ASSUME NEW s \in Seq(Nicks), NEW n
    PROVE  People!Removed(s, n) \in Seq(Nicks)
<1>1. CASE n \in People!Items(s)
  <2>1. PICK i : i = CHOOSE k \in 1 .. Len(s) : s[k] = n
    OBVIOUS
  <2>2. i \in 1 .. Len(s)
    BY <1>1, <2>1 DEF People!Items
  <2>3. People!Removed(s, n) = SubSeq(s, 1, i - 1) \o SubSeq(s, i + 1, Len(s))
    BY <1>1, <2>1 DEF People!Removed
  <2>4. SubSeq(s, 1, i - 1) \in Seq(Nicks) /\ SubSeq(s, i + 1, Len(s)) \in Seq(Nicks)
    BY <2>2
  <2> QED BY <2>3, <2>4
<1>2. CASE n \notin People!Items(s)
  BY <1>2 DEF People!Removed
<1> QED BY <1>1, <1>2

LEMMA FrontType ==
    ASSUME People!UsersAssumption, NEW s \in Seq(Nicks), NEW n \in Nicks
    PROVE  People!Front(s, n) \in Seq(Nicks) /\ Len(People!Front(s, n)) <= MAX_ROOM_NICKS
<1>1. PICK q : q = <<n>> \o People!Removed(s, n)
  OBVIOUS
<1>2. q \in Seq(Nicks)
  <2>1. <<n>> \in Seq(Nicks)
    OBVIOUS
  <2> QED BY <1>1, <2>1, RemovedType
<1>3. PICK m : m = IF Len(q) < MAX_ROOM_NICKS THEN Len(q) ELSE MAX_ROOM_NICKS
  OBVIOUS
<1>4. m \in Nat /\ m <= Len(q) /\ m <= MAX_ROOM_NICKS
  BY <1>2, <1>3 DEF People!UsersAssumption
<1>5. People!Front(s, n) = SubSeq(q, 1, m)
  BY <1>1, <1>3 DEF People!Front
<1>6. SubSeq(q, 1, m) \in Seq(Nicks) /\ Len(SubSeq(q, 1, m)) = m
  BY <1>2, <1>4
<1> QED BY <1>4, <1>5, <1>6

LEMMA KnownType ==
    ASSUME NEW h \in [Rooms -> Seq(Nicks)]
    PROVE  People!Known(h) \subseteq Nicks
<1> SUFFICES ASSUME NEW r \in Rooms, NEW i \in 1 .. Len(h[r]) PROVE h[r][i] \in Nicks
  BY DEF People!Known, People!Items
<1> QED OBVIOUS

(* What a handler does next keeps it one.                                   *)
LEMMA HandlerFields ==
    ASSUME People!UsersAssumption, People!TypeOK, NEW t \in Tasks, task[t] # People!Idle
    PROVE  /\ task[t].user \in Users
           /\ task[t].kind \in {"presence", "message", "delete", "grant", "revoke"}
           /\ task[t].kind = "presence" =>
                /\ task[t].room \in Rooms /\ task[t].nick \in Nicks
                /\ task[t].pc \in {"row", "clear", "add", "nick"}
           /\ task[t].kind = "message" => task[t].pc \in {"row", "clear", "add"}
           /\ task[t].kind = "delete" => task[t].pc \in {"drop", "direct", "room", "deleted"}
           /\ task[t].kind \in {"grant", "revoke"} => task[t].pc = "set"
<1>1. task[t] \in People!Handlers
  BY DEF People!TypeOK
<1> QED BY <1>1 DEF People!Handlers

LEMMA IdleFields ==
    People!UsersAssumption => People!Idle.user \notin Users /\ People!Idle.pc = "end" /\ People!Idle.kind = "idle"
  BY DEF People!UsersAssumption, People!Idle

(* One handler goes on, or ends.                                            *)
LEMMA WentOn ==
    ASSUME People!UsersAssumption, People!TypeOK, NEW t \in Tasks, task[t] # People!Idle,
           NEW pc,
           pc # "end" => [task[t] EXCEPT !.pc = pc] \in People!Handlers,
           People!Goes(t, pc)
    PROVE  /\ task' \in [Tasks -> People!Handlers]
           /\ \A s \in Tasks : s # t => task'[s] = task[s]
           /\ pc # "end" => /\ task'[t].user = task[t].user /\ task'[t].kind = task[t].kind
                            /\ task'[t].pc = pc
           /\ pc = "end" => task'[t] = People!Idle
<1>1. task \in [Tasks -> People!Handlers] /\ People!Idle \in People!Handlers
  BY DEF People!TypeOK, People!Handlers
<1>2. CASE pc = "end"
  <2>1. task' = [task EXCEPT ![t] = People!Idle]
    BY <1>2 DEF People!Goes
  <2> QED BY <1>1, <1>2, <2>1
<1>3. CASE pc # "end"
  <2>1. PICK h \in People!Handlers : h = [task[t] EXCEPT !.pc = pc]
    BY <1>3
  <2>2. h.user = task[t].user /\ h.kind = task[t].kind /\ h.pc = pc
    <3>1. task[t] \in People!Handlers
      BY <1>1
    <3>2. /\ task[t] = [kind |-> task[t].kind, user |-> task[t].user, room |-> task[t].room,
                        nick |-> task[t].nick, pc |-> task[t].pc]
      BY <3>1 DEF People!Handlers, People!Idle
    <3>3. h = [kind |-> task[t].kind, user |-> task[t].user, room |-> task[t].room,
                        nick |-> task[t].nick, pc |-> pc]
      BY <2>1, <3>2
    <3> QED BY <3>3
  <2>3. task' = [task EXCEPT ![t] = h]
    BY <1>3, <2>1 DEF People!Goes
  <2> QED BY <1>1, <1>3, <2>2, <2>3
<1> QED BY <1>2, <1>3

(* The type invariant.                                                      *)
LEMMA ReindexedType ==
    ASSUME People!TypeOK, NEW u \in Users, NEW new, new \subseteq Nicks, People!Reindex(u, new)
    PROVE  /\ index' \in People!Indexes /\ stale' \subseteq Users /\ failed' \subseteq Users
           /\ \A n \in Nicks, v \in Users \ {u} : v \in index'[n].jids <=> v \in index[n].jids
           /\ u \in failed' \/ \A n \in Nicks : u \in index'[n].jids <=> n \in new
           /\ stale' \union {u} = stale \union {u} /\ failed' \union {u} = failed \union {u}
<1>1. PICK bare : bare = People!Without(u)
  OBVIOUS
<1>2. /\ bare \in People!Indexes
      /\ \A n \in Nicks : u \notin bare[n].jids
      /\ \A n \in Nicks, v \in Users \ {u} : v \in bare[n].jids <=> v \in index[n].jids
  BY <1>1 DEF People!Without, People!Indexes, People!TypeOK
<1>3. ASSUME NEW ns, ns \subseteq Nicks, index' = People!Plus(bare, u, ns)
      PROVE  /\ index' \in People!Indexes
             /\ \A n \in Nicks : u \in index'[n].jids <=> n \in ns
             /\ \A n \in Nicks, v \in Users \ {u} : v \in index'[n].jids <=> v \in index[n].jids
  BY <1>2, <1>3 DEF People!Plus, People!Indexes
<1>4. \/ index' = People!Plus(bare, u, new) /\ stale' = stale \ {u} /\ failed' = failed \ {u}
      \/ /\ \E some \in SUBSET new : index' = People!Plus(bare, u, some)
         /\ failed' = failed \union {u} /\ UNCHANGED stale
  BY <1>1 DEF People!Reindex, People!Reindexed
<1>5. CASE index' = People!Plus(bare, u, new) /\ stale' = stale \ {u} /\ failed' = failed \ {u}
  BY <1>3, <1>5 DEF People!TypeOK
<1>6. CASE /\ \E some \in SUBSET new : index' = People!Plus(bare, u, some)
           /\ failed' = failed \union {u} /\ UNCHANGED stale
  <2>1. PICK some \in SUBSET new : index' = People!Plus(bare, u, some)
    BY <1>6
  <2> QED BY <1>3, <1>6, <2>1 DEF People!TypeOK
<1> QED BY <1>4, <1>5, <1>6

LEMMA NickTracked ==
    ASSUME People!UsersAssumption, People!TypeOK, NEW t \in Tasks, People!TrackNick(t),
           NEW u, u = task[t].user
    PROVE  /\ u \in Users /\ task[t] # People!Idle /\ task[t].pc = "nick"
           /\ history' \in [Users -> [Rooms -> Seq(Nicks)]]
           /\ \A v \in Users, r \in Rooms : Len(history'[v][r]) <= MAX_ROOM_NICKS
           /\ \A v \in Users \ {u} : history'[v] = history[v]
           /\ \/ UNCHANGED <<history, index, stored, stale, failed>>
              \/ /\ People!Reindex(u, People!Known(history'[u]))
                 /\ stored' = IF shared THEN index' ELSE stored
<1>1. task[t] # People!Idle /\ task[t].pc = "nick"
  BY DEF People!TrackNick, People!At
<1>2. u \in Users /\ task[t].room \in Rooms /\ task[t].nick \in Nicks
  BY <1>1, HandlerFields
<1>3. CASE UNCHANGED <<history, index, stored, stale, failed>>
  BY <1>1, <1>2, <1>3 DEF People!TypeOK
<1>4. CASE ~UNCHANGED <<history, index, stored, stale, failed>>
  <2>1. PICK r \in Rooms, n \in Nicks :
          /\ history' = [history EXCEPT ![u][r] = People!Front(@, n)]
          /\ People!Reindex(u, People!Known(history'[u]))
          /\ stored' = IF shared THEN index' ELSE stored
    BY <1>2, <1>4 DEF People!TrackNick
  <2>2. PICK f \in Seq(Nicks) : f = People!Front(history[u][r], n) /\ Len(f) <= MAX_ROOM_NICKS
    <3>1. history[u][r] \in Seq(Nicks)
      BY <1>2 DEF People!TypeOK
    <3> QED BY <3>1, FrontType
  <2>3. history' = [history EXCEPT ![u][r] = f]
    BY <2>1, <2>2
  <2>4. history \in [Users -> [Rooms -> Seq(Nicks)]]
    BY DEF People!TypeOK
  <2>5. /\ history' \in [Users -> [Rooms -> Seq(Nicks)]]
        /\ \A v \in Users, s \in Rooms :
              history'[v][s] = IF v = u /\ s = r THEN f ELSE history[v][s]
        /\ \A v \in Users \ {u} : history'[v] = history[v]
    BY <1>2, <2>3, <2>4
  <2>6. \A v \in Users, s \in Rooms : Len(history'[v][s]) <= MAX_ROOM_NICKS
    BY <2>2, <2>5 DEF People!TypeOK
  <2> QED BY <1>1, <1>2, <2>1, <2>5, <2>6
<1> QED BY <1>3, <1>4

OthersKept(u) ==
    \A v \in Users \ {u} :
        /\ history'[v] = history[v]
        /\ \A n \in Nicks : v \in index'[n].jids <=> v \in index[n].jids

ShortNicks == \A v \in Users, r \in Rooms : Len(history[v][r]) <= MAX_ROOM_NICKS

LEMMA Dropped ==
    ASSUME People!UsersAssumption, People!TypeOK, NEW t \in Tasks, People!Drop(t), NEW u,
           u = task[t].user
    PROVE  /\ u \in Users /\ task[t] # People!Idle /\ task[t].pc = "drop"
           /\ history' \in [Users -> [Rooms -> Seq(Nicks)]] /\ index' \in People!Indexes
           /\ ShortNicks' /\ OthersKept(u)
           /\ People!Known(history'[u]) = {} /\ \A n \in Nicks : u \notin index'[n].jids
<1>1. task[t] # People!Idle /\ task[t].pc = "drop"
  BY DEF People!Drop, People!At
<1>2. u \in Users
  BY <1>1, HandlerFields
<1>3. People!Forgotten \in [Rooms -> Seq(Nicks)] /\ (\A r \in Rooms : Len(People!Forgotten[r]) = 0)
      /\ People!Known(People!Forgotten) = {}
  <2>1. <<>> \in Seq(Nicks) /\ Len(<<>>) = 0 /\ People!Items(<<>>) = {}
    BY DEF People!Items
  <2> QED BY <2>1 DEF People!Forgotten, People!Known
<1>4. history' = [history EXCEPT ![u] = People!Forgotten] /\ history \in [Users -> [Rooms -> Seq(Nicks)]]
  BY DEF People!Drop, People!DropRows, People!TypeOK
<1>5. /\ history' \in [Users -> [Rooms -> Seq(Nicks)]] /\ history'[u] = People!Forgotten
      /\ \A v \in Users \ {u} : history'[v] = history[v]
  BY <1>2, <1>3, <1>4
<1>6. \A v \in Users, r \in Rooms : Len(history'[v][r]) <= MAX_ROOM_NICKS
  <2> SUFFICES ASSUME NEW v \in Users, NEW r \in Rooms
               PROVE  Len(history'[v][r]) <= MAX_ROOM_NICKS
    OBVIOUS
  <2>1. MAX_ROOM_NICKS \in Nat
    BY DEF People!UsersAssumption
  <2>2. CASE v = u
    BY <1>3, <1>5, <2>1, <2>2
  <2>3. CASE v # u
    BY <1>5, <2>3 DEF People!TypeOK
  <2> QED BY <2>2, <2>3
<1>7. index' = People!Unindexed(u) /\ index \in People!Indexes
  BY DEF People!Drop, People!TypeOK
<1>8. ASSUME NEW n \in Nicks
      PROVE  /\ index'[n] \in [type : {"list", "set"}, jids : SUBSET Users]
             /\ u \notin index'[n].jids
             /\ \A v \in Users \ {u} : v \in index'[n].jids <=> v \in index[n].jids
  <2>1. index[n] \in [type : {"list", "set"}, jids : SUBSET Users]
    BY <1>7 DEF People!Indexes
  <2>2. index'[n] = IF u \notin index[n].jids THEN index[n]
                    ELSE IF index[n].jids = {u} THEN People!Nobody
                    ELSE [type |-> "set", jids |-> index[n].jids \ {u}]
    BY <1>7 DEF People!Unindexed
  <2> QED BY <2>1, <2>2 DEF People!Nobody
<1>9. index' \in People!Indexes
  BY <1>7, <1>8 DEF People!Unindexed, People!Indexes
<1>10. OthersKept(u)
  BY <1>5, <1>8 DEF OthersKept
<1>11. People!Known(history'[u]) = {} /\ \A n \in Nicks : u \notin index'[n].jids
  BY <1>3, <1>5, <1>8
<1>12. ShortNicks'
  BY <1>6 DEF ShortNicks
<1> QED BY <1>1, <1>2, <1>5, <1>9, <1>10, <1>11, <1>12

LEMMA StartType ==
    ASSUME People!UsersAssumption, People!TypeOK, NEW t \in Tasks, NEW u \in Users,
           NEW h \in People!Handlers,
           task[t] = People!Idle, events < MaxEvents, events' = events + 1,
           task' = [task EXCEPT ![t] = h],
           raced' = raced \/ raced' = raced \union {u}, occupants' \subseteq Users,
           UNCHANGED <<row, listed, history, grants, index, stored, shared, stale, failed>>
    PROVE  People!TypeOK'
<1>1. events' \in 0 .. MaxEvents
  BY DEF People!TypeOK, People!UsersAssumption
<1>2. task' \in [Tasks -> People!Handlers]
  BY DEF People!TypeOK
<1>3. raced' \subseteq Users
  BY DEF People!TypeOK
<1> QED BY <1>1, <1>2, <1>3 DEF People!TypeOK

(* The handler that an action starts.                                       *)
Started(t, u, kinds, pcs) ==
    \E h \in People!Handlers :
        /\ h.user = u /\ h.kind \in kinds /\ h.pc \in pcs /\ task' = [task EXCEPT ![t] = h]
        /\ raced' = IF People!Overlaps(h.kind, u) THEN raced \union {u} ELSE raced
        /\ task[t] = People!Idle /\ events < MaxEvents /\ events' = events + 1
        /\ UNCHANGED <<row, listed, history, grants, index, stored, shared, stale, failed>>
        /\ occupants' \subseteq Users

LEMMA StartSteps ==
    ASSUME People!TypeOK, NEW t \in Tasks, NEW u \in Users,
           \/ \E r \in Rooms, n \in Nicks : People!Presence(t, u, r, n)
           \/ People!PrivateMessage(t, u) \/ People!UsersDelete(t, u)
           \/ People!ValidateGrantChange(t, u)
    PROVE  \/ Started(t, u, {"presence", "message"}, {"row"})
           \/ Started(t, u, {"delete"}, {"drop"}) /\ u \in row
           \/ Started(t, u, {"grant", "revoke"}, {"set"}) /\ u \in row
<1>0. occupants \subseteq Users
  BY DEF People!TypeOK
<1>1. ASSUME NEW kind, NEW r, NEW n, NEW pc, People!Starts(t, kind, u, r, n, pc),
             NEW h, h = [kind |-> kind, user |-> u, room |-> r, nick |-> n, pc |-> pc],
             h \in People!Handlers, occupants' \subseteq Users, NEW kinds, NEW pcs,
             kind \in kinds, pc \in pcs
      PROVE  Started(t, u, kinds, pcs)
  <2>1. h.user = u /\ h.kind = kind /\ h.pc = pc
    BY <1>1
  <2> QED BY <1>1, <2>1 DEF People!Starts, Started
<1>2. CASE \E r \in Rooms, n \in Nicks : People!Presence(t, u, r, n)
  <2>1. PICK r \in Rooms, n \in Nicks : People!Presence(t, u, r, n)
    BY <1>2
  <2>2. PICK h : h = [kind |-> "presence", user |-> u, room |-> r, nick |-> n, pc |-> "row"]
    OBVIOUS
  <2>3. h \in People!Handlers
    BY <2>2 DEF People!Handlers
  <2>4. People!Starts(t, "presence", u, r, n, "row") /\ occupants' \subseteq Users
    BY <1>0, <2>1 DEF People!Presence
  <2>5. "presence" \in {"presence", "message"} /\ "row" \in {"row"}
    OBVIOUS
  <2>6. Started(t, u, {"presence", "message"}, {"row"})
    BY <1>1, <2>2, <2>3, <2>4, <2>5
  <2> QED BY <2>6
<1>3. CASE People!PrivateMessage(t, u)
  <2>2. PICK h : h = [kind |-> "message", user |-> u, room |-> None, nick |-> None,
      pc |-> "row"]
    OBVIOUS
  <2>3. h \in People!Handlers
    BY <2>2 DEF People!Handlers
  <2>4. People!Starts(t, "message", u, None, None, "row") /\ occupants' \subseteq Users
    BY <1>0, <1>3 DEF People!PrivateMessage
  <2>5. "message" \in {"presence", "message"} /\ "row" \in {"row"}
    OBVIOUS
  <2>6. Started(t, u, {"presence", "message"}, {"row"})
    BY <1>1, <2>2, <2>3, <2>4, <2>5
  <2> QED BY <2>6
<1>4. CASE People!UsersDelete(t, u)
  <2>2. PICK h : h = [kind |-> "delete", user |-> u, room |-> None, nick |-> None,
      pc |-> "drop"]
    OBVIOUS
  <2>3. h \in People!Handlers
    BY <2>2 DEF People!Handlers
  <2>4. People!Starts(t, "delete", u, None, None,
      "drop") /\ occupants' \subseteq Users /\ u \in row
    BY <1>0, <1>4 DEF People!UsersDelete
  <2>5. "delete" \in {"delete"} /\ "drop" \in {"drop"}
    OBVIOUS
  <2>6. Started(t, u, {"delete"}, {"drop"})
    BY <1>1, <2>2, <2>3, <2>4, <2>5
  <2> QED BY <2>4, <2>6
<1>5. CASE People!ValidateGrantChange(t, u)
  <2>1. PICK kind \in {"grant", "revoke"} : People!Starts(t, kind, u, None, None, "set")
    BY <1>5 DEF People!ValidateGrantChange
  <2>2. PICK h : h = [kind |-> kind, user |-> u, room |-> None, nick |-> None, pc |-> "set"]
    OBVIOUS
  <2>3. h \in People!Handlers
    BY <2>2 DEF People!Handlers
  <2>4. occupants' \subseteq Users /\ u \in row
    BY <1>0, <1>5 DEF People!ValidateGrantChange
  <2>5. "set" \in {"set"}
    OBVIOUS
  <2>6. Started(t, u, {"grant", "revoke"}, {"set"})
    BY <1>1, <2>1, <2>2, <2>3, <2>4, <2>5
  <2> QED BY <2>4, <2>6
<1> QED BY <1>2, <1>3, <1>4, <1>5

(* The steps of a handler: the handler, its user, where it goes, and what   *)
(* is left alone.                                                            *)
Moved(t, u, from, to) ==
    /\ t \in Tasks /\ u \in Users /\ u = task[t].user
    /\ task[t] # People!Idle /\ task[t].pc = from
    /\ task' \in [Tasks -> People!Handlers] /\ \A s \in Tasks : s # t => task'[s] = task[s]
    /\ to # "end" => task'[t].user = u /\ task'[t].kind = task[t].kind /\ task'[t].pc = to
    /\ to = "end" => task'[t] = People!Idle
    /\ UNCHANGED <<shared, occupants, raced, events>>

LEMMA MovedOn ==
    ASSUME People!UsersAssumption, People!TypeOK, NEW t \in Tasks, task[t] # People!Idle,
           NEW from, NEW to,
           task[t].pc = from, People!Goes(t, to), UNCHANGED <<shared, occupants, raced,
               events>>,
           to # "end" => [task[t] EXCEPT !.pc = to] \in People!Handlers
    PROVE  Moved(t, task[t].user, from, to)
<1>1. task[t].user \in Users
  BY HandlerFields
<1>2. /\ task' \in [Tasks -> People!Handlers]
      /\ \A s \in Tasks : s # t => task'[s] = task[s]
      /\ to # "end" => /\ task'[t].user = task[t].user /\ task'[t].kind = task[t].kind
                       /\ task'[t].pc = to
      /\ to = "end" => task'[t] = People!Idle
  BY WentOn
<1> QED BY <1>1, <1>2 DEF Moved

LEMMA HandlerSteps ==
    ASSUME People!UsersAssumption, People!TypeOK, NEW t \in Tasks, NEW u, u = task[t].user,
           \/ People!CreateRow(t) \/ People!ClearUserDeleted(t)
           \/ People!RememberUserSource(t) \/ People!TrackNick(t)
           \/ People!Drop(t) \/ People!MarkUserDeleted(t) \/ People!SetGrants(t)
    PROVE  \/ Moved(t, u, "row", "clear") /\ People!CreateRow(t)
           \/ Moved(t, u, "clear", "add") /\ People!SetListed(t, "deleted", FALSE)
           \/ Moved(t, u, "add", "nick") /\ People!SetListed(t, "room", TRUE)
           \/ Moved(t, u, "add", "end") /\ People!SetListed(t, "direct", TRUE)
           \/ Moved(t, u, "nick", "end") /\ People!TrackNick(t)
           \/ Moved(t, u, "drop", "direct") /\ People!Drop(t)
           \/ Moved(t, u, "direct", "room") /\ People!SetListed(t, "direct", FALSE)
           \/ Moved(t, u, "room", "deleted") /\ People!SetListed(t, "room", FALSE)
           \/ Moved(t, u, "deleted", "end") /\ People!SetListed(t, "deleted", TRUE)
           \/ Moved(t, u, "set", "end") /\ People!SetGrants(t)
<1>0. task[t] \in People!Handlers
  BY DEF People!TypeOK
<1>1. CASE People!CreateRow(t)
  <2>1. task[t] # People!Idle /\ task[t].pc = "row" /\ People!Goes(t, "clear")
        /\ UNCHANGED <<shared, occupants, raced, events>>
    BY <1>1 DEF People!CreateRow, People!At
  <2>2. [task[t] EXCEPT !.pc = "clear"] \in People!Handlers
    BY <1>0, <2>1 DEF People!Handlers
  <2>3. Moved(t, u, "row", "clear")
    BY <2>1, <2>2, MovedOn
  <2> QED BY <1>1, <2>3
<1>2. CASE People!ClearUserDeleted(t)
  <2>1. task[t] # People!Idle /\ task[t].pc = "clear" /\ People!Goes(t, "add")
        /\ People!SetListed(t, "deleted", FALSE) /\ UNCHANGED <<shared, occupants, raced,
            events>>
    BY <1>2 DEF People!ClearUserDeleted, People!Clears, People!SetListed, People!At
  <2>2. [task[t] EXCEPT !.pc = "add"] \in People!Handlers
    BY <1>0, <2>1 DEF People!Handlers
  <2>3. Moved(t, u, "clear", "add")
    BY <2>1, <2>2, MovedOn
  <2> QED BY <2>1, <2>3
<1>3. CASE People!RememberUserSource(t) /\ task[t].kind = "presence"
  <2>1. task[t] # People!Idle /\ task[t].pc = "add" /\ People!Goes(t, "nick")
        /\ People!SetListed(t, "room", TRUE) /\ UNCHANGED <<shared, occupants, raced, events>>
    BY <1>3 DEF People!RememberUserSource, People!SetListed, People!At
  <2>2. [task[t] EXCEPT !.pc = "nick"] \in People!Handlers
    BY <1>0, <1>3, <2>1 DEF People!Handlers
  <2>3. Moved(t, u, "add", "nick")
    BY <2>1, <2>2, MovedOn
  <2> QED BY <2>1, <2>3
<1>4. CASE People!RememberUserSource(t) /\ task[t].kind # "presence"
  <2>1. task[t] # People!Idle /\ task[t].pc = "add" /\ People!Goes(t, "end")
        /\ People!SetListed(t, "direct", TRUE) /\ UNCHANGED <<shared, occupants, raced, events>>
    BY <1>4 DEF People!RememberUserSource, People!SetListed, People!At
  <2>3. Moved(t, u, "add", "end")
    BY <2>1, MovedOn
  <2> QED BY <2>1, <2>3
<1>5. CASE People!TrackNick(t)
  <2>1. task[t] # People!Idle /\ task[t].pc = "nick" /\ People!Goes(t, "end")
        /\ UNCHANGED <<shared, occupants, raced, events>>
    BY <1>5 DEF People!TrackNick, People!At
  <2>3. Moved(t, u, "nick", "end")
    BY <2>1, MovedOn
  <2> QED BY <1>5, <2>3
<1>6. CASE People!Drop(t)
  <2>1. task[t] # People!Idle /\ task[t].pc = "drop" /\ People!Goes(t, "direct")
        /\ UNCHANGED <<shared, occupants, raced, events>>
    BY <1>6 DEF People!Drop, People!At
  <2>2. [task[t] EXCEPT !.pc = "direct"] \in People!Handlers
    BY <1>0, <2>1 DEF People!Handlers
  <2>3. Moved(t, u, "drop", "direct")
    BY <2>1, <2>2, MovedOn
  <2> QED BY <1>6, <2>3
<1>7. CASE People!At(t, "direct") /\ People!Goes(t, "room") /\ People!SetListed(t, "direct",
    FALSE)
  <2>1. task[t] # People!Idle /\ task[t].pc = "direct" /\ UNCHANGED <<shared, occupants, raced,
      events>>
    BY <1>7 DEF People!SetListed, People!At
  <2>2. [task[t] EXCEPT !.pc = "room"] \in People!Handlers
    BY <1>0, <2>1 DEF People!Handlers
  <2>3. Moved(t, u, "direct", "room")
    BY <1>7, <2>1, <2>2, MovedOn
  <2> QED BY <1>7, <2>3
<1>8. CASE People!At(t, "room") /\ People!Goes(t, "deleted") /\ People!SetListed(t, "room",
    FALSE)
  <2>1. task[t] # People!Idle /\ task[t].pc = "room" /\ UNCHANGED <<shared, occupants, raced,
      events>>
    BY <1>8 DEF People!SetListed, People!At
  <2>2. [task[t] EXCEPT !.pc = "deleted"] \in People!Handlers
    BY <1>0, <2>1 DEF People!Handlers
  <2>3. Moved(t, u, "room", "deleted")
    BY <1>8, <2>1, <2>2, MovedOn
  <2> QED BY <1>8, <2>3
<1>9. CASE People!At(t, "deleted") /\ People!Goes(t, "end") /\ People!SetListed(t, "deleted",
    TRUE)
  <2>1. task[t] # People!Idle /\ task[t].pc = "deleted" /\ UNCHANGED <<shared, occupants,
      raced, events>>
    BY <1>9 DEF People!SetListed, People!At
  <2>3. Moved(t, u, "deleted", "end")
    BY <1>9, <2>1, MovedOn
  <2> QED BY <1>9, <2>3
<1>10. CASE People!SetGrants(t)
  <2>1. task[t] # People!Idle /\ task[t].pc = "set" /\ People!Goes(t, "end")
        /\ UNCHANGED <<shared, occupants, raced, events>>
    BY <1>10 DEF People!SetGrants, People!At
  <2>3. Moved(t, u, "set", "end")
    BY <2>1, MovedOn
  <2> QED BY <1>10, <2>3
<1> QED BY <1>1, <1>2, <1>3, <1>4, <1>5, <1>6, <1>7, <1>8, <1>9, <1>10
     DEF People!MarkUserDeleted

LEMMA HandlerType ==
    ASSUME People!UsersAssumption, People!TypeOK, NEW t \in Tasks, NEW u, u = task[t].user,
           \/ Moved(t, u, "row", "clear") /\ People!CreateRow(t)
           \/ (\E from, to : Moved(t, u, from, to)) /\
              \E l \in People!Lists, b \in BOOLEAN : People!SetListed(t, l, b)
           \/ Moved(t, u, "nick", "end") /\ People!TrackNick(t)
           \/ Moved(t, u, "drop", "direct") /\ People!Drop(t)
           \/ Moved(t, u, "set", "end") /\ People!SetGrants(t)
    PROVE  People!TypeOK'
<1>1. /\ task' \in [Tasks -> People!Handlers] /\ u \in Users
      /\ UNCHANGED <<shared, occupants, raced, events>>
  BY DEF Moved
<1>2. CASE People!CreateRow(t)
  <2>1. row' \subseteq Users /\ UNCHANGED <<listed, history, grants, index, stored, stale,
      failed>>
    BY <1>1, <1>2 DEF People!CreateRow, People!TypeOK
  <2> QED BY <1>1, <2>1 DEF People!TypeOK
<1>3. ASSUME NEW l \in People!Lists, NEW b \in BOOLEAN, People!SetListed(t, l,
    b) PROVE People!TypeOK'
  <2>1. UNCHANGED <<row, history, grants, index, stored, stale, failed>>
    BY <1>3 DEF People!SetListed
  <2>2. listed' \in [People!Lists -> SUBSET Users]
    BY <1>1, <1>3 DEF People!SetListed, People!TypeOK
  <2> QED BY <1>1, <2>1, <2>2 DEF People!TypeOK
<1>4. CASE People!TrackNick(t)
  <2>1. /\ history' \in [Users -> [Rooms -> Seq(Nicks)]]
        /\ \A v \in Users, r \in Rooms : Len(history'[v][r]) <= MAX_ROOM_NICKS
        /\ \/ UNCHANGED <<history, index, stored, stale, failed>>
           \/ /\ People!Reindex(u, People!Known(history'[u]))
              /\ stored' = IF shared THEN index' ELSE stored
    BY <1>4, NickTracked
  <2>2. UNCHANGED <<row, listed, grants>>
    BY <1>4 DEF People!TrackNick
  <2>3. CASE UNCHANGED <<history, index, stored, stale, failed>>
    BY <1>1, <2>2, <2>3 DEF People!TypeOK
  <2>4. CASE People!Reindex(u,
      People!Known(history'[u])) /\ stored' = IF shared THEN index' ELSE stored
    <3>1. People!Known(history'[u]) \subseteq Nicks
      <4>1. history'[u] \in [Rooms -> Seq(Nicks)]
        BY <1>1, <2>1
      <4> QED BY <4>1, KnownType
    <3>2. index' \in People!Indexes /\ stale' \subseteq Users /\ failed' \subseteq Users
      BY <1>1, <2>4, <3>1, ReindexedType
    <3>3. stored' \in People!Indexes
      BY <2>4, <3>2 DEF People!TypeOK
    <3> QED BY <1>1, <2>1, <2>2, <3>2, <3>3 DEF People!TypeOK
  <2> QED BY <2>1, <2>3, <2>4
<1>5. CASE People!Drop(t)
  <2>1. /\ history' \in [Users -> [Rooms -> Seq(Nicks)]] /\ index' \in People!Indexes
        /\ \A v \in Users, r \in Rooms : Len(history'[v][r]) <= MAX_ROOM_NICKS
    BY <1>5, Dropped DEF ShortNicks
  <2>2. stored' \in People!Indexes
    BY <1>5, <2>1 DEF People!Drop, People!TypeOK
  <2>3. /\ row' \subseteq Users /\ grants' \subseteq Users /\ stale' \subseteq Users
        /\ failed' \subseteq Users /\ listed' = listed
    BY <1>5 DEF People!Drop, People!DropRows, People!TypeOK
  <2> QED BY <1>1, <2>1, <2>2, <2>3 DEF People!TypeOK
<1>6. CASE People!SetGrants(t)
  <2>1. grants' \subseteq Users /\ UNCHANGED <<row, listed, history, index, stored, stale,
      failed>>
    BY <1>1, <1>6 DEF People!SetGrants, People!TypeOK
  <2> QED BY <1>1, <2>1 DEF People!TypeOK
<1> QED BY <1>2, <1>3, <1>4, <1>5, <1>6

(* The cases of a handler's step are all of those.                          *)
LEMMA HandlerTypes ==
    ASSUME People!UsersAssumption, People!TypeOK, NEW t \in Tasks,
           \/ People!CreateRow(t) \/ People!ClearUserDeleted(t)
           \/ People!RememberUserSource(t) \/ People!TrackNick(t)
           \/ People!Drop(t) \/ People!MarkUserDeleted(t) \/ People!SetGrants(t)
    PROVE  People!TypeOK'
<1>1. PICK u : u = task[t].user
  OBVIOUS
<1>2. "direct" \in People!Lists /\ "room" \in People!Lists /\ "deleted" \in People!Lists
  BY DEF People!Lists
<1>3. \/ Moved(t, u, "row", "clear") /\ People!CreateRow(t)
      \/ (\E from, to : Moved(t, u, from, to)) /\
         \E l \in People!Lists, b \in BOOLEAN : People!SetListed(t, l, b)
      \/ Moved(t, u, "nick", "end") /\ People!TrackNick(t)
      \/ Moved(t, u, "drop", "direct") /\ People!Drop(t)
      \/ Moved(t, u, "set", "end") /\ People!SetGrants(t)
  BY <1>1, <1>2, HandlerSteps
<1> QED BY <1>1, <1>3, HandlerType

LEMMA IndexSteps ==
    ASSUME People!TypeOK, People!Flush \/ People!Reload
    PROVE  People!TypeOK' /\ UNCHANGED <<row, listed, history, grants, task, raced, failed>>
<1>1. CASE People!Flush
  <2>1. stored' \in People!Indexes
    BY <1>1 DEF People!Flush, People!TypeOK, People!Indexes
  <2>2. UNCHANGED <<row, listed, history, grants, index, occupants, task, raced, stale, failed,
                    events>> /\ shared' = FALSE
    BY <1>1 DEF People!Flush
  <2> QED BY <2>1, <2>2 DEF People!TypeOK
<1>2. CASE People!Reload
  <2>1. /\ index' = stored /\ stored' = stored /\ stale' \subseteq Users /\ shared' = TRUE
        /\ UNCHANGED <<row, listed, history, grants, occupants, task, raced, failed, events>>
    BY <1>2 DEF People!Reload
  <2> QED BY <2>1 DEF People!TypeOK
<1> QED BY <1>1, <1>2

LEMMA TypeStep ==
    ASSUME People!UsersAssumption, People!TypeOK, [People!Next]_(People!vars)
    PROVE  People!TypeOK'
<1>1. ASSUME NEW t \in Tasks, NEW u \in Users, NEW kinds, NEW pcs, Started(t, u, kinds, pcs)
      PROVE  People!TypeOK'
  BY <1>1, StartType DEF Started
<1>2. ASSUME NEW u \in Users, People!OccupantLeaves(u) PROVE People!TypeOK'
  <2>1. occupants' \subseteq Users
    BY <1>2 DEF People!OccupantLeaves, People!TypeOK
  <2> QED BY <1>2, <2>1 DEF People!OccupantLeaves, People!TypeOK
<1>3. CASE UNCHANGED People!vars
  BY <1>3 DEF People!vars, People!TypeOK
<1> QED BY <1>1, <1>2, <1>3, StartSteps, HandlerTypes, IndexSteps DEF People!Next

(* The index.                                                               *)
LEMMA IndexStep ==
    ASSUME People!UsersAssumption, People!TypeOK, People!IndexIsHistory,
           [People!Next]_(People!vars)
    PROVE  People!IndexIsHistory'
<1>0. ASSUME NEW u \in Users, u \notin stale \union failed
      PROVE  \A n \in Nicks : u \in index[n].jids <=> n \in People!Known(history[u])
  <2>1. People!Known(history[u]) = People!Indexed(index, u)
    BY <1>0 DEF People!IndexIsHistory
  <2> QED BY <2>1 DEF People!Indexed
<1> SUFFICES ASSUME NEW v \in Users, v \notin stale' \union failed'
             PROVE  \A n \in Nicks : v \in index'[n].jids <=> n \in People!Known(history'[v])
  <2>1. ASSUME NEW v \in Users,
               \A n \in Nicks : v \in index'[n].jids <=> n \in People!Known(history'[v]),
                   People!TypeOK'
        PROVE  People!Indexed(index', v) = People!Known(history'[v])
    <3>1. history'[v] \in [Rooms -> Seq(Nicks)]
      BY <2>1 DEF People!TypeOK
    <3>2. People!Known(history'[v]) \subseteq Nicks
      BY <3>1, KnownType
    <3> QED BY <2>1, <3>2 DEF People!Indexed
  <2>2. People!TypeOK'
    BY TypeStep
  <2> QED BY <2>1, <2>2 DEF People!IndexIsHistory
<1>1. ASSUME UNCHANGED <<index, history, stale, failed>>
      PROVE  \A n \in Nicks : v \in index'[n].jids <=> n \in People!Known(history'[v])
  BY <1>0, <1>1
<1>2. ASSUME NEW t \in Tasks, NEW u \in Users,
             \/ \E r \in Rooms, n \in Nicks : People!Presence(t, u, r, n)
             \/ People!PrivateMessage(t, u) \/ People!UsersDelete(t, u)
             \/ People!ValidateGrantChange(t, u)
      PROVE  UNCHANGED <<index, history, stale, failed>>
  BY <1>2
       DEF People!Presence, People!PrivateMessage, People!UsersDelete,
           People!ValidateGrantChange, People!Starts
<1>3. ASSUME NEW t \in Tasks,
    People!CreateRow(t) \/ People!ClearUserDeleted(t) \/ People!RememberUserSource(t)
                              \/ People!MarkUserDeleted(t) \/ People!SetGrants(t)
      PROVE  UNCHANGED <<index, history, stale, failed>>
  BY <1>3
       DEF People!CreateRow, People!ClearUserDeleted, People!Clears, People!RememberUserSource,
           People!MarkUserDeleted, People!SetListed,
     People!SetGrants
<1>4. ASSUME NEW t \in Tasks, People!TrackNick(t)
      PROVE  \A n \in Nicks : v \in index'[n].jids <=> n \in People!Known(history'[v])
  <2>1. PICK u : u = task[t].user
    OBVIOUS
  <2>2. /\ u \in Users
        /\ history' \in [Users -> [Rooms -> Seq(Nicks)]]
        /\ \A w \in Users \ {u} : history'[w] = history[w]
        /\ \/ UNCHANGED <<history, index, stored, stale, failed>>
           \/ People!Reindex(u, People!Known(history'[u]))
    BY <1>4, <2>1, NickTracked
  <2>3. CASE People!Reindex(u, People!Known(history'[u]))
    <3>1. People!Known(history'[u]) \subseteq Nicks
      <4>1. history'[u] \in [Rooms -> Seq(Nicks)]
        BY <2>2
      <4> QED BY <4>1, KnownType
    <3>2. PICK new \in SUBSET Nicks : new = People!Known(history'[u]) /\ People!Reindex(u, new)
      BY <2>3, <3>1
    <3>3. /\ \A n \in Nicks, w \in Users \ {u} : w \in index'[n].jids <=> w \in index[n].jids
          /\ u \in failed' \/ \A n \in Nicks : u \in index'[n].jids <=> n \in new
          /\ stale' \union {u} = stale \union {u} /\ failed' \union {u} = failed \union {u}
      BY <2>2, <3>2, ReindexedType
    <3>4. CASE v = u
      BY <3>2, <3>3, <3>4
    <3>5. CASE v # u
      <4>1. v \notin stale \union failed /\ history'[v] = history[v]
        BY <2>2, <3>3, <3>5
      <4> QED BY <1>0, <3>3, <3>5, <4>1
    <3> QED BY <3>4, <3>5
  <2> QED BY <1>1, <2>2, <2>3
<1>5. ASSUME NEW t \in Tasks, People!Drop(t)
      PROVE  \A n \in Nicks : v \in index'[n].jids <=> n \in People!Known(history'[v])
  <2>1. PICK u : u = task[t].user
    OBVIOUS
  <2>2. u \in Users /\ OthersKept(u) /\ People!Known(history'[u]) = {}
        /\ \A n \in Nicks : u \notin index'[n].jids
    BY <1>5, <2>1, Dropped
  <2>3. stale' = stale \ {u} /\ failed' = failed \ {u}
    BY <1>5, <2>1 DEF People!Drop
  <2>4. CASE v = u
    BY <2>2, <2>4
  <2>5. CASE v # u
    BY <1>0, <2>2, <2>3, <2>5 DEF OthersKept
  <2> QED BY <2>4, <2>5
<1>6. CASE People!Flush
  BY <1>1, <1>6 DEF People!Flush
<1>7. CASE People!Reload
  <2>1. history' = history /\ index' = stored
        /\ stale' = {u \in Users : People!Indexed(stored, u) # People!Known(history[u])}
    BY <1>7 DEF People!Reload
  <2>2. People!Known(history[v]) = People!Indexed(stored, v)
    BY <2>1
  <2> QED BY <2>1, <2>2 DEF People!Indexed
<1>8. ASSUME NEW u \in Users, People!OccupantLeaves(u)
      PROVE  UNCHANGED <<index, history, stale, failed>>
  BY <1>8 DEF People!OccupantLeaves
<1>9. CASE UNCHANGED People!vars
  BY <1>1, <1>9 DEF People!vars
<1> QED BY <1>1, <1>2, <1>3, <1>4, <1>5, <1>6, <1>7, <1>8, <1>9 DEF People!Next

(* The accounts.  First a user whom a step does not concern.                *)
UserInv(u) == People!AloneInv(u) /\ People!HandlersInv(u) /\ People!RestInv(u)

Away(v) ==
    /\ \A t \in Tasks : task[t].user = v \/ task'[t].user = v => task'[t] = task[t]
    /\ (v \in row' <=> v \in row) /\ (v \in grants' <=> v \in grants)
    /\ history'[v] = history[v] /\ \A l \in People!Lists : v \in listed'[l] <=> v \in listed[l]

LEMMA AwayHolds ==
    ASSUME NEW v \in Users, UserInv(v), Away(v)
    PROVE  UserInv(v)'
<1>1. People!Of(v)' = People!Of(v) /\ \A t \in People!Of(v) : t \in Tasks /\ task'[t] = task[t]
  BY DEF Away, People!Of
<1>2. People!Forgetting(v)' <=> People!Forgetting(v)
  BY <1>1 DEF People!Forgetting
<1>3. /\ v \in listed'["direct"] <=> v \in listed["direct"]
      /\ v \in listed'["room"] <=> v \in listed["room"]
      /\ v \in listed'["deleted"] <=> v \in listed["deleted"]
  BY DEF Away, People!Lists
<1>4. People!AloneInv(v)'
  BY <1>1 DEF UserInv, People!AloneInv
<1>5. People!HandlersInv(v)'
  BY <1>1, <1>3 DEF UserInv, People!HandlersInv, Away
<1>6. People!RestInv(v)'
  <2>1. v \in listed'["direct"] \union listed'["room"] => v \in row' \/ People!Forgetting(v)'
    BY <1>2, <1>3 DEF UserInv, People!RestInv, Away
  <2>2. v \in grants' \/ People!Known(history'[v]) # {} => v \in row'
    BY DEF UserInv, People!RestInv, Away
  <2>3. v \in listed'["deleted"] \intersect row' => \E t \in People!Of(v)' : task'[t].pc = "clear"
    BY <1>1, <1>3 DEF UserInv, People!RestInv, Away
  <2> QED BY <2>1, <2>2, <2>3 DEF People!RestInv
<1> QED BY <1>4, <1>5, <1>6 DEF UserInv

LEMMA OfTypes ==
    ASSUME People!UsersAssumption, People!TypeOK, NEW u \in Users, NEW t \in People!Of(u)
    PROVE  /\ t \in Tasks /\ task[t] # People!Idle /\ task[t].user = u
           /\ task[t].kind = "delete" => task[t].pc \in {"drop", "direct", "room", "deleted"}
           /\ task[t].kind # "delete" => task[t].pc \in {"row", "clear", "add", "nick", "set"}
<1>1. t \in Tasks /\ task[t].user = u /\ task[t] # People!Idle
  BY IdleFields DEF People!Of
<1> QED BY <1>1, HandlerFields

LEMMA StartHolds ==
    ASSUME People!UsersAssumption, People!TypeOK, NEW t \in Tasks, NEW u \in Users,
           \/ Started(t, u, {"presence", "message"}, {"row"})
           \/ Started(t, u, {"delete"}, {"drop"}) /\ u \in row
           \/ Started(t, u, {"grant", "revoke"}, {"set"}) /\ u \in row,
           u \notin raced', UserInv(u)
    PROVE  UserInv(u)'
<1>1. PICK h \in People!Handlers :
        /\ h.user = u /\ h.kind \in {"presence", "message", "delete", "grant", "revoke"}
        /\ h.kind = "delete" => h.pc = "drop" /\ u \in row
        /\ h.kind # "delete" => h.pc = "row" \/ (h.pc = "set" /\ u \in row)
        /\ task' = [task EXCEPT ![t] = h] /\ task[t] = People!Idle
        /\ raced' = IF People!Overlaps(h.kind, u) THEN raced \union {u} ELSE raced
        /\ UNCHANGED <<row, listed, history, grants>>
  BY DEF Started
<1>2. ~People!Overlaps(h.kind, u)
  BY <1>1
<1>3. task \in [Tasks -> People!Handlers]
  BY DEF People!TypeOK
<1>4. /\ People!Of(u)' = People!Of(u) \union {t} /\ t \notin People!Of(u) /\ task'[t] = h
      /\ \A s \in People!Of(u) : task'[s] = task[s]
  BY <1>1, <1>3, IdleFields DEF People!Of
<1>5. \A s \in People!Of(u) : h.kind # "delete" /\ task[s].kind # "delete"
  BY <1>2 DEF People!Overlaps, People!Of
<1>6. \A s \in People!Of(u) : task[s].pc \in {"row", "clear", "add", "nick", "set"}
  BY <1>5, OfTypes
<1>7. People!AloneInv(u)'
  BY <1>1, <1>4, <1>5 DEF People!AloneInv
<1>8. People!HandlersInv(u)'
  BY <1>1, <1>4 DEF UserInv, People!HandlersInv
<1>9. People!RestInv(u)'
  <2>1. ~People!Forgetting(u)
    BY <1>6 DEF People!Forgetting
  <2>2. u \in listed'["direct"] \union listed'["room"] => u \in row'
    BY <1>1, <2>1 DEF UserInv, People!RestInv
  <2>3. u \in grants' \/ People!Known(history'[u]) # {} => u \in row'
    BY <1>1 DEF UserInv, People!RestInv
  <2>4. u \in listed'["deleted"] \intersect row' => \E s \in People!Of(u)' : task'[s].pc = "clear"
    BY <1>1, <1>4 DEF UserInv, People!RestInv
  <2> QED BY <2>2, <2>3, <2>4 DEF People!RestInv
<1> QED BY <1>7, <1>8, <1>9 DEF UserInv

(* What a list of users says after SetListed.                               *)
LEMMA ListSet ==
    ASSUME People!TypeOK, NEW t \in Tasks, NEW l \in People!Lists, NEW b \in BOOLEAN,
           People!SetListed(t, l, b),
           NEW u, u = task[t].user
    PROVE  /\ u \in listed'[l] <=> b
           /\ \A k \in People!Lists \ {l} : listed'[k] = listed[k]
           /\ \A v \in Users \ {u} : v \in listed'[l] <=> v \in listed[l]
           /\ UNCHANGED <<row, history, grants>>
  BY DEF People!SetListed, People!TypeOK

(* The user whose handler moves.  Who handles them afterwards, and how.     *)
LEMMA MovedOf ==
    ASSUME People!UsersAssumption, People!TypeOK, NEW t, NEW u, NEW from, NEW to, Moved(t, u,
           from, to),
           People!AloneInv(u)
    PROVE  /\ u \in Users /\ t \in People!Of(u) /\ task[t].pc = from
           /\ to # "end" => People!Of(u)' = People!Of(u) /\ task'[t].pc = to
           /\ to = "end" => People!Of(u)' = People!Of(u) \ {t}
           /\ \A s \in People!Of(u) : s # t => task'[s] = task[s]
           /\ People!AloneInv(u)'
<1>1. /\ t \in Tasks /\ u \in Users /\ t \in People!Of(u) /\ task[t].pc = from
      /\ \A s \in Tasks : s # t => task'[s] = task[s]
      /\ to # "end" => task'[t].user = u /\ task'[t].kind = task[t].kind /\ task'[t].pc = to
      /\ to = "end" => task'[t] = People!Idle
  BY DEF Moved, People!Of
<1>2. /\ to # "end" => People!Of(u)' = People!Of(u)
      /\ to = "end" => People!Of(u)' = People!Of(u) \ {t}
  BY <1>1, IdleFields DEF People!Of
<1>3. \A s \in People!Of(u) : s \in Tasks
  BY DEF People!Of
<1>4. People!AloneInv(u)'
  BY <1>1, <1>2, <1>3 DEF People!AloneInv
<1> QED BY <1>1, <1>2, <1>3, <1>4

LEMMA MoveHolds ==
    ASSUME People!UsersAssumption, People!TypeOK, NEW t \in Tasks, NEW u, u = task[t].user,
           UserInv(u),
           \/ People!CreateRow(t) \/ People!ClearUserDeleted(t)
           \/ People!RememberUserSource(t) \/ People!TrackNick(t)
           \/ People!Drop(t) \/ People!MarkUserDeleted(t) \/ People!SetGrants(t)
    PROVE  UserInv(u)'
<1>0. People!AloneInv(u) /\ People!HandlersInv(u) /\ People!RestInv(u)
  BY DEF UserInv
<1>l. "direct" \in People!Lists /\ "room" \in People!Lists /\ "deleted" \in People!Lists
      /\ TRUE \in BOOLEAN /\ FALSE \in BOOLEAN
  BY DEF People!Lists
<1>r. ASSUME NEW l \in People!Lists, NEW b \in BOOLEAN, People!SetListed(t, l, b)
      PROVE  /\ u \in listed'[l] <=> b
             /\ l # "direct" => listed'["direct"] = listed["direct"]
             /\ l # "room" => listed'["room"] = listed["room"]
             /\ l # "deleted" => listed'["deleted"] = listed["deleted"]
             /\ UNCHANGED <<row, history, grants>>
  <2>1. /\ u \in listed'[l] <=> b
        /\ \A k \in People!Lists \ {l} : listed'[k] = listed[k]
        /\ UNCHANGED <<row, history, grants>>
    BY <1>r, ListSet
  <2>2. \A k \in People!Lists : k # l => listed'[k] = listed[k]
    BY <2>1
  <2> QED BY <1>l, <2>1, <2>2
<1>a. ASSUME u \in Users, t \in People!Of(u), task[t].pc \in {"row", "clear", "add", "nick",
    "set"}
      PROVE  /\ \A s \in People!Of(u) : task[s].pc \in {"row", "clear", "add", "nick", "set"}
             /\ ~People!Forgetting(u)
  <2>1. ASSUME NEW s \in People!Of(u), task[s].kind = "delete" PROVE FALSE
    <3>1. t = s
      BY <1>0, <1>a, <2>1 DEF People!AloneInv
    <3> QED BY <1>a, <2>1, <3>1, OfTypes
  <2>2. \A s \in People!Of(u) : task[s].pc \in {"row", "clear", "add", "nick", "set"}
    BY <1>a, <2>1, OfTypes
  <2> QED BY <2>2 DEF People!Forgetting
<1>d. ASSUME u \in Users, t \in People!Of(u), task[t].pc \in {"drop", "direct", "room",
    "deleted"}
      PROVE  People!Of(u) = {t}
  <2>1. task[t].kind = "delete"
    BY <1>d, OfTypes
  <2> QED BY <1>0, <1>d, <2>1 DEF People!AloneInv
<1>1. CASE Moved(t, u, "row", "clear") /\ People!CreateRow(t)
  <2>1. /\ u \in Users /\ t \in People!Of(u) /\ task[t].pc = "row" /\ People!Of(u)' = People!Of(u)
        /\ task'[t].pc = "clear" /\ (\A s \in People!Of(u) : s # t => task'[s] = task[s])
        /\ People!AloneInv(u)'
    BY <1>0, <1>1, MovedOf
  <2>2. u \in row' /\ UNCHANGED <<listed, history, grants>>
    BY <1>1 DEF People!CreateRow
  <2>3. \A s \in People!Of(u) : task[s].pc \in {"row", "clear", "add", "nick", "set"}
    BY <1>a, <2>1
  <2>4. People!HandlersInv(u)'
    BY <1>0, <2>1, <2>2, <2>3 DEF People!HandlersInv
  <2>5. People!RestInv(u)'
    BY <2>1, <2>2 DEF People!RestInv
  <2> QED BY <2>1, <2>4, <2>5 DEF UserInv
<1>2. CASE Moved(t, u, "clear", "add") /\ People!SetListed(t, "deleted", FALSE)
  <2>1. /\ u \in Users /\ t \in People!Of(u) /\ task[t].pc = "clear" /\ People!Of(u)' = People!Of(u)
        /\ task'[t].pc = "add" /\ (\A s \in People!Of(u) : s # t => task'[s] = task[s])
        /\ People!AloneInv(u)'
    BY <1>0, <1>2, MovedOf
  <2>2. /\ u \notin listed'["deleted"] /\ listed'["direct"] = listed["direct"]
        /\ listed'["room"] = listed["room"] /\ UNCHANGED <<row, history, grants>>
    BY <1>2, <1>l, <1>r
  <2>3. ~People!Forgetting(u) /\ u \in row
    BY <1>0, <1>a, <2>1 DEF People!HandlersInv
  <2>4. People!HandlersInv(u)'
    BY <1>0, <2>1, <2>2, <2>3 DEF People!HandlersInv
  <2>5. People!RestInv(u)'
    BY <1>0, <2>2, <2>3 DEF People!RestInv
  <2> QED BY <2>1, <2>4, <2>5 DEF UserInv
<1>3. CASE Moved(t, u, "add", "nick") /\ People!SetListed(t, "room", TRUE)
  <2>1. /\ u \in Users /\ t \in People!Of(u) /\ task[t].pc = "add" /\ People!Of(u)' = People!Of(u)
        /\ task'[t].pc = "nick" /\ (\A s \in People!Of(u) : s # t => task'[s] = task[s])
        /\ People!AloneInv(u)'
    BY <1>0, <1>3, MovedOf
  <2>2. /\ listed'["deleted"] = listed["deleted"] /\ UNCHANGED <<row, history, grants>>
    BY <1>3, <1>l, <1>r
  <2>3. u \in row /\ u \notin listed["deleted"]
        /\ \A s \in People!Of(u) : task[s].pc \in {"row", "clear", "add", "nick", "set"}
    BY <1>0, <1>a, <2>1 DEF People!HandlersInv
  <2>4. People!HandlersInv(u)'
    BY <1>0, <2>1, <2>2, <2>3 DEF People!HandlersInv
  <2>5. People!RestInv(u)'
    BY <1>0, <2>2, <2>3 DEF People!RestInv
  <2> QED BY <2>1, <2>4, <2>5 DEF UserInv
<1>4. CASE Moved(t, u, "add", "end") /\ People!SetListed(t, "direct", TRUE)
  <2>1. /\ u \in Users /\ t \in People!Of(u) /\ task[t].pc = "add" /\ People!Of(u)' = People!Of(u) \ {t}
        /\ (\A s \in People!Of(u) : s # t => task'[s] = task[s])
        /\ People!AloneInv(u)'
    BY <1>0, <1>4, MovedOf
  <2>2. /\ listed'["deleted"] = listed["deleted"] /\ UNCHANGED <<row, history, grants>>
    BY <1>4, <1>l, <1>r
  <2>3. u \in row /\ u \notin listed["deleted"]
        /\ \A s \in People!Of(u) : task[s].pc \in {"row", "clear", "add", "nick", "set"}
    BY <1>0, <1>a, <2>1 DEF People!HandlersInv
  <2>4. People!HandlersInv(u)'
    BY <1>0, <2>1, <2>2, <2>3 DEF People!HandlersInv
  <2>5. People!RestInv(u)'
    BY <1>0, <2>2, <2>3 DEF People!RestInv
  <2> QED BY <2>1, <2>4, <2>5 DEF UserInv
<1>5. CASE Moved(t, u, "nick", "end") /\ People!TrackNick(t)
  <2>1. /\ u \in Users /\ t \in People!Of(u) /\ task[t].pc = "nick" /\ People!Of(u)' = People!Of(u) \ {t}
        /\ (\A s \in People!Of(u) : s # t => task'[s] = task[s])
        /\ People!AloneInv(u)'
    BY <1>0, <1>5, MovedOf
  <2>2. UNCHANGED <<row, listed, grants>>
    BY <1>5 DEF People!TrackNick
  <2>3. u \in row /\ u \notin listed["deleted"]
    BY <1>0, <2>1 DEF People!HandlersInv
  <2>4. People!HandlersInv(u)'
    BY <1>0, <2>1, <2>2 DEF People!HandlersInv
  <2>5. People!RestInv(u)'
    BY <2>2, <2>3 DEF People!RestInv
  <2> QED BY <2>1, <2>4, <2>5 DEF UserInv
<1>6. CASE Moved(t, u, "drop", "direct") /\ People!Drop(t)
  <2>1. /\ u \in Users /\ t \in People!Of(u) /\ task[t].pc = "drop" /\ People!Of(u)' = People!Of(u)
        /\ task'[t].pc = "direct" /\ People!AloneInv(u)'
    BY <1>0, <1>6, MovedOf
  <2>2. People!Of(u) = {t}
    BY <1>d, <2>1
  <2>3. u \notin row' /\ u \notin grants' /\ listed' = listed
    BY <1>6 DEF People!Drop, People!DropRows
  <2>4. People!Known(history'[u]) = {}
    BY <1>6, Dropped
  <2>5. People!HandlersInv(u)'
    BY <2>1, <2>2, <2>3 DEF People!HandlersInv
  <2>6. People!RestInv(u)'
    BY <2>1, <2>2, <2>3, <2>4 DEF People!RestInv, People!Forgetting
  <2> QED BY <2>1, <2>5, <2>6 DEF UserInv
<1>7. CASE Moved(t, u, "direct", "room") /\ People!SetListed(t, "direct", FALSE)
  <2>1. /\ u \in Users /\ t \in People!Of(u) /\ task[t].pc = "direct" /\ People!Of(u)' = People!Of(u)
        /\ task'[t].pc = "room" /\ People!AloneInv(u)'
    BY <1>0, <1>7, MovedOf
  <2>2. People!Of(u) = {t} /\ u \notin row
    BY <1>0, <1>d, <2>1 DEF People!HandlersInv
  <2>3. /\ u \notin listed'["direct"] /\ UNCHANGED <<row, history, grants>>
    BY <1>7, <1>l, <1>r
  <2>5. People!HandlersInv(u)'
    BY <2>1, <2>2, <2>3 DEF People!HandlersInv
  <2>6. People!RestInv(u)'
    BY <1>0, <2>1, <2>2, <2>3 DEF People!RestInv, People!Forgetting
  <2> QED BY <2>1, <2>5, <2>6 DEF UserInv
<1>8. CASE Moved(t, u, "room", "deleted") /\ People!SetListed(t, "room", FALSE)
  <2>1. /\ u \in Users /\ t \in People!Of(u) /\ task[t].pc = "room" /\ People!Of(u)' = People!Of(u)
        /\ task'[t].pc = "deleted" /\ People!AloneInv(u)'
    BY <1>0, <1>8, MovedOf
  <2>2. People!Of(u) = {t} /\ u \notin row /\ u \notin listed["direct"]
    BY <1>0, <1>d, <2>1 DEF People!HandlersInv
  <2>3. /\ u \notin listed'["room"] /\ listed'["direct"] = listed["direct"]
        /\ UNCHANGED <<row, history, grants>>
    BY <1>8, <1>l, <1>r
  <2>5. People!HandlersInv(u)'
    BY <2>1, <2>2, <2>3 DEF People!HandlersInv
  <2>6. People!RestInv(u)'
    BY <1>0, <2>1, <2>2, <2>3 DEF People!RestInv, People!Forgetting
  <2> QED BY <2>1, <2>5, <2>6 DEF UserInv
<1>9. CASE Moved(t, u, "deleted", "end") /\ People!SetListed(t, "deleted", TRUE)
  <2>1. /\ u \in Users /\ t \in People!Of(u) /\ task[t].pc = "deleted" /\ People!Of(u)' = People!Of(u) \ {t}
        /\ People!AloneInv(u)'
    BY <1>0, <1>9, MovedOf
  <2>2. People!Of(u) = {t} /\ u \notin row /\ u \notin listed["direct"] /\ u \notin listed["room"]
    BY <1>0, <1>d, <2>1 DEF People!HandlersInv
  <2>3. /\ listed'["room"] = listed["room"] /\ listed'["direct"] = listed["direct"]
        /\ UNCHANGED <<row, history, grants>>
    BY <1>9, <1>l, <1>r
  <2>5. People!HandlersInv(u)'
    BY <2>1, <2>2 DEF People!HandlersInv
  <2>6. People!RestInv(u)'
    BY <1>0, <2>2, <2>3 DEF People!RestInv
  <2> QED BY <2>1, <2>5, <2>6 DEF UserInv
<1>10. CASE Moved(t, u, "set", "end") /\ People!SetGrants(t)
  <2>1. /\ u \in Users /\ t \in People!Of(u) /\ task[t].pc = "set" /\ People!Of(u)' = People!Of(u) \ {t}
        /\ (\A s \in People!Of(u) : s # t => task'[s] = task[s])
        /\ People!AloneInv(u)'
    BY <1>0, <1>10, MovedOf
  <2>2. UNCHANGED <<row, listed, history>>
    BY <1>10 DEF People!SetGrants
  <2>3. u \in row
    BY <1>0, <2>1 DEF People!HandlersInv
  <2>4. People!HandlersInv(u)'
    BY <1>0, <2>1, <2>2 DEF People!HandlersInv
  <2>5. u \in listed'["deleted"] => \E s \in People!Of(u)' : task'[s].pc = "clear"
    <3>1. u \in listed["deleted"] => \E s \in People!Of(u) : task[s].pc = "clear"
      BY <1>0, <2>3 DEF People!RestInv
    <3> QED BY <2>1, <2>2, <3>1
  <2>6. People!RestInv(u)'
    BY <2>2, <2>3, <2>5 DEF People!RestInv
  <2> QED BY <2>1, <2>4, <2>6 DEF UserInv
<1> QED BY <1>1, <1>2, <1>3, <1>4, <1>5, <1>6, <1>7, <1>8, <1>9, <1>10, HandlerSteps

(* Everybody else.                                                          *)
LEMMA OthersAway ==
    ASSUME People!UsersAssumption, People!TypeOK, NEW t \in Tasks, NEW u, u = task[t].user,
           NEW v \in Users, v # u,
           \/ People!CreateRow(t) \/ People!ClearUserDeleted(t)
           \/ People!RememberUserSource(t) \/ People!TrackNick(t)
           \/ People!Drop(t) \/ People!MarkUserDeleted(t) \/ People!SetGrants(t)
    PROVE  Away(v)
<1>l. "direct" \in People!Lists /\ "room" \in People!Lists /\ "deleted" \in People!Lists
      /\ TRUE \in BOOLEAN /\ FALSE \in BOOLEAN
  BY DEF People!Lists
<1>1. ASSUME NEW from, NEW to, Moved(t, u, from, to)
      PROVE  \A s \in Tasks : task[s].user = v \/ task'[s].user = v => task'[s] = task[s]
  BY <1>1, IdleFields DEF Moved
<1>2. ASSUME NEW l \in People!Lists, NEW b \in BOOLEAN, People!SetListed(t, l, b)
      PROVE  /\ UNCHANGED <<row, history, grants>>
             /\ \A k \in People!Lists : v \in listed'[k] <=> v \in listed[k]
  BY <1>2, ListSet
<1>3. CASE Moved(t, u, "row", "clear") /\ People!CreateRow(t)
  BY <1>1, <1>3 DEF People!CreateRow, Away
<1>4. CASE Moved(t, u, "nick", "end") /\ People!TrackNick(t)
  <2>1. history'[v] = history[v]
    BY <1>4, NickTracked
  <2>2. UNCHANGED <<row, listed, grants>>
    BY <1>4 DEF People!TrackNick
  <2> QED BY <1>1, <1>4, <2>1, <2>2 DEF Away
<1>5. CASE Moved(t, u, "drop", "direct") /\ People!Drop(t)
  <2>1. history'[v] = history[v]
    BY <1>5, Dropped DEF OthersKept
  <2>2. listed' = listed /\ row' = row \ {u} /\ grants' = grants \ {u}
    BY <1>5 DEF People!Drop, People!DropRows
  <2> QED BY <1>1, <1>5, <2>1, <2>2 DEF Away
<1>6. CASE Moved(t, u, "set", "end") /\ People!SetGrants(t)
  <2>1. UNCHANGED <<row, listed, history>> /\ (v \in grants' <=> v \in grants)
    BY <1>6 DEF People!SetGrants
  <2> QED BY <1>1, <1>6, <2>1 DEF Away
<1>7. CASE (\E from, to : Moved(t, u, from, to)) /\
           \E l \in People!Lists, b \in BOOLEAN : People!SetListed(t, l, b)
  <2>1. \A s \in Tasks : task[s].user = v \/ task'[s].user = v => task'[s] = task[s]
    BY <1>1, <1>7
  <2>2. /\ UNCHANGED <<row, history, grants>>
        /\ \A k \in People!Lists : v \in listed'[k] <=> v \in listed[k]
    BY <1>2, <1>7
  <2> QED BY <2>1, <2>2 DEF Away
<1> QED BY <1>l, <1>3, <1>4, <1>5, <1>6, <1>7, HandlerSteps

LEMMA AccountStep ==
    ASSUME People!UsersAssumption, People!TypeOK, People!AccountInv, [People!Next]_(People!vars)
    PROVE  People!AccountInv'
<1> SUFFICES ASSUME NEW v \in Users, v \notin raced' PROVE UserInv(v)'
  BY DEF People!AccountInv, UserInv
<1>0. \A w \in Users : w \notin raced => UserInv(w)
  BY DEF People!AccountInv, UserInv
<1>1. ASSUME UNCHANGED <<row, grants, history, listed, task, raced>> PROVE UserInv(v)'
  <2>1. Away(v) /\ v \notin raced
    BY <1>1 DEF Away
  <2> QED BY <1>0, <2>1, AwayHolds
<1>2. ASSUME NEW t \in Tasks, NEW u \in Users,
             \/ Started(t, u, {"presence", "message"}, {"row"})
             \/ Started(t, u, {"delete"}, {"drop"}) /\ u \in row
             \/ Started(t, u, {"grant", "revoke"}, {"set"}) /\ u \in row
      PROVE  UserInv(v)'
  <2>1. v \notin raced
    BY <1>2 DEF Started
  <2>2. CASE v = u
    BY <1>0, <1>2, <2>1, <2>2, StartHolds
  <2>3. CASE v # u
    <3>1. PICK h \in People!Handlers : h.user = u /\ task' = [task EXCEPT ![t] = h] /\ task[t] = People!Idle
                                /\ UNCHANGED <<row, listed, history, grants>>
      BY <1>2 DEF Started
    <3>2. task \in [Tasks -> People!Handlers]
      BY DEF People!TypeOK
    <3>3. Away(v)
      BY <2>3, <3>1, <3>2, IdleFields DEF Away
    <3> QED BY <1>0, <2>1, <3>3, AwayHolds
  <2> QED BY <2>2, <2>3
<1>3. ASSUME NEW t \in Tasks,
             \/ People!CreateRow(t) \/ People!ClearUserDeleted(t)
             \/ People!RememberUserSource(t) \/ People!TrackNick(t)
             \/ People!Drop(t) \/ People!MarkUserDeleted(t) \/ People!SetGrants(t)
      PROVE  UserInv(v)'
  <2>1. PICK u : u = task[t].user
    OBVIOUS
  <2>2. v \notin raced
    <3>1. raced' = raced
      BY <1>3, <2>1, HandlerSteps DEF Moved
    <3> QED BY <3>1
  <2>3. CASE v = u
    BY <1>0, <1>3, <2>1, <2>2, <2>3, MoveHolds
  <2>4. CASE v # u
    <3>1. Away(v)
      BY <1>3, <2>1, <2>4, OthersAway
    <3> QED BY <1>0, <2>2, <3>1, AwayHolds
  <2> QED BY <2>3, <2>4
<1>4. ASSUME NEW u \in Users, People!OccupantLeaves(u)
      PROVE  UNCHANGED <<row, grants, history, listed, task, raced>>
  BY <1>4 DEF People!OccupantLeaves
<1>5. CASE People!Flush \/ People!Reload
  BY <1>1, <1>5, IndexSteps
<1>6. CASE UNCHANGED People!vars
  BY <1>1, <1>6 DEF People!vars
<1>7. ASSUME NEW t \in Tasks, NEW u \in Users,
             \/ \E r \in Rooms, n \in Nicks : People!Presence(t, u, r, n)
             \/ People!PrivateMessage(t, u) \/ People!UsersDelete(t, u)
             \/ People!ValidateGrantChange(t, u)
      PROVE  UserInv(v)'
  BY <1>2, <1>7, StartSteps
<1> QED BY <1>1, <1>3, <1>4, <1>5, <1>6, <1>7 DEF People!Next

(* Before anything happened nobody is known.                                *)
LEMMA StartsUnknown ==
    ASSUME People!UsersAssumption, People!Init
    PROVE  People!TypeOK /\ People!IndexIsHistory /\ People!AccountInv
<1>1. People!TypeOK
  <2>1. People!Forgotten \in [Rooms -> Seq(Nicks)] /\ \A r \in Rooms : Len(People!Forgotten[r]) = 0
    BY DEF People!Forgotten
  <2>2. history \in [Users -> [Rooms -> Seq(Nicks)]]
        /\ \A u \in Users, r \in Rooms : Len(history[u][r]) <= MAX_ROOM_NICKS
    BY <2>1 DEF People!Init, People!UsersAssumption
  <2>3. index \in People!Indexes /\ stored \in People!Indexes
    BY DEF People!Init, People!Indexes, People!Nobody
  <2>4. task \in [Tasks -> People!Handlers]
    BY DEF People!Init, People!Handlers
  <2>5. events \in 0 .. MaxEvents
    BY DEF People!Init, People!UsersAssumption
  <2>6. row \subseteq Users /\ listed \in [People!Lists -> SUBSET Users] /\ shared \in BOOLEAN
        /\ grants \subseteq Users /\ occupants \subseteq Users /\ raced \subseteq Users
        /\ stale \subseteq Users /\ failed \subseteq Users
    BY DEF People!Init
  <2> QED BY <2>2, <2>3, <2>4, <2>5, <2>6 DEF People!TypeOK
<1>2. \A u \in Users : People!Known(history[u]) = {}
  BY DEF People!Init, People!Known, People!Forgotten, People!Items
<1>3. \A n \in Nicks : index[n].jids = {}
  BY DEF People!Init, People!Nobody
<1>4. People!IndexIsHistory
  BY <1>2, <1>3 DEF People!IndexIsHistory, People!Indexed
<1>5. ASSUME NEW u \in Users PROVE People!Of(u) = {}
  BY DEF People!Of, People!Init, People!Idle, People!UsersAssumption
<1>6. ASSUME NEW u \in Users PROVE People!AloneInv(u) /\ People!HandlersInv(u) /\ People!RestInv(u)
  <2>1. People!AloneInv(u) /\ People!HandlersInv(u)
    BY <1>5 DEF People!AloneInv, People!HandlersInv
  <2>2. People!RestInv(u)
    BY <1>2 DEF People!RestInv, People!Init, People!Lists
  <2> QED BY <2>1, <2>2
<1> QED BY <1>1, <1>4, <1>6 DEF People!AccountInv

(* What the invariant says of a moment when no handler runs.                *)
LEMMA QuietAccount ==
    ASSUME People!UsersAssumption, People!TypeOK, People!AccountInv
    PROVE  People!DeletedIsForgotten /\ People!SeenIsShown
<1>1. ASSUME People!Quiet, NEW u \in Users, u \notin raced
      PROVE  /\ u \in listed["direct"] \union listed["room"] => u \in row
             /\ u \in grants \/ People!Known(history[u]) # {} => u \in row
             /\ u \in listed["deleted"] => u \notin row
  <2>1. People!Of(u) = {}
    BY <1>1 DEF People!Of, People!Quiet, People!Idle, People!UsersAssumption
  <2>2. People!RestInv(u)
    BY <1>1 DEF People!AccountInv
  <2>3. ~People!Forgetting(u)
    BY <2>1 DEF People!Forgetting
  <2> QED BY <2>1, <2>2, <2>3 DEF People!RestInv
<1>2. People!DeletedIsForgotten
  <2> SUFFICES ASSUME People!Quiet, NEW u, u \in listed["deleted"], u \notin raced
               PROVE  /\ u \notin row /\ u \notin grants /\ People!Known(history[u]) = {}
                      /\ u \notin listed["direct"] \union listed["room"] /\ People!Section(u) = None
    BY DEF People!DeletedIsForgotten
  <2>1. u \in Users
    BY DEF People!TypeOK, People!Lists
  <2>2. /\ u \notin row /\ u \notin grants /\ People!Known(history[u]) = {}
        /\ u \notin listed["direct"] \union listed["room"]
    BY <1>1, <2>1
  <2>3. People!Section(u) = None
    BY <2>2 DEF People!Section, People!Suppressed
  <2> QED BY <2>2, <2>3
<1>3. People!SeenIsShown
  <2> SUFFICES ASSUME People!Quiet, NEW u \in Users, u \notin raced
               PROVE  /\ u \in listed["direct"] \union listed["room"] =>
                             People!Section(u) \in {"active", "passive"}
                      /\ u \in grants \/ People!Known(history[u]) # {} => u \in row
    BY DEF People!SeenIsShown
  <2>1. u \in grants \/ People!Known(history[u]) # {} => u \in row
    BY <1>1
  <2>2. ASSUME u \in listed["direct"] \union listed["room"]
        PROVE  People!Section(u) \in {"active", "passive"}
    <3>1. u \in row
      BY <1>1, <2>2
    <3> QED BY <2>2, <3>1 DEF People!Section, People!Suppressed
  <2> QED BY <2>1, <2>2
<1> QED BY <1>2, <1>3

(* The index leads to exactly the users whose history has the nick, a       *)
(* deleted user is forgotten and an active one is shown: PeopleAreKnown in  *)
(* every state, whatever handlers, reloads and flushes overlap.             *)
THEOREM PeopleAreAlwaysKnown ==
    ASSUME People!UsersAssumption
    PROVE  People!Spec => []People!PeopleAreKnown
<1> DEFINE Inv == People!TypeOK /\ People!IndexIsHistory /\ People!AccountInv
<1>1. People!Init => Inv
  BY StartsUnknown
<1>2. Inv /\ [People!Next]_(People!vars) => Inv'
  BY TypeStep, IndexStep, AccountStep
<1>3. Inv => People!PeopleAreKnown
  BY QuietAccount DEF People!PeopleAreKnown
<1> QED BY <1>1, <1>2, <1>3, PTL DEF People!Spec

-----------------------------------------------------------------------------
(* The translate plugin, as an instance.  What it assumes of its constants  *)
(* is a hypothesis of the theorem; TLC evaluates it for the constants of    *)
(* MCIncoming.                                                              *)
CONSTANTS Requests, Providers, InitialLimit, MaxLimit, RetryAfter, MaxFetches
VARIABLES pc, at, outcomes, answers, seen, slot, lacking, fetches
Trans == INSTANCE Translate

-----------------------------------------------------------------------------
(* Translations (Translate).                                                *)

Going == {"idle", "choosing", "queued", "answered", "cancelled"}

LEMMA TranslateTypes ==
    ASSUME Trans!TranslateAssumption, Trans!TypeOK
    PROVE  /\ Providers \in Nat /\ MaxLimit \in Nat /\ MaxFetches \in Nat
           /\ \A p \in Trans!Chain : p \in 1 .. Providers + 1 /\ p + 1 \in 1 .. Providers + 1
           /\ \A p \in Trans!Chain : left[p] \in 0 .. MaxLimit /\ backoff[p] \in 0 .. MaxLimit
           /\ \A p \in Trans!Chain : slot[p] # Trans!Free => slot[p] \in Requests
           /\ \A r \in Requests : r # Trans!Free
  BY DEF Trans!TranslateAssumption, Trans!TypeOK, Trans!Chain

LEMMA CooldownIsBounded ==
    ASSUME Trans!TranslateAssumption, Trans!TypeOK, NEW p \in Trans!Chain,
           NEW asked \in RetryAfter \union {0}
    PROVE  Trans!Cooldown(p, asked) \in 0 .. MaxLimit
<1>1. asked \in Nat /\ backoff[p] \in Nat /\ InitialLimit \in Nat /\ MaxLimit \in Nat
  BY TranslateTypes DEF Trans!TranslateAssumption
<1>2. Trans!Higher(asked, IF backoff[p] > 0 THEN 2 * backoff[p] ELSE InitialLimit) \in Nat
  BY <1>1 DEF Trans!Higher
<1> QED BY <1>1, <1>2 DEF Trans!Cooldown, Trans!Lower

(* A request that calls nobody goes on, and no lock or limit changes.       *)
GoesAhead(r, x) ==
    /\ pc[r] # "calling" /\ x \in Going /\ pc' = [pc EXCEPT ![r] = x]
    /\ at' \in [Requests -> 1 .. Providers + 1] /\ \A q \in Requests : q # r => at'[q] = at[q]
    /\ x = "queued" => at'[r] \in Trans!Chain
    /\ outcomes' \in [Requests -> SUBSET Trans!Outcomes]
    /\ answers' \in [Requests -> SUBSET Trans!Answers]
    /\ seen' \in {seen, seen \union {r}} /\ (pc[r] # "idle" \/ r \in seen')
    /\ UNCHANGED <<left, backoff, slot, lacking, task, fetches>>

LEMMA WithoutACall ==
    ASSUME Trans!TranslateAssumption, Trans!TypeOK, Trans!CallsInv, NEW r \in Requests,
           NEW x, GoesAhead(r, x)
    PROVE  Trans!TypeOK' /\ Trans!CallsInv'
<1> USE DEF GoesAhead
<1>0. Trans!TypeOK'
  BY DEF Trans!TypeOK, Going, Trans!Chain, Trans!Free
<1>1. \A q \in Requests : pc'[q] = IF q = r THEN x ELSE pc[q]
  BY DEF Trans!TypeOK
<1>2. \A q \in Requests : pc[q] = "calling" => pc'[q] = "calling" /\ at'[q] = at[q]
  BY <1>1
<1>3. \A q \in Requests : pc'[q] = "calling" => pc[q] = "calling" /\ at'[q] = at[q]
  BY <1>1 DEF Going
<1>4. Trans!NoCallsInCooldown'
  BY <1>3 DEF Trans!CallsInv, Trans!NoCallsInCooldown
<1>5. Trans!SlotsAreReleased'
  BY <1>2, TranslateTypes DEF Trans!CallsInv, Trans!SlotsAreReleased, Trans!Chain, Trans!Free
<1>6. \A q \in Requests : /\ pc'[q] \in {"queued", "calling"} => at'[q] \in Trans!Chain
                          /\ pc'[q] = "calling" => slot'[at'[q]] = q
  BY <1>1, <1>3 DEF Trans!CallsInv
<1>7. \A q \in Requests : q \notin seen' => pc'[q] = "idle"
  BY <1>1 DEF Trans!CallsInv
<1> QED BY <1>0, <1>4, <1>5, <1>6, <1>7 DEF Trans!CallsInv, Trans!Chain

(* A call ends, one way or another: its lock is let go, and the limits that *)
(* change are those of its provider.                                        *)
LEMMA CallEnds ==
    ASSUME Trans!TranslateAssumption, Trans!TypeOK, Trans!CallsInv,
           NEW r \in Requests, pc[r] = "calling",
           NEW x \in Going \ {"queued"}, pc' = [pc EXCEPT ![r] = x],
           \A q \in Requests : q # r => at'[q] = at[q], seen' = seen,
           Trans!Release(r), \A p \in Trans!Chain : p # at[r] => left'[p] = left[p]
    PROVE  Trans!CallsInv'
<1>1. \A q \in Requests : pc'[q] = IF q = r THEN x ELSE pc[q]
  BY DEF Trans!TypeOK
<1>2. \A p \in Trans!Chain : slot'[p] = IF p = at[r] THEN Trans!Free ELSE slot[p]
  BY DEF Trans!Release, Trans!TypeOK
<1>3. at[r] \in Trans!Chain /\ slot[at[r]] = r
  BY DEF Trans!CallsInv
<1>4. \A q \in Requests : pc'[q] = "calling" =>
          /\ q # r /\ pc[q] = "calling" /\ at'[q] = at[q] /\ at[q] \in Trans!Chain
          /\ slot[at[q]] = q /\ at[q] # at[r]
  BY <1>1, <1>3 DEF Going, Trans!CallsInv
<1>5. Trans!NoCallsInCooldown'
  BY <1>4 DEF Trans!CallsInv, Trans!NoCallsInCooldown
<1>6. ASSUME NEW p \in Trans!Chain, slot'[p] # Trans!Free
      PROVE  pc'[slot'[p]] = "calling" /\ at'[slot'[p]] = p
  <2>1. p # at[r] /\ slot'[p] = slot[p]
    BY <1>2, <1>6
  <2>2. slot[p] \in Requests /\ pc[slot[p]] = "calling" /\ at[slot[p]] = p
    BY <1>6, <2>1, TranslateTypes DEF Trans!CallsInv, Trans!SlotsAreReleased
  <2>3. slot[p] # r
    BY <2>1, <2>2
  <2> QED BY <1>1, <2>1, <2>2, <2>3
<1>7. Trans!SlotsAreReleased'
  BY <1>6 DEF Trans!SlotsAreReleased, Trans!Chain, Trans!Free
<1>8. \A q \in Requests : /\ pc'[q] \in {"queued", "calling"} => at'[q] \in Trans!Chain
                          /\ pc'[q] = "calling" => slot'[at'[q]] = q
  BY <1>1, <1>2, <1>4 DEF Going, Trans!CallsInv
<1>9. \A q \in Requests : q \notin seen' => pc'[q] = "idle"
  BY <1>1 DEF Trans!CallsInv
<1> QED BY <1>5, <1>7, <1>8, <1>9 DEF Trans!CallsInv, Trans!Chain

(* A request gets the lock of a provider that need not be left alone.       *)
LEMMA CallBegins ==
    ASSUME Trans!TranslateAssumption, Trans!TypeOK, Trans!CallsInv,
           NEW r \in Requests, pc[r] = "queued", slot[at[r]] = Trans!Free,
           left[at[r]] = 0, slot' = [slot EXCEPT ![at[r]] = r],
           pc' = [pc EXCEPT ![r] = "calling"], at' = at, left' = left, seen' = seen
    PROVE  Trans!CallsInv'
<1>1. \A q \in Requests : pc'[q] = IF q = r THEN "calling" ELSE pc[q]
  BY DEF Trans!TypeOK
<1>2. \A p \in Trans!Chain : slot'[p] = IF p = at[r] THEN r ELSE slot[p]
  BY DEF Trans!TypeOK
<1>3. at[r] \in Trans!Chain
  BY DEF Trans!CallsInv
<1>4. Trans!NoCallsInCooldown'
  BY <1>1 DEF Trans!CallsInv, Trans!NoCallsInCooldown
<1>5. ASSUME NEW p \in Trans!Chain, slot'[p] # Trans!Free
      PROVE  pc'[slot'[p]] = "calling" /\ at'[slot'[p]] = p
  <2>1. CASE p = at[r]
    BY <1>1, <1>2, <2>1
  <2>2. CASE p # at[r]
    <3>1. slot'[p] = slot[p]
      BY <1>2, <2>2
    <3>2. slot[p] \in Requests /\ pc[slot[p]] = "calling" /\ at[slot[p]] = p
      BY <1>5, <3>1, TranslateTypes DEF Trans!CallsInv, Trans!SlotsAreReleased
    <3> QED BY <1>1, <3>1, <3>2
  <2> QED BY <2>1, <2>2
<1>6. Trans!SlotsAreReleased'
  BY <1>5 DEF Trans!SlotsAreReleased, Trans!Chain, Trans!Free
<1>7. ASSUME NEW q \in Requests
      PROVE  /\ pc'[q] \in {"queued", "calling"} => at'[q] \in Trans!Chain
             /\ pc'[q] = "calling" => slot'[at'[q]] = q
             /\ q \notin seen' => pc'[q] = "idle"
  <2>1. CASE q = r
    BY <1>2, <1>3, <2>1 DEF Trans!CallsInv
  <2>2. CASE q # r
    <3>1. pc'[q] = pc[q] /\ at'[q] = at[q]
      BY <1>1, <2>2
    <3>2. pc[q] = "calling" => at[q] \in Trans!Chain /\ slot[at[q]] = q
      BY DEF Trans!CallsInv
    <3>3. pc[q] = "calling" => at[q] # at[r]
      BY <3>2, TranslateTypes
    <3> QED BY <1>2, <3>1, <3>2, <3>3 DEF Trans!CallsInv
  <2> QED BY <2>1, <2>2
<1> QED BY <1>4, <1>6, <1>7 DEF Trans!CallsInv, Trans!Chain

(* What has come of a provider, and the next one's turn.                    *)
LEMMA GoesOnTypes ==
    ASSUME Trans!TranslateAssumption, Trans!TypeOK, NEW r \in Requests, at[r] \in Trans!Chain,
           NEW o \in Trans!Outcomes, Trans!GoesOn(r, o)
    PROVE  /\ outcomes' \in [Requests -> SUBSET Trans!Outcomes]
           /\ at' \in [Requests -> 1 .. Providers + 1]
           /\ \A q \in Requests : q # r => at'[q] = at[q]
           /\ pc' = [pc EXCEPT ![r] = "choosing"]
<1>1. at[r] + 1 \in 1 .. Providers + 1
  BY TranslateTypes
<1>2. outcomes[r] \union {o} \in SUBSET Trans!Outcomes
  BY DEF Trans!TypeOK
<1> QED BY <1>1, <1>2 DEF Trans!GoesOn, Trans!TypeOK

LEMMA CommandGoesAhead ==
    ASSUME Trans!TranslateAssumption, Trans!TypeOK, Trans!CallsInv, NEW r \in Requests,
           Trans!TranslateCommand(r)
    PROVE  GoesAhead(r, "choosing")
  BY DEF Trans!TranslateCommand, Trans!CallsInv, GoesAhead, Going, Trans!TypeOK, Trans!limits

LEMMA ProviderGoesAhead ==
    ASSUME Trans!TranslateAssumption, Trans!TypeOK, NEW r \in Requests, NEW o \in Trans!Outcomes,
           at[r] \in Trans!Chain, pc[r] \in {"choosing", "queued"}, Trans!GoesOn(r, o),
           UNCHANGED <<answers, seen, left, backoff, slot, lacking, task, fetches>>
    PROVE  GoesAhead(r, "choosing")
<1>1. Trans!Outcomes = {"limited", "busy", "rejected", "failed"} /\ "choosing" \in Going
  BY DEF Trans!Outcomes, Going
<1> QED BY <1>1, GoesOnTypes DEF GoesAhead, Trans!TypeOK

LEMMA WaitingHolds ==
    ASSUME Trans!TranslateAssumption, Trans!TypeOK, Trans!CallsInv, NEW r \in Requests,
           \/ Trans!TranslateCommand(r) \/ Trans!Choose(r) \/ Trans!Acquire(r)
           \/ Trans!QueueTimeout(r) \/ Trans!GivesUp(r)
    PROVE  Trans!TypeOK' /\ Trans!CallsInv'
<1> USE DEF Trans!limits
<1>0. /\ "limited" \in Trans!Outcomes /\ "busy" \in Trans!Outcomes /\ "rejected" \in Trans!Outcomes
      /\ pc[r] = "queued" => at[r] \in Trans!Chain
  BY DEF Trans!Outcomes, Trans!CallsInv
<1>1. CASE Trans!TranslateCommand(r)
  BY <1>1, CommandGoesAhead, WithoutACall
<1>2. CASE Trans!Choose(r)
  <2>1. CASE Trans!GoesOn(r, "rejected") \/ Trans!GoesOn(r, "limited")
    BY <1>0, <1>2, <2>1, ProviderGoesAhead, WithoutACall DEF Trans!Choose
  <2>2. CASE pc' = [pc EXCEPT ![r] = "queued"] /\ UNCHANGED <<at, outcomes>>
    <3>1. GoesAhead(r, "queued")
      BY <1>2, <2>2 DEF Trans!Choose, GoesAhead, Going, Trans!TypeOK
    <3> QED BY <3>1, WithoutACall
  <2> QED BY <1>2, <2>1, <2>2 DEF Trans!Choose
<1>3. CASE Trans!Acquire(r)
  <2>1. CASE Trans!GoesOn(r, "limited") /\ slot' = slot
    BY <1>0, <1>3, <2>1, ProviderGoesAhead, WithoutACall DEF Trans!Acquire
  <2>2. CASE /\ left[at[r]] = 0 /\ slot' = [slot EXCEPT ![at[r]] = r]
             /\ pc' = [pc EXCEPT ![r] = "calling"] /\ UNCHANGED <<at, outcomes>>
    <3>1. Trans!CallsInv'
      BY <1>3, <2>2, CallBegins DEF Trans!Acquire
    <3>2. Trans!TypeOK'
      BY <1>0, <1>3, <2>2 DEF Trans!Acquire, Trans!TypeOK, Trans!Chain, Trans!Free
    <3> QED BY <3>1, <3>2
  <2> QED BY <1>3, <2>1, <2>2 DEF Trans!Acquire
<1>4. CASE Trans!QueueTimeout(r)
  BY <1>0, <1>4, ProviderGoesAhead, WithoutACall DEF Trans!QueueTimeout
<1>5. CASE Trans!GivesUp(r)
  <2>1. Trans!Answer(outcomes[r]) \in Trans!Answers
    BY DEF Trans!Answer, Trans!Answers
  <2>2. answers' \in [Requests -> SUBSET Trans!Answers]
    BY <1>5, <2>1 DEF Trans!GivesUp, Trans!TypeOK
  <2>3. GoesAhead(r, "answered")
    BY <1>5, <2>2 DEF Trans!GivesUp, GoesAhead, Going, Trans!TypeOK
  <2> QED BY <2>3, WithoutACall
<1> QED BY <1>1, <1>2, <1>3, <1>4, <1>5

LEMMA CallingHolds ==
    ASSUME Trans!TranslateAssumption, Trans!TypeOK, Trans!CallsInv, NEW r \in Requests,
           \/ Trans!Succeeds(r) \/ Trans!TooManyRequests(r) \/ Trans!Fails(r) \/ Trans!Cancelled(r)
    PROVE  Trans!TypeOK' /\ Trans!CallsInv'
<1> USE DEF Trans!limits
<1>0. /\ "limited" \in Trans!Outcomes /\ "rejected" \in Trans!Outcomes /\ "failed" \in Trans!Outcomes
      /\ pc[r] \in {"queued", "calling"} => at[r] \in Trans!Chain
      /\ Trans!Free \in Requests \union {Trans!Free}
  BY DEF Trans!Outcomes, Trans!CallsInv
<1>1. CASE Trans!Succeeds(r)
  <2>1. /\ pc[r] = "calling" /\ pc' = [pc EXCEPT ![r] = "answered"] /\ Trans!Release(r)
        /\ left' = [left EXCEPT ![at[r]] = 0] /\ backoff' = [backoff EXCEPT ![at[r]] = 0]
        /\ UNCHANGED <<at, outcomes, seen, lacking, task, fetches>>
    BY <1>1 DEF Trans!Succeeds, Trans!ResetRateLimitBackoff
  <2>2. Trans!CallsInv'
    <3>1. \A p \in Trans!Chain : p # at[r] => left'[p] = left[p]
      BY <2>1 DEF Trans!TypeOK
    <3> QED BY <2>1, <3>1, CallEnds DEF Going
  <2>3. answers' \in [Requests -> SUBSET Trans!Answers]
    BY <1>1 DEF Trans!Succeeds, Trans!TypeOK, Trans!Answers
  <2>4. 0 \in 0 .. MaxLimit
    BY TranslateTypes
  <2>5. Trans!TypeOK'
    BY <1>0, <2>1, <2>3, <2>4 DEF Trans!TypeOK, Trans!Release, Trans!Chain, Trans!Free
  <2> QED BY <2>2, <2>5
<1>2. CASE Trans!TooManyRequests(r)
  <2>1. PICK asked \in RetryAfter \union {0} : Trans!ActivateRateLimit(at[r], asked)
    BY <1>2 DEF Trans!TooManyRequests
  <2>2. PICK c \in 0 .. MaxLimit :
           left' = [left EXCEPT ![at[r]] = c] /\ backoff' = [backoff EXCEPT ![at[r]] = c]
    BY <1>0, <1>2, <2>1, CooldownIsBounded DEF Trans!ActivateRateLimit, Trans!TooManyRequests
  <2>3. /\ pc[r] = "calling" /\ Trans!Release(r) /\ Trans!GoesOn(r, "limited")
        /\ UNCHANGED <<answers, seen, lacking, task, fetches>>
    BY <1>2 DEF Trans!TooManyRequests
  <2>4. /\ outcomes' \in [Requests -> SUBSET Trans!Outcomes] /\ at' \in [Requests -> 1 .. Providers + 1]
        /\ \A q \in Requests : q # r => at'[q] = at[q]
        /\ pc' = [pc EXCEPT ![r] = "choosing"]
    BY <1>0, <2>3, GoesOnTypes
  <2>5. Trans!CallsInv'
    <3>1. \A p \in Trans!Chain : p # at[r] => left'[p] = left[p]
      BY <2>2 DEF Trans!TypeOK
    <3> QED BY <2>3, <2>4, <3>1, CallEnds DEF Going
  <2>6. Trans!TypeOK'
    BY <1>0, <2>2, <2>3, <2>4 DEF Trans!TypeOK, Trans!Release, Trans!Chain, Trans!Free
  <2> QED BY <2>5, <2>6
<1>3. CASE Trans!Fails(r)
  <2>1. PICK o \in {"rejected", "failed"} : Trans!GoesOn(r, o)
    BY <1>3 DEF Trans!Fails
  <2>2. /\ pc[r] = "calling" /\ Trans!Release(r)
        /\ UNCHANGED <<answers, seen, left, backoff, lacking, task, fetches>>
    BY <1>3 DEF Trans!Fails
  <2>3. /\ outcomes' \in [Requests -> SUBSET Trans!Outcomes] /\ at' \in [Requests -> 1 .. Providers + 1]
        /\ \A q \in Requests : q # r => at'[q] = at[q]
        /\ pc' = [pc EXCEPT ![r] = "choosing"]
    BY <1>0, <2>1, <2>2, GoesOnTypes
  <2>4. Trans!CallsInv'
    BY <2>2, <2>3, CallEnds DEF Going
  <2>5. Trans!TypeOK'
    BY <1>0, <2>2, <2>3 DEF Trans!TypeOK, Trans!Release, Trans!Chain, Trans!Free
  <2> QED BY <2>4, <2>5
<1>4. CASE Trans!Cancelled(r)
  <2>1. /\ pc[r] \in {"queued", "calling"} /\ pc' = [pc EXCEPT ![r] = "cancelled"]
        /\ UNCHANGED <<at, outcomes, answers, seen, left, backoff, lacking, task, fetches>>
    BY <1>4 DEF Trans!Cancelled
  <2>2. CASE pc[r] = "calling"
    <3>1. Trans!Release(r)
      BY <1>4, <2>2 DEF Trans!Cancelled
    <3>2. Trans!CallsInv'
      BY <2>1, <2>2, <3>1, CallEnds DEF Going
    <3>3. Trans!TypeOK'
      BY <1>0, <2>1, <3>1 DEF Trans!TypeOK, Trans!Release, Trans!Chain, Trans!Free
    <3> QED BY <3>2, <3>3
  <2>3. CASE pc[r] = "queued"
    <3>1. GoesAhead(r, "cancelled")
      BY <1>4, <2>1, <2>3 DEF Trans!Cancelled, GoesAhead, Going, Trans!TypeOK
    <3> QED BY <3>1, WithoutACall
  <2> QED BY <2>1, <2>2, <2>3
<1> QED BY <1>1, <1>2, <1>3, <1>4

(* Time passes, and what is known of the providers changes.                 *)
LEMMA BesidesHolds ==
    ASSUME Trans!TranslateAssumption, Trans!TypeOK, Trans!CallsInv,
           \/ Trans!Tick \/ Trans!OnLoad \/ Trans!RefreshProviderCapabilities \/ Trans!RefreshAgain
           \/ Trans!OnUnload \/ (\E p \in Trans!Chain : Trans!Expires(p))
    PROVE  Trans!TypeOK' /\ Trans!CallsInv'
<1> USE DEF Trans!limits, Trans!request
<1>1. CASE Trans!Tick
  <2>1. UNCHANGED <<pc, at, outcomes, answers, seen, backoff, slot, lacking, task, fetches>>
    BY <1>1 DEF Trans!Tick
  <2>2. \A p \in Trans!Chain : /\ left'[p] = IF left[p] > 0 THEN left[p] - 1 ELSE 0
                              /\ left'[p] \in 0 .. MaxLimit
    BY <1>1, TranslateTypes DEF Trans!Tick
  <2>3. left' \in [Trans!Chain -> 0 .. MaxLimit]
    BY <1>1, <2>2 DEF Trans!Tick
  <2>4. Trans!TypeOK'
    BY <2>1, <2>3 DEF Trans!TypeOK, Trans!Chain, Trans!Free
  <2>5. Trans!NoCallsInCooldown'
    BY <2>1, <2>2 DEF Trans!NoCallsInCooldown, Trans!CallsInv
  <2> QED BY <2>1, <2>4, <2>5 DEF Trans!CallsInv, Trans!SlotsAreReleased, Trans!Chain, Trans!Free
<1>2. CASE \/ Trans!OnLoad \/ Trans!RefreshProviderCapabilities \/ Trans!RefreshAgain
           \/ Trans!OnUnload \/ (\E p \in Trans!Chain : Trans!Expires(p))
  <2>1. UNCHANGED <<pc, at, outcomes, answers, seen, left, backoff, slot>>
    BY <1>2 DEF Trans!OnLoad, Trans!RefreshProviderCapabilities, Trans!RefreshAgain,
         Trans!OnUnload, Trans!Expires
  <2>2. lacking' \subseteq Trans!Chain
    BY <1>2 DEF Trans!OnLoad, Trans!RefreshProviderCapabilities, Trans!RefreshAgain,
         Trans!OnUnload, Trans!Expires, Trans!TypeOK
  <2>3. task' \in 0 .. Providers + 1 /\ fetches' \in 0 .. MaxFetches
    <3>1. CASE Trans!OnLoad \/ Trans!RefreshAgain \/ Trans!OnUnload \/ (\E p \in Trans!Chain : Trans!Expires(p))
      BY <3>1, TranslateTypes DEF Trans!OnLoad, Trans!RefreshAgain, Trans!OnUnload, Trans!Expires, Trans!TypeOK
    <3>2. CASE Trans!RefreshProviderCapabilities
      BY <3>2, TranslateTypes DEF Trans!RefreshProviderCapabilities, Trans!TypeOK, Trans!Chain
    <3> QED BY <1>2, <3>1, <3>2
  <2>4. Trans!TypeOK'
    BY <2>1, <2>2, <2>3 DEF Trans!TypeOK, Trans!Chain, Trans!Free
  <2> QED BY <2>1, <2>4 DEF Trans!CallsInv, Trans!NoCallsInCooldown, Trans!SlotsAreReleased, Trans!Chain, Trans!Free
<1> QED BY <1>1, <1>2

(* However many commands wait, time out or are cut off: no provider is      *)
(* called before its cooldown is over, and a lock is held only by who calls. *)
(* (_run_provider_attempt, _activate_rate_limit)                            *)
THEOREM ProvidersAreLeftAlone ==
    ASSUME Trans!TranslateAssumption
    PROVE  Trans!Spec => [](Trans!NoCallsInCooldown /\ Trans!SlotsAreReleased)
<1> DEFINE Inv == Trans!TypeOK /\ Trans!CallsInv
<1>1. Trans!Init => Inv
  <2> SUFFICES ASSUME Trans!Init PROVE Inv
    OBVIOUS
  <2>1. 1 \in 1 .. Providers + 1 /\ 0 \in 0 .. MaxLimit /\ 0 \in 0 .. Providers + 1 /\ 0 \in 0 .. MaxFetches
    BY DEF Trans!TranslateAssumption
  <2>2. Trans!TypeOK
    BY <2>1 DEF Trans!Init, Trans!TypeOK
  <2>3. Trans!CallsInv
    BY DEF Trans!Init, Trans!CallsInv, Trans!NoCallsInCooldown, Trans!SlotsAreReleased
  <2> QED BY <2>2, <2>3
<1>2. Inv /\ [Trans!Next]_(Trans!vars) => Inv'
  <2> SUFFICES ASSUME Inv, [Trans!Next]_(Trans!vars) PROVE Inv'
    OBVIOUS
  <2>1. CASE UNCHANGED Trans!vars
    BY <2>1 DEF Trans!vars, Trans!request, Trans!limits, Trans!TypeOK, Trans!CallsInv,
         Trans!NoCallsInCooldown, Trans!SlotsAreReleased, Trans!Chain, Trans!Free
  <2>2. ASSUME NEW r \in Requests, Trans!TranslateCommand(r) \/ Trans!Works(r) \/ Trans!Cancelled(r)
        PROVE  Inv'
    BY <2>2, WaitingHolds, CallingHolds DEF Trans!Works
  <2>3. CASE \/ Trans!Tick \/ Trans!OnLoad \/ Trans!RefreshProviderCapabilities \/ Trans!RefreshAgain
             \/ Trans!OnUnload \/ (\E p \in Trans!Chain : Trans!Expires(p))
    BY <2>3, BesidesHolds
  <2> QED BY <2>1, <2>2, <2>3 DEF Trans!Next
<1>3. Inv => Trans!NoCallsInCooldown /\ Trans!SlotsAreReleased
  BY DEF Trans!CallsInv
<1> QED BY <1>1, <1>2, <1>3, PTL DEF Trans!Spec

-----------------------------------------------------------------------------
(* The duck game, as an instance; `enabled`, `pending`, `at`, `crossed` and *)
(* `events` are declared above.                                             *)
CONSTANTS MaxHandlers, Limits, MaxThreshold, SaveEvery, MaxDucks
VARIABLES
    limit, timed, kept, daily, stats, active, count, threshold, spawnTask,
    expireTask, spawns, expires, caught
Duck == INSTANCE Ducks

-----------------------------------------------------------------------------
(* Ducks (Ducks).                                                           *)

LEMMA DuckNumbers ==
    ASSUME Duck!DucksAssumption
    PROVE  MaxThreshold \in Nat /\ MaxThreshold >= 1 /\ MaxDucks \in Nat /\ MaxEvents \in Nat
  BY DEF Duck!DucksAssumption

LEMMA SameCount == ASSUME NEW S PROVE Duck!Cardinality(S) = Cardinality(S)
  BY DEF Duck!Cardinality, Cardinality

DuckStates == {"none", "asleep", "check", "reset", "cancelled", "done"}
TimerStates == {"none", "untimed", "asleep", "cancelled", "done"}

LEMMA DuckTypes ==
    ASSUME Duck!TypeOK
    PROVE  /\ limit \in Limits /\ kept \in [count : Nat, threshold : 0 .. MaxThreshold]
           /\ daily \in Nat /\ stats \in Nat
           /\ active \in 0 .. MaxDucks /\ spawnTask \in 0 .. MaxDucks /\ expireTask \in 0 .. MaxDucks
           /\ count \in Nat \union {-1} /\ threshold \in 0 .. MaxThreshold
           /\ spawns \in [Duck!Ducks -> DuckStates] /\ expires \in [Duck!Ducks -> TimerStates]
           /\ at \in [Duck!Places -> Nat] /\ caught \in [by : SUBSET Duck!Ducks, lost : Nat]
           /\ events \in 0 .. MaxEvents
<1>1. /\ limit \in Limits /\ kept \in [count : Nat, threshold : 0 .. MaxThreshold]
      /\ daily \in Nat /\ stats \in Nat /\ {active, spawnTask, expireTask} \subseteq 0 .. MaxDucks
      /\ count \in Nat \union {-1} /\ threshold \in 0 .. MaxThreshold
      /\ spawns \in [Duck!Ducks -> DuckStates] /\ expires \in [Duck!Ducks -> TimerStates]
      /\ at \in [Duck!Places -> Nat] /\ caught \in [by : SUBSET Duck!Ducks, lost : Nat]
      /\ events \in 0 .. MaxEvents
  BY Zenon DEF Duck!TypeOK, DuckStates, TimerStates
<1>2. active \in 0 .. MaxDucks /\ spawnTask \in 0 .. MaxDucks /\ expireTask \in 0 .. MaxDucks
  BY <1>1
<1> QED BY <1>1, <1>2, Zenon

LEMMA DuckBooleans ==
    ASSUME Duck!TypeOK
    PROVE  enabled \in BOOLEAN /\ timed \in BOOLEAN /\ pending \in BOOLEAN /\ crossed \in BOOLEAN
  BY Zenon DEF Duck!TypeOK

(* The parts of the type invariant put together again.                      *)
LEMMA DuckTypesHold ==
    ASSUME enabled' \in BOOLEAN, timed' \in BOOLEAN, pending' \in BOOLEAN, crossed' \in BOOLEAN,
           limit' \in Limits, kept' \in [count : Nat, threshold : 0 .. MaxThreshold],
           daily' \in Nat, stats' \in Nat,
           active' \in 0 .. MaxDucks, spawnTask' \in 0 .. MaxDucks, expireTask' \in 0 .. MaxDucks,
           count' \in Nat \union {-1}, threshold' \in 0 .. MaxThreshold,
           spawns' \in [Duck!Ducks -> DuckStates], expires' \in [Duck!Ducks -> TimerStates],
           at' \in [Duck!Places -> Nat], caught' \in [by : SUBSET Duck!Ducks, lost : Nat],
           events' \in 0 .. MaxEvents
    PROVE  Duck!TypeOK'
<1>1. {active, spawnTask, expireTask}' \subseteq 0 .. MaxDucks
  OBVIOUS
<1> QED BY <1>1, Zenon DEF Duck!TypeOK, DuckStates, TimerStates

(* Handlers come and go; what a step does to those that record a catch.     *)
LEMMA HandlerBegins ==
    ASSUME Duck!TypeOK, NEW to \in Duck!Places \union {"idle"}, Duck!Begin(to)
    PROVE  /\ at' \in [Duck!Places -> Nat] /\ (at["schedule"] > 0 => at'["schedule"] > 0)
           /\ Duck!Catching' = Duck!Catching + (IF to \in {"caught", "record"} THEN 1 ELSE 0)
           /\ Duck!Catching \in Nat
  BY DuckTypes DEF Duck!Begin, Duck!Catching, Duck!Places

LEMMA HandlerGoes ==
    ASSUME Duck!TypeOK, NEW from \in Duck!Places, NEW to \in Duck!Places \union {"idle"}, Duck!Goto(from, to)
    PROVE  /\ at' \in [Duck!Places -> Nat]
           /\ (at["schedule"] > 0 => at'["schedule"] > 0 \/ from = "schedule")
           /\ (to = "schedule" => from = "schedule" \/ at'["schedule"] > 0)
           /\ Duck!Catching' = Duck!Catching + (IF to \in {"caught", "record"} THEN 1 ELSE 0)
                                       - (IF from \in {"caught", "record"} THEN 1 ELSE 0)
           /\ Duck!Catching \in Nat /\ Duck!Catching' \in Nat
<1>1. at' \in [Duck!Places -> Nat]
  BY DuckTypes DEF Duck!Goto
<1>2. at' = [p \in Duck!Places |-> at[p] + (IF p = to THEN 1 ELSE 0) - (IF p = from THEN 1 ELSE 0)]
  BY DEF Duck!Goto
<1>3. /\ "schedule" \in Duck!Places /\ "caught" \in Duck!Places /\ "record" \in Duck!Places
      /\ at["schedule"] \in Nat /\ at["caught"] \in Nat /\ at["record"] \in Nat
      /\ at'["schedule"] \in Nat /\ at'["caught"] \in Nat /\ at'["record"] \in Nat
  BY <1>1, DuckTypes DEF Duck!Places
<1>4. \A p \in Duck!Places : at'[p] = at[p] + (IF p = to THEN 1 ELSE 0) - (IF p = from THEN 1 ELSE 0)
  BY <1>2
<1>5. to = "schedule" => from = "schedule" \/ at'["schedule"] > 0
  <2> SUFFICES ASSUME to = "schedule", from # "schedule" PROVE at'["schedule"] > 0
    OBVIOUS
  <2>1. at'["schedule"] = at["schedule"] + 1
    BY <1>3, <1>4
  <2> QED BY <1>3, <2>1
<1>6. at["schedule"] > 0 => at'["schedule"] > 0 \/ from = "schedule"
  <2> SUFFICES ASSUME at["schedule"] > 0, from # "schedule" PROVE at'["schedule"] > 0
    OBVIOUS
  <2>1. at'["schedule"] = at["schedule"] + (IF "schedule" = to THEN 1 ELSE 0)
    BY <1>3, <1>4
  <2> QED BY <1>3, <2>1
<1> DEFINE c == (IF "caught" = to THEN 1 ELSE 0) - (IF "caught" = from THEN 1 ELSE 0)
           r == (IF "record" = to THEN 1 ELSE 0) - (IF "record" = from THEN 1 ELSE 0)
<1>7. at'["caught"] = at["caught"] + c /\ at'["record"] = at["record"] + r
  BY <1>3, <1>4
<1>8. c + r = (IF to \in {"caught", "record"} THEN 1 ELSE 0) - (IF from \in {"caught", "record"} THEN 1 ELSE 0)
  OBVIOUS
<1>9. c \in Int /\ r \in Int
  OBVIOUS
<1>10. Duck!Catching = at["caught"] + at["record"] /\ Duck!Catching' = at'["caught"] + at'["record"]
  BY DEF Duck!Catching
<1> HIDE DEF c, r
<1> QED BY <1>1, <1>3, <1>5, <1>6, <1>7, <1>8, <1>9, <1>10

(* Nothing is caught, and nobody who records a catch goes on.               *)
LEMMA CaughtStays ==
    ASSUME Duck!CaughtOnce, stats' = stats, caught' = caught, Duck!Catching' = Duck!Catching
    PROVE  Duck!CaughtOnce'
  BY DEF Duck!CaughtOnce

LEMMA CancelTypes ==
    ASSUME NEW S, "cancelled" \in S, NEW ts \in [Duck!Ducks -> S], NEW d \in 0 .. MaxDucks
    PROVE  /\ Duck!Cancel(ts, d) \in [Duck!Ducks -> S]
           /\ \A e \in Duck!Ducks :
                \/ Duck!Cancel(ts, d)[e] = ts[e]
                \/ e = d /\ Duck!Cancel(ts, d)[e] = "cancelled" /\ ts[e] \notin {"none", "untimed", "done"}
<1>1. CASE d # 0 /\ ts[d] \notin {"none", "untimed", "done"}
  <2>1. Duck!Cancel(ts, d) = [ts EXCEPT ![d] = "cancelled"] /\ d \in Duck!Ducks
    BY <1>1 DEF Duck!Cancel, Duck!Ducks
  <2> QED BY <1>1, <2>1
<1>2. CASE ~(d # 0 /\ ts[d] \notin {"none", "untimed", "done"})
  BY <1>2 DEF Duck!Cancel
<1> QED BY <1>1, <1>2

(* A cycle as it is written.                                                *)
LEMMA CycleTypes ==
    ASSUME Duck!DucksAssumption, Duck!TypeOK, Duck!SaveRoomCycle
    PROVE  kept' \in [count : Nat, threshold : 0 .. MaxThreshold] /\ threshold' \in 0 .. MaxThreshold
  BY DuckTypes, DuckNumbers DEF Duck!SaveRoomCycle

LEMMA ResetTypes ==
    ASSUME Duck!DucksAssumption, Duck!ResetRoomCycle
    PROVE  count' = 0 /\ count' \in Nat /\ threshold' \in 0 .. MaxThreshold
  BY DuckNumbers DEF Duck!ResetRoomCycle

LEMMA DuckEvents ==
    ASSUME Duck!DucksAssumption, Duck!TypeOK, Duck!Event \/ events' = events
    PROVE  events' \in 0 .. MaxEvents
  BY DuckTypes, DuckNumbers DEF Duck!Event
(* Steps that leave the duck, its tasks and the catches alone.              *)
LEMMA RoomStays ==
    ASSUME Duck!DucksInv, UNCHANGED <<active, spawns, expires, crossed, caught>>
    PROVE  Duck!SpawnedInv' /\ Duck!OneAtATimeInv' /\ Duck!DuckHasTimer'
<1>1. Duck!SpawnedInv'
  BY DEF Duck!DucksInv, Duck!SpawnedInv
<1>2. Duck!OneAtATimeInv'
  BY DEF Duck!DucksInv, Duck!OneAtATimeInv
<1>3. Duck!DuckHasTimer'
  BY DEF Duck!DucksInv, Duck!DuckHasTimer
<1> QED BY <1>1, <1>2, <1>3

LEMMA ScheduleStays ==
    ASSUME Duck!DucksInv, UNCHANGED <<spawns, crossed, pending, spawnTask>>, count' \in {count, 0},
           at["schedule"] > 0 => at'["schedule"] > 0
    PROVE  Duck!ScheduledInv'
  BY DEF Duck!DucksInv, Duck!ScheduledInv

(* Messages: begun, loaded, counted, saved and rolled.                      *)
LEMMA MessagesHold ==
    ASSUME Duck!DucksAssumption, Duck!TypeOK, Duck!DucksInv,
           Duck!OnMessage \/ Duck!LoadRoomCycle \/ Duck!Ignore \/ Duck!CountMessage \/ Duck!Roll(TRUE) \/ Duck!Roll(FALSE)
    PROVE  Duck!TypeOK' /\ Duck!DucksInv'
<1>1. /\ UNCHANGED <<limit, daily, stats, active, spawnTask, expireTask, spawns, expires, caught, events>>
      /\ UNCHANGED <<enabled, timed, pending, crossed>>
  BY DEF Duck!OnMessage, Duck!LoadRoomCycle, Duck!Ignore, Duck!CountMessage, Duck!Roll, Duck!settings, Duck!tasks, Duck!ghosts
<1>2. Duck!SpawnedInv' /\ Duck!OneAtATimeInv' /\ Duck!DuckHasTimer'
  BY <1>1, RoomStays
<1>3. kept' \in [count : Nat, threshold : 0 .. MaxThreshold] /\ threshold' \in 0 .. MaxThreshold
  <2>1. CASE Duck!OnMessage \/ Duck!Ignore
    BY <2>1, DuckTypes DEF Duck!OnMessage, Duck!Ignore
  <2>2. CASE Duck!LoadRoomCycle
    <3>1. kept' = kept /\ threshold' \in IF kept.threshold = 0 THEN 1 .. MaxThreshold ELSE {kept.threshold}
      BY <2>2 DEF Duck!LoadRoomCycle
    <3> QED BY <3>1, DuckTypes, DuckNumbers
  <2>3. CASE Duck!CountMessage
    <3>1. kept' = kept /\ threshold' \in IF threshold = 0 THEN 1 .. MaxThreshold ELSE {threshold}
      BY <2>3 DEF Duck!CountMessage
    <3> QED BY <3>1, DuckTypes, DuckNumbers
  <2>4. CASE Duck!Roll(TRUE) \/ Duck!Roll(FALSE)
    BY <2>4, CycleTypes DEF Duck!Roll
  <2> QED BY <2>1, <2>2, <2>3, <2>4
<1>4. /\ at' \in [Duck!Places -> Nat] /\ Duck!Catching' = Duck!Catching
      /\ at["schedule"] > 0 => at'["schedule"] > 0
  <2>1. CASE Duck!OnMessage
    <3>1. PICK to \in {"load", "daily"} : Duck!Begin(to)
      BY <2>1 DEF Duck!OnMessage
    <3>2. to \in Duck!Places
      BY DEF Duck!Places
    <3> QED BY <3>1, <3>2, HandlerBegins
  <2>2. CASE Duck!LoadRoomCycle \/ Duck!Ignore \/ Duck!CountMessage \/ Duck!Roll(TRUE) \/ Duck!Roll(FALSE)
    <3>1. PICK from \in {"load", "daily", "save"}, to \in {"daily", "save", "schedule", "idle"} : Duck!Goto(from, to)
      BY <2>2 DEF Duck!LoadRoomCycle, Duck!Ignore, Duck!CountMessage, Duck!Roll
    <3>2. from \in Duck!Places /\ to \in Duck!Places \union {"idle"}
      BY DEF Duck!Places
    <3> QED BY <3>1, <3>2, HandlerGoes
  <2> QED BY <2>1, <2>2
<1>5. count' \in Nat \union {-1} /\ Duck!ScheduledInv'
  <2>1. CASE Duck!OnMessage \/ Duck!Ignore \/ Duck!Roll(FALSE)
    <3>1. count' = count
      BY <2>1 DEF Duck!OnMessage, Duck!Ignore, Duck!Roll
    <3> QED BY <1>1, <1>4, <3>1, DuckTypes, ScheduleStays
  <2>2. CASE Duck!LoadRoomCycle
    <3>1. count' = kept.count
      BY <2>2 DEF Duck!LoadRoomCycle
    <3>2. count' \in Nat
      BY <3>1, DuckTypes
    <3> QED BY <3>2 DEF Duck!ScheduledInv
  <2>3. CASE Duck!CountMessage
    <3>1. count' = count + 1 /\ count # -1
      BY <2>3 DEF Duck!CountMessage, Duck!Counted
    <3>2. count' \in Nat
      BY <3>1, DuckTypes
    <3> QED BY <3>2 DEF Duck!ScheduledInv
  <2>4. CASE Duck!Roll(TRUE)
    <3>1. count' = -1 /\ Duck!Goto("save", "schedule")
      BY <2>4 DEF Duck!Roll
    <3>2. "save" \in Duck!Places /\ "schedule" \in Duck!Places
      BY DEF Duck!Places
    <3>3. at'["schedule"] > 0
      BY <3>1, <3>2, HandlerGoes
    <3> QED BY <3>1, <3>3 DEF Duck!ScheduledInv
  <2> QED BY <2>1, <2>2, <2>3, <2>4
<1>6. Duck!CaughtOnce'
  BY <1>1, <1>4, CaughtStays DEF Duck!DucksInv
<1>7. Duck!TypeOK'
  BY <1>1, <1>3, <1>4, <1>5, DuckTypes, DuckBooleans, DuckTypesHold
<1> QED BY <1>2, <1>5, <1>6, <1>7 DEF Duck!DucksInv
LEMMA ScheduleHolds ==
    ASSUME Duck!DucksAssumption, Duck!TypeOK, Duck!DucksInv, Duck!Schedule
    PROVE  Duck!TypeOK' /\ Duck!DucksInv'
<1>1. PICK d \in Duck!Ducks : Duck!New(d) /\ spawnTask' = d /\ spawns' = [spawns EXCEPT ![d] = "asleep"]
  BY DEF Duck!Schedule
<1>2. /\ Duck!Goto("schedule", "idle") /\ Duck!SaveRoomCycle /\ pending' = TRUE
      /\ UNCHANGED <<limit, daily, stats, active, count, expireTask, expires, caught, events>>
      /\ UNCHANGED <<enabled, timed, crossed>>
  BY DEF Duck!Schedule, Duck!settings, Duck!ghosts
<1>3. /\ d # 0 /\ spawnTask' \in 0 .. MaxDucks /\ spawns[d] = "none"
      /\ spawns' \in [Duck!Ducks -> DuckStates] /\ spawns'[d] = "asleep"
      /\ \A e \in Duck!Ducks \ {d} : spawns'[e] = spawns[e]
  BY <1>1, DuckTypes, DuckNumbers DEF Duck!New, Duck!Ducks, DuckStates
<1>4. "schedule" \in Duck!Places
  BY DEF Duck!Places
<1>5. at' \in [Duck!Places -> Nat] /\ Duck!Catching' = Duck!Catching
  BY <1>2, <1>4, HandlerGoes
<1>6. kept' \in [count : Nat, threshold : 0 .. MaxThreshold] /\ threshold' \in 0 .. MaxThreshold
  BY <1>2, CycleTypes
<1>7. pending' \in BOOLEAN
  BY <1>2, Zenon
<1>8. Duck!TypeOK'
  BY <1>2, <1>3, <1>5, <1>6, <1>7, DuckTypes, DuckBooleans, DuckTypesHold
<1>9. Duck!CaughtOnce'
  BY <1>2, <1>5, CaughtStays DEF Duck!DucksInv
<1>10. Duck!SpawnedInv'
  BY <1>2, <1>3, DuckTypes DEF Duck!DucksInv, Duck!SpawnedInv, Duck!Ducks
<1>11. Duck!ScheduledInv'
  BY <1>1, <1>2, <1>3 DEF Duck!ScheduledInv
<1>12. Duck!OneAtATimeInv'
  BY <1>2, <1>3 DEF Duck!DucksInv, Duck!OneAtATimeInv
<1>13. Duck!DuckHasTimer'
  BY <1>2, <1>3, DuckTypes DEF Duck!DucksInv, Duck!DuckHasTimer, Duck!Ducks
<1> QED BY <1>8, <1>9, <1>10, <1>11, <1>12, <1>13 DEF Duck!DucksInv

(* The task that spawns a duck, and the one that lets it go.                *)
LEMMA TaskFrame ==
    ASSUME Duck!DucksAssumption, Duck!TypeOK, NEW d \in Duck!Ducks, NEW to \in DuckStates, spawns' = [spawns EXCEPT ![d] = to]
    PROVE  /\ d # 0 /\ d \in 0 .. MaxDucks /\ 0 \in 0 .. MaxDucks
           /\ spawns' \in [Duck!Ducks -> DuckStates] /\ spawns'[d] = to
           /\ \A e \in Duck!Ducks \ {d} : spawns'[e] = spawns[e]
  BY DuckTypes, DuckNumbers DEF Duck!Ducks

LEMMA CrossedType ==
    ASSUME Duck!TypeOK, NEW p, crossed' = (crossed \/ p)
    PROVE  crossed' \in BOOLEAN /\ (crossed => crossed') /\ (p => crossed')
  BY DuckBooleans, Zenon

LEMMA WakesHolds ==
    ASSUME Duck!DucksAssumption, Duck!TypeOK, Duck!DucksInv, NEW d \in Duck!Ducks, Duck!SpawnWakes(d)
    PROVE  Duck!TypeOK' /\ Duck!DucksInv'
<1>1. /\ UNCHANGED <<limit, kept, daily, stats, active, count, threshold, expireTask, expires, at, caught, events>>
      /\ UNCHANGED <<enabled, timed>> /\ spawns[d] = "asleep"
  BY DEF Duck!SpawnWakes, Duck!settings
<1>2. PICK to \in {"check", "done"} : spawns' = [spawns EXCEPT ![d] = to]
  BY DEF Duck!SpawnWakes
<1>3. /\ d # 0 /\ d \in 0 .. MaxDucks /\ 0 \in 0 .. MaxDucks
      /\ spawns' \in [Duck!Ducks -> DuckStates] /\ spawns'[d] = to
      /\ \A e \in Duck!Ducks \ {d} : spawns'[e] = spawns[e]
  BY <1>2, TaskFrame DEF DuckStates
<1>4. pending' \in BOOLEAN /\ crossed' \in BOOLEAN /\ (crossed => crossed') /\ spawnTask' \in 0 .. MaxDucks
  <2>1. CASE UNCHANGED <<pending, spawnTask, crossed>>
    BY <2>1, DuckBooleans, DuckTypes
  <2>2. CASE Duck!SpawnEnds(d)
    <3>1. pending' \in BOOLEAN
      BY <2>2, Zenon DEF Duck!SpawnEnds
    <3>2. crossed' \in BOOLEAN /\ (crossed => crossed')
      BY <2>2, CrossedType DEF Duck!SpawnEnds
    <3>3. spawnTask' \in 0 .. MaxDucks
      BY <1>3, <2>2 DEF Duck!SpawnEnds
    <3> QED BY <3>1, <3>2, <3>3
  <2> QED BY <2>1, <2>2 DEF Duck!SpawnWakes
<1>5. Duck!TypeOK'
  BY <1>1, <1>3, <1>4, DuckTypes, DuckBooleans, DuckTypesHold
<1>6. Duck!CaughtOnce'
  BY <1>1 DEF Duck!DucksInv, Duck!CaughtOnce, Duck!Catching
<1>7. Duck!SpawnedInv'
  <2>1. caught.by \subseteq Duck!Ducks /\ (active # 0 => active \in Duck!Ducks)
    BY DuckTypes DEF Duck!Ducks
  <2>2. d \notin caught.by /\ (active # 0 => active # d)
    BY <1>1 DEF Duck!DucksInv, Duck!SpawnedInv
  <2> QED BY <1>1, <1>3, <2>1, <2>2 DEF Duck!DucksInv, Duck!SpawnedInv
<1>8. Duck!ScheduledInv'
  <2>1. CASE pending /\ to = "check" /\ UNCHANGED <<pending, spawnTask, crossed>>
    BY <1>1, <1>3, <2>1, DuckTypes DEF Duck!DucksInv, Duck!ScheduledInv, Duck!Ducks
  <2>2. CASE ~pending
    BY <1>1, <1>4, <2>2 DEF Duck!DucksInv, Duck!ScheduledInv
  <2>3. pending => spawns' = [spawns EXCEPT ![d] = "check"] /\ UNCHANGED <<pending, spawnTask, crossed>>
    BY DEF Duck!SpawnWakes
  <2>4. pending => to = "check"
    BY <1>2, <2>3, DuckTypes
  <2> QED BY <2>1, <2>2, <2>3, <2>4
<1>9. Duck!OneAtATimeInv'
  BY <1>1, <1>3, <1>4 DEF Duck!DucksInv, Duck!OneAtATimeInv
<1>10. Duck!DuckHasTimer'
  BY <1>1, <1>3, <1>4, DuckTypes DEF Duck!DucksInv, Duck!DuckHasTimer, Duck!Ducks
<1> QED BY <1>5, <1>6, <1>7, <1>8, <1>9, <1>10 DEF Duck!DucksInv

LEMMA StopsHolds ==
    ASSUME Duck!DucksAssumption, Duck!TypeOK, Duck!DucksInv, NEW d \in Duck!Ducks, Duck!SpawnStops(d)
    PROVE  Duck!TypeOK' /\ Duck!DucksInv'
<1>1. /\ UNCHANGED <<limit, daily, stats, active, expireTask, expires, at, caught, events>>
      /\ UNCHANGED <<enabled, timed>> /\ spawns[d] = "check" /\ spawns' = [spawns EXCEPT ![d] = "done"]
      /\ Duck!ResetRoomCycle /\ kept' = [count |-> 0, threshold |-> threshold']
      /\ pending' = FALSE /\ spawnTask' = 0 /\ crossed' = (crossed \/ spawnTask \notin {0, d})
  BY DEF Duck!SpawnStops, Duck!settings, Duck!SpawnEnds
<1>2. /\ d # 0 /\ 0 \in 0 .. MaxDucks
      /\ spawns' \in [Duck!Ducks -> DuckStates] /\ spawns'[d] = "done"
      /\ \A e \in Duck!Ducks \ {d} : spawns'[e] = spawns[e]
  BY <1>1, TaskFrame DEF DuckStates
<1>3. pending' \in BOOLEAN /\ crossed' \in BOOLEAN /\ (crossed => crossed')
  <2>1. pending' \in BOOLEAN
    BY <1>1, Zenon
  <2> QED BY <1>1, <2>1, CrossedType
<1>4. /\ count' = 0 /\ count' \in Nat \union {-1} /\ threshold' \in 0 .. MaxThreshold
      /\ kept' \in [count : Nat, threshold : 0 .. MaxThreshold]
  BY <1>1, ResetTypes
<1>5. Duck!TypeOK'
  BY <1>1, <1>2, <1>3, <1>4, DuckTypes, DuckBooleans, DuckTypesHold
<1>6. Duck!CaughtOnce'
  BY <1>1 DEF Duck!DucksInv, Duck!CaughtOnce, Duck!Catching
<1>7. Duck!SpawnedInv'
  BY <1>1, <1>2, DuckTypes DEF Duck!DucksInv, Duck!SpawnedInv, Duck!Ducks
<1>8. Duck!ScheduledInv'
  BY <1>4 DEF Duck!ScheduledInv
<1>9. Duck!OneAtATimeInv'
  BY <1>1, <1>2, <1>3 DEF Duck!DucksInv, Duck!OneAtATimeInv
<1>10. Duck!DuckHasTimer'
  BY <1>1, <1>2, <1>3, DuckTypes DEF Duck!DucksInv, Duck!DuckHasTimer, Duck!Ducks
<1> QED BY <1>5, <1>6, <1>7, <1>8, <1>9, <1>10 DEF Duck!DucksInv

LEMMA AppearsHolds ==
    ASSUME Duck!DucksAssumption, Duck!TypeOK, Duck!DucksInv, NEW d \in Duck!Ducks, Duck!DuckAppears(d)
    PROVE  Duck!TypeOK' /\ Duck!DucksInv'
<1>1. /\ UNCHANGED <<limit, kept, daily, stats, spawnTask, expireTask, expires, at, caught, events>>
      /\ UNCHANGED <<enabled, timed>> /\ spawns[d] = "check" /\ spawns' = [spawns EXCEPT ![d] = "reset"]
      /\ Duck!ResetRoomCycle /\ pending' = FALSE /\ active' = d
      /\ crossed' = (crossed \/ active # 0 \/ \E e \in Duck!Ducks : spawns[e] = "reset")
  BY DEF Duck!DuckAppears, Duck!settings
<1>2. /\ d # 0 /\ d \in 0 .. MaxDucks
      /\ spawns' \in [Duck!Ducks -> DuckStates] /\ spawns'[d] = "reset"
      /\ \A e \in Duck!Ducks \ {d} : spawns'[e] = spawns[e]
  BY <1>1, TaskFrame DEF DuckStates
<1>3. /\ pending' \in BOOLEAN /\ crossed' \in BOOLEAN /\ (crossed => crossed')
      /\ (active # 0 \/ \E e \in Duck!Ducks : spawns[e] = "reset") => crossed'
  <2>1. pending' \in BOOLEAN
    BY <1>1, Zenon
  <2> QED BY <1>1, <2>1, CrossedType
<1>4. count' = 0 /\ count' \in Nat \union {-1} /\ threshold' \in 0 .. MaxThreshold
  BY <1>1, ResetTypes
<1>5. Duck!TypeOK'
  BY <1>1, <1>2, <1>3, <1>4, DuckTypes, DuckBooleans, DuckTypesHold
<1>6. Duck!CaughtOnce'
  BY <1>1 DEF Duck!DucksInv, Duck!CaughtOnce, Duck!Catching
<1>7. Duck!SpawnedInv'
  <2>1. caught.by \subseteq Duck!Ducks
    BY DuckTypes
  <2>2. d \notin caught.by
    BY <1>1 DEF Duck!DucksInv, Duck!SpawnedInv
  <2> QED BY <1>1, <1>2, <2>1, <2>2 DEF Duck!DucksInv, Duck!SpawnedInv
<1>8. Duck!ScheduledInv'
  BY <1>4 DEF Duck!ScheduledInv
<1>9. Duck!OneAtATimeInv'
  BY <1>1, <1>2, <1>3 DEF Duck!OneAtATimeInv
<1>10. Duck!DuckHasTimer'
  BY <1>1, <1>2 DEF Duck!DuckHasTimer
<1> QED BY <1>5, <1>6, <1>7, <1>8, <1>9, <1>10 DEF Duck!DucksInv

LEMMA AnnouncedHolds ==
    ASSUME Duck!DucksAssumption, Duck!TypeOK, Duck!DucksInv, NEW d \in Duck!Ducks, Duck!DuckIsAnnounced(d)
    PROVE  Duck!TypeOK' /\ Duck!DucksInv'
<1>1. /\ UNCHANGED <<limit, stats, active, count, at, caught, events>> /\ daily' = daily + 1
      /\ UNCHANGED <<enabled, timed>> /\ spawns[d] = "reset" /\ spawns' = [spawns EXCEPT ![d] = "done"]
      /\ Duck!SaveRoomCycle /\ expireTask' = (IF timed THEN d ELSE 0)
      /\ expires' = [Duck!Cancel(expires, expireTask) EXCEPT ![d] = IF timed THEN "asleep" ELSE "untimed"]
      /\ pending' = FALSE /\ spawnTask' = 0 /\ crossed' = (crossed \/ spawnTask \notin {0, d})
  BY DEF Duck!DuckIsAnnounced, Duck!settings, Duck!SpawnEnds
<1>2. /\ d # 0 /\ d \in 0 .. MaxDucks /\ 0 \in 0 .. MaxDucks
      /\ spawns' \in [Duck!Ducks -> DuckStates] /\ spawns'[d] = "done"
      /\ \A e \in Duck!Ducks \ {d} : spawns'[e] = spawns[e]
  BY <1>1, TaskFrame DEF DuckStates
<1>3. /\ pending' \in BOOLEAN /\ crossed' \in BOOLEAN /\ (crossed => crossed')
      /\ (spawnTask \notin {0, d} => crossed')
  <2>1. pending' \in BOOLEAN
    BY <1>1, Zenon
  <2> QED BY <1>1, <2>1, CrossedType
<1>4. expires' \in [Duck!Ducks -> TimerStates] /\ expires'[d] \in {"asleep", "untimed"}
  <2>1. Duck!Cancel(expires, expireTask) \in [Duck!Ducks -> TimerStates]
    BY DuckTypes, CancelTypes DEF TimerStates
  <2> QED BY <1>1, <2>1 DEF TimerStates
<1>5. kept' \in [count : Nat, threshold : 0 .. MaxThreshold] /\ threshold' \in 0 .. MaxThreshold
  BY <1>1, CycleTypes
<1>6. daily' \in Nat /\ spawnTask' \in 0 .. MaxDucks /\ expireTask' \in 0 .. MaxDucks
  BY <1>1, <1>2, DuckTypes
<1>7. Duck!TypeOK'
  BY <1>1, <1>2, <1>3, <1>4, <1>5, <1>6, DuckTypes, DuckBooleans, DuckTypesHold
<1>8. Duck!CaughtOnce'
  BY <1>1 DEF Duck!DucksInv, Duck!CaughtOnce, Duck!Catching
<1>9. Duck!SpawnedInv'
  BY <1>1, <1>2, DuckTypes DEF Duck!DucksInv, Duck!SpawnedInv, Duck!Ducks
<1>10. Duck!ScheduledInv'
  BY <1>1, <1>3 DEF Duck!DucksInv, Duck!ScheduledInv
<1>11. Duck!OneAtATimeInv'
  BY <1>1, <1>2, <1>3 DEF Duck!DucksInv, Duck!OneAtATimeInv
<1>12. Duck!DuckHasTimer'
  BY <1>1, <1>3, <1>4 DEF Duck!DucksInv, Duck!DuckHasTimer, Duck!OneAtATimeInv
<1> QED BY <1>7, <1>8, <1>9, <1>10, <1>11, <1>12 DEF Duck!DucksInv

LEMMA SpawnFailsHolds ==
    ASSUME Duck!DucksAssumption, Duck!TypeOK, Duck!DucksInv, NEW d \in Duck!Ducks, Duck!SpawnFails(d)
    PROVE  Duck!TypeOK' /\ Duck!DucksInv'
<1>1. /\ UNCHANGED <<limit, kept, daily, stats, active, count, threshold, expireTask, expires, at, caught>>
      /\ UNCHANGED <<enabled, timed>> /\ spawns[d] \in {"check", "reset", "cancelled"}
      /\ spawns' = [spawns EXCEPT ![d] = "done"] /\ pending' = FALSE /\ spawnTask' = 0
      /\ crossed' = (crossed \/ (spawns[d] # "cancelled" \/ spawnTask \notin {0, d}))
  BY DEF Duck!SpawnFails, Duck!settings
<1>2. /\ d # 0 /\ 0 \in 0 .. MaxDucks
      /\ spawns' \in [Duck!Ducks -> DuckStates] /\ spawns'[d] = "done"
      /\ \A e \in Duck!Ducks \ {d} : spawns'[e] = spawns[e]
  BY <1>1, TaskFrame DEF DuckStates
<1>3. /\ pending' \in BOOLEAN /\ crossed' \in BOOLEAN /\ (crossed => crossed')
      /\ (spawns[d] # "cancelled" \/ spawnTask \notin {0, d} => crossed')
  <2>1. pending' \in BOOLEAN
    BY <1>1, Zenon
  <2>2. crossed' \in BOOLEAN /\ (crossed => crossed') /\ (spawns[d] # "cancelled" \/ spawnTask \notin {0, d} => crossed')
    BY <1>1, CrossedType
  <2> QED BY <2>1, <2>2
<1>4. events' \in 0 .. MaxEvents
  BY DuckEvents DEF Duck!SpawnFails
<1>5. Duck!TypeOK'
  BY <1>1, <1>2, <1>3, <1>4, DuckTypes, DuckBooleans, DuckTypesHold
<1>6. Duck!CaughtOnce'
  BY <1>1 DEF Duck!DucksInv, Duck!CaughtOnce, Duck!Catching
<1>7. Duck!SpawnedInv'
  BY <1>1, <1>2, DuckTypes DEF Duck!DucksInv, Duck!SpawnedInv, Duck!Ducks
<1>8. Duck!ScheduledInv'
  BY <1>1, <1>3 DEF Duck!DucksInv, Duck!ScheduledInv
<1>9. Duck!OneAtATimeInv'
  BY <1>1, <1>2, <1>3 DEF Duck!DucksInv, Duck!OneAtATimeInv
<1>10. Duck!DuckHasTimer'
  BY <1>1, <1>2, <1>3, DuckTypes DEF Duck!DucksInv, Duck!DuckHasTimer, Duck!Ducks
<1> QED BY <1>5, <1>6, <1>7, <1>8, <1>9, <1>10 DEF Duck!DucksInv

LEMMA ExpireHolds ==
    ASSUME Duck!DucksAssumption, Duck!TypeOK, Duck!DucksInv, NEW d \in Duck!Ducks, Duck!Expire(d)
    PROVE  Duck!TypeOK' /\ Duck!DucksInv'
<1>1. /\ UNCHANGED <<limit, kept, daily, stats, count, threshold, spawnTask, spawns, at, caught, events>>
      /\ UNCHANGED <<enabled, timed, pending>> /\ expires[d] \in {"asleep", "cancelled"}
      /\ active' = (IF expires[d] = "asleep" THEN 0 ELSE active)
      /\ expires' = [expires EXCEPT ![d] = "done"] /\ expireTask' = 0
      /\ crossed' = (crossed \/ expireTask \notin {0, d})
  BY DEF Duck!Expire, Duck!settings
<1>2. /\ expires' \in [Duck!Ducks -> TimerStates] /\ \A e \in Duck!Ducks \ {d} : expires'[e] = expires[e]
      /\ active' \in 0 .. MaxDucks /\ expireTask' \in 0 .. MaxDucks
  BY <1>1, DuckTypes, DuckNumbers DEF TimerStates, Duck!Ducks
<1>3. crossed' \in BOOLEAN /\ (crossed => crossed')
  BY <1>1, CrossedType
<1>4. Duck!TypeOK'
  BY <1>1, <1>2, <1>3, DuckTypes, DuckBooleans, DuckTypesHold
<1>5. Duck!CaughtOnce'
  BY <1>1 DEF Duck!DucksInv, Duck!CaughtOnce, Duck!Catching
<1>6. Duck!SpawnedInv'
  BY <1>1 DEF Duck!DucksInv, Duck!SpawnedInv
<1>7. Duck!ScheduledInv'
  BY <1>1, <1>3 DEF Duck!DucksInv, Duck!ScheduledInv
<1>8. Duck!OneAtATimeInv'
  BY <1>1, <1>3 DEF Duck!DucksInv, Duck!OneAtATimeInv
<1>9. Duck!DuckHasTimer'
  BY <1>1, <1>2, <1>3, DuckTypes DEF Duck!DucksInv, Duck!DuckHasTimer, Duck!Ducks
<1> QED BY <1>4, <1>5, <1>6, <1>7, <1>8, <1>9 DEF Duck!DucksInv
(* Steps that touch neither the duck, its tasks nor the catches.            *)
LEMMA DuckQuietHolds ==
    ASSUME Duck!DucksAssumption, Duck!TypeOK, Duck!DucksInv,
           Duck!SwitchOn \/ Duck!NewDay \/ Duck!ConfigSavesCycle \/ \E l \in Limits : Duck!CleanupRows(l)
    PROVE  Duck!TypeOK' /\ Duck!DucksInv'
<1>1. /\ UNCHANGED <<stats, active, count, spawnTask, expireTask, spawns, expires, caught>>
      /\ UNCHANGED <<pending, crossed>>
  BY DEF Duck!SwitchOn, Duck!NewDay, Duck!ConfigSavesCycle, Duck!CleanupRows, Duck!settings, Duck!tasks, Duck!ghosts
<1>2. /\ at' \in [Duck!Places -> Nat] /\ Duck!Catching' = Duck!Catching
      /\ at["schedule"] > 0 => at'["schedule"] > 0
  <2>1. CASE Duck!SwitchOn \/ Duck!NewDay
    <3>1. at' = at
      BY <2>1 DEF Duck!SwitchOn, Duck!NewDay
    <3> QED BY <3>1, DuckTypes DEF Duck!Catching
  <2>2. CASE Duck!ConfigSavesCycle \/ \E l \in Limits : Duck!CleanupRows(l)
    <3>1. PICK from \in {"reset", "cleanup"} : Duck!Goto(from, "idle")
      BY <2>2 DEF Duck!ConfigSavesCycle, Duck!CleanupRows
    <3>2. from \in Duck!Places
      BY DEF Duck!Places
    <3> QED BY <3>1, <3>2, HandlerGoes
  <2> QED BY <2>1, <2>2
<1>3. /\ kept' \in [count : Nat, threshold : 0 .. MaxThreshold] /\ threshold' \in 0 .. MaxThreshold
      /\ limit' \in Limits /\ daily' \in Nat
  <2>1. CASE Duck!SwitchOn \/ Duck!NewDay
    BY <2>1, DuckTypes DEF Duck!SwitchOn, Duck!NewDay, Duck!settings
  <2>2. CASE Duck!ConfigSavesCycle
    <3>1. Duck!SaveRoomCycle /\ limit' = limit /\ daily' = daily
      BY <2>2 DEF Duck!ConfigSavesCycle, Duck!settings
    <3> QED BY <3>1, DuckTypes, CycleTypes
  <2>3. ASSUME NEW l \in Limits, Duck!CleanupRows(l) PROVE <1>3
    <3>1. kept' = Duck!Empty /\ daily' = 0 /\ limit' = l /\ threshold' = threshold
      BY <2>3 DEF Duck!CleanupRows, Duck!Override
    <3> QED BY <3>1, DuckTypes, DuckNumbers DEF Duck!Empty
  <2> QED BY <2>1, <2>2, <2>3
<1>4. enabled' \in BOOLEAN /\ timed' \in BOOLEAN
  <2>1. CASE Duck!SwitchOn
    BY <2>1, DuckBooleans, Zenon DEF Duck!SwitchOn
  <2>2. CASE Duck!NewDay \/ Duck!ConfigSavesCycle
    <3>1. enabled' = enabled /\ timed' = timed
      BY <2>2 DEF Duck!NewDay, Duck!ConfigSavesCycle, Duck!settings
    <3> QED BY <3>1, DuckBooleans
  <2>3. CASE \E l \in Limits : Duck!CleanupRows(l)
    BY <2>3, DuckBooleans, Zenon DEF Duck!CleanupRows, Duck!Override
  <2> QED BY <2>1, <2>2, <2>3
<1>5. events' \in 0 .. MaxEvents
  BY DuckEvents DEF Duck!SwitchOn, Duck!NewDay, Duck!ConfigSavesCycle, Duck!CleanupRows
<1>6. Duck!TypeOK'
  BY <1>1, <1>2, <1>3, <1>4, <1>5, DuckTypes, DuckBooleans, DuckTypesHold
<1>7. Duck!SpawnedInv' /\ Duck!OneAtATimeInv' /\ Duck!DuckHasTimer'
  BY <1>1, RoomStays
<1>8. Duck!ScheduledInv'
  BY <1>1, <1>2, ScheduleStays
<1>9. Duck!CaughtOnce'
  BY <1>1, <1>2, CaughtStays DEF Duck!DucksInv
<1> QED BY <1>6, <1>7, <1>8, <1>9 DEF Duck!DucksInv

(* A catch: one duck more is caught, and one handler more records it.       *)
LEMMA ActionHolds ==
    ASSUME Duck!DucksAssumption, Duck!TypeOK, Duck!DucksInv, Duck!HandleDuckAction
    PROVE  Duck!TypeOK' /\ Duck!DucksInv'
<1>1. /\ UNCHANGED <<limit, kept, daily, stats, count, threshold, spawnTask, expireTask, spawns, expires, events>>
      /\ UNCHANGED <<enabled, timed, pending, crossed>>
      /\ active # 0 /\ Duck!Begin("caught") /\ active' = 0
      /\ caught' = [caught EXCEPT !.by = @ \union {active}]
  BY DEF Duck!HandleDuckAction, Duck!settings, Duck!tasks, Duck!Gone
<1>2. "caught" \in Duck!Places
  BY DEF Duck!Places
<1>3. /\ at' \in [Duck!Places -> Nat] /\ (at["schedule"] > 0 => at'["schedule"] > 0)
      /\ Duck!Catching' = Duck!Catching + 1 /\ Duck!Catching \in Nat
  BY <1>1, <1>2, HandlerBegins
<1>4. active \in Duck!Ducks /\ 0 \in 0 .. MaxDucks /\ caught.by \subseteq Duck!Ducks
  BY <1>1, DuckTypes, DuckNumbers DEF Duck!Ducks
<1>5. /\ caught' \in [by : SUBSET Duck!Ducks, lost : Nat] /\ caught'.lost = caught.lost
      /\ caught'.by = caught.by \union {active}
  BY <1>1, <1>4, DuckTypes
<1>6. Duck!TypeOK'
  BY <1>1, <1>3, <1>4, <1>5, DuckTypes, DuckBooleans, DuckTypesHold
<1>7. active \notin caught.by
  BY <1>1 DEF Duck!DucksInv, Duck!SpawnedInv
<1>8. Duck!CaughtOnce'
  <2>1. IsFiniteSet(Duck!Ducks)
    BY DuckNumbers, FS_Interval DEF Duck!Ducks
  <2>2. IsFiniteSet(caught.by)
    BY <1>4, <2>1, FS_Subset
  <2>3. Cardinality(caught.by \union {active}) = Cardinality(caught.by) + 1
    BY <1>7, <2>2, FS_AddElement
  <2>4. Cardinality(caught.by) = stats + Duck!Catching + caught.lost
    BY SameCount DEF Duck!DucksInv, Duck!CaughtOnce
  <2>5. Cardinality(caught'.by) = stats' + Duck!Catching' + caught'.lost
    BY <1>1, <1>3, <1>5, <2>3, <2>4, DuckTypes
  <2>6. Duck!Cardinality(caught'.by) = Cardinality(caught'.by)
    BY SameCount
  <2> QED BY <2>5, <2>6 DEF Duck!CaughtOnce
<1>9. Duck!SpawnedInv'
  BY <1>1, <1>5 DEF Duck!DucksInv, Duck!SpawnedInv
<1>10. Duck!ScheduledInv'
  BY <1>1, <1>3, ScheduleStays
<1>11. Duck!OneAtATimeInv'
  BY <1>1 DEF Duck!DucksInv, Duck!OneAtATimeInv
<1>12. Duck!DuckHasTimer'
  BY <1>1 DEF Duck!DuckHasTimer
<1> QED BY <1>6, <1>8, <1>9, <1>10, <1>11, <1>12 DEF Duck!DucksInv

(* The timer that is registered is cut off.                                 *)
LEMMA TimerCut ==
    ASSUME Duck!TypeOK, expires' = Duck!Cancel(expires, expireTask)
    PROVE  expires' \in [Duck!Ducks -> TimerStates]
<1>1. PICK d \in 0 .. MaxDucks, ts \in [Duck!Ducks -> TimerStates] : d = expireTask /\ ts = expires
  BY DuckTypes
<1>2. "cancelled" \in TimerStates /\ expires' = Duck!Cancel(ts, d)
  BY <1>1 DEF TimerStates
<1> QED BY <1>2, CancelTypes

LEMMA TimerHolds ==
    ASSUME Duck!DucksAssumption, Duck!TypeOK, Duck!DucksInv, Duck!StopTimer
    PROVE  Duck!TypeOK' /\ Duck!DucksInv'
<1>1. /\ UNCHANGED <<limit, kept, daily, stats, active, count, threshold, spawnTask, spawns, caught, events>>
      /\ UNCHANGED <<enabled, timed, pending>> /\ Duck!Goto("caught", "record")
      /\ expires' = Duck!Cancel(expires, expireTask) /\ expireTask' = 0
      /\ crossed' = (crossed \/ active # 0)
  BY DEF Duck!StopTimer, Duck!settings
<1>2. "caught" \in Duck!Places /\ "record" \in Duck!Places
  BY DEF Duck!Places
<1>3. /\ at' \in [Duck!Places -> Nat] /\ (at["schedule"] > 0 => at'["schedule"] > 0)
      /\ Duck!Catching' = Duck!Catching
  BY <1>1, <1>2, HandlerGoes
<1>4. crossed' \in BOOLEAN /\ (crossed => crossed') /\ (active # 0 => crossed')
  BY <1>1, CrossedType
<1>5. expires' \in [Duck!Ducks -> TimerStates] /\ expireTask' \in 0 .. MaxDucks
  BY <1>1, DuckNumbers, TimerCut
<1>6. Duck!TypeOK'
  BY <1>1, <1>3, <1>4, <1>5, DuckTypes, DuckBooleans, DuckTypesHold
<1>7. Duck!CaughtOnce'
  BY <1>1, <1>3, CaughtStays DEF Duck!DucksInv
<1>8. Duck!SpawnedInv'
  BY <1>1 DEF Duck!DucksInv, Duck!SpawnedInv
<1>9. Duck!ScheduledInv'
  BY <1>1, <1>3, <1>4 DEF Duck!DucksInv, Duck!ScheduledInv
<1>10. Duck!OneAtATimeInv'
  BY <1>1, <1>4 DEF Duck!DucksInv, Duck!OneAtATimeInv
<1>11. Duck!DuckHasTimer'
  BY <1>1, <1>4 DEF Duck!DuckHasTimer
<1> QED BY <1>6, <1>7, <1>8, <1>9, <1>10, <1>11 DEF Duck!DucksInv

LEMMA RecordHolds ==
    ASSUME Duck!DucksAssumption, Duck!TypeOK, Duck!DucksInv, Duck!RecordAction
    PROVE  Duck!TypeOK' /\ Duck!DucksInv'
<1>1. /\ UNCHANGED <<limit, kept, daily, active, count, threshold, spawnTask, expireTask, spawns, expires, caught, events>>
      /\ UNCHANGED <<enabled, timed, pending, crossed>>
      /\ Duck!Goto("record", "idle") /\ stats' = stats + 1
  BY DEF Duck!RecordAction, Duck!settings, Duck!tasks, Duck!ghosts
<1>2. "record" \in Duck!Places
  BY DEF Duck!Places
<1>3. /\ at' \in [Duck!Places -> Nat] /\ (at["schedule"] > 0 => at'["schedule"] > 0)
      /\ Duck!Catching' = Duck!Catching - 1 /\ Duck!Catching \in Nat
  BY <1>1, <1>2, HandlerGoes
<1>4. stats' \in Nat
  BY <1>1, DuckTypes
<1>5. Duck!TypeOK'
  BY <1>1, <1>3, <1>4, DuckTypes, DuckBooleans, DuckTypesHold
<1>6. Duck!CaughtOnce'
  <2>1. stats' + Duck!Catching' + caught.lost = stats + Duck!Catching + caught.lost
    BY <1>1, <1>3, DuckTypes
  <2> QED BY <1>1, <2>1 DEF Duck!DucksInv, Duck!CaughtOnce
<1>7. Duck!SpawnedInv' /\ Duck!OneAtATimeInv' /\ Duck!DuckHasTimer'
  BY <1>1, RoomStays
<1>8. Duck!ScheduledInv'
  BY <1>1, <1>3, ScheduleStays
<1> QED BY <1>5, <1>6, <1>7, <1>8 DEF Duck!DucksInv
(* The task that is registered is cut off.                                  *)
LEMMA SpawnsCut ==
    ASSUME Duck!TypeOK, Duck!DucksInv, spawns' = Duck!Cancel(spawns, spawnTask), caught' = caught,
           active' \in {active, 0}
    PROVE  /\ spawns' \in [Duck!Ducks -> DuckStates] /\ Duck!SpawnedInv'
           /\ \A d \in Duck!Ducks : spawns'[d] = "reset" => spawns[d] = "reset"
           /\ \A d \in Duck!Ducks : spawns[d] = "reset" => spawns'[d] = "reset" \/ d = spawnTask
<1>1. /\ spawns' \in [Duck!Ducks -> DuckStates]
      /\ \A d \in Duck!Ducks :
           \/ spawns'[d] = spawns[d]
           \/ d = spawnTask /\ spawns'[d] = "cancelled" /\ spawns[d] \notin {"none", "untimed", "done"}
  <2>1. PICK d \in 0 .. MaxDucks, ts \in [Duck!Ducks -> DuckStates] : d = spawnTask /\ ts = spawns
    BY DuckTypes
  <2>2. "cancelled" \in DuckStates /\ spawns' = Duck!Cancel(ts, d)
    BY <2>1 DEF DuckStates
  <2> QED BY <2>1, <2>2, CancelTypes
<1>2. caught.by \subseteq Duck!Ducks /\ (active # 0 => active \in Duck!Ducks)
  BY DuckTypes DEF Duck!Ducks
<1>3. Duck!SpawnedInv'
  BY <1>1, <1>2 DEF Duck!DucksInv, Duck!SpawnedInv
<1> QED BY <1>1, <1>3

LEMMA OffHolds ==
    ASSUME Duck!DucksAssumption, Duck!TypeOK, Duck!DucksInv, Duck!SwitchOff
    PROVE  Duck!TypeOK' /\ Duck!DucksInv'
<1>1. /\ UNCHANGED <<limit, kept, daily, stats, spawnTask, expireTask, spawns, expires, caught>>
      /\ UNCHANGED <<timed, crossed>> /\ enabled' = FALSE /\ pending' = FALSE
      /\ Duck!Event /\ Duck!Begin("off") /\ active' = 0 /\ Duck!ResetRoomCycle
  BY DEF Duck!SwitchOff, Duck!tasks, Duck!ghosts
<1>2. "off" \in Duck!Places
  BY DEF Duck!Places
<1>3. at' \in [Duck!Places -> Nat] /\ Duck!Catching' = Duck!Catching
  BY <1>1, <1>2, HandlerBegins
<1>4. enabled' \in BOOLEAN /\ pending' \in BOOLEAN
  BY <1>1, Zenon
<1>5. /\ count' = 0 /\ count' \in Nat \union {-1} /\ threshold' \in 0 .. MaxThreshold
      /\ active' \in 0 .. MaxDucks /\ events' \in 0 .. MaxEvents
  BY <1>1, ResetTypes, DuckEvents, DuckNumbers
<1>6. Duck!TypeOK'
  BY <1>1, <1>3, <1>4, <1>5, DuckTypes, DuckBooleans, DuckTypesHold
<1>7. Duck!CaughtOnce'
  BY <1>1, <1>3, CaughtStays DEF Duck!DucksInv
<1>8. Duck!SpawnedInv'
  BY <1>1 DEF Duck!DucksInv, Duck!SpawnedInv
<1>9. Duck!ScheduledInv'
  BY <1>5 DEF Duck!ScheduledInv
<1>10. Duck!OneAtATimeInv'
  BY <1>1 DEF Duck!DucksInv, Duck!OneAtATimeInv
<1>11. Duck!DuckHasTimer'
  BY <1>1 DEF Duck!DuckHasTimer
<1> QED BY <1>6, <1>7, <1>8, <1>9, <1>10, <1>11 DEF Duck!DucksInv

LEMMA OffStopsHolds ==
    ASSUME Duck!DucksAssumption, Duck!TypeOK, Duck!DucksInv, Duck!OffStopsTasks
    PROVE  Duck!TypeOK' /\ Duck!DucksInv'
<1>1. /\ UNCHANGED <<limit, daily, stats, active, count, caught, events>>
      /\ UNCHANGED <<enabled, timed, pending>> /\ Duck!Goto("off", "idle") /\ Duck!SaveRoomCycle
      /\ spawns' = Duck!Cancel(spawns, spawnTask) /\ spawnTask' = 0
      /\ expires' = Duck!Cancel(expires, expireTask) /\ expireTask' = 0
      /\ crossed' = (crossed \/ (active # 0 \/ count = -1))
  BY DEF Duck!OffStopsTasks, Duck!settings
<1>2. "off" \in Duck!Places
  BY DEF Duck!Places
<1>3. at' \in [Duck!Places -> Nat] /\ Duck!Catching' = Duck!Catching
  BY <1>1, <1>2, HandlerGoes
<1>4. crossed' \in BOOLEAN /\ (crossed => crossed') /\ (active # 0 \/ count = -1 => crossed')
  BY <1>1, CrossedType
<1>5. /\ expires' \in [Duck!Ducks -> TimerStates]
      /\ spawnTask' \in 0 .. MaxDucks /\ expireTask' \in 0 .. MaxDucks
  BY <1>1, DuckNumbers, TimerCut
<1>6. /\ spawns' \in [Duck!Ducks -> DuckStates] /\ Duck!SpawnedInv'
      /\ \A d \in Duck!Ducks : spawns'[d] = "reset" => spawns[d] = "reset"
  BY <1>1, SpawnsCut
<1>7. kept' \in [count : Nat, threshold : 0 .. MaxThreshold] /\ threshold' \in 0 .. MaxThreshold
  BY <1>1, CycleTypes
<1>8. Duck!TypeOK'
  BY <1>1, <1>3, <1>4, <1>5, <1>6, <1>7, DuckTypes, DuckBooleans, DuckTypesHold
<1>9. Duck!CaughtOnce'
  BY <1>1, <1>3, CaughtStays DEF Duck!DucksInv
<1>10. Duck!ScheduledInv'
  BY <1>1, <1>4 DEF Duck!ScheduledInv
<1>11. Duck!OneAtATimeInv'
  BY <1>1, <1>4, <1>6 DEF Duck!DucksInv, Duck!OneAtATimeInv
<1>12. Duck!DuckHasTimer'
  BY <1>1, <1>4 DEF Duck!DuckHasTimer
<1> QED BY <1>6, <1>8, <1>9, <1>10, <1>11, <1>12 DEF Duck!DucksInv

LEMMA ConfigHolds ==
    ASSUME Duck!DucksAssumption, Duck!TypeOK, Duck!DucksInv, NEW l \in Limits, NEW t \in BOOLEAN, Duck!RoomConfig(l, t)
    PROVE  Duck!TypeOK' /\ Duck!DucksInv'
<1>1. /\ UNCHANGED <<kept, daily, stats, active, expireTask, expires, caught>> /\ limit' = l
      /\ Duck!Event /\ Duck!Begin("reset") /\ Duck!ResetRoomCycle
      /\ spawns' = Duck!Cancel(spawns, spawnTask) /\ spawnTask' = 0
      /\ crossed' = (crossed \/ (spawnTask # 0 /\ spawns[spawnTask] = "reset"))
  BY DEF Duck!RoomConfig, Duck!Override, Duck!CutSpawn
<1>2. enabled' \in BOOLEAN /\ timed' \in BOOLEAN /\ pending' \in BOOLEAN
  BY DuckBooleans, Zenon DEF Duck!RoomConfig, Duck!Override
<1>3. "reset" \in Duck!Places
  BY DEF Duck!Places
<1>4. at' \in [Duck!Places -> Nat] /\ Duck!Catching' = Duck!Catching
  BY <1>1, <1>3, HandlerBegins
<1>5. /\ crossed' \in BOOLEAN /\ (crossed => crossed')
      /\ (spawnTask # 0 /\ spawns[spawnTask] = "reset" => crossed')
  BY <1>1, CrossedType
<1>6. /\ count' = 0 /\ count' \in Nat \union {-1} /\ threshold' \in 0 .. MaxThreshold
      /\ spawnTask' \in 0 .. MaxDucks /\ events' \in 0 .. MaxEvents
  BY <1>1, ResetTypes, DuckEvents, DuckNumbers
<1>7. /\ spawns' \in [Duck!Ducks -> DuckStates] /\ Duck!SpawnedInv'
      /\ \A d \in Duck!Ducks : spawns'[d] = "reset" => spawns[d] = "reset"
      /\ \A d \in Duck!Ducks : spawns[d] = "reset" => spawns'[d] = "reset" \/ d = spawnTask
  BY <1>1, SpawnsCut
<1>8. Duck!TypeOK'
  BY <1>1, <1>2, <1>4, <1>5, <1>6, <1>7, DuckTypes, DuckBooleans, DuckTypesHold
<1>9. Duck!CaughtOnce'
  BY <1>1, <1>4, CaughtStays DEF Duck!DucksInv
<1>10. Duck!ScheduledInv'
  BY <1>6 DEF Duck!ScheduledInv
<1>11. Duck!OneAtATimeInv'
  BY <1>1, <1>5, <1>7 DEF Duck!DucksInv, Duck!OneAtATimeInv
<1>12. Duck!DuckHasTimer'
  BY <1>1, <1>5, <1>7, DuckTypes DEF Duck!DucksInv, Duck!DuckHasTimer, Duck!Ducks
<1> QED BY <1>7, <1>8, <1>9, <1>10, <1>11, <1>12 DEF Duck!DucksInv

LEMMA CleanupHolds ==
    ASSUME Duck!DucksAssumption, Duck!TypeOK, Duck!DucksInv, Duck!CleanupRoomState
    PROVE  Duck!TypeOK' /\ Duck!DucksInv'
<1>1. /\ UNCHANGED <<limit, kept, daily, stats, caught>> /\ UNCHANGED <<enabled, timed>>
      /\ Duck!Event /\ Duck!Begin("cleanup") /\ active' = 0 /\ pending' = FALSE /\ count' = 0 /\ threshold' = 0
      /\ spawns' = Duck!Cancel(spawns, spawnTask) /\ spawnTask' = 0
      /\ expires' = Duck!Cancel(expires, expireTask) /\ expireTask' = 0
      /\ crossed' = (crossed \/ (spawnTask # 0 /\ spawns[spawnTask] = "reset"))
  BY DEF Duck!CleanupRoomState, Duck!CutSpawn, Duck!settings
<1>2. "cleanup" \in Duck!Places
  BY DEF Duck!Places
<1>3. at' \in [Duck!Places -> Nat] /\ Duck!Catching' = Duck!Catching
  BY <1>1, <1>2, HandlerBegins
<1>4. pending' \in BOOLEAN /\ crossed' \in BOOLEAN /\ (crossed => crossed')
  <2>1. pending' \in BOOLEAN
    BY <1>1, Zenon
  <2> QED BY <1>1, <2>1, CrossedType
<1>5. /\ expires' \in [Duck!Ducks -> TimerStates] /\ active' \in 0 .. MaxDucks
      /\ spawnTask' \in 0 .. MaxDucks /\ expireTask' \in 0 .. MaxDucks /\ threshold' \in 0 .. MaxThreshold
      /\ count' \in Nat \union {-1}
  BY <1>1, DuckNumbers, TimerCut
<1>6. /\ spawns' \in [Duck!Ducks -> DuckStates] /\ Duck!SpawnedInv'
      /\ \A d \in Duck!Ducks : spawns'[d] = "reset" => spawns[d] = "reset"
  BY <1>1, SpawnsCut
<1>7. events' \in 0 .. MaxEvents
  BY <1>1, DuckEvents
<1>8. Duck!TypeOK'
  BY <1>1, <1>3, <1>4, <1>5, <1>6, <1>7, DuckTypes, DuckBooleans, DuckTypesHold
<1>9. Duck!CaughtOnce'
  BY <1>1, <1>3, CaughtStays DEF Duck!DucksInv
<1>10. Duck!ScheduledInv'
  BY <1>1 DEF Duck!ScheduledInv
<1>11. Duck!OneAtATimeInv'
  BY <1>1, <1>4, <1>6 DEF Duck!DucksInv, Duck!OneAtATimeInv
<1>12. Duck!DuckHasTimer'
  BY <1>1 DEF Duck!DuckHasTimer
<1> QED BY <1>6, <1>8, <1>9, <1>10, <1>11, <1>12 DEF Duck!DucksInv

(* A handler fails: a catch that it was recording is lost.                  *)
LEMMA FailsHolds ==
    ASSUME Duck!DucksAssumption, Duck!TypeOK, Duck!DucksInv,
           NEW p \in {"load", "daily", "save", "schedule", "caught", "record"}, Duck!HandlerFails(p)
    PROVE  Duck!TypeOK' /\ Duck!DucksInv'
<1>1. /\ UNCHANGED <<limit, kept, daily, stats, active, count, threshold, spawnTask, expireTask, spawns, expires>>
      /\ UNCHANGED <<enabled, timed, pending>> /\ Duck!Event /\ Duck!Goto(p, "idle")
      /\ caught' = [caught EXCEPT !.lost = @ + Duck!Catching - Duck!Catching']
      /\ crossed' = (crossed \/ p \in {"schedule", "caught"})
  BY DEF Duck!HandlerFails, Duck!settings, Duck!tasks
<1>2. p \in Duck!Places
  BY DEF Duck!Places
<1>3. /\ at' \in [Duck!Places -> Nat] /\ (at["schedule"] > 0 => at'["schedule"] > 0 \/ p = "schedule")
      /\ Duck!Catching' = Duck!Catching - (IF p \in {"caught", "record"} THEN 1 ELSE 0)
      /\ Duck!Catching \in Nat /\ Duck!Catching' \in Nat
  BY <1>1, <1>2, HandlerGoes
<1>4. crossed' \in BOOLEAN /\ (crossed => crossed') /\ (p = "schedule" => crossed')
  BY <1>1, CrossedType
<1>5. PICK b : b = caught.by /\ b \in SUBSET Duck!Ducks
  BY DuckTypes
<1>6. PICK n \in Nat : n = caught.lost + Duck!Catching - Duck!Catching'
  <2>1. caught.lost \in Nat /\ Duck!Catching >= Duck!Catching'
    BY <1>3, DuckTypes
  <2> QED BY <1>3, <2>1
<1>7. caught' = [by |-> b, lost |-> n]
  BY <1>1, <1>5, <1>6, DuckTypes
<1>8. caught' \in [by : SUBSET Duck!Ducks, lost : Nat] /\ caught'.by = caught.by /\ caught'.lost = n
  BY <1>5, <1>7
<1>9. events' \in 0 .. MaxEvents
  BY <1>1, DuckEvents
<1>10. Duck!TypeOK'
  BY <1>1, <1>3, <1>4, <1>8, <1>9, DuckTypes, DuckBooleans, DuckTypesHold
<1>11. Duck!CaughtOnce'
  <2>1. stats' + Duck!Catching' + caught'.lost = stats + Duck!Catching + caught.lost
    BY <1>1, <1>3, <1>6, <1>8, DuckTypes
  <2> QED BY <1>8, <2>1 DEF Duck!DucksInv, Duck!CaughtOnce
<1>12. Duck!SpawnedInv'
  BY <1>1, <1>8 DEF Duck!DucksInv, Duck!SpawnedInv
<1>13. Duck!ScheduledInv'
  BY <1>1, <1>3, <1>4 DEF Duck!DucksInv, Duck!ScheduledInv
<1>14. Duck!OneAtATimeInv'
  BY <1>1, <1>4 DEF Duck!DucksInv, Duck!OneAtATimeInv
<1>15. Duck!DuckHasTimer'
  BY <1>1, <1>4 DEF Duck!DucksInv, Duck!DuckHasTimer
<1> QED BY <1>10, <1>11, <1>12, <1>13, <1>14, <1>15 DEF Duck!DucksInv

LEMMA RestartHolds ==
    ASSUME Duck!DucksAssumption, Duck!TypeOK, Duck!DucksInv, NEW saves \in BOOLEAN, Duck!Restart(saves)
    PROVE  Duck!TypeOK' /\ Duck!DucksInv'
<1>1. /\ UNCHANGED <<limit, daily, stats>> /\ UNCHANGED <<enabled, timed, crossed>> /\ Duck!Event
      /\ active' = 0 /\ pending' = FALSE /\ count' = 0 /\ threshold' = 0 /\ spawnTask' = 0 /\ expireTask' = 0
      /\ spawns' = [d \in Duck!Ducks |-> IF spawns[d] = "none" THEN "none" ELSE "done"]
      /\ expires' = [d \in Duck!Ducks |-> IF expires[d] = "none" THEN "none" ELSE "done"]
      /\ at' = [p \in Duck!Places |-> 0]
      /\ caught' = [caught EXCEPT !.lost = @ + Duck!Catching]
  BY DEF Duck!Restart, Duck!settings
<1>2. kept' \in [count : Nat, threshold : 0 .. MaxThreshold]
  BY DuckTypes, DuckNumbers DEF Duck!Restart
<1>3. /\ spawns' \in [Duck!Ducks -> DuckStates] /\ expires' \in [Duck!Ducks -> TimerStates]
      /\ \A d \in Duck!Ducks : spawns[d] # "none" => spawns'[d] = "done"
      /\ \A d \in Duck!Ducks : spawns'[d] # "reset"
  BY <1>1 DEF DuckStates, TimerStates
<1>4. /\ at' \in [Duck!Places -> Nat] /\ Duck!Catching' = 0 /\ Duck!Catching \in Nat
  BY <1>1, DuckTypes DEF Duck!Catching, Duck!Places
<1>5. /\ caught' \in [by : SUBSET Duck!Ducks, lost : Nat] /\ caught'.by = caught.by
      /\ caught'.lost = caught.lost + Duck!Catching
  BY <1>1, <1>4, DuckTypes
<1>6. pending' \in BOOLEAN
  BY <1>1, Zenon
<1>7. /\ active' \in 0 .. MaxDucks /\ spawnTask' \in 0 .. MaxDucks /\ expireTask' \in 0 .. MaxDucks
      /\ threshold' \in 0 .. MaxThreshold /\ count' \in Nat \union {-1} /\ events' \in 0 .. MaxEvents
  BY <1>1, DuckNumbers, DuckEvents
<1>8. Duck!TypeOK'
  BY <1>1, <1>2, <1>3, <1>4, <1>5, <1>6, <1>7, DuckTypes, DuckBooleans, DuckTypesHold
<1>9. Duck!CaughtOnce'
  <2>1. stats' + Duck!Catching' + caught'.lost = stats + Duck!Catching + caught.lost
    BY <1>1, <1>4, <1>5, DuckTypes
  <2> QED BY <1>5, <2>1 DEF Duck!DucksInv, Duck!CaughtOnce
<1>10. Duck!SpawnedInv'
  BY <1>1, <1>3, <1>5, DuckTypes DEF Duck!DucksInv, Duck!SpawnedInv
<1>11. Duck!ScheduledInv' /\ Duck!DuckHasTimer' /\ Duck!OneAtATimeInv'
  BY <1>1, <1>3 DEF Duck!ScheduledInv, Duck!DuckHasTimer, Duck!OneAtATimeInv
<1> QED BY <1>8, <1>9, <1>10, <1>11 DEF Duck!DucksInv

LEMMA InitHolds ==
    ASSUME Duck!DucksAssumption, Duck!Init
    PROVE  Duck!TypeOK /\ Duck!DucksInv
<1>1. Duck!TypeOK
  <2>1. enabled \in BOOLEAN /\ timed \in BOOLEAN /\ pending \in BOOLEAN /\ crossed \in BOOLEAN
    BY Zenon DEF Duck!Init
  <2>2. /\ limit \in Limits /\ kept \in [count : Nat, threshold : 0 .. MaxThreshold]
        /\ daily \in Nat /\ stats \in Nat /\ {active, spawnTask, expireTask} \subseteq 0 .. MaxDucks
        /\ count \in Nat \union {-1} /\ threshold \in 0 .. MaxThreshold
        /\ spawns \in [Duck!Ducks -> DuckStates] /\ expires \in [Duck!Ducks -> TimerStates]
        /\ at \in [Duck!Places -> Nat] /\ caught \in [by : SUBSET Duck!Ducks, lost : Nat]
        /\ events \in 0 .. MaxEvents
    BY DuckNumbers DEF Duck!Init, Duck!Empty, DuckStates, TimerStates
  <2> QED BY <2>1, <2>2, Zenon DEF Duck!TypeOK, DuckStates, TimerStates
<1>2. Duck!CaughtOnce
  <2>1. Duck!Catching = 0 /\ stats = 0 /\ caught.lost = 0 /\ caught.by = {}
    BY DEF Duck!Init, Duck!Catching, Duck!Places
  <2>2. Cardinality({}) = 0
    BY FS_EmptySet
  <2>3. Duck!Cardinality(caught.by) = 0
    BY <2>1, <2>2, SameCount
  <2> QED BY <2>1, <2>3 DEF Duck!CaughtOnce
<1>3. Duck!SpawnedInv /\ Duck!ScheduledInv /\ Duck!OneAtATimeInv /\ Duck!DuckHasTimer
  BY DEF Duck!Init, Duck!SpawnedInv, Duck!ScheduledInv, Duck!OneAtATimeInv, Duck!DuckHasTimer
<1> QED BY <1>1, <1>2, <1>3 DEF Duck!DucksInv

(* No step breaks the invariant.                                            *)
LEMMA StepHolds ==
    ASSUME Duck!DucksAssumption, Duck!TypeOK, Duck!DucksInv, [Duck!Next]_(Duck!vars)
    PROVE  Duck!TypeOK' /\ Duck!DucksInv'
<1>1. CASE UNCHANGED Duck!vars
  <2>1. /\ UNCHANGED <<limit, kept, daily, stats, active, count, threshold, spawnTask, expireTask>>
        /\ UNCHANGED <<enabled, timed, pending, crossed, spawns, expires, at, caught, events>>
    BY <1>1 DEF Duck!vars, Duck!settings, Duck!tasks, Duck!ghosts
  <2>2. Duck!TypeOK'
    BY <2>1, DuckTypes, DuckBooleans, DuckTypesHold
  <2>3. Duck!Catching' = Duck!Catching
    BY <2>1 DEF Duck!Catching
  <2>4. Duck!CaughtOnce'
    BY <2>1, <2>3, CaughtStays DEF Duck!DucksInv
  <2>5. Duck!SpawnedInv' /\ Duck!OneAtATimeInv' /\ Duck!DuckHasTimer'
    BY <2>1, RoomStays
  <2>6. Duck!ScheduledInv'
    BY <2>1, ScheduleStays
  <2> QED BY <2>2, <2>4, <2>5, <2>6 DEF Duck!DucksInv
<1>2. CASE Duck!OnMessage \/ Duck!LoadRoomCycle \/ Duck!Ignore \/ Duck!CountMessage \/ Duck!Roll(TRUE) \/ Duck!Roll(FALSE)
  BY <1>2, MessagesHold
<1>3. CASE Duck!Schedule
  BY <1>3, ScheduleHolds
<1>4. CASE Duck!HandleDuckAction \/ Duck!StopTimer \/ Duck!RecordAction
  BY <1>4, ActionHolds, TimerHolds, RecordHolds
<1>5. CASE Duck!SwitchOff \/ Duck!OffStopsTasks \/ Duck!CleanupRoomState
  BY <1>5, OffHolds, OffStopsHolds, CleanupHolds
<1>6. CASE Duck!SwitchOn \/ Duck!NewDay \/ Duck!ConfigSavesCycle \/ \E l \in Limits : Duck!CleanupRows(l)
  BY <1>6, DuckQuietHolds
<1>7. ASSUME NEW l \in Limits, NEW t \in BOOLEAN, Duck!RoomConfig(l, t) PROVE Duck!TypeOK' /\ Duck!DucksInv'
  BY <1>7, ConfigHolds
<1>8. ASSUME NEW p \in {"load", "daily", "save", "schedule", "caught", "record"}, Duck!HandlerFails(p)
      PROVE  Duck!TypeOK' /\ Duck!DucksInv'
  BY <1>8, FailsHolds
<1>9. ASSUME NEW d \in Duck!Ducks, Duck!Task(d) PROVE Duck!TypeOK' /\ Duck!DucksInv'
  BY <1>9, WakesHolds, StopsHolds, AppearsHolds, AnnouncedHolds, SpawnFailsHolds, ExpireHolds DEF Duck!Task
<1>10. ASSUME NEW saves \in BOOLEAN, Duck!Restart(saves) PROVE Duck!TypeOK' /\ Duck!DucksInv'
  BY <1>10, RestartHolds
<1> QED BY <1>1, <1>2, <1>3, <1>4, <1>5, <1>6, <1>7, <1>8, <1>9, <1>10 DEF Duck!Next, Duck!Handle

(* For any limits, thresholds and bounds, and however messages, commands,   *)
(* failing accesses and restarts interleave with the tasks: each catch is   *)
(* in the statistics once, is being recorded or was lost to a failure while *)
(* it was; and unless tasks crossed, a room that is marked as scheduled     *)
(* gets its duck and a duck that times out has its timer (plugins/ducks.py; *)
(* the ducks' part of RoomsAreServed in MCIncoming).                        *)
THEOREM DucksAreAlwaysServed ==
    ASSUME Duck!DucksAssumption
    PROVE  Duck!Spec => [](Duck!TypeOK /\ Duck!CaughtOnce /\ Duck!MarkedIsScheduled /\ Duck!DuckHasTimer)
<1>1. Duck!Init => Duck!TypeOK /\ Duck!DucksInv
  BY InitHolds
<1>2. Duck!TypeOK /\ Duck!DucksInv /\ [Duck!Next]_(Duck!vars) => (Duck!TypeOK /\ Duck!DucksInv)'
  BY StepHolds
<1>3. Duck!TypeOK /\ Duck!DucksInv => Duck!CaughtOnce /\ Duck!MarkedIsScheduled /\ Duck!DuckHasTimer
  <2> SUFFICES ASSUME Duck!TypeOK, Duck!DucksInv PROVE Duck!MarkedIsScheduled
    BY DEF Duck!DucksInv
  <2>1. spawnTask # 0 => spawnTask \in Duck!Ducks
    BY DuckTypes, DuckNumbers DEF Duck!Ducks
  <2> QED BY <2>1 DEF Duck!DucksInv, Duck!ScheduledInv, Duck!MarkedIsScheduled
<1> QED BY <1>1, <1>2, <1>3, PTL DEF Duck!Spec
=============================================================================
