------------------------------- MODULE Commands -------------------------------
(***************************************************************************)
(* A message on its way through the bot: routing (bot/routing.py), command *)
(* dispatch with the sender's role (bot/dispatch.py, bot/permissions.py),  *)
(* the executor with its timeout (utils/command_execution.py), the         *)
(* commands that change users (core_plugins/users) and the reply           *)
(* (bot/messages.py).  Messages are handled by tasks that interleave at    *)
(* every await; shutdown drains the replies that are still pending.        *)
(***************************************************************************)
EXTENDS Integers, FiniteSets

CONSTANTS
    None,
    Senders,        \* bare JIDs
    Owner,          \* the configured owner
    RoomAdmins,     \* senders that own or administer the room they write in
    Tasks,          \* messages handled at the same time
    Omemo,          \* omemo_enabled
    PlainFallback,  \* omemo_plaintext_fallback
    Messages,       \* what is written to the bot: [sender, direct, enc, name, target, new]
    MaxMessages     \* bound on the messages

OwnerAssumption == Owner \in Senders /\ RoomAdmins \subseteq Senders

(* Roles are numbers; the smaller one ranks higher (utils/command.py).      *)
OwnerRole == 1
Superadmin == 10
Admin == 20
Moderator == 40
User == 80
Banned == 100
Roles == {OwnerRole, Superadmin, Admin, Moderator, 60, User, 90, 95, Banned}
Assignable == Roles \ {OwnerRole, 95}

Required == [hello |-> User, role |-> Admin, delete |-> Admin]
Names == {"hello", "role", "delete"}

MessagesAssumption ==
    /\ Messages \subseteq [sender : Senders, direct : BOOLEAN, enc : BOOLEAN, name : Names,
                           target : Senders, new : Assignable]
    /\ MaxMessages \in Nat

(* What a task holds while it handles a message: the message, how far it is *)
(* (at), its number, the role that was checked and the target's row (seen). *)
Places == {"prepare", "role", "limit", "work", "target", "actor", "clear", "delete", "answer",
           "audit"}
Handling == [sender : Senders, direct : BOOLEAN, enc : BOOLEAN, name : Names,
             target : Senders, new : Assignable, at : Places, no : 1..MaxMessages,
             role : Roles \union {None}, seen : Roles \union {None}]

(* A reply: the number of its message, and the mode the sending task got.   *)
Answers == [no : 1..MaxMessages, direct : BOOLEAN, enc : BOOLEAN, mode : {TRUE, None}]

Makers == [by : Senders, rank : Roles]

NoneAssumption ==
    None \notin Roles /\ None \notin BOOLEAN /\ None \notin Handling /\ None \notin Makers

VARIABLES
    accepting,      \* accepting_commands
    row,            \* the stored role of every user, None without a row
    task,           \* what each task handles, None while it is free
    replies,        \* _reply_tasks
    drain,          \* _drain_reply_tasks: "no", "waiting" or "over"
    maker,          \* ghost: who gave a user its role, holding which role
    sent,           \* ghost: how replies went out
    early,          \* ghost: the replies pending when the drain began
    messages        \* messages so far

vars == <<accepting, row, task, replies, drain, maker, sent, early, messages>>

TypeOK ==
    /\ accepting \in BOOLEAN
    /\ row \in [Senders -> Roles \union {None}]
    /\ drain \in {"no", "waiting", "over"}
    /\ task \in [Tasks -> Handling \union {None}]
    /\ maker \in [Senders -> Makers \union {None}]
    /\ replies \subseteq Answers
    /\ sent \subseteq [direct : BOOLEAN, enc : BOOLEAN, way : {"omemo", "plain"}]
    /\ early \subseteq 1..MaxMessages /\ messages \in 0..MaxMessages

(* The owner may have made admins before.                                   *)
Init ==
    /\ accepting = TRUE
    /\ task = [k \in Tasks |-> None] /\ replies = {} /\ drain = "no"
    /\ \E admins \in SUBSET (Senders \ {Owner}) :
        /\ row = [s \in Senders |-> IF s \in admins THEN Admin ELSE None]
        /\ maker = [s \in Senders |-> IF s \in admins THEN [by |-> Owner, rank |-> OwnerRole]
                                      ELSE None]
    /\ sent = {} /\ early = {} /\ messages = 0

-----------------------------------------------------------------------------
(* Roles.                                                                    *)

(* A user without a row is a regular user; a stored owner role counts for   *)
(* nothing.                                                                  *)
StoredRole(r) == IF r \in {None, OwnerRole, 95} THEN User ELSE r

Elevated(s, r, inRoom) == IF inRoom /\ s \in RoomAdmins /\ r > Moderator THEN Moderator ELSE r

RoleOf(s, inRoom) == IF s = Owner THEN OwnerRole ELSE Elevated(s, StoredRole(row[s]), inRoom)

BypassesLimit(r) == r <= Moderator

(* The required role, and no privileged command in the public room.         *)
Permitted(r, name, direct) ==
    /\ r # Banned /\ r <= Required[name]
    /\ direct \/ Required[name] > Moderator

MayChange(rank, actor, target, old, new) ==
    /\ rank <= Admin /\ target \notin {Owner, actor} /\ new \in Assignable
    /\ Superadmin \in {old, new} => rank = OwnerRole
    /\ old > rank /\ new > rank

MayDelete(rank, actor, target, old) ==
    /\ rank <= Admin /\ target \notin {Owner, actor}
    /\ old = Superadmin => rank = OwnerRole
    /\ old > rank

-----------------------------------------------------------------------------
(* Replies.                                                                  *)

(* The encryption mode belongs to one task: the executor hands it to the    *)
(* task that wait_for makes for the handler, and reply() reads it there.    *)
HandlerMode_Lost(enc) == None
HandlerMode(enc) == enc

(* A mode other than TRUE is not passed on to the sending task, which finds *)
(* none of its own.                                                         *)
ScheduledMode(mode) == IF mode = TRUE THEN TRUE ELSE None

ReplyIn(mode, t) ==
    replies' = replies \union
        {[no |-> t.no, direct |-> t.direct, enc |-> t.enc, mode |-> ScheduledMode(mode)]}

Reply(t) == ReplyIn(t.enc, t)
HandlerReply(t) == ReplyIn(HandlerMode(t.enc), t)

(* Without a mode a direct message is encrypted, if OMEMO is on.            *)
SendMode(r) == IF r.mode = None /\ Omemo /\ r.direct THEN TRUE ELSE r.mode

Went(r, way) == sent' = sent \union {[direct |-> r.direct, enc |-> r.enc, way |-> way]}

FallbackAllowed_Always == TRUE
FallbackAllowed == PlainFallback

(* A reply is not kept: it is lost if the session is down or the transport  *)
(* refuses it.                                                               *)
SendReply(r) ==
    /\ r \in replies /\ replies' = replies \ {r}
    /\ \/ SendMode(r) = TRUE /\ Went(r, "omemo")
       \/ (SendMode(r) = TRUE => FallbackAllowed) /\ Went(r, "plain")
       \/ UNCHANGED sent
    /\ UNCHANGED <<accepting, row, task, drain, maker, early, messages>>

-----------------------------------------------------------------------------
(* The way of a message.                                                     *)

Rest == UNCHANGED <<accepting, drain, sent, early, messages>>
At(k, place) == task[k] # None /\ task[k].at = place
Goto(k, place) == task' = [task EXCEPT ![k].at = place]
Ends(k) == task' = [task EXCEPT ![k] = None]

(* on_muc_message and on_private_message drop what arrives unaccepted.      *)
Receive(k, m) ==
    /\ accepting /\ task[k] = None /\ messages < MaxMessages
    /\ m.enc => Omemo
    /\ messages' = messages + 1
    /\ task' = [task EXCEPT ![k] =
         [sender |-> m.sender, direct |-> m.direct, enc |-> m.enc, name |-> m.name,
          target |-> m.target, new |-> m.new, at |-> "prepare", no |-> messages + 1,
          role |-> None, seen |-> None]]
    /\ UNCHANGED <<accepting, row, replies, drain, maker, sent, early>>

(* Decryption, the message cache and the plugins' message hooks are awaited *)
(* before handle_command looks at the flag again.                           *)
Prepared(k) ==
    /\ At(k, "prepare")
    /\ IF accepting THEN Goto(k, "role") /\ UNCHANGED replies ELSE Ends(k) /\ Reply(task[k])
    /\ Rest /\ UNCHANGED <<row, maker>>

Handlers == [hello |-> "work", role |-> "target", delete |-> "target"]

Decide(k, r) ==
    LET t == task[k] IN
    IF Permitted(r, t.name, t.direct)
    THEN /\ task' = [task EXCEPT ![k].at = Handlers[t.name], ![k].role = r]
         /\ UNCHANGED replies
    ELSE Ends(k) /\ Reply(t)

RoleKnown(k) ==
    LET r == RoleOf(task[k].sender, ~task[k].direct) IN
    /\ At(k, "role")
    /\ IF BypassesLimit(r)
       THEN Decide(k, r)
       ELSE task' = [task EXCEPT ![k].at = "limit", ![k].role = r] /\ UNCHANGED replies
    /\ Rest /\ UNCHANGED <<row, maker>>

Limited(k) ==
    /\ At(k, "limit")
    /\ \/ Decide(k, task[k].role)
       \/ Ends(k) /\ UNCHANGED replies
    /\ Rest /\ UNCHANGED <<row, maker>>

(* users role, users delete: the target's row, then the sender's own role.  *)
ReadTarget(k) ==
    LET t == task[k] IN
    /\ At(k, "target")
    /\ task' = [task EXCEPT ![k].seen = row[t.target],
                            ![k].at = IF t.name = "delete" /\ row[t.target] = None
                                      THEN "answer" ELSE "actor"]
    /\ Rest /\ UNCHANGED <<row, replies, maker>>

Made(t, rank) == [by |-> t.sender, rank |-> rank]

(* um.set changes nothing if the row has gone.                              *)
StoreRole(k, rank) ==
    LET t == task[k] IN
    IF row[t.target] = None
    THEN UNCHANGED <<row, maker>>
    ELSE /\ row' = [row EXCEPT ![t.target] = t.new]
         /\ maker' = [maker EXCEPT ![t.target] = Made(t, rank)]

ChangeRole(k, rank) ==
    LET t == task[k]
        may == MayChange(rank, t.sender, t.target, StoredRole(t.seen), t.new) IN
    \/ /\ may /\ t.seen = None
       /\ task' = [task EXCEPT ![k].at = "clear", ![k].role = rank]
       /\ row' = [row EXCEPT ![t.target] = IF @ = None THEN User ELSE @]
       /\ UNCHANGED maker
    \/ /\ may /\ t.seen # None /\ StoredRole(t.seen) # t.new
       /\ Goto(k, "answer") /\ StoreRole(k, RoleOf(t.sender, FALSE))
    \/ /\ ~may \/ (t.seen # None /\ StoredRole(t.seen) = t.new)
       /\ Goto(k, "answer") /\ UNCHANGED <<row, maker>>

CheckActor_Dispatched(k) ==
    /\ At(k, "actor") /\ task[k].name = "role"
    /\ ChangeRole(k, task[k].role)
    /\ Rest /\ UNCHANGED replies

CheckActor(k) ==
    LET t == task[k]  rank == RoleOf(t.sender, FALSE) IN
    /\ At(k, "actor")
    /\ \/ t.name = "role" /\ ChangeRole(k, rank)
       \/ t.name = "delete" /\ UNCHANGED <<row, maker>>
          /\ Goto(k, IF MayDelete(rank, t.sender, t.target, StoredRole(t.seen))
                     THEN "delete" ELSE "answer")
    /\ Rest /\ UNCHANGED replies

(* The deletion mark of a created user has been cleared.                    *)
Cleared(k) ==
    /\ At(k, "clear") /\ Goto(k, "answer")
    /\ IF task[k].new = User THEN UNCHANGED <<row, maker>> ELSE StoreRole(k, task[k].role)
    /\ Rest /\ UNCHANGED replies

Deleted(k) ==
    /\ At(k, "delete") /\ Goto(k, "answer")
    /\ row' = [row EXCEPT ![task[k].target] = None]
    /\ maker' = [maker EXCEPT ![task[k].target] = None]
    /\ Rest /\ UNCHANGED replies

(* The handler has written its audit event and answers.                     *)
Answer(k) ==
    /\ At(k, "answer") \/ At(k, "work")
    /\ HandlerReply(task[k]) /\ Goto(k, "audit")
    /\ Rest /\ UNCHANGED <<row, maker>>

(* The timeout, or an error: the executor answers in the message's task.    *)
Interrupt(k) ==
    /\ task[k] # None
    /\ task[k].at \in {"work", "target", "actor", "clear", "delete", "answer"}
    /\ Reply(task[k]) /\ Goto(k, "audit")
    /\ Rest /\ UNCHANGED <<row, maker>>

(* The executor's audit event and the usage record have been written.       *)
Audited(k) ==
    At(k, "audit") /\ Ends(k) /\ Rest /\ UNCHANGED <<row, replies, maker>>

(* The users plugin creates the row of somebody it sees.                    *)
Seen(s) ==
    /\ row[s] = None /\ row' = [row EXCEPT ![s] = User]
    /\ Rest /\ UNCHANGED <<task, replies, maker>>

-----------------------------------------------------------------------------
(* The end of the process.                                                   *)

Shutdown ==
    /\ accepting /\ accepting' = FALSE
    /\ drain' = "waiting" /\ early' = {r.no : r \in replies}
    /\ UNCHANGED <<row, task, replies, maker, sent, messages>>

Cancelled_None == {}
Cancelled == replies

(* Nothing is pending, or the deadline cancels what is.                     *)
DrainEnds ==
    /\ drain = "waiting" /\ drain' = "over"
    /\ replies' = replies \ Cancelled
    /\ UNCHANGED <<accepting, row, task, maker, sent, early, messages>>

Next ==
    \/ \E k \in Tasks :
        \/ \E m \in Messages : Receive(k, m)
        \/ Prepared(k) \/ RoleKnown(k) \/ Limited(k) \/ ReadTarget(k) \/ CheckActor(k)
        \/ Cleared(k) \/ Deleted(k) \/ Answer(k) \/ Interrupt(k) \/ Audited(k)
    \/ \E r \in replies : SendReply(r)
    \/ \E s \in Senders : Seen(s)
    \/ Shutdown \/ DrainEnds

Spec == Init /\ [][Next]_vars

-----------------------------------------------------------------------------
(* A role above the default one was given by somebody else who then held a  *)
(* higher one (a superadmin's by the owner), through all the awaits between *)
(* the dispatcher's check and the write (users_update, _can_change_role).   *)
AuthorityIsTraced ==
    \A s \in Senders : row[s] # None /\ row[s] < User =>
        /\ maker[s] # None /\ maker[s].by # s /\ maker[s].rank < row[s]
        /\ row[s] = Superadmin => maker[s].by = Owner

(* The reply to an encrypted message goes out encrypted, whichever task     *)
(* sends it, unless the configuration allows plaintext (bot/messages.py).   *)
RepliesKeepSecrets == \A s \in sent : s.enc /\ ~PlainFallback => s.way = "omemo"

(* No reply that was pending when the drain began outlives it               *)
(* (_drain_reply_tasks).                                                    *)
DrainIsComplete == drain = "over" => \A r \in replies : r.no \notin early

RepliesAreSettled == RepliesKeepSecrets /\ DrainIsComplete

-----------------------------------------------------------------------------
(* The inductive invariants behind them.  A task that waits for the         *)
(* deletion mark of a user it created was entitled to give the role, as the *)
(* rank was when it was read.                                               *)
Entitled(t) ==
    /\ t.target \notin {Owner, t.sender} /\ t.role \in Roles /\ t.role < t.new
    /\ t.new = Superadmin => t.sender = Owner

AuthorityInv ==
    /\ AuthorityIsTraced
    /\ \A k \in Tasks : At(k, "clear") => Entitled(task[k])

(* A task answers once: what it will answer is neither pending nor was it   *)
(* when the drain began.                                                    *)
Unanswered(k) == task[k] # None /\ task[k].at # "audit"

NumbersAreTasks ==
    /\ \A k \in Tasks : task[k] # None => task[k].no <= messages
    /\ \A j, k \in Tasks : j # k /\ task[j] # None /\ task[k] # None => task[j].no # task[k].no
    /\ \A n \in early : n <= messages
    /\ \A r \in replies : r.no <= messages

RepliesInv ==
    /\ RepliesAreSettled
    /\ NumbersAreTasks
    /\ \A r \in replies : r.enc => r.mode = TRUE
    /\ \A k \in Tasks : Unanswered(k) =>
          task[k].no \notin early /\ \A r \in replies : r.no # task[k].no

(* README.md:278: plaintext input gets a plaintext reply.                   *)
PlainGetsPlain == \A s \in sent : ~s.enc => s.way = "plain"
=============================================================================
