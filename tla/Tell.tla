-------------------------------- MODULE Tell --------------------------------
(***************************************************************************)
(* plugins/tell.py: messages left for a user who is away, seen from one    *)
(* receiver.  The runtime store hands out the list itself, not a copy, and *)
(* reading or replacing a cached value does not suspend.  A delivery goes  *)
(* through the list it was given, sleeping before every message, and then  *)
(* replaces the stored list by what nobody accepted: as long as its list   *)
(* is the stored one (live) it also sees what is appended meanwhile.       *)
(* Messages have the numbers in which they were told, and every list keeps *)
(* that order, so that a list is the set of its messages.                  *)
(***************************************************************************)
EXTENDS Naturals, FiniteSets

CONSTANTS
    Rooms,
    Deliveries,     \* tasks that may handle a presence at the same time
    None,
    MaxTells,       \* bound: messages left
    MaxPresences,   \* bound: presences of the receiver
    MaxRefusals,    \* bound: sends that are refused
    MaxReloads      \* bound: reloads of the plugin

VARIABLES
    stored,         \* the receiver's tell_messages
    enabled,        \* rooms in which the command is switched on
    handlers,       \* registrations of deliver_tell_messages
    waiting,        \* tasks that look the nick up
    delivery,       \* per task: its progress through a list, or None
    copies,         \* how often each message was sent
    overtaken,      \* deliveries during which another task replaced the list
    presences, refusals, reloads

bounds == <<presences, refusals, reloads>>
vars == <<stored, enabled, handlers, waiting, delivery, copies, overtaken, bounds>>

Numbers == 1 .. MaxTells
Message == [id : Numbers, room : Rooms]
Delivery == [todo : SUBSET Message, kept : SUBSET Message, live : BOOLEAN]
Active == {d \in Deliveries : delivery[d] # None}
Told == {i \in Numbers : copies[i] # None}

TellAssumption == MaxTells \in Nat /\ None \notin Nat /\ None \notin Delivery

TypeOK ==
    /\ stored \subseteq Message
    /\ enabled \subseteq Rooms /\ waiting \subseteq Deliveries \ Active
    /\ {handlers, presences, refusals, reloads} \subseteq Nat
    /\ delivery \in [Deliveries -> Delivery \cup {None}]
    /\ copies \in [Numbers -> Nat \cup {None}]
    /\ overtaken \subseteq Active

Init ==
    /\ stored = {} /\ enabled = Rooms /\ handlers = 1
    /\ waiting = {} /\ delivery = [d \in Deliveries |-> None]
    /\ copies = [i \in Numbers |-> None] /\ overtaken = {}
    /\ presences = 0 /\ refusals = 0 /\ reloads = 0

Toggle(r) ==
    /\ enabled' = IF r \in enabled THEN enabled \ {r} ELSE enabled \cup {r}
    /\ UNCHANGED <<stored, handlers, waiting, delivery, copies, overtaken, bounds>>

(* A delivery whose list is the stored one sees what is appended to it.     *)
Seen_Copied(d, m) == [d EXCEPT !.live = FALSE]
Seen(d, m) == IF d.live THEN [d EXCEPT !.todo = @ \cup {m}] ELSE d

(* tell_store appends in place: messages are appended to the list it read,  *)
(* and an empty list, which no delivery holds, gives way to a new one.      *)
TellCmd(r) ==
    /\ r \in enabled
    /\ \E m \in Message :
         /\ m.room = r /\ m.id \notin Told /\ 1 .. m.id - 1 \subseteq Told
         /\ stored' = stored \cup {m}
         /\ delivery' = [d \in Deliveries |->
              IF d \in Active THEN Seen(delivery[d], m) ELSE delivery[d]]
         /\ copies' = [copies EXCEPT ![m.id] = 0]
    /\ UNCHANGED <<enabled, handlers, waiting, overtaken, bounds>>

(* Every registered handler runs for every presence of the receiver, also   *)
(* one that only changes a status, and first looks the nick up.             *)
Presence ==
    /\ presences < MaxPresences
    /\ \E new \in SUBSET (Deliveries \ (Active \cup waiting)) :
         Cardinality(new) = handlers /\ waiting' = waiting \cup new
    /\ presences' = presences + 1
    /\ UNCHANGED <<stored, enabled, handlers, delivery, copies, overtaken, refusals, reloads>>

Fetch(d) ==
    /\ d \in waiting
    /\ waiting' = waiting \ {d}
    /\ delivery' = [delivery EXCEPT ![d] =
         IF stored = {} THEN None
         ELSE [todo |-> stored, kept |-> {}, live |-> TRUE]]
    /\ UNCHANGED <<stored, enabled, handlers, copies, overtaken, bounds>>

(* One turn of the loop: the sleep, the send, and the end of the loop when  *)
(* the list has no further entry.  Whoever else goes through the list that  *)
(* is replaced then is overtaken.                                           *)
Overtake(others) ==
    /\ overtaken' = others
    /\ delivery' = [d \in Deliveries |->
         IF d \in others THEN [delivery[d] EXCEPT !.live = FALSE]
         ELSE IF d \in Active THEN None ELSE delivery[d]]

Turn(d, m, accepted) ==
    LET kept == IF accepted THEN delivery[d].kept ELSE delivery[d].kept \cup {m}
        rest == delivery[d].todo \ {m}
    IN  /\ d \in Active /\ m \in delivery[d].todo
        /\ \A n \in delivery[d].todo : m.id <= n.id
        /\ ~accepted => refusals < MaxRefusals
        /\ copies' = IF accepted THEN [copies EXCEPT ![m.id] = @ + 1] ELSE copies
        /\ refusals' = IF accepted THEN refusals ELSE refusals + 1
        /\ \/ /\ rest # {}
              /\ delivery' = [delivery EXCEPT ![d].todo = rest, ![d].kept = kept]
              /\ UNCHANGED <<stored, overtaken>>
           \/ /\ rest = {}
              /\ stored' = kept
              /\ Overtake(Active \ {d})
        /\ UNCHANGED <<enabled, handlers, waiting, presences, reloads>>

(* The room is deleted: its messages go, in a new list if there were any.   *)
CleanupRoomState(r) ==
    LET kept == {m \in stored : m.room # r}
    IN  /\ kept # stored
        /\ stored' = kept
        /\ Overtake(Active)
        /\ UNCHANGED <<enabled, handlers, waiting, copies, bounds>>

(* on_load registers the handler for a plugin named tell_notify: unloading  *)
(* tell leaves it, and loading tell again adds a second one.                *)
Reload ==
    /\ reloads < MaxReloads
    /\ handlers' = handlers + 1
    /\ reloads' = reloads + 1
    /\ UNCHANGED <<stored, enabled, waiting, delivery, copies, overtaken, presences, refusals>>

Next ==
    \/ \E r \in Rooms : Toggle(r) \/ TellCmd(r) \/ CleanupRoomState(r)
    \/ Presence \/ Reload
    \/ \E d \in Deliveries :
         Fetch(d) \/ \E m \in Message, accepted \in BOOLEAN : Turn(d, m, accepted)

Spec == Init /\ [][Next]_vars

(* A message leaves the store without having been sent only when its room   *)
(* is deleted, or when the delivery that ends had its list replaced by      *)
(* another task before: a delivery on its own never loses what is told      *)
(* while it sleeps (deliver_tell_messages against tell_store).              *)
KeptStep ==
    \A m \in stored \ stored' :
         \/ copies'[m.id] > 0
         \/ Active' = Active /\ \A n \in stored' : n.room # m.room
         \/ \E d \in overtaken : delivery'[d] = None

KeptUntilSent == [][KeptStep]_vars

(* The inductive invariant: a delivery that nobody overtook goes through    *)
(* the stored list, has put aside what was refused and sent the rest.       *)
InHandInv ==
    /\ \A m \in stored : m.id \in Told
    /\ \A d \in Active :
          /\ \A m \in delivery[d].todo \cup delivery[d].kept : m.id \in Told
          /\ d \notin overtaken =>
                /\ delivery[d].live
                /\ \A m \in stored \ (delivery[d].todo \cup delivery[d].kept) : copies[m.id] > 0
=============================================================================
