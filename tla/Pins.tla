--------------------------------- MODULE Pins ----------------------------------
(***************************************************************************)
(* The pinned messages of all rooms (plugins/pin.py), one value of the     *)
(* store.  Loading it makes a new dictionary of the rooms that shares the  *)
(* lists of pins with the stored one; saving puts the whole dictionary     *)
(* back.  `pin tags` loads it first and then asks the server whether the   *)
(* sender may, so that its dictionary may be an old one when it is saved.  *)
(***************************************************************************)
EXTENDS Integers, FiniteSets

CONSTANTS
    Rooms,
    None,
    MaxPins,  \* bound on pins that are added
    MaxLists, \* bound on the lists of pins that rooms get
    MaxClean  \* bound on rooms that are deleted

VARIABLES
    rooms,    \* the stored dictionary: each room's list, None when it has none
    lists,    \* the lists: the pins in each
    id,       \* the number of each pin, 0 before it is added
    tagged,   \* the pins whose last change was one of their tags
    asking,   \* the `pin tags` that asks: [copy, pin], or None
    home,     \* ghost: the room of each pin that was added and not deleted since
    clean,    \* ghost: how many rooms were deleted
    exposed   \* ghost: the rooms whose list came or went while one was asking

vars == <<rooms, lists, id, tagged, asking, home, clean, exposed>>

Pins == 1..MaxPins
Lists == 1..MaxLists

TypeOK ==
    /\ rooms \in [Rooms -> Lists \union {None}]
    /\ lists \in [Lists -> SUBSET Pins] /\ id \in [Pins -> 0..MaxPins]
    /\ tagged \subseteq Pins
    /\ asking = None \/ asking \in [copy : [Rooms -> Lists \union {None}], pin : Pins]
    /\ home \in [Pins -> Rooms \union {None}] /\ clean \in 0..MaxClean /\ exposed \subseteq Rooms

Init ==
    /\ rooms = [r \in Rooms |-> None] /\ lists = [l \in Lists |-> {}]
    /\ id = [p \in Pins |-> 0] /\ tagged = {} /\ asking = None
    /\ home = [p \in Pins |-> None] /\ clean = 0 /\ exposed = {}

(* The pins of a room, and the one with a number.                           *)
PinsOf(r) == IF rooms[r] = None THEN {} ELSE lists[rooms[r]]

NextFreePinId_Count(ps) == Cardinality(ps) + 1
NextFreePinId(ps) == CHOOSE n \in 1..(Cardinality(ps) + 1) :
    /\ \A p \in ps : id[p] # n
    /\ \A k \in 1..(n - 1) : \E p \in ps : id[p] = k

(* The list of a room's new bucket: one that nothing refers to.             *)
NewList == CHOOSE l \in Lists :
    /\ \A r \in Rooms : rooms[r] # l
    /\ asking # None => \A r \in Rooms : asking.copy[r] # l

Exposed(r) == exposed' = IF asking = None THEN exposed ELSE exposed \union {r}

-----------------------------------------------------------------------------
(* pin add, by a sender who may: the message replied to, or a recent one.   *)
CreatePinEntry(r, p) ==
    /\ id[p] = 0 /\ \A q \in 1..(p - 1) : id[q] # 0
    /\ id' = [id EXCEPT ![p] = NextFreePinId(PinsOf(r))]
    /\ home' = [home EXCEPT ![p] = r]
    /\ \/ /\ rooms[r] # None /\ lists' = [lists EXCEPT ![rooms[r]] = @ \union {p}]
          /\ UNCHANGED <<rooms, exposed>>
       \/ /\ rooms[r] = None
          /\ rooms' = [rooms EXCEPT ![r] = NewList] /\ lists' = [lists EXCEPT ![NewList] = {p}]
          /\ Exposed(r)
    /\ UNCHANGED <<tagged, asking, clean>>

ReplyPinAdd(r, p) == CreatePinEntry(r, p)
AddLast(r, p) == CreatePinEntry(r, p)

(* pin edit, pin important: nothing is awaited between the load and the save.*)
Edit(r, p) ==
    /\ p \in PinsOf(r) /\ tagged' = tagged \ {p}
    /\ UNCHANGED <<rooms, lists, id, asking, home, clean, exposed>>

Important(r, p) == Edit(r, p)

DeletePin(r, p) ==
    /\ p \in PinsOf(r)
    /\ lists' = [lists EXCEPT ![rooms[r]] = @ \ {p}]
    /\ home' = [home EXCEPT ![p] = None]
    /\ UNCHANGED <<rooms, id, tagged, asking, clean, exposed>>

CleanupRoomState(r) ==
    /\ clean < MaxClean /\ clean' = clean + 1 /\ rooms[r] # None
    /\ rooms' = [rooms EXCEPT ![r] = None] /\ Exposed(r)
    /\ home' = [p \in Pins |-> IF home[p] = r THEN None ELSE home[p]]
    /\ UNCHANGED <<lists, id, tagged, asking>>

-----------------------------------------------------------------------------
(* pin tags: the pin is looked up, then the sender's rights are.            *)
TagsAsk(r, p) ==
    /\ p \in PinsOf(r) /\ asking = None
    /\ asking' = [copy |-> rooms, pin |-> p]
    /\ UNCHANGED <<rooms, lists, id, tagged, home, clean, exposed>>

TagsRefused ==
    /\ asking # None /\ asking' = None
    /\ UNCHANGED <<rooms, lists, id, tagged, home, clean, exposed>>

TagsSaved_All(copy) == [r \in Rooms |-> None]
TagsSaved(copy) == copy

TagsSave ==
    /\ asking # None /\ asking' = None
    /\ rooms' = TagsSaved(asking.copy) /\ tagged' = tagged \union {asking.pin}
    /\ UNCHANGED <<lists, id, home, clean, exposed>>

Next ==
    \/ \E r \in Rooms :
           \/ CleanupRoomState(r)
           \/ \E p \in Pins :
                  \/ ReplyPinAdd(r, p) \/ AddLast(r, p)
                  \/ Edit(r, p) \/ Important(r, p) \/ DeletePin(r, p) \/ TagsAsk(r, p)
    \/ TagsRefused \/ TagsSave

Spec == Init /\ [][Next]_vars

-----------------------------------------------------------------------------
(* A pin is found under one number in its room.                             *)
NumbersAreUnique ==
    \A r \in Rooms : \A p, q \in PinsOf(r) : id[p] = id[q] => p = q

(* A pin that was added is there until it is deleted, and then it is gone;  *)
(* a `pin tags` that was asking meanwhile may undo what a room's first pin  *)
(* or its deletion did, and nothing else.                                   *)
PinsAreKept ==
    \A r \in Rooms : r \notin exposed =>
        PinsOf(r) = {p \in Pins : home[p] = r}
=============================================================================
