-------------------------------- MODULE GameItems --------------------------------
(***************************************************************************)
(* The items of IdleRPG's characters (plugins/idlerpg/items.py, events.py).*)
(* A slot holds an item of some level, and may hold a unique artifact of   *)
(* some tier, which events must not take away.  Levels are small numbers;  *)
(* what luck decides is any choice.                                        *)
(***************************************************************************)
EXTENDS Integers

CONSTANTS
    Players, Slots,
    MaxTier,   \* the tiers of artifacts; tier t has a level from 2t to 2t + 1
    MaxLevel,  \* bound on an item's level
    MaxResets  \* bound on resets by an owner

GameItemsAssumption == MaxTier \in Nat /\ MaxLevel \in Nat /\ MaxResets \in Nat

VARIABLES
    items,   \* items: per player and slot, the level
    unique,  \* unique_items: per player and slot, the tier (0: none)
    party,   \* the questers of the active quest
    place,   \* per player: the point of the map
    rested,  \* who is out of the cooldown of duels
    reset,   \* ghost: whom an owner has reset since the season began
    resets

vars == <<items, unique, party, place, rested, reset, resets>>

Low(t) == 2 * t
High(t) == 2 * t + 1
Points == {"here", "there"}

TypeOK ==
    /\ items \in [Players -> [Slots -> 0..MaxLevel]]
    /\ unique \in [Players -> [Slots -> 0..MaxTier]]
    /\ party \subseteq Players /\ place \in [Players -> Points]
    /\ rested \subseteq Players /\ reset \subseteq Players /\ resets \in 0..MaxResets

Init ==
    /\ items = [p \in Players |-> [s \in Slots |-> 0]]
    /\ unique = [p \in Players |-> [s \in Slots |-> 0]]
    /\ party = {} /\ place = [p \in Players |-> "here"] /\ rested = Players
    /\ reset = {} /\ resets = 0

Elsewhere == UNCHANGED <<party, place, rested, reset, resets>>

-----------------------------------------------------------------------------
(* What a level brings: an artifact for a free slot, or of a higher tier    *)
(* and level than the one there; else an item, which an artifact outlives.  *)
RollUniqueItem(p, s, t, level) ==
    /\ level \in Low(t)..High(t)
    /\ unique[p][s] # 0 => t > unique[p][s] /\ level > items[p][s]

FoundLevel(old, level, had) == IF had # 0 \/ level >= old THEN level ELSE old

GrantUnique(p, s, t, level) ==
    /\ RollUniqueItem(p, s, t, level) /\ level <= MaxLevel
    /\ items' = [items EXCEPT ![p][s] = FoundLevel(@, level, unique[p][s])]
    /\ unique' = [unique EXCEPT ![p][s] = t] /\ Elsewhere

GrantLevelItem(p, s, gain) ==
    /\ unique[p][s] = 0 /\ gain >= items[p][s]
    /\ items' = [items EXCEPT ![p][s] = gain] /\ UNCHANGED unique /\ Elsewhere

RunItemBlessing(p, s) ==
    /\ items[p][s] < MaxLevel /\ items' = [items EXCEPT ![p][s] = @ + 1]
    /\ UNCHANGED unique /\ Elsewhere

(* The slots that an event may touch.                                       *)
Open_Any(p) == Slots
Open(p) == {s \in Slots : unique[p][s] = 0}

RunItemDamage(p, s) ==
    /\ s \in Open(p) /\ items[p][s] > 0
    /\ items' = [items EXCEPT ![p][s] = @ - 1]
    /\ unique' = IF items'[p][s] = 0 THEN [unique EXCEPT ![p][s] = 0] ELSE unique
    /\ Elsewhere

(* A better item changes hands, and the old one goes the other way, with    *)
(* whatever artifact there is.                                              *)
GivenBack_Nothing(old) == 0
GivenBack(old) == old

Swaps(w, l, s) ==
    /\ s \in Open(w) \cap Open(l) /\ items[l][s] > items[w][s]
    /\ items' = [items EXCEPT ![w][s] = items[l][s], ![l][s] = GivenBack(items[w][s])]
    /\ unique' = [unique EXCEPT ![w][s] = unique[l][s], ![l][s] = unique[w][s]]

RunItemSwap(w, l, s) == w # l /\ Swaps(w, l, s) /\ Elsewhere

-----------------------------------------------------------------------------
(* Battles: the winner may get an item of the loser.                        *)
MaybeBattleItemDrop(w, l) ==
    \/ \E s \in Slots : Swaps(w, l, s)
    \/ UNCHANGED <<items, unique>>

Together(a, d) == {a, d} \subseteq party /\ place[a] = place[d]

(* By the tick: on one point of the map, but not companions of a quest; or  *)
(* by a random event, anyone.                                               *)
RunDuelBetween(a, d) ==
    /\ a # d /\ (MaybeBattleItemDrop(a, d) \/ MaybeBattleItemDrop(d, a)) /\ Elsewhere

(* By a command: near, not companions on one point, both out of cooldown.   *)
HandleDuel(a, d) ==
    /\ a # d /\ ~Together(a, d) /\ {a, d} \subseteq rested
    /\ MaybeBattleItemDrop(a, d) \/ MaybeBattleItemDrop(d, a)
    /\ rested' = rested \ {a, d} /\ UNCHANGED <<party, place, reset, resets>>

MovePlayer(p) ==
    /\ \E x \in Points \ {place[p]} : place' = [place EXCEPT ![p] = x]
    /\ UNCHANGED <<items, unique, party, rested, reset, resets>>

Quest ==
    /\ \E S \in SUBSET Players \ {party} : party' = S
    /\ UNCHANGED <<items, unique, place, rested, reset, resets>>

Rests(p) ==
    /\ p \notin rested /\ rested' = rested \union {p}
    /\ UNCHANGED <<items, unique, party, place, reset, resets>>

-----------------------------------------------------------------------------
(* An owner's reset takes the items, and not the artifacts.                 *)
HandleAdminReset(p) ==
    /\ resets < MaxResets /\ resets' = resets + 1 /\ reset' = reset \union {p}
    /\ items' = [items EXCEPT ![p] = [s \in Slots |-> 0]]
    /\ UNCHANGED <<unique, party, place, rested>>

NewUniques_Kept == unique
NewUniques == [p \in Players |-> [s \in Slots |-> 0]]

NewSeason ==
    /\ resets < MaxResets /\ resets' = resets + 1 /\ reset' = {} /\ rested' = Players
    /\ items' = [p \in Players |-> [s \in Slots |-> 0]] /\ unique' = NewUniques
    /\ UNCHANGED <<party, place>>

Next ==
    \/ Quest \/ NewSeason
    \/ \E p \in Players : MovePlayer(p) \/ Rests(p) \/ HandleAdminReset(p)
    \/ \E p \in Players, s \in Slots : RunItemBlessing(p, s) \/ RunItemDamage(p, s)
    \/ \E p \in Players, s \in Slots, gain \in 1..MaxLevel : GrantLevelItem(p, s, gain)
    \/ \E p \in Players, s \in Slots, t \in 1..MaxTier, level \in 1..MaxLevel :
          GrantUnique(p, s, t, level)
    \/ \E w, l \in Players : RunDuelBetween(w, l) \/ HandleDuel(w, l)
    \/ \E w, l \in Players, s \in Slots : RunItemSwap(w, l, s)

Spec == Init /\ [][Next]_vars

-----------------------------------------------------------------------------
(* Who has an artifact has it at a level of its tier, whatever happened to  *)
(* the slot since; but for characters that an owner has reset.              *)
UniquesAreWorn ==
    \A p \in Players \ reset, s \in Slots : unique[p][s] # 0 => items[p][s] >= Low(unique[p][s])

(* What changes for two characters at once has changed hands: nothing is    *)
(* lost, and no artifact is taken; only a new season takes from everyone.   *)
FairSwap ==
    \A s \in Slots, p, q \in Players :
        p # q /\ items'[p][s] # items[p][s] /\ items'[q][s] # items[q][s] /\ resets' = resets =>
            /\ items'[p][s] = items[q][s] /\ items'[q][s] = items[p][s]
            /\ unique[p][s] = 0 /\ unique[q][s] = 0

SwapsAreFair == [][FairSwap]_vars
=============================================================================
