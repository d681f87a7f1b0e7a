------------------------------ MODULE PartsProofs ------------------------------
(***************************************************************************)
(* Theorems about parts of the bot that share no state: the items of       *)
(* IdleRPG (GameItems), a feed of the RSS plugin (Feeds), the reminders    *)
(* (Reminders), the messages left for absent users (Tell), the birthdays   *)
(* of a user (Birthdays) and the comics (Xkcd).  Each part is an instance  *)
(* with the constants and variables declared here, so that a theorem is    *)
(* about every value of them that the part's assumption allows.            *)
(***************************************************************************)
EXTENDS Integers, Sequences, TLAPS

CONSTANTS Players, Slots, MaxTier, MaxLevel, MaxResets

VARIABLES items, unique, party, place, rested, reset, resets

Item == INSTANCE GameItems

CONSTANTS Rooms, Users, None, Window, MaxPerPoll, Burst, MaxEntries, MaxCommands, MaxFaults

VARIABLES
    published, feed, disk, joined, worker, adding, bursting, copies, since, skipped, cut,
    crashed, overlapped, wanted, commands, faults

Rss == INSTANCE Feeds

CONSTANTS TasksEach, MaxReminders, RoomReminders, MaxEvents

VARIABLES
    rows, enabled, roomOn, task, active, creating, op, unsure, raced, left, events

Rem == INSTANCE Reminders

CONSTANTS Deliveries, MaxTells, MaxPresences, MaxRefusals, MaxReloads

VARIABLES
    stored, handlers, waiting, delivery, overtaken, presences, refusals, reloads

Tells == INSTANCE Tell

CONSTANTS Checks, Scan, MaxDays, MaxStarts

VARIABLES day, here, profile, cached, memory, scanned, twice, starts

Bday == INSTANCE Birthdays

CONSTANTS Missing, MaxComics, MaxMoves

VARIABLES latest, last, saved, check, build, lost, buried, moves

Comic == INSTANCE Xkcd

-----------------------------------------------------------------------------
(* GameItems.                                                                *)

LEMMA ItemLimits ==
    ASSUME Item!GameItemsAssumption
    PROVE  MaxTier \in Nat /\ MaxLevel \in Nat /\ MaxResets \in Nat
  BY DEF Item!GameItemsAssumption

LEMMA ItemTypes ==
    ASSUME Item!GameItemsAssumption, Item!TypeOK, NEW p \in Players, NEW s \in Slots
    PROVE  /\ items[p][s] \in 0 .. MaxLevel /\ items[p][s] \in Nat
           /\ unique[p][s] \in 0 .. MaxTier /\ unique[p][s] \in Nat
  BY ItemLimits DEF Item!TypeOK

(* One slot of one player takes a value.                                    *)
LEMMA OneSlot ==
    ASSUME NEW M, NEW f \in [Players -> [Slots -> M]], NEW p \in Players, NEW s \in Slots,
           NEW v \in M, NEW g, g = [f EXCEPT ![p][s] = v]
    PROVE  /\ g \in [Players -> [Slots -> M]]
           /\ g[p][s] = v
           /\ \A q \in Players, r \in Slots : q # p \/ r # s => g[q][r] = f[q][r]
  OBVIOUS

(* What happens to one slot is fair; it keeps its artifact's level if the   *)
(* level it gets does.                                                      *)
LEMMA OneSlotStep ==
    ASSUME Item!GameItemsAssumption, Item!TypeOK, Item!UniquesAreWorn, Item!Elsewhere,
           NEW p \in Players, NEW s \in Slots, NEW i \in 0 .. MaxLevel, NEW u \in 0 .. MaxTier,
           items' = [items EXCEPT ![p][s] = i], unique' = [unique EXCEPT ![p][s] = u],
           \/ u # 0 => i >= Item!Low(u)
           \/ u = unique[p][s] /\ i >= items[p][s]
    PROVE  Item!TypeOK' /\ Item!UniquesAreWorn' /\ Item!FairSwap
<1>1. /\ items' \in [Players -> [Slots -> 0 .. MaxLevel]] /\ items'[p][s] = i
      /\ \A q \in Players, r \in Slots : q # p \/ r # s => items'[q][r] = items[q][r]
  BY OneSlot DEF Item!TypeOK
<1>2. /\ unique' \in [Players -> [Slots -> 0 .. MaxTier]] /\ unique'[p][s] = u
      /\ \A q \in Players, r \in Slots : q # p \/ r # s => unique'[q][r] = unique[q][r]
  BY OneSlot DEF Item!TypeOK
<1>3. Item!TypeOK'
  BY <1>1, <1>2 DEF Item!TypeOK, Item!Elsewhere
<1>4. Item!UniquesAreWorn'
  <2> SUFFICES ASSUME NEW q \in Players \ reset', NEW r \in Slots, unique'[q][r] # 0
               PROVE  items'[q][r] >= Item!Low(unique'[q][r])
    BY DEF Item!UniquesAreWorn, Item!Low
  <2>1. q \in Players \ reset /\ unique[q][r] \in Nat /\ items[q][r] \in Nat
    BY ItemTypes DEF Item!Elsewhere
  <2>2. CASE q = p /\ r = s
    <3>1. unique'[q][r] = u /\ items'[q][r] = i /\ i \in Nat /\ u \in Nat
      BY <1>1, <1>2, <2>2, ItemLimits
    <3> QED BY <2>1, <2>2, <3>1 DEF Item!UniquesAreWorn, Item!Low
  <2>3. CASE q # p \/ r # s
    BY <1>1, <1>2, <2>1, <2>3 DEF Item!UniquesAreWorn
  <2> QED BY <2>2, <2>3
<1>5. Item!FairSwap
  BY <1>1 DEF Item!FairSwap
<1> QED BY <1>3, <1>4, <1>5

LEMMA SwapStep ==
    ASSUME Item!GameItemsAssumption, Item!TypeOK, Item!UniquesAreWorn,
           NEW w \in Players, NEW l \in Players, w # l, NEW s \in Slots, Item!Swaps(w, l, s),
           UNCHANGED <<reset, resets>>, place' \in [Players -> Item!Points],
           party' \subseteq Players, rested' \subseteq Players
    PROVE  Item!TypeOK' /\ Item!UniquesAreWorn' /\ Item!FairSwap
<1>1. /\ unique[w][s] = 0 /\ unique[l][s] = 0
      /\ items' = [items EXCEPT ![w][s] = items[l][s], ![l][s] = items[w][s]]
      /\ unique' = [unique EXCEPT ![w][s] = unique[l][s], ![l][s] = unique[w][s]]
  BY DEF Item!Swaps, Item!Open, Item!GivenBack
<1>2. /\ items' \in [Players -> [Slots -> 0 .. MaxLevel]]
      /\ items'[w][s] = items[l][s] /\ items'[l][s] = items[w][s]
      /\ \A q \in Players, r \in Slots : q \notin {w, l} \/ r # s => items'[q][r] = items[q][r]
  <2>1. items[w][s] \in 0 .. MaxLevel /\ items[l][s] \in 0 .. MaxLevel
    BY ItemTypes
  <2>2. PICK a \in 0 .. MaxLevel, b \in 0 .. MaxLevel : a = items[l][s] /\ b = items[w][s]
    BY <2>1
  <2>3. items' = [items EXCEPT ![w][s] = a, ![l][s] = b]
    BY <1>1, <2>2
  <2>4. items \in [Players -> [Slots -> 0 .. MaxLevel]]
    BY DEF Item!TypeOK
  <2> QED BY <2>2, <2>3, <2>4
<1>3. /\ unique' \in [Players -> [Slots -> 0 .. MaxTier]]
      /\ unique'[w][s] = 0 /\ unique'[l][s] = 0
      /\ \A q \in Players, r \in Slots : q \notin {w, l} \/ r # s => unique'[q][r] = unique[q][r]
  <2>1. unique[w][s] \in 0 .. MaxTier /\ unique[l][s] \in 0 .. MaxTier
    BY ItemTypes
  <2>2. PICK a \in 0 .. MaxTier, b \in 0 .. MaxTier : a = unique[l][s] /\ b = unique[w][s]
    BY <2>1
  <2>3. unique' = [unique EXCEPT ![w][s] = a, ![l][s] = b]
    BY <1>1, <2>2
  <2>4. unique \in [Players -> [Slots -> 0 .. MaxTier]]
    BY DEF Item!TypeOK
  <2>5. a = 0 /\ b = 0
    BY <1>1, <2>2
  <2> QED BY <2>2, <2>3, <2>4, <2>5
<1>4. Item!TypeOK'
  BY <1>2, <1>3 DEF Item!TypeOK
<1>5. Item!UniquesAreWorn'
  BY <1>2, <1>3 DEF Item!UniquesAreWorn
<1>6. Item!FairSwap
  <2> SUFFICES ASSUME NEW r \in Slots, NEW p \in Players, NEW q \in Players, p # q,
                      items'[p][r] # items[p][r], items'[q][r] # items[q][r]
               PROVE  /\ items'[p][r] = items[q][r] /\ items'[q][r] = items[p][r]
                      /\ unique[p][r] = 0 /\ unique[q][r] = 0
    BY DEF Item!FairSwap
  <2>1. r = s /\ p \in {w, l} /\ q \in {w, l}
    BY <1>2
  <2>2. CASE p = w /\ q = l
    BY <1>1, <1>2, <2>1, <2>2
  <2>3. CASE p = l /\ q = w
    BY <1>1, <1>2, <2>1, <2>3
  <2> QED BY <2>1, <2>2, <2>3
<1> QED BY <1>4, <1>5, <1>6

LEMMA ItemsUntouched ==
    ASSUME Item!TypeOK, Item!UniquesAreWorn, UNCHANGED <<items, unique, reset, resets>>,
           place' \in [Players -> Item!Points], party' \subseteq Players,
           rested' \subseteq Players
    PROVE  Item!TypeOK' /\ Item!UniquesAreWorn' /\ Item!FairSwap
  BY DEF Item!TypeOK, Item!UniquesAreWorn, Item!FairSwap

LEMMA BattleStep ==
    ASSUME Item!GameItemsAssumption, Item!TypeOK, Item!UniquesAreWorn,
           NEW a \in Players, NEW d \in Players, a # d,
           Item!MaybeBattleItemDrop(a, d) \/ Item!MaybeBattleItemDrop(d, a),
           UNCHANGED <<party, place, reset, resets>>, rested' \subseteq Players
    PROVE  Item!TypeOK' /\ Item!UniquesAreWorn' /\ Item!FairSwap
<1>1. place' \in [Players -> Item!Points] /\ party' \subseteq Players
  BY DEF Item!TypeOK
<1>2. ASSUME NEW s \in Slots, Item!Swaps(a, d, s) \/ Item!Swaps(d, a, s)
      PROVE  Item!TypeOK' /\ Item!UniquesAreWorn' /\ Item!FairSwap
  BY <1>1, <1>2, SwapStep
<1>3. CASE UNCHANGED <<items, unique>>
  BY <1>1, <1>3, ItemsUntouched
<1> QED BY <1>2, <1>3 DEF Item!MaybeBattleItemDrop

LEMMA ItemsReset ==
    ASSUME Item!GameItemsAssumption, Item!TypeOK, Item!UniquesAreWorn,
           Item!NewSeason \/ \E p \in Players : Item!HandleAdminReset(p)
    PROVE  Item!TypeOK' /\ Item!UniquesAreWorn' /\ Item!FairSwap
<1>1. resets' = resets + 1 /\ resets \in Nat /\ resets' \in 0 .. MaxResets
  BY ItemLimits DEF Item!NewSeason, Item!HandleAdminReset, Item!TypeOK
<1>2. Item!FairSwap
  BY <1>1 DEF Item!FairSwap
<1>3. 0 \in 0 .. MaxLevel /\ 0 \in 0 .. MaxTier
  BY ItemLimits
<1>4. CASE Item!NewSeason
  <2>1. /\ items' = [p \in Players |-> [s \in Slots |-> 0]]
        /\ unique' = [p \in Players |-> [s \in Slots |-> 0]]
        /\ reset' = {} /\ rested' = Players /\ UNCHANGED <<party, place>>
    BY <1>4 DEF Item!NewSeason, Item!NewUniques
  <2> QED BY <1>1, <1>2, <1>3, <2>1 DEF Item!TypeOK, Item!UniquesAreWorn
<1>5. ASSUME NEW p \in Players, Item!HandleAdminReset(p)
      PROVE  Item!TypeOK' /\ Item!UniquesAreWorn' /\ Item!FairSwap
  <2>1. /\ reset' = reset \union {p} /\ items' = [items EXCEPT ![p] = [s \in Slots |-> 0]]
        /\ UNCHANGED <<unique, party, place, rested>>
    BY <1>5 DEF Item!HandleAdminReset
  <2>2. items' \in [Players -> [Slots -> 0 .. MaxLevel]]
    BY <1>3, <2>1 DEF Item!TypeOK
  <2>3. \A q \in Players \ {p} : items'[q] = items[q]
    BY <2>1 DEF Item!TypeOK
  <2> QED BY <1>1, <1>2, <2>1, <2>2, <2>3 DEF Item!TypeOK, Item!UniquesAreWorn
<1> QED BY <1>4, <1>5

LEMMA GrantedStep ==
    ASSUME Item!GameItemsAssumption, Item!TypeOK, Item!UniquesAreWorn,
           NEW p \in Players, NEW s \in Slots, NEW t \in 1 .. MaxTier, NEW level \in 1 .. MaxLevel,
           Item!GrantUnique(p, s, t, level)
    PROVE  Item!TypeOK' /\ Item!UniquesAreWorn' /\ Item!FairSwap
<1> DEFINE i == Item!FoundLevel(items[p][s], level, unique[p][s])
<1>1. /\ items' = [items EXCEPT ![p][s] = i] /\ unique' = [unique EXCEPT ![p][s] = t]
      /\ level >= Item!Low(t) /\ Item!Elsewhere
  <2>1. level \in Item!Low(t) .. Item!High(t) /\ t \in Nat /\ level \in Nat
    BY ItemLimits DEF Item!GrantUnique, Item!RollUniqueItem
  <2>2. level >= Item!Low(t)
    BY <2>1 DEF Item!Low, Item!High
  <2>3. items' = [items EXCEPT ![p][s] = Item!FoundLevel(items[p][s], level, unique[p][s])]
    BY DEF Item!GrantUnique, Item!TypeOK
  <2> QED BY <2>2, <2>3 DEF Item!GrantUnique
<1>2. items[p][s] \in 0 .. MaxLevel /\ items[p][s] \in Nat /\ level \in Nat /\ t \in Nat
  BY ItemTypes, ItemLimits
<1>3. i \in 0 .. MaxLevel /\ i >= level
  BY <1>2, ItemLimits DEF Item!FoundLevel
<1>4. t \in 0 .. MaxTier /\ i >= Item!Low(t)
  BY <1>1, <1>2, <1>3, ItemLimits DEF Item!Low
<1> HIDE DEF i
<1> QED BY <1>1, <1>3, <1>4, OneSlotStep

LEMMA SlotStep ==
    ASSUME Item!GameItemsAssumption, Item!TypeOK, Item!UniquesAreWorn,
           NEW p \in Players, NEW s \in Slots,
           \/ Item!RunItemBlessing(p, s) \/ Item!RunItemDamage(p, s)
           \/ \E gain \in 1 .. MaxLevel : Item!GrantLevelItem(p, s, gain)
    PROVE  Item!TypeOK' /\ Item!UniquesAreWorn' /\ Item!FairSwap
<1>1. /\ items[p][s] \in 0 .. MaxLevel /\ items[p][s] \in Nat /\ MaxLevel \in Nat
      /\ unique[p][s] \in 0 .. MaxTier /\ unique[p][s] \in Nat
      /\ 0 \in 0 .. MaxTier
  BY ItemTypes, ItemLimits
<1>2. [unique EXCEPT ![p][s] = unique[p][s]] = unique
  BY DEF Item!TypeOK
<1>3. CASE Item!RunItemBlessing(p, s)
  <2>1. items' = [items EXCEPT ![p][s] = items[p][s] + 1] /\ items[p][s] < MaxLevel
    BY <1>3 DEF Item!RunItemBlessing, Item!TypeOK
  <2>2. items[p][s] + 1 \in 0 .. MaxLevel /\ items[p][s] + 1 >= items[p][s]
    BY <1>1, <2>1
  <2>3. unique' = [unique EXCEPT ![p][s] = unique[p][s]] /\ Item!Elsewhere
    BY <1>2, <1>3 DEF Item!RunItemBlessing
  <2> QED BY <1>1, <2>1, <2>2, <2>3, OneSlotStep
<1>4. CASE Item!RunItemDamage(p, s)
  <2>1. /\ items' = [items EXCEPT ![p][s] = items[p][s] - 1] /\ items[p][s] > 0
        /\ unique[p][s] = 0 /\ Item!Elsewhere
        /\ unique' = unique \/ unique' = [unique EXCEPT ![p][s] = 0]
    BY <1>4 DEF Item!RunItemDamage, Item!TypeOK, Item!Open
  <2>2. unique' = [unique EXCEPT ![p][s] = 0]
    BY <1>2, <2>1
  <2>3. items[p][s] - 1 \in 0 .. MaxLevel
    BY <1>1, <2>1
  <2> QED BY <1>1, <2>1, <2>2, <2>3, OneSlotStep
<1>5. ASSUME NEW gain \in 1 .. MaxLevel, Item!GrantLevelItem(p, s, gain)
      PROVE  Item!TypeOK' /\ Item!UniquesAreWorn' /\ Item!FairSwap
  <2>1. /\ items' = [items EXCEPT ![p][s] = gain] /\ gain >= items[p][s]
        /\ unique' = [unique EXCEPT ![p][s] = unique[p][s]] /\ Item!Elsewhere
    BY <1>2, <1>5 DEF Item!GrantLevelItem
  <2>2. gain \in 0 .. MaxLevel
    BY <1>1
  <2> QED BY <1>1, <2>1, <2>2, OneSlotStep
<1> QED BY <1>3, <1>4, <1>5

LEMMA ItemStep ==
    ASSUME Item!GameItemsAssumption, Item!TypeOK, Item!UniquesAreWorn,
           [Item!Next]_(Item!vars)
    PROVE  Item!TypeOK' /\ Item!UniquesAreWorn' /\ [Item!FairSwap]_(Item!vars)
<1> DEFINE Goal == Item!TypeOK' /\ Item!UniquesAreWorn' /\ Item!FairSwap
<1>1. /\ place \in [Players -> Item!Points] /\ party \subseteq Players /\ rested \subseteq Players
  BY DEF Item!TypeOK
<1>2. CASE Item!Quest \/ UNCHANGED Item!vars
  <2>1. UNCHANGED <<items, unique, reset, resets, place, rested>> /\ party' \subseteq Players
    BY <1>1, <1>2 DEF Item!Quest, Item!vars
  <2> QED BY <1>1, <2>1, ItemsUntouched
<1>3. ASSUME NEW p \in Players, Item!MovePlayer(p) \/ Item!Rests(p) PROVE Goal
  <2>1. /\ UNCHANGED <<items, unique, reset, resets, party>>
        /\ place' \in [Players -> Item!Points] /\ rested' \subseteq Players
    BY <1>1, <1>3 DEF Item!MovePlayer, Item!Rests
  <2> QED BY <1>1, <2>1, ItemsUntouched
<1>4. CASE Item!NewSeason \/ \E p \in Players : Item!HandleAdminReset(p)
  BY <1>4, ItemsReset
<1>5. ASSUME NEW p \in Players, NEW s \in Slots,
             \/ Item!RunItemBlessing(p, s) \/ Item!RunItemDamage(p, s)
             \/ \E gain \in 1 .. MaxLevel : Item!GrantLevelItem(p, s, gain)
      PROVE  Goal
  BY <1>5, SlotStep
<1>6. ASSUME NEW p \in Players, NEW s \in Slots, NEW t \in 1 .. MaxTier,
             NEW level \in 1 .. MaxLevel, Item!GrantUnique(p, s, t, level)
      PROVE  Goal
  BY <1>6, GrantedStep
<1>7. ASSUME NEW w \in Players, NEW l \in Players,
             Item!RunDuelBetween(w, l) \/ Item!HandleDuel(w, l)
      PROVE  Goal
  <2>1. /\ w # l /\ (Item!MaybeBattleItemDrop(w, l) \/ Item!MaybeBattleItemDrop(l, w))
        /\ UNCHANGED <<party, place, reset, resets>> /\ rested' \subseteq Players
    BY <1>1, <1>7 DEF Item!RunDuelBetween, Item!HandleDuel, Item!Elsewhere
  <2> QED BY <2>1, BattleStep
<1>8. ASSUME NEW w \in Players, NEW l \in Players, NEW s \in Slots, Item!RunItemSwap(w, l, s)
      PROVE  Goal
  <2>1. /\ w # l /\ Item!Swaps(w, l, s)
        /\ UNCHANGED <<party, place, rested, reset, resets>>
    BY <1>8 DEF Item!RunItemSwap, Item!Elsewhere
  <2> QED BY <1>1, <2>1, SwapStep
<1> QED BY <1>2, <1>3, <1>4, <1>5, <1>6, <1>7, <1>8 DEF Item!Next

LEMMA ItemInit ==
    ASSUME Item!GameItemsAssumption, Item!Init
    PROVE  Item!TypeOK /\ Item!UniquesAreWorn
<1>1. 0 \in 0 .. MaxLevel /\ 0 \in 0 .. MaxTier /\ 0 \in 0 .. MaxResets
  BY ItemLimits
<1> QED BY <1>1 DEF Item!Init, Item!TypeOK, Item!UniquesAreWorn, Item!Points

(* Who has an artifact has it at a level of its tier, whatever blessings,   *)
(* calamities, duels and steals have done to the slot since; but for        *)
(* characters that an owner has reset (items.py, events.py).                *)
THEOREM UniquesAreAlwaysWorn ==
    ASSUME Item!GameItemsAssumption PROVE Item!Spec => []Item!UniquesAreWorn
<1>1. Item!Init => Item!TypeOK /\ Item!UniquesAreWorn
  BY ItemInit
<1>2. (Item!TypeOK /\ Item!UniquesAreWorn) /\ [Item!Next]_(Item!vars) =>
         (Item!TypeOK /\ Item!UniquesAreWorn)'
  BY ItemStep
<1> QED BY <1>1, <1>2, PTL DEF Item!Spec

(* What changes for two characters at once has changed hands: a swap loses  *)
(* nothing and takes no artifact; only a new season takes from everyone     *)
(* (swap_items_between, maybe_battle_item_drop).                            *)
THEOREM SwapsAreAlwaysFair ==
    ASSUME Item!GameItemsAssumption PROVE Item!Spec => Item!SwapsAreFair
<1>1. Item!Init => Item!TypeOK /\ Item!UniquesAreWorn
  BY ItemInit
<1>2. (Item!TypeOK /\ Item!UniquesAreWorn) /\ [Item!Next]_(Item!vars) =>
         (Item!TypeOK /\ Item!UniquesAreWorn)' /\ [Item!FairSwap]_(Item!vars)
  BY ItemStep
<1> QED BY <1>1, <1>2, PTL DEF Item!Spec, Item!SwapsAreFair

-----------------------------------------------------------------------------
(* Feeds.                                                                   *)

(* The parts of a record.                                                   *)
LEMMA RecordParts ==
    ASSUME NEW f \in Rss!Records
    PROVE  /\ f.last \in 0 .. MaxEntries /\ f.dests \subseteq Rss!Dests /\ f.dests # {}
           /\ f.muted \subseteq Rss!Dests /\ f.paused \in BOOLEAN
           /\ f.pending = None \/ (f.pending \in Rss!Pendings /\ f.pending.entry \in Rss!Entries
                                   /\ f.pending.done \subseteq Rss!Dests)
           /\ Rss!Active(f) \subseteq f.dests
<1>1. f.pending \in Rss!Pendings => f.pending.entry \in Rss!Entries /\ f.pending.done \subseteq Rss!Dests
  BY DEF Rss!Pendings
<1>2. Rss!Active(f) \subseteq f.dests
  BY DEF Rss!Active
<1> QED BY <1>1, <1>2 DEF Rss!Records

(* A record takes new parts.                                                *)
LEMMA RecordTakes ==
    ASSUME NEW f \in Rss!Records
    PROVE  /\ \A D \in (SUBSET Rss!Dests) \ {{}}, M \in SUBSET Rss!Dests :
                  [f EXCEPT !.dests = D, !.muted = M] \in Rss!Records
           /\ \A D \in (SUBSET Rss!Dests) \ {{}} : [f EXCEPT !.dests = D] \in Rss!Records
           /\ \A M \in SUBSET Rss!Dests : [f EXCEPT !.muted = M] \in Rss!Records
           /\ \A p \in Rss!Pendings \cup {None} : [f EXCEPT !.pending = p] \in Rss!Records
           /\ \A n \in 0 .. MaxEntries : [f EXCEPT !.last = n] \in Rss!Records
           /\ \A n \in 0 .. MaxEntries : [f EXCEPT !.last = n, !.pending = None] \in Rss!Records
           /\ [f EXCEPT !.paused = ~@] \in Rss!Records
  BY DEF Rss!Records

(* What the site's document lists.                                          *)
LEMMA ListedNewest ==
    ASSUME Rss!FeedsAssumption, published \in 0 .. MaxEntries
    PROVE  Rss!Newest(Rss!Listed) = published
<1>1. \A e \in Rss!Listed \cup {0} : e <= published
  BY DEF Rss!Listed, Rss!FeedsAssumption
<1>2. published \in Rss!Listed \cup {0}
  BY DEF Rss!Listed, Rss!Entries, Rss!FeedsAssumption
<1>3. Rss!Listed \cup {0} \subseteq Int
  BY DEF Rss!Listed, Rss!Entries
<1>4. PICK S : S = Rss!Listed \cup {0}
  OBVIOUS
<1>5. Rss!Max(S) \in S /\ \A y \in S : Rss!Max(S) >= y
  BY <1>1, <1>2, <1>3, <1>4 DEF Rss!Max
<1>6. Rss!Newest(Rss!Listed) = Rss!Max(S)
  BY <1>4 DEF Rss!Newest
<1>7. Rss!Max(S) \in Int /\ Rss!Max(S) <= published /\ Rss!Max(S) >= published
  BY <1>1, <1>2, <1>3, <1>4, <1>5
<1> QED BY <1>6, <1>7

(* The entries of a poll.                                                   *)
LEMMA ChosenEntries ==
    ASSUME Rss!FeedsAssumption, published \in 0 .. MaxEntries, NEW known \in 0 .. published
    PROVE  /\ Rss!Before(known) \in Nat /\ Rss!Before(known) >= known
           /\ Rss!Chosen(known) \in Seq(Rss!Entries)
           /\ Len(Rss!Chosen(known)) = published - Rss!Before(known)
           /\ \A i \in 1 .. Len(Rss!Chosen(known)) :
                  Rss!Chosen(known)[i] = Rss!Before(known) + i /\ Rss!Chosen(known)[i] <= published
                  /\ Rss!Chosen(known)[i] > known
<1>1. PICK S : S = {known, published - Window, published - MaxPerPoll}
  OBVIOUS
<1>2. known \in Int /\ published - Window \in Int /\ published - MaxPerPoll \in Int
  BY DEF Rss!FeedsAssumption
<1>3. Rss!Max(S) \in S /\ \A y \in S : Rss!Max(S) >= y
  <2>1. PICK a \in Int, b \in Int, c \in Int : S = {a, b, c}
    BY <1>1, <1>2
  <2>2. \E x \in S : \A y \in S : x >= y
    <3>1. CASE a >= b /\ a >= c
      BY <2>1, <3>1
    <3>2. CASE b >= a /\ b >= c
      BY <2>1, <3>2
    <3>3. CASE c >= a /\ c >= b
      BY <2>1, <3>3
    <3> QED BY <3>1, <3>2, <3>3
  <2> QED BY <2>2 DEF Rss!Max
<1>4. Rss!Before(known) \in Nat /\ Rss!Before(known) >= known /\ Rss!Before(known) <= published
  <2>1. Rss!Before(known) = Rss!Max(S)
    BY <1>1 DEF Rss!Before
  <2>2. Rss!Max(S) \in Int /\ Rss!Max(S) >= known /\ Rss!Max(S) <= published
    BY <1>1, <1>2, <1>3 DEF Rss!FeedsAssumption
  <2> QED BY <2>1, <2>2
<1>5. PICK n \in Nat, b \in Nat : b = Rss!Before(known) /\ n = published - b
  BY <1>4
<1>6. Rss!Chosen(known) = [i \in 1 .. n |-> b + i]
  BY <1>5 DEF Rss!Chosen
<1>7. \A i \in 1 .. n : b + i \in Rss!Entries
  BY <1>4, <1>5 DEF Rss!Entries, Rss!FeedsAssumption
<1>8. Rss!Chosen(known) \in Seq(Rss!Entries) /\ Len(Rss!Chosen(known)) = n
  BY <1>6, <1>7
<1> QED BY <1>4, <1>5, <1>6, <1>8

LEMMA WorkerTakes ==
    ASSUME Rss!FeedsAssumption, NEW w \in Rss!Workers
    PROVE  /\ Rss!Off \in Rss!Workers /\ Rss!Asleep \in Rss!Workers
           /\ Rss!Off.at = "off" /\ Rss!Asleep.at = "asleep"
           /\ \A n \in 0 .. MaxEntries : [Rss!Asleep EXCEPT !.at = "fetching",
                  !.last = n] \in Rss!Workers
           /\ \A q \in Seq(Rss!Entries) : [w EXCEPT !.at = "next", !.queue = q] \in Rss!Workers
           /\ \A d \in Rss!Dests, T \in SUBSET Rss!Dests :
                  [w EXCEPT !.at = "sending", !.to = d, !.todo = T] \in Rss!Workers
           /\ \A T \in SUBSET Rss!Dests, a \in {"rooms", "users"} :
                  [w EXCEPT !.at = a, !.todo = T] \in Rss!Workers
           /\ \A T \in SUBSET Rss!Dests : [w EXCEPT !.todo = T, !.failed = TRUE] \in Rss!Workers
           /\ \A a \in {"rooms", "users"} : [w EXCEPT !.at = a, !.to = None] \in Rss!Workers
<1>1. Rss!Off \in Rss!Workers /\ Rss!Asleep \in Rss!Workers /\ Rss!Off.at = "off" /\ Rss!Asleep.at = "asleep"
  <2>1. 0 \in 0 .. MaxEntries
    BY DEF Rss!FeedsAssumption
  <2>2. <<>> \in Seq(Rss!Entries)
    OBVIOUS
  <2> QED BY <2>1, <2>2 DEF Rss!Off, Rss!Asleep, Rss!Workers
<1>2. Rss!Asleep \in [at : {"off", "asleep", "fetching", "next", "rooms", "users", "sending"},
            last : 0 .. MaxEntries, queue : Seq(Rss!Entries), todo : SUBSET Rss!Dests,
            failed : BOOLEAN, to : Rss!Dests \cup {None}]
  BY <1>1 DEF Rss!Workers
<1>3. \A n \in 0 .. MaxEntries : [Rss!Asleep EXCEPT !.at = "fetching",
          !.last = n] \in Rss!Workers
  BY <1>2 DEF Rss!Workers
<1> QED BY <1>1, <1>3 DEF Rss!Workers

(* A stored record, and what was sent.                                      *)
LEMMA RecordStored ==
    ASSUME Rss!FeedsAssumption, Rss!TypeOK, NEW new \in Rss!Records \cup {None}, Rss!Store(new)
    PROVE  /\ feed' = new /\ since' \in [Rss!Dests -> 0 .. MaxEntries]
           /\ \A d \in Rss!Dests : since'[d] = IF d \in Rss!Active(new) \ Rss!Active(feed) THEN published
                                           ELSE since[d]
  BY DEF Rss!Store, Rss!TypeOK

LEMMA FeedCancelled ==
    ASSUME Rss!FeedsAssumption, Rss!TypeOK, Rss!WorkInv, NEW next \in {Rss!Off, Rss!Asleep},
           Rss!Cancel(next)
    PROVE  /\ worker' \in Rss!Workers /\ cut' \subseteq Rss!Dests \X Rss!Entries /\ cut \subseteq cut'
           /\ worker'.at \in {"off", "asleep"}
           /\ worker.at = "sending" => <<worker.to, Head(worker.queue)>> \in cut'
<1>1. worker' \in Rss!Workers /\ worker'.at \in {"off", "asleep"}
  BY WorkerTakes DEF Rss!TypeOK, Rss!Cancel
<1>2. worker.at = "sending" => worker.to \in Rss!Dests /\ Head(worker.queue) \in Rss!Entries
  <2>1. worker.queue \in Seq(Rss!Entries)
    BY DEF Rss!TypeOK, Rss!Workers
  <2> QED BY <2>1 DEF Rss!WorkInv, Rss!Busy
<1>3. /\ cut' \subseteq Rss!Dests \X Rss!Entries /\ cut \subseteq cut'
      /\ worker.at = "sending" => <<worker.to, Head(worker.queue)>> \in cut'
  BY <1>2 DEF Rss!Cancel, Rss!TypeOK
<1> QED BY <1>1, <1>3

LEMMA FeedEnsured ==
    ASSUME Rss!FeedsAssumption, Rss!TypeOK, Rss!Ensure
    PROVE  worker' \in Rss!Workers /\ (worker' = worker \/ worker'.at = "asleep")
  BY WorkerTakes DEF Rss!TypeOK, Rss!Ensure

LEMMA ShownCopies ==
    ASSUME Rss!TypeOK, NEW d \in Rss!Dests, NEW S, Rss!Shown(d, S)
    PROVE  /\ copies' \in [Rss!Dests -> [Rss!Entries -> Nat]]
           /\ \A c \in Rss!Dests, e \in Rss!Entries :
                  copies'[c][e] = IF c = d /\ e \in S THEN copies[c][e] + 1 ELSE copies[c][e]
<1>1. copies \in [Rss!Dests -> [Rss!Entries -> Nat]]
  BY DEF Rss!TypeOK
<1>2. PICK g : g = [e \in Rss!Entries |-> IF e \in S THEN copies[d][e] + 1 ELSE copies[d][e]]
  OBVIOUS
<1>3. g \in [Rss!Entries -> Nat]
  BY <1>1, <1>2
<1>4. copies' = [copies EXCEPT ![d] = g]
  BY <1>1, <1>2 DEF Rss!Shown
<1> QED BY <1>1, <1>2, <1>3, <1>4

LEMMA UnseenCopies ==
    ASSUME Rss!TypeOK, NEW d \in Rss!Dests
    PROVE  /\ Rss!Unseen(d) \in [Rss!Dests -> [Rss!Entries -> Nat]]
           /\ \A c \in Rss!Dests,
                  e \in Rss!Entries : Rss!Unseen(d)[c][e] = IF c = d THEN 0 ELSE copies[c][e]
<1>1. copies \in [Rss!Dests -> [Rss!Entries -> Nat]]
  BY DEF Rss!TypeOK
<1>2. PICK g : g = [e \in Rss!Entries |-> 0]
  OBVIOUS
<1>3. g \in [Rss!Entries -> Nat] /\ Rss!Unseen(d) = [copies EXCEPT ![d] = g]
  BY <1>2 DEF Rss!Unseen
<1> QED BY <1>1, <1>2, <1>3

(* Those who lose the feed, and what becomes of it.                         *)
LEMMA FeedRemoved ==
    ASSUME Rss!FeedsAssumption, Rss!TypeOK, feed # None, NEW gone \in SUBSET Rss!Dests,
           Rss!Removed(gone)
    PROVE  /\ feed' \in Rss!Records \cup {None} /\ since' = since /\ wanted' = wanted \ gone
           /\ overlapped' = (overlapped \/ \E d \in gone : bursting[d] # None)
           /\ feed' = None <=> feed.dests \ gone = {}
           /\ feed' # None => /\ feed'.dests = feed.dests \ gone
                              /\ feed'.last = feed.last /\ feed'.pending = feed.pending
                              /\ Rss!Active(feed') \subseteq Rss!Active(feed)
<1>1. feed \in Rss!Records
  BY DEF Rss!TypeOK
<1>2. PICK rest : rest = feed.dests \ gone
  OBVIOUS
<1>3. rest \subseteq Rss!Dests
  BY <1>1, <1>2, RecordParts
<1>4. PICK M : M = feed.muted \ (gone \cap Users)
  OBVIOUS
<1>5. M \subseteq Rss!Dests
  BY <1>1, <1>4, RecordParts
<1>6. PICK new : new = IF rest = {} THEN None ELSE [feed EXCEPT !.dests = rest, !.muted = M]
  OBVIOUS
<1>7. new \in Rss!Records \cup {None}
  BY <1>1, <1>3, <1>5, <1>6, RecordTakes
<1>8. Rss!Store(new)
  BY <1>2, <1>4, <1>6 DEF Rss!Removed
<1>9. feed' = new
  BY <1>7, <1>8, RecordStored
<1>10. new = None <=> rest = {}
  <2>1. rest # {} => [feed EXCEPT !.dests = rest, !.muted = M] \in Rss!Records
    BY <1>1, <1>3, <1>5, RecordTakes
  <2>2. None \notin Rss!Records
    BY DEF Rss!FeedsAssumption
  <2> QED BY <1>6, <2>1, <2>2
<1>11. ASSUME rest # {}
       PROVE  /\ new.dests = rest /\ new.last = feed.last /\ new.pending = feed.pending
              /\ new.muted = M /\ new.paused = feed.paused
  BY <1>1, <1>6, <1>11 DEF Rss!Records
<1>12. Rss!Active(new) \subseteq Rss!Active(feed)
  BY <1>2, <1>4, <1>10, <1>11 DEF Rss!Active
<1>13. since' = since
  <2>1. \A d \in Rss!Dests : since'[d] = since[d]
    BY <1>7, <1>8, <1>12, RecordStored
  <2> QED BY <1>7, <1>8, <2>1, RecordStored DEF Rss!TypeOK
<1> QED BY <1>2, <1>7, <1>9, <1>10, <1>11, <1>12, <1>13 DEF Rss!Removed

(* Steps that touch neither the record nor the worker, and the flush.       *)
LEMMA OutsideSteps ==
    ASSUME Rss!FeedsAssumption, Rss!TypeOK, Rss!WorkInv,
           \/ Rss!Publish
           \/ \E r \in Rooms : Rss!LeaveOrJoin(r)
           \/ \E d \in Rss!Dests : \/ (Rss!AddStarts(d) /\ feed = None)
                               \/ Rss!AddFails(d) \/ Rss!BurstEnds(d) \/ Rss!BurstFails(d)
           \/ Rss!Flush \/ UNCHANGED Rss!vars
    PROVE  /\ Rss!TypeOK' /\ Rss!WorkInv'
           /\ UNCHANGED <<feed, worker, since, skipped, cut, crashed, overlapped, wanted>>
           /\ published' >= published
           /\ disk' \in {feed, disk}
           /\ \A d \in Rss!Dests, e \in Rss!Entries : copies'[d][e] >= copies[d][e]
           /\ \A d \in Rss!Dests : bursting'[d] \in {bursting[d], None}
           /\ (\E d \in Rss!Dests : Rss!BurstEnds(d)) \/ copies' = copies
<1>1. CASE Rss!Publish
  <2>1. /\ UNCHANGED <<joined, feed, disk, worker, adding, bursting, copies, since, skipped,
                       cut,
                       crashed, overlapped, wanted>>
        /\ published' = published + 1 /\ published < MaxEntries
    BY <1>1 DEF Rss!Publish, Rss!ghosts
  <2>2. published' \in 0 .. MaxEntries /\ published \in 0 .. MaxEntries
    BY <2>1 DEF Rss!TypeOK, Rss!FeedsAssumption
  <2>3. Rss!TypeOK'
    BY <2>1, <2>2 DEF Rss!TypeOK
  <2>4. \A w : w \in Rss!Workers => w.last \in Int /\ \A e \in Rss!Items(w.queue) : e \in Int
    BY DEF Rss!Workers, Rss!Items, Rss!Entries, Rss!FeedsAssumption
  <2>5. \A f \in Rss!Records : f.last \in Int /\ (f.pending # None => f.pending.entry \in Int)
    BY RecordParts DEF Rss!Entries, Rss!FeedsAssumption
  <2>6. worker \in Rss!Workers /\ \A f \in {feed, disk} \ {None} : f \in Rss!Records
    BY DEF Rss!TypeOK
  <2>7. worker'.last <= published' /\ \A e \in Rss!Items(worker'.queue) : e <= published'
    <3>1. worker.last <= published /\ \A e \in Rss!Items(worker.queue) : e <= published
      BY DEF Rss!WorkInv
    <3>2. worker.last \in Int /\ \A e \in Rss!Items(worker.queue) : e \in Int
      BY <2>4, <2>6
    <3>3. worker'.last = worker.last /\ Rss!Items(worker'.queue) = Rss!Items(worker.queue)
      BY <2>1
    <3>4. published \in Int /\ published' = published + 1
      BY <2>1, <2>2
    <3> QED BY <3>1, <3>2, <3>3, <3>4
  <2>8. \A f \in {feed, disk} \ {None} :
            f.last <= published' /\ (f.pending # None => f.pending.entry <= published')
    BY <2>1, <2>2, <2>5, <2>6 DEF Rss!WorkInv
  <2>9. Rss!WorkInv'
    BY <2>1, <2>7, <2>8 DEF Rss!WorkInv, Rss!Busy
  <2>10. \A d \in Rss!Dests, e \in Rss!Entries : copies'[d][e] >= copies[d][e]
    BY <2>1 DEF Rss!TypeOK
  <2> QED BY <2>1, <2>2, <2>3, <2>9, <2>10
<1>2. CASE \E r \in Rooms : Rss!LeaveOrJoin(r)
  <2>1. /\ UNCHANGED <<published, feed, disk, worker, adding, bursting, copies, since, skipped,
                       cut,
                       crashed, overlapped, wanted>>
        /\ joined' \subseteq Rooms
    BY <1>2 DEF Rss!LeaveOrJoin, Rss!ghosts, Rss!TypeOK
  <2>2. Rss!TypeOK' /\ Rss!WorkInv'
    BY <2>1 DEF Rss!TypeOK, Rss!WorkInv, Rss!Busy
  <2>3. published' >= published /\ \A d \in Rss!Dests,
            e \in Rss!Entries : copies'[d][e] >= copies[d][e]
    BY <2>1 DEF Rss!TypeOK
  <2> QED BY <2>1, <2>2, <2>3
<1>3. ASSUME NEW d \in Rss!Dests, (Rss!AddStarts(d) /\ feed = None) \/ Rss!AddFails(d)
      PROVE UNCHANGED <<published,
             feed, disk, worker, bursting, copies, since, skipped, cut, crashed, overlapped,
                 wanted,
             joined>> /\ adding' \subseteq Rss!Dests /\ (feed = None \/ adding' \subseteq adding)
  <2>1. CASE Rss!AddStarts(d) /\ feed = None
    BY <2>1 DEF Rss!AddStarts, Rss!Command, Rss!site, Rss!TypeOK
  <2>2. CASE Rss!AddFails(d)
    BY <2>2 DEF Rss!AddFails, Rss!site, Rss!ghosts, Rss!TypeOK
  <2> QED BY <1>3, <2>1, <2>2
<1>4. CASE \E d \in Rss!Dests : (Rss!AddStarts(d) /\ feed = None) \/ Rss!AddFails(d)
  <2>1. UNCHANGED <<published,
             feed, disk, worker, bursting, copies, since, skipped, cut, crashed, overlapped,
                 wanted,
             joined>> /\ adding' \subseteq Rss!Dests /\ (feed = None \/ adding' \subseteq adding)
    BY <1>3, <1>4
  <2>2. Rss!TypeOK'
    BY <2>1 DEF Rss!TypeOK
  <2>3. Rss!WorkInv'
    BY <2>1 DEF Rss!WorkInv, Rss!Busy
  <2>4. published' >= published /\ \A d \in Rss!Dests,
            e \in Rss!Entries : copies'[d][e] >= copies[d][e]
    BY <2>1 DEF Rss!TypeOK
  <2> QED BY <2>1, <2>2, <2>3, <2>4
<1>5. CASE \E d \in Rss!Dests : Rss!BurstEnds(d) \/ Rss!BurstFails(d)
  <2>1. PICK d \in Rss!Dests : Rss!BurstEnds(d) \/ Rss!BurstFails(d)
    BY <1>5
  <2>2. /\ UNCHANGED <<published, joined, feed, disk, worker, adding, since, skipped, cut,
                       crashed,
                       overlapped, wanted>>
        /\ bursting' = [bursting EXCEPT ![d] = None]
    BY <2>1 DEF Rss!BurstEnds, Rss!BurstFails, Rss!site, Rss!ghosts
  <2>3. /\ copies' \in [Rss!Dests -> [Rss!Entries -> Nat]]
        /\ \A c \in Rss!Dests, e \in Rss!Entries : copies'[c][e] >= copies[c][e]
        /\ Rss!BurstEnds(d) \/ copies' = copies
    <3>1. CASE Rss!BurstEnds(d)
      <4>1. PICK S : Rss!Shown(d, S)
        BY <3>1 DEF Rss!BurstEnds
      <4>2. \A c \in Rss!Dests, e \in Rss!Entries : copies[c][e] \in Nat
        BY DEF Rss!TypeOK
      <4> QED BY <3>1, <4>1, <4>2, ShownCopies
    <3>2. CASE Rss!BurstFails(d)
      BY <3>2 DEF Rss!BurstFails, Rss!ghosts, Rss!TypeOK
    <3> QED BY <2>1, <3>1, <3>2
  <2>4. bursting' \in [Rss!Dests -> (0 .. MaxEntries) \cup {None}]
        /\ \A c \in Rss!Dests : bursting'[c] \in {bursting[c], None}
    BY <2>2 DEF Rss!TypeOK
  <2>5. Rss!TypeOK'
    BY <2>2, <2>3, <2>4 DEF Rss!TypeOK
  <2>6. Rss!WorkInv'
    BY <2>2 DEF Rss!WorkInv, Rss!Busy
  <2>7. published' >= published
    BY <2>2 DEF Rss!TypeOK
  <2> QED BY <2>1, <2>2, <2>3, <2>4, <2>5, <2>6, <2>7
<1>6. CASE Rss!Flush \/ UNCHANGED Rss!vars
  <2>1. UNCHANGED <<published, joined, feed, worker, adding, bursting, copies, since, skipped,
                    cut,
                    crashed, overlapped, wanted>> /\ disk' \in {feed, disk}
    BY <1>6 DEF Rss!Flush, Rss!vars, Rss!site, Rss!ghosts
  <2>2. Rss!TypeOK'
    BY <2>1 DEF Rss!TypeOK
  <2>3. Rss!WorkInv'
    BY <2>1 DEF Rss!WorkInv, Rss!Busy
  <2>4. published' >= published /\ \A d \in Rss!Dests,
            e \in Rss!Entries : copies'[d][e] >= copies[d][e]
    BY <2>1 DEF Rss!TypeOK
  <2> QED BY <2>1, <2>2, <2>3, <2>4
<1> QED BY <1>1, <1>2, <1>4, <1>5, <1>6

(* A step that leaves the worker where it is, or without work.              *)
LEMMA WorkHeld ==
    ASSUME Rss!FeedsAssumption, Rss!TypeOK, Rss!WorkInv, published' = published,
           disk' \in {feed, disk},
           worker' \in Rss!Workers, feed' \in Rss!Records \cup {None},
           \/ worker' = worker /\ (worker.at \in {"off", "asleep"} \/ feed' # None)
           \/ worker'.at \in {"off", "asleep"}
              /\ worker'.last = 0 /\ worker'.queue = <<>>,
           feed' # None => /\ feed'.last <= published /\ adding' \cap feed'.dests = {}
                           /\ \/ feed'.pending = None
                              \/ \E f \in {feed, disk} \ {None} : feed'.pending = f.pending,
           worker'.at \in {"off", "asleep"} \/ feed'.pending = None \/
               feed'.pending = feed.pending
    PROVE  Rss!WorkInv'
<1>1. \A f \in {feed, disk} \ {None} :
          f.last <= published /\ (f.pending # None => f.pending.entry <= published)
  BY DEF Rss!WorkInv
<1>2. \A f \in {feed', disk'} \ {None} :
          f.last <= published /\ (f.pending # None => f.pending.entry <= published)
  BY <1>1
<1>3. /\ worker'.at \in {"fetching", "next", "rooms", "users", "sending"} => feed' # None
      /\ Rss!Busy' => worker'.queue # <<>>
      /\ worker'.at = "sending" => worker'.to \in Rss!Dests
  BY DEF Rss!WorkInv, Rss!Busy
<1>4. worker'.last <= published /\ \A e \in Rss!Items(worker'.queue) : e <= published
  <2>1. CASE worker' = worker
    BY <2>1 DEF Rss!WorkInv
  <2>2. CASE worker'.last = 0 /\ worker'.queue = <<>>
    BY <2>2 DEF Rss!Items, Rss!TypeOK
  <2> QED BY <2>1, <2>2
<1>5. worker'.at \in {"rooms", "users", "sending"} /\ feed'.pending # None =>
          feed'.pending.entry = Head(worker'.queue)
  <2> SUFFICES ASSUME worker'.at \in {"rooms", "users", "sending"}, feed'.pending # None
               PROVE  feed'.pending.entry = Head(worker'.queue)
    OBVIOUS
  <2>1. worker' = worker /\ feed'.pending = feed.pending
    OBVIOUS
  <2> QED BY <2>1 DEF Rss!WorkInv
<1> QED BY <1>2, <1>3, <1>4, <1>5 DEF Rss!WorkInv

LEMMA CancelWork ==
    ASSUME Rss!FeedsAssumption, Rss!TypeOK, Rss!WorkInv, NEW next \in {Rss!Off, Rss!Asleep},
           Rss!Cancel(next)
    PROVE  worker'.last = 0 /\ worker'.queue = <<>>
  BY DEF Rss!Cancel, Rss!Off, Rss!Asleep

LEMMA EnsureWork ==
    ASSUME Rss!FeedsAssumption, Rss!TypeOK, Rss!WorkInv, Rss!Ensure
    PROVE  \/ worker' = worker
           \/ worker.at = "off" /\ worker'.at = "asleep" /\ worker'.last = 0 /\ worker'.queue = <<>>
  BY DEF Rss!Ensure, Rss!Off, Rss!Asleep

(* A new subscriber of a known feed.                                        *)
LEMMA KnownAdd ==
    ASSUME Rss!FeedsAssumption, Rss!TypeOK, Rss!WorkInv, NEW d \in Rss!Dests, Rss!AddStarts(d),
           feed # None
    PROVE  /\ Rss!TypeOK' /\ Rss!WorkInv'
           /\ UNCHANGED <<published, disk, skipped, cut, crashed>>
           /\ feed' # None /\ d \notin feed.dests /\ feed'.dests = feed.dests \cup {d}
           /\ feed'.last = feed.last /\ feed'.pending = feed.pending
           /\ Rss!Active(feed') \subseteq Rss!Active(feed) \cup {d}
           /\ \A c \in Rss!Dests : since'[c] = IF c \in Rss!Active(feed') \ Rss!Active(feed) THEN published
                                           ELSE since[c]
           /\ copies' = Rss!Unseen(d) /\ wanted' = wanted \cup {d}
           /\ worker' = worker \/ (worker.at = "off" /\ worker'.at = "asleep")
           /\ overlapped' = (overlapped \/ bursting[d] # None)
           /\ \A c \in Rss!Dests : bursting'[c] = bursting[c] \/ (c = d /\ bursting'[c] = feed.last)
<1>1. feed \in Rss!Records /\ feed.dests \subseteq Rss!Dests /\ feed.last \in 0 .. MaxEntries
  BY RecordParts DEF Rss!TypeOK
<1>2. PICK D : D = feed.dests \cup {d}
  OBVIOUS
<1>3. D \in (SUBSET Rss!Dests) \ {{}}
  BY <1>1, <1>2
<1>4. PICK new : new = [feed EXCEPT !.dests = D]
  OBVIOUS
<1>5. new \in Rss!Records /\ new.dests = D /\ new.last = feed.last /\ new.pending = feed.pending
      /\ new.muted = feed.muted /\ new.paused = feed.paused /\ new # None
  <2>1. new \in Rss!Records
    BY <1>1, <1>3, <1>4, RecordTakes
  <2>2. /\ new.dests = D /\ new.last = feed.last /\ new.pending = feed.pending
        /\ new.muted = feed.muted /\ new.paused = feed.paused
    BY <1>1, <1>4 DEF Rss!Records
  <2> QED BY <2>1, <2>2 DEF Rss!FeedsAssumption
<1>6. /\ Rss!Store(new) /\ Rss!Ensure /\ d \notin feed.dests /\ d \notin adding
      /\ UNCHANGED <<published, joined, disk, skipped, cut, crashed, adding>>
      /\ wanted' = wanted \cup {d} /\ copies' = Rss!Unseen(d)
      /\ overlapped' = (overlapped \/ bursting[d] # None)
      /\ bursting' = IF d \in Rooms /\ feed.last > 0 THEN [bursting EXCEPT ![d] = feed.last]
                     ELSE bursting
  BY <1>2, <1>4 DEF Rss!AddStarts, Rss!Command, Rss!site
<1>7. Rss!Active(new) \subseteq Rss!Active(feed) \cup {d}
  BY <1>2, <1>5 DEF Rss!Active
<1>8. /\ feed' = new /\ since' \in [Rss!Dests -> 0 .. MaxEntries]
      /\ \A c \in Rss!Dests : since'[c] = IF c \in Rss!Active(new) \ Rss!Active(feed) THEN published ELSE since[c]
  BY <1>5, <1>6, RecordStored
<1>9. /\ bursting' \in [Rss!Dests -> (0 .. MaxEntries) \cup {None}]
      /\ \A c \in Rss!Dests : bursting'[c] = bursting[c] \/ (c = d /\ bursting'[c] = feed.last)
  BY <1>1, <1>6 DEF Rss!TypeOK
<1>10. worker' \in Rss!Workers /\ (worker' = worker \/ worker'.at = "asleep")
  BY <1>6, FeedEnsured
<1>11. Rss!TypeOK'
  <2>1. copies' \in [Rss!Dests -> [Rss!Entries -> Nat]]
    BY <1>6, UnseenCopies
  <2>2. feed' \in Rss!Records /\ disk' \in Rss!Records \cup {None}
    BY <1>5, <1>6, <1>8 DEF Rss!TypeOK
  <2>3. overlapped' \in BOOLEAN /\ crashed' \in BOOLEAN
    BY <1>6 DEF Rss!TypeOK
  <2> QED BY <1>6, <1>8, <1>9, <1>10, <2>1, <2>2, <2>3 DEF Rss!TypeOK
<1>12. Rss!WorkInv'
  <2>1. feed' # None /\ feed' \in Rss!Records /\ feed'.last <= published
        /\ feed'.pending = feed.pending /\ adding' \cap feed'.dests = {}
    BY <1>1, <1>2, <1>5, <1>6, <1>8 DEF Rss!WorkInv
  <2>2. \/ worker' = worker
        \/ worker.at = "off" /\ worker'.at = "asleep" /\ worker'.last = 0 /\ worker'.queue = <<>>
    BY <1>6, EnsureWork
  <2>3. \E f \in {feed, disk} \ {None} : feed'.pending = f.pending
    BY <2>1
  <2> QED BY <1>6, <1>10, <2>1, <2>2, <2>3, WorkHeld
<1>13. worker' = worker \/ (worker.at = "off" /\ worker'.at = "asleep")
  BY <1>6, EnsureWork
<1> QED BY <1>2, <1>5, <1>6, <1>7, <1>8, <1>9, <1>11, <1>12, <1>13

(* The first subscriber of a feed, once it was fetched.                     *)
LEMMA FirstAdd ==
    ASSUME Rss!FeedsAssumption, Rss!TypeOK, Rss!WorkInv, NEW d \in Rss!Dests, Rss!AddEnds(d)
    PROVE  /\ Rss!TypeOK' /\ Rss!WorkInv'
           /\ UNCHANGED <<published, disk, skipped, cut, crashed, bursting>>
           /\ feed' # None /\ feed'.dests = {d} /\ feed'.last = published /\ feed'.pending = None
           /\ Rss!Active(feed') = {d} /\ d \notin Rss!Active(feed) /\ since'[d] = published
           /\ \A c \in Rss!Dests \ {d}, e \in Rss!Entries : copies'[c][e] = copies[c][e]
           /\ \A e \in Rss!Entries : copies'[d][e] = 0 \/ (copies'[d][e] = 1 /\ e <= published)
           /\ worker' = worker \/ worker'.at = "asleep"
           /\ wanted' = wanted \cup {d} /\ overlapped' = (overlapped \/ feed # None)
<1>1. /\ Rss!Store(Rss!Fresh(d)) /\ Rss!Ensure /\ d \in adding /\ adding' = adding \ {d}
      /\ UNCHANGED <<published, joined, disk, bursting, skipped, cut, crashed>>
      /\ wanted' = wanted \cup {d} /\ overlapped' = (overlapped \/ feed # None)
  BY DEF Rss!AddEnds, Rss!site
<1>2. Rss!Newest(Rss!Listed) = published /\ published \in 0 .. MaxEntries
  BY ListedNewest DEF Rss!TypeOK
<1>3. PICK new : new = Rss!Fresh(d)
  OBVIOUS
<1>4. /\ new \in Rss!Records /\ new.last = published /\ new.dests = {d} /\ new.pending = None
      /\ Rss!Active(new) = {d} /\ new # None
  <2>1. new = [last |-> published, dests |-> {d}, muted |-> {}, paused |-> FALSE,
            pending |-> None]
    BY <1>2, <1>3 DEF Rss!Fresh
  <2>2. {d} \in (SUBSET Rss!Dests) \ {{}} /\ {} \in SUBSET Rss!Dests
    OBVIOUS
  <2>3. new \in Rss!Records
    BY <1>2, <2>1, <2>2 DEF Rss!Records
  <2>4. new # None
    BY <2>3 DEF Rss!FeedsAssumption
  <2>5. Rss!Active(new) = {d}
    BY <2>1, <2>4 DEF Rss!Active
  <2> QED BY <2>1, <2>3, <2>4, <2>5
<1>5. d \notin Rss!Active(feed)
  <2>1. feed # None => d \notin feed.dests
    BY <1>1 DEF Rss!WorkInv
  <2> QED BY <2>1 DEF Rss!Active
<1>6. /\ feed' = new /\ since' \in [Rss!Dests -> 0 .. MaxEntries] /\ since'[d] = published
  BY <1>1, <1>3, <1>4, <1>5, RecordStored
<1>7. /\ copies' \in [Rss!Dests -> [Rss!Entries -> Nat]]
      /\ \A c \in Rss!Dests \ {d}, e \in Rss!Entries : copies'[c][e] = copies[c][e]
      /\ \A e \in Rss!Entries : copies'[d][e] = 0 \/ (copies'[d][e] = 1 /\ e <= published)
  <2>1. PICK g : g = [e \in Rss!Entries |-> IF d \in Rooms /\ e \in Rss!History(published) THEN 1 ELSE 0]
    OBVIOUS
  <2>2. copies' = [copies EXCEPT ![d] = g]
    BY <2>1 DEF Rss!AddEnds
  <2>3. g \in [Rss!Entries -> Nat] /\ \A e \in Rss!Entries : g[e] = 0 \/ (g[e] = 1 /\ e \in Rss!History(published))
    BY <2>1
  <2>4. \A e \in Rss!History(published) : e <= published
    BY DEF Rss!History
  <2> QED BY <2>2, <2>3, <2>4 DEF Rss!TypeOK
<1>8. worker' \in Rss!Workers /\ (worker' = worker \/ worker'.at = "asleep")
  BY <1>1, FeedEnsured
<1>9. Rss!TypeOK'
  <2>1. feed' \in Rss!Records /\ overlapped' \in BOOLEAN
    BY <1>1, <1>4, <1>6 DEF Rss!TypeOK
  <2> QED BY <1>1, <1>6, <1>7, <1>8, <2>1 DEF Rss!TypeOK
<1>10. Rss!WorkInv'
  <2>1. \/ worker' = worker
        \/ worker.at = "off" /\ worker'.at = "asleep" /\ worker'.last = 0 /\ worker'.queue = <<>>
    BY <1>1, EnsureWork
  <2>2. feed' # None /\ feed' \in Rss!Records /\ feed'.last <= published /\ feed'.pending = None
        /\ adding' \cap feed'.dests = {}
    BY <1>1, <1>2, <1>4, <1>6
  <2> QED BY <1>1, <1>8, <2>1, <2>2, WorkHeld
<1> QED BY <1>1, <1>4, <1>5, <1>6, <1>7, <1>8, <1>9, <1>10

(* Subscriptions end.                                                       *)
LEMMA Removal ==
    ASSUME Rss!FeedsAssumption, Rss!TypeOK, Rss!WorkInv,
           \/ \E d \in Rss!Dests \cup {None} : Rss!Unsubscribe(d)
           \/ \E r \in Rooms : Rss!CleanupRoomState(r)
    PROVE  /\ Rss!TypeOK' /\ Rss!WorkInv'
           /\ UNCHANGED <<published, disk, skipped, crashed, copies, since, bursting>>
           /\ feed # None /\ cut \subseteq cut'
           /\ worker' = worker \/ worker'.at \in {"off", "asleep"}
           /\ feed' # None => /\ feed'.last = feed.last /\ feed'.pending = feed.pending
                              /\ Rss!Active(feed') \subseteq Rss!Active(feed) /\ cut' = cut
                              /\ worker' = worker \/ worker.at = "off"
           /\ \E gone \in SUBSET Rss!Dests :
                  /\ wanted' = wanted \ gone
                  /\ overlapped' = (overlapped \/ \E d \in gone : bursting[d] # None)
                  /\ feed' = None <=> feed.dests \ gone = {}
                  /\ feed' # None => feed'.dests = feed.dests \ gone
<1>0. feed \in Rss!Records \cup {None}
  BY DEF Rss!TypeOK
<1>1. PICK gone \in SUBSET Rss!Dests :
          /\ feed # None /\ Rss!Removed(gone)
          /\ UNCHANGED <<published, joined, disk, skipped, crashed, copies, adding, bursting>>
          /\ \/ feed' = None /\ Rss!Cancel(Rss!Off)
             \/ feed' # None /\ (Rss!Ensure \/ UNCHANGED worker) /\ UNCHANGED cut
  <2>1. ASSUME NEW d \in Rss!Dests \cup {None}, Rss!Unsubscribe(d)
        PROVE  LET gone == IF d = None THEN feed.dests ELSE {d} IN
               /\ gone \in SUBSET Rss!Dests /\ feed # None /\ Rss!Removed(gone)
               /\ UNCHANGED <<published, joined, disk, skipped, crashed, copies, adding,
                              bursting>>
               /\ \/ feed' = None /\ Rss!Cancel(Rss!Off)
                  \/ feed' # None /\ (Rss!Ensure \/ UNCHANGED worker) /\ UNCHANGED cut
    <3>1. feed # None
      BY <2>1 DEF Rss!Unsubscribe
    <3>2. feed.dests \subseteq Rss!Dests
      BY <1>0, <3>1, RecordParts
    <3> QED BY <2>1, <3>1, <3>2 DEF Rss!Unsubscribe, Rss!Command, Rss!site
  <2>2. ASSUME NEW r \in Rooms, Rss!CleanupRoomState(r)
        PROVE  /\ {r} \in SUBSET Rss!Dests /\ feed # None /\ Rss!Removed({r})
               /\ UNCHANGED <<published, joined, disk, skipped, crashed, copies, adding,
                              bursting>>
               /\ \/ feed' = None /\ Rss!Cancel(Rss!Off)
                  \/ feed' # None /\ (Rss!Ensure \/ UNCHANGED worker) /\ UNCHANGED cut
    BY <2>2 DEF Rss!CleanupRoomState, Rss!Command, Rss!site, Rss!Dests
  <2> QED BY <2>1, <2>2
<1>2. feed \in Rss!Records
  BY <1>0, <1>1
<1>3. /\ feed' \in Rss!Records \cup {None} /\ since' = since /\ wanted' = wanted \ gone
      /\ overlapped' = (overlapped \/ \E d \in gone : bursting[d] # None)
      /\ feed' = None <=> feed.dests \ gone = {}
      /\ feed' # None => /\ feed'.dests = feed.dests \ gone
                         /\ feed'.last = feed.last /\ feed'.pending = feed.pending
                         /\ Rss!Active(feed') \subseteq Rss!Active(feed)
  BY <1>1, FeedRemoved
<1>4. /\ worker' \in Rss!Workers /\ cut' \subseteq Rss!Dests \X Rss!Entries /\ cut \subseteq cut'
      /\ worker' = worker \/ worker'.at \in {"off", "asleep"}
  <2>1. CASE feed' = None /\ Rss!Cancel(Rss!Off)
    BY <2>1, FeedCancelled
  <2>2. CASE (Rss!Ensure \/ UNCHANGED worker) /\ UNCHANGED cut
    BY <2>2, FeedEnsured DEF Rss!TypeOK
  <2> QED BY <1>1, <2>1, <2>2
<1>5. Rss!TypeOK'
  <2>1. overlapped' \in BOOLEAN
    BY <1>3 DEF Rss!TypeOK
  <2>2. wanted' \subseteq Rss!Dests
    BY <1>3 DEF Rss!TypeOK
  <2> QED BY <1>1, <1>3, <1>4, <2>1, <2>2 DEF Rss!TypeOK
<1>6. Rss!WorkInv'
  <2>1. feed' # None => /\ feed'.last <= published /\ adding' \cap feed'.dests = {}
                        /\ \E f \in {feed, disk} \ {None} : feed'.pending = f.pending
    BY <1>1, <1>3 DEF Rss!WorkInv
  <2>2. CASE feed' = None /\ Rss!Cancel(Rss!Off)
    <3>1. worker'.at \in {"off", "asleep"} /\ worker'.last = 0 /\ worker'.queue = <<>>
      BY <2>2, FeedCancelled, CancelWork
    <3> QED BY <1>1, <1>3, <1>4, <2>1, <2>2, <3>1, WorkHeld
  <2>3. CASE feed' # None /\ (Rss!Ensure \/ UNCHANGED worker)
    <3>1. \/ worker' = worker
          \/ worker.at = "off" /\ worker'.at = "asleep" /\ worker'.last = 0 /\ worker'.queue = <<>>
      BY <2>3, EnsureWork
    <3> QED BY <1>1, <1>3, <1>4, <2>1, <2>3, <3>1, WorkHeld
  <2> QED BY <1>1, <2>2, <2>3
<1>7. feed' # None => cut' = cut /\ (worker' = worker \/ worker.at = "off")
  BY <1>1, EnsureWork
<1> QED BY <1>1, <1>3, <1>4, <1>5, <1>6, <1>7

(* The worker is started anew: pauses, retries and reloads of the plugin.   *)
LEMMA Restarts ==
    ASSUME Rss!FeedsAssumption, Rss!TypeOK, Rss!WorkInv,
           (\E d \in Rss!Dests \cup {None} : Rss!SetPauseState(d)) \/ Rss!ResetRetry \/ Rss!Reload
    PROVE  /\ Rss!TypeOK' /\ Rss!WorkInv'
           /\ UNCHANGED <<published, disk, skipped, crashed, overlapped, copies, bursting,
                          wanted>>
           /\ cut \subseteq cut' /\ worker'.at \in {"off", "asleep"}
           /\ worker.at = "sending" => <<worker.to, Head(worker.queue)>> \in cut'
           /\ feed' = None <=> feed = None
           /\ feed' # None => /\ feed'.dests = feed.dests /\ feed'.last = feed.last
                              /\ feed'.pending = feed.pending
           /\ \A c \in Rss!Dests : since'[c] = IF c \in Rss!Active(feed') \ Rss!Active(feed) THEN published
                                           ELSE since[c]
<1>0. feed \in Rss!Records \cup {None}
  BY DEF Rss!TypeOK
<1>1. PICK next \in {Rss!Off, Rss!Asleep} : Rss!Cancel(next)
  BY DEF Rss!SetPauseState, Rss!ResetRetry, Rss!Reload
<1>2. UNCHANGED <<published, joined, disk, skipped, crashed, overlapped, copies, adding,
                  bursting,
                  wanted>>
  BY DEF Rss!SetPauseState, Rss!ResetRetry, Rss!Reload, Rss!Command, Rss!site
<1>3. /\ feed' \in Rss!Records \cup {None} /\ since' \in [Rss!Dests -> 0 .. MaxEntries]
      /\ feed' = None <=> feed = None
      /\ feed' # None => /\ feed'.dests = feed.dests /\ feed'.last = feed.last
                         /\ feed'.pending = feed.pending
      /\ \A c \in Rss!Dests : since'[c] = IF c \in Rss!Active(feed') \ Rss!Active(feed) THEN published ELSE since[c]
  <2>1. CASE feed' = feed /\ since' = since
    BY <1>0, <2>1 DEF Rss!TypeOK
  <2>2. ASSUME NEW d \in Rss!Dests \cup {None}, Rss!SetPauseState(d)
        PROVE  /\ feed' \in Rss!Records \cup {None} /\ since' \in [Rss!Dests -> 0 .. MaxEntries]
               /\ feed' = None <=> feed = None
               /\ feed' # None => /\ feed'.dests = feed.dests /\ feed'.last = feed.last
                                  /\ feed'.pending = feed.pending
               /\ \A c \in Rss!Dests : since'[c] = IF c \in Rss!Active(feed') \ Rss!Active(feed) THEN published
                                               ELSE since[c]
    <3>1. feed # None /\ feed \in Rss!Records /\ d \in feed.dests \cup {None}
      BY <1>0, <2>2 DEF Rss!SetPauseState
    <3>2. PICK M : M = Rss!Toggle(feed.muted, d)
      OBVIOUS
    <3>3. d # None => M \subseteq Rss!Dests
      BY <3>1, <3>2, RecordParts DEF Rss!Toggle
    <3>4. PICK new : new = IF d = None THEN [feed EXCEPT !.paused = ~@]
                           ELSE [feed EXCEPT !.muted = M]
      OBVIOUS
    <3>5. new \in Rss!Records
      BY <3>1, <3>3, <3>4, RecordTakes
    <3>6. new.dests = feed.dests /\ new.last = feed.last /\ new.pending = feed.pending
      BY <3>1, <3>4 DEF Rss!Records
    <3>7. Rss!Store(new)
      BY <2>2, <3>2, <3>4 DEF Rss!SetPauseState
    <3>8. new # None
      BY <3>5 DEF Rss!FeedsAssumption
    <3> QED BY <3>1, <3>5, <3>6, <3>7, <3>8, RecordStored
  <2> QED BY <2>1, <2>2 DEF Rss!ResetRetry, Rss!Reload
<1>4. /\ worker' \in Rss!Workers /\ cut' \subseteq Rss!Dests \X Rss!Entries /\ cut \subseteq cut'
      /\ worker'.at \in {"off", "asleep"} /\ worker'.last = 0 /\ worker'.queue = <<>>
      /\ worker.at = "sending" => <<worker.to, Head(worker.queue)>> \in cut'
  BY <1>1, FeedCancelled, CancelWork
<1>5. Rss!TypeOK'
  BY <1>2, <1>3, <1>4 DEF Rss!TypeOK
<1>6. Rss!WorkInv'
  <2>1. feed' # None => /\ feed'.last <= published /\ adding' \cap feed'.dests = {}
                        /\ \E f \in {feed, disk} \ {None} : feed'.pending = f.pending
    BY <1>2, <1>3 DEF Rss!WorkInv
  <2> QED BY <1>2, <1>3, <1>4, <2>1, WorkHeld
<1> QED BY <1>2, <1>3, <1>4, <1>5, <1>6

(* The process ends and starts.                                             *)
LEMMA Crashes ==
    ASSUME Rss!FeedsAssumption, Rss!TypeOK, Rss!WorkInv, Rss!Crash
    PROVE  /\ Rss!TypeOK' /\ Rss!WorkInv'
           /\ UNCHANGED <<published, disk, skipped, copies, wanted>>
           /\ crashed' /\ feed' = disk /\ worker'.at \in {"off", "asleep"}
           /\ \A c \in Rss!Dests : since'[c] = IF c \in Rss!Active(feed') \ Rss!Active(feed) THEN published
                                           ELSE since[c]
<1>1. PICK next \in {Rss!Off, Rss!Asleep} : Rss!Cancel(next)
  BY DEF Rss!Crash
<1>2. /\ UNCHANGED <<published, joined, disk, skipped, copies, wanted, overlapped>>
      /\ Rss!Store(disk) /\ adding' = {} /\ bursting' = [d \in Rss!Dests |-> None] /\ crashed' = TRUE
  BY DEF Rss!Crash, Rss!site
<1>3. disk \in Rss!Records \cup {None}
  BY DEF Rss!TypeOK
<1>4. /\ feed' = disk /\ since' \in [Rss!Dests -> 0 .. MaxEntries]
      /\ \A c \in Rss!Dests : since'[c] = IF c \in Rss!Active(feed') \ Rss!Active(feed) THEN published ELSE since[c]
  BY <1>2, <1>3, RecordStored
<1>5. /\ worker' \in Rss!Workers /\ cut' \subseteq Rss!Dests \X Rss!Entries
      /\ worker'.at \in {"off", "asleep"} /\ worker'.last = 0 /\ worker'.queue = <<>>
  BY <1>1, FeedCancelled, CancelWork
<1>6. Rss!TypeOK'
  <2>1. adding' \subseteq Rss!Dests /\ crashed' \in BOOLEAN /\ overlapped' \in BOOLEAN
    BY <1>2 DEF Rss!TypeOK
  <2>2. bursting' \in [Rss!Dests -> (0 .. MaxEntries) \cup {None}]
    BY <1>2
  <2> QED BY <1>2, <1>3, <1>4, <1>5, <2>1, <2>2 DEF Rss!TypeOK
<1>7. Rss!WorkInv'
  <2>1. feed' # None => /\ feed'.last <= published /\ adding' \cap feed'.dests = {}
                        /\ \E f \in {feed, disk} \ {None} : feed'.pending = f.pending
    BY <1>2, <1>4 DEF Rss!WorkInv
  <2> QED BY <1>2, <1>3, <1>4, <1>5, <2>1, WorkHeld
<1> QED BY <1>2, <1>4, <1>5, <1>6, <1>7

(* The steps of the worker.  What none of them touches:                     *)
FeedCalm == UNCHANGED <<published, disk, since, cut, crashed, overlapped, wanted, bursting>>

LEMMA PollStep ==
    ASSUME Rss!FeedsAssumption, Rss!TypeOK, Rss!WorkInv, Rss!Poll \/ Rss!FetchFails
    PROVE  /\ Rss!TypeOK' /\ Rss!WorkInv' /\ FeedCalm /\ UNCHANGED <<feed, copies, skipped>>
           /\ \/ worker'.at \in {"off", "asleep"}
              \/ worker'.at = "fetching" /\ feed # None /\ worker'.last = feed.last
<1>1. UNCHANGED <<published, joined, disk, adding, bursting, crashed, overlapped, wanted, feed,
                  copies,
                  since, skipped, cut>>
  BY DEF Rss!Poll, Rss!FetchFails, Rss!Worker, Rss!site
<1>2. feed \in Rss!Records \cup {None}
  BY DEF Rss!TypeOK
<1>3. /\ worker' \in Rss!Workers
      /\ \/ worker'.at \in {"off", "asleep"} /\ worker'.last = 0 /\ worker'.queue = <<>>
         \/ worker'.at = "fetching" /\ feed # None /\ worker'.last = feed.last
            /\ worker'.queue = <<>>
  <2>1. CASE worker' = Rss!Off \/ worker' = Rss!Asleep
    <3>1. worker' \in Rss!Workers /\ worker'.at \in {"off", "asleep"}
      BY <2>1, WorkerTakes DEF Rss!TypeOK
    <3>2. worker'.last = 0 /\ worker'.queue = <<>>
      BY <2>1 DEF Rss!Off, Rss!Asleep
    <3> QED BY <3>1, <3>2
  <2>2. CASE feed # None /\ worker' = [Rss!Asleep EXCEPT !.at = "fetching", !.last = feed.last]
    <3>1. feed.last \in 0 .. MaxEntries
      BY <1>2, <2>2, RecordParts
    <3>2. worker' \in Rss!Workers
      BY <2>2, <3>1, WorkerTakes DEF Rss!TypeOK
    <3>3. worker'.at = "fetching" /\ worker'.last = feed.last /\ worker'.queue = <<>>
      BY <2>2 DEF Rss!Asleep, Rss!Off
    <3> QED BY <2>2, <3>2, <3>3
  <2> QED BY <2>1, <2>2 DEF Rss!Poll, Rss!FetchFails, Rss!Worker
<1>4. Rss!TypeOK'
  BY <1>1, <1>3 DEF Rss!TypeOK
<1>5. Rss!WorkInv'
  <2>1. worker'.last <= published
    BY <1>3 DEF Rss!WorkInv, Rss!TypeOK
  <2>2. \A e \in Rss!Items(worker'.queue) : e <= published
    BY <1>3 DEF Rss!Items
  <2> QED BY <1>1, <1>3, <2>1, <2>2 DEF Rss!WorkInv, Rss!Busy
<1> QED BY <1>1, <1>3, <1>4, <1>5 DEF FeedCalm

(* What a poll queues.                                                      *)
Queued ==
    LET new == Rss!Chosen(worker.last)
    IN  IF Rss!Unfinished \subseteq Rss!Items(new) THEN new ELSE <<feed.pending.entry>> \o new

LEMMA QueuedEntries ==
    ASSUME Rss!FeedsAssumption, Rss!TypeOK, Rss!WorkInv, feed # None
    PROVE  /\ Queued \in Seq(Rss!Entries)
           /\ \A e \in Rss!Items(Queued) : e <= published
           /\ \A i, j \in 1 .. Len(Queued) : i < j => Queued[i] < Queued[j]
           /\ \A e \in Rss!Items(Queued) :
                  e > worker.last \/ (feed.pending # None /\ e = feed.pending.entry)
<1>1. PICK n \in Nat : n = worker.last
  BY DEF Rss!TypeOK, Rss!Workers
<1>2. n \in 0 .. published /\ published \in 0 .. MaxEntries
  BY <1>1 DEF Rss!WorkInv, Rss!TypeOK
<1>3a. PICK new : new = Rss!Chosen(n)
  OBVIOUS
<1>3. PICK b \in Nat : new = Rss!Chosen(n) /\ b = Rss!Before(n)
  BY <1>2, <1>3a, ChosenEntries
<1>4. /\ new \in Seq(Rss!Entries) /\ b >= n /\ Len(new) = published - b
      /\ \A i \in 1 .. Len(new) : new[i] = b + i /\ new[i] <= published /\ new[i] > n
  BY <1>2, <1>3, ChosenEntries
<1>5. CASE Rss!Unfinished \subseteq Rss!Items(new)
  <2>1. Queued = new
    BY <1>1, <1>3, <1>5 DEF Queued
  <2> QED BY <1>1, <1>4, <2>1 DEF Rss!Items
<1>6. CASE ~(Rss!Unfinished \subseteq Rss!Items(new))
  <2>1. feed \in Rss!Records
    BY DEF Rss!TypeOK
  <2>2. feed.pending # None /\ Rss!Unfinished = {feed.pending.entry}
    BY <1>6 DEF Rss!Unfinished
  <2>3. PICK p \in Rss!Entries : p = feed.pending.entry
    BY <2>1, <2>2, RecordParts
  <2>4. p \in Int /\ p <= published /\ p \notin Rss!Items(new)
    BY <1>6, <2>2, <2>3 DEF Rss!WorkInv, Rss!Entries, Rss!FeedsAssumption
  <2>5. p <= b
    <3>1. SUFFICES ASSUME p > b PROVE FALSE
      BY <2>4, <1>3
    <3>2. p - b \in 1 .. Len(new)
      BY <1>2, <1>4, <2>4, <3>1
    <3>3. new[p - b] = p
      BY <1>4, <2>4, <3>2
    <3> QED BY <2>4, <3>2, <3>3 DEF Rss!Items
  <2>6. PICK q : q = <<p>> \o new
    OBVIOUS
  <2>7. /\ q \in Seq(Rss!Entries) /\ Len(q) = Len(new) + 1 /\ q[1] = p
        /\ \A i \in 2 .. Len(q) : i - 1 \in 1 .. Len(new) /\ q[i] = new[i - 1]
    BY <1>4, <2>6
  <2>8. Queued = q
    BY <1>1, <1>3, <1>6, <2>3, <2>6 DEF Queued
  <2>9. \A i \in 2 .. Len(q) : q[i] = b + i - 1 /\ q[i] <= published /\ q[i] > n
    BY <1>4, <2>7
  <2>10. \A i \in 1 .. Len(q) : i = 1 \/ i \in 2 .. Len(q)
    OBVIOUS
  <2>11. \A i \in 1 .. Len(q) : q[i] <= published /\ (q[i] > n \/ q[i] = p)
    BY <2>4, <2>7, <2>9, <2>10
  <2>12. \A i, j \in 1 .. Len(q) : i < j => q[i] < q[j]
    <3> SUFFICES ASSUME NEW i \in 1 .. Len(q), NEW j \in 1 .. Len(q), i < j PROVE q[i] < q[j]
      OBVIOUS
    <3>1. j \in 2 .. Len(q) /\ q[j] = b + j - 1
      BY <2>7, <2>9
    <3>2. CASE i = 1
      BY <2>4, <2>5, <2>7, <3>1, <3>2
    <3>3. CASE i # 1
      BY <2>7, <2>9, <3>1, <3>3
    <3> QED BY <3>2, <3>3
  <2> QED BY <1>1, <2>2, <2>3, <2>7, <2>8, <2>11, <2>12 DEF Rss!Items
<1> QED BY <1>5, <1>6

(* The document arrived: the first one of an empty feed moves the cursor,   *)
(* any other is queued.                                                     *)
LEMMA FetchedStep ==
    ASSUME Rss!FeedsAssumption, Rss!TypeOK, Rss!WorkInv, Rss!Fetched
    PROVE  /\ Rss!TypeOK' /\ Rss!WorkInv' /\ FeedCalm /\ copies' = copies /\ skipped \subseteq skipped'
           /\ worker.at = "fetching" /\ feed # None
           /\ \/ /\ worker'.at = "asleep" /\ feed' # None /\ feed.pending = None
                 /\ feed'.last = published /\ feed'.pending = None /\ feed'.dests = feed.dests
                 /\ Rss!Active(feed') = Rss!Active(feed) /\ \A e \in 1 .. published : e \in skipped'
              \/ feed' = feed /\ worker'.at = "asleep"
              \/ /\ feed' = feed /\ worker'.at = "next" /\ worker'.queue = Queued
                 /\ \A e \in worker.last + 1 .. published : e \in skipped' \/ e \in Rss!Items(Queued)
<1>1. /\ UNCHANGED <<published, joined, disk, adding, bursting, crashed, overlapped, wanted,
                     copies,
                     since, cut>>
      /\ worker.at = "fetching" /\ feed # None
  BY DEF Rss!Fetched, Rss!Worker, Rss!site
<1>2. feed \in Rss!Records /\ worker \in Rss!Workers /\ published \in 0 .. MaxEntries
  BY <1>1 DEF Rss!TypeOK
<1>3. Rss!Asleep \in Rss!Workers /\ Rss!Asleep.at = "asleep" /\ Rss!Asleep.last = 0 /\ Rss!Asleep.queue = <<>>
  BY <1>2, WorkerTakes DEF Rss!Asleep, Rss!Off
<1>4. CASE Rss!Unfinished = {} /\ worker.last = 0
  <2>1. /\ feed' = [feed EXCEPT !.last = published] /\ skipped' = skipped \cup 1 .. published
        /\ worker' = Rss!Asleep
    BY <1>2, <1>4, ListedNewest DEF Rss!Fetched, Rss!Worker
  <2>2. feed.pending = None
    BY <1>4 DEF Rss!Unfinished
  <2>3. /\ feed' \in Rss!Records /\ feed' # None /\ feed'.last = published
        /\ feed'.pending = None /\ feed'.dests = feed.dests
        /\ feed'.muted = feed.muted /\ feed'.paused = feed.paused
    <3>1. feed' \in Rss!Records
      BY <1>2, <2>1, RecordTakes
    <3>2. /\ feed'.last = published /\ feed'.pending = None /\ feed'.dests = feed.dests
          /\ feed'.muted = feed.muted /\ feed'.paused = feed.paused
      BY <1>2, <2>1, <2>2 DEF Rss!Records
    <3> QED BY <3>1, <3>2 DEF Rss!FeedsAssumption
  <2>4. Rss!Active(feed') = Rss!Active(feed)
    BY <1>1, <2>3 DEF Rss!Active
  <2>5. skipped' \subseteq Rss!Entries /\ \A e \in 1 .. published : e \in skipped'
    BY <1>2, <2>1 DEF Rss!TypeOK, Rss!Entries, Rss!FeedsAssumption
  <2>6. Rss!TypeOK'
    BY <1>1, <1>3, <2>1, <2>3, <2>5 DEF Rss!TypeOK
  <2>7. Rss!WorkInv'
    <3>1. feed'.last <= published /\ adding' \cap feed'.dests = {}
      BY <1>1, <1>2, <2>3 DEF Rss!WorkInv
    <3> QED BY <1>1, <1>3, <2>1, <2>3, <3>1, WorkHeld
  <2> QED BY <1>1, <1>3, <2>1, <2>2, <2>3, <2>4, <2>5, <2>6, <2>7 DEF FeedCalm
<1>5. CASE ~(Rss!Unfinished = {} /\ worker.last = 0)
  <2>1. PICK q : q = Queued
    OBVIOUS
  <2>2. /\ feed' = feed
        /\ skipped' = skipped \cup ((worker.last + 1 .. published) \ Rss!Items(q))
        /\ worker' = IF q = <<>> THEN Rss!Asleep ELSE [worker EXCEPT !.at = "next", !.queue = q]
    BY <1>5, <2>1 DEF Rss!Fetched, Queued, Rss!Worker
  <2>3. q \in Seq(Rss!Entries) /\ \A e \in Rss!Items(q) : e <= published
    BY <1>1, <2>1, QueuedEntries
  <2>4. worker.last \in 0 .. MaxEntries
    BY <1>2 DEF Rss!Workers
  <2>5. /\ skipped' \subseteq Rss!Entries
        /\ \A e \in worker.last + 1 .. published : e \in skipped' \/ e \in Rss!Items(q)
    BY <1>2, <2>2, <2>4 DEF Rss!TypeOK, Rss!Entries, Rss!FeedsAssumption
  <2>6. /\ worker' \in Rss!Workers
        /\ \/ worker'.at = "asleep" /\ worker'.last = 0 /\ worker'.queue = <<>>
           \/ worker'.at = "next" /\ worker'.queue = q /\ q # <<>> /\ worker'.last = worker.last
    <3>1. CASE q = <<>>
      BY <1>3, <2>2, <3>1
    <3>2. CASE q # <<>>
      <4>1. worker' = [worker EXCEPT !.at = "next", !.queue = q]
        BY <2>2, <3>2
      <4>2. worker' \in Rss!Workers
        BY <1>2, <2>3, <4>1, WorkerTakes
      <4>3. worker'.at = "next" /\ worker'.queue = q /\ worker'.last = worker.last
        BY <1>2, <4>1 DEF Rss!Workers
      <4> QED BY <3>2, <4>2, <4>3
    <3> QED BY <3>1, <3>2
  <2>7. Rss!TypeOK'
    BY <1>1, <2>2, <2>5, <2>6 DEF Rss!TypeOK
  <2>8. Rss!WorkInv'
    <3>1. worker'.last <= published
      BY <1>2, <2>6 DEF Rss!WorkInv
    <3>2. \A e \in Rss!Items(worker'.queue) : e <= published
      BY <2>3, <2>6 DEF Rss!Items
    <3> QED BY <1>1, <2>2, <2>6, <3>1, <3>2 DEF Rss!WorkInv, Rss!Busy
  <2> QED BY <1>1, <2>1, <2>2, <2>5, <2>6, <2>7, <2>8 DEF FeedCalm
<1> QED BY <1>4, <1>5

(* The next entry of the queue.                                             *)
LEMMA NextEntryStep ==
    ASSUME Rss!FeedsAssumption, Rss!TypeOK, Rss!WorkInv, Rss!NextEntry
    PROVE  /\ Rss!TypeOK' /\ Rss!WorkInv' /\ FeedCalm /\ UNCHANGED <<copies, skipped>>
           /\ worker.at = "next" /\ feed # None /\ feed' # None
           /\ feed'.last = feed.last /\ feed'.dests = feed.dests /\ Rss!Active(feed') = Rss!Active(feed)
           /\ \/ worker'.at = "asleep" /\ feed' = feed
              \/ /\ worker'.at = "rooms" /\ worker'.queue = worker.queue
                 /\ feed'.pending # None /\ feed'.pending.entry = Head(worker.queue)
                 /\ worker'.todo = (Rss!Active(feed) \cap Rooms) \ feed'.pending.done
                 /\ \/ feed'.pending = feed.pending
                    \/ feed.pending = None /\ feed'.pending.done = {}
<1>1. /\ UNCHANGED <<published, joined, disk, adding, bursting, crashed, overlapped, wanted,
                     copies,
                     since, skipped, cut>>
      /\ worker.at = "next" /\ feed # None
  BY DEF Rss!NextEntry, Rss!Worker, Rss!site
<1>2. feed \in Rss!Records /\ worker \in Rss!Workers /\ worker.queue \in Seq(Rss!Entries) /\ worker.queue # <<>>
  BY <1>1 DEF Rss!TypeOK, Rss!Workers, Rss!WorkInv, Rss!Busy
<1>3. PICK entry \in Rss!Entries : entry = Head(worker.queue)
  BY <1>2
<1>4. Rss!Asleep \in Rss!Workers /\ Rss!Asleep.at = "asleep" /\ Rss!Asleep.last = 0 /\ Rss!Asleep.queue = <<>>
  BY <1>2, WorkerTakes DEF Rss!Asleep, Rss!Off
<1>5. CASE worker' = Rss!Asleep /\ feed' = feed
  <2>1. Rss!TypeOK'
    BY <1>1, <1>2, <1>4, <1>5 DEF Rss!TypeOK
  <2>2. Rss!WorkInv'
    <3>1. feed'.last <= published /\ adding' \cap feed'.dests = {}
      BY <1>1, <1>2, <1>5 DEF Rss!WorkInv, Rss!FeedsAssumption
    <3> QED BY <1>1, <1>2, <1>4, <1>5, <3>1, WorkHeld
  <2> QED BY <1>1, <1>4, <1>5, <2>1, <2>2 DEF FeedCalm
<1>6. CASE ~(worker' = Rss!Asleep /\ feed' = feed)
  <2>1. PICK p : p = IF feed.pending = None THEN [entry |-> entry, done |-> {}]
                     ELSE feed.pending
    OBVIOUS
  <2>2. /\ feed' = [feed EXCEPT !.pending = p] /\ Rss!Unfinished \subseteq {entry}
    BY <1>2, <1>3, <1>6, <2>1 DEF Rss!NextEntry, Rss!Worker, Rss!Records
  <2>3. [entry |-> entry, done |-> {}] \in Rss!Pendings
    BY DEF Rss!Pendings
  <2>4. p \in Rss!Pendings /\ p.entry = entry /\ p # None /\ p.done \subseteq Rss!Dests
        /\ (feed.pending = None => p.done = {})
    <3>1. CASE feed.pending = None
      BY <2>1, <2>3, <3>1 DEF Rss!FeedsAssumption
    <3>2. CASE feed.pending # None
      BY <1>2, <2>1, <2>2, <3>2, RecordParts DEF Rss!Unfinished, Rss!FeedsAssumption
    <3> QED BY <3>1, <3>2
  <2>5. feed' \in Rss!Records
    BY <1>2, <2>2, <2>4, RecordTakes
  <2>6. /\ feed'.pending = p /\ feed'.last = feed.last /\ feed'.dests = feed.dests
        /\ feed'.muted = feed.muted /\ feed'.paused = feed.paused
    BY <1>2, <2>2 DEF Rss!Records
  <2>7. feed' # None /\ Rss!Active(feed') = Rss!Active(feed)
    BY <1>1, <2>5, <2>6 DEF Rss!Active, Rss!FeedsAssumption
  <2>8. PICK T : T = (Rss!Active(feed) \cap Rooms) \ p.done
    OBVIOUS
  <2>9. T \subseteq Rss!Dests
    BY <2>8 DEF Rss!Dests
  <2>10. worker' = [worker EXCEPT !.at = "rooms", !.todo = T]
    BY <1>3, <1>6, <2>6, <2>8 DEF Rss!NextEntry, Rss!Worker
  <2>11. worker' \in Rss!Workers
    BY <1>2, <2>9, <2>10, WorkerTakes
  <2>12. worker'.at = "rooms" /\ worker'.todo = T /\ worker'.queue = worker.queue
         /\ worker'.last = worker.last
    BY <1>2, <2>10 DEF Rss!Workers
  <2>13. Rss!TypeOK'
    BY <1>1, <2>5, <2>11 DEF Rss!TypeOK
  <2>14. Rss!WorkInv'
    <3>1. entry <= published
      BY <1>2, <1>3 DEF Rss!WorkInv, Rss!Items
    <3>2. feed'.last <= published /\ adding' \cap feed'.dests = {}
      BY <1>1, <1>2, <2>6 DEF Rss!WorkInv
    <3>3. \A f \in {feed', disk'} \ {None} :
              f.last <= published /\ (f.pending # None => f.pending.entry <= published)
      BY <1>1, <2>4, <2>6, <3>1, <3>2 DEF Rss!WorkInv
    <3>4. worker'.last <= published /\ \A e \in Rss!Items(worker'.queue) : e <= published
      BY <2>12 DEF Rss!WorkInv
    <3> QED BY <1>1, <1>2, <1>3, <2>4, <2>6, <2>7, <2>12, <3>2, <3>3, <3>4
         DEF Rss!WorkInv, Rss!Busy
  <2> QED BY <1>1, <1>3, <2>1, <2>4, <2>6, <2>7, <2>8, <2>12, <2>13, <2>14 DEF FeedCalm
<1> QED BY <1>5, <1>6

(* A step of the worker within an entry.                                    *)
LEMMA WorkKept ==
    ASSUME Rss!FeedsAssumption, Rss!TypeOK, Rss!WorkInv, FeedCalm, adding' = adding,
           feed # None,
           feed' \in Rss!Records, feed'.last = feed.last, feed'.dests = feed.dests,
           feed'.pending = None <=> feed.pending = None,
           feed.pending # None => feed'.pending.entry = feed.pending.entry,
           worker' \in Rss!Workers, worker.at \in {"rooms", "users", "sending"},
           worker'.at \in {"rooms", "users", "sending"},
           worker'.at = "sending" => worker'.to \in Rss!Dests,
           worker'.last = worker.last, worker'.queue = worker.queue
    PROVE  Rss!WorkInv'
<1>1. feed' # None /\ worker.queue # <<>> /\ published' = published /\ disk' = disk
  BY DEF Rss!FeedsAssumption, Rss!WorkInv, Rss!Busy, FeedCalm
<1>2. feed'.last <= published /\ adding' \cap feed'.dests = {}
  BY DEF Rss!WorkInv
<1>3. \A f \in {feed', disk'} \ {None} :
          f.last <= published /\ (f.pending # None => f.pending.entry <= published)
  BY <1>1, <1>2 DEF Rss!WorkInv
<1>4. worker'.last <= published /\ \A e \in Rss!Items(worker'.queue) : e <= published
  BY DEF Rss!WorkInv
<1>5. feed'.pending # None => feed'.pending.entry = Head(worker'.queue)
  BY DEF Rss!WorkInv
<1> QED BY <1>1, <1>2, <1>3, <1>4, <1>5 DEF Rss!WorkInv, Rss!Busy

LEMMA SendStep ==
    ASSUME Rss!FeedsAssumption, Rss!TypeOK, Rss!WorkInv, NEW d \in Rss!Dests,
           Rss!Send(d) \/ Rss!SendRefused(d)
    PROVE  /\ Rss!TypeOK' /\ Rss!WorkInv' /\ FeedCalm /\ UNCHANGED <<feed,
                                                                     skipped>> /\ feed # None
           /\ worker.at \in {"rooms", "users"} /\ d \in worker.todo
           /\ worker'.todo = worker.todo \ {d} /\ worker'.queue = worker.queue
           /\ worker'.last = worker.last
           /\ Head(worker.queue) \in Rss!Entries /\ Head(worker.queue) <= published
           /\ \/ /\ worker'.at = "sending" /\ worker'.to = d /\ worker'.failed = worker.failed
                 /\ \A c \in Rss!Dests, e \in Rss!Entries :
                        copies'[c][e] = IF c = d /\ e = Head(worker.queue) THEN copies[c][e] + 1
                                        ELSE copies[c][e]
              \/ worker'.at = worker.at /\ worker'.failed = TRUE /\ copies' = copies
<1>1. /\ UNCHANGED <<published, joined, disk, adding, bursting, crashed, overlapped, wanted,
                     feed,
                     since, skipped, cut>>
      /\ worker.at \in {"rooms", "users"} /\ d \in worker.todo
  BY DEF Rss!Send, Rss!SendRefused, Rss!Worker, Rss!site
<1>2. /\ feed # None /\ feed \in Rss!Records /\ worker \in Rss!Workers /\ worker.queue \in Seq(Rss!Entries)
      /\ worker.queue # <<>> /\ worker.todo \subseteq Rss!Dests
  BY <1>1 DEF Rss!TypeOK, Rss!Workers, Rss!WorkInv, Rss!Busy
<1>3. PICK entry \in Rss!Entries : entry = Head(worker.queue)
  BY <1>2
<1>4. entry <= published
  BY <1>2, <1>3 DEF Rss!WorkInv, Rss!Items
<1>5. PICK T \in SUBSET Rss!Dests : T = worker.todo \ {d}
  BY <1>2
<1>6. CASE Rss!Send(d)
  <2>1. /\ copies' = [copies EXCEPT ![d][entry] = @ + 1]
        /\ worker' = [worker EXCEPT !.at = "sending", !.to = d, !.todo = T]
    BY <1>2, <1>3, <1>5, <1>6 DEF Rss!Send, Rss!Worker, Rss!Workers
  <2>2. /\ copies' \in [Rss!Dests -> [Rss!Entries -> Nat]]
        /\ \A c \in Rss!Dests, e \in Rss!Entries :
               copies'[c][e] = IF c = d /\ e = entry THEN copies[c][e] + 1 ELSE copies[c][e]
    <3>1. copies \in [Rss!Dests -> [Rss!Entries -> Nat]]
      BY DEF Rss!TypeOK
    <3>2. PICK g : g = [copies[d] EXCEPT ![entry] = @ + 1]
      OBVIOUS
    <3>3. g \in [Rss!Entries -> Nat] /\ copies' = [copies EXCEPT ![d] = g]
      BY <2>1, <3>1, <3>2
    <3> QED BY <3>1, <3>2, <3>3
  <2>3. worker' \in Rss!Workers
    BY <1>2, <2>1, WorkerTakes
  <2>4. /\ worker'.at = "sending" /\ worker'.to = d /\ worker'.failed = worker.failed
        /\ worker'.todo = T /\ worker'.queue = worker.queue /\ worker'.last = worker.last
    BY <1>2, <2>1 DEF Rss!Workers
  <2>5. Rss!TypeOK'
    BY <1>1, <2>2, <2>3 DEF Rss!TypeOK
  <2>6. Rss!WorkInv'
    BY <1>1, <1>2, <2>3, <2>4, WorkKept DEF FeedCalm
  <2> QED BY <1>1, <1>2, <1>3, <1>4, <1>5, <2>2, <2>4, <2>5, <2>6 DEF FeedCalm
<1>7. CASE Rss!SendRefused(d)
  <2>1. copies' = copies /\ worker' = [worker EXCEPT !.todo = T, !.failed = TRUE]
    BY <1>2, <1>5, <1>7 DEF Rss!SendRefused, Rss!Worker, Rss!Workers
  <2>3. worker' \in Rss!Workers
    BY <1>2, <2>1, WorkerTakes
  <2>4. /\ worker'.at = worker.at /\ worker'.failed = TRUE
        /\ worker'.todo = T /\ worker'.queue = worker.queue /\ worker'.last = worker.last
    BY <1>2, <2>1 DEF Rss!Workers
  <2>5. Rss!TypeOK'
    BY <1>1, <2>1, <2>3 DEF Rss!TypeOK
  <2>6. Rss!WorkInv'
    BY <1>1, <1>2, <2>3, <2>4, WorkKept DEF FeedCalm
  <2> QED BY <1>1, <1>2, <1>3, <1>4, <1>5, <2>1, <2>4, <2>5, <2>6 DEF FeedCalm
<1> QED BY <1>6, <1>7

LEMMA AckStep ==
    ASSUME Rss!FeedsAssumption, Rss!TypeOK, Rss!WorkInv, Rss!Ack
    PROVE  /\ Rss!TypeOK' /\ Rss!WorkInv' /\ FeedCalm /\ UNCHANGED <<copies, skipped>>
           /\ worker.at = "sending" /\ worker.to \in Rss!Dests /\ feed # None /\ feed' # None
           /\ feed'.last = feed.last /\ feed'.dests = feed.dests /\ Rss!Active(feed') = Rss!Active(feed)
           /\ feed'.pending # None <=> feed.pending # None
           /\ \/ /\ worker'.at = IF worker.to \in Rooms THEN "rooms" ELSE "users"
                 /\ worker'.queue = worker.queue /\ worker'.todo = worker.todo
                 /\ worker'.failed = worker.failed /\ worker'.last = worker.last
                 /\ feed.pending # None /\ feed.pending.entry = Head(worker.queue)
                 /\ feed'.pending.entry = feed.pending.entry
                 /\ feed'.pending.done = feed.pending.done \cup {worker.to}
              \/ /\ worker'.at = "asleep" /\ feed' = feed
                 /\ feed.pending = None
<1>1. /\ UNCHANGED <<published, joined, disk, adding, bursting, crashed, overlapped, wanted,
                     copies,
                     since, skipped, cut>>
      /\ worker.at = "sending" /\ feed # None
  BY DEF Rss!Ack, Rss!Worker, Rss!site
<1>2. /\ feed \in Rss!Records /\ worker \in Rss!Workers /\ worker.to \in Rss!Dests
      /\ feed.pending # None => feed.pending.entry = Head(worker.queue)
  BY <1>1 DEF Rss!TypeOK, Rss!WorkInv
<1>4. Rss!Asleep \in Rss!Workers /\ Rss!Asleep.at = "asleep" /\ Rss!Asleep.last = 0 /\ Rss!Asleep.queue = <<>>
  BY <1>2, WorkerTakes DEF Rss!Asleep, Rss!Off
<1>5. CASE feed.pending = None
  <2>1. worker' = Rss!Asleep /\ feed' = feed
    BY <1>5 DEF Rss!Ack, Rss!Worker, Rss!Unfinished
  <2>2. Rss!TypeOK'
    BY <1>1, <1>2, <1>4, <2>1 DEF Rss!TypeOK
  <2>3. Rss!WorkInv'
    <3>1. feed'.last <= published /\ adding' \cap feed'.dests = {}
      BY <1>1, <1>2, <2>1 DEF Rss!WorkInv
    <3> QED BY <1>1, <1>2, <1>4, <2>1, <3>1, WorkHeld
  <2> QED BY <1>1, <1>2, <1>4, <1>5, <2>1, <2>2, <2>3 DEF FeedCalm
<1>6. CASE feed.pending # None
  <2>1. PICK p : p = [feed.pending EXCEPT !.done = @ \cup {worker.to}]
    OBVIOUS
  <2>2. PICK a \in {"rooms", "users"} : a = IF worker.to \in Rooms THEN "rooms" ELSE "users"
    OBVIOUS
  <2>3. /\ feed' = [feed EXCEPT !.pending = p]
        /\ worker' = [worker EXCEPT !.at = a, !.to = None]
    BY <1>2, <1>6, <2>1, <2>2 DEF Rss!Ack, Rss!Worker, Rss!Unfinished, Rss!Records, Rss!Workers
  <2>4. feed.pending \in Rss!Pendings
    BY <1>2, <1>6, RecordParts
  <2>5. /\ p \in Rss!Pendings /\ p.entry = feed.pending.entry
        /\ p.done = feed.pending.done \cup {worker.to} /\ p # None
    BY <1>2, <2>1, <2>4 DEF Rss!Pendings, Rss!FeedsAssumption
  <2>6. feed' \in Rss!Records
    BY <1>2, <2>3, <2>5, RecordTakes
  <2>7. /\ feed'.pending = p /\ feed'.last = feed.last /\ feed'.dests = feed.dests
        /\ feed'.muted = feed.muted /\ feed'.paused = feed.paused
    BY <1>2, <2>3 DEF Rss!Records
  <2>8. feed' # None /\ Rss!Active(feed') = Rss!Active(feed)
    BY <1>1, <2>6, <2>7 DEF Rss!Active, Rss!FeedsAssumption
  <2>9. worker' \in Rss!Workers
    BY <1>2, <2>3, WorkerTakes
  <2>10. /\ worker'.at = a /\ worker'.queue = worker.queue /\ worker'.todo = worker.todo
         /\ worker'.failed = worker.failed /\ worker'.last = worker.last
    BY <1>2, <2>3 DEF Rss!Workers
  <2>11. Rss!TypeOK'
    BY <1>1, <2>6, <2>9 DEF Rss!TypeOK
  <2>12. FeedCalm
    BY <1>1 DEF FeedCalm
  <2>13. Rss!WorkInv'
    BY <1>1, <1>6, <2>2, <2>5, <2>6, <2>7, <2>9, <2>10, <2>12, WorkKept
  <2> QED BY <1>1, <1>2, <1>6, <2>2, <2>5, <2>7, <2>8, <2>10, <2>11, <2>12, <2>13
<1> QED BY <1>5, <1>6

LEMMA ServedStep ==
    ASSUME Rss!FeedsAssumption, Rss!TypeOK, Rss!WorkInv, Rss!RoomsServed
    PROVE  /\ Rss!TypeOK' /\ Rss!WorkInv' /\ FeedCalm /\ UNCHANGED <<feed, copies,
                                                                     skipped>> /\ feed # None
           /\ worker.at = "rooms" /\ worker.todo = {} /\ worker'.at = "users"
           /\ worker'.queue = worker.queue /\ worker'.failed = worker.failed
           /\ worker'.last = worker.last
           /\ worker'.todo = (Rss!Active(feed) \cap Users) \
                                 (IF feed.pending = None THEN {} ELSE feed.pending.done)
<1>1. /\ UNCHANGED <<published, joined, disk, adding, bursting, crashed, overlapped, wanted,
                     copies,
                     since, skipped, cut, feed>>
      /\ worker.at = "rooms" /\ worker.todo = {} /\ feed # None
  BY DEF Rss!RoomsServed, Rss!Worker, Rss!site
<1>2. feed \in Rss!Records /\ worker \in Rss!Workers
  BY <1>1 DEF Rss!TypeOK
<1>3. PICK T : T = (Rss!Active(feed) \cap Users) \
                       (IF feed.pending = None THEN {} ELSE feed.pending.done)
  OBVIOUS
<1>4. T \subseteq Rss!Dests
  BY <1>3 DEF Rss!Dests
<1>5. worker' = [worker EXCEPT !.at = "users", !.todo = T]
  BY <1>3 DEF Rss!RoomsServed, Rss!Worker
<1>6. worker' \in Rss!Workers
  BY <1>2, <1>4, <1>5, WorkerTakes
<1>7. /\ worker'.at = "users" /\ worker'.todo = T /\ worker'.queue = worker.queue
      /\ worker'.failed = worker.failed /\ worker'.last = worker.last
  BY <1>2, <1>5 DEF Rss!Workers
<1>8. Rss!TypeOK'
  BY <1>1, <1>6 DEF Rss!TypeOK
<1>9. Rss!WorkInv'
  BY <1>1, <1>2, <1>6, <1>7, WorkKept DEF FeedCalm
<1> QED BY <1>1, <1>3, <1>7, <1>8, <1>9 DEF FeedCalm

(* The cursor moves, or the entry is tried again with the next poll.        *)
LEMMA DoneStep ==
    ASSUME Rss!FeedsAssumption, Rss!TypeOK, Rss!WorkInv, Rss!EntryDone
    PROVE  /\ Rss!TypeOK' /\ Rss!WorkInv' /\ FeedCalm /\ UNCHANGED <<copies, skipped>>
           /\ worker.at = "users" /\ worker.todo = {} /\ feed # None /\ feed' # None
           /\ feed'.dests = feed.dests /\ Rss!Active(feed') = Rss!Active(feed)
           /\ worker.queue \in Seq(Rss!Entries) /\ worker.queue # <<>>
           /\ \/ worker'.at = "asleep" /\ feed' = feed
              \/ /\ ~worker.failed /\ feed'.last = Head(worker.queue) /\ feed'.pending = None
                 /\ worker'.at = "asleep" \/ (worker'.at = "next"
                                              /\ worker'.queue = Tail(worker.queue))
<1>1. /\ UNCHANGED <<published, joined, disk, adding, bursting, crashed, overlapped, wanted,
                     copies,
                     since, skipped, cut>>
      /\ worker.at = "users" /\ worker.todo = {} /\ feed # None
  BY DEF Rss!EntryDone, Rss!Worker, Rss!site
<1>2. /\ feed \in Rss!Records /\ worker \in Rss!Workers /\ worker.queue \in Seq(Rss!Entries)
      /\ worker.queue # <<>>
  BY <1>1 DEF Rss!TypeOK, Rss!Workers, Rss!WorkInv, Rss!Busy
<1>3. PICK entry \in Rss!Entries : entry = Head(worker.queue)
  BY <1>2
<1>4. Rss!Asleep \in Rss!Workers /\ Rss!Asleep.at = "asleep" /\ Rss!Asleep.last = 0 /\ Rss!Asleep.queue = <<>>
  BY <1>2, WorkerTakes DEF Rss!Asleep, Rss!Off
<1>5. CASE worker.failed
  <2>1. worker' = Rss!Asleep /\ feed' = feed
    BY <1>5 DEF Rss!EntryDone, Rss!Complete, Rss!Worker
  <2>2. Rss!TypeOK'
    BY <1>1, <1>2, <1>4, <2>1 DEF Rss!TypeOK
  <2>3. Rss!WorkInv'
    <3>1. feed'.last <= published /\ adding' \cap feed'.dests = {}
      BY <1>1, <1>2, <2>1 DEF Rss!WorkInv
    <3> QED BY <1>1, <1>2, <1>4, <2>1, <3>1, WorkHeld
  <2> QED BY <1>1, <1>2, <1>4, <2>1, <2>2, <2>3 DEF FeedCalm
<1>6. CASE ~worker.failed
  <2>1. entry \in 0 .. MaxEntries /\ entry <= published
    BY <1>2, <1>3 DEF Rss!Entries, Rss!FeedsAssumption, Rss!WorkInv, Rss!Items
  <2>2. /\ feed' = [feed EXCEPT !.last = entry, !.pending = None]
        /\ worker' = IF Len(worker.queue) = 1 THEN Rss!Asleep
                     ELSE [worker EXCEPT !.at = "next", !.queue = Tail(worker.queue)]
    BY <1>2, <1>3, <1>6 DEF Rss!EntryDone, Rss!Complete, Rss!Worker, Rss!Workers
  <2>3. feed' \in Rss!Records
    BY <1>2, <2>1, <2>2, RecordTakes
  <2>4. /\ feed'.pending = None /\ feed'.last = entry /\ feed'.dests = feed.dests
        /\ feed'.muted = feed.muted /\ feed'.paused = feed.paused
    BY <1>2, <2>2 DEF Rss!Records
  <2>5. feed' # None /\ Rss!Active(feed') = Rss!Active(feed)
    BY <1>1, <2>3, <2>4 DEF Rss!Active, Rss!FeedsAssumption
  <2>6. /\ worker' \in Rss!Workers
        /\ \/ worker'.at = "asleep" /\ worker'.last = 0 /\ worker'.queue = <<>>
           \/ worker'.at = "next" /\ worker'.queue = Tail(worker.queue) /\ worker'.queue # <<>>
              /\ worker'.last = worker.last
    <3>1. CASE Len(worker.queue) = 1
      BY <1>4, <2>2, <3>1
    <3>2. CASE Len(worker.queue) # 1
      <4>1. worker' = [worker EXCEPT !.at = "next", !.queue = Tail(worker.queue)]
        BY <2>2, <3>2
      <4>2. Tail(worker.queue) \in Seq(Rss!Entries) /\ Tail(worker.queue) # <<>>
        <5>1. PICK q \in Seq(Rss!Entries) : q = worker.queue
          BY <1>2
        <5>2. Len(q) \in Nat /\ Len(q) # 0 /\ Len(q) # 1
          BY <1>2, <3>2, <5>1
        <5>3. Tail(q) \in Seq(Rss!Entries) /\ Len(Tail(q)) = Len(q) - 1
          BY <1>2, <5>1
        <5>4. Len(Tail(q)) # 0
          BY <5>2, <5>3
        <5>5. Tail(q) # <<>>
          <6>1. PICK t \in Seq(Rss!Entries) : t = Tail(q) /\ Len(t) # 0
            BY <5>3, <5>4
          <6>2. t # <<>>
            BY <6>1
          <6> QED BY <6>1, <6>2
        <5> QED BY <5>1, <5>3, <5>5
      <4>3. worker' \in Rss!Workers
        BY <1>2, <4>1, <4>2, WorkerTakes
      <4>4. /\ worker'.at = "next" /\ worker'.queue = Tail(worker.queue)
            /\ worker'.last = worker.last
        BY <1>2, <4>1 DEF Rss!Workers
      <4> QED BY <4>2, <4>3, <4>4
    <3> QED BY <3>1, <3>2
  <2>7. Rss!TypeOK'
    BY <1>1, <2>3, <2>6 DEF Rss!TypeOK
  <2>8. Rss!WorkInv'
    <3>1. feed'.last <= published /\ adding' \cap feed'.dests = {}
      BY <1>1, <2>1, <2>4 DEF Rss!WorkInv
    <3>2. \A f \in {feed', disk'} \ {None} :
              f.last <= published /\ (f.pending # None => f.pending.entry <= published)
      BY <1>1, <2>4, <3>1 DEF Rss!WorkInv
    <3>3. worker'.last <= published
      <4>1. worker'.last = 0 \/ worker'.last = worker.last
        BY <2>6
      <4>2. worker.last <= published
        BY DEF Rss!WorkInv
      <4>3. published \in 0 .. MaxEntries
        BY DEF Rss!TypeOK
      <4> QED BY <4>1, <4>2, <4>3
    <3>4. \A e \in Rss!Items(worker'.queue) : e <= published
      <4>1. \A e \in Rss!Items(Tail(worker.queue)) : e \in Rss!Items(worker.queue)
        BY <1>2 DEF Rss!Items
      <4>2. Rss!Items(<<>>) = {}
        BY DEF Rss!Items
      <4>3. \A e \in Rss!Items(worker.queue) : e <= published
        BY DEF Rss!WorkInv
      <4> QED BY <2>6, <4>1, <4>2, <4>3
    <3> QED BY <1>1, <2>5, <2>6, <3>1, <3>2, <3>3, <3>4 DEF Rss!WorkInv, Rss!Busy
  <2> QED BY <1>1, <1>2, <1>3, <1>6, <2>4, <2>5, <2>6, <2>7, <2>8 DEF FeedCalm
<1> QED BY <1>5, <1>6

(* What a destination has got it keeps.                                     *)
LEMMA GotKept ==
    ASSUME Rss!FeedsAssumption, Rss!TypeOK, Rss!TypeOK', NEW d \in Rss!Dests,
           since'[d] = since[d],
           skipped \subseteq skipped',
           \A e \in Rss!Entries : copies'[d][e] >= copies[d][e]
    PROVE  \A e \in Rss!Entries : Rss!Got(d, e) => Rss!Got(d, e)'
<1> SUFFICES ASSUME NEW e \in Rss!Entries, Rss!Got(d, e) PROVE Rss!Got(d, e)'
  OBVIOUS
<1>1. copies[d][e] \in Nat /\ copies'[d][e] \in Nat
  BY DEF Rss!TypeOK
<1>2. CASE since[d] >= e
  BY <1>2 DEF Rss!Got
<1>3. CASE copies[d][e] > 0
  <2>1. copies'[d][e] > 0
    BY <1>1, <1>3
  <2> QED BY <2>1 DEF Rss!Got
<1>4. CASE e \in skipped
  BY <1>4 DEF Rss!Got
<1> QED BY <1>2, <1>3, <1>4 DEF Rss!Got

(* One who becomes active counts from now on.                               *)
LEMMA GotFresh ==
    ASSUME Rss!FeedsAssumption, Rss!TypeOK, NEW d \in Rss!Dests, since'[d] = published
    PROVE  \A e \in 1 .. published : Rss!Got(d, e)'
  BY DEF Rss!Got, Rss!TypeOK

LEMMA ActiveAre ==
    ASSUME NEW f \in Rss!Records \cup {None}
    PROVE  Rss!Active(f) \subseteq Rss!Dests
<1>1. f \in Rss!Records => Rss!Active(f) \subseteq Rss!Dests
  BY RecordParts
<1>2. f = None => Rss!Active(f) = {}
  BY DEF Rss!Active
<1> QED BY <1>1, <1>2

LEMMA ActiveDests ==
    ASSUME Rss!FeedsAssumption, Rss!TypeOK
    PROVE  /\ Rss!Active(feed) \subseteq Rss!Dests /\ Rss!Active(disk) \subseteq Rss!Dests
           /\ 1 .. published \subseteq Rss!Entries
<1>3. 1 .. published \subseteq Rss!Entries
  BY DEF Rss!TypeOK, Rss!Entries, Rss!FeedsAssumption
<1>4. feed \in Rss!Records \cup {None} /\ disk \in Rss!Records \cup {None}
  BY DEF Rss!TypeOK
<1> QED BY <1>3, <1>4, ActiveAre

(* Everyone active after a step has got everything, or keeps what they had. *)
Kept(d) ==
    \/ \A e \in 1 .. published : Rss!Got(d, e)'
    \/ d \in Rss!Active(feed) /\ \A e \in Rss!Entries : Rss!Got(d, e) => Rss!Got(d, e)'

Carried(d) ==
    \/ \A e \in 1 .. published : Rss!Got(d, e)'
    \/ \E f \in {feed, disk} \ {None} :
          d \in Rss!Active(f) /\ feed'.last = f.last /\ feed'.pending = f.pending

(* What a record says of those who were active then and are active now.     *)
LEMMA RecordKept ==
    ASSUME Rss!FeedsAssumption, Rss!TypeOK, Rss!WorkInv, Rss!TypeOK', Rss!CoverInv,
           NEW f \in {feed, disk} \ {None}, NEW d \in Rss!Active(f), Kept(d)
    PROVE  /\ \A e \in 1 .. f.last : Rss!Got(d, e)'
           /\ f.pending # None /\ d \in f.pending.done => Rss!Got(d, f.pending.entry)'
<1>1. /\ f.last \in 0 .. published
      /\ f.pending # None => f.pending.entry \in 1 .. published
  <2>1. f \in Rss!Records
    BY DEF Rss!TypeOK
  <2> QED BY <2>1, RecordParts DEF Rss!WorkInv, Rss!Entries
<1>2. 1 .. published \subseteq Rss!Entries
  BY ActiveDests
<1>3. CASE \A e \in 1 .. published : Rss!Got(d, e)'
  <2>1. PICK n \in 0 .. published : n = f.last
    BY <1>1
  <2>2. 1 .. n \subseteq 1 .. published
    BY <2>1 DEF Rss!TypeOK
  <2> QED BY <1>1, <1>3, <2>1, <2>2
<1>4. CASE d \in Rss!Active(feed) /\ \A e \in Rss!Entries : Rss!Got(d, e) => Rss!Got(d, e)'
  <2>1. /\ \A e \in 1 .. f.last : Rss!Got(d, e)
        /\ f.pending # None /\ d \in f.pending.done => Rss!Got(d, f.pending.entry)
    BY <1>4 DEF Rss!CoverInv, Rss!RecordInv, Rss!GotUpTo
  <2>2. \A e \in 1 .. f.last : e \in Rss!Entries
    <3>1. PICK n \in 0 .. published : n = f.last
      BY <1>1
    <3>2. 1 .. n \subseteq 1 .. published
      BY <3>1 DEF Rss!TypeOK
    <3> QED BY <1>2, <3>1, <3>2
  <2>3. f.pending # None => f.pending.entry \in Rss!Entries
    BY <1>1, <1>2
  <2> QED BY <1>4, <2>1, <2>2, <2>3
<1> QED BY <1>3, <1>4 DEF Kept

(* What the worker works on was published.                                  *)
LEMMA WorkerParts ==
    ASSUME Rss!FeedsAssumption, Rss!TypeOK, Rss!WorkInv
    PROVE  /\ worker.last \in Nat /\ worker.last <= published /\ worker.queue \in Seq(Rss!Entries)
           /\ \A i \in 1 .. Len(worker.queue) :
                  worker.queue[i] \in Nat /\ worker.queue[i] <= published
           /\ Rss!Busy => /\ 1 \in 1 .. Len(worker.queue) /\ worker.queue[1] = Head(worker.queue)
                      /\ Head(worker.queue) \in 1 .. published
<1>1. worker \in Rss!Workers
  BY DEF Rss!TypeOK
<1>2. PICK q \in Seq(Rss!Entries), n \in 0 .. MaxEntries : q = worker.queue /\ n = worker.last
  BY <1>1 DEF Rss!Workers
<1>3. n <= published /\ \A i \in 1 .. Len(q) : q[i] <= published
  BY <1>2 DEF Rss!WorkInv, Rss!Items
<1>4. \A i \in 1 .. Len(q) : q[i] \in Nat /\ q[i] >= 1
  BY DEF Rss!Entries, Rss!FeedsAssumption
<1>5. q # <<>> => 1 \in 1 .. Len(q) /\ q[1] = Head(q)
  BY <1>2
<1>6. Rss!Busy => worker.queue # <<>>
  BY DEF Rss!WorkInv
<1>7. published \in Nat
  BY DEF Rss!TypeOK
<1>8. Rss!Busy => Head(q) \in 1 .. published
  BY <1>2, <1>3, <1>4, <1>5, <1>6, <1>7
<1> QED BY <1>2, <1>3, <1>4, <1>5, <1>6, <1>8

(* The record is one that was known, and the worker goes on or rests.       *)
LEMMA Covered ==
    ASSUME Rss!FeedsAssumption, Rss!TypeOK, Rss!WorkInv, Rss!TypeOK', Rss!WorkInv',
           Rss!CoverInv,
           worker' = worker \/ worker'.at \in {"off", "asleep"},
           disk' \in {feed, disk}, published' = published \/ feed' = feed,
           \A d \in Rss!Active(feed') : Kept(d) /\ Carried(d)
    PROVE  Rss!CoverInv'
<1>1. /\ \A f \in {feed, disk} \ {None} :
             /\ f.last \in 0 .. published
             /\ f.pending # None => f.pending.entry \in 1 .. published
  <2>1. \A f \in {feed, disk} \ {None} : f \in Rss!Records
    BY DEF Rss!TypeOK
  <2> QED BY <2>1, RecordParts DEF Rss!WorkInv, Rss!Entries
<1>2. 1 .. published \subseteq Rss!Entries /\ published \in Nat
  BY ActiveDests DEF Rss!TypeOK
<1>3. Rss!RecordInv'
  <2>1. ASSUME NEW f \in {feed', disk'} \ {None}, NEW d \in Rss!Active(feed'),
            d \in Rss!Active(f)
        PROVE  /\ \A e \in 1 .. f.last : Rss!Got(d, e)'
               /\ f.pending # None /\ d \in f.pending.done => Rss!Got(d, f.pending.entry)'
    <3>1. Kept(d) /\ Carried(d)
      BY <2>1
    <3>2. ASSUME NEW g \in {feed, disk} \ {None}, d \in Rss!Active(g),
                 f.last = g.last, f.pending = g.pending
          PROVE  /\ \A e \in 1 .. f.last : Rss!Got(d, e)'
                 /\ f.pending # None /\ d \in f.pending.done => Rss!Got(d, f.pending.entry)'
      BY <3>1, <3>2, RecordKept
    <3>3. CASE f = disk' /\ f # feed'
      BY <2>1, <3>2, <3>3
    <3>4. CASE f = feed'
      <4>1. CASE \E g \in {feed, disk} \ {None} :
                     d \in Rss!Active(g) /\ feed'.last = g.last /\ feed'.pending = g.pending
        BY <3>2, <3>4, <4>1
      <4>2. CASE \A e \in 1 .. published : Rss!Got(d, e)'
        <5>1. f \in Rss!Records /\ f.last <= published /\ (f.pending # None => f.pending.entry <= published)
          BY <2>1, <3>4 DEF Rss!WorkInv, Rss!TypeOK
        <5>2. PICK n \in Nat : n = f.last /\ n <= published
          BY <5>1, RecordParts
        <5>3. 1 .. n \subseteq 1 .. published
          BY <1>2, <5>2
        <5>4. f.pending # None => f.pending.entry \in 1 .. published
          BY <5>1, RecordParts DEF Rss!Entries
        <5> QED BY <4>2, <5>2, <5>3, <5>4
      <4> QED BY <3>1, <4>1, <4>2 DEF Carried
    <3> QED BY <3>3, <3>4
  <2> QED BY <2>1 DEF Rss!RecordInv, Rss!GotUpTo
<1>4. ASSUME NEW d \in Rss!Active(feed'), worker' = worker
      PROVE  \/ \A e \in 1 .. published : Rss!Got(d, e)'
             \/ d \in Rss!Active(feed) /\ \A e \in Rss!Entries : Rss!Got(d, e) => Rss!Got(d, e)'
  BY <1>4 DEF Kept
<1>5. worker.last \in Nat /\ worker.last <= published /\ worker.queue \in Seq(Rss!Entries)
      /\ \A i \in 1 .. Len(worker.queue) : worker.queue[i] \in Nat /\ worker.queue[i] <= published
  BY WorkerParts
<1>6. Rss!QueueInv'
  <2>1. CASE worker'.at \in {"off", "asleep"}
    BY <2>1 DEF Rss!QueueInv, Rss!Busy
  <2>2. CASE worker' = worker
    <3>1. ASSUME NEW d \in Rss!Active(feed'), worker'.at = "fetching"
          PROVE  Rss!GotUpTo(d, worker.last)'
      <4>1. \A e \in 1 .. worker.last : e \in 1 .. published
        BY <1>2, <1>5
      <4>2. CASE \A e \in 1 .. published : Rss!Got(d, e)'
        BY <2>2, <4>1, <4>2 DEF Rss!GotUpTo
      <4>3. CASE d \in Rss!Active(feed) /\ \A e \in Rss!Entries : Rss!Got(d, e) => Rss!Got(d,
                e)'
        <5>1. \A e \in 1 .. worker.last : Rss!Got(d, e)
          BY <2>2, <3>1, <4>3 DEF Rss!CoverInv, Rss!QueueInv, Rss!GotUpTo
        <5> QED BY <1>2, <2>2, <4>1, <4>3, <5>1 DEF Rss!GotUpTo
      <4> QED BY <1>4, <2>2, <4>2, <4>3
    <3>2. ASSUME NEW d \in Rss!Active(feed'), Rss!Busy, NEW i \in 1 .. Len(worker.queue),
                 NEW e \in 1 .. worker.queue[i] - 1
          PROVE  Rss!Got(d, e)' \/ \E j \in 1 .. i - 1 : worker.queue[j] = e
      <4>1. e \in 1 .. published
        BY <1>2, <1>5, <3>2
      <4>2. CASE d \in Rss!Active(feed) /\ \A x \in Rss!Entries : Rss!Got(d, x) => Rss!Got(d,
                x)'
        <5>1. Rss!Got(d, e) \/ \E j \in 1 .. i - 1 : worker.queue[j] = e
          BY <3>2, <4>2 DEF Rss!CoverInv, Rss!QueueInv
        <5> QED BY <1>2, <4>1, <4>2, <5>1
      <4> QED BY <1>4, <2>2, <4>1, <4>2
    <3> QED BY <2>2, <3>1, <3>2 DEF Rss!QueueInv, Rss!Busy
  <2> QED BY <2>1, <2>2
<1>7. Rss!TodoInv'
  <2>1. CASE worker'.at \in {"off", "asleep"}
    BY <2>1 DEF Rss!TodoInv, Rss!InRooms, Rss!InUsers
  <2>2. CASE worker' = worker
    <3>0. ASSUME NEW d \in Rss!Active(feed'), Rss!Busy, d \in Rss!Active(feed) => Rss!Got(d,
              Head(worker.queue))
          PROVE  Rss!Got(d, Head(worker.queue))'
      <4>1. PICK entry \in Rss!Entries : entry = Head(worker.queue) /\ entry \in 1 .. published
        <5>1. Head(worker.queue) \in 1 .. published
          BY <3>0, WorkerParts
        <5> QED BY <1>2, <5>1
      <4>2. CASE d \in Rss!Active(feed) /\ \A e \in Rss!Entries : Rss!Got(d, e) => Rss!Got(d,
                e)'
        <5>1. Rss!Got(d, entry)
          BY <3>0, <4>1, <4>2
        <5>2. Rss!Got(d, entry)'
          BY <4>2, <5>1
        <5> QED BY <2>2, <4>1, <5>2
      <4>3. CASE \A e \in 1 .. published : Rss!Got(d, e)'
        <5>1. Rss!Got(d, entry)'
          BY <4>1, <4>3
        <5> QED BY <2>2, <4>1, <5>1
      <4> QED BY <1>4, <2>2, <4>2, <4>3
    <3>1. ASSUME NEW d \in Rss!Active(feed'), (Rss!InRooms /\ d \in Rooms) \/ Rss!InUsers,
                 ~worker.failed, d \notin worker.todo
          PROVE  Rss!Got(d, Head(worker.queue))'
      BY <3>0, <3>1 DEF Rss!InRooms, Rss!InUsers, Rss!Busy, Rss!CoverInv, Rss!TodoInv
    <3>2. ASSUME NEW d \in Rss!Active(feed'), worker.at = "sending", worker.to = d
          PROVE  Rss!Got(d, Head(worker.queue))'
      BY <3>0, <3>2 DEF Rss!Busy, Rss!CoverInv, Rss!TodoInv
    <3> QED BY <2>2, <3>1, <3>2 DEF Rss!TodoInv, Rss!InRooms, Rss!InUsers
  <2> QED BY <2>1, <2>2
<1>8. Rss!AimInv'
  BY DEF Rss!AimInv, Rss!InRooms, Rss!InUsers, Rss!CoverInv
<1> QED BY <1>3, <1>6, <1>7, <1>8 DEF Rss!CoverInv

(* Steps of the commands, the site and the process keep what is covered.    *)
LEMMA CoverOutside ==
    ASSUME Rss!FeedsAssumption, Rss!TypeOK, Rss!WorkInv, Rss!CoverInv, Rss!TypeOK',
           Rss!WorkInv',
           UNCHANGED <<feed, worker, since, skipped>>, disk' \in {feed, disk},
           \A d \in Rss!Dests, e \in Rss!Entries : copies'[d][e] >= copies[d][e]
    PROVE  Rss!CoverInv'
<1>1. ASSUME NEW d \in Rss!Active(feed') PROVE Kept(d) /\ Carried(d)
  <2>1. d \in Rss!Dests /\ d \in Rss!Active(feed) /\ feed # None
    BY <1>1, ActiveDests DEF Rss!Active
  <2>2. \A e \in Rss!Entries : Rss!Got(d, e) => Rss!Got(d, e)'
    BY <2>1, GotKept
  <2>3. feed \in {feed, disk} \ {None} /\ feed'.last = feed.last /\ feed'.pending = feed.pending
    BY <2>1
  <2> QED BY <2>1, <2>2, <2>3 DEF Kept, Carried
<1>2. worker' = worker /\ feed' = feed
  OBVIOUS
<1> QED BY <1>1, <1>2, Covered

(* The same where the record changes hands, and some become active.         *)
LEMMA CoverChange ==
    ASSUME Rss!FeedsAssumption, Rss!TypeOK, Rss!WorkInv, Rss!CoverInv, Rss!TypeOK',
           Rss!WorkInv',
           UNCHANGED <<published, disk>>, skipped \subseteq skipped',
           worker' = worker \/ worker'.at \in {"off", "asleep"},
           NEW f \in {feed, disk},
           \A d \in Rss!Active(feed') \cap Rss!Active(feed) :
               /\ f # None /\ d \in Rss!Active(f)
               /\ feed'.last = f.last /\ feed'.pending = f.pending
               /\ since'[d] = since[d]
               /\ \A e \in Rss!Entries : copies'[d][e] >= copies[d][e],
           \A d \in Rss!Active(feed') \ Rss!Active(feed) : since'[d] = published
    PROVE  Rss!CoverInv'
<1>1. ASSUME NEW d \in Rss!Active(feed') PROVE Kept(d) /\ Carried(d)
  <2>0. d \in Rss!Dests
    <3>1. feed' \in Rss!Records \cup {None}
      BY DEF Rss!TypeOK
    <3> QED BY <1>1, <3>1, ActiveAre
  <2>1. CASE d \in Rss!Active(feed)
    <3>1. \A e \in Rss!Entries : Rss!Got(d, e) => Rss!Got(d, e)'
      BY <2>0, <2>1, GotKept
    <3>2. f \in {feed, disk} \ {None} /\ d \in Rss!Active(f) /\ feed'.last = f.last
          /\ feed'.pending = f.pending
      BY <2>1
    <3> QED BY <2>1, <3>1, <3>2 DEF Kept, Carried
  <2>2. CASE d \notin Rss!Active(feed)
    <3>1. \A e \in 1 .. published : Rss!Got(d, e)'
      BY <2>0, <2>2, GotFresh
    <3> QED BY <3>1 DEF Kept, Carried
  <2> QED BY <2>1, <2>2
<1> QED BY <1>1, Covered

LEMMA CoverCommands ==
    ASSUME Rss!FeedsAssumption, Rss!TypeOK, Rss!WorkInv, Rss!CoverInv,
           \/ \E d \in Rss!Dests : (Rss!AddStarts(d) /\ feed # None) \/ Rss!AddEnds(d)
           \/ \E d \in Rss!Dests \cup {None} : Rss!Unsubscribe(d) \/ Rss!SetPauseState(d)
           \/ \E r \in Rooms : Rss!CleanupRoomState(r)
           \/ Rss!ResetRetry \/ Rss!Reload \/ Rss!Crash
    PROVE  Rss!CoverInv'
<1>0. \A d \in Rss!Dests, e \in Rss!Entries : copies[d][e] \in Nat
  BY DEF Rss!TypeOK
<1>1. ASSUME NEW d \in Rss!Dests, Rss!AddStarts(d), feed # None PROVE Rss!CoverInv'
  <2>1. /\ Rss!TypeOK' /\ Rss!WorkInv' /\ UNCHANGED <<published, disk, skipped>>
        /\ worker' = worker \/ worker'.at = "asleep"
        /\ feed'.last = feed.last /\ feed'.pending = feed.pending /\ copies' = Rss!Unseen(d)
        /\ d \notin feed.dests /\ Rss!Active(feed') \subseteq Rss!Active(feed) \cup {d}
        /\ \A c \in Rss!Dests : since'[c] = IF c \in Rss!Active(feed') \ Rss!Active(feed) THEN published
                                        ELSE since[c]
    BY <1>1, KnownAdd
  <2>2. Rss!Active(feed) \subseteq Rss!Dests /\ d \notin Rss!Active(feed)
    BY <2>1, ActiveDests DEF Rss!Active
  <2>3. \A c \in Rss!Active(feed), e \in Rss!Entries : copies'[c][e] >= copies[c][e]
    <3>1. \A c \in Rss!Dests, e \in Rss!Entries : c # d => copies'[c][e] = copies[c][e]
      BY <2>1, UnseenCopies
    <3> QED BY <1>0, <2>2, <3>1
  <2>4. \A c \in Rss!Active(feed') \cap Rss!Active(feed) :
            /\ feed # None /\ c \in Rss!Active(feed)
            /\ feed'.last = feed.last /\ feed'.pending = feed.pending /\ since'[c] = since[c]
            /\ \A e \in Rss!Entries : copies'[c][e] >= copies[c][e]
    BY <1>1, <2>1, <2>2, <2>3
  <2>5. \A c \in Rss!Active(feed') \ Rss!Active(feed) : since'[c] = published
    BY <1>1, <2>1, <2>2
  <2>6. feed \in {feed, disk} /\ skipped \subseteq skipped' /\ UNCHANGED <<published, disk>>
        /\ (worker' = worker \/ worker'.at \in {"off", "asleep"})
    BY <2>1
  <2> QED BY <2>1, <2>4, <2>5, <2>6, CoverChange
<1>2. ASSUME NEW d \in Rss!Dests, Rss!AddEnds(d) PROVE Rss!CoverInv'
  <2>1. /\ Rss!TypeOK' /\ Rss!WorkInv' /\ UNCHANGED <<published, disk, skipped>>
        /\ worker' = worker \/ worker'.at = "asleep"
        /\ Rss!Active(feed') = {d} /\ d \notin Rss!Active(feed) /\ since'[d] = published
    BY <1>2, FirstAdd
  <2>2. Rss!Active(feed') \cap Rss!Active(feed) = {} /\ \A c \in Rss!Active(feed') : since'[c] = published
    BY <2>1
  <2>3. feed \in {feed, disk} /\ skipped \subseteq skipped' /\ UNCHANGED <<published, disk>>
        /\ (worker' = worker \/ worker'.at \in {"off", "asleep"})
    BY <2>1
  <2> QED BY <2>1, <2>2, <2>3, CoverChange
<1>3. ASSUME \/ \E d \in Rss!Dests \cup {None} : Rss!Unsubscribe(d)
             \/ \E r \in Rooms : Rss!CleanupRoomState(r)
      PROVE  Rss!CoverInv'
  <2>1. /\ Rss!TypeOK' /\ Rss!WorkInv' /\ UNCHANGED <<published, disk, skipped, copies, since>>
        /\ feed # None
        /\ worker' = worker \/ worker'.at \in {"off", "asleep"}
        /\ feed' # None => /\ feed'.last = feed.last /\ feed'.pending = feed.pending
                           /\ Rss!Active(feed') \subseteq Rss!Active(feed)
    BY <1>3, Removal
  <2>2. Rss!Active(feed') \subseteq Rss!Active(feed) /\ Rss!Active(feed) \subseteq Rss!Dests
    BY <2>1, ActiveDests DEF Rss!Active
  <2>3. \A c \in Rss!Active(feed') \cap Rss!Active(feed) :
            /\ feed # None /\ c \in Rss!Active(feed)
            /\ feed'.last = feed.last /\ feed'.pending = feed.pending /\ since'[c] = since[c]
            /\ \A e \in Rss!Entries : copies'[c][e] >= copies[c][e]
    <3>1. feed' = None => Rss!Active(feed') = {}
      BY DEF Rss!Active
    <3> QED BY <1>0, <2>1, <2>2, <3>1
  <2>4. feed \in {feed, disk} /\ skipped \subseteq skipped' /\ UNCHANGED <<published, disk>>
        /\ \A c \in Rss!Active(feed') \ Rss!Active(feed) : since'[c] = published
    BY <2>1, <2>2
  <2> QED BY <2>1, <2>3, <2>4, CoverChange
<1>4. ASSUME (\E d \in Rss!Dests \cup {None} : Rss!SetPauseState(d)) \/ Rss!ResetRetry \/ Rss!Reload
      PROVE  Rss!CoverInv'
  <2>1. /\ Rss!TypeOK' /\ Rss!WorkInv' /\ UNCHANGED <<published, disk, skipped, copies>>
        /\ worker'.at \in {"off", "asleep"}
        /\ feed' = None <=> feed = None
        /\ feed' # None => feed'.last = feed.last /\ feed'.pending = feed.pending
        /\ \A c \in Rss!Dests : since'[c] = IF c \in Rss!Active(feed') \ Rss!Active(feed) THEN published
                                        ELSE since[c]
    BY <1>4, Restarts
  <2>2. Rss!Active(feed) \subseteq Rss!Dests /\ Rss!Active(feed') \subseteq Rss!Dests
    <3>1. feed' \in Rss!Records \cup {None}
      BY <2>1 DEF Rss!TypeOK
    <3> QED BY <3>1, ActiveAre, ActiveDests
  <2>3. feed = None => Rss!Active(feed) = {}
    BY DEF Rss!Active
  <2>4. \A c \in Rss!Active(feed') \cap Rss!Active(feed) :
            /\ feed # None /\ c \in Rss!Active(feed)
            /\ feed'.last = feed.last /\ feed'.pending = feed.pending /\ since'[c] = since[c]
            /\ \A e \in Rss!Entries : copies'[c][e] >= copies[c][e]
    BY <1>0, <2>1, <2>2, <2>3
  <2>5. feed \in {feed, disk} /\ skipped \subseteq skipped' /\ UNCHANGED <<published, disk>>
        /\ \A c \in Rss!Active(feed') \ Rss!Active(feed) : since'[c] = published
    BY <2>1, <2>2
  <2> QED BY <2>1, <2>4, <2>5, CoverChange
<1>5. ASSUME Rss!Crash PROVE Rss!CoverInv'
  <2>1. /\ Rss!TypeOK' /\ Rss!WorkInv' /\ UNCHANGED <<published, disk, skipped, copies>>
        /\ worker'.at \in {"off", "asleep"} /\ feed' = disk
        /\ \A c \in Rss!Dests : since'[c] = IF c \in Rss!Active(feed') \ Rss!Active(feed) THEN published
                                        ELSE since[c]
    BY <1>5, Crashes
  <2>2. Rss!Active(feed) \subseteq Rss!Dests /\ Rss!Active(feed') \subseteq Rss!Dests
    BY <2>1, ActiveDests
  <2>3. disk = None => Rss!Active(disk) = {}
    BY DEF Rss!Active
  <2>4. \A c \in Rss!Active(feed') \cap Rss!Active(feed) :
            /\ disk # None /\ c \in Rss!Active(disk)
            /\ feed'.last = disk.last /\ feed'.pending = disk.pending /\ since'[c] = since[c]
            /\ \A e \in Rss!Entries : copies'[c][e] >= copies[c][e]
    BY <1>0, <2>1, <2>2, <2>3
  <2>5. disk \in {feed, disk} /\ skipped \subseteq skipped' /\ UNCHANGED <<published, disk>>
        /\ \A c \in Rss!Active(feed') \ Rss!Active(feed) : since'[c] = published
    BY <2>1, <2>2
  <2> QED BY <2>1, <2>4, <2>5, CoverChange
<1> QED BY <1>1, <1>2, <1>3, <1>4, <1>5

(* The worker's steps take nothing away.                                    *)
LEMMA GotCalm ==
    ASSUME Rss!FeedsAssumption, Rss!TypeOK, Rss!TypeOK', FeedCalm, skipped \subseteq skipped',
           \A d \in Rss!Dests, e \in Rss!Entries : copies'[d][e] >= copies[d][e]
    PROVE  \A d \in Rss!Dests, e \in Rss!Entries : Rss!Got(d, e) => Rss!Got(d, e)'
<1> SUFFICES ASSUME NEW d \in Rss!Dests
             PROVE \A e \in Rss!Entries : Rss!Got(d, e) => Rss!Got(d, e)'
  OBVIOUS
<1> QED BY GotKept DEF FeedCalm

(* The record keeps its cursor, and the checkpoint grows by one who got it. *)
LEMMA RecordCalm ==
    ASSUME Rss!FeedsAssumption, Rss!TypeOK, Rss!WorkInv, Rss!CoverInv, Rss!TypeOK', FeedCalm,
           feed # None,
           Rss!Active(feed') = Rss!Active(feed), feed'.last = feed.last,
           \A d \in Rss!Dests, e \in Rss!Entries : Rss!Got(d, e) => Rss!Got(d, e)',
           \A d \in Rss!Active(feed) : feed'.pending # None /\ d \in feed'.pending.done =>
               \/ feed.pending # None /\ d \in feed.pending.done
                  /\ feed'.pending.entry = feed.pending.entry
               \/ feed'.pending.entry \in Rss!Entries /\ Rss!Got(d, feed'.pending.entry)
    PROVE  Rss!RecordInv'
<1> SUFFICES ASSUME NEW f \in {feed', disk'} \ {None}, NEW d \in Rss!Active(feed'),
    d \in Rss!Active(f)
             PROVE  /\ \A e \in 1 .. f.last : Rss!Got(d, e)'
                    /\ f.pending # None /\ d \in f.pending.done => Rss!Got(d, f.pending.entry)'
  BY DEF Rss!RecordInv, Rss!GotUpTo
<1>1. d \in Rss!Dests /\ d \in Rss!Active(feed)
  BY ActiveDests
<1>2. Kept(d)
  BY <1>1 DEF Kept
<1>3. CASE f = disk' /\ f # feed'
  BY <1>2, <1>3, RecordKept DEF FeedCalm
<1>4. CASE f = feed'
  <2>1. \A e \in 1 .. f.last : Rss!Got(d, e)'
    BY <1>1, <1>2, <1>4, RecordKept
  <2>2. ASSUME f.pending # None, d \in f.pending.done PROVE Rss!Got(d, f.pending.entry)'
    <3>1. CASE feed.pending # None /\ d \in feed.pending.done
               /\ feed'.pending.entry = feed.pending.entry
      BY <1>1, <1>2, <1>4, <3>1, RecordKept
    <3>2. CASE feed'.pending.entry \in Rss!Entries /\ Rss!Got(d, feed'.pending.entry)
      <4>1. PICK e \in Rss!Entries : e = feed'.pending.entry
        BY <3>2
      <4>2. Rss!Got(d, e)'
        BY <1>1, <3>2, <4>1
      <4> QED BY <1>4, <4>1, <4>2
    <3> QED BY <1>1, <1>4, <2>2, <3>1, <3>2
  <2> QED BY <2>1, <2>2
<1> QED BY <1>3, <1>4

(* The queue stays, and with it what precedes each of its entries.          *)
LEMMA QueueCalm ==
    ASSUME Rss!FeedsAssumption, Rss!TypeOK, Rss!WorkInv, Rss!CoverInv, feed # None,
           Rss!Active(feed') = Rss!Active(feed), Rss!Busy, Rss!Busy',
               worker'.queue = worker.queue,
           \A d \in Rss!Dests, e \in Rss!Entries : Rss!Got(d, e) => Rss!Got(d, e)'
    PROVE  Rss!QueueInv'
<1>1. ASSUME NEW d \in Rss!Active(feed), NEW i \in 1 .. Len(worker.queue),
             NEW e \in 1 .. worker.queue[i] - 1
      PROVE  Rss!Got(d, e)' \/ \E j \in 1 .. i - 1 : worker.queue[j] = e
  <2>1. Rss!Got(d, e) \/ \E j \in 1 .. i - 1 : worker.queue[j] = e
    BY <1>1 DEF Rss!CoverInv, Rss!QueueInv
  <2>2. worker.queue[i] \in Nat /\ worker.queue[i] <= published /\ published \in Nat
    BY WorkerParts DEF Rss!TypeOK
  <2>3. e \in 1 .. published
    BY <2>2
  <2>4. d \in Rss!Dests /\ e \in Rss!Entries
    BY <2>3, ActiveDests
  <2> QED BY <2>1, <2>4
<1>2. worker'.at # "fetching"
  BY DEF Rss!Busy
<1> QED BY <1>1, <1>2 DEF Rss!QueueInv

(* Polls.                                                                   *)
LEMMA CoverPoll ==
    ASSUME Rss!FeedsAssumption, Rss!TypeOK, Rss!WorkInv, Rss!CoverInv,
           Rss!Poll \/ Rss!FetchFails
    PROVE  Rss!CoverInv'
<1>1. /\ Rss!TypeOK' /\ Rss!WorkInv' /\ FeedCalm /\ UNCHANGED <<feed, copies, skipped>>
      /\ \/ worker'.at \in {"off", "asleep"}
         \/ worker'.at = "fetching" /\ feed # None /\ worker'.last = feed.last
  BY PollStep
<1>2. UNCHANGED <<feed, disk, since, copies, skipped>>
  BY <1>1 DEF FeedCalm
<1>3. Rss!RecordInv'
  BY <1>2 DEF Rss!CoverInv, Rss!RecordInv, Rss!GotUpTo, Rss!Got
<1>4. Rss!QueueInv'
  <2>1. CASE worker'.at \in {"off", "asleep"}
    BY <2>1 DEF Rss!QueueInv, Rss!Busy
  <2>2. CASE worker'.at = "fetching" /\ feed # None /\ worker'.last = feed.last
    <3>1. \A d \in Rss!Active(feed) : Rss!GotUpTo(d, feed.last)
      BY <2>2 DEF Rss!CoverInv, Rss!RecordInv
    <3>2. \A d \in Rss!Active(feed') : \A e \in 1 .. worker'.last : Rss!Got(d, e)'
      BY <1>2, <2>2, <3>1 DEF Rss!GotUpTo, Rss!Got
    <3> QED BY <2>2, <3>2 DEF Rss!QueueInv, Rss!Busy, Rss!GotUpTo
  <2> QED BY <1>1, <2>1, <2>2
<1>5. Rss!AimInv' /\ Rss!TodoInv'
  BY <1>1 DEF Rss!AimInv, Rss!TodoInv, Rss!InRooms, Rss!InUsers
<1> QED BY <1>3, <1>4, <1>5 DEF Rss!CoverInv

LEMMA CoverFetched ==
    ASSUME Rss!FeedsAssumption, Rss!TypeOK, Rss!WorkInv, Rss!CoverInv, Rss!Fetched
    PROVE  Rss!CoverInv'
<1>1. /\ Rss!TypeOK' /\ Rss!WorkInv' /\ FeedCalm /\ copies' = copies /\ skipped \subseteq skipped'
      /\ worker.at = "fetching" /\ feed # None
  BY FetchedStep
<1>2. \A d \in Rss!Dests, e \in Rss!Entries : copies[d][e] \in Nat
  BY DEF Rss!TypeOK
<1>3. \A d \in Rss!Dests, e \in Rss!Entries : Rss!Got(d, e) => Rss!Got(d, e)'
  BY <1>1, <1>2, GotCalm
<1>4. CASE worker'.at = "asleep" /\ feed' # None /\ Rss!Active(feed') = Rss!Active(feed)
           /\ \A e \in 1 .. published : e \in skipped'
  <2>1. ASSUME NEW d \in Rss!Active(feed') PROVE Kept(d) /\ Carried(d)
    BY <1>4 DEF Kept, Carried, Rss!Got
  <2>2. disk' \in {feed, disk} /\ published' = published
    BY <1>1 DEF FeedCalm
  <2> QED BY <1>1, <1>4, <2>1, <2>2, Covered
<1>5. CASE feed' = feed /\ worker'.at = "asleep"
  <2>1. ASSUME NEW d \in Rss!Active(feed') PROVE Kept(d) /\ Carried(d)
    <3>1. d \in Rss!Dests /\ feed \in {feed, disk} \ {None}
      BY <1>1, <1>5, ActiveDests
    <3> QED BY <1>3, <1>5, <3>1 DEF Kept, Carried
  <2>2. disk' \in {feed, disk} /\ published' = published
    BY <1>1 DEF FeedCalm
  <2> QED BY <1>1, <1>5, <2>1, <2>2, Covered
<1>6. CASE /\ feed' = feed /\ worker'.at = "next" /\ worker'.queue = Queued
           /\ \A e \in worker.last + 1 .. published : e \in skipped' \/ e \in Rss!Items(Queued)
  <2>1. Rss!RecordInv'
    <3>1. feed \in Rss!Records
      BY <1>1 DEF Rss!TypeOK
    <3> QED BY <1>1, <1>3, <1>6, RecordCalm
  <2>2. PICK q \in Seq(Rss!Entries), n \in Nat,
            p \in Nat : q = Queued /\ n = worker.last /\ p = published
    BY <1>1, QueuedEntries, WorkerParts DEF Rss!TypeOK
  <2>3. /\ \A e \in Rss!Items(q) : e <= p
        /\ \A i, j \in 1 .. Len(q) : i < j => q[i] < q[j]
    BY <1>1, <2>2, QueuedEntries
  <2>4. ASSUME NEW d \in Rss!Active(feed), NEW i \in 1 .. Len(q), NEW e \in 1 .. q[i] - 1
        PROVE  Rss!Got(d, e)' \/ \E j \in 1 .. i - 1 : q[j] = e
    <3>0. q[i] \in Rss!Entries /\ q[i] \in Rss!Items(q) /\ q[i] \in Nat
      BY <2>4 DEF Rss!Items, Rss!Entries, Rss!FeedsAssumption
    <3>1. e \in 1 .. p /\ e < q[i]
      BY <2>2, <2>3, <3>0
    <3>2. d \in Rss!Dests /\ e \in Rss!Entries
      BY <2>2, <3>1, ActiveDests
    <3>3. CASE e <= n
      <4>1. Rss!Got(d, e)
        BY <1>1, <2>2, <3>1, <3>3 DEF Rss!CoverInv, Rss!QueueInv, Rss!GotUpTo
      <4> QED BY <1>3, <3>2, <4>1
    <3>4. CASE e > n
      <4>1. e \in worker.last + 1 .. published
        BY <2>2, <3>1, <3>4
      <4>2. CASE e \in skipped'
        BY <4>2 DEF Rss!Got
      <4>3. CASE e \in Rss!Items(q)
        <5>1. PICK j \in 1 .. Len(q) : q[j] = e
          BY <4>3 DEF Rss!Items
        <5>2. j < i
          <6>1. ~(i < j)
            BY <2>3, <3>0, <3>1, <5>1
          <6>2. i # j
            BY <3>0, <3>1, <5>1
          <6> QED BY <6>1, <6>2
        <5>3. j \in 1 .. i - 1
          BY <5>2
        <5> QED BY <5>1, <5>3
      <4> QED BY <1>6, <2>2, <4>1, <4>2, <4>3
    <3> QED BY <2>2, <3>1, <3>3, <3>4
  <2>5. Rss!QueueInv'
    BY <1>6, <2>2, <2>4 DEF Rss!QueueInv, Rss!Busy
  <2>6. Rss!AimInv' /\ Rss!TodoInv'
    BY <1>6 DEF Rss!AimInv, Rss!TodoInv, Rss!InRooms, Rss!InUsers
  <2> QED BY <2>1, <2>5, <2>6 DEF Rss!CoverInv
<1> QED BY <1>4, <1>5, <1>6, FetchedStep

(* An entry is begun: whoever the checkpoint names has got it.              *)
LEMMA CoverNext ==
    ASSUME Rss!FeedsAssumption, Rss!TypeOK, Rss!WorkInv, Rss!CoverInv, Rss!NextEntry
    PROVE  Rss!CoverInv'
<1>1. /\ Rss!TypeOK' /\ Rss!WorkInv' /\ FeedCalm /\ UNCHANGED <<copies, skipped>>
      /\ worker.at = "next" /\ feed # None /\ feed' # None
      /\ feed'.last = feed.last /\ feed'.dests = feed.dests /\ Rss!Active(feed') = Rss!Active(feed)
  BY NextEntryStep
<1>2. \A d \in Rss!Dests, e \in Rss!Entries : copies[d][e] \in Nat
  BY DEF Rss!TypeOK
<1>3. \A d \in Rss!Dests, e \in Rss!Entries : Rss!Got(d, e) => Rss!Got(d, e)'
  BY <1>1, <1>2, GotCalm
<1>4. CASE worker'.at = "asleep" /\ feed' = feed
  <2>1. ASSUME NEW d \in Rss!Active(feed') PROVE Kept(d) /\ Carried(d)
    <3>1. d \in Rss!Dests /\ feed \in {feed, disk} \ {None}
      BY <1>1, <1>4, ActiveDests
    <3> QED BY <1>3, <1>4, <3>1 DEF Kept, Carried
  <2>2. disk' \in {feed, disk} /\ published' = published
    BY <1>1 DEF FeedCalm
  <2> QED BY <1>1, <1>4, <2>1, <2>2, Covered
<1>5. CASE /\ worker'.at = "rooms" /\ worker'.queue = worker.queue
           /\ feed'.pending # None /\ feed'.pending.entry = Head(worker.queue)
           /\ worker'.todo = (Rss!Active(feed) \cap Rooms) \ feed'.pending.done
           /\ \/ feed'.pending = feed.pending
              \/ feed.pending = None /\ feed'.pending.done = {}
  <2>1. \A d \in Rss!Active(feed) : feed'.pending # None /\ d \in feed'.pending.done =>
            feed'.pending = feed.pending
    BY <1>5
  <2>2. Rss!RecordInv'
    BY <1>1, <1>3, <2>1, RecordCalm
  <2>3. Rss!QueueInv'
    BY <1>1, <1>3, <1>5, QueueCalm DEF Rss!Busy
  <2>4. Rss!AimInv'
    BY <1>5 DEF Rss!AimInv, Rss!InRooms, Rss!InUsers
  <2>5. ASSUME NEW d \in Rss!Active(feed), d \in Rooms, d \notin worker'.todo
        PROVE  Rss!Got(d, Head(worker.queue))'
    <3>1. d \in Rss!Dests /\ Head(worker.queue) \in Rss!Entries
      BY <1>1, ActiveDests, WorkerParts DEF Rss!Busy
    <3>2. d \in feed'.pending.done
      BY <1>5, <2>5
    <3>3. feed.pending # None /\ d \in feed.pending.done /\ feed.pending.entry = Head(worker.queue)
      BY <1>5, <2>1, <3>2
    <3>4. Rss!Got(d, Head(worker.queue))
      BY <1>1, <3>3 DEF Rss!CoverInv, Rss!RecordInv
    <3>5. PICK entry \in Rss!Entries : entry = Head(worker.queue)
      BY <3>1
    <3>6. Rss!Got(d, entry)'
      BY <1>3, <3>1, <3>4, <3>5
    <3> QED BY <1>5, <3>5, <3>6
  <2>6. Rss!TodoInv'
    <3>1. ASSUME NEW d \in Rss!Active(feed'), (Rss!InRooms /\ d \in Rooms)' \/ Rss!InUsers'
          PROVE  worker'.failed \/ d \in worker'.todo \/ Rss!Got(d, Head(worker.queue))'
      BY <1>1, <1>5, <2>5, <3>1 DEF Rss!InRooms, Rss!InUsers
    <3> QED BY <1>5, <3>1 DEF Rss!TodoInv, Rss!InRooms, Rss!InUsers
  <2> QED BY <2>2, <2>3, <2>4, <2>6 DEF Rss!CoverInv
<1> QED BY <1>4, <1>5, NextEntryStep

LEMMA CoverSend ==
    ASSUME Rss!FeedsAssumption, Rss!TypeOK, Rss!WorkInv, Rss!CoverInv, NEW d \in Rss!Dests,
           Rss!Send(d) \/ Rss!SendRefused(d)
    PROVE  Rss!CoverInv'
<1>1. /\ Rss!TypeOK' /\ Rss!WorkInv' /\ FeedCalm /\ UNCHANGED <<feed, skipped>> /\ feed # None
      /\ worker.at \in {"rooms", "users"} /\ d \in worker.todo
      /\ worker'.todo = worker.todo \ {d} /\ worker'.queue = worker.queue
      /\ worker'.last = worker.last
      /\ Head(worker.queue) \in Rss!Entries /\ Head(worker.queue) <= published
      /\ \/ /\ worker'.at = "sending" /\ worker'.to = d /\ worker'.failed = worker.failed
            /\ \A c \in Rss!Dests, e \in Rss!Entries :
                   copies'[c][e] = IF c = d /\ e = Head(worker.queue) THEN copies[c][e] + 1
                                   ELSE copies[c][e]
         \/ worker'.at = worker.at /\ worker'.failed = TRUE /\ copies' = copies
  BY SendStep
<1>2. PICK entry \in Rss!Entries : entry = Head(worker.queue)
  BY <1>1
<1>3. \A c \in Rss!Dests, e \in Rss!Entries : copies[c][e] \in Nat
  BY DEF Rss!TypeOK
<1>4. \A c \in Rss!Dests, e \in Rss!Entries : Rss!Got(c, e) => Rss!Got(c, e)'
  <2>1. \A c \in Rss!Dests, e \in Rss!Entries : copies'[c][e] >= copies[c][e]
    BY <1>1, <1>3
  <2> QED BY <1>1, <2>1, GotCalm
<1>5. feed' = feed /\ Rss!Active(feed') = Rss!Active(feed)
  BY <1>1
<1>6. Rss!RecordInv'
  <2>1. feed' # None /\ feed'.last = feed.last /\ feed'.pending = feed.pending
    BY <1>1
  <2> QED BY <1>1, <1>4, <1>5, <2>1, RecordCalm
<1>7. Rss!QueueInv'
  BY <1>1, <1>4, <1>5, QueueCalm DEF Rss!Busy
<1>8. Rss!AimInv' /\ (Rss!InRooms' <=> Rss!InRooms) /\ (Rss!InUsers' <=> Rss!InUsers)
  <2>1. worker.at = "rooms" => worker.todo \subseteq Rooms /\ d \in Rooms
    BY <1>1 DEF Rss!CoverInv, Rss!AimInv, Rss!InRooms
  <2>2. worker.at = "users" => worker.todo \subseteq Users /\ d \in Users /\ d \notin Rooms
    BY <1>1 DEF Rss!CoverInv, Rss!AimInv, Rss!InUsers, Rss!FeedsAssumption
  <2>3. (Rss!InRooms' <=> Rss!InRooms) /\ (Rss!InUsers' <=> Rss!InUsers)
    BY <1>1, <2>1, <2>2 DEF Rss!InRooms, Rss!InUsers
  <2> QED BY <1>1, <2>3 DEF Rss!CoverInv, Rss!AimInv
<1>9. worker'.at = "sending" => Rss!Got(d, entry)'
  <2>1. worker'.at = "sending" => copies'[d][entry] > 0
    BY <1>1, <1>2, <1>3
  <2> QED BY <2>1 DEF Rss!Got
<1>10. Rss!TodoInv'
  <2>1. ASSUME NEW c \in Rss!Active(feed), (Rss!InRooms /\ c \in Rooms) \/ Rss!InUsers
        PROVE  worker'.failed \/ c \in worker'.todo \/ Rss!Got(c, entry)'
    <3>1. c \in Rss!Dests
      BY ActiveDests
    <3>2. worker.failed \/ c \in worker.todo \/ Rss!Got(c, entry)
      BY <1>2, <2>1 DEF Rss!CoverInv, Rss!TodoInv
    <3>3. worker.failed => worker'.failed
      BY <1>1
    <3>4. c \in worker.todo => c \in worker'.todo \/ c = d
      BY <1>1
    <3> QED BY <1>1, <1>4, <1>9, <3>1, <3>2, <3>3, <3>4
  <2>2. worker'.at = "sending" => worker'.to = d
    BY <1>1
  <2>3. Head(worker'.queue) = entry
    BY <1>1, <1>2
  <2> QED BY <1>5, <1>8, <1>9, <2>1, <2>2, <2>3 DEF Rss!TodoInv
<1> QED BY <1>6, <1>7, <1>8, <1>10 DEF Rss!CoverInv

LEMMA CoverAck ==
    ASSUME Rss!FeedsAssumption, Rss!TypeOK, Rss!WorkInv, Rss!CoverInv, Rss!Ack
    PROVE  Rss!CoverInv'
<1>1. /\ Rss!TypeOK' /\ Rss!WorkInv' /\ FeedCalm /\ UNCHANGED <<copies, skipped>>
      /\ worker.at = "sending" /\ worker.to \in Rss!Dests /\ feed # None /\ feed' # None
      /\ feed'.last = feed.last /\ feed'.dests = feed.dests /\ Rss!Active(feed') = Rss!Active(feed)
  BY AckStep
<1>2. \A d \in Rss!Dests, e \in Rss!Entries : copies[d][e] \in Nat
  BY DEF Rss!TypeOK
<1>3. \A d \in Rss!Dests, e \in Rss!Entries : Rss!Got(d, e) => Rss!Got(d, e)'
  BY <1>1, <1>2, GotCalm
<1>4. PICK entry \in Rss!Entries : entry = Head(worker.queue)
  BY <1>1, ActiveDests, WorkerParts DEF Rss!Busy
<1>5. CASE worker'.at = "asleep" /\ feed' = feed
  <2>1. ASSUME NEW d \in Rss!Active(feed') PROVE Kept(d) /\ Carried(d)
    <3>1. d \in Rss!Dests /\ feed \in {feed, disk} \ {None}
      BY <1>1, <1>5, ActiveDests
    <3> QED BY <1>3, <1>5, <3>1 DEF Kept, Carried
  <2>2. disk' \in {feed, disk} /\ published' = published
    BY <1>1 DEF FeedCalm
  <2> QED BY <1>1, <1>5, <2>1, <2>2, Covered
<1>6. CASE /\ worker'.at = IF worker.to \in Rooms THEN "rooms" ELSE "users"
           /\ worker'.queue = worker.queue /\ worker'.todo = worker.todo
           /\ worker'.failed = worker.failed
           /\ feed.pending # None /\ feed.pending.entry = Head(worker.queue)
           /\ feed'.pending.entry = feed.pending.entry
           /\ feed'.pending.done = feed.pending.done \cup {worker.to}
  <2>1. \A d \in Rss!Active(feed) : feed'.pending # None /\ d \in feed'.pending.done =>
            \/ feed.pending # None /\ d \in feed.pending.done
               /\ feed'.pending.entry = feed.pending.entry
            \/ feed'.pending.entry \in Rss!Entries /\ Rss!Got(d, feed'.pending.entry)
    <3> SUFFICES ASSUME NEW d \in Rss!Active(feed), d \in feed'.pending.done,
        d \notin feed.pending.done
                 PROVE  feed'.pending.entry \in Rss!Entries /\ Rss!Got(d, feed'.pending.entry)
      BY <1>6
    <3>1. worker.to = d
      BY <1>6
    <3>2. Rss!Got(d, Head(worker.queue))
      BY <1>1, <3>1 DEF Rss!CoverInv, Rss!TodoInv
    <3> QED BY <1>4, <1>6, <3>2
  <2>2. Rss!RecordInv'
    BY <1>1, <1>3, <2>1, RecordCalm
  <2>3. worker'.at \in {"rooms", "users"}
    BY <1>6
  <2>4. Rss!QueueInv'
    BY <1>1, <1>3, <1>6, <2>3, QueueCalm DEF Rss!Busy
  <2>5. (Rss!InRooms' <=> Rss!InRooms) /\ (Rss!InUsers' <=> Rss!InUsers)
    BY <1>1, <1>6 DEF Rss!InRooms, Rss!InUsers
  <2>6. Rss!AimInv'
    BY <1>6, <2>5 DEF Rss!CoverInv, Rss!AimInv
  <2>7. ASSUME NEW d \in Rss!Active(feed), (Rss!InRooms /\ d \in Rooms) \/ Rss!InUsers
        PROVE  worker'.failed \/ d \in worker'.todo \/ Rss!Got(d, entry)'
    <3>1. worker.failed \/ d \in worker.todo \/ Rss!Got(d, entry)
      BY <1>4, <2>7 DEF Rss!CoverInv, Rss!TodoInv
    <3>2. d \in Rss!Dests
      BY ActiveDests
    <3> QED BY <1>3, <1>6, <3>1, <3>2
  <2>8. Rss!TodoInv'
    BY <1>1, <1>4, <1>6, <2>3, <2>5, <2>7 DEF Rss!TodoInv
  <2> QED BY <2>2, <2>4, <2>6, <2>8 DEF Rss!CoverInv
<1> QED BY <1>5, <1>6, AckStep

(* The rooms are served: of the users, those the checkpoint names are too.  *)
LEMMA CoverServed ==
    ASSUME Rss!FeedsAssumption, Rss!TypeOK, Rss!WorkInv, Rss!CoverInv, Rss!RoomsServed
    PROVE  Rss!CoverInv'
<1>1. /\ Rss!TypeOK' /\ Rss!WorkInv' /\ FeedCalm /\ UNCHANGED <<feed, copies,
                                                                skipped>> /\ feed # None
      /\ worker.at = "rooms" /\ worker.todo = {} /\ worker'.at = "users"
      /\ worker'.queue = worker.queue /\ worker'.failed = worker.failed
      /\ worker'.todo = (Rss!Active(feed) \cap Users) \
                            (IF feed.pending = None THEN {} ELSE feed.pending.done)
  BY ServedStep
<1>2. \A d \in Rss!Dests, e \in Rss!Entries : copies[d][e] \in Nat
  BY DEF Rss!TypeOK
<1>3. \A d \in Rss!Dests, e \in Rss!Entries : Rss!Got(d, e) => Rss!Got(d, e)'
  BY <1>1, <1>2, GotCalm
<1>4. PICK entry \in Rss!Entries : entry = Head(worker.queue)
  BY <1>1, ActiveDests, WorkerParts DEF Rss!Busy
<1>5. feed' = feed /\ Rss!Active(feed') = Rss!Active(feed) /\ feed'.pending = feed.pending
  BY <1>1
<1>6. Rss!RecordInv'
  BY <1>1, <1>3, <1>5, RecordCalm
<1>7. Rss!QueueInv'
  BY <1>1, <1>3, <1>5, QueueCalm DEF Rss!Busy
<1>8. Rss!AimInv'
  BY <1>1 DEF Rss!AimInv, Rss!InRooms, Rss!InUsers
<1>9. ASSUME NEW d \in Rss!Active(feed)
      PROVE  worker'.failed \/ d \in worker'.todo \/ Rss!Got(d, entry)'
  <2>1. d \in Rss!Dests /\ (d \in Rooms \/ d \in Users)
    BY ActiveDests DEF Rss!Dests
  <2>2. CASE d \in Rooms
    <3>1. worker.failed \/ Rss!Got(d, entry)
      BY <1>1, <1>4, <2>2 DEF Rss!CoverInv, Rss!TodoInv, Rss!InRooms
    <3> QED BY <1>1, <1>3, <2>1, <3>1
  <2>3. CASE d \in Users /\ d \notin worker'.todo
    <3>1. feed.pending # None /\ d \in feed.pending.done
      BY <1>1, <2>3
    <3>2. feed.pending.entry = entry
      BY <1>1, <1>4, <3>1 DEF Rss!WorkInv
    <3>3. Rss!Got(d, entry)
      BY <1>1, <3>1, <3>2 DEF Rss!CoverInv, Rss!RecordInv
    <3> QED BY <1>3, <2>1, <3>3
  <2> QED BY <2>1, <2>2, <2>3
<1>10. Rss!TodoInv'
  BY <1>1, <1>4, <1>5, <1>9 DEF Rss!TodoInv
<1> QED BY <1>6, <1>7, <1>8, <1>10 DEF Rss!CoverInv

(* The cursor moves past an entry that everybody active has got.            *)
LEMMA CoverDone ==
    ASSUME Rss!FeedsAssumption, Rss!TypeOK, Rss!WorkInv, Rss!CoverInv, Rss!EntryDone
    PROVE  Rss!CoverInv'
<1>1. /\ Rss!TypeOK' /\ Rss!WorkInv' /\ FeedCalm /\ UNCHANGED <<copies, skipped>>
      /\ worker.at = "users" /\ worker.todo = {} /\ feed # None /\ feed' # None
      /\ feed'.dests = feed.dests /\ Rss!Active(feed') = Rss!Active(feed)
      /\ worker.queue \in Seq(Rss!Entries) /\ worker.queue # <<>>
  BY DoneStep
<1>2. \A d \in Rss!Dests, e \in Rss!Entries : copies[d][e] \in Nat
  BY DEF Rss!TypeOK
<1>3. \A d \in Rss!Dests, e \in Rss!Entries : Rss!Got(d, e) => Rss!Got(d, e)'
  BY <1>1, <1>2, GotCalm
<1>4. CASE worker'.at = "asleep" /\ feed' = feed
  <2>1. ASSUME NEW d \in Rss!Active(feed') PROVE Kept(d) /\ Carried(d)
    <3>1. d \in Rss!Dests /\ feed \in {feed, disk} \ {None}
      BY <1>1, <1>4, ActiveDests
    <3> QED BY <1>3, <1>4, <3>1 DEF Kept, Carried
  <2>2. disk' \in {feed, disk} /\ published' = published
    BY <1>1 DEF FeedCalm
  <2> QED BY <1>1, <1>4, <2>1, <2>2, Covered
<1>5. CASE /\ ~worker.failed /\ feed'.last = Head(worker.queue) /\ feed'.pending = None
           /\ worker'.at = "asleep" \/ (worker'.at = "next"
                                         /\ worker'.queue = Tail(worker.queue))
  <2>1. PICK q \in Seq(Rss!Entries) : q = worker.queue /\ q # <<>>
    BY <1>1
  <2>2. /\ Len(q) \in Nat /\ Head(q) = q[1] /\ 1 \in 1 .. Len(q) /\ Head(q) \in Rss!Entries
        /\ Tail(q) \in Seq(Rss!Entries) /\ Len(Tail(q)) = Len(q) - 1
        /\ \A i \in 1 .. Len(q) - 1 : Tail(q)[i] = q[i + 1]
    BY <2>1
  <2>3. ASSUME NEW d \in Rss!Active(feed) PROVE Rss!Got(d, Head(q))
    BY <1>1, <1>5, <2>1, <2>3 DEF Rss!CoverInv, Rss!TodoInv, Rss!InUsers
  <2>4. ASSUME NEW d \in Rss!Active(feed), NEW i \in 1 .. Len(q), NEW e \in 1 .. q[i] - 1
        PROVE  d \in Rss!Dests /\ e \in Rss!Entries /\ (Rss!Got(d,
                   e) \/ \E j \in 1 .. i - 1 : q[j] = e)
    <3>1. Rss!Got(d, e) \/ \E j \in 1 .. i - 1 : q[j] = e
      BY <1>1, <2>1, <2>4 DEF Rss!CoverInv, Rss!QueueInv, Rss!Busy
    <3>2. PICK x \in Rss!Entries : x = q[i]
      BY <2>1, <2>4
    <3>3. e \in Rss!Entries
      BY <2>4, <3>2 DEF Rss!Entries, Rss!FeedsAssumption
    <3> QED BY <3>1, <3>3, ActiveDests
  <2>5. ASSUME NEW d \in Rss!Active(feed), NEW e \in 1 .. Head(q) PROVE Rss!Got(d, e)'
    <3>0. d \in Rss!Dests
      BY ActiveDests
    <3>1. CASE e = Head(q)
      BY <1>3, <2>2, <2>3, <3>0, <3>1
    <3>2. CASE e # Head(q)
      <4>1. q[1] \in Nat
        BY <2>2 DEF Rss!Entries, Rss!FeedsAssumption
      <4>2. e \in 1 .. q[1] - 1
        BY <2>2, <3>2, <4>1
      <4>3. Rss!Got(d, e) /\ e \in Rss!Entries
        <5>1. e \in Rss!Entries /\ (Rss!Got(d, e) \/ \E j \in 1 .. 1 - 1 : q[j] = e)
          BY <2>2, <2>4, <4>2
        <5> QED BY <5>1
      <4> QED BY <1>3, <3>0, <4>3
    <3> QED BY <3>1, <3>2
  <2>6. Rss!RecordInv'
    <3>1. ASSUME NEW d \in Rss!Active(feed'), NEW f \in {feed', disk'} \ {None},
              d \in Rss!Active(f)
          PROVE  /\ \A e \in 1 .. f.last : Rss!Got(d, e)'
                 /\ f.pending # None /\ d \in f.pending.done => Rss!Got(d, f.pending.entry)'
      <4>1. CASE f = feed'
        BY <1>1, <1>5, <2>1, <2>5, <3>1, <4>1
      <4>2. CASE f = disk' /\ f # feed'
        <5>1. Kept(d) /\ f \in {feed, disk} \ {None}
          BY <1>1, <1>3, <3>1, <4>2, ActiveDests DEF Kept, FeedCalm
        <5> QED BY <1>1, <3>1, <5>1, RecordKept
      <4> QED BY <3>1, <4>1, <4>2
    <3> QED BY <3>1 DEF Rss!RecordInv, Rss!GotUpTo
  <2>7. Rss!QueueInv'
    <3>1. CASE worker'.at = "asleep"
      BY <3>1 DEF Rss!QueueInv, Rss!Busy
    <3>2. CASE worker'.at = "next" /\ worker'.queue = Tail(worker.queue)
      <4>1. PICK t \in Seq(Rss!Entries) : t = Tail(q)
        BY <2>2
      <4>2. ASSUME NEW d \in Rss!Active(feed), NEW i \in 1 .. Len(t), NEW e \in 1 .. t[i] - 1
            PROVE  Rss!Got(d, e)' \/ \E j \in 1 .. i - 1 : t[j] = e
        <5>1. i + 1 \in 1 .. Len(q) /\ t[i] = q[i + 1]
          BY <2>2, <4>1
        <5>2. /\ d \in Rss!Dests /\ e \in Rss!Entries
              /\ Rss!Got(d, e) \/ \E j \in 1 .. i : q[j] = e
          <6>1. PICK k \in 1 .. Len(q) : k = i + 1
            BY <5>1
          <6>2. e \in 1 .. q[k] - 1
            BY <5>1, <6>1
          <6>3. d \in Rss!Dests /\ e \in Rss!Entries /\ (Rss!Got(d,
                    e) \/ \E j \in 1 .. k - 1 : q[j] = e)
            BY <2>4, <6>2
          <6> QED BY <6>1, <6>3
        <5>3. CASE Rss!Got(d, e)
          BY <1>3, <5>2, <5>3
        <5>4. ASSUME NEW j \in 1 .. i, q[j] = e
              PROVE  Rss!Got(d, e)' \/ \E k \in 1 .. i - 1 : t[k] = e
          <6>1. CASE j = 1
            <7>1. Rss!Got(d, e)
              BY <2>2, <2>3, <5>4, <6>1
            <7> QED BY <1>3, <5>2, <7>1
          <6>2. CASE j # 1
            <7>1. j - 1 \in 1 .. i - 1 /\ j - 1 \in 1 .. Len(q) - 1
              BY <2>2, <4>1, <6>2
            <7>2. t[j - 1] = e
              BY <2>2, <4>1, <5>4, <7>1
            <7> QED BY <7>1, <7>2
          <6> QED BY <6>1, <6>2
        <5> QED BY <5>2, <5>3, <5>4
      <4> QED BY <1>1, <2>1, <3>2, <4>1, <4>2 DEF Rss!QueueInv, Rss!Busy
    <3> QED BY <1>5, <3>1, <3>2
  <2>8. Rss!AimInv' /\ Rss!TodoInv'
    BY <1>5 DEF Rss!AimInv, Rss!TodoInv, Rss!InRooms, Rss!InUsers
  <2> QED BY <2>6, <2>7, <2>8 DEF Rss!CoverInv
<1> QED BY <1>4, <1>5, DoneStep

(* Every step.                                                              *)
LEMMA CoverStep ==
    ASSUME Rss!FeedsAssumption, Rss!TypeOK, Rss!WorkInv, Rss!CoverInv, [Rss!Next]_(Rss!vars)
    PROVE  Rss!TypeOK' /\ Rss!WorkInv' /\ Rss!CoverInv'
<1>1. CASE \/ Rss!Publish
           \/ \E r \in Rooms : Rss!LeaveOrJoin(r)
           \/ \E d \in Rss!Dests : \/ (Rss!AddStarts(d) /\ feed = None)
                               \/ Rss!AddFails(d) \/ Rss!BurstEnds(d) \/ Rss!BurstFails(d)
           \/ Rss!Flush \/ UNCHANGED Rss!vars
  BY <1>1, OutsideSteps, CoverOutside
<1>2. CASE \E d \in Rss!Dests : Rss!AddStarts(d) /\ feed # None
  <2>1. Rss!TypeOK' /\ Rss!WorkInv'
    BY <1>2, KnownAdd
  <2> QED BY <1>2, <2>1, CoverCommands
<1>3. CASE \E d \in Rss!Dests : Rss!AddEnds(d)
  <2>1. Rss!TypeOK' /\ Rss!WorkInv'
    BY <1>3, FirstAdd
  <2> QED BY <1>3, <2>1, CoverCommands
<1>4. CASE (\E d \in Rss!Dests \cup {None} : Rss!Unsubscribe(d)) \/ \E r \in Rooms : Rss!CleanupRoomState(r)
  <2>1. Rss!TypeOK' /\ Rss!WorkInv'
    BY <1>4, Removal
  <2> QED BY <1>4, <2>1, CoverCommands
<1>5. CASE (\E d \in Rss!Dests \cup {None} : Rss!SetPauseState(d)) \/ Rss!ResetRetry \/ Rss!Reload
  <2>1. Rss!TypeOK' /\ Rss!WorkInv'
    BY <1>5, Restarts
  <2> QED BY <1>5, <2>1, CoverCommands
<1>6. CASE Rss!Crash
  <2>1. Rss!TypeOK' /\ Rss!WorkInv'
    BY <1>6, Crashes
  <2> QED BY <1>6, <2>1, CoverCommands
<1>7. CASE Rss!Poll \/ Rss!FetchFails
  BY <1>7, PollStep, CoverPoll
<1>8. CASE Rss!Fetched
  BY <1>8, FetchedStep, CoverFetched
<1>9. CASE Rss!NextEntry
  BY <1>9, NextEntryStep, CoverNext
<1>10. CASE \E d \in Rss!Dests : Rss!Send(d) \/ Rss!SendRefused(d)
  BY <1>10, SendStep, CoverSend
<1>11. CASE Rss!Ack
  BY <1>11, AckStep, CoverAck
<1>12. CASE Rss!RoomsServed
  BY <1>12, ServedStep, CoverServed
<1>13. CASE Rss!EntryDone
  BY <1>13, DoneStep, CoverDone
<1> QED BY <1>1, <1>2, <1>3, <1>4, <1>5, <1>6, <1>7, <1>8, <1>9, <1>10, <1>11, <1>12, <1>13
     DEF Rss!Next

(* While nothing excuses a second copy.                                     *)
LEMMA KnowsKept ==
    ASSUME Rss!TypeOK, Rss!WorkInv, feed # None, feed' # None, feed'.last = feed.last,
           feed'.pending = feed.pending, cut \subseteq cut',
           worker.at = "sending" =>
               worker' = worker \/ <<worker.to, Head(worker.queue)>> \in cut'
    PROVE  \A d \in Rss!Dests, e \in Rss!Entries : Rss!Knows(d, e) => Rss!Knows(d, e)'
<1> SUFFICES ASSUME NEW d \in Rss!Dests, NEW e \in Rss!Entries, Rss!Knows(d, e)
             PROVE Rss!Knows(d, e)'
  OBVIOUS
<1>1. CASE e <= feed.last
  BY <1>1 DEF Rss!Knows
<1>2. CASE feed.pending # None /\ feed.pending.entry = e
           /\ (d \in feed.pending.done \/ <<d, e>> \in cut)
  BY <1>2 DEF Rss!Knows
<1>3. CASE feed.pending # None /\ feed.pending.entry = e /\ worker.at = "sending" /\ worker.to = d
  <2>1. Head(worker.queue) = e
    BY <1>3 DEF Rss!WorkInv
  <2> QED BY <1>3, <2>1 DEF Rss!Knows
<1> QED BY <1>1, <1>2, <1>3 DEF Rss!Knows

(* Steps outside: a room may be shown its history.                          *)
LEMMA OrderOutside ==
    ASSUME Rss!FeedsAssumption, Rss!TypeOK, Rss!WorkInv, Rss!Orderly, Rss!TypeOK',
           UNCHANGED <<feed, worker, cut, wanted>>, published' >= published,
           \A d \in Rss!Dests : bursting'[d] \in {bursting[d], None},
           (\E d \in Rss!Dests : Rss!BurstEnds(d)) \/ copies' = copies
    PROVE  Rss!Orderly'
<1>1. Rss!OrderInv' /\ Rss!Subscribed'
  BY DEF Rss!OrderInv, Rss!Busy, Rss!Subscribed, Rss!Orderly
<1>2. feed # None => \A d \in Rss!Dests, e \in Rss!Entries : Rss!Knows(d, e) => Rss!Knows(d, e)'
  BY KnowsKept
<1>3. published \in Nat /\ published' \in Nat /\ \A e \in Rss!Entries : e \in Nat
  BY DEF Rss!TypeOK, Rss!Entries, Rss!FeedsAssumption
<1>4. \A d \in Rss!Dests, e \in Rss!Entries :
          /\ copies[d][e] > 0 => e <= published /\ (feed # None => Rss!Knows(d, e))
          /\ copies[d][e] > 1 => <<d, e>> \in cut
  BY DEF Rss!Orderly, Rss!CopiesInv
<1>5. CASE copies' = copies
  <2>1. Rss!CopiesInv'
    <3> SUFFICES ASSUME NEW c \in Rss!Dests, NEW e \in Rss!Entries
                 PROVE  /\ copies'[c][e] > 0 => e <= published' /\ (feed' # None => Rss!Knows(c, e)')
                        /\ copies'[c][e] > 1 => <<c, e>> \in cut'
      BY DEF Rss!CopiesInv
    <3>1. e <= published => e <= published'
      BY <1>3
    <3> QED BY <1>2, <1>4, <1>5, <3>1
  <2>2. Rss!BurstInv'
    BY <1>5 DEF Rss!BurstInv, Rss!Orderly
  <2> QED BY <1>1, <2>1, <2>2 DEF Rss!Orderly
<1>6. ASSUME NEW d \in Rss!Dests, Rss!BurstEnds(d) PROVE Rss!Orderly'
  <2>1. PICK S : S = IF bursting[d] \in Rss!Listed THEN Rss!History(Rss!UpTo(bursting[d]))
                     ELSE {}
    OBVIOUS
  <2>2. /\ bursting[d] # None /\ bursting'[d] = None
        /\ \A c \in Rss!Dests, e \in Rss!Entries :
               copies'[c][e] = IF c = d /\ e \in S THEN copies[c][e] + 1 ELSE copies[c][e]
    <3>1. bursting[d] # None /\ bursting' = [bursting EXCEPT ![d] = None] /\ Rss!Shown(d, S)
      BY <1>6, <2>1 DEF Rss!BurstEnds
    <3>2. bursting \in [Rss!Dests -> (0 .. MaxEntries) \cup {None}]
      BY DEF Rss!TypeOK
    <3> QED BY <3>1, <3>2, ShownCopies
  <2>3. /\ feed # None /\ d \in feed.dests /\ bursting[d] <= feed.last
        /\ \A e \in Rss!Entries : e <= bursting[d] => copies[d][e] = 0
    BY <2>2 DEF Rss!Orderly, Rss!BurstInv
  <2>4. \A e \in S : e <= bursting[d] /\ e <= published
    BY <2>1 DEF Rss!History, Rss!Listed, Rss!UpTo
  <2>5. ASSUME NEW e \in Rss!Entries, e \in S
        PROVE  copies'[d][e] = 1 /\ e <= published /\ Rss!Knows(d, e)
    <3>1. copies[d][e] = 0
      BY <2>3, <2>4, <2>5
    <3>2. e <= feed.last
      <4>1. feed.last \in Nat /\ bursting[d] \in Nat /\ e \in Nat
        <5>1. feed \in Rss!Records
          BY <2>3 DEF Rss!TypeOK
        <5> QED BY <1>3, <2>2, <5>1, RecordParts DEF Rss!TypeOK
      <4> QED BY <2>3, <2>4, <2>5, <4>1
    <3> QED BY <2>2, <2>4, <2>5, <3>1, <3>2 DEF Rss!Knows
  <2>6. Rss!CopiesInv'
    <3> SUFFICES ASSUME NEW c \in Rss!Dests, NEW e \in Rss!Entries
                 PROVE  /\ copies'[c][e] > 0 => e <= published' /\ (feed' # None => Rss!Knows(c, e)')
                        /\ copies'[c][e] > 1 => <<c, e>> \in cut'
      BY DEF Rss!CopiesInv
    <3>1. CASE c = d /\ e \in S
      BY <1>2, <1>3, <2>3, <2>5, <3>1
    <3>2. CASE ~(c = d /\ e \in S)
      <4>1. copies'[c][e] = copies[c][e]
        BY <2>2, <3>2
      <4> QED BY <1>2, <1>3, <1>4, <4>1
    <3> QED BY <3>1, <3>2
  <2>7. Rss!BurstInv'
    <3> SUFFICES ASSUME NEW c \in Rss!Dests, bursting'[c] # None
                 PROVE  /\ feed' # None /\ c \in feed'.dests /\ bursting'[c] <= feed'.last
                        /\ \A e \in Rss!Entries : e <= bursting'[c] => copies'[c][e] = 0
      BY DEF Rss!BurstInv
    <3>1. c # d /\ bursting'[c] = bursting[c] /\ \A e \in Rss!Entries : copies'[c][e] = copies[c][e]
      BY <2>2
    <3> QED BY <3>1 DEF Rss!Orderly, Rss!BurstInv
  <2> QED BY <1>1, <2>6, <2>7 DEF Rss!Orderly
<1> QED BY <1>5, <1>6

(* The commands, while no add overtakes another.                            *)
LEMMA OrderKnownAdd ==
    ASSUME Rss!FeedsAssumption, Rss!TypeOK, Rss!WorkInv, Rss!Orderly, NEW d \in Rss!Dests,
           Rss!AddStarts(d), feed # None,
           ~Rss!Excused'
    PROVE  Rss!Orderly'
<1>1. /\ Rss!TypeOK' /\ Rss!WorkInv' /\ UNCHANGED <<published, disk, skipped, cut, crashed>>
      /\ feed' # None /\ d \notin feed.dests /\ feed'.dests = feed.dests \cup {d}
      /\ feed'.last = feed.last /\ feed'.pending = feed.pending
      /\ copies' = Rss!Unseen(d) /\ wanted' = wanted \cup {d}
      /\ worker' = worker \/ (worker.at = "off" /\ worker'.at = "asleep")
      /\ overlapped' = (overlapped \/ bursting[d] # None)
      /\ \A c \in Rss!Dests : bursting'[c] = bursting[c] \/ (c = d /\ bursting'[c] = feed.last)
  BY KnownAdd
<1>2. bursting[d] = None
  BY <1>1 DEF Rss!Excused
<1>3. \A c \in Rss!Dests, e \in Rss!Entries : copies'[c][e] = IF c = d THEN 0 ELSE copies[c][e]
  BY <1>1, UnseenCopies
<1>4. \A c \in Rss!Dests, e \in Rss!Entries : Rss!Knows(c, e) => Rss!Knows(c, e)'
  BY <1>1, KnowsKept
<1>5. Rss!OrderInv'
  <2>1. CASE worker' = worker
    BY <1>1, <2>1 DEF Rss!OrderInv, Rss!Orderly, Rss!Busy
  <2>2. CASE worker'.at = "asleep"
    BY <1>1, <2>2 DEF Rss!OrderInv, Rss!Orderly, Rss!Busy
  <2> QED BY <1>1, <2>1, <2>2
<1>6. Rss!CopiesInv'
  <2> SUFFICES ASSUME NEW c \in Rss!Dests, NEW e \in Rss!Entries
               PROVE  /\ copies'[c][e] > 0 => e <= published' /\ (feed' # None => Rss!Knows(c,
                             e)')
                      /\ copies'[c][e] > 1 => <<c, e>> \in cut'
    BY DEF Rss!CopiesInv
  <2>1. CASE c = d
    BY <1>3, <2>1
  <2>2. CASE c # d
    BY <1>1, <1>3, <1>4, <2>2 DEF Rss!Orderly, Rss!CopiesInv
  <2> QED BY <2>1, <2>2
<1>7. Rss!BurstInv'
  <2> SUFFICES ASSUME NEW c \in Rss!Dests, bursting'[c] # None
               PROVE  /\ feed' # None /\ c \in feed'.dests /\ bursting'[c] <= feed'.last
                      /\ \A e \in Rss!Entries : e <= bursting'[c] => copies'[c][e] = 0
    BY DEF Rss!BurstInv
  <2>1. CASE c = d
    <3>1. feed.last \in Nat
      <4>1. feed \in Rss!Records
        BY DEF Rss!TypeOK
      <4> QED BY <4>1, RecordParts
    <3>2. bursting'[c] = feed.last
      BY <1>1, <1>2, <2>1
    <3> QED BY <1>1, <1>3, <2>1, <3>1, <3>2
  <2>2. CASE c # d
    BY <1>1, <1>3, <2>2 DEF Rss!Orderly, Rss!BurstInv
  <2> QED BY <2>1, <2>2
<1>8. Rss!Subscribed'
  BY <1>1 DEF Rss!Orderly, Rss!Subscribed
<1> QED BY <1>5, <1>6, <1>7, <1>8 DEF Rss!Orderly

LEMMA OrderFirstAdd ==
    ASSUME Rss!FeedsAssumption, Rss!TypeOK, Rss!WorkInv, Rss!Orderly, NEW d \in Rss!Dests,
           Rss!AddEnds(d), ~Rss!Excused'
    PROVE  Rss!Orderly'
<1>1. /\ Rss!TypeOK' /\ Rss!WorkInv' /\ UNCHANGED <<published, disk, skipped, cut, crashed,
                                                    bursting>>
      /\ feed' # None /\ feed'.dests = {d} /\ feed'.last = published /\ feed'.pending = None
      /\ \A c \in Rss!Dests \ {d}, e \in Rss!Entries : copies'[c][e] = copies[c][e]
      /\ \A e \in Rss!Entries : copies'[d][e] = 0 \/ (copies'[d][e] = 1 /\ e <= published)
      /\ worker' = worker \/ worker'.at = "asleep"
      /\ wanted' = wanted \cup {d} /\ overlapped' = (overlapped \/ feed # None)
  BY FirstAdd
<1>2. feed = None
  BY <1>1 DEF Rss!Excused
<1>3. worker'.at \notin {"fetching", "next", "rooms", "users", "sending"}
  BY <1>1, <1>2 DEF Rss!WorkInv
<1>4. Rss!OrderInv'
  BY <1>1, <1>3 DEF Rss!OrderInv, Rss!Busy
<1>5. Rss!CopiesInv'
  <2> SUFFICES ASSUME NEW c \in Rss!Dests, NEW e \in Rss!Entries
               PROVE  /\ copies'[c][e] > 0 => e <= published' /\ (feed' # None => Rss!Knows(c,
                             e)')
                      /\ copies'[c][e] > 1 => <<c, e>> \in cut'
    BY DEF Rss!CopiesInv
  <2>1. CASE c = d
    BY <1>1, <2>1 DEF Rss!Knows
  <2>2. CASE c # d
    BY <1>1, <2>2 DEF Rss!Orderly, Rss!CopiesInv, Rss!Knows
  <2> QED BY <2>1, <2>2
<1>6. Rss!BurstInv'
  BY <1>1, <1>2 DEF Rss!Orderly, Rss!BurstInv
<1>7. Rss!Subscribed'
  BY <1>1, <1>2 DEF Rss!Orderly, Rss!Subscribed
<1> QED BY <1>4, <1>5, <1>6, <1>7 DEF Rss!Orderly

LEMMA OrderRemoval ==
    ASSUME Rss!FeedsAssumption, Rss!TypeOK, Rss!WorkInv, Rss!Orderly, ~Rss!Excused',
           \/ \E d \in Rss!Dests \cup {None} : Rss!Unsubscribe(d)
           \/ \E r \in Rooms : Rss!CleanupRoomState(r)
    PROVE  Rss!Orderly'
<1>1. /\ Rss!TypeOK' /\ Rss!WorkInv'
      /\ UNCHANGED <<published, disk, skipped, crashed, copies, since, bursting>>
      /\ feed # None /\ cut \subseteq cut'
      /\ worker' = worker \/ worker'.at \in {"off", "asleep"}
      /\ feed' # None => /\ feed'.last = feed.last /\ feed'.pending = feed.pending
                         /\ Rss!Active(feed') \subseteq Rss!Active(feed) /\ cut' = cut
                         /\ worker' = worker \/ worker.at = "off"
  BY Removal
<1>2. PICK gone \in SUBSET Rss!Dests :
          /\ wanted' = wanted \ gone
          /\ overlapped' = (overlapped \/ \E d \in gone : bursting[d] # None)
          /\ feed' = None <=> feed.dests \ gone = {}
          /\ feed' # None => feed'.dests = feed.dests \ gone
  BY Removal
<1>3. \A d \in gone : bursting[d] = None
  BY <1>2 DEF Rss!Excused
<1>4. Rss!OrderInv'
  <2>1. CASE worker'.at \in {"off", "asleep"}
    BY <1>1, <2>1 DEF Rss!OrderInv, Rss!Orderly, Rss!Busy
  <2>2. CASE worker' = worker /\ feed' # None
    BY <1>1, <2>2 DEF Rss!OrderInv, Rss!Orderly, Rss!Busy
  <2>3. CASE worker' = worker /\ feed' = None
    <3>1. worker'.at \notin {"fetching", "next", "rooms", "users", "sending"}
      BY <1>1, <2>3 DEF Rss!WorkInv
    <3> QED BY <2>3, <3>1 DEF Rss!OrderInv, Rss!Busy
  <2> QED BY <1>1, <2>1, <2>2, <2>3
<1>5. feed' # None => \A d \in Rss!Dests, e \in Rss!Entries : Rss!Knows(d, e) => Rss!Knows(d,
          e)'
  BY <1>1, KnowsKept
<1>6. Rss!CopiesInv'
  BY <1>1, <1>5 DEF Rss!Orderly, Rss!CopiesInv
<1>7. Rss!BurstInv'
  <2> SUFFICES ASSUME NEW d \in Rss!Dests, bursting[d] # None
               PROVE  /\ feed' # None /\ d \in feed'.dests /\ bursting[d] <= feed'.last
                      /\ \A e \in Rss!Entries : e <= bursting[d] => copies[d][e] = 0
    BY <1>1 DEF Rss!BurstInv
  <2>1. /\ d \in feed.dests /\ bursting[d] <= feed.last
        /\ \A e \in Rss!Entries : e <= bursting[d] => copies[d][e] = 0
    BY DEF Rss!Orderly, Rss!BurstInv
  <2>2. d \in feed.dests \ gone
    BY <1>3, <2>1
  <2> QED BY <1>1, <1>2, <2>1, <2>2
<1>8. Rss!Subscribed'
  BY <1>1, <1>2 DEF Rss!Orderly, Rss!Subscribed
<1> QED BY <1>4, <1>6, <1>7, <1>8 DEF Rss!Orderly

LEMMA OrderRestarts ==
    ASSUME Rss!FeedsAssumption, Rss!TypeOK, Rss!WorkInv, Rss!Orderly,
           (\E d \in Rss!Dests \cup {None} : Rss!SetPauseState(d)) \/ Rss!ResetRetry \/ Rss!Reload
    PROVE  Rss!Orderly' /\ Rss!Excused' = Rss!Excused
<1>1. /\ Rss!TypeOK' /\ Rss!WorkInv'
      /\ UNCHANGED <<published, disk, skipped, crashed, overlapped, copies, bursting, wanted>>
      /\ cut \subseteq cut' /\ worker'.at \in {"off", "asleep"}
      /\ worker.at = "sending" => <<worker.to, Head(worker.queue)>> \in cut'
      /\ feed' = None <=> feed = None
      /\ feed' # None => /\ feed'.dests = feed.dests /\ feed'.last = feed.last
                         /\ feed'.pending = feed.pending
  BY Restarts
<1>2. Rss!OrderInv'
  BY <1>1 DEF Rss!OrderInv, Rss!Orderly, Rss!Busy
<1>3. feed' # None => \A d \in Rss!Dests, e \in Rss!Entries : Rss!Knows(d, e) => Rss!Knows(d,
          e)'
  BY <1>1, KnowsKept
<1>4. Rss!CopiesInv'
  BY <1>1, <1>3 DEF Rss!Orderly, Rss!CopiesInv
<1>5. Rss!BurstInv' /\ Rss!Subscribed'
  BY <1>1 DEF Rss!Orderly, Rss!BurstInv, Rss!Subscribed
<1> QED BY <1>1, <1>2, <1>4, <1>5 DEF Rss!Orderly, Rss!Excused

(* The worker.  Where nothing was sent, nobody knows less, and the cursor   *)
(* does not go back, only the order is left to show.                        *)
LEMMA OrderQuiet ==
    ASSUME Rss!FeedsAssumption, Rss!TypeOK, Rss!WorkInv, Rss!Orderly, Rss!TypeOK', FeedCalm,
           copies' = copies,
           feed # None, feed' # None, feed'.dests = feed.dests, feed'.last >= feed.last,
           \A d \in Rss!Dests, e \in Rss!Entries : e <= published /\ Rss!Knows(d,
               e) => Rss!Knows(d, e)'
    PROVE  Rss!CopiesInv' /\ Rss!BurstInv' /\ Rss!Subscribed'
<1>1. Rss!CopiesInv'
  BY DEF Rss!Orderly, Rss!CopiesInv, FeedCalm
<1>2. Rss!Subscribed'
  BY DEF Rss!Orderly, Rss!Subscribed, FeedCalm
<1>3. Rss!BurstInv'
  <2> SUFFICES ASSUME NEW d \in Rss!Dests, bursting[d] # None
               PROVE  /\ d \in feed'.dests /\ bursting[d] <= feed'.last
                      /\ \A e \in Rss!Entries : e <= bursting[d] => copies[d][e] = 0
    BY DEF Rss!BurstInv, FeedCalm
  <2>1. /\ d \in feed.dests /\ bursting[d] <= feed.last
        /\ \A e \in Rss!Entries : e <= bursting[d] => copies[d][e] = 0
    BY DEF Rss!Orderly, Rss!BurstInv
  <2>2. feed \in Rss!Records /\ feed' \in Rss!Records /\ bursting[d] \in 0 .. MaxEntries
    BY DEF Rss!TypeOK
  <2>3. feed.last \in Int /\ feed'.last \in Int /\ bursting[d] \in Int
    BY <2>2, RecordParts
  <2>4. bursting[d] <= feed'.last
    BY <2>1, <2>3
  <2> QED BY <2>1, <2>4
<1> QED BY <1>1, <1>2, <1>3

LEMMA LastIs ==
    ASSUME Rss!TypeOK, feed # None
    PROVE  feed.last \in Nat
<1>1. feed \in Rss!Records
  BY DEF Rss!TypeOK
<1> QED BY <1>1, RecordParts

LEMMA OrderPoll ==
    ASSUME Rss!FeedsAssumption, Rss!TypeOK, Rss!WorkInv, Rss!Orderly, Rss!Poll \/ Rss!FetchFails
    PROVE  Rss!Orderly' /\ Rss!Excused' = Rss!Excused
<1>1. /\ Rss!TypeOK' /\ Rss!WorkInv' /\ FeedCalm /\ UNCHANGED <<feed, copies, skipped>>
      /\ \/ worker'.at \in {"off", "asleep"}
         \/ worker'.at = "fetching" /\ feed # None /\ worker'.last = feed.last
  BY PollStep
<1>2. worker.at # "sending"
  BY DEF Rss!Poll, Rss!FetchFails
<1>3. Rss!OrderInv'
  BY <1>1 DEF Rss!OrderInv, Rss!Orderly, Rss!Busy
<1>4. Rss!CopiesInv' /\ Rss!BurstInv' /\ Rss!Subscribed'
  <2>1. feed # None => \A d \in Rss!Dests, e \in Rss!Entries : Rss!Knows(d, e) => Rss!Knows(d,
            e)'
    BY <1>1, <1>2, KnowsKept DEF FeedCalm
  <2> QED BY <1>1, <2>1 DEF Rss!Orderly, Rss!CopiesInv, Rss!BurstInv, Rss!Subscribed, FeedCalm
<1> QED BY <1>1, <1>3, <1>4 DEF Rss!Orderly, FeedCalm, Rss!Excused

LEMMA OrderFetched ==
    ASSUME Rss!FeedsAssumption, Rss!TypeOK, Rss!WorkInv, Rss!Orderly, Rss!Fetched
    PROVE  Rss!Orderly' /\ Rss!Excused' = Rss!Excused
<1>1. /\ Rss!TypeOK' /\ Rss!WorkInv' /\ FeedCalm /\ copies' = copies /\ skipped \subseteq skipped'
      /\ worker.at = "fetching" /\ feed # None
  BY FetchedStep
<1>2. /\ feed.last \in Nat /\ feed.last <= published /\ worker.last = feed.last
      /\ feed.pending # None => feed.pending.entry > feed.last
  BY <1>1, LastIs DEF Rss!WorkInv, Rss!Orderly, Rss!OrderInv
<1>3. Rss!Excused' = Rss!Excused
  BY <1>1 DEF Rss!Excused, FeedCalm
<1>4. CASE /\ worker'.at = "asleep" /\ feed' # None /\ feed.pending = None
           /\ feed'.last = published /\ feed'.pending = None /\ feed'.dests = feed.dests
  <2>1. Rss!OrderInv'
    BY <1>4 DEF Rss!OrderInv, Rss!Busy
  <2>2. \A d \in Rss!Dests, e \in Rss!Entries : e <= published /\ Rss!Knows(d,
            e) => Rss!Knows(d, e)'
    BY <1>4 DEF Rss!Knows
  <2>3. feed'.last >= feed.last
    BY <1>2, <1>4 DEF Rss!TypeOK
  <2> QED BY <1>1, <1>3, <1>4, <2>1, <2>2, <2>3, OrderQuiet DEF Rss!Orderly
<1>5. CASE feed' = feed
  <2>1. \A d \in Rss!Dests, e \in Rss!Entries : Rss!Knows(d, e) => Rss!Knows(d, e)'
    BY <1>1, <1>5, KnowsKept DEF FeedCalm
  <2>2. feed'.last >= feed.last /\ feed' # None /\ feed'.dests = feed.dests
    BY <1>1, <1>2, <1>5
  <2>3. Rss!CopiesInv' /\ Rss!BurstInv' /\ Rss!Subscribed'
    BY <1>1, <2>1, <2>2, OrderQuiet
  <2>4. Rss!OrderInv'
    <3>1. CASE worker'.at = "asleep"
      BY <1>2, <1>5, <3>1 DEF Rss!OrderInv, Rss!Busy
    <3>2. CASE worker'.at = "next" /\ worker'.queue = Queued
      <4>1. PICK q \in Seq(Rss!Entries) : q = Queued
        BY <1>1, QueuedEntries
      <4>2. /\ \A i, j \in 1 .. Len(q) : i < j => q[i] < q[j]
            /\ \A e \in Rss!Items(q) : e > feed.last
        BY <1>1, <1>2, <4>1, QueuedEntries
      <4> QED BY <1>2, <1>5, <3>2, <4>1, <4>2 DEF Rss!OrderInv, Rss!Busy
    <3> QED BY <1>4, <1>5, <3>1, <3>2, FetchedStep
  <2> QED BY <1>3, <2>3, <2>4 DEF Rss!Orderly
<1> QED BY <1>4, <1>5, FetchedStep

LEMMA OrderNext ==
    ASSUME Rss!FeedsAssumption, Rss!TypeOK, Rss!WorkInv, Rss!Orderly, Rss!NextEntry
    PROVE  Rss!Orderly' /\ Rss!Excused' = Rss!Excused
<1>1. /\ Rss!TypeOK' /\ Rss!WorkInv' /\ FeedCalm /\ UNCHANGED <<copies, skipped>>
      /\ worker.at = "next" /\ feed # None /\ feed' # None
      /\ feed'.last = feed.last /\ feed'.dests = feed.dests
      /\ \/ worker'.at = "asleep" /\ feed' = feed
         \/ /\ worker'.at = "rooms" /\ worker'.queue = worker.queue
            /\ feed'.pending # None /\ feed'.pending.entry = Head(worker.queue)
            /\ worker'.todo = (Rss!Active(feed) \cap Rooms) \ feed'.pending.done
            /\ \/ feed'.pending = feed.pending
               \/ feed.pending = None /\ feed'.pending.done = {}
  BY NextEntryStep
<1>2. Rss!Excused' = Rss!Excused
  BY <1>1 DEF Rss!Excused, FeedCalm
<1>3. feed.last \in Nat /\ feed'.last >= feed.last
  BY <1>1, LastIs
<1>4. \A d \in Rss!Dests, e \in Rss!Entries : Rss!Knows(d, e) => Rss!Knows(d, e)'
  <2>1. CASE feed'.pending = feed.pending
    BY <1>1, <2>1, KnowsKept DEF FeedCalm
  <2>2. CASE feed.pending = None
    BY <1>1, <2>2 DEF Rss!Knows
  <2> QED BY <1>1, <2>1, <2>2
<1>5. Rss!CopiesInv' /\ Rss!BurstInv' /\ Rss!Subscribed'
  BY <1>1, <1>3, <1>4, OrderQuiet
<1>6. Rss!OrderInv'
  <2>1. CASE worker'.at = "asleep" /\ feed' = feed
    BY <2>1 DEF Rss!OrderInv, Rss!Orderly, Rss!Busy
  <2>2. CASE worker'.at = "rooms"
    <3>1. Head(worker.queue) \in Rss!Items(worker.queue)
      BY <1>1, WorkerParts DEF Rss!Busy, Rss!Items
    <3>2. Head(worker.queue) > feed.last
      BY <1>1, <3>1 DEF Rss!OrderInv, Rss!Orderly, Rss!Busy
    <3>3. worker'.todo \cap feed'.pending.done = {}
      BY <1>1, <2>2
    <3>4. /\ \A e \in Rss!Items(worker'.queue) : e > feed'.last
          /\ \A i, j \in 1 .. Len(worker'.queue) : i < j => worker'.queue[i] < worker'.queue[j]
      BY <1>1, <2>2 DEF Rss!OrderInv, Rss!Orderly, Rss!Busy
    <3> QED BY <1>1, <2>2, <3>2, <3>3, <3>4 DEF Rss!OrderInv
  <2> QED BY <1>1, <2>1, <2>2
<1> QED BY <1>2, <1>5, <1>6 DEF Rss!Orderly

LEMMA OrderSend ==
    ASSUME Rss!FeedsAssumption, Rss!TypeOK, Rss!WorkInv, Rss!Orderly, NEW d \in Rss!Dests,
           Rss!Send(d) \/ Rss!SendRefused(d)
    PROVE  Rss!Orderly' /\ Rss!Excused' = Rss!Excused
<1>1. /\ Rss!TypeOK' /\ Rss!WorkInv' /\ FeedCalm /\ UNCHANGED <<feed, skipped>> /\ feed # None
      /\ worker.at \in {"rooms", "users"} /\ d \in worker.todo
      /\ worker'.todo = worker.todo \ {d} /\ worker'.queue = worker.queue
      /\ Head(worker.queue) \in Rss!Entries /\ Head(worker.queue) <= published
      /\ \/ /\ worker'.at = "sending" /\ worker'.to = d /\ worker'.failed = worker.failed
            /\ \A c \in Rss!Dests, e \in Rss!Entries :
                   copies'[c][e] = IF c = d /\ e = Head(worker.queue) THEN copies[c][e] + 1
                                   ELSE copies[c][e]
         \/ worker'.at = worker.at /\ worker'.failed = TRUE /\ copies' = copies
  BY SendStep
<1>2. Rss!Excused' = Rss!Excused
  BY <1>1 DEF Rss!Excused, FeedCalm
<1>3. /\ feed.pending # None /\ feed.pending.entry = Head(worker.queue)
      /\ worker.todo \cap feed.pending.done = {}
      /\ Head(worker.queue) > feed.last /\ feed.last \in Nat
  BY <1>1, LastIs DEF Rss!Orderly, Rss!OrderInv, Rss!WorkInv
<1>4. Rss!OrderInv'
  BY <1>1, <1>3 DEF Rss!Orderly, Rss!OrderInv, Rss!Busy
<1>5. Rss!Subscribed'
  BY <1>1 DEF Rss!Orderly, Rss!Subscribed, FeedCalm
<1>6. \A c \in Rss!Dests, e \in Rss!Entries : Rss!Knows(c, e) => Rss!Knows(c, e)'
  BY <1>1, KnowsKept DEF FeedCalm
<1>7. CASE copies' = copies
  BY <1>1, <1>2, <1>4, <1>5, <1>6, <1>7 DEF Rss!Orderly, Rss!CopiesInv, Rss!BurstInv, FeedCalm
<1>8. CASE /\ worker'.at = "sending" /\ worker'.to = d
           /\ \A c \in Rss!Dests, e \in Rss!Entries :
                  copies'[c][e] = IF c = d /\ e = Head(worker.queue) THEN copies[c][e] + 1
                                  ELSE copies[c][e]
  <2>1. PICK entry \in Rss!Entries : entry = Head(worker.queue)
    BY <1>1
  <2>2. copies[d][entry] \in Nat /\ copies'[d][entry] = copies[d][entry] + 1
    BY <1>8, <2>1 DEF Rss!TypeOK
  <2>3. Rss!Knows(d, entry)'
    BY <1>1, <1>3, <1>8, <2>1 DEF Rss!Knows
  <2>4. copies[d][entry] > 0 => <<d, entry>> \in cut
    <3> SUFFICES ASSUME copies[d][entry] > 0 PROVE <<d, entry>> \in cut
      OBVIOUS
    <3>1. Rss!Knows(d, entry)
      BY <1>1 DEF Rss!Orderly, Rss!CopiesInv
    <3>2. ~(entry <= feed.last)
      BY <1>3, <2>1 DEF Rss!Entries, Rss!FeedsAssumption
    <3>3. d \notin feed.pending.done
      BY <1>1, <1>3
    <3> QED BY <1>1, <3>1, <3>2, <3>3 DEF Rss!Knows
  <2>5. Rss!CopiesInv'
    <3> SUFFICES ASSUME NEW c \in Rss!Dests, NEW e \in Rss!Entries
                 PROVE  /\ copies'[c][e] > 0 => e <= published' /\ (feed' # None => Rss!Knows(c, e)')
                        /\ copies'[c][e] > 1 => <<c, e>> \in cut'
      BY DEF Rss!CopiesInv
    <3>1. published' = published /\ cut' = cut
      BY <1>1 DEF FeedCalm
    <3>2. CASE c = d /\ e = entry
      <4>1. copies'[c][e] > 1 => <<c, e>> \in cut
        BY <2>2, <2>4, <3>2
      <4> QED BY <1>1, <2>1, <2>3, <3>1, <3>2, <4>1
    <3>3. CASE ~(c = d /\ e = entry)
      <4>1. copies'[c][e] = copies[c][e]
        BY <1>8, <2>1, <3>3
      <4> QED BY <1>1, <1>6, <3>1, <4>1 DEF Rss!Orderly, Rss!CopiesInv
    <3> QED BY <3>2, <3>3
  <2>6. Rss!BurstInv'
    <3> SUFFICES ASSUME NEW c \in Rss!Dests, bursting[c] # None
                 PROVE  /\ feed' # None /\ c \in feed'.dests /\ bursting[c] <= feed'.last
                        /\ \A e \in Rss!Entries : e <= bursting[c] => copies'[c][e] = 0
      BY <1>1 DEF Rss!BurstInv, FeedCalm
    <3>1. /\ c \in feed.dests /\ bursting[c] <= feed.last
          /\ \A e \in Rss!Entries : e <= bursting[c] => copies[c][e] = 0
      BY DEF Rss!Orderly, Rss!BurstInv
    <3>2. bursting[c] \in Nat
      BY DEF Rss!TypeOK
    <3>3. ~(entry <= bursting[c])
      BY <1>3, <2>1, <3>1, <3>2 DEF Rss!Entries, Rss!FeedsAssumption
    <3> QED BY <1>1, <1>8, <2>1, <3>1, <3>3
  <2> QED BY <1>2, <1>4, <1>5, <2>5, <2>6 DEF Rss!Orderly
<1> QED BY <1>1, <1>7, <1>8

LEMMA OrderAck ==
    ASSUME Rss!FeedsAssumption, Rss!TypeOK, Rss!WorkInv, Rss!Orderly, Rss!Ack
    PROVE  Rss!Orderly' /\ Rss!Excused' = Rss!Excused
<1>1. /\ Rss!TypeOK' /\ Rss!WorkInv' /\ FeedCalm /\ UNCHANGED <<copies, skipped>>
      /\ worker.at = "sending" /\ worker.to \in Rss!Dests /\ feed # None /\ feed' # None
      /\ feed'.last = feed.last /\ feed'.dests = feed.dests
      /\ feed'.pending # None <=> feed.pending # None
  BY AckStep
<1>2. Rss!Excused' = Rss!Excused
  BY <1>1 DEF Rss!Excused, FeedCalm
<1>3. feed.pending # None /\ worker.todo \cap feed.pending.done = {} /\ worker.to \notin worker.todo
  BY <1>1 DEF Rss!Orderly, Rss!OrderInv
<1>4. /\ worker'.at \in {"rooms", "users"}
      /\ worker'.queue = worker.queue /\ worker'.todo = worker.todo
      /\ feed'.pending.entry = feed.pending.entry
      /\ feed'.pending.done = feed.pending.done \cup {worker.to}
  BY <1>3, AckStep
<1>5. Rss!OrderInv'
  BY <1>1, <1>3, <1>4 DEF Rss!Orderly, Rss!OrderInv, Rss!Busy
<1>6. \A d \in Rss!Dests, e \in Rss!Entries : Rss!Knows(d, e) => Rss!Knows(d, e)'
  BY <1>1, <1>3, <1>4 DEF Rss!Knows, FeedCalm
<1>7. feed'.last >= feed.last
  BY <1>1, LastIs
<1>8. Rss!CopiesInv' /\ Rss!BurstInv' /\ Rss!Subscribed'
  BY <1>1, <1>6, <1>7, OrderQuiet
<1> QED BY <1>2, <1>5, <1>8 DEF Rss!Orderly

LEMMA OrderServed ==
    ASSUME Rss!FeedsAssumption, Rss!TypeOK, Rss!WorkInv, Rss!Orderly, Rss!RoomsServed
    PROVE  Rss!Orderly' /\ Rss!Excused' = Rss!Excused
<1>1. /\ Rss!TypeOK' /\ Rss!WorkInv' /\ FeedCalm /\ UNCHANGED <<feed, copies,
                                                                skipped>> /\ feed # None
      /\ worker.at = "rooms" /\ worker.todo = {} /\ worker'.at = "users"
      /\ worker'.queue = worker.queue
      /\ worker'.todo = (Rss!Active(feed) \cap Users) \
                            (IF feed.pending = None THEN {} ELSE feed.pending.done)
  BY ServedStep
<1>2. Rss!Excused' = Rss!Excused
  BY <1>1 DEF Rss!Excused, FeedCalm
<1>3. feed.pending # None /\ worker'.todo \cap feed.pending.done = {}
  BY <1>1 DEF Rss!Orderly, Rss!OrderInv
<1>4. Rss!OrderInv'
  BY <1>1, <1>3 DEF Rss!Orderly, Rss!OrderInv, Rss!Busy
<1>5. \A d \in Rss!Dests, e \in Rss!Entries : Rss!Knows(d, e) => Rss!Knows(d, e)'
  BY <1>1, KnowsKept DEF FeedCalm
<1>6. feed'.last >= feed.last /\ feed' # None /\ feed'.dests = feed.dests
  BY <1>1, LastIs
<1>7. Rss!CopiesInv' /\ Rss!BurstInv' /\ Rss!Subscribed'
  BY <1>1, <1>5, <1>6, OrderQuiet
<1> QED BY <1>2, <1>4, <1>7 DEF Rss!Orderly

LEMMA OrderDone ==
    ASSUME Rss!FeedsAssumption, Rss!TypeOK, Rss!WorkInv, Rss!Orderly, Rss!EntryDone
    PROVE  Rss!Orderly' /\ Rss!Excused' = Rss!Excused
<1>1. /\ Rss!TypeOK' /\ Rss!WorkInv' /\ FeedCalm /\ UNCHANGED <<copies, skipped>>
      /\ worker.at = "users" /\ worker.todo = {} /\ feed # None /\ feed' # None
      /\ feed'.dests = feed.dests
      /\ worker.queue \in Seq(Rss!Entries) /\ worker.queue # <<>>
  BY DoneStep
<1>2. Rss!Excused' = Rss!Excused
  BY <1>1 DEF Rss!Excused, FeedCalm
<1>3. /\ feed.pending # None => feed.pending.entry > feed.last
      /\ \A e \in Rss!Items(worker.queue) : e > feed.last
      /\ \A i, j \in 1 .. Len(worker.queue) : i < j => worker.queue[i] < worker.queue[j]
  BY <1>1 DEF Rss!Orderly, Rss!OrderInv, Rss!Busy
<1>4. CASE worker'.at = "asleep" /\ feed' = feed
  <2>1. Rss!OrderInv'
    BY <1>1, <1>3, <1>4 DEF Rss!OrderInv, Rss!Busy
  <2>2. \A d \in Rss!Dests, e \in Rss!Entries : Rss!Knows(d, e) => Rss!Knows(d, e)'
    BY <1>1, <1>4, KnowsKept DEF FeedCalm
  <2>3. feed'.last >= feed.last
    BY <1>1, <1>4, LastIs
  <2>4. Rss!CopiesInv' /\ Rss!BurstInv' /\ Rss!Subscribed'
    BY <1>1, <2>2, <2>3, OrderQuiet
  <2> QED BY <1>2, <2>1, <2>4 DEF Rss!Orderly
<1>5. CASE /\ feed'.last = Head(worker.queue) /\ feed'.pending = None
           /\ worker'.at = "asleep" \/ (worker'.at = "next"
                                         /\ worker'.queue = Tail(worker.queue))
  <2>1. PICK q \in Seq(Rss!Entries) : q = worker.queue /\ q # <<>>
    BY <1>1
  <2>2. /\ Len(q) \in Nat /\ Head(q) = q[1] /\ 1 \in 1 .. Len(q) /\ Head(q) \in Rss!Entries
        /\ Tail(q) \in Seq(Rss!Entries) /\ Len(Tail(q)) = Len(q) - 1
        /\ \A i \in 1 .. Len(q) - 1 : Tail(q)[i] = q[i + 1]
    BY <2>1
  <2>3. /\ Head(q) \in Nat /\ feed.last \in Nat /\ Head(q) > feed.last
        /\ \A e \in Rss!Entries : e \in Nat
    <3>1. Head(q) \in Rss!Items(q)
      BY <2>2 DEF Rss!Items
    <3> QED BY <1>1, <1>3, <2>1, <2>2, <3>1, LastIs DEF Rss!Entries, Rss!FeedsAssumption
  <2>4. feed'.last >= feed.last
    BY <1>5, <2>1, <2>3
  <2>5. \A d \in Rss!Dests, e \in Rss!Entries : Rss!Knows(d, e) => Rss!Knows(d, e)'
    <3> SUFFICES ASSUME NEW d \in Rss!Dests, NEW e \in Rss!Entries, Rss!Knows(d, e)
                 PROVE e <= feed'.last
      BY DEF Rss!Knows
    <3>1. e <= feed.last \/ e = Head(q)
      BY <1>1, <2>1 DEF Rss!Knows, Rss!WorkInv
    <3> QED BY <1>5, <2>1, <2>3, <3>1
  <2>6. Rss!CopiesInv' /\ Rss!BurstInv' /\ Rss!Subscribed'
    BY <1>1, <2>4, <2>5, OrderQuiet
  <2>7. Rss!OrderInv'
    <3>1. CASE worker'.at = "asleep"
      BY <1>5, <3>1 DEF Rss!OrderInv, Rss!Busy
    <3>2. CASE worker'.at = "next" /\ worker'.queue = Tail(worker.queue)
      <4>1. PICK t \in Seq(Rss!Entries) : t = Tail(q)
        BY <2>2
      <4>2. \A i \in 1 .. Len(t) : i + 1 \in 1 .. Len(q) /\ 1 < i + 1 /\ t[i] = q[i + 1]
        BY <2>2, <4>1
      <4>3. \A i \in 1 .. Len(t) : t[i] > Head(q)
        <5> SUFFICES ASSUME NEW i \in 1 .. Len(t) PROVE t[i] > Head(q)
          OBVIOUS
        <5>1. PICK k \in 1 .. Len(q) : k = i + 1 /\ 1 < k /\ t[i] = q[k]
          BY <4>2
        <5>2. q[1] < q[k]
          BY <1>3, <2>1, <2>2, <5>1
        <5>3. q[k] \in Nat
          BY <2>1, <2>3, <5>1
        <5> QED BY <2>2, <2>3, <5>1, <5>2, <5>3
      <4>4. \A i, j \in 1 .. Len(t) : i < j => t[i] < t[j]
        <5> SUFFICES ASSUME NEW i \in 1 .. Len(t), NEW j \in 1 .. Len(t), i < j
                     PROVE t[i] < t[j]
          OBVIOUS
        <5>1. PICK k \in 1 .. Len(q), l \in 1 .. Len(q) : k = i + 1 /\ l = j + 1
          BY <4>2
        <5>2. q[k] < q[l]
          BY <1>3, <2>1, <5>1
        <5> QED BY <4>2, <5>1, <5>2
      <4>5. \A e \in Rss!Items(t) : e > Head(q)
        BY <4>3 DEF Rss!Items
      <4> QED BY <1>5, <2>1, <3>2, <4>1, <4>4, <4>5 DEF Rss!OrderInv, Rss!Busy
    <3> QED BY <1>5, <3>1, <3>2
  <2> QED BY <1>2, <2>6, <2>7 DEF Rss!Orderly
<1> QED BY <1>4, <1>5, DoneStep

LEMMA OrderStep ==
    ASSUME Rss!FeedsAssumption, Rss!TypeOK, Rss!WorkInv, Rss!OrderlyInv, [Rss!Next]_(Rss!vars)
    PROVE  Rss!OrderlyInv'
<1> SUFFICES ASSUME ~Rss!Excused' PROVE Rss!Orderly'
  BY DEF Rss!OrderlyInv
<1>0. ASSUME ~Rss!Excused PROVE Rss!Orderly
  BY <1>0 DEF Rss!OrderlyInv
<1>1. CASE \/ Rss!Publish
           \/ \E r \in Rooms : Rss!LeaveOrJoin(r)
           \/ \E d \in Rss!Dests : \/ (Rss!AddStarts(d) /\ feed = None)
                               \/ Rss!AddFails(d) \/ Rss!BurstEnds(d) \/ Rss!BurstFails(d)
           \/ Rss!Flush \/ UNCHANGED Rss!vars
  <2>1. /\ Rss!TypeOK' /\ UNCHANGED <<feed, worker, cut, crashed, overlapped, wanted>>
        /\ published' >= published
        /\ \A d \in Rss!Dests : bursting'[d] \in {bursting[d], None}
        /\ (\E d \in Rss!Dests : Rss!BurstEnds(d)) \/ copies' = copies
    BY <1>1, OutsideSteps
  <2>2. Rss!Orderly
    BY <1>0, <2>1 DEF Rss!Excused
  <2> QED BY <2>1, <2>2, OrderOutside
<1>2. ASSUME NEW d \in Rss!Dests, Rss!AddStarts(d), feed # None PROVE Rss!Orderly'
  <2>1. crashed' = crashed /\ overlapped' = (overlapped \/ bursting[d] # None)
    BY <1>2, KnownAdd
  <2> QED BY <1>0, <1>2, <2>1, OrderKnownAdd DEF Rss!Excused
<1>3. ASSUME NEW d \in Rss!Dests, Rss!AddEnds(d) PROVE Rss!Orderly'
  <2>1. crashed' = crashed /\ overlapped' = (overlapped \/ feed # None)
    BY <1>3, FirstAdd
  <2> QED BY <1>0, <1>3, <2>1, OrderFirstAdd DEF Rss!Excused
<1>4. CASE (\E d \in Rss!Dests \cup {None} : Rss!Unsubscribe(d)) \/ \E r \in Rooms : Rss!CleanupRoomState(r)
  <2>1. crashed' = crashed /\ \E gone \in SUBSET Rss!Dests :
            overlapped' = (overlapped \/ \E d \in gone : bursting[d] # None)
    BY <1>4, Removal
  <2> QED BY <1>0, <1>4, <2>1, OrderRemoval DEF Rss!Excused
<1>5. CASE (\E d \in Rss!Dests \cup {None} : Rss!SetPauseState(d)) \/ Rss!ResetRetry \/ Rss!Reload
  <2>1. crashed' = crashed /\ overlapped' = overlapped
    BY <1>5, Restarts
  <2> QED BY <1>0, <1>5, <2>1, OrderRestarts DEF Rss!Excused
<1>6. CASE Rss!Crash
  BY <1>6, Crashes DEF Rss!Excused
<1>7. CASE \/ Rss!Poll \/ Rss!FetchFails \/ Rss!Fetched \/ Rss!NextEntry \/ Rss!Ack \/ Rss!RoomsServed \/ Rss!EntryDone
           \/ \E d \in Rss!Dests : Rss!Send(d) \/ Rss!SendRefused(d)
  <2>1. Rss!Excused' = Rss!Excused
    <3>1. FeedCalm
      BY <1>7, PollStep, FetchedStep, NextEntryStep, SendStep, AckStep, ServedStep, DoneStep
    <3> QED BY <3>1 DEF FeedCalm, Rss!Excused
  <2>2. Rss!Orderly
    BY <1>0, <2>1
  <2> QED BY <1>7, <2>2, OrderPoll, OrderFetched, OrderNext, OrderSend, OrderAck, OrderServed,
             OrderDone
<1> QED BY <1>1, <1>2, <1>3, <1>4, <1>5, <1>6, <1>7 DEF Rss!Next

LEMMA FeedStarts ==
    ASSUME Rss!FeedsAssumption, Rss!Init
    PROVE  Rss!TypeOK /\ Rss!WorkInv /\ Rss!CoverInv /\ Rss!OrderlyInv
<1>1. /\ published = 0 /\ joined = Rooms /\ feed = None /\ disk = None /\ worker = Rss!Off
      /\ adding = {} /\ wanted = {} /\ skipped = {} /\ cut = {} /\ crashed = FALSE
      /\ overlapped = FALSE
      /\ bursting = [d \in Rss!Dests |-> None]
      /\ copies = [d \in Rss!Dests |-> [e \in Rss!Entries |-> 0]] /\ since = [d \in Rss!Dests |-> 0]
  BY DEF Rss!Init
<1>2. 0 \in 0 .. MaxEntries
  BY DEF Rss!FeedsAssumption
<1>3. Rss!Off \in Rss!Workers /\ Rss!Off.at = "off" /\ Rss!Off.last = 0 /\ Rss!Off.queue = <<>>
  <2>1. <<>> \in Seq(Rss!Entries)
    OBVIOUS
  <2> QED BY <1>2, <2>1 DEF Rss!Off, Rss!Workers
<1>4. Rss!TypeOK
  <2>1. PICK g : g = [e \in Rss!Entries |-> 0]
    OBVIOUS
  <2>2. g \in [Rss!Entries -> Nat]
    BY <2>1
  <2>3. copies \in [Rss!Dests -> [Rss!Entries -> Nat]]
    BY <1>1, <2>1, <2>2
  <2> QED BY <1>1, <1>2, <1>3, <2>3 DEF Rss!TypeOK
<1>5. Rss!WorkInv
  BY <1>1, <1>3 DEF Rss!WorkInv, Rss!Busy, Rss!Items
<1>6. Rss!Active(feed) = {}
  BY <1>1 DEF Rss!Active
<1>7. Rss!CoverInv
  BY <1>1, <1>3, <1>6
       DEF Rss!CoverInv, Rss!RecordInv, Rss!QueueInv, Rss!AimInv, Rss!TodoInv, Rss!InRooms,
           Rss!InUsers
<1>8. Rss!OrderlyInv
  BY <1>1, <1>3
       DEF Rss!OrderlyInv, Rss!Orderly, Rss!OrderInv, Rss!CopiesInv, Rss!BurstInv,
           Rss!Subscribed, Rss!Busy
<1> QED BY <1>4, <1>5, <1>7, <1>8

LEMMA FeedArrives ==
    ASSUME Rss!FeedsAssumption, Rss!TypeOK, Rss!WorkInv, Rss!CoverInv, Rss!OrderlyInv
    PROVE  Rss!EntriesArrive
<1>1. ASSUME NEW d \in Rss!Active(feed), NEW e \in since[d] + 1 .. feed.last
      PROVE  copies[d][e] > 0 \/ e \in skipped
  <2>1. feed # None /\ d \in Rss!Dests
    BY <1>1, ActiveDests DEF Rss!Active
  <2>2. since[d] \in Nat /\ feed.last \in Nat
    BY <2>1, LastIs DEF Rss!TypeOK
  <2>3. e \in 1 .. feed.last /\ ~(since[d] >= e)
    BY <1>1, <2>2
  <2>4. Rss!Got(d, e)
    BY <1>1, <2>1, <2>3 DEF Rss!CoverInv, Rss!RecordInv, Rss!GotUpTo
  <2> QED BY <2>3, <2>4 DEF Rss!Got
<1>2. Rss!OnceUnlessCut
  BY DEF Rss!OrderlyInv, Rss!Excused, Rss!Orderly, Rss!CopiesInv, Rss!OnceUnlessCut
<1>3. Rss!SubscriptionsLast
  BY DEF Rss!OrderlyInv, Rss!Excused, Rss!Orderly, Rss!Subscribed, Rss!SubscriptionsLast
<1> QED BY <1>1, <1>2, <1>3 DEF Rss!EntriesArrive, Rss!NobodyMissesAnEntry

(* What the cursor of a feed has passed was sent to every destination that  *)
(* was active before it was published, unless a poll left it out; nobody    *)
(* gets an entry twice but after a cut-off send, a crash or two overlapping *)
(* adds, and a confirmed subscription lasts, whatever commands, cancelled   *)
(* polls, refused sends and lost rooms come between (the check loop of      *)
(* rss/tasks.py, the delivery of rss/formatting.py, rss/subscriptions.py).  *)
THEOREM EntriesAlwaysArrive ==
    ASSUME Rss!FeedsAssumption
    PROVE  Rss!Spec => []Rss!EntriesArrive
<1>1. Rss!Init => Rss!TypeOK /\ Rss!WorkInv /\ Rss!CoverInv /\ Rss!OrderlyInv
  BY FeedStarts
<1>2. Rss!TypeOK /\ Rss!WorkInv /\ Rss!CoverInv /\ Rss!OrderlyInv /\ [Rss!Next]_(Rss!vars)
      => (Rss!TypeOK /\ Rss!WorkInv /\ Rss!CoverInv /\ Rss!OrderlyInv)'
  BY CoverStep, OrderStep
<1>3. Rss!TypeOK /\ Rss!WorkInv /\ Rss!CoverInv /\ Rss!OrderlyInv => Rss!EntriesArrive
  BY FeedArrives
<1> QED BY <1>1, <1>2, <1>3, PTL DEF Rss!Spec

-----------------------------------------------------------------------------
(* Reminders.                                                               *)

LEMMA JobParts ==
    ASSUME Rem!TypeOK, NEW t \in Rem!Busy
    PROVE  /\ t \in Rem!Tasks /\ task[t] \in Rem!Jobs
           /\ task[t].of \in Rem!Reminder /\ task[t].of.id \in Rem!Ids
           /\ task[t].of.who \in Rem!Serials /\ task[t].of.room \in BOOLEAN
           /\ task[t].at \in {"new", "asleep", "sent", "done"} /\ task[t].cancelled \in BOOLEAN
<1>1. t \in Rem!Tasks /\ task[t] # None
  BY DEF Rem!Busy
<1>2. task[t] \in Rem!Jobs
  BY <1>1 DEF Rem!TypeOK
<1> QED BY <1>1, <1>2 DEF Rem!Jobs, Rem!Reminder

LEMMA OpParts ==
    ASSUME Rem!TypeOK
    PROVE  /\ op = [do |-> op.do, todo |-> op.todo, wait |-> op.wait, gone |-> op.gone]
           /\ op.wait \in Rem!Tasks \cup {None} /\ op.gone \subseteq Rem!Ids
           /\ op.do # "restoring" => op.todo \subseteq Rem!Ids
           /\ op.do = "restoring" => op.todo \subseteq Rem!Reminder
  BY DEF Rem!TypeOK, Rem!Operations, Rem!Restores

(* What scheduling todo does: each gets a task of its own.                  *)
Taken(todo, n, replaced) ==
    /\ replaced = {active[r.id] : r \in todo} \cap Rem!Busy
    /\ \A r \in todo : n[r] \notin Rem!Busy /\ n[r] # op.wait /\ \A i \in Rem!Ids : active[i] # n[r]
    /\ \A r, s \in todo : n[r] = n[s] => r = s
    /\ task' \in [Rem!Tasks -> Rem!Jobs \cup {None}]
    /\ active' \in [Rem!Ids -> Rem!Tasks \cup {None}]
    /\ \A t \in replaced : task'[t] = [task[t] EXCEPT !.cancelled = TRUE]
    /\ \A r \in todo : /\ task'[n[r]] = [of |-> r, at |-> "new", cancelled |-> FALSE]
                       /\ active'[r.id] = n[r]
    /\ \A t \in Rem!Tasks \ replaced : (\A r \in todo : n[r] # t) => task'[t] = task[t]
    /\ \A i \in Rem!Ids : (\A r \in todo : r.id # i) => active'[i] = active[i]
    /\ raced' = raced \cup {task[t].of.who : t \in replaced}
          \cup {r.who : r \in {x \in todo : x.id \in op.gone \cup {task[t].of.id : t \in Rem!Busy}}}
    /\ left' = left \ {r.who : r \in todo}

(* How tasks are scheduled.                                                 *)
LEMMA Scheduled ==
    ASSUME Rem!RemindersAssumption, Rem!TypeOK, NEW todo \in SUBSET Rem!Reminder,
           \A r, s \in todo : r.who = s.who \/ r.id = s.id => r = s,
           Rem!Schedule(todo)
    PROVE  \E n \in [todo -> Rem!Tasks], replaced \in SUBSET Rem!Busy : Taken(todo, n, replaced)
<1> DEFINE free(r) == {t \in Rem!Tasks \ Rem!Busy :
                       t[1] = r.who /\ op.wait # t /\ \A i \in Rem!Ids : active[i] # t}
           new(r) == CHOOSE t \in free(r) : TRUE
<1>1. PICK replaced : replaced = {active[r.id] : r \in todo} \cap Rem!Busy
  OBVIOUS
<1>2. /\ \A r \in todo : free(r) # {}
      /\ task' = [t \in Rem!Tasks |->
             IF t \in replaced THEN [task[t] EXCEPT !.cancelled = TRUE]
             ELSE IF \E r \in todo : new(r) = t
             THEN [of |-> CHOOSE r \in todo : new(r) = t, at |-> "new", cancelled |-> FALSE]
             ELSE task[t]]
      /\ active' = [i \in Rem!Ids |->
             IF \E r \in todo : r.id = i THEN new(CHOOSE r \in todo : r.id = i) ELSE active[i]]
      /\ raced' = raced \cup {task[t].of.who : t \in replaced}
             \cup {r.who : r \in {x \in todo : x.id \in op.gone \cup {task[t].of.id : t \in Rem!Busy}}}
      /\ left' = left \ {r.who : r \in todo}
  BY <1>1 DEF Rem!Schedule
<1>3. \A r \in todo : new(r) \in free(r)
  BY <1>2
<1>4. PICK n : n = [r \in todo |-> new(r)]
  OBVIOUS
<1> HIDE DEF new
<1>5. \A r \in todo : n[r] = new(r)
  BY <1>4
<1>6. \A r \in todo : /\ n[r] \in Rem!Tasks /\ n[r][1] = r.who
                      /\ n[r] \notin Rem!Busy /\ n[r] # op.wait /\ \A i \in Rem!Ids : active[i] # n[r]
  BY <1>3, <1>5
<1>7. n \in [todo -> Rem!Tasks]
  BY <1>4, <1>5, <1>6
<1>8. \A r, s \in todo : n[r] = n[s] => r = s
  BY <1>6
<1>9. \A r \in todo : r.id \in Rem!Ids
  BY DEF Rem!Reminder
<1>10. replaced \subseteq Rem!Busy /\ replaced \subseteq Rem!Tasks
  BY <1>1 DEF Rem!Busy
<1>11. \A t \in replaced : task'[t] = [task[t] EXCEPT !.cancelled = TRUE] /\ task'[t] \in Rem!Jobs
  <2> TAKE t \in replaced
  <2>1. task[t] \in Rem!Jobs /\ t \in Rem!Tasks
    BY <1>10, JobParts
  <2> QED BY <1>2, <2>1 DEF Rem!Jobs
<1>12. \A r \in todo : task'[n[r]] = [of |-> r, at |-> "new", cancelled |-> FALSE]
  <2> TAKE r \in todo
  <2>1. n[r] \notin replaced /\ n[r] \in Rem!Tasks /\ new(r) = n[r]
    BY <1>6, <1>10, <1>5
  <2>2. (CHOOSE s \in todo : new(s) = n[r]) = r
    BY <2>1, <1>5, <1>8
  <2> QED BY <1>2, <2>1, <2>2
<1>13. \A r \in todo : active'[r.id] = n[r]
  <2> TAKE r \in todo
  <2>1. (CHOOSE s \in todo : s.id = r.id) = r
    OBVIOUS
  <2> QED BY <2>1, <1>2, <1>5, <1>9
<1>14. \A t \in Rem!Tasks \ replaced : (\A r \in todo : n[r] # t) => task'[t] = task[t]
  BY <1>2, <1>5
<1>15. \A i \in Rem!Ids : (\A r \in todo : r.id # i) => active'[i] = active[i]
  BY <1>2
<1>16. task' \in [Rem!Tasks -> Rem!Jobs \cup {None}]
  <2>1. ASSUME NEW t \in Rem!Tasks PROVE task'[t] \in Rem!Jobs \cup {None}
    <3>1. CASE t \in replaced
      BY <3>1, <1>11
    <3>2. CASE \E r \in todo : n[r] = t
      <4>1. PICK r \in todo : n[r] = t
        BY <3>2
      <4>2. r \in Rem!Reminder /\ task'[t] = [of |-> r, at |-> "new", cancelled |-> FALSE]
        BY <4>1, <1>12
      <4> QED BY <4>2 DEF Rem!Jobs
    <3>3. CASE t \notin replaced /\ \A r \in todo : n[r] # t
      BY <3>3, <1>14 DEF Rem!TypeOK
    <3> QED BY <3>1, <3>2, <3>3
  <2> QED BY <2>1, <1>2
<1>17. active' \in [Rem!Ids -> Rem!Tasks \cup {None}]
  <2>1. ASSUME NEW i \in Rem!Ids PROVE active'[i] \in Rem!Tasks \cup {None}
    BY <1>13, <1>15, <1>6 DEF Rem!TypeOK
  <2> QED BY <2>1, <1>2
<1>18. Taken(todo, n, replaced)
  <2>1. \A r \in todo : n[r] \notin Rem!Busy /\ n[r] # op.wait /\ \A i \in Rem!Ids : active[i] # n[r]
    BY <1>6
  <2>2. /\ raced' = raced \cup {task[t].of.who : t \in replaced}
             \cup {r.who : r \in {x \in todo : x.id \in op.gone \cup {task[t].of.id : t \in Rem!Busy}}}
        /\ left' = left \ {r.who : r \in todo}
    BY <1>2
  <2>3. \A t \in replaced : task'[t] = [task[t] EXCEPT !.cancelled = TRUE]
    BY <1>11
  <2> HIDE DEF free
  <2> QED BY <1>1, <2>1, <2>2, <2>3, <1>8, <1>12, <1>13, <1>14, <1>15, <1>16, <1>17 DEF Taken
<1> QED BY <1>7, <1>10, <1>18

(* What the tasks are afterwards.                                           *)
LEMMA TakenTasks ==
    ASSUME Rem!RemindersAssumption, Rem!TypeOK, NEW todo \in SUBSET Rem!Reminder,
           NEW n \in [todo -> Rem!Tasks], NEW replaced \in SUBSET Rem!Busy, Taken(todo, n, replaced)
    PROVE  /\ \A t \in Rem!Busy : /\ t \in Rem!Busy' /\ task'[t].of = task[t].of
                                  /\ task'[t].at = task[t].at
                                  /\ task'[t].cancelled <=> task[t].cancelled \/ t \in replaced
           /\ \A r \in todo : /\ n[r] \in Rem!Busy' /\ task'[n[r]].of = r
                              /\ task'[n[r]].at = "new" /\ ~task'[n[r]].cancelled
           /\ \A t \in Rem!Busy' : t \in Rem!Busy \/ \E r \in todo : t = n[r]
           /\ \A r \in todo : r.id \in Rem!Ids
<1>1. ASSUME NEW t \in Rem!Busy
      PROVE  /\ t \in Rem!Busy' /\ task'[t].of = task[t].of /\ task'[t].at = task[t].at
             /\ task'[t].cancelled <=> task[t].cancelled \/ t \in replaced
  <2>1. t \in Rem!Tasks /\ task[t] \in Rem!Jobs /\ None \notin Rem!Jobs
    BY JobParts DEF Rem!RemindersAssumption
  <2>2. CASE t \in replaced
    <3>1. task'[t] = [task[t] EXCEPT !.cancelled = TRUE]
      BY <2>2 DEF Taken
    <3>2. task'[t] \in Rem!Jobs /\ task'[t].of = task[t].of /\ task'[t].at = task[t].at
          /\ task'[t].cancelled
      BY <3>1, <2>1 DEF Rem!Jobs
    <3> QED BY <3>2, <2>1, <2>2 DEF Rem!Busy
  <2>3. CASE t \notin replaced
    <3>1. task'[t] = task[t]
      BY <2>1, <2>3 DEF Taken
    <3> QED BY <3>1, <2>1, <2>3 DEF Rem!Busy
  <2> QED BY <2>2, <2>3
<1>2. ASSUME NEW r \in todo
      PROVE  /\ n[r] \in Rem!Busy' /\ task'[n[r]].of = r /\ task'[n[r]].at = "new"
             /\ ~task'[n[r]].cancelled /\ r.id \in Rem!Ids
  <2>1. task'[n[r]] = [of |-> r, at |-> "new", cancelled |-> FALSE] /\ n[r] \in Rem!Tasks
    BY DEF Taken
  <2>2. task'[n[r]] \in Rem!Jobs
    BY <2>1 DEF Rem!Jobs
  <2>3. r.id \in Rem!Ids
    BY DEF Rem!Reminder
  <2> QED BY <2>1, <2>2, <2>3 DEF Rem!Busy, Rem!RemindersAssumption
<1>3. ASSUME NEW t \in Rem!Busy', t \notin Rem!Busy PROVE \E r \in todo : t = n[r]
  <2>1. t \in Rem!Tasks /\ task'[t] # None /\ task[t] = None
    BY <1>3 DEF Rem!Busy
  <2>2. t \notin replaced
    BY <1>3
  <2> QED BY <2>1, <2>2 DEF Taken
<1> QED BY <1>1, <1>2, <1>3

(* The rest of a step that schedules: the reminders were promised.          *)
Promises(todo) ==
    /\ todo \subseteq Rem!Promised
    /\ UNCHANGED <<rows, enabled, roomOn, copies, unsure, events>>
    /\ creating' \subseteq creating /\ creating \subseteq creating' \cup todo
    /\ \/ op' = op
       \/ op.do = "restoring" /\ op' = Rem!Idle /\ \A r \in op.todo : Rem!Restorable(r) => r \in todo

LEMMA PromisesKept ==
    ASSUME NEW todo, Promises(todo)
    PROVE  /\ Rem!Promised' \subseteq Rem!Promised /\ Rem!Used' = Rem!Used
           /\ op.do \in {"cancelling", "popping"} => op' = op
  BY DEF Promises, Rem!Promised, Rem!Used, Rem!Idle

LEMMA TakenStep ==
    ASSUME Rem!RemindersAssumption, Rem!TypeOK, Rem!RecordsInv, Rem!MapInv, Rem!SentInv,
           NEW todo \in SUBSET Rem!Reminder, \A r, s \in todo : r.id = s.id => r = s,
           NEW n \in [todo -> Rem!Tasks], NEW replaced \in SUBSET Rem!Busy, Taken(todo, n, replaced),
           Promises(todo)
    PROVE  Rem!TypeOK' /\ Rem!RecordsInv' /\ Rem!MapInv' /\ Rem!SentInv'
<1>1. \A t \in Rem!Busy : /\ t \in Rem!Busy' /\ task'[t].of = task[t].of
                          /\ task'[t].at = task[t].at
                          /\ task'[t].cancelled <=> task[t].cancelled \/ t \in replaced
  BY TakenTasks
<1>2. \A r \in todo : /\ n[r] \in Rem!Busy' /\ task'[n[r]].of = r
                      /\ task'[n[r]].at = "new" /\ ~task'[n[r]].cancelled /\ r.id \in Rem!Ids
  BY TakenTasks
<1>3. \A t \in Rem!Busy' : t \in Rem!Busy \/ \E r \in todo : t = n[r]
  BY TakenTasks
<1>4. Rem!Promised' \subseteq Rem!Promised /\ Rem!Used' = Rem!Used
      /\ (op.do \in {"cancelling", "popping"} => op' = op)
  BY PromisesKept
<1>5. /\ raced \subseteq raced' /\ \A t \in replaced : task[t].of.who \in raced'
      /\ \A r \in todo : (\E t \in Rem!Busy : task[t].of.id = r.id) => r.who \in raced'
  BY DEF Taken
<1>6. Rem!TypeOK'
  <2>1. op' \in IF op'.do = "restoring" THEN Rem!Restores ELSE Rem!Operations
    BY DEF Rem!TypeOK, Promises, Rem!Idle, Rem!Operations
  <2>2. raced' \subseteq Rem!Serials /\ left' \subseteq Rem!Serials
    <3>1. \A t \in replaced : task[t].of.who \in Rem!Serials
      BY JobParts
    <3>2. \A r \in todo : r.who \in Rem!Serials
      BY DEF Rem!Reminder
    <3> QED BY <3>1, <3>2 DEF Taken, Rem!TypeOK
  <2>3. creating' \subseteq Rem!Reminder
    BY DEF Rem!TypeOK, Promises
  <2> QED BY <2>1, <2>2, <2>3 DEF Rem!TypeOK, Taken, Promises
<1>7. Rem!RecordsInv'
  <2>1. todo \subseteq Rem!Promised /\ rows' = rows
    BY DEF Promises
  <2>2. \A t \in Rem!Busy' : task'[t].of \in Rem!Known
    BY <1>1, <1>2, <1>3, <2>1 DEF Rem!Known
  <2>3. Rem!Known' \subseteq Rem!Known
    BY <1>4, <2>1, <2>2 DEF Rem!Known
  <2>4. op'.do = "restoring" => op' = op
    BY DEF Promises, Rem!Idle
  <2> QED BY <1>4, <1>5, <2>1, <2>3, <2>4 DEF Rem!RecordsInv
<1>8. Rem!MapInv'
  <2>1. ASSUME NEW i \in Rem!Ids, active'[i] \in Rem!Busy' PROVE task'[active'[i]].of.id = i
    <3>1. CASE \E r \in todo : r.id = i
      <4>1. PICK r \in todo : r.id = i
        BY <3>1
      <4>2. active'[i] = n[r]
        BY <4>1 DEF Taken
      <4> QED BY <4>1, <4>2, <1>2
    <3>2. CASE \A r \in todo : r.id # i
      <4>1. active'[i] = active[i] /\ \A r \in todo : n[r] # active[i]
        BY <3>2 DEF Taken
      <4>2. active[i] \in Rem!Busy
        BY <4>1, <2>1, <1>3
      <4>3. task[active[i]].of.id = i
        BY <4>2 DEF Rem!MapInv, Rem!Running
      <4> QED BY <4>1, <4>2, <4>3, <1>1
    <3> QED BY <3>1, <3>2
  <2>2. ASSUME NEW t \in Rem!Busy', task'[t].of.who \notin raced', task'[t].cancelled
        PROVE  op'.do \in {"cancelling", "popping"} /\ op'.wait = t
    <3>1. t \in Rem!Busy
      BY <2>2, <1>2, <1>3
    <3>2. task[t].of.who \notin raced /\ task[t].cancelled
      BY <3>1, <2>2, <1>1, <1>5
    <3> QED BY <3>1, <3>2, <1>4 DEF Rem!MapInv
  <2>3. ASSUME NEW t \in Rem!Busy', task'[t].of.who \notin raced', ~task'[t].cancelled
        PROVE  /\ active'[task'[t].of.id] = t
               /\ \A u \in Rem!Busy' : task'[u].of.id = task'[t].of.id => u = t
    <3>1. CASE t \in Rem!Busy
      <4>1. /\ task'[t].of = task[t].of /\ ~task[t].cancelled /\ t \notin replaced
            /\ task[t].of.who \notin raced /\ task[t].of.id \in Rem!Ids
        BY <3>1, <2>3, <1>1, <1>5, JobParts
      <4>2. active[task[t].of.id] = t /\ \A u \in Rem!Busy : task[u].of.id = task[t].of.id => u = t
        BY <3>1, <4>1 DEF Rem!MapInv
      <4>3. \A r \in todo : r.id # task[t].of.id
        BY <3>1, <4>1, <4>2 DEF Taken
      <4>4. active'[task[t].of.id] = t
        BY <4>1, <4>2, <4>3 DEF Taken
      <4>5. ASSUME NEW u \in Rem!Busy', task'[u].of.id = task[t].of.id PROVE u = t
        <5>1. u \in Rem!Busy
          BY <4>5, <4>3, <1>2, <1>3
        <5> QED BY <4>2, <4>5, <5>1, <1>1
      <4> QED BY <4>1, <4>4, <4>5
    <3>2. CASE \E r \in todo : t = n[r]
      <4>1. PICK r \in todo : t = n[r]
        BY <3>2
      <4>2. task'[t].of = r /\ active'[r.id] = t
        BY <4>1, <1>2 DEF Taken
      <4>3. \A u \in Rem!Busy : task[u].of.id # r.id
        BY <1>5, <2>3, <4>2
      <4>4. ASSUME NEW u \in Rem!Busy', task'[u].of.id = r.id PROVE u = t
        <5>1. u \notin Rem!Busy
          BY <4>3, <4>4, <1>1
        <5>2. PICK q \in todo : u = n[q]
          BY <5>1, <1>3
        <5> QED BY <5>2, <4>1, <4>4, <1>2
      <4> QED BY <4>2, <4>4
    <3> QED BY <3>1, <3>2, <1>3
  <2> QED BY <2>1, <2>2, <2>3 DEF Rem!MapInv, Rem!Running
<1>9. Rem!SentInv'
  <2>1. rows' = rows /\ copies' = copies /\ unsure' = unsure
    BY DEF Promises
  <2>2. \A t \in Rem!Busy' : task'[t].at = "done" => task'[t].of \notin rows'
    BY <2>1, <1>1, <1>2, <1>3 DEF Rem!SentInv
  <2>3. ASSUME NEW w \in Rem!Used' \ (unsure' \cup raced')
        PROVE  /\ copies'[w] \in {0, 1}
               /\ copies'[w] = 1 => \A r \in rows' : r.who = w =>
                     \E t \in Rem!Busy' : task'[t].of = r /\ task'[t].at = "sent"
    <3>1. w \in Rem!Used \ (unsure \cup raced)
      BY <2>1, <1>4, <1>5
    <3>2. /\ copies[w] \in {0, 1}
          /\ copies[w] = 1 => \A r \in rows : r.who = w =>
                \E t \in Rem!Busy : task[t].of = r /\ task[t].at = "sent"
      BY <3>1 DEF Rem!SentInv
    <3> QED BY <2>1, <3>2, <1>1
  <2>4. ASSUME NEW w \in Rem!Used' \ (unsure' \cup raced'),
               NEW t \in Rem!Live', task'[t].of.who = w, task'[t].at \in {"new", "asleep"}
        PROVE  copies'[w] = 0
    <3>1. w \in Rem!Used \ (unsure \cup raced) /\ t \in Rem!Busy' /\ ~task'[t].cancelled
      BY <2>1, <1>4, <1>5 DEF Rem!Live
    <3>2. CASE t \in Rem!Busy
      <4>1. t \in Rem!Live /\ task[t].of.who = w /\ task[t].at \in {"new", "asleep"}
        BY <3>1, <3>2, <2>4, <1>1 DEF Rem!Live
      <4> QED BY <4>1, <2>1, <3>1 DEF Rem!SentInv
    <3>3. CASE \E r \in todo : t = n[r]
      <4>1. PICK r \in todo : t = n[r]
        BY <3>3
      <4>2. r.who = w
        BY <4>1, <2>4, <1>2
      <4>3. r \in rows
        BY <4>2, <3>1 DEF Rem!RecordsInv, Promises
      <4>4. \A u \in Rem!Busy : task[u].of # r
        BY <1>5, <2>4, <4>2
      <4>5. copies[w] \in {0, 1} /\ copies[w] # 1
        BY <3>1, <4>2, <4>3, <4>4 DEF Rem!SentInv
      <4> QED BY <4>5, <2>1
    <3> QED BY <3>1, <3>2, <3>3, <1>3
  <2> QED BY <2>2, <2>3, <2>4 DEF Rem!SentInv
<1> QED BY <1>6, <1>7, <1>8, <1>9

LEMMA TakenCare ==
    ASSUME Rem!RemindersAssumption, Rem!TypeOK, Rem!RecordsInv, Rem!MapInv, Rem!CommandInv, Rem!CareInv,
           NEW todo \in SUBSET Rem!Reminder,
           NEW n \in [todo -> Rem!Tasks], NEW replaced \in SUBSET Rem!Busy, Taken(todo, n, replaced),
           Promises(todo)
    PROVE  Rem!CommandInv' /\ Rem!CareInv'
<1>1. \A t \in Rem!Busy : /\ t \in Rem!Busy' /\ task'[t].of = task[t].of
                          /\ task'[t].at = task[t].at
                          /\ task'[t].cancelled <=> task[t].cancelled \/ t \in replaced
  BY TakenTasks
<1>2. \A r \in todo : /\ n[r] \in Rem!Busy' /\ task'[n[r]].of = r
                      /\ task'[n[r]].at = "new" /\ ~task'[n[r]].cancelled /\ r.id \in Rem!Ids
  BY TakenTasks
<1>3. \A t \in Rem!Busy' : t \in Rem!Busy \/ \E r \in todo : t = n[r]
  BY TakenTasks
<1>4. /\ raced \subseteq raced' /\ \A t \in replaced : task[t].of.who \in raced'
      /\ \A r \in todo : r.id \in op.gone => r.who \in raced'
      /\ left' = left \ {r.who : r \in todo}
  BY DEF Taken
<1>5. /\ todo \subseteq Rem!Promised /\ rows' = rows /\ enabled' = enabled /\ roomOn' = roomOn
      /\ creating' \subseteq creating /\ creating \subseteq creating' \cup todo
  BY DEF Promises
<1>6. \/ op' = op
      \/ op.do = "restoring" /\ op'.do = "none" /\ op'.gone = {}
         /\ \A r \in op.todo : Rem!Restorable(r) => r \in todo
  BY DEF Promises, Rem!Idle
<1>7. ASSUME NEW t \in Rem!Live', task'[t].of.who \notin raced', task'[t].at \in {"new", "asleep"}
      PROVE  /\ op'.do = "popping" /\ task'[t].of.id \in op'.gone => task'[t].of.id \in op'.todo
             /\ task'[t].of \in rows' \/ (op'.do = "popping" /\ task'[t].of.id \in op'.todo)
  <2>0. t \in Rem!Busy' /\ ~task'[t].cancelled
    BY DEF Rem!Live
  <2>1. CASE t \in Rem!Busy
    <3>1. t \in Rem!Live /\ task[t].of = task'[t].of /\ task[t].at \in {"new", "asleep"}
          /\ task[t].of.who \notin raced
      BY <2>0, <2>1, <1>7, <1>1, <1>4 DEF Rem!Live
    <3>2. /\ op.do = "popping" /\ task[t].of.id \in op.gone => task[t].of.id \in op.todo
          /\ task[t].of \in rows \/ (op.do = "popping" /\ task[t].of.id \in op.todo)
      BY <3>1 DEF Rem!CommandInv
    <3> QED BY <3>1, <3>2, <1>5, <1>6
  <2>2. CASE \E r \in todo : t = n[r]
    <3>1. PICK r \in todo : t = n[r]
      BY <2>2
    <3>2. task'[t].of = r /\ r.who \notin raced' /\ r.who \notin raced
      BY <3>1, <1>2, <1>4, <1>7
    <3>3. r \in rows
      BY <3>2, <1>5 DEF Rem!RecordsInv
    <3> QED BY <3>2, <3>3, <1>4, <1>5, <1>6
  <2> QED BY <2>0, <2>1, <2>2, <1>3
<1>8. Rem!CommandInv'
  <2>1. /\ op'.do = "cancelling" => ~enabled'
        /\ op'.do = "listing" => ~roomOn'
        /\ op'.do \notin {"relisting", "popping"} => op'.gone = {}
    BY <1>5, <1>6 DEF Rem!CommandInv
  <2>2. \A r \in rows' : r.id \in op'.gone => r.room \/ r.who \in raced'
    BY <1>4, <1>5, <1>6 DEF Rem!CommandInv
  <2>3. op'.do = "popping" => \A r \in rows' : r.id \in op'.todo =>
          r.id \in op'.gone \/ (r.room /\ ~roomOn') \/ r.who \in raced'
    BY <1>4, <1>5, <1>6 DEF Rem!CommandInv
  <2> QED BY <2>1, <2>2, <2>3, <1>7 DEF Rem!CommandInv
<1>9. ASSUME enabled', NEW r \in rows' \ creating', r.room => roomOn'
      PROVE  \/ r.who \in left' \cup raced' \/ r.id \in op'.gone \/ op'.do = "reading"
             \/ op'.do = "restoring" /\ r \in op'.todo
             \/ \E t \in Rem!Live' : task'[t].of = r
  <2>1. CASE r \in todo
    BY <2>1, <1>2 DEF Rem!Live
  <2>2. CASE r \notin todo
    <3>1. r \in rows \ creating /\ enabled /\ (r.room => roomOn)
      BY <2>2, <1>5, <1>9
    <3>2. ASSUME r.who \in left PROVE r.who \in left'
      <4>1. \A s \in todo : s.who # r.who
        BY <2>2, <3>1, <1>5 DEF Rem!RecordsInv, Rem!Known
      <4> QED BY <4>1, <3>2, <1>4
    <3>3. ASSUME NEW t \in Rem!Live, task[t].of = r
          PROVE  r.who \in raced' \/ \E u \in Rem!Live' : task'[u].of = r
      <4>1. t \in Rem!Busy /\ ~task[t].cancelled
        BY DEF Rem!Live
      <4>2. CASE t \in replaced
        BY <4>2, <3>3, <1>4
      <4>3. CASE t \notin replaced
        <5>1. t \in Rem!Live' /\ task'[t].of = r
          BY <4>1, <4>3, <3>3, <1>1 DEF Rem!Live
        <5> QED BY <5>1
      <4> QED BY <4>2, <4>3
    <3>4. ASSUME op.do = "restoring", r \in op.todo, op' # op
          PROVE  r.who \in raced \/ \E t \in Rem!Live : task[t].of = r
      <4>1. Rem!Running(r.id) /\ r.id \in Rem!Ids
        BY <2>2, <3>1, <3>4, <1>6 DEF Rem!Restorable, Rem!TypeOK, Rem!Reminder
      <4>2. PICK t : t = active[r.id]
        OBVIOUS
      <4>3. t \in Rem!Busy /\ task[t].of.id = r.id
        BY <4>1, <4>2 DEF Rem!MapInv, Rem!Running
      <4>4. task[t].of = r \/ r.who \in raced
        BY <4>3, <3>1 DEF Rem!RecordsInv, Rem!Known
      <4>5. task[t].of.who \in raced \/ ~task[t].cancelled
        BY <4>3, <3>4 DEF Rem!MapInv
      <4> QED BY <4>3, <4>4, <4>5 DEF Rem!Live
    <3>5. \/ r.who \in left \cup raced \/ r.id \in op.gone \/ op.do = "reading"
          \/ op.do = "restoring" /\ r \in op.todo
          \/ \E t \in Rem!Live : task[t].of = r
      BY <3>1 DEF Rem!CareInv
    <3>6. op' # op => op.do = "restoring" /\ op.gone = {}
      BY <1>6 DEF Rem!CommandInv
    <3> QED BY <3>2, <3>3, <3>4, <3>5, <3>6, <1>4
  <2> QED BY <2>1, <2>2
<1> QED BY <1>8, <1>9 DEF Rem!CareInv

(* A reminder's task is created, and the rows that were read are restored.  *)
LEMMA CreatedHolds ==
    ASSUME Rem!RemindersAssumption, Rem!TypeOK, Rem!RemindersInv, NEW r \in creating, Rem!Created(r)
    PROVE  Rem!TypeOK' /\ Rem!RemindersInv'
<1>1. PICK todo : todo = {r}
  OBVIOUS
<1>2. todo \in SUBSET Rem!Reminder /\ Rem!Schedule(todo)
  BY <1>1 DEF Rem!Created, Rem!TypeOK
<1>3. Promises(todo)
  BY <1>1 DEF Rem!Created, Promises, Rem!stored, Rem!Promised
<1>4. \A q, s \in todo : q.who = s.who \/ q.id = s.id => q = s
  BY <1>1
<1>5. PICK n \in [todo -> Rem!Tasks], replaced \in SUBSET Rem!Busy : Taken(todo, n, replaced)
  BY <1>2, <1>4, Scheduled
<1>6. Rem!TypeOK' /\ Rem!RecordsInv' /\ Rem!MapInv' /\ Rem!SentInv'
  BY <1>2, <1>3, <1>4, <1>5, TakenStep DEF Rem!RemindersInv
<1>7. Rem!CommandInv' /\ Rem!CareInv'
  BY <1>2, <1>3, <1>4, <1>5, TakenCare DEF Rem!RemindersInv
<1> QED BY <1>6, <1>7 DEF Rem!RemindersInv

LEMMA RestoreHolds ==
    ASSUME Rem!RemindersAssumption, Rem!TypeOK, Rem!RemindersInv, Rem!Restore
    PROVE  Rem!TypeOK' /\ Rem!RemindersInv'
<1>1. PICK todo : todo = {r \in op.todo : Rem!Restorable(r)}
  OBVIOUS
<1>2. todo \in SUBSET Rem!Reminder /\ Rem!Schedule(todo) /\ op.do = "restoring"
  BY <1>1, OpParts DEF Rem!Restore
<1>3. Promises(todo)
  BY <1>1, <1>2 DEF Rem!Restore, Promises, Rem!stored, Rem!Promised
<1>4. \A q, s \in todo : q.who = s.who \/ q.id = s.id => q = s
  BY <1>1, <1>2 DEF Rem!RemindersInv, Rem!RecordsInv, Rem!Known, Rem!Promised
<1>5. PICK n \in [todo -> Rem!Tasks], replaced \in SUBSET Rem!Busy : Taken(todo, n, replaced)
  BY <1>2, <1>4, Scheduled
<1>6. Rem!TypeOK' /\ Rem!RecordsInv' /\ Rem!MapInv' /\ Rem!SentInv'
  BY <1>2, <1>3, <1>4, <1>5, TakenStep DEF Rem!RemindersInv
<1>7. Rem!CommandInv' /\ Rem!CareInv'
  BY <1>2, <1>3, <1>4, <1>5, TakenCare DEF Rem!RemindersInv
<1> QED BY <1>6, <1>7 DEF Rem!RemindersInv

-----------------------------------------------------------------------------
(* A task is over: what was sent and not finished is noted, and so is who   *)
(* is left without a task.                                                  *)
TaskOver(t) ==
    /\ task' = [task EXCEPT ![t] = None]
    /\ active' = active \/ active' = [active EXCEPT ![task[t].of.id] = None]
    /\ UNCHANGED <<rows, enabled, roomOn, creating, op, copies, raced>>
    /\ unsure \subseteq unsure' /\ left \subseteq left'
    /\ unsure' \cup left' \subseteq Rem!Serials /\ events' \in Nat
    /\ task[t].at = "sent" => task[t].of.who \in unsure'
    /\ \/ task[t].cancelled \/ task[t].of.who \in left' \/ task[t].at = "done"
       \/ ~enabled \/ (task[t].of.room /\ ~roomOn)

LEMMA OverHolds ==
    ASSUME Rem!RemindersAssumption, Rem!TypeOK, Rem!RemindersInv, NEW t \in Rem!Busy, TaskOver(t)
    PROVE  Rem!TypeOK' /\ Rem!RemindersInv'
<1>1. t \in Rem!Tasks /\ task[t].of.id \in Rem!Ids /\ task' = [task EXCEPT ![t] = None]
  BY JobParts DEF TaskOver
<1>2. /\ rows' = rows /\ enabled' = enabled /\ roomOn' = roomOn /\ creating' = creating
      /\ op' = op /\ copies' = copies /\ raced' = raced
      /\ unsure \subseteq unsure' /\ left \subseteq left'
  BY DEF TaskOver
<1>3. /\ \A u \in Rem!Busy \ {t} : u \in Rem!Busy' /\ task'[u] = task[u]
      /\ Rem!Busy' = Rem!Busy \ {t}
  BY <1>1 DEF Rem!Busy, Rem!TypeOK
<1>4. Rem!Used' = Rem!Used /\ Rem!Promised' = Rem!Promised /\ Rem!Known' \subseteq Rem!Known
  BY <1>2, <1>3 DEF Rem!Used, Rem!Promised, Rem!Known
<1>5. \A i \in Rem!Ids : active'[i] = active[i] \/ (i = task[t].of.id /\ active'[i] = None)
  BY <1>1 DEF TaskOver, Rem!TypeOK
<1>6. None \notin Rem!Busy
  BY DEF Rem!RemindersAssumption, Rem!Busy
<1>7. Rem!TypeOK'
  <2>1. task' \in [Rem!Tasks -> Rem!Jobs \cup {None}]
    BY <1>1 DEF Rem!TypeOK
  <2>2. active' \in [Rem!Ids -> Rem!Tasks \cup {None}]
    BY <1>1 DEF Rem!TypeOK, TaskOver
  <2> QED BY <1>2, <2>1, <2>2 DEF Rem!TypeOK, TaskOver
<1>8. Rem!RecordsInv'
  BY <1>2, <1>4 DEF Rem!RecordsInv, Rem!RemindersInv
<1>9. Rem!MapInv'
  <2>1. ASSUME NEW i \in Rem!Ids, active'[i] \in Rem!Busy' PROVE task'[active'[i]].of.id = i
    <3>1. active'[i] = active[i] /\ active[i] \in Rem!Busy \ {t}
      BY <2>1, <1>3, <1>5, <1>6
    <3> QED BY <3>1, <1>3 DEF Rem!RemindersInv, Rem!MapInv, Rem!Running
  <2>2. ASSUME NEW u \in Rem!Busy', task'[u].of.who \notin raced', task'[u].cancelled
        PROVE  op'.do \in {"cancelling", "popping"} /\ op'.wait = u
    BY <2>2, <1>2, <1>3 DEF Rem!RemindersInv, Rem!MapInv
  <2>3. ASSUME NEW u \in Rem!Busy', task'[u].of.who \notin raced', ~task'[u].cancelled
        PROVE  /\ active'[task'[u].of.id] = u
               /\ \A v \in Rem!Busy' : task'[v].of.id = task'[u].of.id => v = u
    <3>1. u \in Rem!Busy \ {t} /\ task'[u] = task[u]
      BY <2>3, <1>3
    <3>2. /\ active[task[u].of.id] = u
          /\ \A v \in Rem!Busy : task[v].of.id = task[u].of.id => v = u
      BY <3>1, <2>3, <1>2 DEF Rem!RemindersInv, Rem!MapInv
    <3>3. task[u].of.id # task[t].of.id /\ task[u].of.id \in Rem!Ids
      BY <3>1, <3>2, JobParts
    <3> QED BY <3>1, <3>2, <3>3, <1>3, <1>5
  <2> QED BY <2>1, <2>2, <2>3 DEF Rem!MapInv, Rem!Running
<1>10. Rem!SentInv'
  <2>1. \A u \in Rem!Busy' : task'[u].at = "done" => task'[u].of \notin rows'
    BY <1>2, <1>3 DEF Rem!RemindersInv, Rem!SentInv
  <2>2. ASSUME NEW w \in Rem!Used' \ (unsure' \cup raced')
        PROVE  /\ copies'[w] \in {0, 1}
               /\ \A u \in Rem!Live' : task'[u].of.who = w /\ task'[u].at \in {"new", "asleep"}
                     => copies'[w] = 0
               /\ copies'[w] = 1 => \A r \in rows' : r.who = w =>
                     \E u \in Rem!Busy' : task'[u].of = r /\ task'[u].at = "sent"
    <3>1. w \in Rem!Used \ (unsure \cup raced)
      BY <1>2, <1>4
    <3>2. /\ copies[w] \in {0, 1}
          /\ \A u \in Rem!Live : task[u].of.who = w /\ task[u].at \in {"new", "asleep"}
                => copies[w] = 0
          /\ copies[w] = 1 => \A r \in rows : r.who = w =>
                \E u \in Rem!Busy : task[u].of = r /\ task[u].at = "sent"
      BY <3>1 DEF Rem!RemindersInv, Rem!SentInv
    <3>3. task[t].of.who = w => task[t].at # "sent"
      BY <2>2 DEF TaskOver
    <3>4. \A u \in Rem!Live' : u \in Rem!Live /\ task'[u] = task[u]
      BY <1>3 DEF Rem!Live
    <3> QED BY <3>2, <3>3, <3>4, <1>2, <1>3
  <2> QED BY <2>1, <2>2 DEF Rem!SentInv
<1>11. \A u \in Rem!Live' : u \in Rem!Live /\ task'[u] = task[u]
  BY <1>3 DEF Rem!Live
<1>12. Rem!CommandInv'
  BY <1>2, <1>11 DEF Rem!RemindersInv, Rem!CommandInv
<1>13. ASSUME enabled', NEW r \in rows' \ creating', r.room => roomOn'
      PROVE  \/ r.who \in left' \cup raced' \/ r.id \in op'.gone \/ op'.do = "reading"
             \/ op'.do = "restoring" /\ r \in op'.todo
             \/ \E u \in Rem!Live' : task'[u].of = r
  <2>1. \/ r.who \in left \cup raced \/ r.id \in op.gone \/ op.do = "reading"
        \/ op.do = "restoring" /\ r \in op.todo
        \/ \E u \in Rem!Live : task[u].of = r
    BY <1>2, <1>13 DEF Rem!RemindersInv, Rem!CareInv
  <2>2. ASSUME NEW u \in Rem!Live, task[u].of = r
        PROVE  r.who \in left' \/ \E v \in Rem!Live' : task'[v].of = r
    <3>1. CASE u = t
      <4>1. task[t].at # "done"
        BY <3>1, <2>2, <1>2, <1>13 DEF Rem!RemindersInv, Rem!SentInv
      <4> QED BY <4>1, <3>1, <2>2, <1>2, <1>13 DEF TaskOver, Rem!Live
    <3>2. CASE u # t
      <4>1. u \in Rem!Live' /\ task'[u].of = r
        BY <3>2, <2>2, <1>3 DEF Rem!Live
      <4> QED BY <4>1
    <3> QED BY <3>1, <3>2
  <2> QED BY <2>1, <2>2, <1>2
<1>14. Rem!CareInv'
  BY <1>13 DEF Rem!CareInv
<1> QED BY <1>7, <1>8, <1>9, <1>10, <1>12, <1>14 DEF Rem!RemindersInv

LEMMA TasksEnd ==
    ASSUME Rem!RemindersAssumption, Rem!TypeOK, Rem!RemindersInv, NEW t \in Rem!Tasks,
           Rem!DueButOff(t) \/ Rem!SendRefused(t) \/ Rem!DeleteFails(t) \/ Rem!Finishes(t)
           \/ Rem!Cancelled(t)
    PROVE  Rem!TypeOK' /\ Rem!RemindersInv'
<1>1. t \in Rem!Busy
  BY DEF Rem!DueButOff, Rem!SendRefused, Rem!Due, Rem!DeleteFails, Rem!Finishes, Rem!Cancelled, Rem!Live
<1>2. /\ task[t].of.who \in Rem!Serials /\ unsure \subseteq Rem!Serials /\ left \subseteq Rem!Serials
      /\ events \in Nat
  BY <1>1, JobParts DEF Rem!TypeOK
<1>3. TaskOver(t)
  <2>1. CASE Rem!DueButOff(t)
    BY <2>1, <1>1, <1>2 DEF Rem!DueButOff, TaskOver, Rem!Ends, Rem!stored, Rem!ghosts
  <2>2. CASE Rem!SendRefused(t)
    BY <2>2, <1>1, <1>2 DEF Rem!SendRefused, Rem!Due, TaskOver, Rem!Ends, Rem!stored
  <2>3. CASE Rem!DeleteFails(t)
    BY <2>3, <1>1, <1>2 DEF Rem!DeleteFails, TaskOver, Rem!Ends, Rem!stored
  <2>4. CASE Rem!Finishes(t)
    BY <2>4, <1>1, <1>2 DEF Rem!Finishes, TaskOver, Rem!Ends, Rem!stored, Rem!ghosts
  <2>5. CASE Rem!Cancelled(t)
    BY <2>5, <1>1, <1>2, JobParts DEF Rem!Cancelled, Rem!Live, TaskOver, Rem!Ends, Rem!stored
  <2> QED BY <2>1, <2>2, <2>3, <2>4, <2>5
<1> QED BY <1>1, <1>3, OverHolds

(* A task goes on; the map stays.                                           *)
LEMMA GoneOn ==
    ASSUME Rem!RemindersAssumption, Rem!TypeOK, NEW t \in Rem!Live,
           NEW x \in {"new", "asleep", "sent", "done"}, task' = [task EXCEPT ![t].at = x]
    PROVE  /\ Rem!Busy' = Rem!Busy /\ Rem!Live' = Rem!Live /\ t \in Rem!Busy
           /\ \A u \in Rem!Busy : task'[u].of = task[u].of /\ task'[u].cancelled = task[u].cancelled
           /\ \A u \in Rem!Busy \ {t} : task'[u].at = task[u].at
           /\ task'[t].at = x
           /\ task' \in [Rem!Tasks -> Rem!Jobs \cup {None}]
<1>1. t \in Rem!Busy /\ t \in Rem!Tasks /\ task[t] \in Rem!Jobs /\ ~task[t].cancelled
  BY JobParts DEF Rem!Live
<1>2. task'[t] \in Rem!Jobs /\ task'[t].of = task[t].of /\ task'[t].cancelled = task[t].cancelled
      /\ task'[t].at = x
  BY <1>1 DEF Rem!Jobs, Rem!TypeOK
<1>3. \A u \in Rem!Tasks \ {t} : task'[u] = task[u]
  BY DEF Rem!TypeOK
<1>4. task' \in [Rem!Tasks -> Rem!Jobs \cup {None}]
  BY <1>2, <1>3 DEF Rem!TypeOK
<1>5. Rem!Busy' = Rem!Busy
  BY <1>1, <1>2, <1>3 DEF Rem!Busy, Rem!RemindersAssumption
<1>6. \A u \in Rem!Busy : task'[u].of = task[u].of /\ task'[u].cancelled = task[u].cancelled
  BY <1>1, <1>2, <1>3 DEF Rem!Busy
<1>7. Rem!Live' = Rem!Live
  BY <1>5, <1>6 DEF Rem!Live
<1> QED BY <1>1, <1>2, <1>3, <1>4, <1>5, <1>6, <1>7 DEF Rem!Busy

LEMMA StartsHolds ==
    ASSUME Rem!RemindersAssumption, Rem!TypeOK, Rem!RemindersInv, NEW t \in Rem!Tasks, Rem!Starts(t)
    PROVE  Rem!TypeOK' /\ Rem!RemindersInv'
<1>1. t \in Rem!Live /\ task' = [task EXCEPT ![t].at = "asleep"] /\ task[t].at = "new"
  BY DEF Rem!Starts
<1>2. UNCHANGED <<rows, enabled, roomOn, active, creating, op, copies, unsure, raced, left, events>>
  BY DEF Rem!Starts, Rem!stored, Rem!ghosts
<1>3. Rem!Busy' = Rem!Busy /\ Rem!Live' = Rem!Live /\ t \in Rem!Busy
  BY <1>1, GoneOn
<1>4. \A u \in Rem!Busy : task'[u].of = task[u].of /\ task'[u].cancelled = task[u].cancelled
  BY <1>1, GoneOn
<1>5. (\A u \in Rem!Busy \ {t} : task'[u].at = task[u].at) /\ task'[t].at = "asleep"
  BY <1>1, GoneOn
<1>6. task' \in [Rem!Tasks -> Rem!Jobs \cup {None}]
  BY <1>1, GoneOn
<1>7. Rem!Live \subseteq Rem!Busy
  BY DEF Rem!Live
<1>8. Rem!TypeOK'
  BY <1>2, <1>6 DEF Rem!TypeOK
<1>9. Rem!Known' = Rem!Known /\ Rem!Promised' = Rem!Promised /\ Rem!Used' = Rem!Used
  BY <1>2, <1>3, <1>4 DEF Rem!Known, Rem!Promised, Rem!Used
<1>10. Rem!RecordsInv'
  BY <1>2, <1>9 DEF Rem!RemindersInv, Rem!RecordsInv
<1>11. Rem!MapInv'
  BY <1>2, <1>3, <1>4 DEF Rem!RemindersInv, Rem!MapInv, Rem!Running
<1>12. Rem!SentInv'
  BY <1>1, <1>2, <1>3, <1>4, <1>5, <1>7, <1>9 DEF Rem!RemindersInv, Rem!SentInv
<1>13. Rem!CommandInv'
  BY <1>1, <1>2, <1>3, <1>4, <1>5, <1>7 DEF Rem!RemindersInv, Rem!CommandInv
<1>14. Rem!CareInv'
  BY <1>2, <1>3, <1>4, <1>7 DEF Rem!RemindersInv, Rem!CareInv
<1> QED BY <1>8, <1>10, <1>11, <1>12, <1>13, <1>14 DEF Rem!RemindersInv

LEMMA SendsHolds ==
    ASSUME Rem!RemindersAssumption, Rem!TypeOK, Rem!RemindersInv, NEW t \in Rem!Tasks, Rem!Sends(t)
    PROVE  Rem!TypeOK' /\ Rem!RemindersInv' /\ Rem!SilentStep
<1>1. t \in Rem!Live /\ task' = [task EXCEPT ![t].at = "sent"] /\ task[t].at = "asleep"
  BY DEF Rem!Sends, Rem!Due
<1>2. UNCHANGED <<rows, enabled, roomOn, active, creating, op, unsure, raced, left, events>>
  BY DEF Rem!Sends, Rem!stored
<1>3. Rem!Busy' = Rem!Busy /\ Rem!Live' = Rem!Live /\ t \in Rem!Busy
  BY <1>1, GoneOn
<1>4. \A u \in Rem!Busy : task'[u].of = task[u].of /\ task'[u].cancelled = task[u].cancelled
  BY <1>1, GoneOn
<1>5. (\A u \in Rem!Busy \ {t} : task'[u].at = task[u].at) /\ task'[t].at = "sent"
  BY <1>1, GoneOn
<1>6. task' \in [Rem!Tasks -> Rem!Jobs \cup {None}]
  BY <1>1, GoneOn
<1>7. Rem!Live \subseteq Rem!Busy
  BY DEF Rem!Live
<1>8. PICK w \in Rem!Serials : w = task[t].of.who
  BY <1>3, JobParts
<1>9. w \in Rem!Used /\ copies[w] \in Nat /\ None \notin Nat
  BY <1>3, <1>8 DEF Rem!RemindersInv, Rem!RecordsInv, Rem!Known, Rem!Used, Rem!TypeOK,
       Rem!RemindersAssumption
<1>10. copies' = [copies EXCEPT ![w] = @ + 1]
  BY <1>8 DEF Rem!Sends
<1>11. (\A v \in Rem!Serials \ {w} : copies'[v] = copies[v]) /\ copies'[w] = copies[w] + 1
       /\ copies' \in [Rem!Serials -> Nat \cup {None}]
  BY <1>9, <1>10 DEF Rem!TypeOK
<1>12. Rem!TypeOK'
  BY <1>2, <1>6, <1>11 DEF Rem!TypeOK
<1>13. Rem!Known' = Rem!Known /\ Rem!Promised' = Rem!Promised
  BY <1>2, <1>3, <1>4 DEF Rem!Known, Rem!Promised
<1>14. Rem!Used' = Rem!Used
  BY <1>9, <1>11 DEF Rem!Used
<1>15. Rem!RecordsInv'
  BY <1>2, <1>13, <1>14 DEF Rem!RemindersInv, Rem!RecordsInv
<1>16. Rem!MapInv'
  BY <1>2, <1>3, <1>4 DEF Rem!RemindersInv, Rem!MapInv, Rem!Running
<1>17. Rem!SentInv'
  <2>1. \A u \in Rem!Busy' : task'[u].at = "done" => task'[u].of \notin rows'
    BY <1>2, <1>3, <1>4, <1>5 DEF Rem!RemindersInv, Rem!SentInv
  <2>2. ASSUME NEW v \in Rem!Used' \ (unsure' \cup raced')
        PROVE  /\ copies'[v] \in {0, 1}
               /\ \A u \in Rem!Live' : task'[u].of.who = v /\ task'[u].at \in {"new", "asleep"}
                     => copies'[v] = 0
               /\ copies'[v] = 1 => \A r \in rows' : r.who = v =>
                     \E u \in Rem!Busy' : task'[u].of = r /\ task'[u].at = "sent"
    <3>1. v \in Rem!Used \ (unsure \cup raced) /\ v \in Rem!Serials
      BY <1>2, <1>14 DEF Rem!Used
    <3>2. /\ copies[v] \in {0, 1}
          /\ \A u \in Rem!Live : task[u].of.who = v /\ task[u].at \in {"new", "asleep"}
                => copies[v] = 0
          /\ copies[v] = 1 => \A r \in rows : r.who = v =>
                \E u \in Rem!Busy : task[u].of = r /\ task[u].at = "sent"
      BY <3>1 DEF Rem!RemindersInv, Rem!SentInv
    <3>3. CASE v # w
      <4>1. copies'[v] = copies[v]
        BY <3>1, <3>3, <1>11
      <4>2. \A u \in Rem!Live' : task'[u].of.who = v /\ task'[u].at \in {"new", "asleep"}
               => copies'[v] = 0
        BY <3>2, <3>3, <4>1, <1>3, <1>4, <1>5, <1>7, <1>8
      <4>3. copies'[v] = 1 => \A r \in rows' : r.who = v =>
               \E u \in Rem!Busy' : task'[u].of = r /\ task'[u].at = "sent"
        BY <3>2, <4>1, <1>2, <1>3, <1>4, <1>5
      <4> QED BY <3>2, <4>1, <4>2, <4>3
    <3>4. CASE v = w
      <4>1. copies'[v] = 1
        BY <3>2, <3>4, <1>1, <1>8, <1>11
      <4>2. \A u \in Rem!Busy : task[u].of.id = task[t].of.id => u = t
        BY <3>1, <3>4, <1>1, <1>3, <1>8 DEF Rem!RemindersInv, Rem!MapInv, Rem!Live
      <4>3. \A r \in Rem!Known : r.who = w => r = task[t].of
        BY <1>3, <1>8 DEF Rem!RemindersInv, Rem!RecordsInv, Rem!Known
      <4>4. \A u \in Rem!Busy : task[u].of.who = w => u = t
        BY <4>2, <4>3 DEF Rem!Known
      <4>5. \A r \in rows' : r.who = v => task'[t].of = r /\ task'[t].at = "sent"
        BY <3>4, <4>3, <1>2, <1>3, <1>4, <1>5 DEF Rem!Known
      <4> QED BY <3>4, <4>1, <4>4, <4>5, <1>3, <1>4, <1>5, <1>7
    <3> QED BY <3>3, <3>4
  <2> QED BY <2>1, <2>2 DEF Rem!SentInv
<1>18. Rem!CommandInv'
  BY <1>1, <1>2, <1>3, <1>4, <1>5, <1>7 DEF Rem!RemindersInv, Rem!CommandInv
<1>19. Rem!CareInv'
  BY <1>2, <1>3, <1>4, <1>7 DEF Rem!RemindersInv, Rem!CareInv
<1>20. w \in raced \/ op.do = "popping" \/ \E r \in rows : r.who = w
  BY <1>1, <1>8 DEF Rem!RemindersInv, Rem!CommandInv
<1>21. Rem!SilentStep
  BY <1>11, <1>20 DEF Rem!SilentStep
<1> QED BY <1>12, <1>15, <1>16, <1>17, <1>18, <1>19, <1>21 DEF Rem!RemindersInv

-----------------------------------------------------------------------------
(* Rows go.                                                                 *)
LEMMA RowsGo ==
    ASSUME Rem!RemindersAssumption, Rem!TypeOK, Rem!RecordsInv, NEW ids, NEW forgotten \in SUBSET Rem!Busy,
           Rem!Remove(ids, forgotten)
    PROVE  /\ rows' \subseteq rows /\ \A r \in rows : r \in rows' \/ r.id \in ids
           /\ \A r \in rows' : r.id \notin ids
           /\ raced \subseteq raced' /\ raced' \subseteq Rem!Serials
           /\ \A r \in Rem!Promised : r \in rows' \/ r.who \in raced'
           /\ \A t \in forgotten : task[t].of.who \in raced'
<1>1. rows' = rows \ {r \in rows : r.id \in ids}
      /\ raced' = raced \cup {r.who : r \in {r \in rows : r.id \in ids} \cap Rem!Promised}
                        \cup {task[t].of.who : t \in forgotten}
  BY DEF Rem!Remove
<1>2. \A r \in rows : r.who \in Rem!Serials
  BY DEF Rem!TypeOK, Rem!Reminder
<1>3. \A t \in forgotten : task[t].of.who \in Rem!Serials
  BY JobParts
<1>4. raced' \subseteq Rem!Serials
  BY <1>1, <1>2, <1>3 DEF Rem!TypeOK
<1>5. \A r \in Rem!Promised : r \in rows' \/ r.who \in raced'
  <2> SUFFICES ASSUME NEW r \in Rem!Promised PROVE r \in rows' \/ r.who \in raced'
    OBVIOUS
  <2>1. r \in rows \/ r.who \in raced
    BY DEF Rem!RecordsInv
  <2> QED BY <2>1, <1>1
<1> QED BY <1>1, <1>4, <1>5

LEMMA DeletesRowHolds ==
    ASSUME Rem!RemindersAssumption, Rem!TypeOK, Rem!RemindersInv, NEW t \in Rem!Tasks, Rem!DeletesRow(t)
    PROVE  Rem!TypeOK' /\ Rem!RemindersInv'
<1>1. t \in Rem!Live /\ task' = [task EXCEPT ![t].at = "done"] /\ task[t].at = "sent"
  BY DEF Rem!DeletesRow
<1>2. UNCHANGED <<enabled, roomOn, active, creating, op, copies, unsure, left, events>>
  BY DEF Rem!DeletesRow
<1>3. Rem!Busy' = Rem!Busy /\ Rem!Live' = Rem!Live /\ t \in Rem!Busy
  BY <1>1, GoneOn
<1>4. \A u \in Rem!Busy : task'[u].of = task[u].of /\ task'[u].cancelled = task[u].cancelled
  BY <1>1, GoneOn
<1>5. (\A u \in Rem!Busy \ {t} : task'[u].at = task[u].at) /\ task'[t].at = "done"
  BY <1>1, GoneOn
<1>6. task' \in [Rem!Tasks -> Rem!Jobs \cup {None}]
  BY <1>1, GoneOn
<1>7. Rem!Live \subseteq Rem!Busy
  BY DEF Rem!Live
<1>8. PICK ids : ids = {task[t].of.id}
  OBVIOUS
<1>9. Rem!RecordsInv /\ Rem!Remove(ids, {})
  BY <1>8 DEF Rem!RemindersInv, Rem!DeletesRow
<1>10. /\ rows' \subseteq rows /\ \A r \in rows : r \in rows' \/ r.id \in ids
       /\ \A r \in rows' : r.id \notin ids
       /\ raced \subseteq raced' /\ raced' \subseteq Rem!Serials
       /\ \A r \in Rem!Promised : r \in rows' \/ r.who \in raced'
  BY <1>9, RowsGo
<1>11. Rem!TypeOK'
  BY <1>2, <1>6, <1>10 DEF Rem!TypeOK
<1>12. Rem!Promised' = Rem!Promised /\ Rem!Used' = Rem!Used
  BY <1>2 DEF Rem!Promised, Rem!Used
<1>13. Rem!Known' \subseteq Rem!Known
  BY <1>3, <1>4, <1>10, <1>12 DEF Rem!Known
<1>14. Rem!RecordsInv'
  BY <1>2, <1>9, <1>10, <1>12, <1>13 DEF Rem!RecordsInv
<1>15. Rem!MapInv'
  BY <1>2, <1>3, <1>4, <1>10 DEF Rem!RemindersInv, Rem!MapInv, Rem!Running
<1>16. Rem!SentInv'
  <2>1. \A u \in Rem!Busy' : task'[u].at = "done" => task'[u].of \notin rows'
    BY <1>3, <1>4, <1>5, <1>8, <1>10 DEF Rem!RemindersInv, Rem!SentInv
  <2>2. ASSUME NEW w \in Rem!Used' \ (unsure' \cup raced')
        PROVE  /\ copies'[w] \in {0, 1}
               /\ \A u \in Rem!Live' : task'[u].of.who = w /\ task'[u].at \in {"new", "asleep"}
                     => copies'[w] = 0
               /\ copies'[w] = 1 => \A r \in rows' : r.who = w =>
                     \E u \in Rem!Busy' : task'[u].of = r /\ task'[u].at = "sent"
    <3>1. w \in Rem!Used \ (unsure \cup raced)
      BY <1>2, <1>10, <1>12
    <3>2. /\ copies[w] \in {0, 1}
          /\ \A u \in Rem!Live : task[u].of.who = w /\ task[u].at \in {"new", "asleep"}
                => copies[w] = 0
          /\ copies[w] = 1 => \A r \in rows : r.who = w =>
                \E u \in Rem!Busy : task[u].of = r /\ task[u].at = "sent"
      BY <3>1 DEF Rem!RemindersInv, Rem!SentInv
    <3>3. \A u \in Rem!Live' : task'[u].of.who = w /\ task'[u].at \in {"new", "asleep"}
              => copies'[w] = 0
      BY <3>2, <1>2, <1>3, <1>4, <1>5, <1>7
    <3>4. ASSUME copies'[w] = 1, NEW r \in rows', r.who = w
          PROVE  \E u \in Rem!Busy' : task'[u].of = r /\ task'[u].at = "sent"
      <4>1. PICK u \in Rem!Busy : task[u].of = r /\ task[u].at = "sent"
        BY <3>2, <3>4, <1>2, <1>10
      <4>2. u # t
        BY <4>1, <1>8, <1>10
      <4> QED BY <4>1, <4>2, <1>3, <1>4, <1>5
    <3> QED BY <3>2, <3>3, <3>4, <1>2
  <2> QED BY <2>1, <2>2 DEF Rem!SentInv
<1>17. Rem!CommandInv'
  <2>1. ASSUME NEW u \in Rem!Live', task'[u].of.who \notin raced', task'[u].at \in {"new", "asleep"}
        PROVE  /\ op'.do = "popping" /\ task'[u].of.id \in op'.gone => task'[u].of.id \in op'.todo
               /\ task'[u].of \in rows' \/ (op'.do = "popping" /\ task'[u].of.id \in op'.todo)
    <3>1. u \in Rem!Live /\ u \in Rem!Busy /\ u # t /\ task'[u].of = task[u].of
          /\ task[u].at \in {"new", "asleep"} /\ task[u].of.who \notin raced
      BY <2>1, <1>3, <1>4, <1>5, <1>7, <1>10
    <3>2. /\ op.do = "popping" /\ task[u].of.id \in op.gone => task[u].of.id \in op.todo
          /\ task[u].of \in rows \/ (op.do = "popping" /\ task[u].of.id \in op.todo)
      BY <3>1 DEF Rem!RemindersInv, Rem!CommandInv
    <3>3. task[t].of.id # task[u].of.id
      BY <3>1, <1>3 DEF Rem!RemindersInv, Rem!MapInv, Rem!Live
    <3> QED BY <3>1, <3>2, <3>3, <1>2, <1>8, <1>10
  <2>2. /\ op'.do = "cancelling" => ~enabled'
        /\ op'.do = "listing" => ~roomOn'
        /\ op'.do \notin {"relisting", "popping"} => op'.gone = {}
        /\ \A r \in rows' : r.id \in op'.gone => r.room \/ r.who \in raced'
        /\ op'.do = "popping" => \A r \in rows' : r.id \in op'.todo =>
              r.id \in op'.gone \/ (r.room /\ ~roomOn') \/ r.who \in raced'
    BY <1>2, <1>10 DEF Rem!RemindersInv, Rem!CommandInv
  <2> QED BY <2>1, <2>2 DEF Rem!CommandInv
<1>18. Rem!CareInv'
  BY <1>2, <1>3, <1>4, <1>7, <1>10 DEF Rem!RemindersInv, Rem!CareInv
<1> QED BY <1>11, <1>14, <1>15, <1>16, <1>17, <1>18 DEF Rem!RemindersInv

LEMMA DeleteRowHolds ==
    ASSUME Rem!RemindersAssumption, Rem!TypeOK, Rem!RemindersInv, Rem!DeleteRow
    PROVE  Rem!TypeOK' /\ Rem!RemindersInv'
<1>1. op.do = "deleting" /\ op' = [op EXCEPT !.do = "popping"] /\ Rem!Remove(op.todo, {})
  BY DEF Rem!DeleteRow
<1>2. UNCHANGED <<enabled, roomOn, task, active, creating, copies, unsure, left, events>>
  BY DEF Rem!DeleteRow
<1>3. Rem!RecordsInv
  BY DEF Rem!RemindersInv
<1>4. PICK ids : ids = op.todo
  OBVIOUS
<1>5. /\ rows' \subseteq rows /\ \A r \in rows : r \in rows' \/ r.id \in ids
      /\ \A r \in rows' : r.id \notin ids
      /\ raced \subseteq raced' /\ raced' \subseteq Rem!Serials
      /\ \A r \in Rem!Promised : r \in rows' \/ r.who \in raced'
  BY <1>1, <1>3, <1>4, RowsGo
<1>6. op \in Rem!Operations /\ op' \in Rem!Operations
      /\ op'.do = "popping" /\ op'.todo = op.todo /\ op'.gone = op.gone /\ op'.wait = op.wait
  BY <1>1 DEF Rem!TypeOK, Rem!Operations
<1>7. Rem!TypeOK'
  BY <1>2, <1>5, <1>6 DEF Rem!TypeOK, Rem!Busy
<1>8. Rem!Busy' = Rem!Busy /\ Rem!Live' = Rem!Live /\ Rem!Used' = Rem!Used
      /\ Rem!Promised' = Rem!Promised
  BY <1>1, <1>2, <1>6 DEF Rem!Busy, Rem!Live, Rem!Used, Rem!Promised
<1>9. Rem!Known' \subseteq Rem!Known
  BY <1>2, <1>5, <1>8 DEF Rem!Known
<1>10. Rem!RecordsInv'
  BY <1>3, <1>5, <1>6, <1>8, <1>9 DEF Rem!RecordsInv
<1>11. Rem!MapInv'
  BY <1>1, <1>2, <1>5, <1>8 DEF Rem!RemindersInv, Rem!MapInv, Rem!Running
<1>12. Rem!SentInv'
  BY <1>2, <1>5, <1>8 DEF Rem!RemindersInv, Rem!SentInv
<1>13. op.gone = {}
  BY <1>1 DEF Rem!RemindersInv, Rem!CommandInv
<1>14. Rem!CommandInv'
  <2>1. ASSUME NEW u \in Rem!Live', task'[u].of.who \notin raced', task'[u].at \in {"new", "asleep"}
        PROVE  task'[u].of \in rows' \/ task'[u].of.id \in op'.todo
    BY <2>1, <1>1, <1>2, <1>4, <1>5, <1>6, <1>8 DEF Rem!RemindersInv, Rem!CommandInv
  <2> QED BY <2>1, <1>4, <1>5, <1>6, <1>13 DEF Rem!CommandInv
<1>15. Rem!CareInv'
  BY <1>1, <1>2, <1>5, <1>6, <1>8 DEF Rem!RemindersInv, Rem!CareInv
<1> QED BY <1>7, <1>10, <1>11, <1>12, <1>14, <1>15 DEF Rem!RemindersInv

LEMMA AllCancelledHolds ==
    ASSUME Rem!RemindersAssumption, Rem!TypeOK, Rem!RemindersInv, Rem!AllCancelled
    PROVE  Rem!TypeOK' /\ Rem!RemindersInv'
<1>1. /\ op.do \in {"cancelling", "popping"} /\ Rem!Waited /\ op.todo = {} /\ op' = Rem!Idle
      /\ active' = IF op.do = "cancelling" THEN [i \in Rem!Ids |-> None] ELSE active
  BY DEF Rem!AllCancelled
<1>2. UNCHANGED <<enabled, roomOn, task, creating, copies, unsure, left, events>>
  BY DEF Rem!AllCancelled
<1>3. Rem!RecordsInv
  BY DEF Rem!RemindersInv
<1>4. PICK ids, forgotten : /\ ids = op.gone
                            /\ forgotten = IF op.do = "cancelling" THEN {active[i] : i \in Rem!Ids} \cap Rem!Busy ELSE {}
  OBVIOUS
<1>5. forgotten \in SUBSET Rem!Busy /\ Rem!Remove(ids, forgotten)
  BY <1>4 DEF Rem!AllCancelled
<1>6. /\ rows' \subseteq rows /\ \A r \in rows : r \in rows' \/ r.id \in ids
      /\ \A r \in rows' : r.id \notin ids
      /\ raced \subseteq raced' /\ raced' \subseteq Rem!Serials
      /\ \A r \in Rem!Promised : r \in rows' \/ r.who \in raced'
      /\ \A t \in forgotten : task[t].of.who \in raced'
  BY <1>3, <1>5, RowsGo
<1>7. op' \in Rem!Operations /\ op'.do = "none" /\ op'.gone = {}
  BY <1>1 DEF Rem!Idle, Rem!Operations
<1>8. Rem!TypeOK'
  BY <1>1, <1>2, <1>6, <1>7 DEF Rem!TypeOK
<1>9. Rem!Busy' = Rem!Busy /\ Rem!Live' = Rem!Live /\ Rem!Used' = Rem!Used
      /\ Rem!Promised' = Rem!Promised
  BY <1>1, <1>2, <1>7 DEF Rem!Busy, Rem!Live, Rem!Used, Rem!Promised
<1>10. Rem!Known' \subseteq Rem!Known
  BY <1>2, <1>6, <1>9 DEF Rem!Known
<1>11. Rem!RecordsInv'
  BY <1>3, <1>6, <1>7, <1>9, <1>10 DEF Rem!RecordsInv
<1>12. None \notin Rem!Busy
  BY DEF Rem!Busy, Rem!RemindersAssumption
<1>13. Rem!MapInv'
  <2>1. ASSUME NEW i \in Rem!Ids, active'[i] \in Rem!Busy' PROVE task'[active'[i]].of.id = i
    BY <2>1, <1>1, <1>2, <1>9, <1>12 DEF Rem!RemindersInv, Rem!MapInv, Rem!Running
  <2>2. ASSUME NEW t \in Rem!Busy', task'[t].of.who \notin raced'
        PROVE  /\ ~task'[t].cancelled /\ active'[task'[t].of.id] = t
               /\ \A u \in Rem!Busy' : task'[u].of.id = task'[t].of.id => u = t
    <3>1. t \in Rem!Busy /\ task[t].of.who \notin raced /\ task[t].of.id \in Rem!Ids
      BY <2>2, <1>2, <1>6, <1>9, JobParts
    <3>2. ~task[t].cancelled
      BY <3>1, <1>1, <1>12 DEF Rem!RemindersInv, Rem!MapInv, Rem!Waited
    <3>3. active[task[t].of.id] = t /\ \A u \in Rem!Busy : task[u].of.id = task[t].of.id => u = t
      BY <3>1, <3>2 DEF Rem!RemindersInv, Rem!MapInv
    <3>4. op.do # "cancelling"
      BY <3>1, <3>3, <2>2, <1>2, <1>4, <1>6
    <3> QED BY <3>2, <3>3, <3>4, <1>1, <1>2, <1>9
  <2> QED BY <2>1, <2>2 DEF Rem!MapInv, Rem!Running
<1>14. Rem!SentInv'
  BY <1>2, <1>6, <1>9 DEF Rem!RemindersInv, Rem!SentInv
<1>15. Rem!CommandInv'
  <2>1. ASSUME NEW u \in Rem!Live', task'[u].of.who \notin raced', task'[u].at \in {"new", "asleep"}
        PROVE  task'[u].of \in rows'
    <3>1. u \in Rem!Live /\ task[u].of.who \notin raced /\ task[u].at \in {"new", "asleep"}
      BY <2>1, <1>2, <1>6, <1>9
    <3>2. /\ op.do = "popping" /\ task[u].of.id \in op.gone => task[u].of.id \in op.todo
          /\ task[u].of \in rows \/ (op.do = "popping" /\ task[u].of.id \in op.todo)
          /\ op.do = "cancelling" => op.gone = {}
      BY <3>1 DEF Rem!RemindersInv, Rem!CommandInv
    <3> QED BY <3>2, <1>1, <1>2, <1>4, <1>6
  <2> QED BY <2>1, <1>7 DEF Rem!CommandInv
<1>16. Rem!CareInv'
  <2> SUFFICES ASSUME enabled', NEW r \in rows' \ creating', r.room => roomOn'
               PROVE  r.who \in left' \cup raced' \/ \E t \in Rem!Live' : task'[t].of = r
    BY DEF Rem!CareInv
  <2>1. op.do = "popping"
    BY <1>1, <1>2 DEF Rem!RemindersInv, Rem!CommandInv
  <2>2. r.who \in left \cup raced \/ r.id \in op.gone \/ \E t \in Rem!Live : task[t].of = r
    BY <2>1, <1>2, <1>6 DEF Rem!RemindersInv, Rem!CareInv
  <2> QED BY <2>2, <1>2, <1>4, <1>6, <1>9
<1> QED BY <1>8, <1>11, <1>13, <1>14, <1>15, <1>16 DEF Rem!RemindersInv

LEMMA CancelNextHolds ==
    ASSUME Rem!RemindersAssumption, Rem!TypeOK, Rem!RemindersInv, NEW i \in Rem!Ids, Rem!CancelNext(i)
    PROVE  Rem!TypeOK' /\ Rem!RemindersInv'
<1>1. /\ op.do \in {"cancelling", "popping"} /\ Rem!Waited /\ i \in op.todo
      /\ op' = [op EXCEPT !.todo = @ \ {i}, !.wait = IF Rem!Running(i) THEN active[i] ELSE None]
      /\ task' = IF Rem!Running(i) THEN [task EXCEPT ![active[i]].cancelled = TRUE] ELSE task
      /\ active' = IF op.do = "popping" THEN [active EXCEPT ![i] = None] ELSE active
  BY DEF Rem!CancelNext
<1>2. UNCHANGED <<rows, enabled, roomOn, creating, copies, unsure, raced, left, events>>
  BY DEF Rem!CancelNext, Rem!stored, Rem!ghosts
<1>3. /\ op' \in Rem!Operations /\ op'.do = op.do /\ op'.todo = op.todo \ {i} /\ op'.gone = op.gone
      /\ op'.wait = IF Rem!Running(i) THEN active[i] ELSE None
  <2>1. op \in Rem!Operations /\ active[i] \in Rem!Tasks \cup {None}
    BY <1>1 DEF Rem!TypeOK
  <2> QED BY <1>1, <2>1 DEF Rem!Operations
<1>4. None \notin Rem!Busy /\ \A t \in Rem!Busy : t \in Rem!Tasks
  BY DEF Rem!Busy, Rem!RemindersAssumption
<1>5. /\ \A t \in Rem!Tasks : t # active[i] \/ ~Rem!Running(i) => task'[t] = task[t]
      /\ Rem!Running(i) => /\ task'[active[i]] \in Rem!Jobs /\ task'[active[i]].of = task[active[i]].of
                           /\ task'[active[i]].at = task[active[i]].at /\ task'[active[i]].cancelled
  <2>1. CASE Rem!Running(i)
    <3>1. active[i] \in Rem!Tasks /\ task[active[i]] \in Rem!Jobs
      BY <2>1, JobParts DEF Rem!Running
    <3> QED BY <2>1, <3>1, <1>1 DEF Rem!TypeOK, Rem!Jobs
  <2>2. CASE ~Rem!Running(i)
    BY <2>2, <1>1
  <2> QED BY <2>1, <2>2
<1>6. task' \in [Rem!Tasks -> Rem!Jobs \cup {None}] /\ active' \in [Rem!Ids -> Rem!Tasks \cup {None}]
  <2>1. \A t \in Rem!Tasks : task'[t] \in Rem!Jobs \cup {None}
    BY <1>5 DEF Rem!TypeOK
  <2>2. task' = [t \in Rem!Tasks |-> task'[t]]
    BY <1>1 DEF Rem!TypeOK
  <2> QED BY <1>1, <2>1, <2>2 DEF Rem!TypeOK
<1>7. Rem!Busy' = Rem!Busy
  BY <1>5 DEF Rem!Busy, Rem!Running, Rem!RemindersAssumption
<1>8. \A t \in Rem!Busy : /\ task'[t].of = task[t].of /\ task'[t].at = task[t].at
                          /\ task'[t].cancelled <=> task[t].cancelled \/ (Rem!Running(i) /\ t = active[i])
  <2> TAKE t \in Rem!Busy
  <2>1. task[t].cancelled \in BOOLEAN /\ t \in Rem!Tasks
    BY JobParts
  <2> QED BY <2>1, <1>5
<1>9. Rem!Live' \subseteq Rem!Live /\ Rem!Live \subseteq Rem!Busy
  BY <1>7, <1>8 DEF Rem!Live
<1>10. /\ \A j \in Rem!Ids : active'[j] = active[j] \/ (j = i /\ active'[j] = None)
       /\ op.do = "cancelling" => active' = active
  BY <1>1 DEF Rem!TypeOK
<1>11. Rem!TypeOK'
  BY <1>1, <1>2, <1>3, <1>6 DEF Rem!TypeOK
<1>12. Rem!Promised' = Rem!Promised /\ Rem!Used' = Rem!Used /\ Rem!Known' = Rem!Known
  BY <1>1, <1>2, <1>3, <1>7, <1>8 DEF Rem!Promised, Rem!Used, Rem!Known
<1>13. Rem!RecordsInv'
  BY <1>1, <1>2, <1>3, <1>12 DEF Rem!RemindersInv, Rem!RecordsInv
<1>14. Rem!MapInv'
  <2>1. ASSUME NEW j \in Rem!Ids, active'[j] \in Rem!Busy' PROVE task'[active'[j]].of.id = j
    BY <2>1, <1>4, <1>7, <1>8, <1>10 DEF Rem!RemindersInv, Rem!MapInv, Rem!Running
  <2>2. ASSUME NEW t \in Rem!Busy', task'[t].of.who \notin raced', task'[t].cancelled
        PROVE  op'.do \in {"cancelling", "popping"} /\ op'.wait = t
    <3>1. ~task[t].cancelled
      BY <2>2, <1>1, <1>2, <1>4, <1>7, <1>8 DEF Rem!RemindersInv, Rem!MapInv, Rem!Waited
    <3> QED BY <2>2, <3>1, <1>1, <1>3, <1>7, <1>8
  <2>3. ASSUME NEW t \in Rem!Busy', task'[t].of.who \notin raced', ~task'[t].cancelled
        PROVE  /\ active'[task'[t].of.id] = t
               /\ \A u \in Rem!Busy' : task'[u].of.id = task'[t].of.id => u = t
    <3>1. /\ t \in Rem!Busy /\ task'[t].of = task[t].of /\ ~task[t].cancelled
          /\ task[t].of.id \in Rem!Ids /\ task[t].of.who \notin raced
      BY <2>3, <1>2, <1>7, <1>8, JobParts
    <3>2. active[task[t].of.id] = t /\ \A u \in Rem!Busy : task[u].of.id = task[t].of.id => u = t
      BY <3>1 DEF Rem!RemindersInv, Rem!MapInv
    <3>3. task[t].of.id # i
      BY <3>1, <3>2, <2>3, <1>8 DEF Rem!Running
    <3> QED BY <3>1, <3>2, <3>3, <1>7, <1>8, <1>10
  <2> QED BY <2>1, <2>2, <2>3 DEF Rem!MapInv, Rem!Running
<1>15. Rem!SentInv'
  BY <1>2, <1>7, <1>8, <1>9, <1>12 DEF Rem!RemindersInv, Rem!SentInv
<1>16. Rem!CommandInv'
  <2>1. ASSUME NEW t \in Rem!Live', task'[t].of.who \notin raced', task'[t].at \in {"new", "asleep"}
        PROVE  /\ op'.do = "popping" /\ task'[t].of.id \in op'.gone => task'[t].of.id \in op'.todo
               /\ task'[t].of \in rows' \/ (op'.do = "popping" /\ task'[t].of.id \in op'.todo)
    <3>1. /\ t \in Rem!Live /\ t \in Rem!Busy /\ task'[t].of = task[t].of /\ ~task[t].cancelled
          /\ task[t].of.who \notin raced /\ task[t].at \in {"new", "asleep"} /\ ~task'[t].cancelled
      BY <2>1, <1>2, <1>8, <1>9 DEF Rem!Live
    <3>2. /\ op.do = "popping" /\ task[t].of.id \in op.gone => task[t].of.id \in op.todo
          /\ task[t].of \in rows \/ (op.do = "popping" /\ task[t].of.id \in op.todo)
      BY <3>1 DEF Rem!RemindersInv, Rem!CommandInv
    <3>3. active[task[t].of.id] = t
      BY <3>1 DEF Rem!RemindersInv, Rem!MapInv
    <3>4. task[t].of.id # i
      BY <3>1, <3>3, <1>8 DEF Rem!Running
    <3> QED BY <3>1, <3>2, <3>4, <1>2, <1>3
  <2>2. /\ op'.do = "cancelling" => ~enabled'
        /\ op'.do = "listing" => ~roomOn'
        /\ op'.do \notin {"relisting", "popping"} => op'.gone = {}
        /\ \A r \in rows' : r.id \in op'.gone => r.room \/ r.who \in raced'
        /\ op'.do = "popping" => \A r \in rows' : r.id \in op'.todo =>
              r.id \in op'.gone \/ (r.room /\ ~roomOn') \/ r.who \in raced'
    BY <1>2, <1>3 DEF Rem!RemindersInv, Rem!CommandInv
  <2> QED BY <2>1, <2>2 DEF Rem!CommandInv
<1>17. Rem!CareInv'
  <2> SUFFICES ASSUME enabled', NEW r \in rows' \ creating', r.room => roomOn'
               PROVE  r.who \in left' \cup raced' \/ r.id \in op'.gone
                      \/ \E t \in Rem!Live' : task'[t].of = r
    BY DEF Rem!CareInv
  <2>1. op.do = "popping"
    BY <1>1, <1>2 DEF Rem!RemindersInv, Rem!CommandInv
  <2>2. r.who \in left \cup raced \/ r.id \in op.gone \/ \E t \in Rem!Live : task[t].of = r
    BY <2>1, <1>2 DEF Rem!RemindersInv, Rem!CareInv
  <2>3. ASSUME NEW t \in Rem!Live, task[t].of = r, t \notin Rem!Live'
        PROVE  r.who \in raced \/ r.id \in op.gone
    <3>1. Rem!Running(i) /\ t = active[i]
      BY <2>3, <1>7, <1>8, <1>9 DEF Rem!Live
    <3>2. r.id = i
      BY <3>1, <2>3 DEF Rem!RemindersInv, Rem!MapInv
    <3> QED BY <3>2, <2>1, <1>1, <1>2 DEF Rem!RemindersInv, Rem!CommandInv
  <2> QED BY <2>2, <2>3, <1>2, <1>3, <1>8, <1>9
<1> QED BY <1>11, <1>13, <1>14, <1>15, <1>16, <1>17 DEF Rem!RemindersInv

-----------------------------------------------------------------------------
(* A command begins, or reads rows; nothing else changes.                   *)
Turns ==
    /\ op.do \in {"none", "reading", "listing", "relisting"}
    /\ UNCHANGED <<rows, task, active, creating, copies, unsure, left>>
    /\ raced \subseteq raced' /\ raced' \subseteq Rem!Serials
    /\ enabled' \in BOOLEAN /\ roomOn' \in BOOLEAN /\ events' \in Nat
    /\ \/ op' \in Rem!Operations
       \/ op' \in Rem!Restores /\ op'.todo \subseteq rows

LEMMA TurnsStep ==
    ASSUME Rem!RemindersAssumption, Rem!TypeOK, Rem!RecordsInv, Rem!MapInv, Rem!SentInv, Turns
    PROVE  Rem!TypeOK' /\ Rem!RecordsInv' /\ Rem!MapInv' /\ Rem!SentInv'
<1>1. UNCHANGED <<rows, task, active, creating, copies, unsure, left>> /\ raced \subseteq raced'
  BY DEF Turns
<1>2. /\ op' \in IF op'.do = "restoring" THEN Rem!Restores ELSE Rem!Operations
      /\ op'.do = "restoring" => op'.todo \subseteq rows
  BY DEF Turns, Rem!Operations, Rem!Restores
<1>3. Rem!TypeOK'
  BY <1>1, <1>2 DEF Rem!TypeOK, Turns
<1>4. Rem!Busy' = Rem!Busy /\ Rem!Live' = Rem!Live /\ Rem!Used' = Rem!Used
  BY <1>1 DEF Rem!Busy, Rem!Live, Rem!Used
<1>5. Rem!Promised' \subseteq Rem!Promised \cup rows /\ Rem!Known' \subseteq Rem!Known
  BY <1>1, <1>2, <1>4 DEF Rem!Promised, Rem!Known
<1>6. Rem!RecordsInv'
  <2>1. /\ \A r \in Rem!Known' : r.who \in Rem!Used'
        /\ \A r, s \in Rem!Known' : r.who = s.who => r = s
        /\ \A r \in rows', s \in Rem!Known' : r.id = s.id /\ r # s => r.who \in raced'
        /\ \A r \in Rem!Promised' : r \in rows' \/ r.who \in raced'
    BY <1>1, <1>4, <1>5 DEF Rem!RecordsInv
  <2>2. op'.do = "restoring" => \A r, s \in op'.todo : r.id = s.id => r = s
    BY <1>2 DEF Rem!TypeOK
  <2> QED BY <2>1, <2>2 DEF Rem!RecordsInv
<1>7. Rem!MapInv'
  BY <1>1, <1>4 DEF Rem!MapInv, Rem!Running, Turns
<1>8. Rem!SentInv'
  BY <1>1, <1>4 DEF Rem!SentInv
<1> QED BY <1>3, <1>6, <1>7, <1>8

(* A command begins: it restores nothing that was off, unless it will read  *)
(* the rows.                                                                *)
Begun ==
    /\ op = Rem!Idle /\ Turns /\ raced' = raced /\ op' \in Rem!Operations
    /\ op'.do \notin {"restoring", "popping"}
    /\ op'.do = "cancelling" => ~enabled'
    /\ op'.do = "listing" => ~roomOn'
    /\ op'.do # "relisting" => op'.gone = {}
    /\ \A r \in rows : r.id \in op'.gone => r.room
    /\ enabled' /\ op'.do # "reading" => enabled /\ (roomOn' => roomOn)

LEMMA BegunHolds ==
    ASSUME Rem!RemindersAssumption, Rem!TypeOK, Rem!RemindersInv, Begun
    PROVE  Rem!TypeOK' /\ Rem!RemindersInv'
<1>1. Turns /\ UNCHANGED <<rows, task, active, creating, copies, unsure, left>> /\ raced' = raced
  BY DEF Begun, Turns
<1>2. Rem!TypeOK' /\ Rem!RecordsInv' /\ Rem!MapInv' /\ Rem!SentInv'
  BY <1>1, TurnsStep DEF Rem!RemindersInv
<1>3. op.do = "none" /\ op.gone = {}
  BY DEF Begun, Rem!Idle
<1>4. Rem!Live' = Rem!Live
  BY <1>1 DEF Rem!Live, Rem!Busy
<1>5. Rem!CommandInv'
  <2>1. ASSUME NEW t \in Rem!Live', task'[t].of.who \notin raced', task'[t].at \in {"new", "asleep"}
        PROVE  task'[t].of \in rows' /\ op'.do # "popping"
    <3>1. task[t].of \in rows
      BY <2>1, <1>1, <1>3, <1>4 DEF Rem!RemindersInv, Rem!CommandInv
    <3> QED BY <3>1, <1>1 DEF Begun
  <2> QED BY <2>1, <1>1 DEF Begun, Rem!CommandInv
<1>6. Rem!CareInv'
  BY <1>1, <1>3, <1>4 DEF Begun, Rem!RemindersInv, Rem!CareInv
<1> QED BY <1>2, <1>5, <1>6 DEF Rem!RemindersInv

LEMMA CommandsBegin ==
    ASSUME Rem!RemindersAssumption, Rem!TypeOK, Rem!RemindersInv,
           \/ Rem!GlobalOn \/ Rem!GlobalOff \/ Rem!RoomOn \/ Rem!RoomOff \/ Rem!CleanupRoomState
           \/ \E r \in rows : Rem!DeleteReminder(r)
    PROVE  Rem!TypeOK' /\ Rem!RemindersInv'
<1>1. /\ raced \subseteq Rem!Serials /\ events \in Nat /\ enabled \in BOOLEAN /\ roomOn \in BOOLEAN
      /\ \A r \in rows : r.id \in Rem!Ids
      /\ \A r, s \in rows : r.id = s.id => r = s
  BY DEF Rem!TypeOK, Rem!Reminder
<1>2. \A new \in Rem!Operations : Rem!Begin(new) =>
        /\ op = Rem!Idle /\ op.do = "none" /\ op' = new /\ events' \in Nat
        /\ UNCHANGED <<task, active, creating, copies, unsure, raced, left>>
  BY <1>1 DEF Rem!Begin, Rem!Idle, Rem!ghosts
<1>3. \A d \in {"none", "reading", "cancelling", "listing", "relisting", "deleting"},
         todo, gone \in SUBSET Rem!Ids :
        [do |-> d, todo |-> todo, wait |-> None, gone |-> gone] \in Rem!Operations
  BY DEF Rem!Operations
<1>10. {i \in Rem!Ids : active[i] # None} \in SUBSET Rem!Ids /\ {} \in SUBSET Rem!Ids
       /\ Rem!RowsOfRoom \in SUBSET Rem!Ids /\ \A r \in rows : {r.id} \in SUBSET Rem!Ids
  BY <1>1 DEF Rem!RowsOfRoom
<1>4. CASE Rem!GlobalOn
  <2>1. PICK new : new = [do |-> "reading", todo |-> {}, wait |-> None, gone |-> {}]
    OBVIOUS
  <2>2. new \in Rem!Operations
    BY <1>3, <1>10, <2>1
  <2>3. Rem!Begin(new) /\ rows' = rows /\ roomOn' = roomOn /\ enabled' = TRUE
    BY <1>4, <2>1 DEF Rem!GlobalOn, Rem!Idle
  <2>5. Begun
    BY <1>1, <1>2, <2>1, <2>2, <2>3 DEF Begun, Turns
  <2> QED BY <2>5, BegunHolds
<1>5. CASE Rem!GlobalOff
  <2>1. /\ op = Rem!Idle /\ op.do = "none" /\ rows' = rows /\ roomOn' = roomOn /\ enabled' = FALSE
        /\ UNCHANGED <<task, active, creating, copies, unsure, raced, left>> /\ events' \in Nat
    BY <1>5, <1>1 DEF Rem!GlobalOff, Rem!Begin, Rem!Idle, Rem!ghosts
  <2>2. op' \in Rem!Operations /\ op'.do = "cancelling" /\ op'.gone = {}
    BY <1>5, <1>10 DEF Rem!GlobalOff, Rem!Begin, Rem!Idle, Rem!Operations
  <2>3. Turns
    BY <1>1, <2>1, <2>2 DEF Turns
  <2>5. Begun
    BY <1>1, <2>1, <2>2, <2>3 DEF Begun
  <2> QED BY <2>5, BegunHolds
<1>6. CASE Rem!RoomOn
  <2>1. PICK new : new = IF enabled THEN [do |-> "reading", todo |-> {}, wait |-> None, gone |-> {}]
                         ELSE [do |-> "none", todo |-> {}, wait |-> None, gone |-> {}]
    OBVIOUS
  <2>2. new \in Rem!Operations
    BY <1>3, <1>10, <2>1
  <2>3. Rem!Begin(new) /\ rows' = rows /\ enabled' = enabled /\ roomOn' = TRUE
    BY <1>6, <2>1 DEF Rem!RoomOn, Rem!Idle
  <2>5. Begun
    BY <1>1, <1>2, <1>6, <2>1, <2>2, <2>3 DEF Begun, Turns
  <2> QED BY <2>5, BegunHolds
<1>7. CASE Rem!RoomOff
  <2>1. /\ op = Rem!Idle /\ op.do = "none" /\ rows' = rows /\ enabled' = enabled /\ roomOn' = FALSE
        /\ UNCHANGED <<task, active, creating, copies, unsure, raced, left>> /\ events' \in Nat
    BY <1>7, <1>1 DEF Rem!RoomOff, Rem!Begin, Rem!Idle, Rem!ghosts
  <2>2. op' \in Rem!Operations /\ op'.do = "listing" /\ op'.gone = {}
    BY <1>7, <1>10 DEF Rem!RoomOff, Rem!Begin, Rem!Idle, Rem!Operations
  <2>3. Turns
    BY <1>1, <2>1, <2>2 DEF Turns
  <2>5. Begun
    BY <1>1, <2>1, <2>2, <2>3 DEF Begun
  <2> QED BY <2>5, BegunHolds
<1>8. CASE Rem!CleanupRoomState
  <2>1. /\ op = Rem!Idle /\ op.do = "none" /\ rows' = rows /\ enabled' = enabled /\ roomOn' = roomOn
        /\ UNCHANGED <<task, active, creating, copies, unsure, raced, left>> /\ events' \in Nat
    BY <1>8, <1>1 DEF Rem!CleanupRoomState, Rem!Begin, Rem!Idle, Rem!ghosts, Rem!stored
  <2>2. op' \in Rem!Operations /\ op'.do = "relisting" /\ op'.gone = Rem!RowsOfRoom
    BY <1>8, <1>10 DEF Rem!CleanupRoomState, Rem!Begin, Rem!Idle, Rem!Operations
  <2>3. Turns
    BY <1>1, <2>1, <2>2 DEF Turns
  <2>4. \A r \in rows : r.id \in Rem!RowsOfRoom => r.room
    BY <1>1 DEF Rem!RowsOfRoom
  <2>5. Begun
    BY <1>1, <2>1, <2>2, <2>3, <2>4 DEF Begun
  <2> QED BY <2>5, BegunHolds
<1>9. ASSUME NEW r \in rows, Rem!DeleteReminder(r) PROVE Rem!TypeOK' /\ Rem!RemindersInv'
  <2>1. /\ op = Rem!Idle /\ op.do = "none" /\ rows' = rows /\ enabled' = enabled /\ roomOn' = roomOn
        /\ UNCHANGED <<task, active, creating, copies, unsure, raced, left>> /\ events' \in Nat
    <3>1. UNCHANGED <<rows, enabled, roomOn>>
      BY <1>9 DEF Rem!DeleteReminder, Rem!stored
    <3>2. op = Rem!Idle /\ events' = events + 1
          /\ UNCHANGED <<task, active, creating, copies, unsure, raced, left>>
      BY <1>9 DEF Rem!DeleteReminder, Rem!Begin, Rem!ghosts
    <3> QED BY <3>1, <3>2, <1>1 DEF Rem!Idle
  <2>2. op' \in Rem!Operations /\ op'.do = "deleting" /\ op'.gone = {}
    BY <1>9, <1>10, <1>1 DEF Rem!DeleteReminder, Rem!Begin, Rem!Idle, Rem!Operations
  <2>3. Turns
    BY <1>1, <2>1, <2>2 DEF Turns
  <2>5. Begun
    BY <1>1, <2>1, <2>2, <2>3 DEF Begun
  <2> QED BY <2>5, BegunHolds
<1> QED BY <1>4, <1>5, <1>6, <1>7, <1>8, <1>9

LEMMA ReadPendingHolds ==
    ASSUME Rem!RemindersAssumption, Rem!TypeOK, Rem!RemindersInv, Rem!ReadPending
    PROVE  Rem!TypeOK' /\ Rem!RemindersInv'
<1>1. op.do = "reading" /\ UNCHANGED <<rows, enabled, roomOn, task, active, creating, copies, unsure, raced, left, events>>
  BY DEF Rem!ReadPending, Rem!stored, Rem!ghosts
<1>2. op.gone = {}
  BY <1>1 DEF Rem!RemindersInv, Rem!CommandInv
<1>3. op' = [do |-> "restoring", todo |-> rows, wait |-> op.wait, gone |-> {}]
  BY <1>2, OpParts DEF Rem!ReadPending
<1>4. op' \in Rem!Restores
  BY <1>3, OpParts DEF Rem!Restores, Rem!TypeOK
<1>5. Turns
  BY <1>1, <1>3, <1>4 DEF Turns, Rem!TypeOK
<1>6. Rem!TypeOK' /\ Rem!RecordsInv' /\ Rem!MapInv' /\ Rem!SentInv'
  BY <1>5, TurnsStep DEF Rem!RemindersInv
<1>7. Rem!Live' = Rem!Live
  BY <1>1 DEF Rem!Live, Rem!Busy
<1>8. Rem!CommandInv'
  BY <1>1, <1>3, <1>7 DEF Rem!RemindersInv, Rem!CommandInv
<1>9. Rem!CareInv'
  BY <1>1, <1>3 DEF Rem!CareInv
<1> QED BY <1>6, <1>8, <1>9 DEF Rem!RemindersInv

LEMMA ListRoomHolds ==
    ASSUME Rem!RemindersAssumption, Rem!TypeOK, Rem!RemindersInv, Rem!ListRoom
    PROVE  Rem!TypeOK' /\ Rem!RemindersInv'
<1>1. /\ op.do \in {"listing", "relisting"}
      /\ UNCHANGED <<rows, enabled, roomOn, task, active, creating, copies, unsure, left, events>>
      /\ raced' = IF op.do = "listing" THEN raced
                  ELSE raced \cup {r.who : r \in {x \in rows : x.room /\ x.id \notin op.gone}}
  BY DEF Rem!ListRoom, Rem!stored
<1>2. /\ \A r \in rows : r \in Rem!Reminder /\ r.id \in Rem!Ids /\ r.who \in Rem!Serials
      /\ \A r, s \in rows : r.id = s.id => r = s
      /\ raced \subseteq Rem!Serials /\ enabled \in BOOLEAN /\ roomOn \in BOOLEAN /\ events \in Nat
  BY DEF Rem!TypeOK, Rem!Reminder
<1>3. /\ op' \in Rem!Operations /\ op'.do = "popping" /\ op'.todo = Rem!RowsOfRoom /\ op'.gone = op.gone
  <2>1. op \in Rem!Operations /\ Rem!RowsOfRoom \subseteq Rem!Ids
    BY <1>1, <1>2 DEF Rem!TypeOK, Rem!RowsOfRoom
  <2> QED BY <2>1 DEF Rem!ListRoom, Rem!Operations
<1>4. raced \subseteq raced' /\ raced' \subseteq Rem!Serials
  BY <1>1, <1>2
<1>5. Turns
  BY <1>1, <1>2, <1>3, <1>4 DEF Turns
<1>6. Rem!TypeOK' /\ Rem!RecordsInv' /\ Rem!MapInv' /\ Rem!SentInv'
  BY <1>5, TurnsStep DEF Rem!RemindersInv
<1>7. Rem!Live' = Rem!Live /\ op.do # "popping"
  BY <1>1 DEF Rem!Live, Rem!Busy
<1>8. \A r \in rows : r.id \in Rem!RowsOfRoom <=> r.room
  BY <1>2 DEF Rem!RowsOfRoom
<1>9. \A r \in rows : r.id \in op.gone => r.room \/ r.who \in raced
  BY DEF Rem!RemindersInv, Rem!CommandInv
<1>10. Rem!CommandInv'
  <2>1. ASSUME NEW t \in Rem!Live', task'[t].of.who \notin raced', task'[t].at \in {"new", "asleep"}
        PROVE  /\ task'[t].of.id \in op'.gone => task'[t].of.id \in op'.todo
               /\ task'[t].of \in rows'
    <3>1. task[t].of \in rows /\ task[t].of.who \notin raced
      BY <2>1, <1>1, <1>4, <1>7 DEF Rem!RemindersInv, Rem!CommandInv
    <3> QED BY <3>1, <1>1, <1>3, <1>8, <1>9
  <2>2. ASSUME NEW r \in rows, r.room PROVE r.id \in op.gone \/ ~roomOn \/ r.who \in raced'
    BY <2>2, <1>1 DEF Rem!RemindersInv, Rem!CommandInv
  <2> QED BY <2>1, <2>2, <1>1, <1>3, <1>4, <1>8, <1>9 DEF Rem!CommandInv
<1>11. Rem!CareInv'
  BY <1>1, <1>3, <1>4, <1>7 DEF Rem!RemindersInv, Rem!CareInv
<1> QED BY <1>6, <1>10, <1>11 DEF Rem!RemindersInv

LEMMA CreateHolds ==
    ASSUME Rem!RemindersAssumption, Rem!TypeOK, Rem!RemindersInv, Rem!Create
    PROVE  Rem!TypeOK' /\ Rem!RemindersInv' /\ Rem!SilentStep
<1>0. PICK i \in Rem!Ids, w \in Rem!Serials :
        LET r == [id |-> i, who |-> w, room |-> w \in RoomReminders]
        IN  /\ w \notin Rem!Used /\ \A x \in rows : x.id < i
            /\ rows' = rows \cup {r} /\ creating' = creating \cup {r}
            /\ copies' = [copies EXCEPT ![w] = 0]
            /\ raced' = IF i \in Rem!HeldIds THEN raced \cup {w} ELSE raced
  BY DEF Rem!Create
<1>20. [id |-> i, who |-> w, room |-> w \in RoomReminders] \in Rem!Reminder
  BY DEF Rem!Reminder
<1>1. PICK r \in Rem!Reminder :
        /\ r = [id |-> i, who |-> w, room |-> w \in RoomReminders]
        /\ w \notin Rem!Used /\ \A x \in rows : x.id < i
        /\ rows' = rows \cup {r} /\ creating' = creating \cup {r}
        /\ copies' = [copies EXCEPT ![w] = 0]
        /\ raced' = IF i \in Rem!HeldIds THEN raced \cup {w} ELSE raced
  BY <1>0, <1>20
<1>2. UNCHANGED <<enabled, roomOn, task, active, op, unsure, left, events>>
  BY DEF Rem!Create
<1>3. r \in Rem!Reminder /\ r.id = i /\ r.who = w /\ i \in Nat
  BY <1>1 DEF Rem!Reminder, Rem!Ids
<1>4. \A x \in rows : x.id \in Nat /\ x.id # i
  <2>1. \A x \in rows : x.id \in Nat
    BY DEF Rem!TypeOK, Rem!Reminder, Rem!Ids
  <2> QED BY <2>1, <1>1, <1>3
<1>5. raced \subseteq raced' /\ raced' \subseteq Rem!Serials
      /\ (i \in Rem!HeldIds => w \in raced') /\ \A x \in raced' : x \in raced \/ x = w
  BY <1>1 DEF Rem!TypeOK
<1>6. copies[w] = None /\ copies'[w] = 0 /\ \A x \in Rem!Serials \ {w} : copies'[x] = copies[x]
  BY <1>1 DEF Rem!TypeOK, Rem!Used
<1>7. Rem!Used' = Rem!Used \cup {w}
  BY <1>6 DEF Rem!Used, Rem!RemindersAssumption
<1>8. Rem!TypeOK'
  <2>1. copies' \in [Rem!Serials -> Nat \cup {None}]
    BY <1>1 DEF Rem!TypeOK
  <2>2. \A x, y \in rows' : x.id = y.id => x = y
    BY <1>1, <1>3, <1>4 DEF Rem!TypeOK
  <2> QED BY <2>1, <2>2, <1>1, <1>2, <1>3, <1>5 DEF Rem!TypeOK
<1>9. Rem!Busy' = Rem!Busy /\ Rem!Live' = Rem!Live
  BY <1>2 DEF Rem!Busy, Rem!Live
<1>10. Rem!Promised' = Rem!Promised \cup {r} /\ Rem!Known' = Rem!Known \cup {r}
  BY <1>1, <1>2, <1>9 DEF Rem!Promised, Rem!Known
<1>11. \A s \in Rem!Known : s.who \in Rem!Used /\ s.who # w /\ s # r
  BY <1>1, <1>3 DEF Rem!RemindersInv, Rem!RecordsInv
<1>12. \A s \in Rem!Known : s.id = i => w \in raced'
  BY <1>4, <1>5 DEF Rem!Known, Rem!Promised, Rem!HeldIds
<1>13. Rem!RecordsInv'
  <2>1. ASSUME NEW x \in rows', NEW s \in Rem!Known', x.id = s.id, x # s PROVE x.who \in raced'
    BY <2>1, <1>1, <1>3, <1>4, <1>5, <1>10, <1>12 DEF Rem!RemindersInv, Rem!RecordsInv, Rem!Known
  <2>2. \A x \in Rem!Promised' : x \in rows' \/ x.who \in raced'
    BY <1>1, <1>5, <1>10 DEF Rem!RemindersInv, Rem!RecordsInv
  <2>3. \A x \in Rem!Known' : x.who \in Rem!Used'
    BY <1>3, <1>7, <1>10, <1>11
  <2>4. \A x, y \in Rem!Known' : x.who = y.who => x = y
    BY <1>3, <1>10, <1>11 DEF Rem!RemindersInv, Rem!RecordsInv
  <2>5. op'.do = "restoring" => \A x, y \in op'.todo : x.id = y.id => x = y
    BY <1>2 DEF Rem!RemindersInv, Rem!RecordsInv
  <2> QED BY <2>1, <2>2, <2>3, <2>4, <2>5 DEF Rem!RecordsInv
<1>14. Rem!MapInv'
  BY <1>2, <1>5, <1>9 DEF Rem!RemindersInv, Rem!MapInv, Rem!Running
<1>15. \A t \in Rem!Busy : task[t].of \in Rem!Known
  BY DEF Rem!Known
<1>16. Rem!SentInv'
  <2>1. \A t \in Rem!Busy' : task'[t].at = "done" => task'[t].of \notin rows'
    BY <1>1, <1>2, <1>9, <1>11, <1>15 DEF Rem!RemindersInv, Rem!SentInv
  <2>2. ASSUME NEW x \in Rem!Used' \ (unsure' \cup raced')
        PROVE  /\ copies'[x] \in {0, 1}
               /\ \A t \in Rem!Live' : task'[t].of.who = x /\ task'[t].at \in {"new", "asleep"}
                     => copies'[x] = 0
               /\ copies'[x] = 1 => \A y \in rows' : y.who = x =>
                     \E t \in Rem!Busy' : task'[t].of = y /\ task'[t].at = "sent"
    <3>1. CASE x = w
      BY <3>1, <1>6
    <3>2. CASE x # w
      <4>1. x \in Rem!Used \ (unsure \cup raced) /\ copies'[x] = copies[x]
        BY <3>2, <2>2, <1>2, <1>5, <1>6, <1>7 DEF Rem!Used
      <4>2. \A y \in rows' : y.who = x => y \in rows
        BY <3>2, <1>1, <1>3
      <4> QED BY <4>1, <4>2, <1>2, <1>9 DEF Rem!RemindersInv, Rem!SentInv
    <3> QED BY <3>1, <3>2
  <2> QED BY <2>1, <2>2 DEF Rem!SentInv
<1>17. Rem!CommandInv'
  <2>1. i \in op.gone => w \in raced'
    BY <1>5 DEF Rem!HeldIds
  <2>2. op.do = "popping" /\ i \in op.todo => w \in raced'
    BY <1>5 DEF Rem!HeldIds
  <2>3. /\ \A x \in rows' : x.id \in op.gone => x.room \/ x.who \in raced'
        /\ op.do = "popping" => \A x \in rows' : x.id \in op.todo =>
              x.id \in op.gone \/ (x.room /\ ~roomOn) \/ x.who \in raced'
    BY <2>1, <2>2, <1>1, <1>3, <1>5 DEF Rem!RemindersInv, Rem!CommandInv
  <2>4. ASSUME NEW t \in Rem!Live, task[t].of.who \notin raced', task[t].at \in {"new", "asleep"}
        PROVE  /\ op.do = "popping" /\ task[t].of.id \in op.gone => task[t].of.id \in op.todo
               /\ task[t].of \in rows' \/ (op.do = "popping" /\ task[t].of.id \in op.todo)
    BY <2>4, <1>1, <1>5 DEF Rem!RemindersInv, Rem!CommandInv
  <2>5. /\ op.do = "cancelling" => ~enabled
        /\ op.do = "listing" => ~roomOn
        /\ op.do \notin {"relisting", "popping"} => op.gone = {}
    BY DEF Rem!RemindersInv, Rem!CommandInv
  <2> QED BY <2>3, <2>4, <2>5, <1>2, <1>9 DEF Rem!CommandInv
<1>18. Rem!CareInv'
  <2>1. rows' \ creating' \subseteq rows \ creating
    BY <1>1
  <2> QED BY <2>1, <1>2, <1>5, <1>9 DEF Rem!RemindersInv, Rem!CareInv
<1>19. Rem!SilentStep
  BY <1>6 DEF Rem!SilentStep
<1> QED BY <1>8, <1>13, <1>14, <1>16, <1>17, <1>18, <1>19 DEF Rem!RemindersInv

LEMMA RestartHolds ==
    ASSUME Rem!RemindersAssumption, Rem!TypeOK, Rem!RemindersInv, Rem!Restart
    PROVE  Rem!TypeOK' /\ Rem!RemindersInv'
<1>1. /\ task' = [t \in Rem!Tasks |-> None] /\ active' = [i \in Rem!Ids |-> None]
      /\ creating' = {} /\ enabled' = TRUE /\ op' = [Rem!Idle EXCEPT !.do = "reading"]
      /\ unsure' = unsure \cup {task[t].of.who : t \in {u \in Rem!Busy : task[u].at = "sent"}}
      /\ UNCHANGED <<rows, roomOn, copies, raced, left>> /\ events' = events + 1
  BY DEF Rem!Restart
<1>2. op' \in Rem!Operations /\ op'.do = "reading" /\ op'.gone = {}
  BY <1>1 DEF Rem!Idle, Rem!Operations
<1>3. Rem!TypeOK'
  <2>1. unsure' \subseteq Rem!Serials
    BY <1>1, JobParts DEF Rem!TypeOK
  <2> QED BY <2>1, <1>1, <1>2 DEF Rem!TypeOK
<1>4. Rem!Busy' = {} /\ Rem!Live' = {} /\ Rem!Used' = Rem!Used /\ Rem!Promised' = {}
      /\ Rem!Known' = rows
  BY <1>1, <1>2 DEF Rem!Busy, Rem!Live, Rem!Used, Rem!Promised, Rem!Known
<1>5. rows \subseteq Rem!Known
  BY DEF Rem!Known
<1>6. Rem!RecordsInv'
  BY <1>1, <1>2, <1>4, <1>5 DEF Rem!RemindersInv, Rem!RecordsInv
<1>7. Rem!MapInv'
  BY <1>4 DEF Rem!MapInv, Rem!Running
<1>8. Rem!SentInv'
  BY <1>1, <1>4 DEF Rem!RemindersInv, Rem!SentInv
<1>9. Rem!CommandInv'
  BY <1>2, <1>4 DEF Rem!CommandInv
<1>10. Rem!CareInv'
  BY <1>2 DEF Rem!CareInv
<1> QED BY <1>3, <1>6, <1>7, <1>8, <1>9, <1>10 DEF Rem!RemindersInv

LEMMA RemindersStart ==
    ASSUME Rem!RemindersAssumption, Rem!Init PROVE Rem!TypeOK /\ Rem!RemindersInv
<1>1. Rem!Busy = {} /\ Rem!Live = {} /\ Rem!Used = {} /\ Rem!Promised = {} /\ Rem!Known = {}
      /\ op \in Rem!Operations /\ op.do = "none" /\ op.gone = {} /\ rows = {}
  BY DEF Rem!Init, Rem!Idle, Rem!Operations, Rem!Busy, Rem!Live, Rem!Used, Rem!Promised, Rem!Known
<1>2. Rem!TypeOK
  BY <1>1 DEF Rem!TypeOK, Rem!Init
<1>3. Rem!RemindersInv
  BY <1>1 DEF Rem!RemindersInv, Rem!RecordsInv, Rem!MapInv, Rem!SentInv, Rem!CommandInv, Rem!CareInv,
              Rem!Running
<1> QED BY <1>2, <1>3

LEMMA RemindersGoOn ==
    ASSUME Rem!RemindersAssumption, Rem!TypeOK, Rem!RemindersInv, [Rem!Next]_(Rem!vars)
    PROVE  Rem!TypeOK' /\ Rem!RemindersInv'
<1>1. CASE UNCHANGED Rem!vars
  <2>1. UNCHANGED <<rows, enabled, roomOn, task, active, creating, op, copies, unsure, raced, left, events>>
    BY <1>1 DEF Rem!vars, Rem!stored, Rem!ghosts
  <2>2. Rem!TypeOK'
    BY <2>1 DEF Rem!TypeOK
  <2>3. Rem!RecordsInv' /\ Rem!MapInv'
    BY <2>1 DEF Rem!RemindersInv, Rem!RecordsInv, Rem!MapInv, Rem!Known, Rem!Promised, Rem!Busy, Rem!Used,
                Rem!Running
  <2>4. Rem!SentInv' /\ Rem!CommandInv' /\ Rem!CareInv'
    BY <2>1 DEF Rem!RemindersInv, Rem!SentInv, Rem!CommandInv, Rem!CareInv, Rem!Live, Rem!Busy, Rem!Used
  <2> QED BY <2>2, <2>3, <2>4 DEF Rem!RemindersInv
<1>2. ASSUME NEW t \in Rem!Tasks, Rem!TaskStep(t) PROVE Rem!TypeOK' /\ Rem!RemindersInv'
  BY <1>2, StartsHolds, SendsHolds, DeletesRowHolds, TasksEnd DEF Rem!TaskStep
<1>3. ASSUME Rem!OpStep PROVE Rem!TypeOK' /\ Rem!RemindersInv'
  BY <1>3, ReadPendingHolds, RestoreHolds, ListRoomHolds, DeleteRowHolds, CancelNextHolds,
     AllCancelledHolds DEF Rem!OpStep
<1>4. CASE Rem!Next
  BY <1>4, <1>2, <1>3, CreateHolds, CreatedHolds, CommandsBegin, RestartHolds DEF Rem!Next
<1> QED BY <1>1, <1>4

LEMMA OneSends ==
    ASSUME Rem!RemindersAssumption, Rem!TypeOK, Rem!RemindersInv, [Rem!Next]_(Rem!vars)
    PROVE  Rem!SilentStep
<1>1. copies' = copies => Rem!SilentStep
  BY DEF Rem!SilentStep
<1>2. CASE UNCHANGED Rem!vars
  BY <1>1, <1>2 DEF Rem!vars, Rem!ghosts
<1>3. ASSUME NEW t \in Rem!Tasks, Rem!TaskStep(t) PROVE copies' = copies \/ Rem!Sends(t)
  BY <1>3 DEF Rem!TaskStep, Rem!Starts, Rem!DueButOff, Rem!SendRefused, Rem!DeletesRow, Rem!DeleteFails,
              Rem!Finishes, Rem!Cancelled, Rem!ghosts
<1>4. Rem!OpStep => copies' = copies
  BY DEF Rem!OpStep, Rem!ReadPending, Rem!Restore, Rem!ListRoom, Rem!DeleteRow, Rem!CancelNext,
         Rem!AllCancelled, Rem!ghosts
<1>5. \A new : Rem!Begin(new) => copies' = copies
  BY DEF Rem!Begin, Rem!ghosts
<1>6. CASE Rem!Next
  <2>1. \/ Rem!Create \/ copies' = copies
        \/ \E t \in Rem!Tasks : Rem!Sends(t)
    BY <1>3, <1>4, <1>5, <1>6 DEF Rem!Next, Rem!Created, Rem!GlobalOn, Rem!GlobalOff, Rem!RoomOn,
       Rem!RoomOff, Rem!CleanupRoomState, Rem!DeleteReminder, Rem!Restart
  <2> QED BY <2>1, <1>1, CreateHolds, SendsHolds
<1> QED BY <1>2, <1>6

LEMMA CaredForArrive ==
    ASSUME Rem!RemindersAssumption, Rem!TypeOK, Rem!RemindersInv PROVE Rem!RemindersArrive
<1>1. Rem!SentOnce
  <2> SUFFICES ASSUME NEW w \in Rem!Serials, copies[w] # None, copies[w] > 1, w \notin unsure \cup raced
               PROVE  FALSE
    BY DEF Rem!SentOnce
  <2>1. w \in Rem!Used
    BY DEF Rem!Used
  <2>2. copies[w] \in {0, 1}
    BY <2>1 DEF Rem!RemindersInv, Rem!SentInv
  <2> QED BY <2>2
<1>2. Rem!NobodyIsForgotten
  BY DEF Rem!NobodyIsForgotten, Rem!RemindersInv, Rem!CareInv, Rem!Idle
<1> QED BY <1>1, <1>2 DEF Rem!RemindersArrive

(* plugins/reminder, for any number of reminders: whatever the order of     *)
(* remind_command, the tasks' sends and deletions, the global and the       *)
(* room's switch, delete_reminder, cleanup_room_state and restarts, a       *)
(* reminder is sent twice only if its task was interrupted before its row   *)
(* was deleted or a second task raced with the first, and between commands  *)
(* every row that is switched on has a task that nobody cancelled, unless   *)
(* a send or a deletion failed.                                             *)
THEOREM RemindersAlwaysArrive ==
    ASSUME Rem!RemindersAssumption PROVE Rem!Spec => []Rem!RemindersArrive
<1>1. Rem!Init => Rem!TypeOK /\ Rem!RemindersInv
  BY RemindersStart
<1>2. Rem!TypeOK /\ Rem!RemindersInv /\ [Rem!Next]_(Rem!vars) => Rem!TypeOK' /\ Rem!RemindersInv'
  BY RemindersGoOn
<1>3. Rem!TypeOK /\ Rem!RemindersInv => Rem!RemindersArrive
  BY CaredForArrive
<1> QED BY <1>1, <1>2, <1>3, PTL DEF Rem!Spec

(* A reminder whose row delete_reminder or cleanup_room_state deleted is    *)
(* sent no more once that command is over, unless a restore that had        *)
(* already read the row, or a second task with its id, raced.               *)
THEOREM DeletedAreAlwaysSilent ==
    ASSUME Rem!RemindersAssumption PROVE Rem!Spec => Rem!DeletedIsSilent
<1>1. Rem!Init => Rem!TypeOK /\ Rem!RemindersInv
  BY RemindersStart
<1>2. Rem!TypeOK /\ Rem!RemindersInv /\ [Rem!Next]_(Rem!vars) => Rem!TypeOK' /\ Rem!RemindersInv'
  BY RemindersGoOn
<1>3. Rem!TypeOK /\ Rem!RemindersInv /\ [Rem!Next]_(Rem!vars) => [Rem!SilentStep]_(Rem!vars)
  BY OneSends
<1> QED BY <1>1, <1>2, <1>3, PTL DEF Rem!Spec, Rem!DeletedIsSilent

-----------------------------------------------------------------------------
(* Tell.                                                                    *)

LEMMA InHand ==
    ASSUME Tells!TypeOK, NEW d \in Tells!Active
    PROVE  /\ d \in Deliveries /\ delivery[d] \in Tells!Delivery
           /\ delivery[d].todo \subseteq Tells!Message /\ delivery[d].kept \subseteq Tells!Message
  BY DEF Tells!TypeOK, Tells!Active, Tells!Delivery

(* What was told stays told, and what was sent stays sent.                  *)
LEMMA OneMoreCopy ==
    ASSUME Tells!TellAssumption, Tells!TypeOK, NEW i \in Tells!Told, NEW more \in BOOLEAN,
           copies' = IF more THEN [copies EXCEPT ![i] = @ + 1] ELSE copies
    PROVE  /\ copies' \in [Tells!Numbers -> Nat \cup {None}] /\ Tells!Told' = Tells!Told
           /\ more => copies'[i] > 0
           /\ \A j \in Tells!Told : copies[j] \in Nat /\ (copies[j] > 0 => copies'[j] > 0)
<1>1. i \in Tells!Numbers /\ copies[i] \in Nat /\ None \notin Nat
  BY DEF Tells!Told, Tells!TypeOK, Tells!TellAssumption
<1>2. \A j \in Tells!Told : j \in Tells!Numbers /\ copies[j] \in Nat
  BY DEF Tells!Told, Tells!TypeOK
<1>3. CASE more
  <2>1. copies' = [copies EXCEPT ![i] = copies[i] + 1]
    BY <1>3
  <2>2. copies'[i] = copies[i] + 1 /\ \A j \in Tells!Numbers \ {i} : copies'[j] = copies[j]
    BY <2>1, <1>1 DEF Tells!TypeOK
  <2>3. copies' \in [Tells!Numbers -> Nat \cup {None}]
    BY <2>1, <1>1 DEF Tells!TypeOK
  <2>4. Tells!Told' = Tells!Told
    BY <2>2, <1>1 DEF Tells!Told
  <2> QED BY <2>2, <2>3, <2>4, <1>1, <1>2
<1>4. CASE ~more
  BY <1>2, <1>4 DEF Tells!TypeOK, Tells!Told
<1> QED BY <1>3, <1>4

(* The stored list is replaced.                                             *)
LEMMA OvertakeHolds ==
    ASSUME Tells!TellAssumption, Tells!TypeOK, Tells!InHandInv, NEW others \in SUBSET Tells!Active,
           Tells!Overtake(others), copies' \in [Tells!Numbers -> Nat \cup {None}],
           Tells!Told' = Tells!Told, stored' \subseteq Tells!Message,
           \A m \in stored' : m.id \in Tells!Told,
           enabled' \subseteq Rooms, waiting' = waiting,
           {handlers, presences, refusals, reloads}' \subseteq Nat
    PROVE  Tells!TypeOK' /\ Tells!InHandInv' /\ Tells!Active' = others
<1>1. /\ overtaken' = others
      /\ \A d \in Deliveries : delivery'[d] = IF d \in others THEN [delivery[d] EXCEPT !.live = FALSE]
                                              ELSE IF d \in Tells!Active THEN None ELSE delivery[d]
      /\ delivery' = [d \in Deliveries |-> delivery'[d]]
  BY DEF Tells!Overtake
<1>2. ASSUME NEW d \in others
      PROVE  /\ d \in Deliveries /\ delivery'[d] \in Tells!Delivery /\ delivery'[d] # None
             /\ delivery'[d].todo = delivery[d].todo /\ delivery'[d].kept = delivery[d].kept
  <2>1. d \in Deliveries /\ delivery[d] \in Tells!Delivery
    BY InHand
  <2>2. delivery'[d] = [delivery[d] EXCEPT !.live = FALSE]
    BY <2>1, <1>1
  <2> QED BY <2>1, <2>2 DEF Tells!Delivery, Tells!TellAssumption
<1>3. \A d \in Deliveries \ others : delivery'[d] = None
  BY <1>1 DEF Tells!Active
<1>4. Tells!Active' = others
  BY <1>2, <1>3 DEF Tells!Active
<1>5. delivery' \in [Deliveries -> Tells!Delivery \cup {None}]
  BY <1>1, <1>2, <1>3
<1>6. Tells!TypeOK'
  BY <1>1, <1>4, <1>5 DEF Tells!TypeOK
<1>7. Tells!InHandInv'
  BY <1>1, <1>2, <1>4 DEF Tells!InHandInv
<1> QED BY <1>4, <1>6, <1>7

LEMMA TellCmdHolds ==
    ASSUME Tells!TellAssumption, Tells!TypeOK, Tells!InHandInv, NEW r \in Rooms, Tells!TellCmd(r)
    PROVE  Tells!TypeOK' /\ Tells!InHandInv' /\ Tells!KeptStep
<1>1. PICK m \in Tells!Message :
        /\ m.id \notin Tells!Told /\ stored' = stored \cup {m}
        /\ delivery' = [d \in Deliveries |->
              IF d \in Tells!Active THEN Tells!Seen(delivery[d], m) ELSE delivery[d]]
        /\ copies' = [copies EXCEPT ![m.id] = 0]
  BY DEF Tells!TellCmd
<1>2. UNCHANGED <<enabled, handlers, waiting, overtaken, presences, refusals, reloads>>
  BY DEF Tells!TellCmd, Tells!bounds
<1>3. m.id \in Tells!Numbers /\ None \notin Nat
  BY DEF Tells!Message, Tells!TellAssumption
<1>4. copies' \in [Tells!Numbers -> Nat \cup {None}] /\ copies'[m.id] = 0
      /\ \A j \in Tells!Numbers \ {m.id} : copies'[j] = copies[j]
  BY <1>1, <1>3 DEF Tells!TypeOK
<1>5. Tells!Told' = Tells!Told \cup {m.id} /\ \A j \in Tells!Told : copies'[j] = copies[j]
  BY <1>1, <1>3, <1>4 DEF Tells!Told
<1>6. ASSUME NEW d \in Tells!Active
      PROVE  /\ d \in Deliveries /\ delivery'[d] \in Tells!Delivery /\ delivery'[d] # None
             /\ delivery'[d].live = delivery[d].live /\ delivery'[d].kept = delivery[d].kept
             /\ delivery'[d].todo = IF delivery[d].live THEN delivery[d].todo \cup {m} ELSE delivery[d].todo
  <2>1. d \in Deliveries /\ delivery[d] \in Tells!Delivery
    BY InHand
  <2>2. delivery'[d] = IF delivery[d].live THEN [delivery[d] EXCEPT !.todo = @ \cup {m}] ELSE delivery[d]
    BY <1>1, <2>1 DEF Tells!Seen
  <2>3. delivery'[d] \in Tells!Delivery
    BY <2>1, <2>2 DEF Tells!Delivery
  <2> QED BY <2>1, <2>2, <2>3 DEF Tells!Delivery, Tells!TellAssumption
<1>7. Tells!Active' = Tells!Active
  BY <1>1, <1>6 DEF Tells!Active
<1>8. delivery' \in [Deliveries -> Tells!Delivery \cup {None}]
  <2>1. \A d \in Deliveries : delivery'[d] \in Tells!Delivery \cup {None}
    BY <1>1, <1>6 DEF Tells!TypeOK
  <2> QED BY <2>1, <1>1
<1>9. Tells!TypeOK'
  BY <1>1, <1>2, <1>4, <1>7, <1>8 DEF Tells!TypeOK
<1>10. Tells!InHandInv'
  <2>1. \A n \in stored' : n.id \in Tells!Told'
    BY <1>1, <1>5 DEF Tells!InHandInv
  <2>2. ASSUME NEW d \in Tells!Active'
        PROVE  /\ \A n \in delivery'[d].todo \cup delivery'[d].kept : n.id \in Tells!Told'
               /\ d \notin overtaken' =>
                    /\ delivery'[d].live
                    /\ \A n \in stored' \ (delivery'[d].todo \cup delivery'[d].kept) : copies'[n.id] > 0
    <3>1. d \in Tells!Active
      BY <1>7
    <3>2. \A n \in delivery'[d].todo \cup delivery'[d].kept : n.id \in Tells!Told'
      BY <3>1, <1>5, <1>6 DEF Tells!InHandInv
    <3>3. ASSUME d \notin overtaken' PROVE delivery'[d].live
      BY <3>1, <3>3, <1>2, <1>6 DEF Tells!InHandInv
    <3>4. ASSUME d \notin overtaken', NEW n \in stored' \ (delivery'[d].todo \cup delivery'[d].kept)
          PROVE  copies'[n.id] > 0
      <4>1. n \in stored \ (delivery[d].todo \cup delivery[d].kept)
        BY <3>1, <3>3, <3>4, <1>1, <1>6
      <4>2. copies[n.id] > 0 /\ n.id \in Tells!Told
        BY <4>1, <3>1, <3>4, <1>2 DEF Tells!InHandInv
      <4> QED BY <4>2, <1>5
    <3> QED BY <3>2, <3>3, <3>4
  <2> QED BY <2>1, <2>2 DEF Tells!InHandInv
<1>11. Tells!KeptStep
  BY <1>1 DEF Tells!KeptStep
<1> QED BY <1>9, <1>10, <1>11

LEMMA FetchHolds ==
    ASSUME Tells!TellAssumption, Tells!TypeOK, Tells!InHandInv, NEW d \in Deliveries, Tells!Fetch(d)
    PROVE  Tells!TypeOK' /\ Tells!InHandInv' /\ Tells!KeptStep
<1>1. /\ d \in waiting /\ waiting' = waiting \ {d}
      /\ delivery' = [delivery EXCEPT ![d] =
           IF stored = {} THEN None ELSE [todo |-> stored, kept |-> {}, live |-> TRUE]]
      /\ UNCHANGED <<stored, enabled, handlers, copies, overtaken, presences, refusals, reloads>>
  BY DEF Tells!Fetch, Tells!bounds
<1>2. d \notin Tells!Active /\ Tells!Told' = Tells!Told
  BY <1>1 DEF Tells!TypeOK, Tells!Told
<1>3. [todo |-> stored, kept |-> {}, live |-> TRUE] \in Tells!Delivery
  BY DEF Tells!TypeOK, Tells!Delivery
<1>4. delivery' \in [Deliveries -> Tells!Delivery \cup {None}]
      /\ \A e \in Deliveries \ {d} : delivery'[e] = delivery[e]
  BY <1>1, <1>3 DEF Tells!TypeOK
<1>5. delivery'[d] = None \/ delivery'[d] = [todo |-> stored, kept |-> {}, live |-> TRUE]
  BY <1>1 DEF Tells!TypeOK
<1>6. /\ Tells!Active' \subseteq Tells!Active \cup {d} /\ Tells!Active \subseteq Tells!Active'
      /\ Tells!Active' \ {d} = Tells!Active
  BY <1>2, <1>4 DEF Tells!Active
<1>7. Tells!TypeOK'
  BY <1>1, <1>4, <1>6 DEF Tells!TypeOK
<1>8. Tells!InHandInv'
  <2>1. ASSUME NEW e \in Tells!Active'
        PROVE  /\ \A n \in delivery'[e].todo \cup delivery'[e].kept : n.id \in Tells!Told'
               /\ e \notin overtaken' =>
                    /\ delivery'[e].live
                    /\ \A n \in stored' \ (delivery'[e].todo \cup delivery'[e].kept) : copies'[n.id] > 0
    <3>1. CASE e = d
      BY <3>1, <2>1, <1>1, <1>2, <1>5 DEF Tells!InHandInv, Tells!Active
    <3>2. CASE e # d
      <4>1. e \in Tells!Active /\ delivery'[e] = delivery[e]
        BY <3>2, <2>1, <1>4, <1>6 DEF Tells!Active
      <4> QED BY <4>1, <1>1, <1>2 DEF Tells!InHandInv
    <3> QED BY <3>1, <3>2
  <2> QED BY <2>1, <1>1, <1>2 DEF Tells!InHandInv
<1>9. Tells!KeptStep
  BY <1>1 DEF Tells!KeptStep
<1> QED BY <1>7, <1>8, <1>9

LEMMA TurnHolds ==
    ASSUME Tells!TellAssumption, Tells!TypeOK, Tells!InHandInv,
           NEW d \in Deliveries, NEW m \in Tells!Message, NEW accepted \in BOOLEAN,
           Tells!Turn(d, m, accepted)
    PROVE  Tells!TypeOK' /\ Tells!InHandInv' /\ Tells!KeptStep
<1>1. PICK kept, rest : /\ kept = IF accepted THEN delivery[d].kept ELSE delivery[d].kept \cup {m}
                        /\ rest = delivery[d].todo \ {m}
  OBVIOUS
<1>2. /\ d \in Tells!Active /\ m \in delivery[d].todo
      /\ copies' = IF accepted THEN [copies EXCEPT ![m.id] = @ + 1] ELSE copies
      /\ refusals' = IF accepted THEN refusals ELSE refusals + 1
      /\ \/ /\ rest # {}
            /\ delivery' = [delivery EXCEPT ![d].todo = rest, ![d].kept = kept]
            /\ UNCHANGED <<stored, overtaken>>
         \/ /\ rest = {} /\ stored' = kept /\ Tells!Overtake(Tells!Active \ {d})
      /\ UNCHANGED <<enabled, handlers, waiting, presences, reloads>>
  BY <1>1 DEF Tells!Turn
<1>3. delivery[d] \in Tells!Delivery /\ delivery[d].todo \subseteq Tells!Message
      /\ delivery[d].kept \subseteq Tells!Message
  BY <1>2, InHand
<1>4. m.id \in Tells!Told /\ \A n \in delivery[d].todo \cup delivery[d].kept : n.id \in Tells!Told
  BY <1>2 DEF Tells!InHandInv
<1>5. /\ copies' \in [Tells!Numbers -> Nat \cup {None}] /\ Tells!Told' = Tells!Told
      /\ accepted => copies'[m.id] > 0
      /\ \A j \in Tells!Told : copies[j] \in Nat /\ (copies[j] > 0 => copies'[j] > 0)
  BY <1>2, <1>4, OneMoreCopy
<1>6. kept \subseteq Tells!Message /\ \A n \in kept : n.id \in Tells!Told
  BY <1>1, <1>2, <1>3, <1>4
<1>7. {handlers, presences, refusals, reloads}' \subseteq Nat
  BY <1>2 DEF Tells!TypeOK
<1>8. CASE rest # {}
  <2>1. delivery' = [delivery EXCEPT ![d].todo = rest, ![d].kept = kept] /\ UNCHANGED <<stored, overtaken>>
    BY <1>2, <1>8
  <2>2. delivery'[d] \in Tells!Delivery /\ delivery'[d].todo = rest /\ delivery'[d].kept = kept
        /\ delivery'[d].live = delivery[d].live
        /\ \A e \in Deliveries \ {d} : delivery'[e] = delivery[e]
    BY <2>1, <1>1, <1>3, <1>6 DEF Tells!Delivery, Tells!TypeOK
  <2>3. delivery' \in [Deliveries -> Tells!Delivery \cup {None}]
    BY <2>1, <2>2 DEF Tells!TypeOK
  <2>4. Tells!Active' = Tells!Active
    BY <2>2, <1>2 DEF Tells!Active, Tells!TellAssumption
  <2>5. Tells!TypeOK'
    BY <2>1, <2>3, <2>4, <1>2, <1>5, <1>7 DEF Tells!TypeOK
  <2>6. ASSUME NEW e \in Tells!Active'
        PROVE  /\ \A n \in delivery'[e].todo \cup delivery'[e].kept : n.id \in Tells!Told'
               /\ e \notin overtaken' =>
                    /\ delivery'[e].live
                    /\ \A n \in stored' \ (delivery'[e].todo \cup delivery'[e].kept) : copies'[n.id] > 0
    <3>1. \A n \in stored : n.id \in Tells!Told
      BY DEF Tells!InHandInv
    <3>2. CASE e = d
      <4>1. \A n \in rest \cup kept : n.id \in Tells!Told'
        BY <1>1, <1>4, <1>5, <1>6
      <4>2. ASSUME d \notin overtaken
            PROVE  /\ delivery[d].live
                   /\ \A n \in stored \ (rest \cup kept) : copies'[n.id] > 0
        BY <4>2, <3>1, <1>1, <1>2, <1>5 DEF Tells!InHandInv
      <4> QED BY <3>2, <4>1, <4>2, <2>1, <2>2
    <3>3. CASE e # d
      <4>1. e \in Tells!Active /\ delivery'[e] = delivery[e]
        BY <3>3, <2>2, <2>4 DEF Tells!Active
      <4> QED BY <3>1, <4>1, <2>1, <1>5 DEF Tells!InHandInv
    <3> QED BY <3>2, <3>3
  <2>7. \A n \in stored' : n.id \in Tells!Told'
    BY <2>1, <1>5 DEF Tells!InHandInv
  <2>8. Tells!KeptStep
    BY <2>1 DEF Tells!KeptStep
  <2> QED BY <2>5, <2>6, <2>7, <2>8 DEF Tells!InHandInv
<1>9. CASE rest = {}
  <2>1. stored' = kept /\ Tells!Overtake(Tells!Active \ {d})
    BY <1>2, <1>9
  <2>2. \A n \in stored' : n.id \in Tells!Told
    BY <2>1, <1>6
  <2>3. PICK others \in SUBSET Tells!Active : others = Tells!Active \ {d}
    OBVIOUS
  <2>4. Tells!TypeOK' /\ Tells!InHandInv' /\ Tells!Active' = others
    BY <2>1, <2>2, <2>3, <1>2, <1>5, <1>6, <1>7, OvertakeHolds DEF Tells!TypeOK
  <2>5. ASSUME NEW n \in stored \ stored', d \notin overtaken PROVE copies'[n.id] > 0
    BY <2>1, <2>5, <1>1, <1>2, <1>5, <1>9 DEF Tells!InHandInv
  <2>6. d \in overtaken => delivery'[d] = None
    BY <2>1, <1>2 DEF Tells!Overtake
  <2>7. Tells!KeptStep
    BY <2>5, <2>6 DEF Tells!KeptStep
  <2> QED BY <2>4, <2>7
<1> QED BY <1>8, <1>9

LEMMA CleanupHolds ==
    ASSUME Tells!TellAssumption, Tells!TypeOK, Tells!InHandInv, NEW r \in Rooms, Tells!CleanupRoomState(r)
    PROVE  Tells!TypeOK' /\ Tells!InHandInv' /\ Tells!KeptStep
<1>1. /\ stored' = {m \in stored : m.room # r} /\ Tells!Overtake(Tells!Active)
      /\ UNCHANGED <<enabled, handlers, waiting, copies, presences, refusals, reloads>>
  BY DEF Tells!CleanupRoomState, Tells!bounds
<1>2. /\ stored' \subseteq Tells!Message /\ \A m \in stored' : m.id \in Tells!Told
      /\ Tells!Told' = Tells!Told /\ copies' \in [Tells!Numbers -> Nat \cup {None}]
      /\ enabled' \subseteq Rooms /\ {handlers, presences, refusals, reloads}' \subseteq Nat
  BY <1>1 DEF Tells!TypeOK, Tells!InHandInv, Tells!Told
<1>3. PICK others \in SUBSET Tells!Active : others = Tells!Active
  OBVIOUS
<1>4. Tells!TypeOK' /\ Tells!InHandInv' /\ Tells!Active' = others
  BY <1>1, <1>2, <1>3, OvertakeHolds
<1>5. Tells!KeptStep
  BY <1>1, <1>3, <1>4 DEF Tells!KeptStep
<1> QED BY <1>4, <1>5

LEMMA TellsGoOn ==
    ASSUME Tells!TellAssumption, Tells!TypeOK, Tells!InHandInv, [Tells!Next]_(Tells!vars)
    PROVE  Tells!TypeOK' /\ Tells!InHandInv' /\ [Tells!KeptStep]_(Tells!vars)
<1>1. ASSUME UNCHANGED <<stored, delivery, copies, overtaken>>, enabled' \subseteq Rooms,
             waiting' \subseteq Deliveries \ Tells!Active,
             {handlers, presences, refusals, reloads}' \subseteq Nat
      PROVE  Tells!TypeOK' /\ Tells!InHandInv' /\ Tells!KeptStep
  <2>1. Tells!Active' = Tells!Active /\ Tells!Told' = Tells!Told
    BY <1>1 DEF Tells!Active, Tells!Told
  <2> QED BY <1>1, <2>1 DEF Tells!TypeOK, Tells!InHandInv, Tells!KeptStep
<1>2. CASE UNCHANGED Tells!vars
  BY <1>1, <1>2 DEF Tells!vars, Tells!bounds, Tells!TypeOK
<1>3. ASSUME NEW r \in Rooms, Tells!Toggle(r) PROVE Tells!TypeOK' /\ Tells!InHandInv' /\ Tells!KeptStep
  BY <1>1, <1>3 DEF Tells!Toggle, Tells!bounds, Tells!TypeOK
<1>4. CASE Tells!Presence
  BY <1>1, <1>4 DEF Tells!Presence, Tells!TypeOK
<1>5. CASE Tells!Reload
  BY <1>1, <1>5 DEF Tells!Reload, Tells!TypeOK
<1>6. CASE Tells!Next
  BY <1>3, <1>4, <1>5, <1>6, TellCmdHolds, CleanupHolds, FetchHolds, TurnHolds DEF Tells!Next
<1> QED BY <1>2, <1>6

(* plugins/tell.py, for any number of messages, presences and deliveries:   *)
(* a message leaves the store without having been sent only when            *)
(* cleanup_room_state deletes its room's messages, or when a delivery ends  *)
(* whose list another task had replaced: deliver_tell_messages, sleeping    *)
(* and awaiting before every message, loses nothing that tell_store         *)
(* appends meanwhile.                                                       *)
THEOREM TellsAreAlwaysKept ==
    ASSUME Tells!TellAssumption PROVE Tells!Spec => Tells!KeptUntilSent
<1>1. Tells!Init => Tells!TypeOK /\ Tells!InHandInv
  <2> SUFFICES ASSUME Tells!Init PROVE Tells!TypeOK /\ Tells!InHandInv
    OBVIOUS
  <2>1. Tells!Active = {}
    BY DEF Tells!Init, Tells!Active
  <2> QED BY <2>1 DEF Tells!Init, Tells!TypeOK, Tells!InHandInv
<1>2. Tells!TypeOK /\ Tells!InHandInv /\ [Tells!Next]_(Tells!vars)
      => Tells!TypeOK' /\ Tells!InHandInv' /\ [Tells!KeptStep]_(Tells!vars)
  BY TellsGoOn
<1> QED BY <1>1, <1>2, PTL DEF Tells!Spec, Tells!KeptUntilSent

-----------------------------------------------------------------------------
(* Birthdays.                                                                *)
LEMMA CheckParts ==
    ASSUME Bday!TypeOK, NEW t \in Bday!Busy
    PROVE  /\ t \in Bday!Tasks /\ task[t] \in Bday!Job
           /\ task[t].at \in {"delay", "rooms", "check", "lookup", "send", "mark"}
           /\ task[t].room \in Rooms \cup {None} /\ task[t].todo \subseteq Rooms
           /\ task[t].began \in Bday!Days /\ task[t].on \in Bday!Days /\ task[t].on \in Nat
<1>1. t \in Bday!Tasks /\ task[t] # None
  BY DEF Bday!Busy
<1>2. task[t] \in Bday!Job
  BY <1>1 DEF Bday!TypeOK
<1> QED BY <1>1, <1>2 DEF Bday!Job, Bday!Days

(* A step after which nobody is within a room that was not there before,    *)
(* and nobody has left who had sent today.                                  *)
Fewer ==
    \A r \in Rooms : <<r, day>> \in twice' \/
        /\ Bday!Within(r)' \subseteq Bday!Within(r)
        /\ \A t \in Bday!Within(r)' : /\ task'[t].on = task[t].on
                                      /\ task[t].at = "mark" <=> task'[t].at = "mark"
        /\ \A t \in Bday!Within(r) : task[t].at = "mark" /\ task[t].on = day
              => t \in Bday!Within(r)'

LEMMA FewerHolds ==
    ASSUME Bday!BirthdaysAssumption, Bday!TypeOK, Bday!OnceInv,
           UNCHANGED <<day, copies, stored>>, twice \subseteq twice', Fewer,
           \A r \in Rooms : memory'[r] \in {None, stored[r]},
           \A t \in Bday!Busy' : task'[t].on <= day /\ (task'[t].at # "rooms" => task'[t].room \in Rooms)
    PROVE  Bday!OnceInv'
<1>1. ASSUME NEW r \in Rooms, <<r, day>> \notin twice'
      PROVE  /\ \A t, u \in Bday!Within(r)' : task'[t].on = day => u = t
             /\ \A t \in Bday!Within(r)' : task'[t].on = day /\ task'[t].at # "mark" => copies[r][day] = 0
             /\ copies[r][day] > 0 =>
                   \/ stored[r] = day /\ Bday!Within(r)' = {}
                   \/ \E t \in Bday!Within(r)' : task'[t].at = "mark" /\ task'[t].on = day
  <2>1. /\ \A t, u \in Bday!Within(r) : task[t].on = day => u = t
        /\ \A t \in Bday!Within(r) : task[t].on = day /\ task[t].at # "mark" => copies[r][day] = 0
        /\ copies[r][day] > 0 =>
              \/ stored[r] = day /\ Bday!Within(r) = {}
              \/ \E t \in Bday!Within(r) : task[t].at = "mark" /\ task[t].on = day
    BY <1>1 DEF Bday!OnceInv
  <2>2. /\ Bday!Within(r)' \subseteq Bday!Within(r)
        /\ \A t \in Bday!Within(r)' : /\ task'[t].on = task[t].on
                                      /\ task[t].at = "mark" <=> task'[t].at = "mark"
        /\ \A t \in Bday!Within(r) : task[t].at = "mark" /\ task[t].on = day
              => t \in Bday!Within(r)'
    BY <1>1 DEF Fewer
  <2> QED BY <2>1, <2>2
<1>2. \A r \in Rooms, d \in Bday!Days : d > day => copies[r][d] = 0
  BY DEF Bday!OnceInv
<1> QED BY <1>1, <1>2 DEF Bday!OnceInv, Bday!Days

(* One task goes on or stops, and does not enter a room.                    *)
LEMMA OneCheckMoves ==
    ASSUME Bday!BirthdaysAssumption, Bday!TypeOK, Bday!OnceInv, NEW t \in Bday!Tasks,
           NEW j \in Bday!Job \cup {None}, task' = [task EXCEPT ![t] = j],
           j # None => /\ j.on <= day /\ (j.at # "rooms" => j.room \in Rooms)
                       /\ j.at \in {"delay", "rooms", "check"}
                          \/ (/\ j.at = "send" /\ t \in Bday!Busy /\ task[t].at = "lookup"
                              /\ j.room = task[t].room /\ j.on = task[t].on),
           t \in Bday!Busy => task[t].at # "mark"
    PROVE  /\ task' \in [Bday!Tasks -> Bday!Job \cup {None}]
           /\ UNCHANGED day /\ twice \subseteq twice' => Fewer
           /\ UNCHANGED day => \A u \in Bday!Busy' :
                task'[u].on <= day /\ (task'[u].at # "rooms" => task'[u].room \in Rooms)
<1>1. /\ task' \in [Bday!Tasks -> Bday!Job \cup {None}] /\ task'[t] = j
      /\ \A u \in Bday!Tasks \ {t} : task'[u] = task[u]
  BY DEF Bday!TypeOK
<1>2. \A u \in Bday!Busy' \ {t} : u \in Bday!Busy /\ task'[u] = task[u]
  BY <1>1 DEF Bday!Busy
<1>3. \A u \in Bday!Busy' : task'[u].on <= day /\ (task'[u].at # "rooms" => task'[u].room \in Rooms)
  BY <1>1, <1>2 DEF Bday!OnceInv, Bday!Busy
<1>4. ASSUME NEW r \in Rooms
      PROVE  /\ Bday!Within(r)' \subseteq Bday!Within(r)
             /\ \A u \in Bday!Within(r)' : /\ task'[u].on = task[u].on
                                           /\ task[u].at = "mark" <=> task'[u].at = "mark"
             /\ \A u \in Bday!Within(r) : task[u].at = "mark" => u \in Bday!Within(r)'
  <2>1. ASSUME NEW u \in Bday!Within(r)'
        PROVE  /\ u \in Bday!Within(r) /\ task'[u].on = task[u].on
               /\ task[u].at = "mark" <=> task'[u].at = "mark"
    <3>1. u \in Bday!Busy' /\ task'[u].room = r /\ task'[u].at \in {"lookup", "send", "mark"}
      BY DEF Bday!Within
    <3>2. CASE u = t
      BY <3>1, <3>2, <1>1 DEF Bday!Within, Bday!Busy
    <3>3. CASE u # t
      BY <3>1, <3>3, <1>2 DEF Bday!Within
    <3> QED BY <3>2, <3>3
  <2>2. ASSUME NEW u \in Bday!Within(r), task[u].at = "mark" PROVE u \in Bday!Within(r)'
    <3>1. u \in Bday!Busy /\ u # t /\ u \in Bday!Tasks
      BY <2>2 DEF Bday!Within, Bday!Busy
    <3>2. task'[u] = task[u]
      BY <3>1, <1>1
    <3> QED BY <3>1, <3>2, <2>2 DEF Bday!Within, Bday!Busy
  <2> QED BY <2>1, <2>2
<1> QED BY <1>1, <1>3, <1>4 DEF Fewer

(* What a step leaves alone that neither sends nor marks nor forgets.       *)
Unmoved ==
    /\ UNCHANGED <<day, copies, stored, profile>>
    /\ twice \subseteq twice' /\ twice' \subseteq Rooms \X Bday!Days
    /\ here' \cup enabled' \subseteq Rooms /\ scanned' \in Bday!Answer
    /\ cached' \in Bday!Lookup \cup {None} /\ disk' \in Bday!Saved
    /\ memory' \in [Rooms -> Bday!Answer] /\ \A r \in Rooms : memory'[r] \in {None, stored[r]}

LEMMA UnmovedMoves ==
    ASSUME Bday!BirthdaysAssumption, Bday!TypeOK, Bday!OnceInv, Unmoved, NEW t \in Bday!Tasks,
           NEW j \in Bday!Job \cup {None}, task' = [task EXCEPT ![t] = j],
           j # None => /\ j.on <= day /\ (j.at # "rooms" => j.room \in Rooms)
                       /\ j.at \in {"delay", "rooms", "check"}
                          \/ (/\ j.at = "send" /\ t \in Bday!Busy /\ task[t].at = "lookup"
                              /\ j.room = task[t].room /\ j.on = task[t].on),
           t \in Bday!Busy => task[t].at # "mark"
    PROVE  Bday!TypeOK' /\ Bday!OnceInv'
<1>1. UNCHANGED day /\ twice \subseteq twice'
  BY DEF Unmoved
<1>2. /\ task' \in [Bday!Tasks -> Bday!Job \cup {None}] /\ Fewer
      /\ \A u \in Bday!Busy' : task'[u].on <= day /\ (task'[u].at # "rooms" => task'[u].room \in Rooms)
  BY <1>1, OneCheckMoves
<1>3. Bday!TypeOK'
  BY <1>2 DEF Unmoved, Bday!TypeOK
<1>4. Bday!OnceInv'
  BY <1>1, <1>2, FewerHolds DEF Unmoved
<1> QED BY <1>3, <1>4

LEMMA UnmovedRests ==
    ASSUME Bday!BirthdaysAssumption, Bday!TypeOK, Bday!OnceInv, Unmoved, task' = task
    PROVE  Bday!TypeOK' /\ Bday!OnceInv'
<1>1. Bday!TypeOK'
  BY DEF Unmoved, Bday!TypeOK
<1>2. Bday!Busy' = Bday!Busy /\ \A r \in Rooms : Bday!Within(r)' = Bday!Within(r)
  BY DEF Bday!Busy, Bday!Within
<1>3. Fewer
  BY <1>2 DEF Fewer
<1>4. \A u \in Bday!Busy' : task'[u].on <= day /\ (task'[u].at # "rooms" => task'[u].room \in Rooms)
  BY <1>2 DEF Bday!OnceInv
<1>5. Bday!OnceInv'
  BY <1>3, <1>4, FewerHolds DEF Unmoved
<1> QED BY <1>1, <1>5

(* What tasks look like when they begin, and when they go on.               *)
LEMMA NewChecks ==
    ASSUME Bday!BirthdaysAssumption, Bday!TypeOK, NEW w \in {"delay", "rooms"},
           NEW r \in Rooms \cup {None}, NEW todo \in SUBSET Rooms
    PROVE  /\ Bday!Task(w, r, todo) \in Bday!Job /\ Bday!Task(w, r, todo).on <= day
           /\ Bday!Task(w, r, todo).at = w /\ Bday!Task(w, r, todo).room = r
<1>1. day \in Bday!Days /\ day <= day
  BY DEF Bday!TypeOK, Bday!Days
<1> QED BY <1>1 DEF Bday!Task, Bday!Job, Bday!Answer

LEMMA ChecksGo ==
    ASSUME Bday!BirthdaysAssumption, Bday!TypeOK, Bday!OnceInv, NEW t \in Bday!Busy
    PROVE  /\ \A w \in {"check", "rooms", "mark"} :
                /\ [task[t] EXCEPT !.at = w] \in Bday!Job
                /\ [task[t] EXCEPT !.at = w].at = w /\ [task[t] EXCEPT !.at = w].on = task[t].on
                /\ [task[t] EXCEPT !.at = w].room = task[t].room
           /\ task[t].on <= day
  BY CheckParts DEF Bday!Job, Bday!OnceInv

LEMMA GoesOn ==
    ASSUME Bday!BirthdaysAssumption, Bday!TypeOK, Bday!OnceInv, NEW t \in Bday!Busy, Bday!Goes(t)
    PROVE  \E j \in Bday!Job \cup {None} : /\ task' = [task EXCEPT ![t] = j]
                                           /\ j # None => j.at = "rooms" /\ j.on <= day
<1>1. CASE task' = [task EXCEPT ![t] = None]
  BY <1>1
<1>2. CASE task' = [task EXCEPT ![t].at = "rooms"]
  <2>1. PICK j : j = [task[t] EXCEPT !.at = "rooms"]
    OBVIOUS
  <2>2. j \in Bday!Job /\ j.at = "rooms" /\ j.on <= day
    BY <2>1, ChecksGo
  <2>3. task' = [task EXCEPT ![t] = j]
    BY <1>2, <2>1
  <2> QED BY <2>2, <2>3
<1> QED BY <1>1, <1>2 DEF Bday!Goes, Bday!Stops, Bday!Go

LEMMA GoesHolds ==
    ASSUME Bday!BirthdaysAssumption, Bday!TypeOK, Bday!OnceInv, Unmoved, NEW t \in Bday!Busy,
           Bday!Goes(t), task[t].at # "mark"
    PROVE  Bday!TypeOK' /\ Bday!OnceInv'
<1>1. PICK j \in Bday!Job \cup {None} : /\ task' = [task EXCEPT ![t] = j]
                                        /\ j # None => j.at = "rooms" /\ j.on <= day
  BY GoesOn
<1>2. t \in Bday!Tasks
  BY DEF Bday!Busy
<1> QED BY <1>1, <1>2, UnmovedMoves

LEMMA StaysTyped ==
    ASSUME Bday!TypeOK, Bday!OnceInv
    PROVE  /\ \A r \in Rooms : memory[r] \in {None, stored[r]} /\ Bday!Announced(r) = stored[r]
           /\ twice \subseteq Rooms \X Bday!Days /\ here \cup enabled \subseteq Rooms
           /\ scanned \in Bday!Answer /\ cached \in Bday!Lookup \cup {None} /\ disk \in Bday!Saved
           /\ memory \in [Rooms -> Bday!Answer] /\ stored \in [Rooms -> Bday!Answer]
           /\ day \in Bday!Days /\ profile \in Bday!Answer
  BY DEF Bday!TypeOK, Bday!OnceInv, Bday!Announced

LEMMA CheckBeginsHold ==
    ASSUME Bday!BirthdaysAssumption, Bday!TypeOK, Bday!OnceInv, NEW t \in Checks, NEW r \in Rooms,
           Bday!Presence(t, r) \/ Bday!SwitchOn(t, r)
    PROVE  Bday!TypeOK' /\ Bday!OnceInv'
<1>1. Unmoved
  BY StaysTyped DEF Bday!Presence, Bday!SwitchOn, Bday!store, Bday!ghosts, Unmoved
<1>2. t \in Bday!Tasks
  BY DEF Bday!Tasks
<1>3. CASE task' = task
  BY <1>1, <1>3, UnmovedRests
<1>4. ASSUME NEW w \in {"delay", "rooms"}, NEW room \in Rooms \cup {None}, w = "delay" => room \in Rooms,
             NEW todo \in SUBSET Rooms, t \notin Bday!Busy,
             task' = [task EXCEPT ![t] = Bday!Task(w, room, todo)]
      PROVE  Bday!TypeOK' /\ Bday!OnceInv'
  <2>1. PICK j : j = Bday!Task(w, room, todo)
    OBVIOUS
  <2>2. j \in Bday!Job /\ j.on <= day /\ j.at = w /\ j.room = room
    BY <2>1, NewChecks
  <2>3. task' = [task EXCEPT ![t] = j]
    BY <1>4, <2>1
  <2> QED BY <1>1, <1>2, <1>4, <2>2, <2>3, UnmovedMoves
<1>5. CASE Bday!Presence(t, r)
  <2>1. task' = task \/ (t \notin Bday!Busy /\ task' = [task EXCEPT ![t] = Bday!Task("delay", r, {})])
    BY <1>5 DEF Bday!Presence, Bday!Begins
  <2> QED BY <2>1, <1>3, <1>4
<1>6. CASE Bday!SwitchOn(t, r)
  <2>1. t \notin Bday!Busy /\ task' = [task EXCEPT ![t] = Bday!Task("rooms", None, {r})]
    BY <1>6 DEF Bday!SwitchOn, Bday!Begins
  <2> QED BY <2>1, <1>4
<1> QED BY <1>5, <1>6

LEMMA ScanHolds ==
    ASSUME Bday!BirthdaysAssumption, Bday!TypeOK, Bday!OnceInv, Bday!ScanBegins \/ Bday!ScanEnds
    PROVE  Bday!TypeOK' /\ Bday!OnceInv'
<1>0. Scan \in Bday!Tasks
  BY DEF Bday!Tasks
<1>1. CASE Bday!ScanBegins
  <2>1. Unmoved
    BY <1>1, StaysTyped DEF Bday!ScanBegins, Bday!world, Bday!store, Bday!ghosts, Unmoved
  <2>2. PICK j : j = Bday!Task("rooms", None, Rooms)
    OBVIOUS
  <2>3. j \in Bday!Job /\ j.on <= day /\ j.at = "rooms"
    BY <2>2, NewChecks
  <2>4. Scan \notin Bday!Busy /\ task' = [task EXCEPT ![Scan] = j]
    BY <1>1, <2>2 DEF Bday!ScanBegins, Bday!Busy
  <2> QED BY <1>0, <2>1, <2>3, <2>4, UnmovedMoves
<1>2. CASE Bday!ScanEnds
  <2>1. Scan \in Bday!Busy /\ task[Scan].at = "rooms"
    BY <1>0, <1>2 DEF Bday!ScanEnds, Bday!Busy
  <2>2. scanned' \in Bday!Answer
    BY <1>2, <2>1, CheckParts DEF Bday!ScanEnds, Bday!Answer
  <2>3. Unmoved
    BY <1>2, <2>2, StaysTyped DEF Bday!ScanEnds, Bday!world, Bday!store, Bday!ghosts, Unmoved
  <2>4. task' = [task EXCEPT ![Scan] = None]
    BY <1>2 DEF Bday!ScanEnds, Bday!Stops
  <2>5. None \in Bday!Job \cup {None}
    OBVIOUS
  <2> QED BY <1>0, <2>1, <2>3, <2>4, <2>5, UnmovedMoves
<1> QED BY <1>1, <1>2

LEMMA NextRoomHolds ==
    ASSUME Bday!BirthdaysAssumption, Bday!TypeOK, Bday!OnceInv, NEW t \in Bday!Tasks, NEW r \in Rooms,
           Bday!NextRoom(t, r)
    PROVE  Bday!TypeOK' /\ Bday!OnceInv'
<1>1. t \in Bday!Busy /\ task[t].at = "rooms"
  BY DEF Bday!NextRoom
<1>2. Unmoved
  BY StaysTyped DEF Bday!NextRoom, Bday!world, Bday!store, Bday!ghosts, Unmoved
<1>3. task[t] \in Bday!Job /\ task[t].on <= day /\ task[t].todo \subseteq Rooms
  BY <1>1, CheckParts, ChecksGo
<1>4. PICK rest \in SUBSET Rooms : rest = task[t].todo \ {r}
  BY <1>3
<1>5. \E j \in Bday!Job \cup {None} :
        /\ task' = [task EXCEPT ![t] = j]
        /\ j # None => /\ j.on <= day /\ j.at \in {"check", "rooms"} /\ (j.at = "check" => j.room = r)
  <2>1. CASE task' = [task EXCEPT ![t].at = "check", ![t].room = r, ![t].todo = rest]
    <3>1. PICK j : j = [task[t] EXCEPT !.at = "check", !.room = r, !.todo = rest]
      OBVIOUS
    <3>2. j \in Bday!Job /\ j.on <= day /\ j.at = "check" /\ j.room = r
      BY <3>1, <1>3 DEF Bday!Job
    <3>3. task' = [task EXCEPT ![t] = j]
      BY <2>1, <3>1
    <3> QED BY <3>2, <3>3
  <2>2. CASE task' = [task EXCEPT ![t] = None]
    BY <2>2
  <2>3. CASE task' = [task EXCEPT ![t].todo = rest]
    <3>1. PICK j : j = [task[t] EXCEPT !.todo = rest]
      OBVIOUS
    <3>2. j \in Bday!Job /\ j.on <= day /\ j.at = "rooms"
      BY <3>1, <1>1, <1>3 DEF Bday!Job
    <3>3. task' = [task EXCEPT ![t] = j]
      BY <2>3, <3>1
    <3> QED BY <3>2, <3>3
  <2> QED BY <2>1, <2>2, <2>3, <1>4 DEF Bday!NextRoom, Bday!Stops
<1>6. PICK j \in Bday!Job \cup {None} :
        /\ task' = [task EXCEPT ![t] = j]
        /\ j # None => /\ j.on <= day /\ j.at \in {"check", "rooms"} /\ (j.at = "check" => j.room = r)
  BY <1>5
<1> QED BY <1>1, <1>2, <1>6, UnmovedMoves

LEMMA StableHolds ==
    ASSUME Bday!BirthdaysAssumption, Bday!TypeOK, Bday!OnceInv, NEW t \in Bday!Tasks, Bday!Stable(t)
    PROVE  Bday!TypeOK' /\ Bday!OnceInv'
<1>1. t \in Bday!Busy /\ task[t].at = "delay"
  BY DEF Bday!Stable
<1>2. Unmoved
  BY StaysTyped DEF Bday!Stable, Bday!world, Bday!store, Bday!ghosts, Unmoved
<1>3. task[t].room \in Rooms
  BY <1>1 DEF Bday!OnceInv
<1>4. CASE task' = [task EXCEPT ![t].at = "check"]
  <2>1. PICK j : j = [task[t] EXCEPT !.at = "check"]
    OBVIOUS
  <2>2. j \in Bday!Job /\ j.at = "check" /\ j.on <= day /\ j.room \in Rooms
    BY <2>1, <1>1, <1>3, ChecksGo
  <2>3. task' = [task EXCEPT ![t] = j]
    BY <1>4, <2>1
  <2> QED BY <1>1, <1>2, <2>2, <2>3, UnmovedMoves
<1>5. CASE task' = [task EXCEPT ![t] = None]
  BY <1>1, <1>2, <1>5, None \in Bday!Job \cup {None}, UnmovedMoves
<1> QED BY <1>4, <1>5 DEF Bday!Stable, Bday!Go, Bday!Stops

LEMMA AnswersHold ==
    ASSUME Bday!BirthdaysAssumption, Bday!TypeOK, Bday!OnceInv, NEW t \in Bday!Tasks,
           Bday!Answered(t) \/ Bday!NoAnswer(t)
    PROVE  Bday!TypeOK' /\ Bday!OnceInv'
<1>1. t \in Bday!Busy /\ task[t].at = "lookup"
  BY DEF Bday!Answered, Bday!NoAnswer
<1>2. cached' \in Bday!Lookup \cup {None}
  BY StaysTyped DEF Bday!Answered, Bday!NoAnswer, Bday!store, Bday!Lookup
<1>3. Unmoved
  BY <1>2, StaysTyped DEF Bday!Answered, Bday!NoAnswer, Bday!world, Bday!store, Bday!ghosts, Unmoved
<1>4. \/ Bday!Goes(t)
      \/ task' = [task EXCEPT ![t].at = "send", ![t].on = task[t].on]
  BY DEF Bday!Answered, Bday!NoAnswer, Bday!Decided
<1>5. CASE Bday!Goes(t)
  BY <1>1, <1>3, <1>5, GoesHolds
<1>6. CASE task' = [task EXCEPT ![t].at = "send", ![t].on = task[t].on]
  <2>1. PICK j : j = [task[t] EXCEPT !.at = "send", !.on = task[t].on]
    OBVIOUS
  <2>2. task[t] \in Bday!Job /\ task[t].on <= day /\ task[t].room \in Rooms
    BY <1>1, CheckParts DEF Bday!OnceInv
  <2>3. j \in Bday!Job /\ j.at = "send" /\ j.on = task[t].on /\ j.room = task[t].room
    BY <2>1, <2>2 DEF Bday!Job
  <2>4. task' = [task EXCEPT ![t] = j]
    BY <1>6, <2>1
  <2> QED BY <1>1, <1>3, <2>2, <2>3, <2>4, UnmovedMoves
<1> QED BY <1>4, <1>5, <1>6

LEMMA NotSentHolds ==
    ASSUME Bday!BirthdaysAssumption, Bday!TypeOK, Bday!OnceInv, NEW t \in Bday!Tasks, Bday!NotSent(t)
    PROVE  Bday!TypeOK' /\ Bday!OnceInv'
<1>1. t \in Bday!Busy /\ task[t].at = "send" /\ Bday!Goes(t)
  BY DEF Bday!NotSent
<1>2. Unmoved
  BY StaysTyped DEF Bday!NotSent, Bday!world, Bday!store, Bday!ghosts, Unmoved
<1> QED BY <1>1, <1>2, GoesHolds

(* A check finds its room not served and goes on.                           *)
LEMMA EntersHolds ==
    ASSUME Bday!BirthdaysAssumption, Bday!TypeOK, Bday!OnceInv, Unmoved,
           NEW t \in Bday!Busy, task[t].at = "check", stored[task[t].room] # day,
           NEW j \in Bday!Job, task' = [task EXCEPT ![t] = j],
           j.at \in {"lookup", "send"}, j.on = day, j.room = task[t].room,
           Bday!Within(task[t].room) # {} => <<task[t].room, day>> \in twice'
    PROVE  Bday!TypeOK' /\ Bday!OnceInv'
<1>1. PICK room \in Rooms : room = task[t].room
  BY DEF Bday!OnceInv
<1>2. t \in Bday!Tasks /\ day \in Nat /\ j # None
  BY DEF Bday!Busy, Bday!TypeOK, Bday!Days, Bday!BirthdaysAssumption
<1>3. /\ task' \in [Bday!Tasks -> Bday!Job \cup {None}] /\ task'[t] = j
      /\ \A u \in Bday!Tasks \ {t} : task'[u] = task[u]
  BY <1>2 DEF Bday!TypeOK
<1>4. Bday!TypeOK'
  BY <1>3 DEF Unmoved, Bday!TypeOK
<1>5. Bday!Busy' = Bday!Busy
  BY <1>2, <1>3 DEF Bday!Busy
<1>6. \A u \in Bday!Busy' : task'[u].on <= day /\ (task'[u].at # "rooms" => task'[u].room \in Rooms)
  <2> TAKE u \in Bday!Busy'
  <2>1. CASE u = t
    BY <2>1, <1>1, <1>2, <1>3
  <2>2. CASE u # t
    <3>1. u \in Bday!Busy /\ task'[u] = task[u]
      BY <2>2, <1>3, <1>5 DEF Bday!Busy
    <3> QED BY <3>1 DEF Bday!OnceInv
  <2> QED BY <2>1, <2>2
<1>7. ASSUME NEW r \in Rooms, r # room
      PROVE  Bday!Within(r)' = Bday!Within(r) /\ \A u \in Bday!Within(r) : task'[u] = task[u]
  <2>1. t \notin Bday!Within(r)' /\ t \notin Bday!Within(r)
    BY <1>1, <1>3, <1>7 DEF Bday!Within
  <2> QED BY <2>1, <1>3, <1>5 DEF Bday!Within, Bday!Busy
<1>8. Bday!Within(room)' = Bday!Within(room) \cup {t}
  <2>1. t \in Bday!Within(room)'
    BY <1>1, <1>3, <1>5 DEF Bday!Within
  <2>2. \A u \in Bday!Busy \ {t} : u \in Bday!Within(room)' <=> u \in Bday!Within(room)
    BY <1>3, <1>5 DEF Bday!Within, Bday!Busy
  <2> QED BY <2>1, <2>2, <1>5 DEF Bday!Within
<1>9. UNCHANGED <<day, copies, stored>> /\ twice \subseteq twice'
  BY DEF Unmoved
<1>10. ASSUME NEW r \in Rooms, <<r, day>> \notin twice'
       PROVE  /\ \A v, u \in Bday!Within(r)' : task'[v].on = day => u = v
              /\ \A v \in Bday!Within(r)' : task'[v].on = day /\ task'[v].at # "mark" => copies[r][day] = 0
              /\ copies[r][day] > 0 =>
                    \/ stored[r] = day /\ Bday!Within(r)' = {}
                    \/ \E v \in Bday!Within(r)' : task'[v].at = "mark" /\ task'[v].on = day
  <2>1. /\ \A v, u \in Bday!Within(r) : task[v].on = day => u = v
        /\ \A v \in Bday!Within(r) : task[v].on = day /\ task[v].at # "mark" => copies[r][day] = 0
        /\ copies[r][day] > 0 =>
              \/ stored[r] = day /\ Bday!Within(r) = {}
              \/ \E v \in Bday!Within(r) : task[v].at = "mark" /\ task[v].on = day
    BY <1>9, <1>10 DEF Bday!OnceInv
  <2>2. CASE r # room
    BY <2>1, <2>2, <1>7
  <2>3. CASE r = room
    <3>1. Bday!Within(room) = {} /\ Bday!Within(room)' = {t}
      BY <2>3, <1>1, <1>8, <1>10
    <3>2. copies[room] \in [Bday!Days -> Nat] /\ day \in Bday!Days
      BY DEF Bday!TypeOK
    <3>3. copies[room][day] = 0
      BY <2>1, <2>3, <3>1, <3>2, <1>1
    <3> QED BY <2>3, <3>1, <3>3
  <2> QED BY <2>2, <2>3
<1>11. \A r \in Rooms : memory'[r] \in {None, stored'[r]}
  BY <1>9 DEF Unmoved
<1>12. \A r \in Rooms, d \in Bday!Days : d > day => copies[r][d] = 0
  BY DEF Bday!OnceInv
<1>13. Bday!OnceInv'
  BY <1>6, <1>9, <1>10, <1>11, <1>12 DEF Bday!OnceInv, Bday!Days
<1> QED BY <1>4, <1>13

LEMMA CheckHolds ==
    ASSUME Bday!BirthdaysAssumption, Bday!TypeOK, Bday!OnceInv, NEW t \in Bday!Tasks,
           NEW fresh \in BOOLEAN, Bday!Check(t, fresh)
    PROVE  Bday!TypeOK' /\ Bday!OnceInv'
<1>1. t \in Bday!Busy /\ task[t].at = "check" /\ task[t] \in Bday!Job
  BY CheckParts DEF Bday!Check
<1>2. PICK r \in Rooms : r = task[t].room
  BY <1>1 DEF Bday!OnceInv
<1>3. /\ memory' = [memory EXCEPT ![r] = stored[r]]
      /\ \/ Bday!Goes(t)
         \/ /\ stored[r] # day
            /\ \/ task' = [task EXCEPT ![t].at = "send", ![t].on = day]
               \/ \E old \in Bday!Answer :
                     task' = [task EXCEPT ![t].at = "lookup", ![t].on = day, ![t].old = old]
      /\ twice' = IF Bday!Within(r) # {} THEN twice \cup ({r} \X (Bday!Days \cap {day, day + 1}))
                  ELSE twice
      /\ UNCHANGED <<day, here, enabled, profile, cached, stored, disk, scanned, copies>>
  <2>1. Bday!Announced(r) = stored[r]
    BY StaysTyped
  <2>2. None \in Bday!Answer /\ (cached # None => cached.value \in Bday!Answer)
    BY StaysTyped DEF Bday!Answer, Bday!Lookup
  <2>3. (IF cached = None THEN None ELSE cached.value) \in Bday!Answer
    BY <2>2
  <2>4. PICK old \in Bday!Answer : old = IF cached = None THEN None ELSE cached.value
    BY <2>3
  <2>5. /\ memory' = [memory EXCEPT ![r] = stored[r]]
        /\ IF stored[r] = day THEN Bday!Goes(t)
           ELSE IF fresh THEN Bday!Decided(t, cached.value, day)
           ELSE task' = [task EXCEPT ![t].at = "lookup", ![t].on = day, ![t].old = old]
        /\ twice' = IF Bday!Within(r) # {} THEN twice \cup ({r} \X (Bday!Days \cap {day, day + 1}))
                    ELSE twice
        /\ UNCHANGED <<day, here, enabled, profile, cached, stored, disk, scanned, copies>>
    BY <1>2, <2>1, <2>4 DEF Bday!Check, Bday!world
  <2> QED BY <2>5 DEF Bday!Decided
<1>4. /\ twice \subseteq twice' /\ twice' \subseteq Rooms \X Bday!Days
      /\ Bday!Within(r) # {} => <<r, day>> \in twice'
  BY <1>3, StaysTyped
<1>5. memory' \in [Rooms -> Bday!Answer] /\ \A q \in Rooms : memory'[q] \in {None, stored[q]}
  BY <1>3, StaysTyped
<1>6. Unmoved
  BY <1>3, <1>4, <1>5, StaysTyped DEF Unmoved
<1>7. CASE Bday!Goes(t)
  BY <1>1, <1>6, <1>7, GoesHolds
<1>8. day \in Bday!Days
  BY StaysTyped
<1>9. CASE stored[r] # day /\ task' = [task EXCEPT ![t].at = "send", ![t].on = day]
  <2>1. PICK j : j = [task[t] EXCEPT !.at = "send", !.on = day]
    OBVIOUS
  <2>2. j \in Bday!Job /\ j.at = "send" /\ j.on = day /\ j.room = task[t].room
    BY <1>1, <1>8, <2>1 DEF Bday!Job
  <2>3. task' = [task EXCEPT ![t] = j]
    BY <1>9, <2>1
  <2> QED BY <1>1, <1>2, <1>4, <1>6, <1>9, <2>2, <2>3, EntersHolds
<1>10. ASSUME stored[r] # day, NEW old \in Bday!Answer,
              task' = [task EXCEPT ![t].at = "lookup", ![t].on = day, ![t].old = old]
       PROVE  Bday!TypeOK' /\ Bday!OnceInv'
  <2>1. PICK j : j = [task[t] EXCEPT !.at = "lookup", !.on = day, !.old = old]
    OBVIOUS
  <2>2. j \in Bday!Job /\ j.at = "lookup" /\ j.on = day /\ j.room = task[t].room
    BY <1>1, <1>8, <2>1 DEF Bday!Job
  <2>3. task' = [task EXCEPT ![t] = j]
    BY <1>10, <2>1
  <2> QED BY <1>1, <1>2, <1>4, <1>6, <1>10, <2>2, <2>3, EntersHolds
<1> QED BY <1>3, <1>7, <1>9, <1>10

(* The congratulation is sent; the room has not been marked yet.            *)
LEMMA SentHolds ==
    ASSUME Bday!BirthdaysAssumption, Bday!TypeOK, Bday!OnceInv, NEW t \in Bday!Tasks, Bday!Sent(t)
    PROVE  Bday!TypeOK' /\ Bday!OnceInv' /\ (Bday!OncePerDay => Bday!OncePerDay')
<1>1. /\ t \in Bday!Busy /\ task[t].at = "send" /\ task[t] \in Bday!Job
      /\ day \in Bday!Days /\ Bday!Days \subseteq Nat /\ copies \in [Rooms -> [Bday!Days -> Nat]]
  BY CheckParts DEF Bday!Sent, Bday!TypeOK, Bday!Days
<1>2. PICK r \in Rooms : r = task[t].room
  BY <1>1 DEF Bday!OnceInv
<1>3. PICK j : j = [task[t] EXCEPT !.at = "mark"]
  OBVIOUS
<1>4. j \in Bday!Job /\ j.at = "mark" /\ j.on = task[t].on /\ j.room = r
  BY <1>1, <1>2, <1>3, ChecksGo
<1>5. /\ task' = [task EXCEPT ![t] = j]
      /\ copies' = [copies EXCEPT ![r][day] = @ + 1]
      /\ twice' = IF task[t].on # day THEN twice \cup {<<r, day>>} ELSE twice
      /\ UNCHANGED <<day, here, enabled, profile, cached, memory, stored, disk, scanned>>
  BY <1>2, <1>3 DEF Bday!Sent, Bday!Go, Bday!world, Bday!store
<1>6. /\ task' \in [Bday!Tasks -> Bday!Job \cup {None}] /\ task'[t] = j /\ j # None
      /\ \A u \in Bday!Tasks \ {t} : task'[u] = task[u]
  BY <1>4, <1>5 DEF Bday!TypeOK, Bday!BirthdaysAssumption
<1>7. /\ copies' \in [Rooms -> [Bday!Days -> Nat]] /\ copies'[r][day] = copies[r][day] + 1
      /\ \A q \in Rooms, d \in Bday!Days : q # r \/ d # day => copies'[q][d] = copies[q][d]
  BY <1>1, <1>5
<1>8. twice \subseteq twice' /\ twice' \subseteq Rooms \X Bday!Days
      /\ (task[t].on # day => <<r, day>> \in twice')
  BY <1>1, <1>5, StaysTyped
<1>9. Bday!TypeOK'
  BY <1>5, <1>6, <1>7, <1>8 DEF Bday!TypeOK
<1>10. Bday!Busy' = Bday!Busy
  BY <1>1, <1>6 DEF Bday!Busy
<1>11. /\ \A u \in Bday!Busy \ {t} : task'[u] = task[u]
       /\ task'[t].at = "mark" /\ task'[t].on = task[t].on /\ task'[t].room = r
  BY <1>4, <1>6 DEF Bday!Busy
<1>12. \A q \in Rooms : Bday!Within(q)' = Bday!Within(q)
  <2> TAKE q \in Rooms
  <2>1. ASSUME NEW u \in Bday!Busy PROVE u \in Bday!Within(q)' <=> u \in Bday!Within(q)
    <3>1. CASE u = t
      BY <1>1, <1>2, <1>10, <1>11, <3>1 DEF Bday!Within
    <3>2. CASE u # t
      BY <1>10, <1>11, <3>2 DEF Bday!Within
    <3> QED BY <3>1, <3>2
  <2> QED BY <2>1, <1>10 DEF Bday!Within
<1>13. t \in Bday!Within(r)
  BY <1>1, <1>2 DEF Bday!Within
<1>14. <<r, day>> \in twice' \/ copies[r][day] = 0
  BY <1>1, <1>8, <1>13 DEF Bday!OnceInv
<1>15. ASSUME NEW q \in Rooms, <<q, day>> \notin twice'
       PROVE  /\ \A v, u \in Bday!Within(q)' : task'[v].on = day => u = v
              /\ \A v \in Bday!Within(q)' : task'[v].on = day /\ task'[v].at # "mark" => copies'[q][day] = 0
              /\ copies'[q][day] > 0 =>
                    \/ stored[q] = day /\ Bday!Within(q)' = {}
                    \/ \E v \in Bday!Within(q)' : task'[v].at = "mark" /\ task'[v].on = day
  <2>1. /\ \A v, u \in Bday!Within(q) : task[v].on = day => u = v
        /\ \A v \in Bday!Within(q) : task[v].on = day /\ task[v].at # "mark" => copies[q][day] = 0
        /\ copies[q][day] > 0 =>
              \/ stored[q] = day /\ Bday!Within(q) = {}
              \/ \E v \in Bday!Within(q) : task[v].at = "mark" /\ task[v].on = day
    BY <1>8, <1>15 DEF Bday!OnceInv
  <2>2. Bday!Within(q) \subseteq Bday!Busy
    BY DEF Bday!Within
  <2>3. CASE q # r
    <3>1. t \notin Bday!Within(q)
      BY <1>2, <2>3 DEF Bday!Within
    <3>2. copies'[q][day] = copies[q][day]
      BY <1>1, <1>7, <2>3
    <3>3. \A u \in Bday!Within(q)' : u \in Bday!Within(q) /\ task'[u] = task[u]
      BY <1>11, <1>12, <2>2, <3>1
    <3> QED BY <1>12, <2>1, <3>2, <3>3
  <2>4. CASE q = r
    <3>1. task[t].on = day
      BY <1>8, <1>15, <2>4
    <3>2. \A u \in Bday!Within(q) : u = t
      BY <1>13, <2>1, <2>4, <3>1
    <3>3. t \in Bday!Within(q)' /\ task'[t].at = "mark" /\ task'[t].on = day
      BY <1>11, <1>12, <1>13, <2>4, <3>1
    <3> QED BY <1>12, <3>2, <3>3
  <2> QED BY <2>3, <2>4
<1>16. \A u \in Bday!Busy' : task'[u].on <= day /\ (task'[u].at # "rooms" => task'[u].room \in Rooms)
  <2> TAKE u \in Bday!Busy'
  <2>1. u \in Bday!Busy /\ task[u].on <= day
    BY <1>10 DEF Bday!OnceInv
  <2>2. CASE u = t
    BY <1>11, <2>1, <2>2
  <2>3. CASE u # t
    BY <1>11, <2>1, <2>3 DEF Bday!OnceInv
  <2> QED BY <2>2, <2>3
<1>17. \A q \in Rooms, d \in Bday!Days : d > day => copies'[q][d] = 0
  <2> TAKE q \in Rooms, d \in Bday!Days
  <2>1. HAVE d > day
  <2>2. d # day
    BY <1>1, <2>1
  <2> QED BY <1>7, <2>1, <2>2 DEF Bday!OnceInv
<1>18. Bday!OnceInv'
  BY <1>5, <1>15, <1>16, <1>17, StaysTyped DEF Bday!OnceInv, Bday!Days
<1>19. ASSUME Bday!OncePerDay PROVE Bday!OncePerDay'
  <2>1. ASSUME NEW q \in Rooms, NEW d \in Bday!Days, copies'[q][d] > 1 PROVE <<q, d>> \in twice'
    <3>1. CASE q = r /\ d = day
      BY <1>1, <1>7, <1>14, <2>1, <3>1
    <3>2. CASE q # r \/ d # day
      BY <1>7, <1>8, <1>19, <2>1, <3>2 DEF Bday!OncePerDay
    <3> QED BY <3>1, <3>2
  <2> QED BY <2>1 DEF Bday!OncePerDay, Bday!Days
<1> QED BY <1>9, <1>18, <1>19

(* The room is marked with the day the check began on.                      *)
LEMMA MarkHolds ==
    ASSUME Bday!BirthdaysAssumption, Bday!TypeOK, Bday!OnceInv, NEW t \in Bday!Tasks, Bday!Mark(t)
    PROVE  Bday!TypeOK' /\ Bday!OnceInv'
<1>1. /\ t \in Bday!Busy /\ task[t].at = "mark" /\ task[t].on \in Bday!Days /\ task[t].on <= day
      /\ day \in Nat
  <2>1. t \in Bday!Busy /\ task[t].at = "mark"
    BY DEF Bday!Mark
  <2>2. task[t].on \in Bday!Days /\ task[t].on <= day
    BY <2>1, CheckParts, ChecksGo
  <2> QED BY <2>1, <2>2 DEF Bday!TypeOK, Bday!Days
<1>2. PICK r \in Rooms : r = task[t].room
  BY <1>1 DEF Bday!OnceInv
<1>3. PICK on \in Bday!Days : on = task[t].on
  BY <1>1
<1>4. /\ Bday!Goes(t) /\ stored' = [stored EXCEPT ![r] = on] /\ memory' = [memory EXCEPT ![r] = on]
      /\ UNCHANGED <<day, here, enabled, profile, cached, disk, scanned, copies, twice>>
  BY <1>2, <1>3 DEF Bday!Mark, Bday!world, Bday!ghosts
<1>5. PICK j \in Bday!Job \cup {None} : /\ task' = [task EXCEPT ![t] = j]
                                        /\ j # None => j.at = "rooms" /\ j.on <= day
  BY <1>1, <1>4, GoesOn
<1>6. /\ task' \in [Bday!Tasks -> Bday!Job \cup {None}] /\ task'[t] = j
      /\ \A u \in Bday!Tasks \ {t} : task'[u] = task[u]
  BY <1>5 DEF Bday!TypeOK
<1>7. stored' \in [Rooms -> Bday!Answer] /\ memory' \in [Rooms -> Bday!Answer]
  BY <1>4, StaysTyped DEF Bday!Answer
<1>8. Bday!TypeOK'
  BY <1>4, <1>6, <1>7 DEF Bday!TypeOK
<1>9. \A u \in Bday!Busy' \ {t} : u \in Bday!Busy /\ task'[u] = task[u]
  BY <1>6 DEF Bday!Busy
<1>10. \A u \in Bday!Busy' : task'[u].on <= day /\ (task'[u].at # "rooms" => task'[u].room \in Rooms)
  BY <1>5, <1>6, <1>9 DEF Bday!OnceInv, Bday!Busy
<1>11. ASSUME NEW q \in Rooms
       PROVE  /\ Bday!Within(q)' = Bday!Within(q) \ {t}
              /\ \A u \in Bday!Within(q)' : task'[u] = task[u]
  <2>1. t \notin Bday!Within(q)'
    BY <1>5, <1>6 DEF Bday!Within, Bday!Busy
  <2>2. \A u \in Bday!Tasks \ {t} : u \in Bday!Within(q)' <=> u \in Bday!Within(q)
    BY <1>6 DEF Bday!Within, Bday!Busy
  <2> QED BY <2>1, <2>2, <1>6 DEF Bday!Within, Bday!Busy
<1>12. t \in Bday!Within(r)
  BY <1>1, <1>2 DEF Bday!Within
<1>13. ASSUME NEW q \in Rooms, <<q, day>> \notin twice
       PROVE  /\ \A v, u \in Bday!Within(q)' : task'[v].on = day => u = v
              /\ \A v \in Bday!Within(q)' : task'[v].on = day /\ task'[v].at # "mark" => copies[q][day] = 0
              /\ copies[q][day] > 0 =>
                    \/ stored'[q] = day /\ Bday!Within(q)' = {}
                    \/ \E v \in Bday!Within(q)' : task'[v].at = "mark" /\ task'[v].on = day
  <2>1. /\ \A v, u \in Bday!Within(q) : task[v].on = day => u = v
        /\ \A v \in Bday!Within(q) : task[v].on = day /\ task[v].at # "mark" => copies[q][day] = 0
        /\ copies[q][day] > 0 =>
              \/ stored[q] = day /\ Bday!Within(q) = {}
              \/ \E v \in Bday!Within(q) : task[v].at = "mark" /\ task[v].on = day
    BY <1>13 DEF Bday!OnceInv
  <2>2. /\ \A v, u \in Bday!Within(q)' : task'[v].on = day => u = v
        /\ \A v \in Bday!Within(q)' : task'[v].on = day /\ task'[v].at # "mark" => copies[q][day] = 0
    BY <1>11, <2>1
  <2>3. CASE q # r
    <3>1. t \notin Bday!Within(q) /\ stored'[q] = stored[q]
      BY <1>2, <1>4, <2>3, StaysTyped DEF Bday!Within
    <3> QED BY <1>11, <2>1, <2>2, <3>1
  <2>4. CASE q = r /\ on = day
    <3>1. Bday!Within(q)' = {} /\ stored'[q] = day
      BY <1>3, <1>4, <1>11, <1>12, <2>1, <2>4, StaysTyped
    <3> QED BY <3>1
  <2>5. CASE q = r /\ on # day
    <3>1. ~ copies[q][day] > 0
      BY <1>3, <1>12, <2>1, <2>5
    <3> QED BY <2>2, <3>1
  <2> QED BY <2>3, <2>4, <2>5
<1>14. \A q \in Rooms : memory'[q] \in {None, stored'[q]}
  BY <1>4, StaysTyped
<1>15. \A q \in Rooms, d \in Bday!Days : d > day => copies[q][d] = 0
  BY DEF Bday!OnceInv
<1>16. Bday!OnceInv'
  BY <1>4, <1>10, <1>13, <1>14, <1>15 DEF Bday!OnceInv, Bday!Days
<1> QED BY <1>8, <1>16

(* Tasks end wherever they are, and the store may be set back to the last   *)
(* flush; what that can repeat today is excused.                            *)
LEMMA EndsHold ==
    ASSUME Bday!BirthdaysAssumption, Bday!TypeOK, Bday!OnceInv, NEW gone \in SUBSET Bday!Tasks,
           UNCHANGED <<day, copies, profile, enabled, disk>>,
           task' = [t \in Bday!Tasks |-> IF t \in gone THEN None ELSE task[t]],
           twice \subseteq twice', twice' \subseteq Rooms \X Bday!Days,
           Bday!Interrupted(gone) \subseteq twice', here' \subseteq Rooms,
           scanned' \in Bday!Answer, cached' \in Bday!Lookup \cup {None},
           memory' \in [Rooms -> Bday!Answer], stored' \in [Rooms -> Bday!Answer],
           \A r \in Rooms : /\ memory'[r] \in {None, stored'[r]}
                            /\ stored'[r] # stored[r] => <<r, day>> \in twice'
    PROVE  Bday!TypeOK' /\ Bday!OnceInv'
<1>1. task' \in [Bday!Tasks -> Bday!Job \cup {None}]
  BY DEF Bday!TypeOK
<1>2. Bday!TypeOK'
  BY <1>1 DEF Bday!TypeOK
<1>3. Bday!Busy' = Bday!Busy \ gone /\ \A u \in Bday!Busy' : task'[u] = task[u]
  BY DEF Bday!Busy
<1>4. \A u \in Bday!Busy' : task'[u].on <= day /\ (task'[u].at # "rooms" => task'[u].room \in Rooms)
  BY <1>3 DEF Bday!OnceInv
<1>5. \A q \in Rooms : /\ Bday!Within(q)' = Bday!Within(q) \ gone
                       /\ \A u \in Bday!Within(q)' : task'[u] = task[u]
  BY <1>3 DEF Bday!Within
<1>6. ASSUME NEW q \in Rooms, <<q, day>> \notin twice'
      PROVE  /\ \A v, u \in Bday!Within(q)' : task'[v].on = day => u = v
             /\ \A v \in Bday!Within(q)' : task'[v].on = day /\ task'[v].at # "mark" => copies[q][day] = 0
             /\ copies[q][day] > 0 =>
                   \/ stored'[q] = day /\ Bday!Within(q)' = {}
                   \/ \E v \in Bday!Within(q)' : task'[v].at = "mark" /\ task'[v].on = day
  <2>1. /\ \A v, u \in Bday!Within(q) : task[v].on = day => u = v
        /\ \A v \in Bday!Within(q) : task[v].on = day /\ task[v].at # "mark" => copies[q][day] = 0
        /\ copies[q][day] > 0 =>
              \/ stored[q] = day /\ Bday!Within(q) = {}
              \/ \E v \in Bday!Within(q) : task[v].at = "mark" /\ task[v].on = day
    BY <1>6 DEF Bday!OnceInv
  <2>2. ASSUME NEW v \in Bday!Within(q), task[v].at = "mark" PROVE v \in Bday!Within(q)'
    <3>1. SUFFICES ASSUME v \in gone PROVE FALSE
      BY <1>5
    <3>2. v \in gone \cap Bday!Busy /\ task[v].room = q
      BY <3>1 DEF Bday!Within
    <3>3. <<task[v].room, day>> \in Bday!Interrupted(gone)
      <4>1. v \in {u \in gone \cap Bday!Busy : task[u].at \in {"send", "mark"}}
        BY <2>2, <3>2
      <4> QED BY <4>1 DEF Bday!Interrupted
    <3> QED BY <1>6, <3>2, <3>3, Zenon
  <2>3. stored'[q] = stored[q]
    BY <1>6
  <2>4. \A v \in Bday!Within(q)' : v \in Bday!Within(q) /\ task'[v] = task[v]
    BY <1>5
  <2>5. ASSUME copies[q][day] > 0
        PROVE  \/ stored'[q] = day /\ Bday!Within(q)' = {}
               \/ \E v \in Bday!Within(q)' : task'[v].at = "mark" /\ task'[v].on = day
    <3>1. CASE stored[q] = day /\ Bday!Within(q) = {}
      BY <1>5, <2>3, <3>1
    <3>2. ASSUME NEW v \in Bday!Within(q), task[v].at = "mark", task[v].on = day
          PROVE  \E w \in Bday!Within(q)' : task'[w].at = "mark" /\ task'[w].on = day
      BY <2>2, <2>4, <3>2
    <3> QED BY <2>1, <2>5, <3>1, <3>2
  <2> QED BY <2>1, <2>4, <2>5
<1>7. \A q \in Rooms, d \in Bday!Days : d > day => copies[q][d] = 0
  BY DEF Bday!OnceInv
<1>8. Bday!OnceInv'
  BY <1>4, <1>6, <1>7 DEF Bday!OnceInv, Bday!Days
<1> QED BY <1>2, <1>8

LEMMA RestartsHold ==
    ASSUME Bday!BirthdaysAssumption, Bday!TypeOK, Bday!OnceInv, Bday!Ready \/ Bday!Reload \/ Bday!Crash
    PROVE  Bday!TypeOK' /\ Bday!OnceInv'
<1>1. \A gone : Bday!Interrupted(gone) \subseteq Rooms \X Bday!Days
  <2> TAKE gone
  <2>1. \A t \in Bday!Busy : task[t].at \in {"send", "mark"} => task[t].room \in Rooms
    BY DEF Bday!OnceInv
  <2> QED BY <2>1, StaysTyped DEF Bday!Interrupted
<1>2. Bday!Nowhere \in [Rooms -> Bday!Answer] /\ (\A r \in Rooms : Bday!Nowhere[r] = None)
      /\ None \in Bday!Answer
  BY DEF Bday!Nowhere, Bday!Answer
<1>3. CASE Bday!Ready
  <2>1. task' = [t \in Bday!Tasks |-> IF t \in {Scan} THEN None ELSE task[t]]
    <3>1. task' = [task EXCEPT ![Scan] = None]
      BY <1>3 DEF Bday!Ready
    <3> QED BY <3>1 DEF Bday!TypeOK
  <2>2. PICK gone \in SUBSET Bday!Tasks : gone = {Scan}
    BY DEF Bday!Tasks
  <2>3. task' = [t \in Bday!Tasks |-> IF t \in gone THEN None ELSE task[t]]
    BY <2>1, <2>2
  <2> QED BY <1>1, <1>2, <1>3, <2>2, <2>3, StaysTyped, EndsHold DEF Bday!Ready, Bday!world, Bday!store
<1>4. CASE Bday!Reload
  <2>1. task' = [t \in Bday!Tasks |-> IF t \in Bday!Tasks THEN None ELSE task[t]]
    BY <1>4 DEF Bday!Reload
  <2> QED BY <1>1, <1>2, <1>4, <2>1, StaysTyped, EndsHold DEF Bday!Reload, Bday!world
<1>5. CASE Bday!Crash
  <2>1. task' = [t \in Bday!Tasks |-> IF t \in Bday!Tasks THEN None ELSE task[t]]
    BY <1>5 DEF Bday!Crash
  <2>2. stored' \in [Rooms -> Bday!Answer] /\ cached' \in Bday!Lookup \cup {None} /\ stored' = disk.stored
    BY <1>5, StaysTyped DEF Bday!Crash, Bday!Saved
  <2>3. /\ twice \subseteq twice' /\ twice' \subseteq Rooms \X Bday!Days
        /\ Bday!Interrupted(Bday!Tasks) \subseteq twice'
        /\ \A r \in Rooms : stored'[r] # stored[r] => <<r, day>> \in twice'
    BY <1>1, <1>5, <2>2, StaysTyped DEF Bday!Crash
  <2> QED BY <1>2, <1>5, <2>1, <2>2, <2>3, StaysTyped, EndsHold DEF Bday!Crash
<1> QED BY <1>3, <1>4, <1>5

(* A room is deleted, and what was announced in it is forgotten.            *)
LEMMA ForgetHolds ==
    ASSUME Bday!BirthdaysAssumption, Bday!TypeOK, Bday!OnceInv, NEW r \in Rooms, Bday!CleanupRoomState(r)
    PROVE  Bday!TypeOK' /\ Bday!OnceInv' /\ (Bday!OncePerDay => Bday!OncePerDay')
<1>1. /\ here' = here \ {r} /\ memory' = [memory EXCEPT ![r] = None] /\ stored' = [stored EXCEPT ![r] = None]
      /\ copies' = [copies EXCEPT ![r] = [d \in Bday!Days |-> 0]]
      /\ UNCHANGED <<day, enabled, profile, cached, disk, task, scanned, twice>>
  BY DEF Bday!CleanupRoomState
<1>2. /\ memory' \in [Rooms -> Bday!Answer] /\ stored' \in [Rooms -> Bday!Answer]
      /\ \A q \in Rooms : memory'[q] \in {None, stored'[q]}
      /\ \A q \in Rooms \ {r} : stored'[q] = stored[q]
  BY <1>1, StaysTyped DEF Bday!Answer
<1>3. /\ copies' \in [Rooms -> [Bday!Days -> Nat]] /\ \A d \in Bday!Days : copies'[r][d] = 0
      /\ \A q \in Rooms \ {r} : copies'[q] = copies[q]
  BY <1>1 DEF Bday!TypeOK
<1>4. Bday!TypeOK'
  BY <1>1, <1>2, <1>3 DEF Bday!TypeOK
<1>5. Bday!Busy' = Bday!Busy /\ \A q \in Rooms : Bday!Within(q)' = Bday!Within(q)
  BY <1>1 DEF Bday!Busy, Bday!Within
<1>6. \A u \in Bday!Busy' : task'[u].on <= day /\ (task'[u].at # "rooms" => task'[u].room \in Rooms)
  BY <1>1, <1>5 DEF Bday!OnceInv
<1>7. \A q \in Rooms, d \in Bday!Days : d > day => copies'[q][d] = 0
  BY <1>3 DEF Bday!OnceInv
<1>8. ASSUME NEW q \in Rooms, <<q, day>> \notin twice
      PROVE  /\ \A v, u \in Bday!Within(q) : task[v].on = day => u = v
             /\ \A v \in Bday!Within(q) : task[v].on = day /\ task[v].at # "mark" => copies'[q][day] = 0
             /\ copies'[q][day] > 0 =>
                   \/ stored'[q] = day /\ Bday!Within(q) = {}
                   \/ \E v \in Bday!Within(q) : task[v].at = "mark" /\ task[v].on = day
  <2>1. /\ \A v, u \in Bday!Within(q) : task[v].on = day => u = v
        /\ \A v \in Bday!Within(q) : task[v].on = day /\ task[v].at # "mark" => copies[q][day] = 0
        /\ copies[q][day] > 0 =>
              \/ stored[q] = day /\ Bday!Within(q) = {}
              \/ \E v \in Bday!Within(q) : task[v].at = "mark" /\ task[v].on = day
    BY <1>8 DEF Bday!OnceInv
  <2>2. CASE q = r
    <3>1. copies'[q][day] = 0
      BY <1>3, <2>2, StaysTyped
    <3> QED BY <2>1, <3>1
  <2>3. CASE q # r
    BY <1>2, <1>3, <2>1, <2>3
  <2> QED BY <2>2, <2>3
<1>9. \A q \in Rooms : <<q, day>> \in twice' \/
        /\ \A v, u \in Bday!Within(q)' : task'[v].on = day => u = v
        /\ \A v \in Bday!Within(q)' : task'[v].on = day /\ task'[v].at # "mark" => copies'[q][day] = 0
        /\ copies'[q][day] > 0 =>
              \/ stored'[q] = day /\ Bday!Within(q)' = {}
              \/ \E v \in Bday!Within(q)' : task'[v].at = "mark" /\ task'[v].on = day
  BY <1>1, <1>5, <1>8
<1>11. Bday!OnceInv'
  <2>1. \A u \in Bday!Busy' : task'[u].on <= day' /\ (task'[u].at # "rooms" => task'[u].room \in Rooms)
    BY <1>1, <1>6
  <2>2. \A q \in Rooms, d \in Bday!Days : d > day' => copies'[q][d] = 0
    BY <1>1, <1>7
  <2>3. UNCHANGED <<day, Bday!Days>>
    BY <1>1 DEF Bday!Days
  <2> QED BY <1>2, <1>9, <2>1, <2>2, <2>3 DEF Bday!OnceInv
<1>10. ASSUME Bday!OncePerDay PROVE Bday!OncePerDay'
  <2>1. ASSUME NEW q \in Rooms, NEW d \in Bday!Days, copies'[q][d] > 1 PROVE <<q, d>> \in twice
    BY <1>3, <1>10, <2>1 DEF Bday!OncePerDay
  <2> QED BY <1>1, <2>1 DEF Bday!OncePerDay, Bday!Days
<1> QED BY <1>4, <1>10, <1>11

(* A new day, on which nothing has been sent and no check has begun.        *)
LEMMA MidnightHolds ==
    ASSUME Bday!BirthdaysAssumption, Bday!TypeOK, Bday!OnceInv, Bday!Midnight
    PROVE  Bday!TypeOK' /\ Bday!OnceInv'
<1>1. /\ day' = day + 1 /\ day' \in Bday!Days /\ day \in Bday!Days /\ day \in Nat /\ Bday!Days \subseteq Nat
      /\ UNCHANGED <<here, enabled, profile, cached, memory, stored, disk, task, scanned, copies, twice>>
  BY DEF Bday!Midnight, Bday!TypeOK, Bday!Days, Bday!BirthdaysAssumption, Bday!store, Bday!ghosts
<1>2. Bday!TypeOK'
  BY <1>1 DEF Bday!TypeOK, Bday!Days
<1>3. Bday!Busy' = Bday!Busy /\ \A q \in Rooms : Bday!Within(q)' = Bday!Within(q)
  BY <1>1 DEF Bday!Busy, Bday!Within
<1>4. \A u \in Bday!Busy : task[u].on <= day' /\ task[u].on # day'
                          /\ (task[u].at # "rooms" => task[u].room \in Rooms)
  <2> TAKE u \in Bday!Busy
  <2>1. task[u].on <= day /\ task[u].on \in Nat /\ (task[u].at # "rooms" => task[u].room \in Rooms)
    BY CheckParts DEF Bday!OnceInv
  <2> QED BY <1>1, <2>1
<1>5. \A q \in Rooms, d \in Bday!Days : d >= day' => copies[q][d] = 0
  <2> TAKE q \in Rooms, d \in Bday!Days
  <2>1. HAVE d >= day'
  <2>2. d > day
    BY <1>1, <2>1
  <2> QED BY <2>2 DEF Bday!OnceInv
<1>6. \A q \in Rooms : copies[q][day'] = 0
  <2> TAKE q \in Rooms
  <2>1. day' >= day'
    BY <1>1
  <2> QED BY <1>1, <1>5, <2>1
<1>7. \A q \in Rooms : Bday!Within(q) \subseteq Bday!Busy
  BY DEF Bday!Within
<1>8. \A q \in Rooms, d \in Bday!Days : d > day' => copies[q][d] = 0
  BY <1>1, <1>5
<1>9. \A q \in Rooms : memory[q] \in {None, stored[q]}
  BY DEF Bday!OnceInv
<1>10. \A q \in Rooms :
         /\ \A v \in Bday!Within(q)' : task'[v].on # day'
         /\ ~ copies'[q][day'] > 0
  <2> TAKE q \in Rooms
  <2>1. ~ copies'[q][day'] > 0
    <3>1. copies[q][day'] = 0 /\ copies' = copies
      BY <1>1, <1>6
    <3> QED BY <3>1
  <2>2. ASSUME NEW v \in Bday!Within(q)' PROVE task'[v].on # day'
    <3>1. v \in Bday!Busy /\ task' = task
      BY <1>1, <1>3, <1>7
    <3> QED BY <1>4, <3>1
  <2> QED BY <2>1, <2>2
<1>11. \A u \in Bday!Busy' : task'[u].on <= day' /\ (task'[u].at # "rooms" => task'[u].room \in Rooms)
  <2> TAKE u \in Bday!Busy'
  <2>1. u \in Bday!Busy /\ task' = task
    BY <1>1, <1>3
  <2> QED BY <1>4, <2>1
<1>12. /\ \A q \in Rooms, d \in Bday!Days : d > day' => copies'[q][d] = 0
       /\ \A q \in Rooms : memory'[q] \in {None, stored'[q]}
  BY <1>1, <1>8, <1>9
<1>13. Bday!OnceInv'
  BY <1>10, <1>11, <1>12 DEF Bday!OnceInv, Bday!Days
<1> QED BY <1>2, <1>13

LEMMA OthersHold ==
    ASSUME Bday!BirthdaysAssumption, Bday!TypeOK, Bday!OnceInv, NEW r \in Rooms,
           Bday!Leaves(r) \/ Bday!SwitchOff(r)
    PROVE  Bday!TypeOK' /\ Bday!OnceInv'
<1>1. disk' \in Bday!Saved /\ here' \cup enabled' \subseteq Rooms
      /\ UNCHANGED <<day, copies, stored, profile, twice, scanned, cached, memory, task>>
  BY StaysTyped DEF Bday!Leaves, Bday!SwitchOff, Bday!store, Bday!ghosts
<1>2. Unmoved
  BY <1>1, StaysTyped DEF Unmoved
<1> QED BY <1>1, <1>2, UnmovedRests

(* What was announced is not announced anew by a step that sends nothing.   *)
LEMMA OnceMoves ==
    ASSUME Bday!OncePerDay, UNCHANGED copies, twice \subseteq twice'
    PROVE  Bday!OncePerDay'
BY DEF Bday!OncePerDay, Bday!Days

LEMMA DaysBegin ==
    ASSUME Bday!BirthdaysAssumption, Bday!Init
    PROVE  Bday!TypeOK /\ Bday!OnceInv /\ Bday!OncePerDay
<1>1. day \in Bday!Days /\ day = 1
  BY DEF Bday!Init, Bday!Days, Bday!BirthdaysAssumption
<1>2. Bday!Nowhere \in [Rooms -> Bday!Answer] /\ (\A r \in Rooms : Bday!Nowhere[r] = None)
      /\ None \in Bday!Answer
  BY DEF Bday!Nowhere, Bday!Answer
<1>3. copies \in [Rooms -> [Bday!Days -> Nat]] /\ \A r \in Rooms, d \in Bday!Days : copies[r][d] = 0
  BY DEF Bday!Init
<1>4. Bday!Busy = {} /\ \A r \in Rooms : Bday!Within(r) = {}
  BY DEF Bday!Init, Bday!Busy, Bday!Within
<1>5. disk \in Bday!Saved /\ cached \in Bday!Lookup \cup {None}
  BY <1>2 DEF Bday!Init, Bday!Saved
<1>6. Bday!TypeOK
  BY <1>1, <1>2, <1>3, <1>5 DEF Bday!Init, Bday!TypeOK
<1>7. Bday!OnceInv
  BY <1>1, <1>2, <1>3, <1>4 DEF Bday!Init, Bday!OnceInv
<1>8. Bday!OncePerDay
  BY <1>3 DEF Bday!OncePerDay
<1> QED BY <1>6, <1>7, <1>8

LEMMA DaysHold ==
    ASSUME Bday!BirthdaysAssumption, Bday!TypeOK, Bday!OnceInv, Bday!OncePerDay, [Bday!Next]_Bday!vars
    PROVE  Bday!TypeOK' /\ Bday!OnceInv' /\ Bday!OncePerDay'
<1>1. CASE UNCHANGED Bday!vars
  <2>1. UNCHANGED <<day, here, enabled, profile, cached, memory, stored, disk, task, scanned, copies, twice>>
    BY <1>1 DEF Bday!vars, Bday!world, Bday!store, Bday!ghosts
  <2>2. Unmoved
    BY <2>1, StaysTyped DEF Unmoved
  <2> QED BY <2>1, <2>2, UnmovedRests, OnceMoves
<1>2. CASE Bday!Midnight
  BY <1>2, MidnightHolds, OnceMoves DEF Bday!Midnight, Bday!ghosts
<1>3. CASE Bday!ScanBegins \/ Bday!ScanEnds
  BY <1>3, ScanHolds, OnceMoves DEF Bday!ScanBegins, Bday!ScanEnds, Bday!ghosts
<1>4. CASE Bday!Ready \/ Bday!Reload \/ Bday!Crash
  <2>1. UNCHANGED copies /\ twice \subseteq twice'
    BY <1>4 DEF Bday!Ready, Bday!Reload, Bday!Crash
  <2> QED BY <1>4, <2>1, RestartsHold, OnceMoves
<1>5. CASE Bday!Flush
  <2>1. UNCHANGED <<day, here, enabled, profile, cached, memory, stored, task, scanned, copies, twice>>
        /\ disk' \in Bday!Saved
    BY <1>5, StaysTyped DEF Bday!Flush, Bday!world, Bday!ghosts, Bday!Saved
  <2>2. Unmoved
    BY <2>1, StaysTyped DEF Unmoved
  <2> QED BY <2>1, <2>2, UnmovedRests, OnceMoves
<1>6. ASSUME NEW r \in Rooms, Bday!Leaves(r) \/ Bday!SwitchOff(r)
      PROVE  Bday!TypeOK' /\ Bday!OnceInv' /\ Bday!OncePerDay'
  BY <1>6, OthersHold, OnceMoves DEF Bday!Leaves, Bday!SwitchOff, Bday!ghosts
<1>7. ASSUME NEW r \in Rooms, Bday!CleanupRoomState(r)
      PROVE  Bday!TypeOK' /\ Bday!OnceInv' /\ Bday!OncePerDay'
  BY <1>7, ForgetHolds
<1>8. ASSUME NEW t \in Checks, NEW r \in Rooms, Bday!Presence(t, r) \/ Bday!SwitchOn(t, r)
      PROVE  Bday!TypeOK' /\ Bday!OnceInv' /\ Bday!OncePerDay'
  BY <1>8, CheckBeginsHold, OnceMoves DEF Bday!Presence, Bday!SwitchOn, Bday!ghosts
<1>9. ASSUME NEW t \in Bday!Tasks
      PROVE  /\ Bday!Sent(t) => Bday!TypeOK' /\ Bday!OnceInv' /\ Bday!OncePerDay'
             /\ Bday!Stable(t) \/ Bday!NotSent(t) \/ Bday!Mark(t) \/ Bday!Answered(t) \/ Bday!NoAnswer(t)
                  => Bday!TypeOK' /\ Bday!OnceInv' /\ Bday!OncePerDay'
             /\ \A r \in Rooms : Bday!NextRoom(t, r) => Bday!TypeOK' /\ Bday!OnceInv' /\ Bday!OncePerDay'
             /\ \A fresh \in BOOLEAN : Bday!Check(t, fresh)
                  => Bday!TypeOK' /\ Bday!OnceInv' /\ Bday!OncePerDay'
  <2>1. Bday!Sent(t) => Bday!TypeOK' /\ Bday!OnceInv' /\ Bday!OncePerDay'
    BY SentHolds
  <2>2. ASSUME Bday!Stable(t) \/ Bday!NotSent(t) \/ Bday!Mark(t) \/ Bday!Answered(t) \/ Bday!NoAnswer(t)
        PROVE  Bday!TypeOK' /\ Bday!OnceInv' /\ Bday!OncePerDay'
    <3>1. UNCHANGED copies /\ twice \subseteq twice'
      BY <2>2 DEF Bday!Stable, Bday!NotSent, Bday!Mark, Bday!Answered, Bday!NoAnswer, Bday!ghosts
    <3> QED BY <2>2, <3>1, StableHolds, NotSentHolds, MarkHolds, AnswersHold, OnceMoves
  <2>3. ASSUME NEW r \in Rooms, Bday!NextRoom(t, r)
        PROVE  Bday!TypeOK' /\ Bday!OnceInv' /\ Bday!OncePerDay'
    <3>1. UNCHANGED copies /\ twice \subseteq twice'
      BY <2>3 DEF Bday!NextRoom, Bday!ghosts
    <3> QED BY <2>3, <3>1, NextRoomHolds, OnceMoves
  <2>4. ASSUME NEW fresh \in BOOLEAN, Bday!Check(t, fresh)
        PROVE  Bday!TypeOK' /\ Bday!OnceInv' /\ Bday!OncePerDay'
    <3>1. UNCHANGED copies /\ twice \subseteq twice'
      BY <2>4 DEF Bday!Check
    <3> QED BY <2>4, <3>1, CheckHolds, OnceMoves
  <2> QED BY <2>1, <2>2, <2>3, <2>4
<1> QED BY <1>1, <1>2, <1>3, <1>4, <1>5, <1>6, <1>7, <1>8, <1>9 DEF Bday!Next

(* A room congratulates a user once a day, over restarts, reloads and new   *)
(* sessions, unless two checks of the user in that room overlapped, a check *)
(* went over midnight, or one was cut off between its send and the next     *)
(* flush; for any number of rooms, tasks, days and restarts.                *)
(* (_check_user_birthday, _load_announced_date, _mark_announced)            *)
THEOREM CongratulationsAreSingle ==
    ASSUME Bday!BirthdaysAssumption
    PROVE  Bday!Spec => []Bday!OncePerDay
<1> DEFINE Inv == Bday!TypeOK /\ Bday!OnceInv /\ Bday!OncePerDay
<1>1. Bday!Init => Inv
  BY DaysBegin
<1>2. Inv /\ [Bday!Next]_Bday!vars => Inv'
  BY DaysHold
<1> QED BY <1>1, <1>2, PTL DEF Bday!Spec

-----------------------------------------------------------------------------
(* Xkcd.                                                                     *)
(* What the records of the store and of the two tasks are made of.          *)
LEMMA ComicParts ==
    ASSUME Comic!XkcdAssumption, Comic!TypeOK
    PROVE  /\ MaxComics \in Nat /\ Comic!Comics \subseteq Nat /\ Comic!Comics = 1 .. MaxComics
           /\ latest \in Comic!Comics /\ last \in 0 .. MaxComics
           /\ saved \in Comic!Store /\ disk \in Comic!Store
           /\ saved.last \in 0 .. MaxComics /\ disk.last \in 0 .. MaxComics
           /\ saved.index \in (SUBSET Comic!Comics) \cup {None}
           /\ check \in Comic!Checking /\ check.next \in 1 .. MaxComics + 1 /\ check.upto \in 0 .. MaxComics
           /\ check.todo \subseteq Rooms
           /\ build \in Comic!Building /\ build.own \subseteq Comic!Comics
           /\ build.next \in 1 .. MaxComics + 1 /\ build.upto \in 0 .. MaxComics
           /\ copies \in [Rooms -> [Comic!Comics -> Nat]] /\ since \in [Rooms -> Comic!Comics]
           /\ lost \subseteq Rooms \X Comic!Comics /\ cut \cup buried \subseteq Comic!Comics
           /\ enabled \cup joined \subseteq Rooms
  BY DEF Comic!TypeOK, Comic!XkcdAssumption, Comic!Comics, Comic!Store, Comic!Checking, Comic!Building

LEMMA ComicNumbers ==
    ASSUME Comic!XkcdAssumption, Comic!TypeOK, Comic!PositionInv
    PROVE  /\ MaxComics \in Nat /\ latest \in Nat /\ 1 <= latest /\ latest <= MaxComics
           /\ saved.last \in Nat /\ saved.last <= latest
           /\ build.next \in Nat /\ 1 <= build.next /\ build.upto \in Nat /\ build.upto <= latest
           /\ check.next \in Nat /\ check.upto \in Nat
           /\ \A c : c \in Comic!Comics <=> c \in Nat /\ 1 <= c /\ c <= MaxComics
BY ComicParts DEF Comic!PositionInv

(* The comic at hand is the one after the saved id.                         *)
LEMMA ComicAtHand ==
    ASSUME Comic!XkcdAssumption, Comic!TypeOK, Comic!PositionInv, check.at \in {"next", "sending"}
    PROVE  /\ check.next = saved.last + 1 /\ check.next \in Comic!Comics
           /\ check.next <= check.upto /\ check.upto <= latest
BY ComicParts DEF Comic!PositionInv

(* A step that sends nothing keeps what was sent.                           *)
LEMMA SentStays ==
    ASSUME Comic!XkcdAssumption, Comic!TypeOK, Comic!SentInv,
           UNCHANGED <<copies, since, enabled, joined>>, lost \subseteq lost', cut \subseteq cut',
           saved'.last = saved.last,
           check'.at = "sending" <=> check.at = "sending",
           check.at = "sending" => check'.next = check.next /\ check'.todo = check.todo
    PROVE  Comic!SentInv'
<1> SUFFICES ASSUME NEW r \in Rooms
             PROVE  /\ r \notin enabled \cap joined => since[r] = MaxComics
                    /\ \A c \in Comic!Comics \ Missing :
                          c > since[r] /\ c <= saved'.last => copies[r][c] > 0 \/ <<r, c>> \in lost'
                    /\ check'.at = "sending" /\ r \notin check'.todo /\ check'.next > since[r]
                          => copies[r][check'.next] > 0 \/ <<r, check'.next>> \in lost'
                    /\ \A c \in Comic!Comics \ cut' :
                          /\ copies[r][c] <= 1
                          /\ copies[r][c] > 0 /\ c > saved'.last
                                => check'.at = "sending" /\ c = check'.next /\ r \notin check'.todo
  BY DEF Comic!SentInv, Comic!Comics
<1> QED BY DEF Comic!SentInv

(* The saved id goes on to the next comic, which was sent or is accounted   *)
(* for.                                                                     *)
LEMMA SentAdvances ==
    ASSUME Comic!XkcdAssumption, Comic!TypeOK, Comic!PositionInv, Comic!SentInv,
           UNCHANGED <<copies, since, enabled, joined, cut>>, lost \subseteq lost',
           check.at \in {"next", "sending"}, saved'.last = check.next, check'.at # "sending",
           \/ check.next \in Missing \/ Rooms \X {check.next} \subseteq lost'
           \/ check.at = "sending" /\ check.todo = {}
    PROVE  Comic!SentInv'
<1>1. check.next = saved.last + 1 /\ check.next \in Comic!Comics /\ Comic!Comics \subseteq Nat
      /\ saved.last \in Nat
  BY ComicAtHand, ComicParts
<1>2. PICK n \in Comic!Comics : n = check.next
  BY <1>1
<1> SUFFICES ASSUME NEW r \in Rooms
             PROVE  /\ r \notin enabled \cap joined => since[r] = MaxComics
                    /\ \A c \in Comic!Comics \ Missing :
                          c > since[r] /\ c <= n => copies[r][c] > 0 \/ <<r, c>> \in lost'
                    /\ \A c \in Comic!Comics \ cut : copies[r][c] <= 1 /\ (copies[r][c] > 0 => ~ c > n)
  BY <1>2 DEF Comic!SentInv, Comic!Comics
<1>3. ASSUME NEW c \in Comic!Comics \ Missing, c > since[r], c <= n
      PROVE  copies[r][c] > 0 \/ <<r, c>> \in lost'
  <2>1. CASE c <= saved.last
    BY <1>3, <2>1 DEF Comic!SentInv
  <2>2. CASE c = n
    BY <1>2, <1>3, <2>2 DEF Comic!SentInv
  <2> QED BY <1>1, <1>2, <1>3, <2>1, <2>2
<1>4. ASSUME NEW c \in Comic!Comics \ cut
      PROVE  copies[r][c] <= 1 /\ (copies[r][c] > 0 => ~ c > n)
  <2>1. copies[r][c] <= 1 /\ (copies[r][c] > 0 /\ c > saved.last => c = n)
    BY <1>2, <1>4 DEF Comic!SentInv
  <2> QED BY <1>1, <1>2, <2>1
<1> QED BY <1>3, <1>4 DEF Comic!SentInv

(* What was found stays found, but for what is buried.                      *)
LEMMA FoundStays ==
    ASSUME Comic!XkcdAssumption, Comic!TypeOK, Comic!IndexInv,
           UNCHANGED copies, cut \subseteq cut', buried \subseteq buried', disk' \in {disk, saved},
           disk' = saved => UNCHANGED saved \/ disk' = disk,
           \A c \in Comic!Comics : Comic!FoundIn(saved, c) => Comic!FoundIn(saved', c) \/ c \in buried',
           check'.at = "sending" => check.at = "sending" /\ check'.next = check.next,
           check.at = "sending" => check.next \in Comic!Comics
    PROVE  Comic!IndexInv'
<1>1. ASSUME check'.at = "sending", check'.next \notin buried' PROVE Comic!FoundIn(saved', check'.next)
  BY <1>1 DEF Comic!IndexInv
<1>2. ASSUME NEW r \in Rooms, NEW c \in Comic!Comics \ (cut' \cup buried'), copies[r][c] > 0
      PROVE  Comic!FoundIn(saved', c) /\ (c <= disk'.last => Comic!FoundIn(disk', c))
  <2>1. Comic!FoundIn(saved, c) /\ (c <= disk.last => Comic!FoundIn(disk, c))
    BY <1>2 DEF Comic!IndexInv
  <2> QED BY <1>2, <2>1
<1>3. check'.at = "sending" /\ check'.next \notin buried'
         => saved'.index # None /\ check'.next \in saved'.index
  BY <1>1 DEF Comic!FoundIn
<1>4. \A r \in Rooms : \A c \in Comic!Comics \ (cut' \cup buried') : copies'[r][c] > 0 =>
        /\ saved'.index # None /\ c \in saved'.index
        /\ c <= disk'.last => disk'.index # None /\ c \in disk'.index
  BY <1>2 DEF Comic!FoundIn
<1> QED BY <1>3, <1>4 DEF Comic!IndexInv, Comic!FoundIn, Comic!Comics

LEMMA PublishHolds ==
    ASSUME Comic!XkcdAssumption, Comic!TypeOK, Comic!XkcdInv,
           Comic!Publish \/ Comic!Flush \/ UNCHANGED Comic!vars
    PROVE  Comic!TypeOK' /\ Comic!XkcdInv'
<1>1. /\ UNCHANGED <<enabled, joined, last, saved, check, build, copies, since, lost, cut, buried>>
      /\ latest' \in {latest, latest + 1} /\ latest' \in Comic!Comics /\ disk' \in {disk, saved}
  BY ComicParts DEF Comic!Publish, Comic!Flush, Comic!vars, Comic!site, Comic!ghosts
<1>2. Comic!TypeOK'
  BY <1>1 DEF Comic!TypeOK, Comic!Comics, Comic!Store, Comic!Checking, Comic!Building
<1>3. Comic!PositionInv'
  BY <1>1, ComicParts DEF Comic!XkcdInv, Comic!PositionInv
<1>4. Comic!SentInv'
  BY <1>1, SentStays DEF Comic!XkcdInv
<1>5. check.at = "sending" => check.next \in Comic!Comics
  BY ComicAtHand DEF Comic!XkcdInv
<1>6. Comic!IndexInv'
  BY <1>1, <1>5, FoundStays DEF Comic!XkcdInv
<1> QED BY <1>2, <1>3, <1>4, <1>6 DEF Comic!XkcdInv

(* A room that becomes a subscriber counts from the latest comic.           *)
LEMMA MovesHold ==
    ASSUME Comic!XkcdAssumption, Comic!TypeOK, Comic!XkcdInv, NEW r \in Rooms, Comic!Moves(r)
    PROVE  Comic!TypeOK' /\ Comic!XkcdInv'
<1>1. PICK at \in Comic!Comics : at = IF r \in enabled' \cap joined' THEN latest ELSE MaxComics
  BY ComicParts DEF Comic!XkcdAssumption
<1>2. /\ UNCHANGED <<latest, last, saved, disk, check, build, copies, lost, cut, buried>>
      /\ since' = [since EXCEPT ![r] = at] /\ enabled' \cup joined' \subseteq Rooms
      /\ \A q \in Rooms \ {r} : q \in enabled' \cap joined' <=> q \in enabled \cap joined
  BY <1>1, ComicParts DEF Comic!Moves, Comic!Toggle
<1>3. since' \in [Rooms -> Comic!Comics] /\ since'[r] = at /\ \A q \in Rooms \ {r} : since'[q] = since[q]
  BY <1>2, ComicParts
<1>4. Comic!TypeOK'
  BY <1>2, <1>3 DEF Comic!TypeOK, Comic!Comics, Comic!Store, Comic!Checking, Comic!Building
<1>5. Comic!PositionInv'
  BY <1>2 DEF Comic!XkcdInv, Comic!PositionInv
<1>6. ASSUME NEW q \in Rooms
      PROVE  /\ q \notin enabled' \cap joined' => since'[q] = MaxComics
             /\ \A c \in Comic!Comics \ Missing :
                   c > since'[q] /\ c <= saved.last => copies[q][c] > 0 \/ <<q, c>> \in lost
             /\ check.at = "sending" /\ q \notin check.todo /\ check.next > since'[q]
                   => copies[q][check.next] > 0 \/ <<q, check.next>> \in lost
             /\ \A c \in Comic!Comics \ cut :
                   /\ copies[q][c] <= 1
                   /\ copies[q][c] > 0 /\ c > saved.last
                         => check.at = "sending" /\ c = check.next /\ q \notin check.todo
  <2>1. CASE q = r
    <3>1. at = latest \/ at = MaxComics
      BY <1>1
    <3>2. saved.last <= at /\ (check.at = "sending" => check.next <= at)
      <4>1. saved.last <= latest /\ latest <= MaxComics /\ saved.last \in Nat /\ latest \in Nat /\ MaxComics \in Nat
        BY ComicNumbers DEF Comic!XkcdInv
      <4>2. ASSUME check.at = "sending" PROVE check.next <= latest /\ check.next \in Nat
        <5>1. check.next <= check.upto /\ check.upto <= latest /\ check.next \in Comic!Comics
          BY <4>2, ComicAtHand DEF Comic!XkcdInv
        <5>2. check.next \in Nat /\ check.upto \in Nat
          BY ComicNumbers DEF Comic!XkcdInv
        <5> QED BY <4>1, <5>1, <5>2
      <4> QED BY <3>1, <4>1, <4>2
    <3>3. at \in Nat /\ saved.last \in Nat /\ check.next \in Nat /\ Comic!Comics \subseteq Nat
      BY ComicParts, ComicNumbers DEF Comic!XkcdInv
    <3>4. \A c \in Comic!Comics : ~ (c > at /\ c <= saved.last)
      BY <3>2, <3>3
    <3>5. check.at = "sending" => ~ check.next > at
      BY <3>2, <3>3
    <3> QED BY <1>1, <1>3, <2>1, <3>4, <3>5 DEF Comic!XkcdInv, Comic!SentInv
  <2>2. CASE q # r
    BY <1>2, <1>3, <2>2 DEF Comic!XkcdInv, Comic!SentInv
  <2> QED BY <2>1, <2>2
<1>7. Comic!SentInv'
  BY <1>2, <1>6 DEF Comic!SentInv, Comic!Comics
<1>8. check.at = "sending" => check.next \in Comic!Comics
  BY ComicAtHand DEF Comic!XkcdInv
<1>9. Comic!IndexInv'
  BY <1>2, <1>8, FoundStays DEF Comic!XkcdInv
<1> QED BY <1>4, <1>5, <1>7, <1>9 DEF Comic!XkcdInv

(* The index task writes the index, and leaves the id and the check alone.  *)
LEMMA IndexHolds ==
    ASSUME Comic!XkcdAssumption, Comic!TypeOK, Comic!XkcdInv,
           UNCHANGED <<latest, enabled, joined, last, disk, check, copies, since, lost, cut>>,
           NEW b \in Comic!Building, build' = b, b.upto <= latest,
           NEW found \in (SUBSET Comic!Comics) \cup {None}, saved' = [saved EXCEPT !.index = found],
           b.at = "building" /\ b.live => found # None,
           buried \subseteq buried', buried' \subseteq Comic!Comics,
           \A c \in Comic!Comics : Comic!FoundIn(saved, c) => (found # None /\ c \in found) \/ c \in buried'
    PROVE  Comic!TypeOK' /\ Comic!XkcdInv'
<1>1. saved' \in Comic!Store /\ saved'.index = found /\ saved'.last = saved.last
  BY ComicParts DEF Comic!Store
<1>2. Comic!TypeOK'
  BY <1>1 DEF Comic!TypeOK, Comic!Comics, Comic!Store, Comic!Checking, Comic!Building
<1>3. Comic!PositionInv'
  BY <1>1 DEF Comic!XkcdInv, Comic!PositionInv
<1>4. Comic!SentInv'
  BY <1>1, SentStays DEF Comic!XkcdInv
<1>5. check.at = "sending" => check.next \in Comic!Comics
  BY ComicAtHand DEF Comic!XkcdInv
<1>6. \A c \in Comic!Comics : Comic!FoundIn(saved, c) => Comic!FoundIn(saved', c) \/ c \in buried'
  BY <1>1 DEF Comic!FoundIn
<1>7. Comic!IndexInv'
  BY <1>5, <1>6, FoundStays DEF Comic!XkcdInv
<1> QED BY <1>2, <1>3, <1>4, <1>7 DEF Comic!XkcdInv

(* What the index task knows.                                               *)
LEMMA KnownIsIndex ==
    ASSUME Comic!XkcdAssumption, Comic!TypeOK, Comic!PositionInv, build.at = "building"
    PROVE  /\ Comic!Known \in SUBSET Comic!Comics /\ Comic!Known # None
           /\ build.live => saved.index # None /\ Comic!Known = saved.index
<1>1. build.live => saved.index # None
  BY DEF Comic!PositionInv
<1>2. Comic!Known \in SUBSET Comic!Comics /\ (build.live => Comic!Known = saved.index)
  BY <1>1, ComicParts DEF Comic!Known
<1>3. Comic!Known # None
  BY <1>2 DEF Comic!XkcdAssumption
<1> QED BY <1>1, <1>2, <1>3

LEMMA BuildHolds ==
    ASSUME Comic!XkcdAssumption, Comic!TypeOK, Comic!XkcdInv,
           Comic!BuildBegins \/ Comic!BuildPersists \/ Comic!BuildEnds \/ (\E ok \in BOOLEAN : Comic!BuildNext(ok))
    PROVE  Comic!TypeOK' /\ Comic!XkcdInv'
<1>0. Comic!PositionInv /\ Comic!Waiting \in Comic!Building /\ Comic!Waiting.upto = 0 /\ Comic!Waiting.at = "waiting"
      /\ latest \in 0 .. MaxComics /\ latest >= 0
  BY ComicParts DEF Comic!XkcdInv, Comic!Waiting, Comic!Building
<1>1. PICK done : done = [Comic!Waiting EXCEPT !.at = "done"]
  OBVIOUS
<1>2. done \in Comic!Building /\ done.at = "done" /\ done.upto <= latest
  BY <1>0, <1>1 DEF Comic!Waiting, Comic!Building
<1>3. CASE Comic!BuildBegins
  <2>0. PICK live \in BOOLEAN : live = (saved.index # None)
    OBVIOUS
  <2>1. PICK b : b = [at |-> "building", own |-> {}, live |-> live, next |-> 1, upto |-> latest]
    OBVIOUS
  <2>2. b \in Comic!Building /\ b.upto <= latest /\ (b.live => saved.index # None)
    <3>1. latest \in 0 .. MaxComics /\ 1 \in 1 .. MaxComics + 1 /\ latest <= latest
      BY <1>0, ComicNumbers
    <3>2. b \in Comic!Building /\ b.upto = latest /\ b.live = live
      BY <2>1, <3>1 DEF Comic!Building
    <3> QED BY <2>0, <3>1, <3>2
  <2>3. /\ build' \in {done, b} /\ UNCHANGED <<saved, buried>>
        /\ UNCHANGED <<latest, enabled, joined, last, disk, check, copies, since, lost, cut>>
    BY <1>1, <1>3, <2>0, <2>1 DEF Comic!BuildBegins, Comic!Builds, Comic!site
  <2>4. saved' = [saved EXCEPT !.index = saved.index] /\ saved.index \in (SUBSET Comic!Comics) \cup {None}
    BY <2>3, ComicParts DEF Comic!Store
  <2>5. buried \subseteq buried' /\ buried' \subseteq Comic!Comics
    BY <2>3, ComicParts
  <2>6. \A c \in Comic!Comics :
          Comic!FoundIn(saved, c) => (saved.index # None /\ c \in saved.index) \/ c \in buried'
    BY DEF Comic!FoundIn
  <2>7. CASE build' = done
    BY <1>2, <2>3, <2>4, <2>5, <2>6, <2>7, IndexHolds
  <2>8. CASE build' = b
    BY <2>2, <2>3, <2>4, <2>5, <2>6, <2>8, IndexHolds
  <2> QED BY <2>3, <2>7, <2>8
<1>4. ASSUME build.at = "building", NEW b \in Comic!Building, build' = b, b.upto <= latest, Comic!Persist,
             UNCHANGED <<latest, enabled, joined, last, disk, check, copies, since, lost, cut>>
      PROVE  Comic!TypeOK' /\ Comic!XkcdInv'
  <2>1. PICK known \in SUBSET Comic!Comics : known = Comic!Known /\ known # None
    BY <1>0, <1>4, KnownIsIndex
  <2>2. /\ saved' = [saved EXCEPT !.index = known]
        /\ buried' = buried \cup ((IF saved.index = None THEN {} ELSE saved.index) \ known)
    BY <1>4, <2>1 DEF Comic!Persist
  <2>3. /\ buried \subseteq buried' /\ buried' \subseteq Comic!Comics
        /\ \A c \in Comic!Comics : Comic!FoundIn(saved, c) => (known # None /\ c \in known) \/ c \in buried'
    <3>1. buried \subseteq Comic!Comics /\ (saved.index # None => saved.index \subseteq Comic!Comics)
      BY ComicParts
    <3> QED BY <2>1, <2>2, <3>1 DEF Comic!FoundIn
  <2> QED BY <1>4, <2>1, <2>2, <2>3, IndexHolds
<1>5. CASE Comic!BuildPersists
  <2>1. PICK b : b = [build EXCEPT !.live = TRUE, !.own = {}]
    OBVIOUS
  <2>2. b \in Comic!Building /\ b.upto <= latest
    BY <1>0, <2>1, ComicParts DEF Comic!Building, Comic!PositionInv
  <2> QED BY <1>4, <1>5, <2>1, <2>2 DEF Comic!BuildPersists, Comic!Builds, Comic!site
<1>6. CASE Comic!BuildEnds
  BY <1>1, <1>2, <1>4, <1>6 DEF Comic!BuildEnds, Comic!Builds, Comic!site
<1>7. ASSUME NEW ok \in BOOLEAN, Comic!BuildNext(ok) PROVE Comic!TypeOK' /\ Comic!XkcdInv'
  <2>1. build.at = "building" /\ build.next \in Comic!Comics /\ build.next <= build.upto /\ build.upto <= latest
    <3>1. build.at = "building" /\ build.next <= build.upto
      BY <1>7 DEF Comic!BuildNext
    <3> QED BY <1>0, <3>1, ComicNumbers
  <2>2. PICK known \in SUBSET Comic!Comics :
          known = IF ok /\ build.next \notin Missing THEN Comic!Known \cup {build.next} ELSE Comic!Known
    BY <1>0, <2>1, KnownIsIndex
  <2>3. known # None /\ (build.live => saved.index # None /\ saved.index \subseteq known)
    BY <1>0, <2>1, <2>2, KnownIsIndex DEF Comic!XkcdAssumption
  <2>4. PICK b : b = [build EXCEPT !.next = build.next + 1, !.own = IF build.live THEN build.own ELSE known]
    OBVIOUS
  <2>5. b \in Comic!Building /\ b.upto = build.upto /\ b.live = build.live
    <3>1. build.next + 1 \in 1 .. MaxComics + 1
      BY <1>0, <2>1, ComicNumbers
    <3>2. (IF build.live THEN build.own ELSE known) \in SUBSET Comic!Comics
      BY ComicParts
    <3>3. build \in Comic!Building
      BY ComicParts
    <3> QED BY <2>4, <3>1, <3>2, <3>3 DEF Comic!Building
  <2>6. PICK found \in (SUBSET Comic!Comics) \cup {None} : found = IF build.live THEN known ELSE saved.index
    BY <2>2, ComicParts
  <2>7. /\ build' = b /\ UNCHANGED buried
        /\ saved' = IF build.live THEN [saved EXCEPT !.index = known] ELSE saved
        /\ UNCHANGED <<latest, enabled, joined, last, disk, check, copies, since, lost, cut>>
    BY <1>7, <2>2, <2>4 DEF Comic!BuildNext, Comic!Builds, Comic!site
  <2>8. saved' = [saved EXCEPT !.index = found]
    BY <2>6, <2>7, ComicParts DEF Comic!Store
  <2>9. \A c \in Comic!Comics : Comic!FoundIn(saved, c) => (found # None /\ c \in found) \/ c \in buried'
    BY <2>3, <2>6 DEF Comic!FoundIn
  <2>10. (b.at = "building" /\ b.live => found # None) /\ b.upto <= latest
    BY <2>1, <2>3, <2>5, <2>6
  <2>11. buried \subseteq buried' /\ buried' \subseteq Comic!Comics
    BY <2>7, ComicParts
  <2> QED BY <2>5, <2>7, <2>8, <2>9, <2>10, <2>11, IndexHolds
<1> QED BY <1>3, <1>5, <1>6, <1>7

(* The check comes to its next comic, which is the latest at most.          *)
LEMMA CatchUpParts ==
    ASSUME Comic!XkcdAssumption, Comic!TypeOK, Comic!PositionInv
    PROVE  /\ Comic!Sleeps \in Comic!Checking /\ Comic!Sleeps.at = "asleep"
           /\ Comic!CatchUp(saved.last) \in Comic!Checking
           /\ Comic!CatchUp(saved.last).at \in {"asleep", "next"}
           /\ Comic!CatchUp(saved.last).at = "next" =>
                 /\ Comic!CatchUp(saved.last).next = saved.last + 1
                 /\ Comic!CatchUp(saved.last).next <= Comic!CatchUp(saved.last).upto
                 /\ Comic!CatchUp(saved.last).upto = latest
<1>1. Comic!Sleeps \in Comic!Checking /\ Comic!Sleeps.at = "asleep"
  BY ComicParts DEF Comic!Sleeps, Comic!Checking
<1>2. CASE latest > saved.last
  <2>1. PICK n : n = [at |-> "next", next |-> saved.last + 1, upto |-> latest, todo |-> {}]
    OBVIOUS
  <2>2. saved.last + 1 \in 1 .. MaxComics + 1 /\ latest \in 0 .. MaxComics /\ saved.last + 1 <= latest
    BY <1>2, ComicNumbers
  <2>3. /\ n \in Comic!Checking /\ n.at = "next" /\ n.next = saved.last + 1 /\ n.upto = latest
        /\ Comic!CatchUp(saved.last) = n
    BY <1>2, <2>1, <2>2 DEF Comic!Checking, Comic!CatchUp
  <2> QED BY <1>1, <2>2, <2>3
<1>3. CASE ~ latest > saved.last
  BY <1>1, <1>3 DEF Comic!CatchUp
<1> QED BY <1>2, <1>3

(* The task is at rest, or comes to the comic after the saved id.           *)
LEMMA CatchesUp ==
    ASSUME Comic!XkcdAssumption, Comic!TypeOK, Comic!XkcdInv,
           UNCHANGED <<latest, enabled, joined, disk, build, copies, since, lost, cut, saved, buried>>,
           last' = saved.last, check.at \in {"starting", "asleep"}, check' = Comic!CatchUp(saved.last)
    PROVE  Comic!TypeOK' /\ Comic!XkcdInv'
<1>0. Comic!PositionInv
  BY DEF Comic!XkcdInv
<1>1. /\ check' \in Comic!Checking /\ check'.at \in {"asleep", "next"}
      /\ check'.at = "next" =>
           check'.next = saved.last + 1 /\ check'.next <= check'.upto /\ check'.upto = latest
  BY <1>0, CatchUpParts
<1>2. Comic!TypeOK'
  BY <1>1, ComicParts DEF Comic!TypeOK, Comic!Comics, Comic!Store, Comic!Checking, Comic!Building
<1>3. Comic!PositionInv'
  BY <1>0, <1>1, ComicNumbers DEF Comic!PositionInv
<1>4. Comic!SentInv'
  BY <1>1, SentStays DEF Comic!XkcdInv
<1>5. Comic!IndexInv'
  BY <1>1, FoundStays DEF Comic!XkcdInv
<1> QED BY <1>2, <1>3, <1>4, <1>5 DEF Comic!XkcdInv

(* The first comic ever seen is only remembered.                            *)
LEMMA FirstAnswerHolds ==
    ASSUME Comic!XkcdAssumption, Comic!TypeOK, Comic!XkcdInv, Comic!FirstAnswer
    PROVE  Comic!TypeOK' /\ Comic!XkcdInv'
<1>0. Comic!PositionInv /\ check.at = "starting"
  BY DEF Comic!XkcdInv, Comic!FirstAnswer
<1>1. CASE saved.last # 0
  BY <1>0, <1>1, CatchesUp DEF Comic!FirstAnswer, Comic!Checks, Comic!site
<1>2. CASE saved.last = 0
  <2>1. /\ UNCHANGED <<latest, enabled, joined, disk, build, copies, since, cut, buried>>
        /\ last' = latest /\ saved' = [saved EXCEPT !.last = latest]
        /\ lost' = lost \cup (Rooms \X (1 .. latest)) /\ check' = Comic!Sleeps
    BY <1>2 DEF Comic!FirstAnswer, Comic!Checks, Comic!site
  <2>2. check' \in Comic!Checking /\ check'.at = "asleep"
    BY <1>0, <2>1, CatchUpParts
  <2>3. saved' \in Comic!Store /\ saved'.last = latest /\ saved'.index = saved.index /\ latest \in 0 .. MaxComics
    <3>1. latest \in 0 .. MaxComics
      BY <1>0, ComicNumbers
    <3>2. saved \in Comic!Store
      BY ComicParts
    <3> QED BY <2>1, <3>1, <3>2 DEF Comic!Store
  <2>4. lost' \subseteq Rooms \X Comic!Comics /\ lost \subseteq lost'
    <3>1. 1 .. latest \subseteq Comic!Comics
      BY <1>0, ComicNumbers
    <3> QED BY <2>1, <3>1, ComicParts
  <2>5. Comic!TypeOK'
    BY <2>1, <2>2, <2>3, <2>4, ComicParts DEF Comic!TypeOK, Comic!Comics, Comic!Store, Comic!Checking, Comic!Building
  <2>6. Comic!PositionInv'
    <3>1. disk.last <= saved.last /\ saved.last <= latest /\ disk.last \in Nat /\ saved.last \in Nat /\ latest \in Nat
      BY <1>0, ComicNumbers, ComicParts DEF Comic!PositionInv
    <3>2. disk.last <= latest /\ latest <= latest
      BY <3>1
    <3> QED BY <1>0, <2>1, <2>2, <2>3, <3>2 DEF Comic!PositionInv
  <2>7. ASSUME NEW r \in Rooms
        PROVE  /\ r \notin enabled \cap joined => since[r] = MaxComics
               /\ \A c \in Comic!Comics : c <= latest => <<r, c>> \in lost'
               /\ \A c \in Comic!Comics \ cut : copies[r][c] <= 1 /\ ~ (copies[r][c] > 0)
    <3>1. \A c \in Comic!Comics : c <= latest => c \in 1 .. latest
      BY <1>0, ComicNumbers
    <3>2. \A c \in Comic!Comics \ cut : copies[r][c] <= 1 /\ ~ (copies[r][c] > 0)
      <4> TAKE c \in Comic!Comics \ cut
      <4>1. copies[r][c] <= 1 /\ (copies[r][c] > 0 /\ c > saved.last => check.at = "sending")
        BY DEF Comic!XkcdInv, Comic!SentInv
      <4>2. c > saved.last
        BY <1>0, <1>2, ComicNumbers
      <4> QED BY <1>0, <4>1, <4>2
    <3> QED BY <2>1, <3>1, <3>2 DEF Comic!XkcdInv, Comic!SentInv
  <2>8. Comic!SentInv'
    BY <2>1, <2>2, <2>3, <2>7 DEF Comic!SentInv, Comic!Comics
  <2>9. \A c \in Comic!Comics : Comic!FoundIn(saved, c) => Comic!FoundIn(saved', c) \/ c \in buried'
    BY <2>3 DEF Comic!FoundIn
  <2>10. Comic!IndexInv'
    BY <1>0, <2>1, <2>2, <2>9, FoundStays DEF Comic!XkcdInv
  <2> QED BY <2>5, <2>6, <2>8, <2>10 DEF Comic!XkcdInv
<1> QED BY <1>1, <1>2

LEMMA PollHolds ==
    ASSUME Comic!XkcdAssumption, Comic!TypeOK, Comic!XkcdInv, Comic!Poll
    PROVE  Comic!TypeOK' /\ Comic!XkcdInv'
<1>1. last = saved.last /\ check.at = "asleep"
  BY DEF Comic!Poll, Comic!XkcdInv, Comic!PositionInv
<1> QED BY <1>1, CatchesUp DEF Comic!Poll, Comic!Checks, Comic!site

(* The id follows a comic that was broadcast, or is passed over.            *)
LEMMA SavedHolds ==
    ASSUME Comic!XkcdAssumption, Comic!TypeOK, Comic!XkcdInv,
           Comic!Gap \/ Comic!NotFetched \/ Comic!BroadcastDone
    PROVE  Comic!TypeOK' /\ Comic!XkcdInv'
<1>0. Comic!PositionInv /\ check.at \in {"next", "sending"}
  BY DEF Comic!XkcdInv, Comic!Gap, Comic!NotFetched, Comic!BroadcastDone
<1>1. PICK n \in Comic!Comics : n = check.next
  BY <1>0, ComicAtHand
<1>2. /\ n = saved.last + 1 /\ n \in Nat /\ n \in 0 .. MaxComics /\ n <= check.upto /\ check.upto <= latest
      /\ check.upto \in Nat /\ latest \in Nat
  BY <1>0, <1>1, ComicAtHand, ComicNumbers
<1>3. PICK m : m = [check EXCEPT !.at = "next", !.next = n + 1]
  OBVIOUS
<1>4. m \in Comic!Checking /\ m.at = "next" /\ m.next = n + 1 /\ m.upto = check.upto
  <2>1. n + 1 \in 1 .. MaxComics + 1
    BY <1>0, <1>2, ComicNumbers
  <2> QED BY <1>3, <2>1, ComicParts DEF Comic!Checking
<1>5. /\ UNCHANGED <<latest, enabled, joined, disk, build, copies, since, cut, buried>>
      /\ last' = n /\ saved' = [saved EXCEPT !.last = n]
      /\ check' = IF n = check.upto THEN Comic!Sleeps ELSE m
  BY <1>1, <1>3 DEF Comic!Gap, Comic!NotFetched, Comic!BroadcastDone, Comic!Saved, Comic!Checks, Comic!site
<1>6. /\ lost \subseteq lost' /\ lost' \subseteq Rooms \X Comic!Comics
      /\ \/ check.next \in Missing \/ Rooms \X {check.next} \subseteq lost'
         \/ check.at = "sending" /\ check.todo = {}
  <2>1. CASE Comic!Gap
    BY <2>1, ComicParts DEF Comic!Gap
  <2>2. CASE Comic!NotFetched
    BY <1>1, <2>2, ComicParts DEF Comic!NotFetched
  <2>3. CASE Comic!BroadcastDone
    BY <2>3, ComicParts DEF Comic!BroadcastDone, Comic!Ready
  <2> QED BY <2>1, <2>2, <2>3
<1>7. /\ check' \in Comic!Checking /\ check'.at \in {"asleep", "next"}
      /\ check'.at = "next" => check'.next = n + 1 /\ check'.upto = check.upto /\ n # check.upto
  BY <1>0, <1>4, <1>5, CatchUpParts
<1>8. saved' \in Comic!Store /\ saved'.last = n /\ saved'.index = saved.index
  BY <1>2, <1>5, ComicParts DEF Comic!Store
<1>9. Comic!TypeOK'
  BY <1>2, <1>5, <1>6, <1>7, <1>8, ComicParts DEF Comic!TypeOK, Comic!Comics, Comic!Store, Comic!Checking, Comic!Building
<1>10. Comic!PositionInv'
  <2>1. disk.last <= n /\ n <= latest
    BY <1>0, <1>2, ComicParts, ComicNumbers DEF Comic!PositionInv
  <2>2. check'.at = "next" => check'.next <= check'.upto
    BY <1>2, <1>7
  <2> QED BY <1>0, <1>2, <1>5, <1>7, <1>8, <2>1, <2>2 DEF Comic!PositionInv
<1>11. Comic!SentInv'
  BY <1>0, <1>1, <1>5, <1>6, <1>7, <1>8, SentAdvances DEF Comic!XkcdInv
<1>12. \A c \in Comic!Comics : Comic!FoundIn(saved, c) => Comic!FoundIn(saved', c) \/ c \in buried'
  BY <1>8 DEF Comic!FoundIn
<1>13. Comic!IndexInv'
  BY <1>1, <1>5, <1>7, <1>12, FoundStays DEF Comic!XkcdInv
<1> QED BY <1>9, <1>10, <1>11, <1>13 DEF Comic!XkcdInv

(* A comic that was fetched is in the index before it is sent.              *)
LEMMA FetchedHolds ==
    ASSUME Comic!XkcdAssumption, Comic!TypeOK, Comic!XkcdInv, Comic!Fetched
    PROVE  Comic!TypeOK' /\ Comic!XkcdInv'
<1>0. Comic!PositionInv /\ check.at = "next"
  BY DEF Comic!XkcdInv, Comic!Fetched
<1>1. PICK n \in Comic!Comics : n = check.next
  BY <1>0, ComicAtHand
<1>2. /\ n = saved.last + 1 /\ n <= check.upto /\ check.upto <= latest /\ latest <= MaxComics
      /\ n \in Nat /\ check.upto \in Nat /\ latest \in Nat /\ saved.last \in Nat /\ MaxComics \in Nat
  BY <1>0, <1>1, ComicAtHand, ComicNumbers
<1>3. PICK found \in SUBSET Comic!Comics : found = Comic!Indexed(n)
  BY ComicParts DEF Comic!Indexed
<1>4. /\ n \in found /\ found # None
      /\ \A c \in Comic!Comics : Comic!FoundIn(saved, c) => c \in found
  BY <1>3 DEF Comic!Indexed, Comic!FoundIn, Comic!XkcdAssumption
<1>5. PICK m : m = [check EXCEPT !.at = "sending", !.todo = enabled]
  OBVIOUS
<1>6. m \in Comic!Checking /\ m.at = "sending" /\ m.next = n /\ m.upto = check.upto /\ m.todo = enabled
  BY <1>1, <1>5, ComicParts DEF Comic!Checking
<1>7. /\ UNCHANGED <<latest, enabled, joined, last, disk, build, copies, since, lost, cut, buried>>
      /\ check' = m /\ saved' = [saved EXCEPT !.index = found]
  BY <1>1, <1>3, <1>5 DEF Comic!Fetched, Comic!Checks, Comic!site
<1>8. saved' \in Comic!Store /\ saved'.last = saved.last /\ saved'.index = found
  BY <1>7, ComicParts DEF Comic!Store
<1>9. Comic!TypeOK'
  BY <1>6, <1>7, <1>8, ComicParts DEF Comic!TypeOK, Comic!Comics, Comic!Store, Comic!Checking, Comic!Building
<1>10. Comic!PositionInv'
  BY <1>0, <1>1, <1>2, <1>4, <1>6, <1>7, <1>8 DEF Comic!PositionInv
<1>11. ASSUME NEW r \in Rooms
       PROVE  /\ r \notin enabled \cap joined => since[r] = MaxComics
              /\ \A c \in Comic!Comics \ Missing :
                    c > since[r] /\ c <= saved.last => copies[r][c] > 0 \/ <<r, c>> \in lost
              /\ r \notin enabled => ~ n > since[r]
              /\ \A c \in Comic!Comics \ cut : copies[r][c] <= 1 /\ ~ (copies[r][c] > 0 /\ c > saved.last)
  <2>1. ASSUME r \notin enabled PROVE ~ n > since[r]
    <3>1. since[r] = MaxComics
      BY <2>1 DEF Comic!XkcdInv, Comic!SentInv
    <3> QED BY <1>2, <3>1
  <2> QED BY <1>0, <2>1 DEF Comic!XkcdInv, Comic!SentInv
<1>12. Comic!SentInv'
  BY <1>6, <1>7, <1>8, <1>11 DEF Comic!SentInv, Comic!Comics
<1>13. ASSUME NEW r \in Rooms, NEW c \in Comic!Comics \ (cut \cup buried), copies[r][c] > 0
       PROVE  Comic!FoundIn(saved', c) /\ (c <= disk.last => Comic!FoundIn(disk, c))
  <2>1. Comic!FoundIn(saved, c) /\ (c <= disk.last => Comic!FoundIn(disk, c))
    BY <1>13 DEF Comic!XkcdInv, Comic!IndexInv
  <2> QED BY <1>4, <1>8, <2>1 DEF Comic!FoundIn
<1>14. \A r \in Rooms : \A c \in Comic!Comics \ (cut \cup buried) : copies[r][c] > 0 =>
        /\ saved'.index # None /\ c \in saved'.index
        /\ c <= disk.last => disk.index # None /\ c \in disk.index
  BY <1>13 DEF Comic!FoundIn
<1>15. Comic!IndexInv'
  BY <1>4, <1>6, <1>7, <1>8, <1>14 DEF Comic!IndexInv, Comic!FoundIn, Comic!Comics
<1> QED BY <1>9, <1>10, <1>12, <1>15 DEF Comic!XkcdInv

(* One room of the broadcast is served, left out, or fails.                 *)
LEMMA SendHolds ==
    ASSUME Comic!XkcdAssumption, Comic!TypeOK, Comic!XkcdInv, NEW r \in Rooms,
           Comic!SendRoom(r) \/ Comic!SendFails(r)
    PROVE  Comic!TypeOK' /\ Comic!XkcdInv'
<1>0. Comic!PositionInv /\ check.at = "sending" /\ r \in check.todo
  BY DEF Comic!XkcdInv, Comic!SendRoom, Comic!SendFails
<1>1. PICK n \in Comic!Comics : n = check.next
  BY <1>0, ComicAtHand
<1>2. /\ n = saved.last + 1 /\ n \in Nat /\ saved.last \in Nat /\ n <= MaxComics /\ MaxComics \in Nat
      /\ disk.last <= saved.last
      /\ disk.last \in Nat /\ Comic!Comics \subseteq Nat
  BY <1>0, <1>1, ComicAtHand, ComicNumbers, ComicParts DEF Comic!PositionInv
<1>3. PICK m : m = [check EXCEPT !.todo = check.todo \ {r}]
  OBVIOUS
<1>4. m \in Comic!Checking /\ m.at = "sending" /\ m.next = n /\ m.upto = check.upto /\ m.todo = check.todo \ {r}
  BY <1>0, <1>1, <1>3, ComicParts DEF Comic!Checking
<1>5. /\ UNCHANGED <<latest, enabled, joined, last, saved, disk, build, since, cut, buried>> /\ check' = m
      /\ \/ r \in joined /\ copies' = [copies EXCEPT ![r][n] = @ + 1] /\ lost' = lost
         \/ r \notin joined /\ copies' = copies /\ lost' = lost
         \/ copies' = copies /\ lost' = lost \cup {<<r, n>>}
  BY <1>1, <1>3 DEF Comic!SendRoom, Comic!SendFails, Comic!Checks, Comic!site
<1>6. /\ copies' \in [Rooms -> [Comic!Comics -> Nat]] /\ lost' \subseteq Rooms \X Comic!Comics /\ lost \subseteq lost'
      /\ \A q \in Rooms, c \in Comic!Comics : q # r \/ c # n => copies'[q][c] = copies[q][c]
      /\ copies'[r][n] \in {copies[r][n], copies[r][n] + 1}
      /\ copies'[r][n] > 0 \/ <<r, n>> \in lost' \/ r \notin joined
  <2>1. copies \in [Rooms -> [Comic!Comics -> Nat]] /\ lost \subseteq Rooms \X Comic!Comics
    BY ComicParts
  <2>2. CASE copies' = [copies EXCEPT ![r][n] = @ + 1] /\ lost' = lost
    BY <2>1, <2>2
  <2>3. CASE copies' = copies /\ lost' = lost /\ r \notin joined
    BY <2>1, <2>3
  <2>4. CASE copies' = copies /\ lost' = lost \cup {<<r, n>>}
    BY <2>1, <2>4
  <2> QED BY <1>5, <2>2, <2>3, <2>4
<1>7. Comic!TypeOK'
  BY <1>4, <1>5, <1>6, ComicParts DEF Comic!TypeOK, Comic!Comics, Comic!Store, Comic!Checking, Comic!Building
<1>8. Comic!PositionInv'
  BY <1>0, <1>1, <1>4, <1>5 DEF Comic!PositionInv
<1>9. ASSUME NEW q \in Rooms
      PROVE  /\ q \notin enabled \cap joined => since[q] = MaxComics
             /\ \A c \in Comic!Comics \ Missing :
                   c > since[q] /\ c <= saved.last => copies'[q][c] > 0 \/ <<q, c>> \in lost'
             /\ q \notin m.todo /\ n > since[q] => copies'[q][n] > 0 \/ <<q, n>> \in lost'
             /\ \A c \in Comic!Comics \ cut :
                   /\ copies'[q][c] <= 1
                   /\ copies'[q][c] > 0 /\ c > saved.last => c = n /\ q \notin m.todo
  <2>1. /\ q \notin enabled \cap joined => since[q] = MaxComics
        /\ \A c \in Comic!Comics \ Missing :
              c > since[q] /\ c <= saved.last => copies[q][c] > 0 \/ <<q, c>> \in lost
        /\ q \notin check.todo /\ n > since[q] => copies[q][n] > 0 \/ <<q, n>> \in lost
        /\ \A c \in Comic!Comics \ cut :
              /\ copies[q][c] <= 1
              /\ copies[q][c] > 0 /\ c > saved.last => c = n /\ q \notin check.todo
    BY <1>0, <1>1 DEF Comic!XkcdInv, Comic!SentInv
  <2>2. ASSUME NEW c \in Comic!Comics \ Missing, c > since[q], c <= saved.last
        PROVE  copies'[q][c] > 0 \/ <<q, c>> \in lost'
    <3>1. c # n
      BY <1>2, <2>2
    <3> QED BY <1>6, <2>1, <2>2, <3>1
  <2>3. ASSUME q \notin m.todo, n > since[q] PROVE copies'[q][n] > 0 \/ <<q, n>> \in lost'
    <3>1. CASE q = r
      <4>1. r \in joined
        <5>1. since[r] # MaxComics
          BY <1>2, <2>3, <3>1
        <5> QED BY <2>1, <3>1, <5>1
      <4> QED BY <1>6, <3>1, <4>1
    <3>2. CASE q # r
      BY <1>4, <1>6, <2>1, <2>3, <3>2
    <3> QED BY <3>1, <3>2
  <2>4. ASSUME NEW c \in Comic!Comics \ cut
        PROVE  /\ copies'[q][c] <= 1
               /\ copies'[q][c] > 0 /\ c > saved.last => c = n /\ q \notin m.todo
    <3>1. CASE q = r /\ c = n
      <4>1. ~ copies[r][n] > 0 /\ copies[r][n] \in Nat
        <5>1. copies[r][n] \in Nat /\ n > saved.last
          <6>1. copies[r][n] \in Nat
            BY ComicParts
          <6> QED BY <1>2, <6>1
        <5>2. copies[r][n] > 0 /\ n > saved.last => r \notin check.todo
          BY <2>1, <2>4, <3>1
        <5> QED BY <1>0, <5>1, <5>2
      <4> QED BY <1>4, <1>6, <3>1, <4>1
    <3>2. CASE q # r \/ c # n
      BY <1>4, <1>6, <2>1, <3>2
    <3> QED BY <3>1, <3>2
  <2> QED BY <2>1, <2>2, <2>3, <2>4
<1>10. Comic!SentInv'
  BY <1>4, <1>5, <1>9 DEF Comic!SentInv, Comic!Comics
<1>11. ASSUME NEW q \in Rooms, NEW c \in Comic!Comics \ (cut \cup buried), copies'[q][c] > 0
       PROVE  Comic!FoundIn(saved, c) /\ (c <= disk.last => Comic!FoundIn(disk, c))
  <2>1. CASE q = r /\ c = n
    <3>1. ~ c <= disk.last
      BY <1>2, <2>1
    <3> QED BY <1>0, <1>1, <1>11, <2>1, <3>1 DEF Comic!XkcdInv, Comic!IndexInv
  <2>2. CASE q # r \/ c # n
    BY <1>6, <1>11, <2>2 DEF Comic!XkcdInv, Comic!IndexInv
  <2> QED BY <2>1, <2>2
<1>12. \A q \in Rooms : \A c \in Comic!Comics \ (cut \cup buried) : copies'[q][c] > 0 =>
        /\ saved.index # None /\ c \in saved.index
        /\ c <= disk.last => disk.index # None /\ c \in disk.index
  BY <1>11 DEF Comic!FoundIn
<1>13. n \notin buried => saved.index # None /\ n \in saved.index
  BY <1>0, <1>1 DEF Comic!XkcdInv, Comic!IndexInv, Comic!FoundIn
<1>14. Comic!IndexInv'
  BY <1>4, <1>5, <1>12, <1>13 DEF Comic!IndexInv, Comic!FoundIn, Comic!Comics
<1> QED BY <1>7, <1>8, <1>10, <1>14 DEF Comic!XkcdInv

(* The tasks start again; what a broadcast had begun is accounted for.      *)
LEMMA SentRestarts ==
    ASSUME Comic!XkcdAssumption, Comic!TypeOK, Comic!PositionInv, Comic!SentInv,
           UNCHANGED <<copies, since, enabled, joined, lost>>, cut \subseteq cut',
           Comic!Interrupted \subseteq cut', check'.at = "starting",
           saved'.last \in Nat, saved'.last <= saved.last,
           \A c \in Comic!Comics : c > saved'.last /\ c <= saved.last => c \in cut'
    PROVE  Comic!SentInv'
<1>1. saved.last \in Nat /\ Comic!Comics \subseteq Nat
  BY ComicNumbers, ComicParts
<1>2. ASSUME NEW r \in Rooms
      PROVE  /\ r \notin enabled \cap joined => since[r] = MaxComics
             /\ \A c \in Comic!Comics \ Missing :
                   c > since[r] /\ c <= saved'.last => copies[r][c] > 0 \/ <<r, c>> \in lost
             /\ \A c \in Comic!Comics \ cut' : copies[r][c] <= 1 /\ ~ (copies[r][c] > 0 /\ c > saved'.last)
  <2>1. ASSUME NEW c \in Comic!Comics \ Missing, c > since[r], c <= saved'.last
        PROVE  copies[r][c] > 0 \/ <<r, c>> \in lost
    <3>1. c <= saved.last
      BY <1>1, <2>1
    <3> QED BY <2>1, <3>1 DEF Comic!SentInv
  <2>2. ASSUME NEW c \in Comic!Comics \ cut'
        PROVE  copies[r][c] <= 1 /\ ~ (copies[r][c] > 0 /\ c > saved'.last)
    <3>1. copies[r][c] <= 1 /\ (copies[r][c] > 0 /\ c > saved.last => check.at = "sending" /\ c = check.next)
      BY <2>2 DEF Comic!SentInv
    <3>2. check.at = "sending" => c # check.next
      BY <2>2 DEF Comic!Interrupted
    <3>3. c > saved'.last => c > saved.last
      BY <1>1, <2>2
    <3> QED BY <3>1, <3>2, <3>3
  <2> QED BY <2>1, <2>2 DEF Comic!SentInv
<1> QED BY <1>2 DEF Comic!SentInv, Comic!Comics

LEMMA XkcdRestarts ==
    ASSUME Comic!XkcdAssumption, Comic!TypeOK, Comic!XkcdInv, Comic!Reload \/ Comic!Crash
    PROVE  Comic!TypeOK' /\ Comic!XkcdInv'
<1>0. Comic!PositionInv
  BY DEF Comic!XkcdInv
<1>1. /\ check' \in Comic!Checking /\ check'.at = "starting" /\ build' \in Comic!Building /\ build'.at = "waiting"
      /\ build'.upto <= latest
      /\ UNCHANGED <<latest, enabled, joined, disk, copies, since, lost>>
  <2>1. /\ Comic!Starting \in Comic!Checking /\ Comic!Starting.at = "starting"
        /\ Comic!Waiting \in Comic!Building /\ Comic!Waiting.at = "waiting" /\ Comic!Waiting.upto = 0
    <3>1. 0 \in 0 .. MaxComics /\ 1 \in 1 .. MaxComics + 1
      BY ComicParts
    <3> QED BY <3>1 DEF Comic!Starting, Comic!Checking, Comic!Waiting, Comic!Building
  <2> QED BY <1>0, <2>1, ComicNumbers DEF Comic!Reload, Comic!Crash, Comic!site
<1>2. Comic!Interrupted \subseteq Comic!Comics
  BY <1>0, ComicAtHand DEF Comic!Interrupted
<1>3. /\ cut \subseteq cut' /\ cut' \subseteq Comic!Comics /\ Comic!Interrupted \subseteq cut'
      /\ \A c \in Comic!Comics : c > saved'.last /\ c <= saved.last => c \in cut'
      /\ buried \subseteq buried' /\ buried' \subseteq Comic!Comics
      /\ saved' \in Comic!Store /\ saved'.last <= saved.last /\ saved'.last >= disk.last
      /\ last' \in {0, saved'.last}
      /\ \A c \in Comic!Comics : Comic!FoundIn(saved, c) => Comic!FoundIn(saved', c) \/ c \in buried' \/ saved' = disk
      /\ saved' = disk => \A c \in Comic!Comics : c > disk.last => c \in cut' \/ saved'.last = saved.last
      /\ saved' = disk \/ saved'.last = saved.last
  <2>0. saved.last \in Nat /\ disk.last \in Nat /\ disk.last <= saved.last /\ Comic!Comics \subseteq Nat
        /\ last \in {0, saved.last}
    BY <1>0, ComicNumbers, ComicParts DEF Comic!PositionInv
  <2>1. CASE Comic!Crash
    <3>1. /\ saved' = disk /\ last' = 0 /\ UNCHANGED buried
          /\ cut' = cut \cup Comic!Interrupted \cup {c \in Comic!Comics : c > disk.last}
      BY <2>1 DEF Comic!Crash
    <3>2. disk \in Comic!Store /\ cut \cup buried \subseteq Comic!Comics
      BY ComicParts
    <3>3. /\ cut \subseteq cut' /\ cut' \subseteq Comic!Comics /\ Comic!Interrupted \subseteq cut'
          /\ \A c \in Comic!Comics : c > disk.last => c \in cut'
      BY <1>2, <3>1, <3>2
    <3>4. buried \subseteq buried' /\ buried' \subseteq Comic!Comics
      BY <3>1, <3>2
    <3>5. saved' \in Comic!Store /\ saved'.last = disk.last
      BY <3>1, <3>2
    <3> QED BY <2>0, <3>1, <3>3, <3>4, <3>5
  <2>2. CASE Comic!Reload
    <3>1. PICK found \in (SUBSET Comic!Comics) \cup {None} :
            /\ saved' = [saved EXCEPT !.index = found]
            /\ \/ found = saved.index /\ buried' = buried
               \/ /\ found # None
                  /\ buried' = buried \cup ((IF saved.index = None THEN {} ELSE saved.index) \ found)
      <4>1. CASE build.at = "building"
        BY <1>0, <2>2, <4>1, KnownIsIndex DEF Comic!Reload, Comic!Persist
      <4>2. CASE build.at # "building"
        BY <2>2, <4>2, ComicParts DEF Comic!Reload, Comic!Store
      <4> QED BY <4>1, <4>2
    <3>2. saved' \in Comic!Store /\ saved'.last = saved.last /\ saved'.index = found
      BY <3>1, ComicParts DEF Comic!Store
    <3>3. /\ buried \subseteq buried' /\ buried' \subseteq Comic!Comics
          /\ \A c \in Comic!Comics : Comic!FoundIn(saved, c) => Comic!FoundIn(saved', c) \/ c \in buried'
      <4>1. buried \subseteq Comic!Comics /\ (saved.index # None => saved.index \subseteq Comic!Comics)
        BY ComicParts
      <4> QED BY <3>1, <3>2, <4>1 DEF Comic!FoundIn
    <3>4. cut' = cut \cup Comic!Interrupted /\ last' = last
      BY <2>2 DEF Comic!Reload
    <3>5. cut \subseteq Comic!Comics
      BY ComicParts
    <3> QED BY <1>2, <2>0, <3>2, <3>3, <3>4, <3>5
  <2> QED BY <2>1, <2>2
<1>4. saved'.last \in Nat /\ saved'.last \in 0 .. MaxComics /\ last' \in 0 .. MaxComics
  BY <1>3, ComicParts DEF Comic!Store
<1>5. Comic!TypeOK'
  BY <1>1, <1>3, <1>4, ComicParts DEF Comic!TypeOK, Comic!Comics, Comic!Store, Comic!Checking, Comic!Building
<1>6. Comic!PositionInv'
  <2>1. saved'.last <= latest
    BY <1>0, <1>3, <1>4, ComicNumbers
  <2>2. disk.last <= saved'.last
    BY <1>3, <1>4, ComicParts
  <2> QED BY <1>1, <1>3, <2>1, <2>2 DEF Comic!PositionInv
<1>7. Comic!SentInv'
  BY <1>0, <1>1, <1>3, <1>4, SentRestarts DEF Comic!XkcdInv
<1>8. ASSUME NEW r \in Rooms, NEW c \in Comic!Comics \ (cut' \cup buried'), copies[r][c] > 0
      PROVE  Comic!FoundIn(saved', c) /\ (c <= disk.last => Comic!FoundIn(disk, c))
  <2>1. Comic!FoundIn(saved, c) /\ (c <= disk.last => Comic!FoundIn(disk, c))
    BY <1>3, <1>8 DEF Comic!XkcdInv, Comic!IndexInv
  <2>2. ASSUME saved' = disk PROVE Comic!FoundIn(saved', c)
    <3>1. c <= disk.last
      <4>1. c \in Nat /\ disk.last \in Nat /\ ~ (c > saved'.last /\ c <= saved.last)
        BY <1>3, <1>8, ComicParts
      <4>2. ~ c > saved.last
        <5>1. ASSUME c > saved.last PROVE c \in Comic!Interrupted
          <6>1. c \in Comic!Comics \ cut /\ copies[r][c] > 0
            BY <1>3, <1>8
          <6>2. check.at = "sending" /\ c = check.next
            BY <5>1, <6>1 DEF Comic!XkcdInv, Comic!SentInv
          <6> QED BY <6>2 DEF Comic!Interrupted
        <5> QED BY <1>3, <1>8, <5>1
      <4>3. saved.last \in Nat
        BY <1>0, ComicNumbers
      <4> QED BY <2>2, <4>1, <4>2, <4>3
    <3> QED BY <2>1, <2>2, <3>1
  <2> QED BY <1>3, <1>8, <2>1, <2>2
<1>9. \A r \in Rooms : \A c \in Comic!Comics \ (cut' \cup buried') : copies[r][c] > 0 =>
        /\ saved'.index # None /\ c \in saved'.index
        /\ c <= disk.last => disk.index # None /\ c \in disk.index
  BY <1>8 DEF Comic!FoundIn
<1>10. Comic!IndexInv'
  BY <1>1, <1>9 DEF Comic!IndexInv, Comic!FoundIn, Comic!Comics
<1> QED BY <1>5, <1>6, <1>7, <1>10 DEF Comic!XkcdInv

LEMMA XkcdBegins ==
    ASSUME Comic!XkcdAssumption, Comic!Init
    PROVE  Comic!TypeOK /\ Comic!XkcdInv
<1>1. MaxComics \in Nat /\ 1 <= MaxComics /\ 1 \in Comic!Comics /\ MaxComics \in Comic!Comics
  BY DEF Comic!XkcdAssumption, Comic!Comics
<1>2. /\ Comic!Starting \in Comic!Checking /\ Comic!Starting.at = "starting"
      /\ Comic!Waiting \in Comic!Building /\ Comic!Waiting.at = "waiting" /\ Comic!Waiting.upto = 0
  <2>1. 0 \in 0 .. MaxComics /\ 1 \in 1 .. MaxComics + 1
    BY <1>1
  <2> QED BY <2>1 DEF Comic!Starting, Comic!Checking, Comic!Waiting, Comic!Building
<1>3. saved \in Comic!Store /\ saved.last = 0 /\ disk = saved /\ last = 0 /\ latest = 1
  <2>1. 0 \in 0 .. MaxComics
    BY <1>1
  <2> QED BY <2>1 DEF Comic!Init, Comic!Store
<1>4. /\ copies \in [Rooms -> [Comic!Comics -> Nat]] /\ \A r \in Rooms, c \in Comic!Comics : copies[r][c] = 0
      /\ since \in [Rooms -> Comic!Comics] /\ \A r \in Rooms : r \notin enabled => since[r] = MaxComics
      /\ joined = Rooms /\ enabled \subseteq Rooms
  BY <1>1 DEF Comic!Init
<1>5. Comic!TypeOK
  BY <1>1, <1>2, <1>3, <1>4 DEF Comic!Init, Comic!TypeOK
<1>6. Comic!PositionInv
  BY <1>2, <1>3 DEF Comic!Init, Comic!PositionInv
<1>7. Comic!SentInv
  <2>1. \A c \in Comic!Comics : ~ c <= saved.last
    BY <1>3 DEF Comic!Comics
  <2> QED BY <1>2, <1>4, <2>1 DEF Comic!Init, Comic!SentInv
<1>8. Comic!IndexInv
  BY <1>2, <1>4 DEF Comic!Init, Comic!IndexInv
<1> QED BY <1>5, <1>6, <1>7, <1>8 DEF Comic!XkcdInv

LEMMA XkcdHolds ==
    ASSUME Comic!XkcdAssumption, Comic!TypeOK, Comic!XkcdInv, [Comic!Next]_Comic!vars
    PROVE  Comic!TypeOK' /\ Comic!XkcdInv'
<1>1. CASE Comic!Publish \/ Comic!Flush \/ UNCHANGED Comic!vars
  BY <1>1, PublishHolds
<1>2. ASSUME NEW r \in Rooms, Comic!Moves(r) \/ Comic!SendRoom(r) \/ Comic!SendFails(r)
      PROVE  Comic!TypeOK' /\ Comic!XkcdInv'
  BY <1>2, MovesHold, SendHolds
<1>3. CASE Comic!FirstAnswer \/ Comic!Poll \/ Comic!Fetched
  BY <1>3, FirstAnswerHolds, PollHolds, FetchedHolds
<1>4. CASE Comic!Gap \/ Comic!NotFetched \/ Comic!BroadcastDone
  BY <1>4, SavedHolds
<1>5. CASE Comic!BuildBegins \/ Comic!BuildPersists \/ Comic!BuildEnds \/ (\E ok \in BOOLEAN : Comic!BuildNext(ok))
  BY <1>5, BuildHolds
<1>6. CASE Comic!Reload \/ Comic!Crash
  BY <1>6, XkcdRestarts
<1> QED BY <1>1, <1>2, <1>3, <1>4, <1>5, <1>6 DEF Comic!Next

(* A room that has been a subscriber, and joined, since before a comic was  *)
(* published has been sent it, and once, when the last id passes it, unless *)
(* a request, the send or the bot itself failed in between: for any number  *)
(* of rooms, comics and failures.  (catch_up_missing_comics)                *)
THEOREM ComicsArriveOnce ==
    ASSUME Comic!XkcdAssumption
    PROVE  Comic!Spec => []Comic!EveryComicOnce
<1> DEFINE Inv == Comic!TypeOK /\ Comic!XkcdInv
<1>1. Comic!Init => Inv
  BY XkcdBegins
<1>2. Inv /\ [Comic!Next]_Comic!vars => Inv'
  BY XkcdHolds
<1>3. Inv => Comic!EveryComicOnce
  <2> SUFFICES ASSUME Inv, NEW r \in Rooms, NEW c \in Comic!Comics \ Missing
               PROVE  /\ c \in since[r] + 1 .. last => copies[r][c] > 0 \/ <<r, c>> \in lost
                      /\ copies[r][c] > 1 => c \in cut
    BY DEF Comic!EveryComicOnce
  <2>1. /\ c \in Nat /\ since[r] \in Nat /\ saved.last \in Nat /\ last \in {0, saved.last}
        /\ copies[r][c] \in Nat
    BY ComicParts DEF Comic!XkcdInv, Comic!PositionInv
  <2>2. ASSUME c \in since[r] + 1 .. last PROVE copies[r][c] > 0 \/ <<r, c>> \in lost
    <3>1. c > since[r] /\ c <= saved.last
      BY <2>1, <2>2
    <3> QED BY <3>1 DEF Comic!XkcdInv, Comic!SentInv
  <2>3. ASSUME c \notin cut PROVE ~ copies[r][c] > 1
    <3>1. copies[r][c] <= 1
      BY <2>3 DEF Comic!XkcdInv, Comic!SentInv
    <3> QED BY <2>1, <3>1
  <2> QED BY <2>2, <2>3
<1> QED BY <1>1, <1>2, <1>3, PTL DEF Comic!Spec

(* A comic that was posted is found by the search, unless an index that was *)
(* built from nothing replaced the one it was put in.  (add_comic_to_index, *)
(* build_full_index, _persist_xkcd_index)                                   *)
THEOREM PostedComicsAreFound ==
    ASSUME Comic!XkcdAssumption
    PROVE  Comic!Spec => []Comic!PostedIsIndexed
<1> DEFINE Inv == Comic!TypeOK /\ Comic!XkcdInv
<1>1. Comic!Init => Inv
  BY XkcdBegins
<1>2. Inv /\ [Comic!Next]_Comic!vars => Inv'
  BY XkcdHolds
<1>3. Inv => Comic!PostedIsIndexed
  BY DEF Comic!XkcdInv, Comic!IndexInv, Comic!FoundIn, Comic!PostedIsIndexed
<1> QED BY <1>1, <1>2, <1>3, PTL DEF Comic!Spec
=============================================================================
