---------------------------- MODULE UserStoreProofs ----------------------------
(***************************************************************************)
(* Theorems about UserStore: for any number of tasks and users, any limit  *)
(* of the caches and any number of changes, failed flushes and crashes, a  *)
(* deleted user does not come back, and what the cache takes for saved is  *)
(* saved.  The last sections are about two parts of the game that the same *)
(* run checks beside the store: the loops of its rooms (GameLoop) and its  *)
(* public files (GameExport).                                              *)
(***************************************************************************)
EXTENDS UserStore, FiniteSetTheorems, TLAPS

Row == [Fields -> 0 .. MaxChanges]

Inv == TypeOK /\ Gone /\ ForeignKey /\ CleanMatches

-----------------------------------------------------------------------------
(* Tables and the operators on them.                                        *)

LEMMA RowsArePresent ==
    /\ Absent \notin Row
    /\ Fresh \in Row
    /\ Values = Row \cup {Absent}
  BY UserStoreAssumption DEF Row, Fresh, Values

LEMMA PutLookup ==
    ASSUME NEW t \in Tables, NEW k \in Kinds, NEW j \in Jids, NEW e \in Values
    PROVE  /\ Put(t, k, j, e) \in Tables
           /\ \A l \in Kinds, i \in Jids :
                  Put(t, k, j, e)[l][i] = IF l = k /\ i = j THEN e ELSE t[l][i]
<1>1. t[k] \in [Jids -> Values]
  BY DEF Tables
<1>2. [t[k] EXCEPT ![j] = e] \in [Jids -> Values]
  BY <1>1
<1>3. Put(t, k, j, e) = [t EXCEPT ![k] = [t[k] EXCEPT ![j] = e]]
  BY DEF Put
<1>4. Put(t, k, j, e) \in Tables
  BY <1>2, <1>3 DEF Tables
<1>5. ASSUME NEW l \in Kinds, NEW i \in Jids
      PROVE  Put(t, k, j, e)[l][i] = IF l = k /\ i = j THEN e ELSE t[l][i]
  BY <1>1, <1>3 DEF Tables
<1>6. QED
  BY <1>4, <1>5

LEMMA WithoutLookup ==
    ASSUME NEW t \in Tables, NEW gone
    PROVE  /\ Without(t, gone) \in Tables
           /\ \A k \in Kinds, j \in Jids :
                  Without(t, gone)[k][j] = IF <<k, j>> \in gone THEN Absent ELSE t[k][j]
  BY DEF Without, Tables, Values

(* What Absent or an old entry is at every place of a table.                *)
Thinned(p, c) ==
    p \in Tables /\ \A k \in Kinds, j \in Jids : p[k][j] = c[k][j] \/ p[k][j] = Absent

LEMMA PrunedOneThins ==
    ASSUME NEW c \in Tables, NEW d, NEW m, NEW touched, NEW p \in PrunedOne(c, d, m, touched)
    PROVE  Thinned(p, c)
<1>1. PICK gone : p = Without(c, {m} \X gone)
  BY DEF PrunedOne
<1>2. ASSUME NEW g PROVE Thinned(Without(c, g), c)
  <2>1. /\ Without(c, g) \in Tables
        /\ \A k \in Kinds, j \in Jids :
               Without(c, g)[k][j] = IF <<k, j>> \in g THEN Absent ELSE c[k][j]
    BY WithoutLookup
  <2>2. ASSUME NEW k \in Kinds, NEW j \in Jids
        PROVE  Without(c, g)[k][j] = c[k][j] \/ Without(c, g)[k][j] = Absent
    BY <2>1
  <2>3. QED
    BY <2>1, <2>2 DEF Thinned
<1>3. QED
  BY <1>1, <1>2

(* A prune pass only removes.                                               *)
LEMMA PrunedThins ==
    ASSUME NEW c \in Tables, NEW d, NEW k, NEW touched, NEW p \in Pruned(c, d, k, touched)
    PROVE  Thinned(p, c)
<1> DEFINE last(m) == IF m = k THEN touched ELSE None
<1>1. PICK u \in PrunedOne(c, d, "users", last("users")) :
             p \in PrunedOne(u, d, "runtime", last("runtime"))
  BY DEF Pruned
<1>2. Thinned(u, c)
  BY PrunedOneThins
<1>3. Thinned(p, u)
  BY <1>1, <1>2, PrunedOneThins DEF Thinned
<1>4. QED
  BY <1>2, <1>3 DEF Thinned

LEMMA AfterTouchThins ==
    ASSUME NEW c \in Tables, NEW d, NEW k, NEW j, NEW p \in AfterTouch(c, d, k, j)
    PROVE  Thinned(p, c)
<1>1. CASE p = c
  BY <1>1 DEF Thinned
<1>2. CASE p \in Pruned(c, d, k, j)
  BY <1>2, PrunedThins
<1>3. QED
  BY <1>1, <1>2 DEF AfterTouch

LEMMA SameEntryReflexive == \A a : SameEntry(a, a)
  BY DEF SameEntry

LEMMA InitInv == Init => Inv
<1> SUFFICES ASSUME Init PROVE Inv
  OBVIOUS
<1>1. db \in Tables /\ \A j \in Jids : db["users"][j] = db["runtime"][j]
  BY RowsArePresent DEF Init, Tables, Kinds
<1>2. /\ cache \in Tables
      /\ \A k \in Kinds, j \in Jids : cache[k][j] # Absent =>
             k = "runtime" /\ j = Global /\ cache[k][j] = Fresh
  BY RowsArePresent DEF Init, Tables, Kinds
<1>3. db["runtime"][Global] = Fresh
  BY UserStoreAssumption DEF Init, Kinds
<1>4. TypeOK
  BY <1>1, <1>2, UserStoreAssumption DEF Init, TypeOK, Retries
<1>5. Gone
  BY <1>2 DEF Init, Gone, Kinds
<1>6. ForeignKey
  BY <1>1 DEF Init, ForeignKey
<1>7. CleanMatches
  BY <1>2, <1>3, SameEntryReflexive DEF Init, CleanMatches, Matches
<1>8. QED
  BY <1>4, <1>5, <1>6, <1>7 DEF Inv

-----------------------------------------------------------------------------
(* What an operation does with its entry.                                   *)

LEMMA ChangeIsRow ==
    ASSUME NEW o \in Operation, NEW e \in Row, changes \in Nat, changes < MaxChanges
    PROVE  Change(o, e) \in Row
<1>1. changes + 1 \in 0 .. MaxChanges /\ 0 \in 0 .. MaxChanges
  BY UserStoreAssumption
<1>2. o.field \in Fields
  BY DEF Operation
<1>3. QED
  BY <1>1, <1>2 DEF Change, Row

(* Only an entry that gets a dirty mark, and loses the claim that a flush   *)
(* has written it, differs from the one the operation was given.            *)
LEMMA PerformEffect ==
    ASSUME TypeOK, NEW o \in Operation, NEW e \in Row, Perform(o, e)
    PROVE  /\ cache' \in Tables /\ told' \in Tables /\ changes' \in 0 .. MaxChanges
           /\ dirty \subseteq dirty' /\ dirty' \subseteq Entries
           /\ unchanged' \subseteq unchanged
           /\ \A k \in Kinds, j \in Jids : told[k][j] # Absent => told'[k][j] # Absent
           /\ \A k \in Kinds, j \in Jids : ~(k = o.kind /\ j = o.jid) =>
                  cache'[k][j] = cache[k][j] \/ cache'[k][j] = Absent
           /\ \/ cache'[o.kind][o.jid] = e \/ cache'[o.kind][o.jid] = Absent
              \/ <<o.kind, o.jid>> \in dirty' \ unchanged'
<1>1. o.kind \in Kinds /\ o.jid \in Jids
  BY DEF Operation
<1>2. e \in Values /\ e # Absent
  BY RowsArePresent
<1> DEFINE p == Put(cache, o.kind, o.jid, e)
<1>3. /\ p \in Tables
      /\ \A k \in Kinds, j \in Jids :
             p[k][j] = IF k = o.kind /\ j = o.jid THEN e ELSE cache[k][j]
  BY <1>1, <1>2, PutLookup DEF TypeOK
<1> HIDE DEF p
<1>4. PICK c \in AfterTouch(p, dirty, o.kind, o.jid) :
        LET kept == c[o.kind][o.jid] # Absent
            done == Changing(o, e) /\ (kept \/ o.kind = "users")
        IN IF done
           THEN /\ changes < MaxChanges
                /\ cache' = IF kept THEN Put(c, o.kind, o.jid, Change(o, e)) ELSE c
                /\ told' = [told EXCEPT ![o.kind][o.jid] = Change(o, IF @ = Absent THEN Fresh
                                                                     ELSE @)]
                /\ changes' = changes + 1
                /\ MarkDirty(o.kind, o.jid)
           ELSE /\ cache' = c
                /\ UNCHANGED <<dirty, unchanged, told, changes>>
  BY DEF Perform, p
<1>5. Thinned(c, p)
  BY <1>3, <1>4, AfterTouchThins
<1>6. /\ c \in Tables
      /\ \A k \in Kinds, j \in Jids : ~(k = o.kind /\ j = o.jid) =>
             c[k][j] = cache[k][j] \/ c[k][j] = Absent
      /\ c[o.kind][o.jid] = e \/ c[o.kind][o.jid] = Absent
  BY <1>1, <1>3, <1>5 DEF Thinned
<1> DEFINE kept == c[o.kind][o.jid] # Absent
           done == Changing(o, e) /\ (kept \/ o.kind = "users")
           old == IF told[o.kind][o.jid] = Absent THEN Fresh ELSE told[o.kind][o.jid]
<1>7. CASE ~done
  <2>1. cache' = c /\ UNCHANGED <<dirty, unchanged, told, changes>>
    BY <1>4, <1>7
  <2>2. QED
    BY <1>6, <2>1 DEF TypeOK
<1>8. CASE done
  <2>1. /\ changes < MaxChanges /\ changes' = changes + 1
        /\ cache' = IF kept THEN Put(c, o.kind, o.jid, Change(o, e)) ELSE c
        /\ told' = Put(told, o.kind, o.jid, Change(o, old))
        /\ dirty' = dirty \cup {<<o.kind, o.jid>>}
        /\ unchanged' = unchanged \ {<<o.kind, o.jid>>}
    BY <1>4, <1>8 DEF MarkDirty, Put
  <2>2. changes \in Nat /\ changes' \in 0 .. MaxChanges
    BY <2>1, UserStoreAssumption DEF TypeOK
  <2>3. old \in Row
    BY <1>1, RowsArePresent DEF TypeOK, Tables
  <2>4. Change(o, old) \in Row /\ Change(o, e) \in Row
    BY <2>1, <2>2, <2>3, ChangeIsRow
  <2> DEFINE new == Change(o, old)
             put == Change(o, e)
  <2> HIDE DEF old, new, put
  <2>10. new \in Values /\ new # Absent /\ put \in Values
    BY <2>4, RowsArePresent DEF new, put
  <2>11. told' = Put(told, o.kind, o.jid, new) /\ told \in Tables
    BY <2>1 DEF new, TypeOK
  <2>12. cache' = IF kept THEN Put(c, o.kind, o.jid, put) ELSE c
    BY <2>1 DEF put
  <2>5. /\ told' \in Tables
        /\ \A k \in Kinds, j \in Jids :
               told'[k][j] = IF k = o.kind /\ j = o.jid THEN new ELSE told[k][j]
    BY <1>1, <2>10, <2>11, PutLookup
  <2>6. \A k \in Kinds, j \in Jids : told[k][j] # Absent => told'[k][j] # Absent
    BY <2>10, <2>5
  <2>7. /\ cache' \in Tables
        /\ \A k \in Kinds, j \in Jids : ~(k = o.kind /\ j = o.jid) => cache'[k][j] = c[k][j]
    <3>1. CASE kept
      BY <1>1, <1>6, <2>10, <2>12, <3>1, PutLookup
    <3>2. CASE ~kept
      BY <1>6, <2>12, <3>2
    <3>3. QED
      BY <3>1, <3>2
  <2>8. /\ dirty \subseteq dirty' /\ dirty' \subseteq Entries /\ unchanged' \subseteq unchanged
        /\ <<o.kind, o.jid>> \in dirty' \ unchanged'
    BY <1>1, <2>1 DEF TypeOK, Entries
  <2>9. QED
    BY <1>6, <2>2, <2>5, <2>6, <2>7, <2>8
<1>9. QED
  BY <1>7, <1>8

(* The conjuncts of Inv that speak of the memory hold again after it.       *)
LEMMA PerformKeepsInv ==
    ASSUME Inv, NEW o \in Operation, NEW e \in Row, Perform(o, e),
           o.kind = "users" => told["users"][o.jid] # Absent,
           \/ cache[o.kind][o.jid] = e
           \/ flush # "writing" /\ SameEntry(e, db[o.kind][o.jid]),
           UNCHANGED <<db, flushVars, mode, attempts, errors, crashes>>,
           task' \in [Clients -> Operation \cup {None}], raced' \subseteq Entries
    PROVE  Inv'
<1>1. o.kind \in Kinds /\ o.jid \in Jids
  BY DEF Operation
<1>2. /\ cache' \in Tables /\ told' \in Tables /\ changes' \in 0 .. MaxChanges
      /\ dirty \subseteq dirty' /\ dirty' \subseteq Entries
      /\ unchanged' \subseteq unchanged
      /\ \A k \in Kinds, j \in Jids : told[k][j] # Absent => told'[k][j] # Absent
      /\ \A k \in Kinds, j \in Jids : ~(k = o.kind /\ j = o.jid) =>
             cache'[k][j] = cache[k][j] \/ cache'[k][j] = Absent
      /\ \/ cache'[o.kind][o.jid] = e \/ cache'[o.kind][o.jid] = Absent
         \/ <<o.kind, o.jid>> \in dirty' \ unchanged'
  BY PerformEffect DEF Inv
<1>3. TypeOK'
  BY <1>2 DEF Inv, TypeOK, flushVars
<1>4. Gone'
  <2> SUFFICES ASSUME NEW j \in Jids, told'["users"][j] = Absent
               PROVE  /\ cache'["users"][j] = Absent /\ db'["users"][j] = Absent
                      /\ flush' = "writing" => staged'["users"][j] = Absent
    BY DEF Gone
  <2>1. "users" \in Kinds /\ told["users"][j] = Absent
    BY <1>2 DEF Kinds
  <2>2. /\ cache["users"][j] = Absent /\ db["users"][j] = Absent
        /\ flush = "writing" => staged["users"][j] = Absent
    BY <2>1 DEF Inv, Gone
  <2>3. ~("users" = o.kind /\ j = o.jid)
    BY <2>1
  <2>4. QED
    BY <1>2, <2>1, <2>2, <2>3 DEF flushVars
<1>5. ForeignKey'
  BY DEF Inv, ForeignKey, flushVars
<1>6. CleanMatches'
  <2> SUFFICES ASSUME NEW k \in Kinds, NEW j \in Jids, cache'[k][j] # Absent
               PROVE  /\ <<k, j>> \notin dirty' => SameEntry(cache'[k][j], db'[k][j])
                      /\ flush' = "writing" /\ (<<k, j>> \notin dirty'
                                                  \/ <<k, j>> \in unchanged' \ todo') =>
                             SameEntry(cache'[k][j], staged'[k][j])
    BY DEF CleanMatches, Matches
  <2>1. UNCHANGED <<db, flush, staged, todo>>
    BY DEF flushVars
  <2>2. CASE cache'[k][j] = cache[k][j]
    BY <1>2, <2>1, <2>2 DEF Inv, CleanMatches, Matches
  <2>3. CASE cache'[k][j] # cache[k][j]
    <3>1. k = o.kind /\ j = o.jid
      BY <1>2, <2>3
    <3>2. CASE <<k, j>> \in dirty' \ unchanged'
      BY <3>2
    <3>3. CASE cache'[k][j] = e
      BY <2>1, <2>3, <3>1, <3>3
    <3>4. QED
      BY <1>2, <3>1, <3>2, <3>3
  <2>4. QED
    BY <2>2, <2>3
<1>7. QED
  BY <1>3, <1>4, <1>5, <1>6 DEF Inv

-----------------------------------------------------------------------------
(* One lemma per action.                                                    *)

LEMMA PresentIsRow ==
    ASSUME NEW t \in Tables, NEW k \in Kinds, NEW j \in Jids, t[k][j] # Absent
    PROVE  t[k][j] \in Row
  BY RowsArePresent DEF Tables

LEMMA HitKeepsInv ==
    ASSUME Inv, NEW c \in Clients, NEW o \in Operation, Hit(c, o)
    PROVE  Inv'
<1>1. o.kind \in Kinds /\ o.jid \in Jids
  BY DEF Operation
<1>2. cache[o.kind][o.jid] \in Row
  BY <1>1, PresentIsRow DEF Hit, Inv, TypeOK
<1>3. o.kind = "users" => told["users"][o.jid] # Absent
  BY <1>1 DEF Hit, Inv, Gone
<1>4. task' \in [Clients -> Operation \cup {None}] /\ raced' \subseteq Entries
  BY DEF Hit, Inv, TypeOK
<1>5. QED
  BY <1>2, <1>3, <1>4, PerformKeepsInv DEF Hit

(* An action that leaves the tables and the memory alone.                   *)
LEMMA MissKeepsInv ==
    ASSUME Inv, NEW c \in Clients, NEW o \in Operation, Miss(c, o)
    PROVE  Inv'
<1>1. <<o.kind, o.jid>> \in Entries
  BY DEF Operation, Entries
<1>2. raced' \subseteq Entries
  BY <1>1 DEF Miss, Inv, TypeOK
<1>3. task' \in [Clients -> Operation \cup {None}]
  BY DEF Miss, Inv, TypeOK
<1>4. TypeOK'
  BY <1>2, <1>3 DEF Miss, Inv, TypeOK, memory, flushVars, bounds
<1>5. Gone' /\ ForeignKey' /\ CleanMatches'
  BY DEF Miss, Inv, Gone, ForeignKey, CleanMatches, Matches, memory, flushVars, bounds
<1>6. QED
  BY <1>4, <1>5 DEF Inv

LEMMA CreateKeepsInv ==
    ASSUME Inv, NEW j \in Jids, Create(j), flush # "writing",
           UNCHANGED <<db, flushVars, mode, attempts, raced, errors, crashes>>,
           task' \in [Clients -> Operation \cup {None}]
    PROVE  Inv'
<1> DEFINE p == Put(cache, "users", j, Fresh)
<1>1. "users" \in Kinds /\ Fresh \in Values /\ Fresh # Absent
  BY RowsArePresent DEF Kinds
<1>2. /\ p \in Tables
      /\ \A k \in Kinds, i \in Jids :
             p[k][i] = IF k = "users" /\ i = j THEN Fresh ELSE cache[k][i]
  BY <1>1, PutLookup DEF Inv, TypeOK
<1>3. told' = Put(told, "users", j, Fresh)
  BY DEF Create, Put
<1>4. /\ told' \in Tables
      /\ \A k \in Kinds, i \in Jids :
             told'[k][i] = IF k = "users" /\ i = j THEN Fresh ELSE told[k][i]
  BY <1>1, <1>3, PutLookup DEF Inv, TypeOK
<1>5. cache' \in AfterTouch(p, dirty', "users", j)
  BY DEF Create
<1> HIDE DEF p
<1>6. Thinned(cache', p)
  BY <1>2, <1>5, AfterTouchThins
<1>7. /\ cache' \in Tables
      /\ \A k \in Kinds, i \in Jids : ~(k = "users" /\ i = j) =>
             cache'[k][i] = cache[k][i] \/ cache'[k][i] = Absent
  BY <1>2, <1>6 DEF Thinned
<1>8. /\ dirty' = dirty \cup {<<"users", j>>} /\ unchanged' = unchanged \ {<<"users", j>>}
      /\ changes' = changes
  BY DEF Create, MarkDirty
<1>9. TypeOK'
  BY <1>1, <1>4, <1>7, <1>8 DEF Inv, TypeOK, flushVars, Entries
<1>10. Gone'
  BY <1>1, <1>4, <1>7 DEF Inv, Gone, flushVars
<1>11. ForeignKey'
  BY DEF Inv, ForeignKey, flushVars
<1>12. CleanMatches'
  BY <1>1, <1>7, <1>8 DEF Inv, CleanMatches, Matches, flushVars
<1>13. QED
  BY <1>9, <1>10, <1>11, <1>12 DEF Inv

LEMMA LoadedKeepsInv ==
    ASSUME Inv, NEW c \in Clients, Loaded(c)
    PROVE  Inv'
<1> DEFINE o == task[c]
           row == db[o.kind][o.jid]
<1>1. /\ o # None /\ flush # "writing"
      /\ task' = [task EXCEPT ![c] = None]
      /\ UNCHANGED <<db, flushVars, mode, attempts, raced, errors, crashes>>
  BY DEF Loaded
<1>2. o \in Operation /\ task' \in [Clients -> Operation \cup {None}] /\ raced' \subseteq Entries
  BY <1>1 DEF Inv, TypeOK
<1>3. o.kind \in Kinds /\ o.jid \in Jids
  BY <1>2 DEF Operation
<1>4. CASE row # Absent /\ Perform(o, row)
  <2>1. row \in Row /\ SameEntry(row, db[o.kind][o.jid])
    BY <1>3, <1>4, PresentIsRow, SameEntryReflexive DEF Inv, TypeOK
  <2>2. o.kind = "users" => told["users"][o.jid] # Absent
    BY <1>3, <1>4 DEF Inv, Gone
  <2> HIDE DEF o, row
  <2>3. QED
    BY <1>1, <1>2, <1>4, <2>1, <2>2, PerformKeepsInv
<1>5. CASE row = Absent /\ o.kind = "runtime" /\ Perform(o, Fresh)
  <2>1. Fresh \in Row /\ SameEntry(Fresh, db[o.kind][o.jid])
    BY <1>5, RowsArePresent DEF SameEntry
  <2> HIDE DEF o, row
  <2>2. QED
    BY <1>1, <1>2, <1>5, <2>1, PerformKeepsInv
<1>6. CASE Create(o.jid)
  BY <1>1, <1>2, <1>3, <1>6, CreateKeepsInv
<1>7. CASE UNCHANGED <<memory, told, changes>>
  <2>1. TypeOK'
    BY <1>1, <1>2, <1>7 DEF Inv, TypeOK, memory, flushVars
  <2>2. Gone' /\ ForeignKey' /\ CleanMatches'
    BY <1>1, <1>7 DEF Inv, Gone, ForeignKey, CleanMatches, Matches, memory, flushVars
  <2>3. QED
    BY <2>1, <2>2 DEF Inv
<1>8. QED
  BY <1>4, <1>5, <1>6, <1>7 DEF Loaded

LEMMA DeleteKeepsInv ==
    ASSUME Inv, NEW j \in Jids, Delete(j)
    PROVE  Inv'
<1> DEFINE both == Kinds \X {j}
<1>1. \A k \in Kinds, i \in Jids : <<k, i>> \in both <=> i = j
  OBVIOUS
<1>2. /\ db' = Without(db, both) /\ cache' = Without(cache, both) /\ told' = Without(told, both)
      /\ dirty' = dirty \ both /\ unchanged' = unchanged \ both
      /\ flush # "writing" /\ staged' = db'
      /\ UNCHANGED <<task, flush, snapshot, todo, mode, attempts, bounds>>
  BY DEF Delete, Uncached, Unmarked
<1>3. raced' \subseteq raced \cup both
  BY DEF Delete
<1>4. both \subseteq Entries
  BY DEF Entries
<1> HIDE DEF both
<1>5. /\ db' \in Tables
      /\ \A k \in Kinds, i \in Jids :
             db'[k][i] = IF <<k, i>> \in both THEN Absent ELSE db[k][i]
  BY <1>2, WithoutLookup DEF Inv, TypeOK
<1>6. /\ cache' \in Tables
      /\ \A k \in Kinds, i \in Jids :
             cache'[k][i] = IF <<k, i>> \in both THEN Absent ELSE cache[k][i]
  BY <1>2, WithoutLookup DEF Inv, TypeOK
<1>7. /\ told' \in Tables
      /\ \A k \in Kinds, i \in Jids :
             told'[k][i] = IF <<k, i>> \in both THEN Absent ELSE told[k][i]
  BY <1>2, WithoutLookup DEF Inv, TypeOK
<1>8. TypeOK'
  BY <1>2, <1>3, <1>4, <1>5, <1>6, <1>7 DEF Inv, TypeOK, bounds
<1>9. Gone'
  <2> SUFFICES ASSUME NEW i \in Jids, told'["users"][i] = Absent
               PROVE  cache'["users"][i] = Absent /\ db'["users"][i] = Absent
    BY <1>2 DEF Gone
  <2>1. "users" \in Kinds
    BY DEF Kinds
  <2>2. CASE i = j
    BY <1>1, <1>5, <1>6, <2>1, <2>2
  <2>3. CASE i # j
    <3>1. told["users"][i] = Absent
      BY <1>1, <1>7, <2>1, <2>3
    <3>2. QED
      BY <1>1, <1>5, <1>6, <2>1, <2>3, <3>1 DEF Inv, Gone
  <2>4. QED
    BY <2>2, <2>3
<1>10. ForeignKey'
  <2>1. "users" \in Kinds /\ "runtime" \in Kinds
    BY DEF Kinds
  <2>2. QED
    BY <1>1, <1>2, <1>5, <2>1 DEF Inv, ForeignKey
<1>11. CleanMatches'
  <2> SUFFICES ASSUME NEW k \in Kinds, NEW i \in Jids, cache'[k][i] # Absent,
                      <<k, i>> \notin dirty'
               PROVE  SameEntry(cache'[k][i], db'[k][i])
    BY <1>2 DEF CleanMatches, Matches
  <2>1. i # j
    BY <1>1, <1>6
  <2>2. <<k, i>> \notin dirty
    BY <1>1, <1>2, <2>1
  <2>3. SameEntry(cache[k][i], db[k][i])
    BY <1>1, <1>6, <2>1, <2>2 DEF Inv, CleanMatches, Matches
  <2>4. QED
    BY <1>1, <1>5, <1>6, <2>1, <2>3
<1>12. QED
  BY <1>8, <1>9, <1>10, <1>11 DEF Inv

LEMMA FlushBeginKeepsInv == Inv /\ FlushBegin => Inv'
<1> SUFFICES ASSUME Inv, FlushBegin PROVE Inv'
  OBVIOUS
<1>1. <<"runtime", Global>> \in Entries
  BY UserStoreAssumption DEF Entries, Kinds
<1>2. TypeOK'
  BY <1>1 DEF Inv, TypeOK, FlushBegin, ghosts, bounds
<1>3. Gone' /\ ForeignKey' /\ CleanMatches'
  BY DEF Inv, Gone, ForeignKey, CleanMatches, Matches, FlushBegin, ghosts
<1>4. QED
  BY <1>2, <1>3 DEF Inv

(* The transaction starts from the committed tables with everything still   *)
(* to write.                                                                *)
LEMMA FlushOpensKeepsInv == Inv /\ FlushOpens => Inv'
<1> SUFFICES ASSUME Inv, FlushOpens PROVE Inv'
  OBVIOUS
<1>1. TypeOK'
  BY DEF Inv, TypeOK, FlushOpens, memory, ghosts, bounds
<1>2. Gone' /\ ForeignKey'
  BY DEF Inv, Gone, ForeignKey, FlushOpens, memory, ghosts
<1>3. unchanged' \ todo' = {}
  BY DEF Inv, TypeOK, FlushOpens, memory
<1>4. CleanMatches'
  BY <1>3 DEF Inv, CleanMatches, Matches, FlushOpens, memory
<1>5. QED
  BY <1>1, <1>2, <1>4 DEF Inv

LEMMA WriteUserKeepsInv ==
    ASSUME Inv, NEW j \in Jids, WriteUser(j)
    PROVE  Inv'
<1>1. "users" \in Kinds /\ "runtime" \in Kinds /\ "users" # "runtime"
  BY DEF Kinds
<1>2. cache["users"][j] \in Values /\ staged \in Tables
  BY <1>1 DEF Inv, TypeOK, Tables
<1>3. /\ staged' \in Tables
      /\ \A k \in Kinds, i \in Jids :
             staged'[k][i] = IF k = "users" /\ i = j /\ cache[k][i] # Absent
                             THEN cache[k][i] ELSE staged[k][i]
  <2>1. CASE cache["users"][j] = Absent
    BY <1>2, <2>1 DEF WriteUser
  <2>2. CASE cache["users"][j] # Absent
    BY <1>1, <1>2, <2>2, PutLookup DEF WriteUser
  <2>3. QED
    BY <2>1, <2>2
<1>4. /\ flush' = flush /\ todo' = todo \ {<<"users", j>>}
      /\ UNCHANGED <<db, memory, task, snapshot, mode, attempts, ghosts, bounds>>
  BY DEF WriteUser
<1>5. TypeOK'
  BY <1>3, <1>4 DEF Inv, TypeOK, memory, ghosts, bounds
<1>6. Gone'
  BY <1>1, <1>3, <1>4 DEF Inv, Gone, memory, ghosts
<1>7. ForeignKey'
  BY <1>1, <1>3, <1>4 DEF Inv, ForeignKey
<1>8. CleanMatches'
  BY <1>3, <1>4, SameEntryReflexive DEF Inv, CleanMatches, Matches, memory
<1>9. QED
  BY <1>5, <1>6, <1>7, <1>8 DEF Inv

LEMMA WriteRuntimeKeepsInv ==
    ASSUME Inv, NEW j \in Jids, WriteRuntime(j)
    PROVE  Inv'
<1>1. "users" \in Kinds /\ "runtime" \in Kinds /\ "users" # "runtime"
  BY DEF Kinds
<1> DEFINE new == IF cache["runtime"][j] = Absent THEN Fresh ELSE cache["runtime"][j]
<1>2. new \in Values /\ staged \in Tables
  BY <1>1, RowsArePresent DEF Inv, TypeOK, Tables
<1>3. new = cache["runtime"][j] \/ cache["runtime"][j] = Absent
  OBVIOUS
<1>4. /\ staged' = IF Skipped(j) THEN staged ELSE Put(staged, "runtime", j, new)
      /\ flush = "writing" /\ flush' = flush /\ todo' = todo \ {<<"runtime", j>>}
      /\ UNCHANGED <<db, memory, task, snapshot, mode, attempts, ghosts, bounds>>
  BY DEF WriteRuntime
<1>5. Skipped(j) => cache["runtime"][j] = Absent
  BY DEF Skipped
<1>6. ~Skipped(j) => staged["users"][j] # Absent
  BY DEF WriteRuntime, Refused
<1> HIDE DEF new
<1>7. /\ staged' \in Tables
      /\ \A k \in Kinds, i \in Jids :
             staged'[k][i] = IF k = "runtime" /\ i = j /\ ~Skipped(j)
                             THEN new ELSE staged[k][i]
  <2>1. CASE Skipped(j)
    BY <1>2, <1>4, <2>1
  <2>2. CASE ~Skipped(j)
    BY <1>1, <1>2, <1>4, <2>2, PutLookup
  <2>3. QED
    BY <2>1, <2>2
<1>8. TypeOK'
  BY <1>4, <1>7 DEF Inv, TypeOK, memory, ghosts, bounds
<1>9. Gone'
  BY <1>1, <1>4, <1>7 DEF Inv, Gone, memory, ghosts
<1>10. ForeignKey'
  BY <1>1, <1>4, <1>6, <1>7 DEF Inv, ForeignKey
<1>11. CleanMatches'
  <2> SUFFICES ASSUME NEW k \in Kinds, NEW i \in Jids, cache[k][i] # Absent
               PROVE  /\ <<k, i>> \notin dirty => SameEntry(cache[k][i], db[k][i])
                      /\ <<k, i>> \notin dirty \/ <<k, i>> \in unchanged \ todo' =>
                             SameEntry(cache[k][i], staged'[k][i])
    BY <1>4 DEF CleanMatches, Matches, memory
  <2>1. /\ <<k, i>> \notin dirty => SameEntry(cache[k][i], db[k][i])
        /\ <<k, i>> \notin dirty \/ <<k, i>> \in unchanged \ todo =>
               SameEntry(cache[k][i], staged[k][i])
    BY <1>4 DEF Inv, CleanMatches, Matches
  <2>2. CASE k = "runtime" /\ i = j
    BY <1>3, <1>5, <1>7, <2>1, <2>2, SameEntryReflexive
  <2>3. CASE ~(k = "runtime" /\ i = j)
    BY <1>4, <1>7, <2>1, <2>3
  <2>4. QED
    BY <2>2, <2>3
<1>12. QED
  BY <1>8, <1>9, <1>10, <1>11 DEF Inv

(* What was written and not changed since is clean from now on.             *)
LEMMA FlushCommitsKeepsInv == Inv /\ FlushCommits => Inv'
<1> SUFFICES ASSUME Inv, FlushCommits PROVE Inv'
  OBVIOUS
<1>1. /\ flush = "writing" /\ todo = {} /\ flush' = "idle" /\ db' = staged
      /\ dirty' = dirty \ unchanged /\ snapshot' = {} /\ todo' = {} /\ unchanged' = {}
      /\ attempts' = 0 /\ mode' = IF mode = "closing" THEN "closed" ELSE mode
      /\ UNCHANGED <<task, staged, ghosts, bounds>>
      /\ cache' \in Pruned(cache, dirty', "users", None)
  BY DEF FlushCommits, FlushEnds, ClearFlushedDirty
<1>2. Thinned(cache', cache)
  BY <1>1, PrunedThins DEF Inv, TypeOK
<1>3. "users" \in Kinds
  BY DEF Kinds
<1>4. TypeOK'
  <2>1. attempts' \in 0 .. Retries
    BY <1>1 DEF Retries
  <2>2. mode' \in {"up", "closing", "closed", "failed"}
    BY <1>1 DEF Inv, TypeOK
  <2>3. QED
    BY <1>1, <1>2, <2>1, <2>2 DEF Inv, TypeOK, Thinned, ghosts, bounds
<1>5. Gone'
  BY <1>1, <1>2, <1>3 DEF Inv, Gone, Thinned, ghosts
<1>6. ForeignKey'
  BY <1>1 DEF Inv, ForeignKey
<1>7. CleanMatches'
  BY <1>1, <1>2 DEF Inv, CleanMatches, Matches, Thinned
<1>8. QED
  BY <1>4, <1>5, <1>6, <1>7 DEF Inv

LEMMA FlushFailsKeepsInv == Inv /\ FlushFails => Inv'
<1> SUFFICES ASSUME Inv, FlushFails PROVE Inv'
  OBVIOUS
<1>1. /\ flush' = "idle" /\ attempts' = (attempts + 1) % Retries
      /\ mode' = IF mode = "closing" /\ attempts' = 0 THEN "failed" ELSE mode
      /\ snapshot' = {} /\ todo' = {} /\ unchanged' = {}
      /\ staged' = db /\ UNCHANGED <<db, cache, dirty, task, ghosts, changes, crashes>>
  BY DEF FlushFails, FlushEnds
<1>2. attempts' \in 0 .. Retries
  BY <1>1 DEF Inv, TypeOK, Retries
<1>3. mode' \in {"up", "closing", "closed", "failed"}
  BY <1>1 DEF Inv, TypeOK
<1>4. TypeOK'
  BY <1>1, <1>2, <1>3 DEF Inv, TypeOK, ghosts
<1>5. Gone' /\ ForeignKey' /\ CleanMatches'
  BY <1>1 DEF Inv, Gone, ForeignKey, CleanMatches, Matches, ghosts
<1>6. QED
  BY <1>4, <1>5 DEF Inv

LEMMA CloseKeepsInv == Inv /\ Close => Inv'
<1> SUFFICES ASSUME Inv, Close PROVE Inv'
  OBVIOUS
<1>1. attempts' \in 0 .. Retries
  BY DEF Close, Retries
<1>2. TypeOK'
  BY <1>1 DEF Inv, TypeOK, Close, memory, flushVars, ghosts, bounds
<1>3. Gone' /\ ForeignKey' /\ CleanMatches'
  BY DEF Inv, Gone, ForeignKey, CleanMatches, Matches, Close, memory, flushVars, ghosts
<1>4. QED
  BY <1>2, <1>3 DEF Inv

(* A new process knows and caches what was committed.                       *)
LEMMA RestartKeepsInv == Inv /\ Restart => Inv'
<1> SUFFICES ASSUME Inv, Restart PROVE Inv'
  OBVIOUS
<1>1. /\ cache' = [k \in Kinds |-> [j \in Jids |->
                     IF k = "runtime" /\ j = Global THEN db[k][j] ELSE Absent]]
      /\ dirty' = {} /\ task' = [c \in Clients |-> None] /\ flush' = "idle"
      /\ snapshot' = {} /\ todo' = {} /\ unchanged' = {} /\ mode' = "up" /\ attempts' = 0
      /\ staged' = db /\ told' = db /\ raced' = {} /\ UNCHANGED <<db, changes, errors>>
  BY DEF Restart, FlushEnds
<1>2. cache' \in Tables
  BY <1>1 DEF Inv, TypeOK, Tables, Values
<1>3. \A k \in Kinds, j \in Jids : cache'[k][j] = db[k][j] \/ cache'[k][j] = Absent
  BY <1>1
<1>4. attempts' \in 0 .. Retries
  BY <1>1 DEF Retries
<1>5. TypeOK'
  BY <1>1, <1>2, <1>4 DEF Inv, TypeOK
<1>6. "users" \in Kinds
  BY DEF Kinds
<1>7. Gone' /\ ForeignKey'
  BY <1>1, <1>3, <1>6 DEF Inv, Gone, ForeignKey
<1>8. CleanMatches'
  BY <1>1, <1>3, SameEntryReflexive DEF CleanMatches, Matches
<1>9. QED
  BY <1>5, <1>7, <1>8 DEF Inv

LEMMA NextKeepsInv == Inv /\ [Next]_vars => Inv'
<1> SUFFICES ASSUME Inv, [Next]_vars PROVE Inv'
  OBVIOUS
<1>1. ASSUME NEW c \in Clients, NEW o \in Operation, Hit(c, o) \/ Miss(c, o) PROVE Inv'
  BY <1>1, HitKeepsInv, MissKeepsInv
<1>2. ASSUME NEW c \in Clients, Loaded(c) PROVE Inv'
  BY <1>2, LoadedKeepsInv
<1>3. ASSUME NEW j \in Jids, Delete(j) PROVE Inv'
  BY <1>3, DeleteKeepsInv
<1>4. CASE FlushStep
  BY <1>4, FlushOpensKeepsInv, WriteUserKeepsInv, WriteRuntimeKeepsInv, FlushCommitsKeepsInv,
     FlushFailsKeepsInv DEF FlushStep
<1>5. CASE FlushBegin \/ Close \/ Restart
  BY <1>5, FlushBeginKeepsInv, CloseKeepsInv, RestartKeepsInv
<1>6. CASE UNCHANGED vars
  <2>1. TypeOK'
    BY <1>6 DEF Inv, TypeOK, vars, memory, flushVars, ghosts, bounds
  <2>2. Gone' /\ ForeignKey' /\ CleanMatches'
    BY <1>6 DEF Inv, Gone, ForeignKey, CleanMatches, Matches, vars, memory, flushVars, ghosts
  <2>3. QED
    BY <2>1, <2>2 DEF Inv
<1>7. QED
  BY <1>1, <1>2, <1>3, <1>4, <1>5, <1>6 DEF Next

-----------------------------------------------------------------------------
(* The theorems.                                                            *)

(* A deleted user does not come back: whatever flush was waiting or writing *)
(* when it was deleted, there is no row of it until somebody creates it.    *)
(* (UserManager.delete, the skip in _flush_runtime)                         *)
THEOREM DeletedStayGone == Spec => []NoResurrection
<1>1. Inv => NoResurrection
  BY DEF Inv, Gone, ForeignKey, NoResurrection
<1>2. QED
  BY <1>1, InitInv, NextKeepsInv, PTL DEF Spec

(* A cached entry without a dirty mark equals its row, however loads,       *)
(* changes, evictions, flushes and failures interleave.                     *)
(* (_clear_flushed_dirty, _prune_one_cache)                                 *)
THEOREM CleanIsAlwaysPersisted == Spec => []CleanIsPersisted
<1>1. Inv => CleanIsPersisted
  BY DEF Inv, CleanMatches, Matches, CleanIsPersisted
<1>2. QED
  BY <1>1, InitInv, NextKeepsInv, PTL DEF Spec

-----------------------------------------------------------------------------
(* While a cache has room for everybody, no prune pass takes the entry that *)
(* is in use, and none ever takes a dirty entry or the global blob.         *)

Spared(p, c, d) ==
    \A k \in Kinds, j \in Jids : p[k][j] # c[k][j] =>
        <<k, j>> \notin d /\ ~(k = "runtime" /\ j = Global)

LEMMA PrunedOneSpares ==
    ASSUME NEW c \in Tables, NEW d, NEW m \in Kinds, NEW touched,
           NEW p \in PrunedOne(c, d, m, touched)
    PROVE  /\ Thinned(p, c) /\ Spared(p, c, d)
           /\ \A k \in Kinds, j \in Jids : p[k][j] # c[k][j] => k = m
           /\ Roomy /\ touched \in Jids => p[m][touched] = c[m][touched]
<1>1. PICK gone \in PrunedFrom(c, d, m, touched) : p = Without(c, {m} \X gone)
  BY DEF PrunedOne
<1>2. ASSUME NEW g, p = Without(c, g), NEW k \in Kinds, NEW j \in Jids, p[k][j] # c[k][j]
      PROVE  <<k, j>> \in g
  <2>1. Without(c, g)[k][j] = IF <<k, j>> \in g THEN Absent ELSE c[k][j]
    BY WithoutLookup
  <2>2. QED
    BY <1>2, <2>1
<1>3. \A k \in Kinds, j \in Jids : p[k][j] # c[k][j] => k = m /\ j \in gone
  <2> SUFFICES ASSUME NEW k \in Kinds, NEW j \in Jids, p[k][j] # c[k][j]
               PROVE  k = m /\ j \in gone
    OBVIOUS
  <2> DEFINE g == {m} \X gone
  <2>1. p = Without(c, g)
    BY <1>1
  <2> HIDE DEF g
  <2>2. <<k, j>> \in g
    BY <1>2, <2>1
  <2>3. QED
    BY <2>2 DEF g
<1>4. gone \subseteq Evictable(c, d, m)
  BY DEF PrunedFrom
<1>5. Spared(p, c, d)
  BY <1>3, <1>4 DEF Spared, Evictable, Pinned
<1>6. ASSUME Roomy, touched \in Jids PROVE touched \notin gone
  <2> DEFINE left == Cached(c, m) \ (gone \ {touched})
  <2>1. left \in SUBSET Jids
    BY DEF Cached
  <2>2. IsFiniteSet(left) /\ Cardinality(left) <= Cardinality(Jids)
    BY <1>6, <2>1, FS_Subset DEF Roomy
  <2>3. Cardinality(left) \in Nat /\ Cardinality(Jids) \in Nat /\ Limit \in Nat
    BY <1>6, <2>2, FS_CardinalityType, UserStoreAssumption DEF Roomy
  <2>4. touched \in gone => Cardinality(left) > Limit
    BY DEF PrunedFrom
  <2> HIDE DEF left
  <2>5. QED
    BY <1>6, <2>2, <2>3, <2>4 DEF Roomy
<1>7. QED
  BY <1>3, <1>5, <1>6, PrunedOneThins

LEMMA PrunedSpares ==
    ASSUME NEW c \in Tables, NEW d, NEW k, NEW touched, NEW p \in Pruned(c, d, k, touched)
    PROVE  /\ Spared(p, c, d)
           /\ Roomy /\ k \in Kinds /\ touched \in Jids => p[k][touched] = c[k][touched]
<1> DEFINE last(m) == IF m = k THEN touched ELSE None
<1>1. PICK u \in PrunedOne(c, d, "users", last("users")) :
             p \in PrunedOne(u, d, "runtime", last("runtime"))
  BY DEF Pruned
<1>2. "users" \in Kinds /\ "runtime" \in Kinds /\ "users" # "runtime"
  BY DEF Kinds
<1>3. /\ Thinned(u, c) /\ Spared(u, c, d)
      /\ \A l \in Kinds, j \in Jids : u[l][j] # c[l][j] => l = "users"
      /\ Roomy /\ last("users") \in Jids => u["users"][last("users")] = c["users"][last("users")]
  BY <1>2, PrunedOneSpares
<1>4. u \in Tables
  BY <1>3 DEF Thinned
<1>5. /\ Spared(p, u, d)
      /\ \A l \in Kinds, j \in Jids : p[l][j] # u[l][j] => l = "runtime"
      /\ Roomy /\ last("runtime") \in Jids =>
             p["runtime"][last("runtime")] = u["runtime"][last("runtime")]
  BY <1>1, <1>2, <1>4, PrunedOneSpares
<1>6. Spared(p, c, d)
  BY <1>3, <1>5 DEF Spared
<1>7. ASSUME Roomy, k \in Kinds, touched \in Jids PROVE p[k][touched] = c[k][touched]
  <2>1. CASE k = "users"
    BY <1>2, <1>3, <1>5, <1>7, <2>1
  <2>2. CASE k = "runtime"
    BY <1>2, <1>3, <1>5, <1>7, <2>2
  <2>3. QED
    BY <1>7, <2>1, <2>2 DEF Kinds
<1>8. QED
  BY <1>6, <1>7

LEMMA AfterTouchSpares ==
    ASSUME NEW c \in Tables, NEW d, NEW k, NEW j, NEW p \in AfterTouch(c, d, k, j)
    PROVE  /\ Spared(p, c, d)
           /\ Roomy /\ k \in Kinds /\ j \in Jids => p[k][j] = c[k][j]
<1>1. CASE p = c
  BY <1>1 DEF Spared
<1>2. CASE p \in Pruned(c, d, k, j)
  BY <1>2, PrunedSpares
<1>3. QED
  BY <1>1, <1>2 DEF AfterTouch

-----------------------------------------------------------------------------
(* Two entries that are the same to whoever asks for them.                  *)

LEMMA SameEntryEquivalence ==
    /\ \A a, b : SameEntry(a, b) => SameEntry(b, a)
    /\ \A a, b, c : SameEntry(a, b) /\ SameEntry(b, c) => SameEntry(a, c)
<1>1. \A a, b : SameEntry(a, b) <=>
          a = b \/ (a = Absent /\ b = Fresh) \/ (a = Fresh /\ b = Absent)
  BY DEF SameEntry
<1>2. QED
  BY <1>1

LEMMA SameChange ==
    ASSUME NEW o, NEW e \in Row, NEW t, SameEntry(e, t)
    PROVE  Change(o, e) = Change(o, IF t = Absent THEN Fresh ELSE t)
<1>1. e # Absent
  BY RowsArePresent
<1>2. e = IF t = Absent THEN Fresh ELSE t
  BY <1>1 DEF SameEntry
<1>3. QED
  BY <1>2

(* With room the entry stays cached, and the same change is made to it and  *)
(* to what is told of it.                                                   *)
LEMMA RoomyPerform ==
    ASSUME Roomy, TypeOK, NEW o \in Operation, NEW e \in Row, Perform(o, e),
           SameEntry(e, told[o.kind][o.jid]) \/ <<o.kind, o.jid>> \in raced
    PROVE  /\ cache'[o.kind][o.jid] # Absent
           /\ SameEntry(cache'[o.kind][o.jid], told'[o.kind][o.jid])
              \/ <<o.kind, o.jid>> \in raced
           /\ dirty' \subseteq dirty \cup {<<o.kind, o.jid>>}
           /\ \A k \in Kinds, j \in Jids : ~(k = o.kind /\ j = o.jid) =>
                  /\ told'[k][j] = told[k][j]
                  /\ \/ cache'[k][j] = cache[k][j]
                     \/ /\ cache'[k][j] = Absent /\ <<k, j>> \notin dirty
                        /\ ~(k = "runtime" /\ j = Global)
<1>1. o.kind \in Kinds /\ o.jid \in Jids
  BY DEF Operation
<1>2. e \in Values /\ e # Absent
  BY RowsArePresent
<1> DEFINE p == Put(cache, o.kind, o.jid, e)
           old == IF told[o.kind][o.jid] = Absent THEN Fresh ELSE told[o.kind][o.jid]
<1>3. /\ p \in Tables
      /\ \A k \in Kinds, j \in Jids :
             p[k][j] = IF k = o.kind /\ j = o.jid THEN e ELSE cache[k][j]
  BY <1>1, <1>2, PutLookup DEF TypeOK
<1> HIDE DEF p
<1>4. PICK c \in AfterTouch(p, dirty, o.kind, o.jid) :
        LET kept == c[o.kind][o.jid] # Absent
            done == Changing(o, e) /\ (kept \/ o.kind = "users")
        IN IF done
           THEN /\ changes < MaxChanges
                /\ cache' = IF kept THEN Put(c, o.kind, o.jid, Change(o, e)) ELSE c
                /\ told' = [told EXCEPT ![o.kind][o.jid] = Change(o, IF @ = Absent THEN Fresh
                                                                     ELSE @)]
                /\ changes' = changes + 1
                /\ MarkDirty(o.kind, o.jid)
           ELSE /\ cache' = c
                /\ UNCHANGED <<dirty, unchanged, told, changes>>
  BY DEF Perform, p
<1>5. Thinned(c, p) /\ Spared(c, p, dirty) /\ c[o.kind][o.jid] = e
  BY <1>1, <1>3, <1>4, AfterTouchThins, AfterTouchSpares
<1>6. /\ c \in Tables /\ c[o.kind][o.jid] # Absent
      /\ \A k \in Kinds, j \in Jids : ~(k = o.kind /\ j = o.jid) =>
             \/ c[k][j] = cache[k][j]
             \/ c[k][j] = Absent /\ <<k, j>> \notin dirty /\ ~(k = "runtime" /\ j = Global)
  BY <1>2, <1>3, <1>5 DEF Thinned, Spared
<1>7. CASE ~Changing(o, e)
  <2>1. cache' = c /\ UNCHANGED <<dirty, told>>
    BY <1>4, <1>7
  <2>2. QED
    BY <1>5, <1>6, <2>1
<1>8. CASE Changing(o, e)
  <2>1. /\ changes < MaxChanges
        /\ cache' = Put(c, o.kind, o.jid, Change(o, e))
        /\ told' = Put(told, o.kind, o.jid, Change(o, old))
        /\ dirty' = dirty \cup {<<o.kind, o.jid>>}
    BY <1>4, <1>6, <1>8 DEF MarkDirty, Put
  <2>2. changes \in Nat /\ old \in Row
    BY <1>1, RowsArePresent DEF TypeOK, Tables
  <2>3. Change(o, old) \in Row /\ Change(o, e) \in Row
    BY <2>1, <2>2, ChangeIsRow
  <2>4. Change(o, e) = Change(o, old) \/ <<o.kind, o.jid>> \in raced
    BY SameChange
  <2> DEFINE new == Change(o, old)
             put == Change(o, e)
  <2> HIDE DEF old, new, put
  <2>5. new \in Values /\ put \in Values /\ put # Absent
    BY <2>3, RowsArePresent DEF new, put
  <2>6. cache' = Put(c, o.kind, o.jid, put) /\ told' = Put(told, o.kind, o.jid, new)
    BY <2>1 DEF new, put
  <2>7. \A k \in Kinds, j \in Jids :
            told'[k][j] = IF k = o.kind /\ j = o.jid THEN new ELSE told[k][j]
    <3>1. told \in Tables
      BY DEF TypeOK
    <3>2. QED
      BY <1>1, <2>5, <2>6, <3>1, PutLookup
  <2>8. \A k \in Kinds, j \in Jids :
            cache'[k][j] = IF k = o.kind /\ j = o.jid THEN put ELSE c[k][j]
    BY <1>1, <1>6, <2>5, <2>6, PutLookup
  <2>9. put = new \/ <<o.kind, o.jid>> \in raced
    BY <2>4 DEF new, put
  <2>10. QED
    BY <1>1, <1>6, <2>1, <2>5, <2>7, <2>8, <2>9, SameEntryReflexive
<1>9. QED
  BY <1>7, <1>8

LEMMA NotLost ==
    ASSUME NothingIsLost, NEW k \in Kinds, NEW j \in Jids, <<k, j>> \notin raced
    PROVE  SameEntry(IF cache[k][j] # Absent THEN cache[k][j] ELSE db[k][j], told[k][j])
  BY DEF NothingIsLost, Lost, Current

(* What Kept says of the entries that an operation leaves alone.            *)
LEMMA PerformKeepsKept ==
    ASSUME Roomy, Inv, Kept, mode = "up", NEW o \in Operation, NEW e \in Row, Perform(o, e),
           SameEntry(e, told[o.kind][o.jid]) \/ <<o.kind, o.jid>> \in raced,
           \A d \in Clients :
               \/ task'[d] = None
               \/ /\ task'[d] = task[d]
                  /\ ~Loading(d, o) \/ <<o.kind, o.jid>> \in raced,
           UNCHANGED <<db, flushVars, mode, attempts, raced, errors, crashes>>
    PROVE  Kept'
<1>1. o.kind \in Kinds /\ o.jid \in Jids
  BY DEF Operation
<1>2. /\ cache'[o.kind][o.jid] # Absent
      /\ SameEntry(cache'[o.kind][o.jid], told'[o.kind][o.jid])
         \/ <<o.kind, o.jid>> \in raced
      /\ dirty' \subseteq dirty \cup {<<o.kind, o.jid>>}
      /\ \A k \in Kinds, j \in Jids : ~(k = o.kind /\ j = o.jid) =>
             /\ told'[k][j] = told[k][j]
             /\ \/ cache'[k][j] = cache[k][j]
                \/ /\ cache'[k][j] = Absent /\ <<k, j>> \notin dirty
                   /\ ~(k = "runtime" /\ j = Global)
  BY RoomyPerform DEF Inv
<1>3. DirtyIsCached'
  <2> SUFFICES ASSUME NEW x \in dirty' PROVE cache'[x[1]][x[2]] # Absent
    BY DEF DirtyIsCached
  <2>1. CASE x = <<o.kind, o.jid>>
    BY <1>2, <2>1
  <2>2. CASE x # <<o.kind, o.jid>>
    <3>1. x \in dirty
      BY <1>2, <2>2
    <3>2. PICK k \in Kinds, j \in Jids : x = <<k, j>>
      BY <3>1 DEF Inv, TypeOK, Entries
    <3>3. cache[k][j] # Absent
      BY <3>1, <3>2 DEF Kept, DirtyIsCached
    <3>4. QED
      BY <1>2, <2>2, <3>1, <3>2, <3>3
  <2>3. QED
    BY <2>1, <2>2
<1>4. GlobalIsThere'
  <2>1. "runtime" \in Kinds /\ Global \in Jids
    BY UserStoreAssumption DEF Kinds
  <2>2. QED
    BY <1>2, <2>1 DEF Kept, GlobalIsThere, flushVars
<1>5. LoadsAreAlone'
  <2> SUFFICES ASSUME NEW d \in Clients, task'[d] # None,
                      <<task'[d].kind, task'[d].jid>> \notin raced'
               PROVE  /\ cache'[task'[d].kind][task'[d].jid] = Absent
                      /\ \A f \in Clients :
                             task'[f] # None /\ task'[f].kind = task'[d].kind
                                             /\ task'[f].jid = task'[d].jid => f = d
    BY DEF LoadsAreAlone, Loading
  <2> DEFINE q == task[d]
  <2>1. task'[d] = q /\ q # None /\ <<q.kind, q.jid>> \notin raced
    OBVIOUS
  <2>2. ~Loading(d, o) \/ <<o.kind, o.jid>> \in raced
    OBVIOUS
  <2>3. q \in Operation
    BY <2>1 DEF Inv, TypeOK
  <2>4. q.kind \in Kinds /\ q.jid \in Jids
    BY <2>3 DEF Operation
  <2>5. /\ cache[q.kind][q.jid] = Absent
        /\ \A f \in Clients : task[f] # None /\ task[f].kind = q.kind /\ task[f].jid = q.jid
                              => f = d
    BY <2>1 DEF Kept, LoadsAreAlone, Loading
  <2>6. ~(q.kind = o.kind /\ q.jid = o.jid)
    BY <2>1, <2>2 DEF Loading
  <2>7. cache'[q.kind][q.jid] = Absent
    BY <1>2, <2>4, <2>5, <2>6
  <2>8. \A f \in Clients : task'[f] # None => task'[f] = task[f]
    OBVIOUS
  <2>9. QED
    BY <2>1, <2>5, <2>7, <2>8
<1>6. NothingIsLost'
  <2> SUFFICES ASSUME NEW k \in Kinds, NEW j \in Jids, <<k, j>> \notin raced
               PROVE  SameEntry(IF cache'[k][j] # Absent THEN cache'[k][j] ELSE db[k][j],
                                told'[k][j])
    BY DEF NothingIsLost, Lost, Current
  <2>1. CASE k = o.kind /\ j = o.jid
    BY <1>2, <2>1
  <2>2. CASE ~(k = o.kind /\ j = o.jid)
    <3>1. SameEntry(IF cache[k][j] # Absent THEN cache[k][j] ELSE db[k][j], told'[k][j])
      BY <1>2, <2>2, NotLost DEF Kept
    <3>2. <<k, j>> \notin dirty /\ cache[k][j] # Absent => SameEntry(cache[k][j], db[k][j])
      BY DEF Inv, CleanMatches, Matches
    <3>3. CASE cache'[k][j] = cache[k][j]
      BY <3>1, <3>3
    <3>4. CASE cache'[k][j] # cache[k][j]
      <4>1. cache'[k][j] = Absent /\ <<k, j>> \notin dirty /\ cache[k][j] # Absent
        BY <1>2, <2>2, <3>4
      <4>2. SameEntry(cache[k][j], db[k][j]) /\ SameEntry(cache[k][j], told'[k][j])
        BY <3>1, <3>2, <4>1
      <4>3. QED
        BY <4>1, <4>2, SameEntryEquivalence
    <3>5. QED
      BY <3>3, <3>4
  <2>3. QED
    BY <2>1, <2>2
<1>7. UncachedIsLeft'
  <2> SUFFICES ASSUME flush = "writing", NEW k \in Kinds, NEW j \in Jids, cache'[k][j] = Absent
               PROVE  SameEntry(staged[k][j], db[k][j])
    BY DEF UncachedIsLeft, flushVars
  <2>1. ~(k = o.kind /\ j = o.jid)
    BY <1>2
  <2>2. CASE cache[k][j] = Absent
    BY <2>2 DEF Kept, UncachedIsLeft
  <2>3. CASE cache[k][j] # Absent
    <3>1. <<k, j>> \notin dirty
      BY <1>2, <2>1, <2>3
    <3>2. SameEntry(cache[k][j], staged[k][j]) /\ SameEntry(cache[k][j], db[k][j])
      BY <2>3, <3>1 DEF Inv, CleanMatches, Matches
    <3>3. QED
      BY <3>2, SameEntryEquivalence
  <2>4. QED
    BY <2>2, <2>3
<1>8. ClosingWritesAll'
  BY DEF ClosingWritesAll
<1>9. EnsuresAreUsers'
  BY DEF Kept, EnsuresAreUsers
<1>10. QED
  BY <1>3, <1>4, <1>5, <1>6, <1>7, <1>8, <1>9 DEF Kept

-----------------------------------------------------------------------------
(* One lemma per action, again.                                             *)

LEMMA HitKeepsKept ==
    ASSUME Roomy, Inv, Kept, NEW c \in Clients, NEW o \in Operation, Hit(c, o)
    PROVE  Kept'
<1>1. o.kind \in Kinds /\ o.jid \in Jids
  BY DEF Operation
<1> DEFINE e == cache[o.kind][o.jid]
<1>2. /\ mode = "up" /\ e # Absent /\ Perform(o, e)
      /\ UNCHANGED <<db, task, flushVars, mode, attempts, raced, errors, crashes>>
  BY DEF Hit
<1>3. e \in Row
  BY <1>1, <1>2, PresentIsRow DEF Inv, TypeOK
<1>4. SameEntry(e, told[o.kind][o.jid]) \/ <<o.kind, o.jid>> \in raced
  BY <1>1, <1>2, NotLost DEF Kept
<1>5. ASSUME NEW d \in Clients, Loading(d, o) PROVE <<o.kind, o.jid>> \in raced
  <2>1. task[d] # None /\ task[d].kind = o.kind /\ task[d].jid = o.jid
    BY <1>5 DEF Loading
  <2>2. QED
    BY <1>2, <2>1 DEF Kept, LoadsAreAlone
<1> HIDE DEF e
<1>6. QED
  BY <1>2, <1>3, <1>4, <1>5, PerformKeepsKept

LEMMA MissKeepsKept ==
    ASSUME Roomy, Inv, Kept, NEW c \in Clients, NEW o \in Operation, Miss(c, o)
    PROVE  Kept'
<1>1. /\ mode = "up" /\ cache[o.kind][o.jid] = Absent
      /\ task' = [task EXCEPT ![c] = o] /\ raced \subseteq raced'
      /\ (\E d \in Clients : Loading(d, o)) => <<o.kind, o.jid>> \in raced'
      /\ UNCHANGED <<db, memory, flushVars, mode, attempts, told, bounds>>
  BY DEF Miss
<1>2. task' = [d \in Clients |-> IF d = c THEN o ELSE task[d]]
  BY <1>1 DEF Inv, TypeOK
<1>3. LoadsAreAlone'
  <2> SUFFICES ASSUME NEW d \in Clients, task'[d] # None,
                      <<task'[d].kind, task'[d].jid>> \notin raced'
               PROVE  /\ cache'[task'[d].kind][task'[d].jid] = Absent
                      /\ \A f \in Clients :
                             task'[f] # None /\ task'[f].kind = task'[d].kind
                                             /\ task'[f].jid = task'[d].jid => f = d
    BY DEF LoadsAreAlone, Loading
  <2>1. ASSUME NEW f \in Clients, task[f] # None, task[f].kind = o.kind, task[f].jid = o.jid
        PROVE  <<o.kind, o.jid>> \in raced'
    BY <1>1, <2>1 DEF Loading
  <2>2. CASE d = c
    BY <1>1, <1>2, <2>1, <2>2 DEF memory
  <2>3. CASE d # c
    <3>1. task'[d] = task[d] /\ <<task[d].kind, task[d].jid>> \notin raced
      BY <1>1, <1>2, <2>3
    <3>2. /\ cache[task[d].kind][task[d].jid] = Absent
          /\ \A f \in Clients :
                 task[f] # None /\ task[f].kind = task[d].kind
                                /\ task[f].jid = task[d].jid => f = d
      BY <3>1 DEF Kept, LoadsAreAlone, Loading
    <3>3. ~(o.kind = task[d].kind /\ o.jid = task[d].jid)
      BY <2>1, <3>1
    <3>4. QED
      BY <1>1, <1>2, <3>1, <3>2, <3>3 DEF memory
  <2>4. QED
    BY <2>2, <2>3
<1>4. NothingIsLost'
  BY <1>1 DEF Kept, NothingIsLost, Lost, Current, memory
<1>5. DirtyIsCached' /\ GlobalIsThere' /\ UncachedIsLeft' /\ ClosingWritesAll'
  BY <1>1 DEF Kept, DirtyIsCached, GlobalIsThere, UncachedIsLeft, ClosingWritesAll, memory, flushVars
<1>6. EnsuresAreUsers'
  <2>1. o.op = "ensure" => o.kind = "users"
    BY DEF Miss, Wanted
  <2>2. QED
    BY <1>2, <2>1 DEF Kept, EnsuresAreUsers
<1>7. QED
  BY <1>3, <1>4, <1>5, <1>6 DEF Kept

(* A step that changes neither memory nor tables, and ends loads at most.   *)
LEMMA QuietKeepsKept ==
    ASSUME Kept, UNCHANGED <<db, memory, flushVars, told, raced>>,
           mode' = mode \/ (flush = "idle" /\ mode' = "closing"),
           \A d \in Clients : task'[d] = None \/ task'[d] = task[d]
    PROVE  Kept'
<1>1. LoadsAreAlone'
  <2> SUFFICES ASSUME NEW d \in Clients, task'[d] # None,
                      <<task'[d].kind, task'[d].jid>> \notin raced'
               PROVE  /\ cache'[task'[d].kind][task'[d].jid] = Absent
                      /\ \A f \in Clients :
                             task'[f] # None /\ task'[f].kind = task'[d].kind
                                             /\ task'[f].jid = task'[d].jid => f = d
    BY DEF LoadsAreAlone, Loading
  <2>1. task'[d] = task[d] /\ <<task[d].kind, task[d].jid>> \notin raced
    OBVIOUS
  <2>2. /\ cache[task[d].kind][task[d].jid] = Absent
        /\ \A f \in Clients :
               task[f] # None /\ task[f].kind = task[d].kind
                              /\ task[f].jid = task[d].jid => f = d
    BY <2>1 DEF Kept, LoadsAreAlone, Loading
  <2>3. \A f \in Clients : task'[f] # None => task'[f] = task[f]
    OBVIOUS
  <2>4. QED
    BY <2>1, <2>2, <2>3 DEF memory
<1>2. NothingIsLost'
  BY DEF Kept, NothingIsLost, Lost, Current, memory
<1>3. DirtyIsCached' /\ GlobalIsThere' /\ UncachedIsLeft' /\ ClosingWritesAll'
  BY DEF Kept, DirtyIsCached, GlobalIsThere, UncachedIsLeft, ClosingWritesAll, memory, flushVars
<1>4. EnsuresAreUsers'
  BY DEF Kept, EnsuresAreUsers
<1>5. QED
  BY <1>1, <1>2, <1>3, <1>4 DEF Kept

LEMMA CreateKeepsKept ==
    ASSUME Roomy, Inv, Kept, NEW c \in Clients, task[c] # None, task[c].op = "ensure",
           Create(task[c].jid), mode = "up", flush # "writing",
           task' = [task EXCEPT ![c] = None],
           UNCHANGED <<db, flushVars, mode, attempts, raced, errors, crashes>>
    PROVE  Kept'
<1> DEFINE j == task[c].jid
           p == Put(cache, "users", j, Fresh)
<1>1. UNCHANGED <<db, flushVars, mode, attempts, raced, errors, crashes>>
  OBVIOUS
<1>2. task[c] \in Operation /\ task' = [d \in Clients |-> IF d = c THEN None ELSE task[d]]
  BY DEF Inv, TypeOK
<1>3. j \in Jids /\ "users" \in Kinds /\ Fresh \in Values /\ Fresh # Absent
  BY <1>2, RowsArePresent DEF Operation, Kinds
<1>4. /\ p \in Tables
      /\ \A k \in Kinds, i \in Jids :
             p[k][i] = IF k = "users" /\ i = j THEN Fresh ELSE cache[k][i]
  BY <1>3, PutLookup DEF Inv, TypeOK
<1>5. told' = Put(told, "users", j, Fresh) /\ told \in Tables
  BY DEF Create, Put, Inv, TypeOK
<1>6. \A k \in Kinds, i \in Jids :
          told'[k][i] = IF k = "users" /\ i = j THEN Fresh ELSE told[k][i]
  BY <1>3, <1>5, PutLookup
<1>7. cache' \in AfterTouch(p, dirty', "users", j) /\ dirty' = dirty \cup {<<"users", j>>}
  BY DEF Create, MarkDirty
<1> HIDE DEF p
<1>8. Thinned(cache', p) /\ Spared(cache', p, dirty')
  BY <1>4, <1>7, AfterTouchThins, AfterTouchSpares
<1>9. /\ cache'["users"][j] = Fresh
      /\ \A k \in Kinds, i \in Jids : ~(k = "users" /\ i = j) =>
             \/ cache'[k][i] = cache[k][i]
             \/ cache'[k][i] = Absent /\ <<k, i>> \notin dirty /\ ~(k = "runtime" /\ i = Global)
  <2>1. p["users"][j] = Fresh /\ <<"users", j>> \in dirty'
    BY <1>3, <1>4, <1>7
  <2>2. cache'["users"][j] = p["users"][j]
    BY <1>3, <1>8, <2>1 DEF Spared
  <2>3. ASSUME NEW k \in Kinds, NEW i \in Jids, ~(k = "users" /\ i = j)
        PROVE  \/ cache'[k][i] = cache[k][i]
               \/ cache'[k][i] = Absent /\ <<k, i>> \notin dirty /\ ~(k = "runtime" /\ i = Global)
    <3>1. p[k][i] = cache[k][i]
      BY <1>4, <2>3
    <3>2. cache'[k][i] = p[k][i] \/ cache'[k][i] = Absent
      BY <1>8 DEF Thinned
    <3>3. cache'[k][i] # p[k][i] => <<k, i>> \notin dirty' /\ ~(k = "runtime" /\ i = Global)
      BY <1>8 DEF Spared
    <3>4. QED
      BY <1>7, <3>1, <3>2, <3>3
  <2>4. QED
    BY <2>1, <2>2, <2>3
<1> HIDE DEF j
<1>10. DirtyIsCached'
  <2> SUFFICES ASSUME NEW x \in dirty' PROVE cache'[x[1]][x[2]] # Absent
    BY DEF DirtyIsCached
  <2>1. CASE x = <<"users", j>>
    BY <1>3, <1>9, <2>1
  <2>2. CASE x # <<"users", j>>
    <3>1. x \in dirty
      BY <1>7, <2>2
    <3>2. PICK k \in Kinds, i \in Jids : x = <<k, i>>
      BY <3>1 DEF Inv, TypeOK, Entries
    <3>3. cache[k][i] # Absent
      BY <3>1, <3>2 DEF Kept, DirtyIsCached
    <3>4. QED
      BY <1>9, <2>2, <3>1, <3>2, <3>3
  <2>3. QED
    BY <2>1, <2>2
<1>11. GlobalIsThere'
  <2>1. "runtime" \in Kinds /\ Global \in Jids /\ "runtime" # "users"
    BY UserStoreAssumption DEF Kinds
  <2>2. QED
    BY <1>1, <1>9, <2>1 DEF Kept, GlobalIsThere, flushVars
<1>12. LoadsAreAlone'
  <2> SUFFICES ASSUME NEW d \in Clients, task'[d] # None,
                      <<task'[d].kind, task'[d].jid>> \notin raced'
               PROVE  /\ cache'[task'[d].kind][task'[d].jid] = Absent
                      /\ \A f \in Clients :
                             task'[f] # None /\ task'[f].kind = task'[d].kind
                                             /\ task'[f].jid = task'[d].jid => f = d
    BY DEF LoadsAreAlone, Loading
  <2>1. d # c /\ task'[d] = task[d] /\ <<task[d].kind, task[d].jid>> \notin raced
    BY <1>1, <1>2
  <2>2. /\ cache[task[d].kind][task[d].jid] = Absent
        /\ \A f \in Clients :
               task[f] # None /\ task[f].kind = task[d].kind
                              /\ task[f].jid = task[d].jid => f = d
    BY <2>1 DEF Kept, LoadsAreAlone, Loading
  <2>3. \A f \in Clients : task'[f] # None => task'[f] = task[f]
    BY <1>2
  <2>4. task[d].kind \in Kinds /\ task[d].jid \in Jids
    BY <2>1 DEF Inv, TypeOK, Operation
  <2>5. task[c].kind = "users" /\ task[c].jid = j
    BY DEF Kept, EnsuresAreUsers, j
  <2>6. ~(task[d].kind = "users" /\ task[d].jid = j)
    BY <2>1, <2>2, <2>5
  <2>7. QED
    BY <1>9, <2>1, <2>2, <2>3, <2>4, <2>6
<1>13. NothingIsLost'
  <2> SUFFICES ASSUME NEW k \in Kinds, NEW i \in Jids, <<k, i>> \notin raced
               PROVE  SameEntry(IF cache'[k][i] # Absent THEN cache'[k][i] ELSE db[k][i],
                                told'[k][i])
    BY <1>1 DEF NothingIsLost, Lost, Current
  <2>1. CASE k = "users" /\ i = j
    BY <1>3, <1>6, <1>9, <2>1, SameEntryReflexive
  <2>2. CASE ~(k = "users" /\ i = j)
    <3>1. SameEntry(IF cache[k][i] # Absent THEN cache[k][i] ELSE db[k][i], told'[k][i])
      BY <1>6, <2>2, NotLost DEF Kept
    <3>2. <<k, i>> \notin dirty /\ cache[k][i] # Absent => SameEntry(cache[k][i], db[k][i])
      BY DEF Inv, CleanMatches, Matches
    <3>3. CASE cache'[k][i] = cache[k][i]
      BY <3>1, <3>3
    <3>4. CASE cache'[k][i] # cache[k][i]
      BY <1>9, <2>2, <3>1, <3>2, <3>4, SameEntryEquivalence
    <3>5. QED
      BY <3>3, <3>4
  <2>3. QED
    BY <2>1, <2>2
<1>14. UncachedIsLeft' /\ ClosingWritesAll'
  BY <1>1 DEF UncachedIsLeft, ClosingWritesAll, flushVars
<1>15. EnsuresAreUsers'
  BY <1>2 DEF Kept, EnsuresAreUsers
<1>16. QED
  BY <1>10, <1>11, <1>12, <1>13, <1>14, <1>15 DEF Kept

LEMMA LoadedKeepsKept ==
    ASSUME Roomy, Inv, Kept, NEW c \in Clients, Loaded(c)
    PROVE  Kept'
<1> DEFINE o == task[c]
           row == db[o.kind][o.jid]
<1>1. /\ o # None /\ mode = "up"
      /\ task' = [task EXCEPT ![c] = None]
      /\ UNCHANGED <<db, flushVars, mode, attempts, raced, errors, crashes>>
  BY DEF Loaded
<1>2. o \in Operation /\ task' = [d \in Clients |-> IF d = c THEN None ELSE task[d]]
  BY <1>1 DEF Inv, TypeOK
<1>3. o.kind \in Kinds /\ o.jid \in Jids
  BY <1>2 DEF Operation
<1>4. <<o.kind, o.jid>> \notin raced =>
          cache[o.kind][o.jid] = Absent /\ \A d \in Clients : Loading(d, o) => d = c
  BY <1>1 DEF Kept, LoadsAreAlone
<1>5. SameEntry(row, told[o.kind][o.jid]) \/ <<o.kind, o.jid>> \in raced
  BY <1>3, <1>4, NotLost DEF Kept
<1>6. \A d \in Clients :
          \/ task'[d] = None
          \/ /\ task'[d] = task[d]
             /\ ~Loading(d, o) \/ <<o.kind, o.jid>> \in raced
  BY <1>2, <1>4
<1>7. CASE row # Absent /\ Perform(o, row)
  <2>1. row \in Row
    BY <1>3, <1>7, PresentIsRow DEF Inv, TypeOK
  <2> HIDE DEF o, row
  <2>2. QED
    BY <1>1, <1>2, <1>5, <1>6, <1>7, <2>1, PerformKeepsKept
<1>8. CASE row = Absent /\ Perform(o, Fresh)
  <2>1. Fresh \in Row
    BY RowsArePresent
  <2>2. SameEntry(Fresh, Absent)
    BY DEF SameEntry
  <2>3. SameEntry(Fresh, told[o.kind][o.jid]) \/ <<o.kind, o.jid>> \in raced
    BY <1>5, <1>8, <2>2, SameEntryEquivalence
  <2> HIDE DEF o, row
  <2>4. QED
    BY <1>1, <1>2, <1>6, <1>8, <2>1, <2>3, PerformKeepsKept
<1>9. CASE UNCHANGED <<memory, told, changes>>
  BY <1>1, <1>2, <1>9, QuietKeepsKept
<1>10. CASE o.op = "ensure" /\ Create(o.jid)
  <2>1. flush # "writing"
    BY DEF Loaded
  <2>2. QED
    BY <1>1, <1>2, <1>10, <2>1, CreateKeepsKept
<1>11. QED
  BY <1>7, <1>8, <1>9, <1>10 DEF Loaded

LEMMA InitKept == Init => Kept
<1> SUFFICES ASSUME Init PROVE Kept
  OBVIOUS
<1>1. "runtime" \in Kinds /\ Global \in Jids /\ Fresh # Absent
  BY UserStoreAssumption, RowsArePresent DEF Kinds
<1>2. db["runtime"][Global] = Fresh /\ cache["runtime"][Global] = Fresh
  BY <1>1 DEF Init
<1>3. \A k \in Kinds, j \in Jids : cache[k][j] # Absent =>
          k = "runtime" /\ j = Global /\ cache[k][j] = Fresh
  BY DEF Init
<1>4. NothingIsLost
  BY <1>2, <1>3, SameEntryReflexive DEF Init, NothingIsLost, Lost, Current
<1>5. GlobalIsThere
  BY <1>1, <1>2 DEF Init, GlobalIsThere
<1>6. DirtyIsCached /\ LoadsAreAlone /\ EnsuresAreUsers /\ UncachedIsLeft /\ ClosingWritesAll
  BY DEF Init, DirtyIsCached, LoadsAreAlone, EnsuresAreUsers, UncachedIsLeft, ClosingWritesAll
<1>7. QED
  BY <1>4, <1>5, <1>6 DEF Kept

LEMMA DeleteKeepsKept ==
    ASSUME Inv, Kept, NEW j \in Jids, Delete(j)
    PROVE  Kept'
<1> DEFINE both == Kinds \X {j}
<1>1. \A k \in Kinds, i \in Jids : <<k, i>> \in both <=> i = j
  OBVIOUS
<1>2. /\ db' = Without(db, both) /\ cache' = Without(cache, both) /\ told' = Without(told, both)
      /\ dirty' = dirty \ both /\ raced \subseteq raced'
      /\ j # Global /\ mode = "up" /\ flush # "writing"
      /\ UNCHANGED <<task, flush, snapshot, todo, mode, attempts, bounds>>
  BY DEF Delete, Uncached, Unmarked
<1> HIDE DEF both
<1>3. /\ db \in Tables /\ cache \in Tables /\ told \in Tables /\ dirty \subseteq Entries
      /\ task \in [Clients -> Operation \cup {None}]
  BY DEF Inv, TypeOK
<1>4. \A k \in Kinds, i \in Jids :
          /\ db'[k][i] = IF i = j THEN Absent ELSE db[k][i]
          /\ cache'[k][i] = IF i = j THEN Absent ELSE cache[k][i]
          /\ told'[k][i] = IF i = j THEN Absent ELSE told[k][i]
  <2>1. /\ db' \in Tables
        /\ \A k \in Kinds, i \in Jids :
               db'[k][i] = IF <<k, i>> \in both THEN Absent ELSE db[k][i]
    BY <1>2, <1>3, WithoutLookup
  <2>2. /\ cache' \in Tables
        /\ \A k \in Kinds, i \in Jids :
               cache'[k][i] = IF <<k, i>> \in both THEN Absent ELSE cache[k][i]
    BY <1>2, <1>3, WithoutLookup
  <2>3. /\ told' \in Tables
        /\ \A k \in Kinds, i \in Jids :
               told'[k][i] = IF <<k, i>> \in both THEN Absent ELSE told[k][i]
    BY <1>2, <1>3, WithoutLookup
  <2>4. QED
    BY <1>1, <2>1, <2>2, <2>3
<1>5. DirtyIsCached'
  <2> SUFFICES ASSUME NEW x \in dirty' PROVE cache'[x[1]][x[2]] # Absent
    BY DEF DirtyIsCached
  <2>1. PICK k \in Kinds, i \in Jids : x = <<k, i>>
    BY <1>2, <1>3 DEF Entries
  <2>2. cache[k][i] # Absent /\ i # j
    BY <1>1, <1>2, <2>1 DEF Kept, DirtyIsCached
  <2>3. QED
    BY <1>4, <2>1, <2>2
<1>6. GlobalIsThere'
  BY <1>2, <1>4, UserStoreAssumption DEF Kept, GlobalIsThere, Kinds
<1>7. LoadsAreAlone'
  <2> SUFFICES ASSUME NEW d \in Clients, task[d] # None,
                      <<task[d].kind, task[d].jid>> \notin raced
               PROVE  /\ cache'[task[d].kind][task[d].jid] = Absent
                      /\ \A f \in Clients :
                             task[f] # None /\ task[f].kind = task[d].kind
                                            /\ task[f].jid = task[d].jid => f = d
    BY <1>2 DEF LoadsAreAlone, Loading
  <2>1. task[d].kind \in Kinds /\ task[d].jid \in Jids
    BY <1>3 DEF Operation
  <2>2. QED
    BY <1>4, <2>1 DEF Kept, LoadsAreAlone, Loading
<1>8. NothingIsLost'
  <2> SUFFICES ASSUME NEW k \in Kinds, NEW i \in Jids, <<k, i>> \notin raced
               PROVE  SameEntry(IF cache'[k][i] # Absent THEN cache'[k][i] ELSE db'[k][i],
                                told'[k][i])
    BY <1>2 DEF NothingIsLost, Lost, Current
  <2>1. SameEntry(IF cache[k][i] # Absent THEN cache[k][i] ELSE db[k][i], told[k][i])
    BY NotLost DEF Kept
  <2>2. QED
    BY <1>4, <2>1, SameEntryReflexive
<1>9. EnsuresAreUsers' /\ UncachedIsLeft' /\ ClosingWritesAll'
  BY <1>2 DEF Kept, EnsuresAreUsers, UncachedIsLeft, ClosingWritesAll
<1>10. QED
  BY <1>5, <1>6, <1>7, <1>8, <1>9 DEF Kept

(* The steps of a flush before it ends: neither memory nor what is known    *)
(* changes but for dirty marks.                                             *)
LEMMA WritingKeepsKept ==
    ASSUME Kept, UNCHANGED <<db, cache, task, mode, ghosts>>,
           DirtyIsCached', GlobalIsThere', UncachedIsLeft', ClosingWritesAll'
    PROVE  Kept'
<1>1. LoadsAreAlone' /\ EnsuresAreUsers' /\ NothingIsLost'
  BY DEF Kept, LoadsAreAlone, Loading, EnsuresAreUsers, NothingIsLost, Lost, Current, ghosts
<1>2. QED
  BY <1>1 DEF Kept

LEMMA FlushBeginKeepsKept ==
    ASSUME Kept, FlushBegin
    PROVE  Kept'
<1>1. /\ dirty' = dirty \cup {<<"runtime", Global>>} /\ unchanged' = dirty' /\ flush' = "waiting"
      /\ mode \in {"up", "closing"} /\ UNCHANGED <<db, cache, task, mode, ghosts>>
  BY DEF FlushBegin, Flushing, ghosts
<1>2. DirtyIsCached'
  BY <1>1 DEF Kept, DirtyIsCached, GlobalIsThere
<1>3. GlobalIsThere' /\ UncachedIsLeft' /\ ClosingWritesAll'
  BY <1>1 DEF Kept, GlobalIsThere, UncachedIsLeft, ClosingWritesAll
<1>4. QED
  BY <1>1, <1>2, <1>3, WritingKeepsKept

LEMMA FlushOpensKeepsKept ==
    ASSUME Kept, FlushOpens
    PROVE  Kept'
<1>1. /\ flush = "waiting" /\ flush' = "writing" /\ staged' = db
      /\ UNCHANGED <<db, cache, dirty, unchanged, task, mode, ghosts>>
  BY DEF FlushOpens, memory, ghosts
<1>2. DirtyIsCached' /\ GlobalIsThere' /\ ClosingWritesAll'
  BY <1>1 DEF Kept, DirtyIsCached, GlobalIsThere, ClosingWritesAll
<1>3. UncachedIsLeft'
  BY <1>1, SameEntryReflexive DEF UncachedIsLeft
<1>4. QED
  BY <1>1, <1>2, <1>3, WritingKeepsKept

LEMMA WriteUserKeepsKept ==
    ASSUME Inv, Kept, NEW j \in Jids, WriteUser(j)
    PROVE  Kept'
<1>1. "users" \in Kinds /\ "runtime" \in Kinds /\ Global \in Jids
  BY UserStoreAssumption DEF Kinds
<1>2. cache["users"][j] \in Values /\ staged \in Tables
  BY <1>1 DEF Inv, TypeOK, Tables
<1>3. \A k \in Kinds, i \in Jids :
          staged'[k][i] = IF k = "users" /\ i = j /\ cache[k][i] # Absent
                          THEN cache[k][i] ELSE staged[k][i]
  <2>1. CASE cache["users"][j] = Absent
    BY <1>2, <2>1 DEF WriteUser
  <2>2. CASE cache["users"][j] # Absent
    BY <1>1, <1>2, <2>2, PutLookup DEF WriteUser
  <2>3. QED
    BY <2>1, <2>2
<1>4. /\ flush = "writing" /\ flush' = flush
      /\ UNCHANGED <<db, cache, dirty, unchanged, task, mode, ghosts>>
  BY DEF WriteUser, memory, ghosts
<1>5. DirtyIsCached' /\ ClosingWritesAll'
  BY <1>4 DEF Kept, DirtyIsCached, ClosingWritesAll
<1>6. GlobalIsThere' /\ UncachedIsLeft'
  BY <1>1, <1>3, <1>4 DEF Kept, GlobalIsThere, UncachedIsLeft
<1>7. QED
  BY <1>4, <1>5, <1>6, WritingKeepsKept

(* A row that is not skipped is cached, so that what is written is it.      *)
LEMMA WriteRuntimeKeepsKept ==
    ASSUME Inv, Kept, NEW j \in Jids, WriteRuntime(j)
    PROVE  Kept'
<1>1. "users" \in Kinds /\ "runtime" \in Kinds /\ Global \in Jids
  BY UserStoreAssumption DEF Kinds
<1>2. cache["runtime"][j] \in Values /\ staged \in Tables
  BY <1>1 DEF Inv, TypeOK, Tables
<1>3. Skipped(j) <=> cache["runtime"][j] = Absent
  BY DEF Skipped, Kept, DirtyIsCached
<1>4. staged' = IF Skipped(j) THEN staged ELSE Put(staged, "runtime", j, cache["runtime"][j])
  BY <1>3 DEF WriteRuntime
<1>5. \A k \in Kinds, i \in Jids :
          staged'[k][i] = IF k = "runtime" /\ i = j /\ cache[k][i] # Absent
                          THEN cache[k][i] ELSE staged[k][i]
  <2>1. CASE Skipped(j)
    BY <1>3, <1>4, <2>1
  <2>2. CASE ~Skipped(j)
    BY <1>1, <1>2, <1>3, <1>4, <2>2, PutLookup
  <2>3. QED
    BY <2>1, <2>2
<1>6. /\ flush = "writing" /\ flush' = flush
      /\ UNCHANGED <<db, cache, dirty, unchanged, task, mode, ghosts>>
  BY DEF WriteRuntime, memory, ghosts
<1>7. DirtyIsCached' /\ ClosingWritesAll'
  BY <1>6 DEF Kept, DirtyIsCached, ClosingWritesAll
<1>8. GlobalIsThere' /\ UncachedIsLeft'
  BY <1>1, <1>5, <1>6 DEF Kept, GlobalIsThere, UncachedIsLeft
<1>9. QED
  BY <1>6, <1>7, <1>8, WritingKeepsKept

(* The tables take over what was written; what leaves the cache now is in   *)
(* them.                                                                    *)
LEMMA FlushCommitsKeepsKept ==
    ASSUME Inv, Kept, FlushCommits
    PROVE  Kept'
<1>1. /\ flush = "writing" /\ todo = {} /\ flush' = "idle" /\ db' = staged
      /\ dirty' = dirty \ unchanged
      /\ mode' = IF mode = "closing" THEN "closed" ELSE mode
      /\ UNCHANGED <<task, told, raced>>
      /\ cache' \in Pruned(cache, dirty', "users", None)
  BY DEF FlushCommits, FlushEnds, ClearFlushedDirty, ghosts
<1>2. /\ cache \in Tables /\ dirty \subseteq Entries
      /\ task \in [Clients -> Operation \cup {None}]
  BY DEF Inv, TypeOK
<1>3. Thinned(cache', cache) /\ Spared(cache', cache, dirty')
  BY <1>1, <1>2, PrunedThins, PrunedSpares
<1>4. \A k \in Kinds, j \in Jids :
          \/ cache'[k][j] = cache[k][j]
          \/ /\ cache'[k][j] = Absent /\ <<k, j>> \notin dirty'
             /\ ~(k = "runtime" /\ j = Global)
  BY <1>3 DEF Thinned, Spared
<1>5. DirtyIsCached'
  <2> SUFFICES ASSUME NEW x \in dirty' PROVE cache'[x[1]][x[2]] # Absent
    BY DEF DirtyIsCached
  <2>1. x \in dirty
    BY <1>1
  <2>2. PICK k \in Kinds, j \in Jids : x = <<k, j>>
    BY <1>2, <2>1 DEF Entries
  <2>3. cache[k][j] # Absent
    BY <2>1, <2>2 DEF Kept, DirtyIsCached
  <2>4. QED
    BY <1>4, <2>2, <2>3
<1>6. GlobalIsThere'
  BY <1>1, <1>4, UserStoreAssumption DEF Kept, GlobalIsThere, Kinds
<1>7. LoadsAreAlone'
  <2> SUFFICES ASSUME NEW d \in Clients, task[d] # None,
                      <<task[d].kind, task[d].jid>> \notin raced
               PROVE  /\ cache'[task[d].kind][task[d].jid] = Absent
                      /\ \A f \in Clients :
                             task[f] # None /\ task[f].kind = task[d].kind
                                            /\ task[f].jid = task[d].jid => f = d
    BY <1>1 DEF LoadsAreAlone, Loading
  <2>1. task[d].kind \in Kinds /\ task[d].jid \in Jids
    BY <1>2 DEF Operation
  <2>2. QED
    BY <1>4, <2>1 DEF Kept, LoadsAreAlone, Loading
<1>8. NothingIsLost'
  <2> SUFFICES ASSUME NEW k \in Kinds, NEW j \in Jids, <<k, j>> \notin raced
               PROVE  SameEntry(IF cache'[k][j] # Absent THEN cache'[k][j] ELSE staged[k][j],
                                told[k][j])
    BY <1>1 DEF NothingIsLost, Lost, Current
  <2>1. SameEntry(IF cache[k][j] # Absent THEN cache[k][j] ELSE db[k][j], told[k][j])
    BY NotLost DEF Kept
  <2>2. CASE cache[k][j] = Absent
    <3>1. SameEntry(staged[k][j], db[k][j])
      BY <1>1, <2>2 DEF Kept, UncachedIsLeft
    <3>2. cache'[k][j] = Absent
      BY <1>4, <2>2
    <3>3. QED
      BY <2>1, <2>2, <3>1, <3>2, SameEntryEquivalence
  <2>3. CASE cache[k][j] # Absent /\ cache'[k][j] = cache[k][j]
    BY <2>1, <2>3
  <2>4. CASE cache[k][j] # Absent /\ cache'[k][j] # cache[k][j]
    <3>1. cache'[k][j] = Absent /\ (<<k, j>> \notin dirty \/ <<k, j>> \in unchanged)
      BY <1>1, <1>4, <2>4
    <3>2. SameEntry(cache[k][j], staged[k][j])
      BY <1>1, <2>4, <3>1 DEF Inv, CleanMatches, Matches
    <3>3. QED
      BY <2>1, <2>4, <3>1, <3>2, SameEntryEquivalence
  <2>5. QED
    BY <2>2, <2>3, <2>4
<1>9. UncachedIsLeft' /\ EnsuresAreUsers'
  BY <1>1 DEF Kept, UncachedIsLeft, EnsuresAreUsers
<1>10. ClosingWritesAll'
  BY <1>1 DEF Kept, ClosingWritesAll
<1>11. QED
  BY <1>5, <1>6, <1>7, <1>8, <1>9, <1>10 DEF Kept

LEMMA FlushFailsKeepsKept ==
    ASSUME Kept, FlushFails
    PROVE  Kept'
<1>1. /\ flush = "writing" /\ flush' = "idle"
      /\ mode' = mode \/ mode' = "failed"
      /\ UNCHANGED <<db, cache, dirty, task, told, raced>>
  BY DEF FlushFails, ghosts
<1>2. DirtyIsCached' /\ GlobalIsThere' /\ UncachedIsLeft' /\ ClosingWritesAll'
  BY <1>1 DEF Kept, DirtyIsCached, GlobalIsThere, UncachedIsLeft, ClosingWritesAll
<1>3. LoadsAreAlone' /\ EnsuresAreUsers' /\ NothingIsLost'
  BY <1>1 DEF Kept, LoadsAreAlone, Loading, EnsuresAreUsers, NothingIsLost, Lost, Current
<1>4. QED
  BY <1>2, <1>3 DEF Kept

LEMMA CloseKeepsKept ==
    ASSUME Kept, Close
    PROVE  Kept'
<1>1. /\ flush = "idle" /\ mode' = "closing" /\ task' = [c \in Clients |-> None]
      /\ UNCHANGED <<db, memory, flushVars, told, raced>>
  BY DEF Close, ghosts
<1>2. QED
  BY <1>1, QuietKeepsKept

LEMMA RestartKeepsKept ==
    ASSUME Inv, Kept, Restart
    PROVE  Kept'
<1>1. "runtime" \in Kinds /\ Global \in Jids
  BY UserStoreAssumption DEF Kinds
<1>2. /\ cache' = [k \in Kinds |-> [j \in Jids |->
                     IF k = "runtime" /\ j = Global THEN db[k][j] ELSE Absent]]
      /\ dirty' = {} /\ task' = [c \in Clients |-> None] /\ flush' = "idle"
      /\ mode' = "up" /\ told' = db /\ db' = db
  BY DEF Restart
<1>3. DirtyIsCached' /\ LoadsAreAlone' /\ EnsuresAreUsers' /\ UncachedIsLeft'
      /\ ClosingWritesAll'
  BY <1>2 DEF DirtyIsCached, LoadsAreAlone, EnsuresAreUsers, UncachedIsLeft, ClosingWritesAll
<1>4. GlobalIsThere'
  BY <1>1, <1>2 DEF Kept, GlobalIsThere
<1>5. \A k \in Kinds, j \in Jids : cache'[k][j] = db[k][j] \/ cache'[k][j] = Absent
  BY <1>2
<1>6. NothingIsLost'
  BY <1>2, <1>5, SameEntryReflexive DEF NothingIsLost, Lost, Current
<1>7. QED
  BY <1>3, <1>4, <1>6 DEF Kept

LEMMA NextKeepsKept ==
    ASSUME Roomy, Inv, Kept, [Next]_vars
    PROVE  Kept'
<1>1. ASSUME NEW c \in Clients, NEW o \in Operation, Hit(c, o) \/ Miss(c, o) PROVE Kept'
  BY <1>1, HitKeepsKept, MissKeepsKept
<1>2. ASSUME NEW c \in Clients, Loaded(c) PROVE Kept'
  BY <1>2, LoadedKeepsKept
<1>3. ASSUME NEW j \in Jids, Delete(j) PROVE Kept'
  BY <1>3, DeleteKeepsKept
<1>4. CASE FlushStep
  BY <1>4, FlushOpensKeepsKept, WriteUserKeepsKept, WriteRuntimeKeepsKept,
     FlushCommitsKeepsKept, FlushFailsKeepsKept DEF FlushStep
<1>5. CASE FlushBegin \/ Close \/ Restart
  BY <1>5, FlushBeginKeepsKept, CloseKeepsKept, RestartKeepsKept
<1>6. CASE UNCHANGED vars
  BY <1>6, QuietKeepsKept DEF vars, ghosts
<1>7. QED
  BY <1>1, <1>2, <1>3, <1>4, <1>5, <1>6 DEF Next

-----------------------------------------------------------------------------
(* The theorems about caches with room for everybody.                       *)

(* What is not dirty is in the database as it is in the cache, and what is  *)
(* dirty is cached: no flush finds an entry it promised to write gone.      *)
(* (_flush_users_to, _prune_one_cache)                                      *)
THEOREM StoreIsAlwaysConsistent ==
    ASSUME Roomy
    PROVE  Spec => []StoreIsConsistent
<1>1. Inv /\ Kept /\ [Next]_vars => (Inv /\ Kept)'
  BY NextKeepsInv, NextKeepsKept
<1>2. Inv /\ Kept => StoreIsConsistent
  BY DEF Inv, Kept, CleanMatches, Matches, CleanIsPersisted, StoreIsConsistent
<1>3. QED
  BY <1>1, <1>2, InitInv, InitKept, PTL DEF Spec

(* A change is lost only to a second load of the same row or to a delete    *)
(* while it loads, whatever flushes, retries and evictions do; and close()  *)
(* that returns has written all the others.                                 *)
(* (PluginRuntimeStore, DatabaseManager.close)                              *)
THEOREM UpdatesAreAlwaysKept ==
    ASSUME Roomy
    PROVE  Spec => []UpdatesAreKept
<1>1. Inv /\ Kept /\ [Next]_vars => (Inv /\ Kept)'
  BY NextKeepsInv, NextKeepsKept
<1>2. ASSUME Inv, Kept PROVE UpdatesAreKept
  <2>1. OnlyRacedUpdatesAreLost
    BY <1>2 DEF Kept, NothingIsLost, OnlyRacedUpdatesAreLost
  <2>2. ASSUME mode = "closed", NEW k \in Kinds, NEW j \in Jids, <<k, j>> \notin raced
        PROVE  SameEntry(db[k][j], told[k][j])
    <3>1. dirty = {}
      BY <1>2, <2>2 DEF Kept, ClosingWritesAll
    <3>2. SameEntry(IF cache[k][j] # Absent THEN cache[k][j] ELSE db[k][j], told[k][j])
      BY <1>2, <2>2, NotLost DEF Kept
    <3>3. cache[k][j] # Absent => SameEntry(cache[k][j], db[k][j])
      BY <1>2, <3>1 DEF Inv, CleanMatches, Matches
    <3>4. QED
      BY <3>2, <3>3, SameEntryEquivalence
  <2>3. CloseSavesAll
    BY <2>2 DEF CloseSavesAll
  <2>4. QED
    BY <2>1, <2>3 DEF UpdatesAreKept
<1>3. QED
  BY <1>1, <1>2, InitInv, InitKept, PTL DEF Spec

-----------------------------------------------------------------------------
(* The constants and variables of GameLoop and GameExport; a save of the    *)
(* game is one commit of the database.                                      *)
CONSTANTS Actors, MaxTime, MaxLoops, MaxOps, MaxFaults
VARIABLES enabled, loaded, room, alive, created, lock, actor, clock, lastTick, credited, watched,
          crossed, ops, faults
Loop == INSTANCE GameLoop

CONSTANTS Workers, Free, MaxCommits
VARIABLES commits, cursor, waits, thread, disk, generation, abandoned
Site == INSTANCE GameExport

-----------------------------------------------------------------------------
(* GameLoop: only the time in which a room was watched counts.              *)

LoopPlaces == {"idle", "sync", "wait", "checkpoint", "save", "cancel"}
LoopActor == [pc : LoopPlaces, lock : 0 .. (MaxOps + 1), goal : Loop!Goals]

LEMMA LoopTypes ==
    ASSUME Loop!GameLoopAssumption, Loop!TypeOK
    PROVE  /\ MaxLoops \in Nat /\ MaxTime \in Nat /\ MaxOps \in Nat /\ MaxFaults \in Nat
           /\ room \in 0 .. MaxLoops /\ alive \subseteq 1 .. MaxLoops /\ created \in 0 .. MaxLoops
           /\ lock \in 0 .. (MaxOps + 1) /\ actor \in [Actors -> LoopActor]
           /\ clock \in 0 .. MaxTime /\ lastTick \in 0 .. MaxTime
           /\ credited \in 0 .. MaxTime /\ watched \in 0 .. MaxTime
           /\ ops \in 0 .. MaxOps /\ faults \in 0 .. MaxFaults
  BY DEF Loop!GameLoopAssumption, Loop!TypeOK, LoopActor, LoopPlaces

LEMMA LoopBooleans ==
    ASSUME Loop!TypeOK
    PROVE  enabled \in BOOLEAN /\ loaded \in BOOLEAN /\ crossed \in BOOLEAN
  BY Zenon DEF Loop!TypeOK

LEMMA LoopTypesHold ==
    ASSUME enabled' \in BOOLEAN, loaded' \in BOOLEAN, crossed' \in BOOLEAN,
           room' \in 0 .. MaxLoops, alive' \subseteq 1 .. MaxLoops, created' \in 0 .. MaxLoops,
           lock' \in 0 .. (MaxOps + 1), actor' \in [Actors -> LoopActor],
           clock' \in 0 .. MaxTime, lastTick' \in 0 .. MaxTime,
           credited' \in 0 .. MaxTime, watched' \in 0 .. MaxTime,
           ops' \in 0 .. MaxOps, faults' \in 0 .. MaxFaults
    PROVE  Loop!TypeOK'
  BY Zenon DEF Loop!TypeOK, LoopActor, LoopPlaces

(* Actors: each has a place, a lock and a goal; a step changes one of them. *)
LEMMA ActorIs ==
    ASSUME Loop!GameLoopAssumption, Loop!TypeOK, NEW a \in Actors
    PROVE  actor[a].pc \in LoopPlaces /\ actor[a].lock \in 0 .. (MaxOps + 1) /\ actor[a].goal \in Loop!Goals
<1>1. actor[a] \in LoopActor
  BY LoopTypes
<1> QED BY <1>1 DEF LoopActor

LEMMA IdleIs ==
    ASSUME Loop!GameLoopAssumption
    PROVE  Loop!Idle \in LoopActor /\ Loop!Idle.pc = "idle"
  BY DEF Loop!GameLoopAssumption, Loop!Idle, LoopActor, LoopPlaces, Loop!Goals

LEMMA ActorBecomes ==
    ASSUME Loop!GameLoopAssumption, Loop!TypeOK, NEW a \in Actors, NEW r \in LoopActor,
           actor' = [actor EXCEPT ![a] = r]
    PROVE  /\ actor' \in [Actors -> LoopActor] /\ actor'[a] = r
           /\ \A b \in Actors \ {a} : actor'[b] = actor[b]
  BY LoopTypes

LEMMA ActorGoes ==
    ASSUME Loop!GameLoopAssumption, Loop!TypeOK, NEW a \in Actors, NEW p \in LoopPlaces, Loop!Goes(a, p)
    PROVE  /\ actor' \in [Actors -> LoopActor] /\ actor'[a].pc = p /\ actor'[a].goal = actor[a].goal
           /\ \A b \in Actors \ {a} : actor'[b] = actor[b]
<1>1. actor \in [Actors -> LoopActor]
  BY LoopTypes
<1>2. [actor[a] EXCEPT !.pc = p] \in LoopActor
  BY <1>1 DEF LoopActor
<1>3. actor' = [actor EXCEPT ![a] = [actor[a] EXCEPT !.pc = p]]
  BY DEF Loop!Goes
<1>4. [actor[a] EXCEPT !.pc = p].pc = p /\ [actor[a] EXCEPT !.pc = p].goal = actor[a].goal
  BY <1>1 DEF LoopActor
<1> QED BY <1>1, <1>2, <1>3, <1>4

LEMMA ActorEnsures ==
    ASSUME Loop!GameLoopAssumption, Loop!TypeOK, NEW a \in Actors, Loop!Ensures(a)
    PROVE  /\ actor' \in [Actors -> LoopActor] /\ actor'[a].pc = "wait"
           /\ \A b \in Actors \ {a} : actor'[b] = actor[b]
<1>1. actor \in [Actors -> LoopActor] /\ lock \in 0 .. (MaxOps + 1)
  BY LoopTypes
<1>2. PICK r : r = [[actor[a] EXCEPT !.pc = "wait"] EXCEPT !.lock = lock]
  OBVIOUS
<1>3. r \in LoopActor /\ r.pc = "wait"
  BY <1>1, <1>2 DEF LoopActor, LoopPlaces
<1>4. actor' = [actor EXCEPT ![a] = r]
  BY <1>1, <1>2 DEF Loop!Ensures, LoopActor
<1> QED BY <1>3, <1>4, ActorBecomes

(* What the parts of the invariant say, and when a step leaves them.        *)
LEMMA WatchedFacts ==
    ASSUME Loop!GameLoopAssumption, Loop!TypeOK, Loop!WatchedInv
    PROVE  /\ clock \in Nat /\ lastTick \in Nat /\ credited \in Nat /\ watched \in Nat
           /\ lastTick <= clock /\ credited <= watched /\ watched <= clock /\ clock <= MaxTime
           /\ alive # {} \/ (\E a \in Actors : actor[a].pc = "checkpoint") =>
                  credited + clock - lastTick <= watched
  BY LoopTypes DEF Loop!WatchedInv

(* No time passes, and no loop comes that was not being started.            *)
LEMMA WatchStays ==
    ASSUME Loop!WatchedInv, UNCHANGED <<clock, lastTick, credited, watched>>,
           \/ alive' = {}
           \/ alive # {}
           \/ \E a \in Actors : actor[a].pc = "checkpoint",
           \A a \in Actors : actor'[a].pc = "checkpoint" => actor[a].pc = "checkpoint"
    PROVE  Loop!WatchedInv'
  BY DEF Loop!WatchedInv

(* The clock of the room is set.                                            *)
LEMMA WatchBegins ==
    ASSUME Loop!GameLoopAssumption, Loop!TypeOK, Loop!WatchedInv, UNCHANGED <<clock, credited, watched>>, lastTick' = clock
    PROVE  Loop!WatchedInv' /\ lastTick' \in 0 .. MaxTime
  BY WatchedFacts, LoopTypes DEF Loop!WatchedInv

(* Whoever begins while another one is at work crosses it; else it is alone.*)
LEMMA BeginsAlone ==
    ASSUME Loop!TypeOK, Loop!AloneInv, NEW a \in Actors, Loop!Crossed(a), ~Loop!Busy(a)
    PROVE  /\ crossed' \in BOOLEAN
           /\ ~crossed' => /\ alive = {room} \ {0} /\ \A b \in Actors : ~Loop!Busy(b)
                           /\ Loop!Settled
<1>1. crossed' \in BOOLEAN
  BY LoopBooleans, Zenon DEF Loop!Crossed
<1>2. ~crossed' => ~crossed /\ \A b \in Actors : ~Loop!Busy(b)
  BY Zenon DEF Loop!Crossed
<1> QED BY <1>1, <1>2 DEF Loop!AloneInv

(* What is to be shown of an actor that has begun, or goes on, alone.       *)
LEMMA AloneHolds ==
    ASSUME NEW a \in Actors, ~crossed' => alive' = {room'} \ {0},
           ~crossed' => \A b \in Actors \ {a} : actor'[b].pc = "idle",
           ~crossed' => Loop!Justified(a)',
           ~crossed' /\ actor'[a].pc = "idle" => Loop!Settled'
    PROVE  Loop!AloneInv'
<1> SUFFICES ASSUME ~crossed' PROVE Loop!AloneInv'
  BY DEF Loop!AloneInv
<1>1. \A b \in Actors : Loop!Busy(b)' => b = a
  BY DEF Loop!Busy
<1>2. \A b \in Actors \ {a} : Loop!Justified(b)'
  BY DEF Loop!Justified
<1>3. (\A b \in Actors : ~Loop!Busy(b)') => actor'[a].pc = "idle"
  BY DEF Loop!Busy
<1>4. \A b, c \in Actors : Loop!Busy(b)' /\ Loop!Busy(c)' => b = c
  BY <1>1
<1>5. \A b \in Actors : Loop!Justified(b)'
  BY <1>2
<1>6. (\A b \in Actors : ~Loop!Busy(b)') => Loop!Settled'
  BY <1>3
<1>7. alive' = {room'} \ {0}
  OBVIOUS
<1> QED BY <1>4, <1>5, <1>6, <1>7, Zenon DEF Loop!AloneInv

LEMMA OthersIdle ==
    ASSUME Loop!AloneInv, NEW a \in Actors, actor[a].pc # "idle", \A b \in Actors \ {a} : actor'[b] = actor[b]
    PROVE  ~crossed => /\ \A b \in Actors \ {a} : actor'[b].pc = "idle"
                       /\ alive = {room} \ {0} /\ Loop!Justified(a)
  BY DEF Loop!AloneInv, Loop!Busy
LEMMA SingleStays ==
    ASSUME Loop!SingleInv, alive' \subseteq alive PROVE Loop!SingleInv'
  BY DEF Loop!SingleInv

(* Actors begin.                                                            *)
LEMMA BeginHolds ==
    ASSUME Loop!GameLoopAssumption, Loop!TypeOK, Loop!LoopInv, NEW a \in Actors,
           \/ Loop!OnMucPresence(a) \/ Loop!IdlerpgCommand(a) \/ Loop!RestartTasks(a)
           \/ Loop!CleanupRoomState(a) \/ Loop!OnLoad(a)
    PROVE  Loop!TypeOK' /\ Loop!LoopInv'
<1>1. /\ UNCHANGED <<alive, created, lock, clock, lastTick, credited, watched, faults>>
      /\ ~Loop!Busy(a) /\ Loop!Crossed(a)
  BY DEF Loop!OnMucPresence, Loop!IdlerpgCommand, Loop!RestartTasks, Loop!CleanupRoomState, Loop!OnLoad
<1>2. ops' \in 0 .. MaxOps /\ room' \in 0 .. MaxLoops
  BY LoopTypes DEF Loop!OnMucPresence, Loop!IdlerpgCommand, Loop!RestartTasks, Loop!CleanupRoomState, Loop!OnLoad
<1>3. enabled' \in BOOLEAN /\ loaded' \in BOOLEAN
  BY LoopBooleans, Zenon DEF Loop!OnMucPresence, Loop!IdlerpgCommand, Loop!RestartTasks, Loop!CleanupRoomState, Loop!OnLoad
<1>4. /\ crossed' \in BOOLEAN
      /\ ~crossed' => /\ alive = {room} \ {0} /\ \A b \in Actors : ~Loop!Busy(b)
                      /\ Loop!Settled
  BY <1>1, BeginsAlone DEF Loop!LoopInv
<1>5. /\ actor' \in [Actors -> LoopActor] /\ \A b \in Actors \ {a} : actor'[b] = actor[b]
      /\ actor'[a].pc \in {"wait", "sync", "cancel"}
      /\ ~crossed' => alive = {room'} \ {0} /\ Loop!Justified(a)'
  <2>1. CASE Loop!OnMucPresence(a)
    <3>1. loaded /\ enabled /\ Loop!Ensures(a) /\ UNCHANGED <<loaded, enabled, room>>
      BY <2>1 DEF Loop!OnMucPresence
    <3>2. /\ actor' \in [Actors -> LoopActor] /\ actor'[a].pc = "wait"
          /\ \A b \in Actors \ {a} : actor'[b] = actor[b]
      BY <3>1, ActorEnsures
    <3> QED BY <1>4, <3>1, <3>2 DEF Loop!Justified
  <2>2. CASE ~Loop!OnMucPresence(a)
    <3>1. PICK p \in {"sync", "cancel"}, g \in {"sync", "restart", "clean"} :
             /\ actor' = [actor EXCEPT ![a] = [Loop!Idle EXCEPT !.pc = p, !.goal = g]]
             /\ p = "sync" => loaded' /\ g \in {"sync", "restart"}
             /\ p = "cancel" => loaded' /\ ((g = "clean" /\ ~enabled') \/ g = "restart")
      <4>1. CASE Loop!IdlerpgCommand(a)
        BY <4>1 DEF Loop!IdlerpgCommand
      <4>2. CASE Loop!RestartTasks(a)
        BY <4>2 DEF Loop!RestartTasks
      <4>3. CASE Loop!CleanupRoomState(a)
        BY <4>3 DEF Loop!CleanupRoomState
      <4>4. CASE Loop!OnLoad(a)
        BY <4>4 DEF Loop!OnLoad
      <4> QED BY <2>2, <4>1, <4>2, <4>3, <4>4
    <3>2. PICK r : r = [Loop!Idle EXCEPT !.pc = p, !.goal = g]
      OBVIOUS
    <3>3. r \in LoopActor /\ r.pc = p /\ r.goal = g
      BY <3>2, IdleIs DEF LoopActor, LoopPlaces, Loop!Goals
    <3>4. /\ actor' \in [Actors -> LoopActor] /\ actor'[a] = r
          /\ \A b \in Actors \ {a} : actor'[b] = actor[b]
      BY <3>1, <3>2, <3>3, ActorBecomes
    <3>5. Loop!Justified(a)'
      BY <3>1, <3>3, <3>4 DEF Loop!Justified
    <3>6. ~crossed' => alive = {room'} \ {0}
      <4>1. CASE Loop!OnLoad(a)
        BY <1>4, <4>1 DEF Loop!OnLoad, Loop!Settled
      <4>2. CASE ~Loop!OnLoad(a)
        <5>1. room' = room
          BY <2>2, <4>2 DEF Loop!IdlerpgCommand, Loop!RestartTasks, Loop!CleanupRoomState
        <5> QED BY <1>4, <5>1
      <4> QED BY <4>1, <4>2
    <3> QED BY <3>1, <3>3, <3>4, <3>5, <3>6
  <2> QED BY <2>1, <2>2
<1>6. Loop!TypeOK'
  BY <1>1, <1>2, <1>3, <1>4, <1>5, LoopTypes, LoopTypesHold
<1>7. Loop!WatchedInv'
  <2>1. \A b \in Actors : actor'[b].pc = "checkpoint" => actor[b].pc = "checkpoint"
    BY <1>5
  <2> QED BY <1>1, <2>1 DEF Loop!LoopInv, Loop!WatchedInv
<1>8. Loop!SingleInv'
  BY <1>1, SingleStays DEF Loop!LoopInv
<1>9. Loop!AloneInv'
  BY <1>1, <1>4, <1>5, AloneHolds DEF Loop!Busy
<1> QED BY <1>6, <1>7, <1>8, <1>9 DEF Loop!LoopInv

LEMMA UnloadHolds ==
    ASSUME Loop!GameLoopAssumption, Loop!TypeOK, Loop!LoopInv, NEW a \in Actors, Loop!OnUnload(a)
    PROVE  Loop!TypeOK' /\ Loop!LoopInv'
<1>1. /\ UNCHANGED <<room, alive, created, lock, clock, credited, watched, faults>> /\ enabled' = enabled
      /\ ~Loop!Busy(a) /\ Loop!Crossed(a) /\ loaded' = FALSE /\ lastTick' \in {clock, lastTick}
      /\ actor' = [actor EXCEPT ![a] = [Loop!Idle EXCEPT !.pc = "cancel", !.goal = "unload"]]
      /\ ops < MaxOps /\ ops' = ops + 1
  BY DEF Loop!OnUnload
<1>2. loaded' \in BOOLEAN /\ ops' \in 0 .. MaxOps
  <2>1. loaded' \in BOOLEAN
    BY <1>1, Zenon
  <2> QED BY <1>1, <2>1, LoopTypes
<1>3. /\ crossed' \in BOOLEAN
      /\ ~crossed' => /\ alive = {room} \ {0} /\ \A b \in Actors : ~Loop!Busy(b)
  BY <1>1, BeginsAlone DEF Loop!LoopInv
<1>4. PICK r : r = [Loop!Idle EXCEPT !.pc = "cancel", !.goal = "unload"]
  OBVIOUS
<1>5. r \in LoopActor /\ r.pc = "cancel" /\ r.goal = "unload"
  BY <1>4, IdleIs DEF LoopActor, LoopPlaces, Loop!Goals
<1>6. /\ actor' \in [Actors -> LoopActor] /\ actor'[a] = r
      /\ \A b \in Actors \ {a} : actor'[b] = actor[b]
  BY <1>1, <1>4, <1>5, ActorBecomes
<1>7. Loop!Justified(a)'
  BY <1>1, <1>5, <1>6 DEF Loop!Justified
<1>8. Loop!WatchedInv' /\ lastTick' \in 0 .. MaxTime
  <2>1. CASE lastTick' = clock
    BY <1>1, <2>1, WatchBegins DEF Loop!LoopInv
  <2>2. CASE lastTick' = lastTick
    <3>1. \A b \in Actors : actor'[b].pc = "checkpoint" => actor[b].pc = "checkpoint"
      BY <1>5, <1>6
    <3> QED BY <1>1, <2>2, <3>1, LoopTypes DEF Loop!LoopInv, Loop!WatchedInv
  <2> QED BY <1>1, <2>1, <2>2
<1>9. Loop!TypeOK'
  BY <1>1, <1>2, <1>3, <1>6, <1>8, LoopTypes, LoopBooleans, LoopTypesHold
<1>10. Loop!SingleInv'
  BY <1>1, SingleStays DEF Loop!LoopInv
<1>11. Loop!AloneInv'
  BY <1>1, <1>3, <1>5, <1>6, <1>7, AloneHolds DEF Loop!Busy
<1> QED BY <1>8, <1>9, <1>10, <1>11 DEF Loop!LoopInv

(* _ensure_game_task goes on.                                               *)
LEMMA KeepsHolds ==
    ASSUME Loop!GameLoopAssumption, Loop!TypeOK, Loop!LoopInv, NEW a \in Actors, Loop!Keeps(a)
    PROVE  Loop!TypeOK' /\ Loop!LoopInv'
<1>1. /\ UNCHANGED <<room, created, lock, clock, lastTick, credited, watched, ops, faults>>
      /\ UNCHANGED <<enabled, loaded, crossed>>
      /\ actor[a].pc = "wait" /\ room \in alive /\ alive' = {room}
      /\ actor' = [actor EXCEPT ![a] = Loop!Idle]
  BY DEF Loop!Keeps
<1>2. /\ actor' \in [Actors -> LoopActor] /\ actor'[a].pc = "idle"
      /\ \A b \in Actors \ {a} : actor'[b] = actor[b]
  BY <1>1, IdleIs, ActorBecomes
<1>3. Loop!TypeOK'
  BY <1>1, <1>2, LoopTypes, LoopBooleans, LoopTypesHold
<1>4. Loop!WatchedInv'
  <2>1. \A b \in Actors : actor'[b].pc = "checkpoint" => actor[b].pc = "checkpoint"
    BY <1>2
  <2> QED BY <1>1, <2>1 DEF Loop!LoopInv, Loop!WatchedInv
<1>5. Loop!SingleInv'
  BY <1>1 DEF Loop!SingleInv
<1>6. ~crossed => /\ \A b \in Actors \ {a} : actor'[b].pc = "idle"
                  /\ alive = {room} \ {0} /\ Loop!Justified(a)
  BY <1>1, <1>2, OthersIdle DEF Loop!LoopInv
<1>7. ~crossed => loaded /\ enabled /\ room # 0
  BY <1>1, <1>6 DEF Loop!Justified
<1>8. Loop!Justified(a)' /\ (~crossed => Loop!Settled')
  BY <1>1, <1>2, <1>7 DEF Loop!Justified, Loop!Settled
<1>9. Loop!AloneInv'
  BY <1>1, <1>2, <1>6, <1>8, AloneHolds
<1> QED BY <1>3, <1>4, <1>5, <1>9 DEF Loop!LoopInv

LEMMA EnsureHolds ==
    ASSUME Loop!GameLoopAssumption, Loop!TypeOK, Loop!LoopInv, NEW a \in Actors, Loop!EnsureGameTaskLocked(a)
    PROVE  Loop!TypeOK' /\ Loop!LoopInv'
<1>1. /\ UNCHANGED <<created, lock, clock, credited, watched, ops, faults>>
      /\ UNCHANGED <<enabled, loaded, crossed>>
      /\ actor[a].pc = "wait" /\ room' = 0 /\ alive' = {} /\ lastTick' = clock /\ Loop!Goes(a, "checkpoint")
  BY DEF Loop!EnsureGameTaskLocked, Loop!Checkpoint
<1>2. "checkpoint" \in LoopPlaces
  BY DEF LoopPlaces
<1>3. /\ actor' \in [Actors -> LoopActor] /\ actor'[a].pc = "checkpoint"
      /\ \A b \in Actors \ {a} : actor'[b] = actor[b]
  BY <1>1, <1>2, ActorGoes
<1>4. Loop!WatchedInv' /\ lastTick' \in 0 .. MaxTime
  BY <1>1, WatchBegins DEF Loop!LoopInv
<1>5. room' \in 0 .. MaxLoops /\ alive' \subseteq 1 .. MaxLoops
  BY <1>1, LoopTypes
<1>6. Loop!TypeOK'
  BY <1>1, <1>3, <1>4, <1>5, LoopTypes, LoopBooleans, LoopTypesHold
<1>7. Loop!SingleInv'
  BY <1>1 DEF Loop!SingleInv
<1>8. ~crossed => (\A b \in Actors \ {a} : actor'[b].pc = "idle") /\ Loop!Justified(a)
  BY <1>1, <1>3, OthersIdle DEF Loop!LoopInv
<1>9. ~crossed => Loop!Justified(a)'
  BY <1>1, <1>3, <1>8 DEF Loop!Justified
<1>10. Loop!AloneInv'
  BY <1>1, <1>3, <1>8, <1>9, OthersIdle, AloneHolds DEF Loop!LoopInv
<1> QED BY <1>4, <1>6, <1>7, <1>10 DEF Loop!LoopInv

LEMMA CreateHolds ==
    ASSUME Loop!GameLoopAssumption, Loop!TypeOK, Loop!LoopInv, NEW a \in Actors, Loop!CreateTask(a)
    PROVE  Loop!TypeOK' /\ Loop!LoopInv'
<1>1. /\ UNCHANGED <<lock, clock, lastTick, credited, watched, ops, faults>>
      /\ UNCHANGED <<enabled, loaded, crossed>>
      /\ actor[a].pc = "checkpoint" /\ created < MaxLoops
      /\ created' = created + 1 /\ room' = created + 1 /\ alive' = {created + 1}
      /\ actor' = [actor EXCEPT ![a] = Loop!Idle]
  BY DEF Loop!CreateTask, Loop!Duplicates
<1>2. /\ actor' \in [Actors -> LoopActor] /\ actor'[a].pc = "idle"
      /\ \A b \in Actors \ {a} : actor'[b] = actor[b]
  BY <1>1, IdleIs, ActorBecomes
<1>3. PICK n : n = created + 1 /\ n \in 1 .. MaxLoops
  BY <1>1, LoopTypes
<1>4. created' \in 0 .. MaxLoops /\ room' \in 0 .. MaxLoops /\ alive' \subseteq 1 .. MaxLoops
  BY <1>1, <1>3, LoopTypes
<1>5. Loop!TypeOK'
  BY <1>1, <1>2, <1>4, LoopTypes, LoopBooleans, LoopTypesHold
<1>6. Loop!WatchedInv'
  <2>1. \A b \in Actors : actor'[b].pc = "checkpoint" => actor[b].pc = "checkpoint"
    BY <1>2
  <2> QED BY <1>1, <2>1 DEF Loop!LoopInv, Loop!WatchedInv
<1>7. Loop!SingleInv'
  BY <1>1 DEF Loop!SingleInv
<1>8. ~crossed => (\A b \in Actors \ {a} : actor'[b].pc = "idle") /\ Loop!Justified(a)
  BY <1>1, <1>2, OthersIdle DEF Loop!LoopInv
<1>9. room' # 0 /\ alive' = {room'} \ {0}
  BY <1>1, <1>3
<1>10. Loop!Justified(a)' /\ (~crossed => Loop!Settled')
  BY <1>1, <1>2, <1>8, <1>9 DEF Loop!Justified, Loop!Settled
<1>11. Loop!AloneInv'
  BY <1>1, <1>2, <1>8, <1>9, <1>10, OthersIdle, AloneHolds DEF Loop!LoopInv
<1> QED BY <1>5, <1>6, <1>7, <1>11 DEF Loop!LoopInv
LEMMA CheckpointFailsHolds ==
    ASSUME Loop!GameLoopAssumption, Loop!TypeOK, Loop!LoopInv, NEW a \in Actors, Loop!CheckpointFails(a)
    PROVE  Loop!TypeOK' /\ Loop!LoopInv'
<1>1. /\ UNCHANGED <<room, alive, created, lock, clock, lastTick, credited, watched, ops>>
      /\ UNCHANGED <<enabled, loaded>> /\ crossed' = TRUE
      /\ faults < MaxFaults /\ faults' = faults + 1
      /\ actor' = [actor EXCEPT ![a] = Loop!Idle]
  BY DEF Loop!CheckpointFails
<1>2. /\ actor' \in [Actors -> LoopActor] /\ actor'[a].pc = "idle"
      /\ \A b \in Actors \ {a} : actor'[b] = actor[b]
  BY <1>1, IdleIs, ActorBecomes
<1>3. crossed' \in BOOLEAN
  BY <1>1, Zenon
<1>4. faults' \in 0 .. MaxFaults
  BY <1>1, LoopTypes
<1>5. Loop!TypeOK'
  BY <1>1, <1>2, <1>3, <1>4, LoopTypes, LoopBooleans, LoopTypesHold
<1>6. Loop!WatchedInv'
  <2>1. \A b \in Actors : actor'[b].pc = "checkpoint" => actor[b].pc = "checkpoint"
    BY <1>2
  <2> QED BY <1>1, <2>1 DEF Loop!LoopInv, Loop!WatchedInv
<1>7. Loop!SingleInv'
  BY <1>1, SingleStays DEF Loop!LoopInv
<1>8. Loop!AloneInv'
  BY <1>1 DEF Loop!AloneInv
<1> QED BY <1>5, <1>6, <1>7, <1>8 DEF Loop!LoopInv

(* A toggle, a restart and a bot that leaves go on.                         *)
LEMMA SyncHolds ==
    ASSUME Loop!GameLoopAssumption, Loop!TypeOK, Loop!LoopInv, NEW a \in Actors, Loop!SyncTasksToEnabledRooms(a)
    PROVE  Loop!TypeOK' /\ Loop!LoopInv'
<1>1. /\ UNCHANGED <<room, alive, created, lock, clock, lastTick, credited, watched, ops, faults>>
      /\ UNCHANGED <<enabled, loaded, crossed>> /\ actor[a].pc = "sync"
      /\ \/ enabled /\ Loop!Ensures(a)
         \/ ~enabled /\ room # 0 /\ Loop!Goes(a, "cancel")
         \/ ~enabled /\ room = 0 /\ actor' = [actor EXCEPT ![a] = Loop!Idle]
  BY DEF Loop!SyncTasksToEnabledRooms
<1>2. "cancel" \in LoopPlaces
  BY DEF LoopPlaces
<1>3. /\ actor' \in [Actors -> LoopActor]
      /\ \A b \in Actors \ {a} : actor'[b] = actor[b]
      /\ \/ enabled /\ actor'[a].pc = "wait"
         \/ ~enabled /\ actor'[a].pc = "cancel" /\ actor'[a].goal = actor[a].goal
         \/ ~enabled /\ room = 0 /\ actor'[a].pc = "idle"
  BY <1>1, <1>2, IdleIs, ActorBecomes, ActorGoes, ActorEnsures
<1>4. Loop!TypeOK'
  BY <1>1, <1>3, LoopTypes, LoopBooleans, LoopTypesHold
<1>5. Loop!WatchedInv'
  <2>1. \A b \in Actors : actor'[b].pc = "checkpoint" => actor[b].pc = "checkpoint"
    BY <1>3
  <2> QED BY <1>1, <2>1 DEF Loop!LoopInv, Loop!WatchedInv
<1>6. Loop!SingleInv'
  BY <1>1, SingleStays DEF Loop!LoopInv
<1>7. ~crossed => (\A b \in Actors \ {a} : actor'[b].pc = "idle") /\ alive = {room} \ {0} /\ Loop!Justified(a)
  BY <1>1, <1>3, OthersIdle DEF Loop!LoopInv
<1>8. ~crossed => loaded /\ actor[a].goal \in {"sync", "restart"}
  BY <1>1, <1>7 DEF Loop!Justified
<1>9. ~crossed => Loop!Justified(a)'
  BY <1>1, <1>3, <1>8 DEF Loop!Justified
<1>10. ~crossed /\ actor'[a].pc = "idle" => Loop!Settled'
  BY <1>1, <1>3, <1>8 DEF Loop!Settled
<1>11. Loop!AloneInv'
  BY <1>1, <1>3, <1>7, <1>9, <1>10, AloneHolds
<1> QED BY <1>4, <1>5, <1>6, <1>11 DEF Loop!LoopInv

LEMMA CancelHolds ==
    ASSUME Loop!GameLoopAssumption, Loop!TypeOK, Loop!LoopInv, NEW a \in Actors, Loop!CancelRoomTask(a)
    PROVE  Loop!TypeOK' /\ Loop!LoopInv'
<1>1. /\ UNCHANGED <<created, clock, lastTick, credited, watched, ops, faults>>
      /\ UNCHANGED <<enabled, loaded, crossed>> /\ actor[a].pc = "cancel"
      /\ room' = 0 /\ alive' \subseteq alive /\ room \notin alive'
      /\ lock' = (IF lock < MaxOps + 1 THEN lock + 1 ELSE lock)
  BY DEF Loop!CancelRoomTask
<1>2. \/ actor[a].goal = "restart" /\ Loop!Goes(a, "sync")
      \/ actor[a].goal = "clean" /\ Loop!Goes(a, "save")
      \/ actor[a].goal \notin {"restart", "clean"} /\ actor' = [actor EXCEPT ![a] = Loop!Idle]
  BY DEF Loop!CancelRoomTask, Loop!Goes
<1>3. "sync" \in LoopPlaces /\ "save" \in LoopPlaces
  BY DEF LoopPlaces
<1>4. /\ actor' \in [Actors -> LoopActor]
      /\ \A b \in Actors \ {a} : actor'[b] = actor[b]
      /\ \/ actor[a].goal = "restart" /\ actor'[a].pc = "sync" /\ actor'[a].goal = "restart"
         \/ actor[a].goal = "clean" /\ actor'[a].pc = "save"
         \/ actor[a].goal \notin {"restart", "clean"} /\ actor'[a].pc = "idle"
  BY <1>2, <1>3, IdleIs, ActorBecomes, ActorGoes
<1>5. room' \in 0 .. MaxLoops /\ alive' \subseteq 1 .. MaxLoops /\ lock' \in 0 .. (MaxOps + 1)
  BY <1>1, LoopTypes
<1>6. Loop!TypeOK'
  BY <1>1, <1>4, <1>5, LoopTypes, LoopBooleans, LoopTypesHold
<1>7. Loop!WatchedInv'
  <2>1. \A b \in Actors : actor'[b].pc = "checkpoint" => actor[b].pc = "checkpoint"
    BY <1>4
  <2> QED BY <1>1, <2>1 DEF Loop!LoopInv, Loop!WatchedInv
<1>8. Loop!SingleInv'
  BY <1>1, SingleStays DEF Loop!LoopInv
<1>9. ~crossed => (\A b \in Actors \ {a} : actor'[b].pc = "idle") /\ alive = {room} \ {0} /\ Loop!Justified(a)
  BY <1>1, <1>4, OthersIdle DEF Loop!LoopInv
<1>10. ~crossed => alive' = {room'} \ {0}
  BY <1>1, <1>9
<1>11. ~crossed => Loop!Justified(a)'
  BY <1>1, <1>4, <1>9 DEF Loop!Justified
<1>12. ~crossed /\ actor'[a].pc = "idle" => Loop!Settled'
  BY <1>1, <1>4, <1>9 DEF Loop!Settled, Loop!Justified
<1>13. Loop!AloneInv'
  BY <1>1, <1>9, <1>10, <1>11, <1>12, AloneHolds
<1> QED BY <1>6, <1>7, <1>8, <1>13 DEF Loop!LoopInv

LEMMA ForgetHolds ==
    ASSUME Loop!GameLoopAssumption, Loop!TypeOK, Loop!LoopInv, NEW a \in Actors, Loop!ForgetRoom(a)
    PROVE  Loop!TypeOK' /\ Loop!LoopInv'
<1>1. /\ UNCHANGED <<room, alive, created, lock, clock, credited, watched, ops, faults>>
      /\ UNCHANGED <<enabled, loaded, crossed>>
      /\ actor[a].pc = "save" /\ lastTick' = clock /\ actor' = [actor EXCEPT ![a] = Loop!Idle]
  BY DEF Loop!ForgetRoom
<1>2. /\ actor' \in [Actors -> LoopActor] /\ actor'[a].pc = "idle"
      /\ \A b \in Actors \ {a} : actor'[b] = actor[b]
  BY <1>1, IdleIs, ActorBecomes
<1>3. Loop!WatchedInv' /\ lastTick' \in 0 .. MaxTime
  BY <1>1, WatchBegins DEF Loop!LoopInv
<1>4. Loop!TypeOK'
  BY <1>1, <1>2, <1>3, LoopTypes, LoopBooleans, LoopTypesHold
<1>5. Loop!SingleInv'
  BY <1>1, SingleStays DEF Loop!LoopInv
<1>6. ~crossed => (\A b \in Actors \ {a} : actor'[b].pc = "idle") /\ alive = {room} \ {0} /\ Loop!Justified(a)
  BY <1>1, <1>2, OthersIdle DEF Loop!LoopInv
<1>7. Loop!Justified(a)' /\ (~crossed => Loop!Settled')
  BY <1>1, <1>2, <1>6 DEF Loop!Justified, Loop!Settled
<1>8. Loop!AloneInv'
  BY <1>1, <1>2, <1>6, <1>7, AloneHolds
<1> QED BY <1>3, <1>4, <1>5, <1>8 DEF Loop!LoopInv

(* The loops tick and die, time passes, and the process starts anew.        *)
LEMMA LoopTicksHolds ==
    ASSUME Loop!GameLoopAssumption, Loop!TypeOK, Loop!LoopInv, NEW l \in 1 .. MaxLoops, Loop!TickRoom(l)
    PROVE  Loop!TypeOK' /\ Loop!LoopInv'
<1>1. /\ UNCHANGED <<room, alive, created, lock, clock, watched, ops, faults>>
      /\ UNCHANGED <<enabled, loaded, crossed, actor>> /\ l \in alive
      /\ credited + clock - lastTick <= MaxTime /\ credited' = credited + clock - lastTick
      /\ lastTick' = clock
  BY DEF Loop!TickRoom
<1>2. /\ clock \in Nat /\ lastTick \in Nat /\ credited \in Nat /\ watched \in Nat
      /\ lastTick <= clock /\ watched <= clock
      /\ credited + clock - lastTick <= watched
  BY <1>1, WatchedFacts DEF Loop!LoopInv
<1>3. credited' \in 0 .. MaxTime /\ lastTick' \in 0 .. MaxTime /\ credited' <= watched
  BY <1>1, <1>2, LoopTypes
<1>4. Loop!TypeOK'
  BY <1>1, <1>3, LoopTypes, LoopBooleans, LoopTypesHold
<1>5. Loop!WatchedInv'
  <2>1. credited' + clock' - lastTick' <= watched'
    BY <1>1, <1>2
  <2> QED BY <1>1, <1>2, <1>3, <2>1 DEF Loop!WatchedInv
<1>6. Loop!SingleInv'
  BY <1>1, SingleStays DEF Loop!LoopInv
<1>7. Loop!AloneInv'
  BY <1>1 DEF Loop!LoopInv, Loop!AloneInv, Loop!Busy, Loop!Justified, Loop!Settled
<1> QED BY <1>4, <1>5, <1>6, <1>7 DEF Loop!LoopInv

LEMMA LoopDiesHolds ==
    ASSUME Loop!GameLoopAssumption, Loop!TypeOK, Loop!LoopInv, NEW l \in 1 .. MaxLoops, Loop!LoopDies(l)
    PROVE  Loop!TypeOK' /\ Loop!LoopInv'
<1>1. /\ UNCHANGED <<room, created, lock, clock, lastTick, credited, watched, ops>>
      /\ UNCHANGED <<enabled, loaded, actor>> /\ crossed' = TRUE /\ l \in alive
      /\ faults < MaxFaults /\ faults' = faults + 1 /\ alive' = alive \ {l}
  BY DEF Loop!LoopDies
<1>2. crossed' \in BOOLEAN
  BY <1>1, Zenon
<1>3. faults' \in 0 .. MaxFaults /\ alive' \subseteq 1 .. MaxLoops
  BY <1>1, LoopTypes
<1>4. Loop!TypeOK'
  BY <1>1, <1>2, <1>3, LoopTypes, LoopBooleans, LoopTypesHold
<1>5. Loop!WatchedInv'
  BY <1>1 DEF Loop!LoopInv, Loop!WatchedInv
<1>6. Loop!SingleInv'
  BY <1>1, SingleStays DEF Loop!LoopInv
<1>7. Loop!AloneInv'
  BY <1>1 DEF Loop!AloneInv
<1> QED BY <1>4, <1>5, <1>6, <1>7 DEF Loop!LoopInv

LEMMA TimeHolds ==
    ASSUME Loop!GameLoopAssumption, Loop!TypeOK, Loop!LoopInv, Loop!Tick
    PROVE  Loop!TypeOK' /\ Loop!LoopInv'
<1>1. /\ UNCHANGED <<room, alive, created, lock, lastTick, credited, ops, faults>>
      /\ UNCHANGED <<enabled, loaded, crossed, actor>>
      /\ clock < MaxTime /\ clock' = clock + 1
      /\ \/ watched' = watched + 1
         \/ watched' = watched /\ ~(alive # {} \/ \E a \in Actors : actor[a].pc = "checkpoint")
  BY DEF Loop!Tick
<1>2. /\ clock \in Nat /\ lastTick \in Nat /\ credited \in Nat /\ watched \in Nat
      /\ lastTick <= clock /\ credited <= watched /\ watched <= clock
      /\ alive # {} \/ (\E a \in Actors : actor[a].pc = "checkpoint") =>
             credited + clock - lastTick <= watched
  BY WatchedFacts DEF Loop!LoopInv
<1>3. clock' \in 0 .. MaxTime /\ watched' \in 0 .. MaxTime
  BY <1>1, <1>2, LoopTypes
<1>4. Loop!TypeOK'
  BY <1>1, <1>3, LoopTypes, LoopBooleans, LoopTypesHold
<1>5. Loop!WatchedInv'
  <2>1. CASE watched' = watched + 1
    <3>1. credited + clock - lastTick <= watched => credited' + clock' - lastTick' <= watched'
      BY <1>1, <1>2, <2>1
    <3>2. lastTick' <= clock' /\ credited' <= watched' /\ watched' <= clock'
      BY <1>1, <1>2, <2>1
    <3> QED BY <1>1, <1>2, <3>1, <3>2 DEF Loop!WatchedInv
  <2>2. CASE watched' = watched /\ ~(alive # {} \/ \E a \in Actors : actor[a].pc = "checkpoint")
    <3>1. lastTick' <= clock' /\ credited' <= watched' /\ watched' <= clock'
      BY <1>1, <1>2, <2>2
    <3> QED BY <1>1, <2>2, <3>1 DEF Loop!WatchedInv
  <2> QED BY <1>1, <2>1, <2>2
<1>6. Loop!SingleInv'
  BY <1>1, SingleStays DEF Loop!LoopInv
<1>7. Loop!AloneInv'
  BY <1>1 DEF Loop!LoopInv, Loop!AloneInv, Loop!Busy, Loop!Justified, Loop!Settled
<1> QED BY <1>4, <1>5, <1>6, <1>7 DEF Loop!LoopInv

LEMMA LoopCrashHolds ==
    ASSUME Loop!GameLoopAssumption, Loop!TypeOK, Loop!LoopInv, Loop!Crash
    PROVE  Loop!TypeOK' /\ Loop!LoopInv'
<1>1. /\ UNCHANGED <<created, lock, clock, lastTick, credited, watched, ops>> /\ enabled' = enabled
      /\ loaded' = FALSE /\ crossed' = FALSE /\ room' = 0 /\ alive' = {}
      /\ faults < MaxFaults /\ faults' = faults + 1
      /\ actor' = [a \in Actors |-> Loop!Idle]
  BY DEF Loop!Crash
<1>2. actor' \in [Actors -> LoopActor] /\ \A a \in Actors : actor'[a].pc = "idle"
  BY <1>1, IdleIs
<1>3. loaded' \in BOOLEAN /\ crossed' \in BOOLEAN
  BY <1>1, Zenon
<1>4. faults' \in 0 .. MaxFaults /\ room' \in 0 .. MaxLoops /\ alive' \subseteq 1 .. MaxLoops
  BY <1>1, LoopTypes
<1>5. Loop!TypeOK'
  BY <1>1, <1>2, <1>3, <1>4, LoopTypes, LoopBooleans, LoopTypesHold
<1>6. Loop!WatchedInv'
  BY <1>1, <1>2 DEF Loop!LoopInv, Loop!WatchedInv
<1>7. Loop!SingleInv'
  BY <1>1 DEF Loop!SingleInv
<1>8. Loop!AloneInv'
  <2>1. alive' = {room'} \ {0}
    BY <1>1
  <2>2. (\A a \in Actors : ~Loop!Busy(a)') /\ \A a \in Actors : Loop!Justified(a)'
    BY <1>2 DEF Loop!Busy, Loop!Justified
  <2>3. Loop!Settled'
    BY <1>1 DEF Loop!Settled
  <2> QED BY <2>1, <2>2, <2>3 DEF Loop!AloneInv
<1> QED BY <1>5, <1>6, <1>7, <1>8 DEF Loop!LoopInv

LEMMA LoopStarts ==
    ASSUME Loop!GameLoopAssumption, Loop!Init
    PROVE  Loop!TypeOK /\ Loop!LoopInv
<1>1. /\ room = 0 /\ alive = {} /\ created = 0 /\ lock = 0 /\ actor = [a \in Actors |-> Loop!Idle]
      /\ clock = 0 /\ lastTick = 0 /\ credited = 0 /\ watched = 0 /\ ops = 0 /\ faults = 0
      /\ enabled = FALSE /\ loaded = TRUE /\ crossed = FALSE
  BY DEF Loop!Init
<1>2. actor \in [Actors -> LoopActor] /\ \A a \in Actors : actor[a].pc = "idle"
  BY <1>1, IdleIs
<1>3. enabled \in BOOLEAN /\ loaded \in BOOLEAN /\ crossed \in BOOLEAN
  BY <1>1, Zenon
<1>4. /\ room \in 0 .. MaxLoops /\ alive \subseteq 1 .. MaxLoops /\ created \in 0 .. MaxLoops
      /\ lock \in 0 .. (MaxOps + 1) /\ clock \in 0 .. MaxTime /\ lastTick \in 0 .. MaxTime
      /\ credited \in 0 .. MaxTime /\ watched \in 0 .. MaxTime
      /\ ops \in 0 .. MaxOps /\ faults \in 0 .. MaxFaults
  BY <1>1 DEF Loop!GameLoopAssumption
<1>5. Loop!TypeOK
  BY <1>2, <1>3, <1>4, Zenon DEF Loop!TypeOK, LoopActor, LoopPlaces
<1>6. Loop!WatchedInv /\ Loop!SingleInv
  BY <1>1, <1>2 DEF Loop!WatchedInv, Loop!SingleInv
<1>7. Loop!AloneInv
  <2>1. alive = {room} \ {0}
    BY <1>1
  <2>2. (\A a \in Actors : ~Loop!Busy(a)) /\ \A a \in Actors : Loop!Justified(a)
    BY <1>2 DEF Loop!Busy, Loop!Justified
  <2>3. Loop!Settled
    BY <1>1 DEF Loop!Settled
  <2> QED BY <2>1, <2>2, <2>3 DEF Loop!AloneInv
<1> QED BY <1>5, <1>6, <1>7 DEF Loop!LoopInv

LEMMA LoopStep ==
    ASSUME Loop!GameLoopAssumption, Loop!TypeOK, Loop!LoopInv, [Loop!Next]_(Loop!vars)
    PROVE  Loop!TypeOK' /\ Loop!LoopInv'
<1>1. CASE UNCHANGED Loop!vars
  <2>1. /\ UNCHANGED <<room, alive, created, lock, actor, clock, lastTick, credited, watched, ops, faults>>
        /\ UNCHANGED <<enabled, loaded, crossed>>
    BY <1>1 DEF Loop!vars
  <2>2. Loop!TypeOK'
    BY <2>1, LoopTypes, LoopBooleans, LoopTypesHold
  <2> QED BY <2>1, <2>2 DEF Loop!LoopInv, Loop!WatchedInv, Loop!SingleInv, Loop!AloneInv, Loop!Busy, Loop!Justified, Loop!Settled
<1>2. CASE Loop!Tick \/ Loop!Crash
  BY <1>2, TimeHolds, LoopCrashHolds
<1>3. ASSUME NEW l \in 1 .. MaxLoops, Loop!TickRoom(l) \/ Loop!LoopDies(l) PROVE Loop!TypeOK' /\ Loop!LoopInv'
  BY <1>3, LoopTicksHolds, LoopDiesHolds
<1>4. ASSUME NEW a \in Actors,
             \/ Loop!OnMucPresence(a) \/ Loop!IdlerpgCommand(a) \/ Loop!RestartTasks(a)
             \/ Loop!CleanupRoomState(a) \/ Loop!OnLoad(a)
      PROVE  Loop!TypeOK' /\ Loop!LoopInv'
  BY <1>4, BeginHolds
<1>5. ASSUME NEW a \in Actors, Loop!OnUnload(a) \/ Loop!CheckpointFails(a) PROVE Loop!TypeOK' /\ Loop!LoopInv'
  BY <1>5, UnloadHolds, CheckpointFailsHolds
<1>6. ASSUME NEW a \in Actors, Loop!Works(a) PROVE Loop!TypeOK' /\ Loop!LoopInv'
  BY <1>6, KeepsHolds, EnsureHolds, CreateHolds, SyncHolds, CancelHolds, ForgetHolds DEF Loop!Works
<1> QED BY <1>1, <1>2, <1>3, <1>4, <1>5, <1>6 DEF Loop!Next

LEMMA OneLoop ==
    ASSUME Loop!SingleInv
    PROVE  Loop!Cardinality(alive) <= 1
<1>1. Loop!Cardinality(alive) = Cardinality(alive)
  BY DEF Loop!Cardinality, Cardinality
<1>2. CASE alive = {}
  BY <1>1, <1>2, FS_EmptySet
<1>3. CASE alive # {}
  <2>1. PICK k : alive = {k}
    BY <1>3 DEF Loop!SingleInv
  <2>2. Cardinality({k}) = 1
    BY FS_Singleton
  <2>3. Cardinality(alive) = 1
    BY <2>1, <2>2
  <2> QED BY <1>1, <2>3
<1> QED BY <1>2, <1>3

(* For any actors, any length of time and any number of loops, toggles,     *)
(* restarts and faults: players are credited with no more time than a loop  *)
(* was there or being started, there is never more than one loop, and with  *)
(* nobody at work and nothing crossed a room has its loop exactly if it     *)
(* plays (plugins/idlerpg/tasks.py; the loop's part of PlayIsFair in        *)
(* MCPlugins).                                                              *)
THEOREM OnlyWatchedTimeEverCounts ==
    ASSUME Loop!GameLoopAssumption
    PROVE  Loop!Spec => [](Loop!TypeOK /\ Loop!OnlyWatchedTimeCounts /\ Loop!LoopsAreRight)
<1>1. Loop!Init => Loop!TypeOK /\ Loop!LoopInv
  BY LoopStarts
<1>2. Loop!TypeOK /\ Loop!LoopInv /\ [Loop!Next]_(Loop!vars) => (Loop!TypeOK /\ Loop!LoopInv)'
  BY LoopStep
<1>3. Loop!TypeOK /\ Loop!LoopInv => Loop!OnlyWatchedTimeCounts /\ Loop!LoopsAreRight
  <2> SUFFICES ASSUME Loop!TypeOK, Loop!LoopInv PROVE Loop!OnlyWatchedTimeCounts /\ Loop!LoopsAreRight
    OBVIOUS
  <2>1. Loop!OnlyWatchedTimeCounts
    BY DEF Loop!LoopInv, Loop!WatchedInv, Loop!OnlyWatchedTimeCounts
  <2>2. Loop!Cardinality(alive) <= 1
    BY OneLoop DEF Loop!LoopInv
  <2>3. Loop!AtRest /\ ~crossed => loaded /\ alive = {room} \ {0} /\ Loop!Settled
    BY DEF Loop!LoopInv, Loop!AloneInv, Loop!AtRest
  <2>4. Loop!AtRest /\ ~crossed => IF enabled THEN room # 0 /\ alive = {room} ELSE alive = {}
    BY <2>3 DEF Loop!Settled
  <2> QED BY <2>1, <2>2, <2>4 DEF Loop!LoopsAreRight
<1> QED BY <1>1, <1>2, <1>3, PTL DEF Loop!Spec

-----------------------------------------------------------------------------
(* GameExport: what a generation lists was committed together.              *)

ThreadPlaces == {"idle", "room", "chunks", "manifest", "remove", "publish"}
ThreadModes == {"full", "append", "preserve", "off"}
Thread == [pc : ThreadPlaces, mode : ThreadModes, db : Site!Rooms, base : Site!Contents,
           current : [Site!Files -> Site!Contents], alone : BOOLEAN]

LEMMA ExportTypes ==
    ASSUME Site!TypeOK
    PROVE  /\ db \in Site!Rooms /\ commits \subseteq Site!Rooms /\ cursor \in Site!Contents
           /\ lock \in Workers \union {Free} /\ thread \in [Workers -> Thread]
           /\ disk \in [Site!Files -> Site!Contents] /\ generation \in [Site!Files -> Site!Contents]
           /\ faults \in 0 .. MaxFaults
  BY DEF Site!TypeOK, Thread, ThreadPlaces, ThreadModes

LEMMA ExportBooleans ==
    ASSUME Site!TypeOK
    PROVE  enabled \in BOOLEAN /\ waits \in BOOLEAN /\ abandoned \in BOOLEAN
  BY Zenon DEF Site!TypeOK

LEMMA ExportTypesHold ==
    ASSUME enabled' \in BOOLEAN, waits' \in BOOLEAN, abandoned' \in BOOLEAN,
           db' \in Site!Rooms, commits' \subseteq Site!Rooms, cursor' \in Site!Contents,
           lock' \in Workers \union {Free}, thread' \in [Workers -> Thread],
           disk' \in [Site!Files -> Site!Contents], generation' \in [Site!Files -> Site!Contents],
           faults' \in 0 .. MaxFaults
    PROVE  Site!TypeOK'
  BY Zenon DEF Site!TypeOK, Thread, ThreadPlaces, ThreadModes

LEMMA FileNames == Site!Files = {"room", "chunks", "manifest"}
  BY DEF Site!Files

LEMMA NoFilesIs ==
    /\ Site!NoFiles \in [Site!Files -> Site!Contents] /\ Site!NoState \in Site!Contents
    /\ \A f \in Site!Files : Site!NoFiles[f] = Site!NoState
  BY DEF Site!NoFiles, Site!NoState, Site!Contents

LEMMA RoomIs ==
    ASSUME NEW c \in Site!Rooms
    PROVE  /\ c.room \in Site!Contents /\ c.events \in Site!Contents
           /\ c.events.season \in Nat /\ c.events.n \in Int /\ c.room.n \in Int
           /\ c.events = [season |-> c.events.season, n |-> c.events.n]
  BY DEF Site!Rooms, Site!Contents

(* What is known of a thread that runs.                                     *)
LEMMA ThreadIs ==
    ASSUME Site!TypeOK, NEW w \in Workers
    PROVE  /\ thread[w].pc \in ThreadPlaces /\ thread[w].mode \in ThreadModes
           /\ thread[w].db \in Site!Rooms /\ thread[w].base \in Site!Contents
           /\ thread[w].current \in [Site!Files -> Site!Contents] /\ thread[w].alone \in BOOLEAN
           /\ thread[w].db.room \in Site!Contents /\ thread[w].db.events \in Site!Contents
<1>1. thread[w] \in Thread
  BY ExportTypes
<1>2. thread[w].alone \in BOOLEAN
  BY <1>1, Zenon DEF Thread
<1>3. /\ thread[w].pc \in ThreadPlaces /\ thread[w].mode \in ThreadModes
      /\ thread[w].db \in Site!Rooms /\ thread[w].base \in Site!Contents
      /\ thread[w].current \in [Site!Files -> Site!Contents]
  BY <1>1 DEF Thread
<1> QED BY <1>2, <1>3, RoomIs

(* A step of a thread: what it is about stays, the other threads do too.    *)
Advances(w, next) ==
    /\ thread' \in [Workers -> Thread] /\ thread'[w].pc = next
    /\ thread'[w].mode = thread[w].mode /\ thread'[w].db = thread[w].db
    /\ thread'[w].base = thread[w].base /\ thread'[w].alone = thread[w].alone
    /\ \A v \in Workers \ {w} : thread'[v] = thread[v]

LEMMA FilePut ==
    ASSUME Site!TypeOK, NEW w \in Workers, NEW file \in Site!Files, NEW content \in Site!Contents,
           NEW next \in ThreadPlaces, Site!Put(w, file, content, next)
    PROVE  /\ Advances(w, next) /\ disk' \in [Site!Files -> Site!Contents]
           /\ disk'[file] = content /\ thread'[w].current[file] = content
           /\ \A f \in Site!Files \ {file} :
                  disk'[f] = disk[f] /\ thread'[w].current[f] = thread[w].current[f]
<1>1. disk' = [disk EXCEPT ![file] = content]
  BY DEF Site!Put
<1>2. PICK t \in Thread : t = thread[w]
  BY ExportTypes
<1>3. PICK c : c = [t.current EXCEPT ![file] = content]
  OBVIOUS
<1>4. PICK s : s = [[t EXCEPT !.pc = next] EXCEPT !.current = c]
  OBVIOUS
<1>5. /\ c \in [Site!Files -> Site!Contents] /\ c[file] = content
      /\ \A f \in Site!Files \ {file} : c[f] = t.current[f]
  BY <1>2, <1>3 DEF Thread
<1>6. /\ s \in Thread /\ s.pc = next /\ s.mode = t.mode /\ s.db = t.db /\ s.base = t.base
      /\ s.alone = t.alone /\ s.current = c
  BY <1>2, <1>4, <1>5 DEF Thread
<1>7. thread' = [thread EXCEPT ![w] = s]
  BY <1>2, <1>3, <1>4, ExportTypes DEF Site!Put, Thread
<1> QED BY <1>1, <1>2, <1>5, <1>6, <1>7, ExportTypes DEF Advances

LEMMA FilePreserved ==
    ASSUME Site!TypeOK, NEW w \in Workers, NEW file \in Site!Files,
           NEW next \in ThreadPlaces, Site!Preserve(w, file, next)
    PROVE  /\ Advances(w, next) /\ disk' = disk
           /\ thread'[w].current[file] = disk[file]
           /\ \A f \in Site!Files \ {file} : thread'[w].current[f] = thread[w].current[f]
<1>1. disk' = disk
  BY DEF Site!Preserve
<1>2. PICK t \in Thread : t = thread[w]
  BY ExportTypes
<1>3. PICK c : c = [t.current EXCEPT ![file] = disk[file]]
  OBVIOUS
<1>4. PICK s : s = [[t EXCEPT !.pc = next] EXCEPT !.current = c]
  OBVIOUS
<1>5. /\ c \in [Site!Files -> Site!Contents] /\ c[file] = disk[file]
      /\ \A f \in Site!Files \ {file} : c[f] = t.current[f]
  BY <1>2, <1>3, ExportTypes DEF Thread
<1>6. /\ s \in Thread /\ s.pc = next /\ s.mode = t.mode /\ s.db = t.db /\ s.base = t.base
      /\ s.alone = t.alone /\ s.current = c
  BY <1>2, <1>4, <1>5 DEF Thread
<1>7. thread' = [thread EXCEPT ![w] = s]
  BY <1>2, <1>3, <1>4, ExportTypes DEF Site!Preserve, Thread
<1> QED BY <1>1, <1>2, <1>5, <1>6, <1>7, ExportTypes DEF Advances

(* What a step of a thread has to show.                                     *)
LEMMA AdvanceHolds ==
    ASSUME Site!TypeOK, Site!ExportInv, NEW w \in Workers, NEW next \in ThreadPlaces \ {"idle"},
           thread[w].pc # "idle", Advances(w, next),
           UNCHANGED <<db, commits, cursor, lock, generation, abandoned>>,
           Site!Sole(w) => Site!Progress(w)', ~abandoned /\ Site!Sole(w) => Site!Based(w)',
           ~abandoned /\ Site!Sole(w) /\ generation = Site!NoFiles => Site!Whole(disk)'
    PROVE  Site!ExportInv'
<1>1. w \in Site!Active /\ Site!Active' = Site!Active
  BY DEF Site!Active, Advances
<1>2. Site!SnapshotsInv'
  BY <1>1 DEF Site!ExportInv, Site!SnapshotsInv, Site!Active, Advances
<1>3. \A v \in Workers : Site!Sole(v)' => v = w /\ Site!Sole(w)
  <2> SUFFICES ASSUME NEW v \in Workers, Site!Sole(v)' PROVE v = w /\ Site!Sole(w)
    OBVIOUS
  <2>1. lock = v /\ v \in Site!Active
    BY <1>1 DEF Site!Sole
  <2>2. thread'[v].alone
    BY DEF Site!Sole
  <2>3. thread[v].alone
    BY <2>2 DEF Advances
  <2>4. Site!Sole(v)
    BY <2>1, <2>3 DEF Site!Sole
  <2>5. Site!Active = {v}
    BY <2>4 DEF Site!ExportInv, Site!SoleInv
  <2> QED BY <1>1, <2>4, <2>5
<1>4. Site!Sole(w) => Site!Sole(w)'
  BY <1>1 DEF Site!Sole, Advances
<1>5. Site!SoleInv'
  BY <1>1, <1>3 DEF Site!ExportInv, Site!SoleInv
<1>6. Site!ReachedInv'
  <2> SUFFICES ASSUME ~abandoned PROVE Site!ReachedInv'
    BY DEF Site!ReachedInv
  <2>1. /\ \A v \in Site!Active : Site!Sole(v)
        /\ Site!Whole(generation)
    BY DEF Site!ExportInv, Site!ReachedInv
  <2>2. Site!Sole(w) /\ Site!Active = {w}
    BY <1>1, <2>1 DEF Site!ExportInv, Site!SoleInv
  <2>3. \A v \in Site!Active' : Site!Sole(v)' /\ Site!Based(v)'
    BY <1>1, <1>4, <2>2
  <2>4. Site!Whole(generation)'
    BY <2>1 DEF Site!Whole
  <2>5. generation' = Site!NoFiles => Site!Whole(disk)'
    BY <2>2
  <2>6. Site!Active' # {}
    BY <1>1
  <2> QED BY <2>3, <2>4, <2>5, <2>6 DEF Site!ReachedInv
<1> QED BY <1>2, <1>5, <1>6 DEF Site!ExportInv

(* What a thread in progress knows, when it is the only one.                *)
LEMMA SoleFacts ==
    ASSUME Site!ExportInv, NEW w \in Workers, thread[w].pc # "idle"
    PROVE  /\ w \in Site!Active /\ thread[w].db \in commits
           /\ Site!Sole(w) => Site!Active = {w} /\ Site!Progress(w)
           /\ ~abandoned => /\ Site!Sole(w) /\ Site!Based(w) /\ Site!Whole(generation)
                            /\ generation = Site!NoFiles => Site!Whole(disk)
  BY DEF Site!ExportInv, Site!SnapshotsInv, Site!SoleInv, Site!ReachedInv, Site!Active

LEMMA NoManifest ==
    ASSUME disk["manifest"] = Site!NoState PROVE Site!Whole(disk)
  BY DEF Site!Whole

(* The files of the room, and the chunks of its history.                    *)
LEMMA WriteRoomHolds ==
    ASSUME Site!TypeOK, Site!ExportInv, NEW w \in Workers, Site!WriteRoom(w)
    PROVE  Site!TypeOK' /\ Site!ExportInv'
<1>1. /\ thread[w].pc = "room" /\ Site!Put(w, "room", thread[w].db.room, "chunks")
      /\ UNCHANGED <<db, commits, cursor, lock, generation, faults>>
      /\ UNCHANGED <<enabled, waits, abandoned>>
  BY DEF Site!WriteRoom
<1>2. /\ "room" \in Site!Files /\ "chunks" \in ThreadPlaces /\ thread[w].db.room \in Site!Contents
  BY FileNames, ThreadIs DEF ThreadPlaces
<1>3. /\ Advances(w, "chunks") /\ disk' \in [Site!Files -> Site!Contents]
      /\ disk'["room"] = thread[w].db.room /\ thread'[w].current["room"] = thread[w].db.room
      /\ disk'["chunks"] = disk["chunks"] /\ disk'["manifest"] = disk["manifest"]
  <2>1. PICK c \in Site!Contents : c = thread[w].db.room
    BY <1>2
  <2>2. Site!Put(w, "room", c, "chunks")
    BY <1>1, <2>1
  <2>3. /\ Advances(w, "chunks") /\ disk' \in [Site!Files -> Site!Contents]
        /\ disk'["room"] = c /\ thread'[w].current["room"] = c
        /\ \A f \in Site!Files \ {"room"} :
               disk'[f] = disk[f] /\ thread'[w].current[f] = thread[w].current[f]
    BY <1>2, <2>2, FilePut
  <2> QED BY <2>1, <2>3, FileNames
<1>4. Site!TypeOK'
  BY <1>1, <1>3, ExportTypes, ExportBooleans, ExportTypesHold DEF Advances
<1>5. Site!Sole(w) => Site!Progress(w)'
  BY <1>1, <1>3, SoleFacts DEF Site!Progress, Site!Written, Advances
<1>6. ~abandoned /\ Site!Sole(w) => Site!Based(w)'
  BY <1>1, <1>3, SoleFacts DEF Site!Based, Advances
<1>7. ~abandoned /\ Site!Sole(w) /\ generation = Site!NoFiles => Site!Whole(disk)'
  BY <1>1, <1>3, SoleFacts DEF Site!Based, Site!Whole
<1>8. Site!ExportInv'
  BY <1>1, <1>2, <1>3, <1>5, <1>6, <1>7, AdvanceHolds DEF ThreadPlaces
<1> QED BY <1>4, <1>8

(* The chunks, in three ways.                                               *)
LEMMA ChunksAre ==
    ASSUME Site!TypeOK, Site!ExportInv, NEW w \in Workers, Site!WriteChunks(w)
    PROVE  /\ Advances(w, "manifest") /\ disk' \in [Site!Files -> Site!Contents]
           /\ disk'["room"] = disk["room"] /\ thread'[w].current["room"] = thread[w].current["room"]
           /\ disk'["manifest"] = disk["manifest"]
           /\ (Site!Sole(w) /\ thread[w].mode = "full") \/ ~abandoned =>
                  /\ disk'["chunks"] = thread[w].db.events
                  /\ thread'[w].current["chunks"] = thread[w].db.events
<1>1. /\ thread[w].pc = "chunks"
      /\ \/ thread[w].mode = "full" /\ Site!Put(w, "chunks", thread[w].db.events, "manifest")
         \/ /\ thread[w].mode = "append"
            /\ Site!Put(w, "chunks",
                     [disk["chunks"] EXCEPT !.n = @ + thread[w].db.events.n - thread[w].base.n], "manifest")
         \/ thread[w].mode = "preserve" /\ Site!Preserve(w, "chunks", "manifest")
  BY DEF Site!WriteChunks
<1>2. "chunks" \in Site!Files /\ "manifest" \in ThreadPlaces
  BY FileNames DEF ThreadPlaces
<1>3. PICK b \in Site!Contents, e \in Site!Contents, d \in Site!Contents :
          b = thread[w].base /\ e = thread[w].db.events /\ d = disk["chunks"]
  BY <1>2, ThreadIs, ExportTypes
<1>4. ~abandoned => Site!Based(w)
  BY <1>1, SoleFacts
<1>5. CASE thread[w].mode = "preserve"
  <2>1. Site!Preserve(w, "chunks", "manifest")
    BY <1>1, <1>5
  <2>2. /\ Advances(w, "manifest") /\ disk' = disk
        /\ thread'[w].current["chunks"] = disk["chunks"]
        /\ \A f \in Site!Files \ {"chunks"} : thread'[w].current[f] = thread[w].current[f]
    BY <1>2, <2>1, FilePreserved
  <2>3. ~abandoned => disk["chunks"] = thread[w].db.events
    BY <1>1, <1>4, <1>5 DEF Site!Based
  <2> QED BY <1>5, <2>2, <2>3, FileNames, ExportTypes
<1>6. CASE thread[w].mode # "preserve"
  <2>1. PICK c \in Site!Contents :
            /\ Site!Put(w, "chunks", c, "manifest")
            /\ thread[w].mode = "full" \/ ~abandoned => c = thread[w].db.events
    <3>1. CASE thread[w].mode = "full"
      BY <1>1, <1>3, <3>1
    <3>2. CASE thread[w].mode = "append"
      <4>1. PICK c : c = [d EXCEPT !.n = @ + e.n - b.n]
        OBVIOUS
      <4>2. c \in Site!Contents /\ c = [season |-> d.season, n |-> d.n + e.n - b.n]
        BY <1>3, <4>1 DEF Site!Contents
      <4>3. Site!Put(w, "chunks", c, "manifest")
        BY <1>1, <1>3, <3>2, <4>1
      <4>4. ~abandoned => d = b /\ b.season = e.season
        BY <1>1, <1>3, <1>4, <3>2 DEF Site!Based
      <4>5. d = b /\ b.season = e.season => c = e
        <5> SUFFICES ASSUME d = b, b.season = e.season PROVE c = e
          OBVIOUS
        <5>1. d.n + e.n - b.n = e.n
          BY <1>3 DEF Site!Contents
        <5>2. e = [season |-> e.season, n |-> e.n]
          BY <1>3 DEF Site!Contents
        <5> QED BY <4>2, <5>1, <5>2
      <4> QED BY <1>3, <3>2, <4>2, <4>3, <4>4, <4>5
    <3> QED BY <1>1, <1>6, <3>1, <3>2
  <2>2. /\ Advances(w, "manifest") /\ disk' \in [Site!Files -> Site!Contents]
        /\ disk'["chunks"] = c /\ thread'[w].current["chunks"] = c
        /\ \A f \in Site!Files \ {"chunks"} :
               disk'[f] = disk[f] /\ thread'[w].current[f] = thread[w].current[f]
    BY <1>2, <2>1, FilePut
  <2> QED BY <2>1, <2>2, FileNames
<1> QED BY <1>5, <1>6

LEMMA WriteChunksHolds ==
    ASSUME Site!TypeOK, Site!ExportInv, NEW w \in Workers, Site!WriteChunks(w)
    PROVE  Site!TypeOK' /\ Site!ExportInv'
<1>1. /\ thread[w].pc = "chunks"
      /\ UNCHANGED <<db, commits, cursor, lock, generation, faults>>
      /\ UNCHANGED <<enabled, waits, abandoned>>
  BY DEF Site!WriteChunks
<1>2. /\ Advances(w, "manifest") /\ disk' \in [Site!Files -> Site!Contents]
      /\ disk'["room"] = disk["room"] /\ thread'[w].current["room"] = thread[w].current["room"]
      /\ disk'["manifest"] = disk["manifest"]
      /\ (Site!Sole(w) /\ thread[w].mode = "full") \/ ~abandoned =>
             /\ disk'["chunks"] = thread[w].db.events
             /\ thread'[w].current["chunks"] = thread[w].db.events
  BY ChunksAre
<1>3. "manifest" \in ThreadPlaces
  BY DEF ThreadPlaces
<1>4. Site!TypeOK'
  BY <1>1, <1>2, ExportTypes, ExportBooleans, ExportTypesHold DEF Advances
<1>5. Site!Sole(w) => Site!Progress(w)'
  BY <1>1, <1>2, SoleFacts DEF Site!Progress, Site!Written, Advances
<1>6. ~abandoned /\ Site!Sole(w) => Site!Based(w)'
  BY <1>1, <1>2, SoleFacts DEF Site!Based, Advances
<1>7. ~abandoned /\ Site!Sole(w) /\ generation = Site!NoFiles => Site!Whole(disk)'
  BY <1>1, <1>2, SoleFacts DEF Site!Based, Site!Whole
<1>8. Site!ExportInv'
  BY <1>1, <1>2, <1>3, <1>5, <1>6, <1>7, AdvanceHolds
<1> QED BY <1>4, <1>8

LEMMA WriteManifestHolds ==
    ASSUME Site!TypeOK, Site!ExportInv, NEW w \in Workers, Site!WriteManifest(w)
    PROVE  Site!TypeOK' /\ Site!ExportInv'
<1>1. /\ thread[w].pc = "manifest"
      /\ UNCHANGED <<db, commits, cursor, lock, generation, faults>>
      /\ UNCHANGED <<enabled, waits, abandoned>>
      /\ \/ thread[w].mode = "preserve" /\ Site!Preserve(w, "manifest", "publish")
         \/ thread[w].mode # "preserve" /\ Site!Put(w, "manifest", thread[w].db.events, "publish")
  BY DEF Site!WriteManifest
<1>2. "manifest" \in Site!Files /\ "publish" \in ThreadPlaces
  BY FileNames DEF ThreadPlaces
<1>3. /\ Advances(w, "publish") /\ disk' \in [Site!Files -> Site!Contents]
      /\ \A f \in {"room", "chunks"} :
             disk'[f] = disk[f] /\ thread'[w].current[f] = thread[w].current[f]
      /\ thread[w].mode # "preserve" \/ ~abandoned =>
             /\ disk'["manifest"] = thread[w].db.events
             /\ thread'[w].current["manifest"] = thread[w].db.events
  <2>1. CASE Site!Preserve(w, "manifest", "publish") /\ thread[w].mode = "preserve"
    <3>1. /\ Advances(w, "publish") /\ disk' = disk
          /\ thread'[w].current["manifest"] = disk["manifest"]
          /\ \A f \in Site!Files \ {"manifest"} : thread'[w].current[f] = thread[w].current[f]
      BY <1>2, <2>1, FilePreserved
    <3>2. ~abandoned => disk["manifest"] = thread[w].db.events
      BY <1>1, <2>1, SoleFacts DEF Site!Based
    <3> QED BY <2>1, <3>1, <3>2, FileNames, ExportTypes
  <2>2. CASE Site!Put(w, "manifest", thread[w].db.events, "publish")
    <3>1. PICK c \in Site!Contents : c = thread[w].db.events
      BY ThreadIs
    <3>2. Site!Put(w, "manifest", c, "publish")
      BY <2>2, <3>1
    <3>3. /\ Advances(w, "publish") /\ disk' \in [Site!Files -> Site!Contents]
          /\ disk'["manifest"] = c /\ thread'[w].current["manifest"] = c
          /\ \A f \in Site!Files \ {"manifest"} :
                 disk'[f] = disk[f] /\ thread'[w].current[f] = thread[w].current[f]
      BY <1>2, <3>2, FilePut
    <3> QED BY <3>1, <3>3, FileNames
  <2> QED BY <1>1, <2>1, <2>2
<1>4. Site!TypeOK'
  BY <1>1, <1>3, ExportTypes, ExportBooleans, ExportTypesHold DEF Advances
<1>5. Site!Sole(w) => Site!Progress(w)'
  BY <1>1, <1>3, SoleFacts DEF Site!Progress, Site!Written, Advances
<1>6. ~abandoned /\ Site!Sole(w) => Site!Based(w)'
  BY <1>1, <1>3, SoleFacts DEF Site!Based, Advances
<1>7. ~abandoned /\ Site!Sole(w) /\ generation = Site!NoFiles => Site!Whole(disk)'
  <2> SUFFICES ASSUME ~abandoned, Site!Sole(w) PROVE Site!Whole(disk)'
    OBVIOUS
  <2>1. thread[w].mode # "off" /\ thread[w].db \in commits
    BY <1>1, SoleFacts DEF Site!Progress
  <2>2. disk["room"] = thread[w].db.room /\ disk["chunks"] = thread[w].db.events
    BY <1>1, <2>1, SoleFacts DEF Site!Progress, Site!Written
  <2>3. /\ disk'["room"] = thread[w].db.room /\ disk'["chunks"] = thread[w].db.events
        /\ disk'["manifest"] = thread[w].db.events
    BY <1>3, <2>2
  <2> QED BY <1>1, <2>1, <2>3 DEF Site!Whole
<1>8. Site!ExportInv'
  BY <1>1, <1>2, <1>3, <1>5, <1>6, <1>7, AdvanceHolds
<1> QED BY <1>4, <1>8

LEMMA RemoveRoomHolds ==
    ASSUME Site!TypeOK, Site!ExportInv, NEW w \in Workers, Site!RemoveRoom(w)
    PROVE  Site!TypeOK' /\ Site!ExportInv'
<1>1. /\ thread[w].pc = "remove" /\ disk' = Site!NoFiles
      /\ thread' = [thread EXCEPT ![w].pc = "publish"]
      /\ UNCHANGED <<db, commits, cursor, lock, generation, faults>>
      /\ UNCHANGED <<enabled, waits, abandoned>>
  BY DEF Site!RemoveRoom
<1>2. "publish" \in ThreadPlaces
  BY DEF ThreadPlaces
<1>3. Advances(w, "publish") /\ thread'[w].current = thread[w].current
  <2>1. PICK t \in Thread : t = thread[w]
    BY ExportTypes
  <2>2. PICK s : s = [t EXCEPT !.pc = "publish"]
    OBVIOUS
  <2>3. /\ s \in Thread /\ s.pc = "publish" /\ s.mode = t.mode /\ s.db = t.db /\ s.base = t.base
        /\ s.alone = t.alone /\ s.current = t.current
    BY <1>2, <2>1, <2>2 DEF Thread
  <2>4. thread' = [thread EXCEPT ![w] = s]
    BY <1>1, <2>1, <2>2, ExportTypes DEF Thread
  <2> QED BY <2>1, <2>3, <2>4, ExportTypes DEF Advances
<1>4. disk' \in [Site!Files -> Site!Contents] /\ disk'["manifest"] = Site!NoState
  BY <1>1, NoFilesIs, FileNames
<1>5. Site!TypeOK'
  BY <1>1, <1>3, <1>4, ExportTypes, ExportBooleans, ExportTypesHold DEF Advances
<1>6. Site!Sole(w) => Site!Progress(w)'
  BY <1>1, <1>3, SoleFacts DEF Site!Progress, Site!Written, Advances
<1>7. ~abandoned /\ Site!Sole(w) => Site!Based(w)'
  BY <1>1, <1>3, SoleFacts DEF Site!Based, Site!Progress, Advances
<1>8. Site!Whole(disk)'
  BY <1>4 DEF Site!Whole
<1>9. Site!ExportInv'
  BY <1>1, <1>2, <1>3, <1>6, <1>7, <1>8, AdvanceHolds
<1> QED BY <1>5, <1>9


(* What the steps that a thread does not take leave of the invariant.       *)
LEMMA StillTrue ==
    ASSUME Site!ExportInv,
           UNCHANGED <<db, commits, cursor, lock, thread, disk, generation, abandoned>>
    PROVE  Site!ExportInv'
  BY DEF Site!ExportInv, Site!SnapshotsInv, Site!SoleInv, Site!ReachedInv, Site!Active, Site!Sole, Site!Progress,
         Site!Written, Site!Based, Site!Whole

(* An export starts: nothing is left running, unless it was abandoned.      *)
LEMMA RefreshTypes ==
    ASSUME Site!TypeOK, NEW w \in Workers, NEW forced \in BOOLEAN, Site!RefreshPublicExport(w, forced)
    PROVE  /\ thread' \in [Workers -> Thread] /\ \A v \in Workers \ {w} : thread'[v] = thread[v]
           /\ generation' \in [Site!Files -> Site!Contents]
           /\ thread'[w].pc = (IF enabled THEN "room" ELSE "remove")
           /\ thread'[w].mode = Site!Mode(forced) /\ thread'[w].db = db /\ thread'[w].base = cursor
           /\ thread'[w].current = Site!NoFiles /\ thread'[w].alone = (Site!Active = {})
<1>1. Site!Mode(forced) \in ThreadModes
  BY DEF Site!Mode, ThreadModes
<1>2. PICK p : p = IF enabled THEN "room" ELSE "remove"
  OBVIOUS
<1>3. PICK m : m = Site!Mode(forced)
  OBVIOUS
<1>4. PICK a : a = (Site!Active = {})
  OBVIOUS
<1>5. a \in BOOLEAN
  BY <1>4, Zenon
<1>6. PICK t : t = [pc |-> p, mode |-> m, db |-> db, base |-> cursor, current |-> Site!NoFiles,
                    alone |-> a]
  OBVIOUS
<1>7. thread' = [thread EXCEPT ![w] = t]
  BY <1>2, <1>3, <1>4, <1>6, Zenon DEF Site!RefreshPublicExport
<1>8. p \in ThreadPlaces /\ m \in ThreadModes
  BY <1>1, <1>2, <1>3 DEF ThreadPlaces
<1>9. db \in Site!Rooms /\ cursor \in Site!Contents /\ Site!NoFiles \in [Site!Files -> Site!Contents]
  BY ExportTypes, NoFilesIs
<1>10. t \in Thread
  BY <1>5, <1>6, <1>8, <1>9, Zenon DEF Thread
<1>11. /\ thread' \in [Workers -> Thread] /\ thread'[w] = t
       /\ \A v \in Workers \ {w} : thread'[v] = thread[v]
  BY <1>7, <1>10, ExportTypes
<1>12. generation' \in [Site!Files -> Site!Contents]
  BY ExportTypes DEF Site!RefreshPublicExport, Site!BootstrapExistingGenerations
<1>13. /\ t.pc = p /\ t.mode = m /\ t.db = db /\ t.base = cursor /\ t.current = Site!NoFiles
       /\ t.alone = a
  BY <1>6, Zenon
<1> QED BY <1>2, <1>3, <1>4, <1>11, <1>12, <1>13

LEMMA RefreshHolds ==
    ASSUME Site!GameExportAssumption, Site!TypeOK, Site!ExportInv, NEW w \in Workers,
           NEW forced \in BOOLEAN, Site!RefreshPublicExport(w, forced)
    PROVE  Site!TypeOK' /\ Site!ExportInv'
<1>1. /\ lock = Free /\ lock' = w /\ Free # w
      /\ UNCHANGED <<db, commits, cursor, disk, faults>> /\ UNCHANGED <<enabled, waits, abandoned>>
      /\ generation' = (IF generation = Site!NoFiles THEN disk ELSE generation)
  BY DEF Site!RefreshPublicExport, Site!BootstrapExistingGenerations, Site!GameExportAssumption
<1>2. /\ thread' \in [Workers -> Thread] /\ \A v \in Workers \ {w} : thread'[v] = thread[v]
      /\ generation' \in [Site!Files -> Site!Contents]
      /\ thread'[w].pc = (IF enabled THEN "room" ELSE "remove")
      /\ thread'[w].mode = Site!Mode(forced) /\ thread'[w].db = db /\ thread'[w].base = cursor
      /\ thread'[w].current = Site!NoFiles /\ thread'[w].alone = (Site!Active = {})
  BY RefreshTypes
<1>3. Site!TypeOK'
  BY <1>1, <1>2, ExportTypes, ExportBooleans, ExportTypesHold
<1>4. thread[w].pc = "idle"
  BY DEF Site!RefreshPublicExport, Site!Idle
<1>5. Site!Active' = Site!Active \union {w} /\ w \notin Site!Active
  BY <1>2, <1>4 DEF Site!Active
<1>6. Site!SnapshotsInv'
  <2> SUFFICES ASSUME NEW v \in Site!Active' PROVE thread'[v].db \in commits
    BY <1>1 DEF Site!ExportInv, Site!SnapshotsInv
  <2>1. CASE v = w
    BY <1>2, <2>1 DEF Site!ExportInv, Site!SnapshotsInv
  <2>2. CASE v # w
    <3>1. v \in Site!Active /\ v \in Workers
      BY <1>5, <2>2 DEF Site!Active
    <3> QED BY <1>2, <2>2, <3>1 DEF Site!ExportInv, Site!SnapshotsInv
  <2> QED BY <2>1, <2>2
<1>7. /\ Site!Mode(forced) = "off" <=> ~enabled
      /\ Site!Mode(forced) = "preserve" => cursor = db.events
      /\ Site!Mode(forced) = "append" => cursor # Site!NoState /\ cursor.season = db.events.season
  BY DEF Site!Mode
<1>8. Site!Progress(w)'
  BY <1>2, <1>7 DEF Site!Progress
<1>9. Site!SoleInv'
  <2> SUFFICES ASSUME NEW v \in Workers, Site!Sole(v)' PROVE Site!Active' = {v} /\ Site!Progress(v)'
    BY DEF Site!SoleInv
  <2>1. v = w
    BY <1>1 DEF Site!Sole
  <2>2. thread'[w].alone
    BY <2>1 DEF Site!Sole
  <2>3. Site!Active = {}
    BY <1>2, <2>2
  <2> QED BY <1>5, <1>8, <2>1, <2>3
<1>10. Site!ReachedInv'
  <2> SUFFICES ASSUME ~abandoned PROVE Site!ReachedInv'
    BY <1>1 DEF Site!ReachedInv
  <2>1. /\ \A v \in Site!Active : Site!Sole(v)
        /\ Site!Whole(generation) /\ (generation = Site!NoFiles => Site!Whole(disk))
        /\ Site!Active = {} /\ cursor # Site!NoState => disk["chunks"] = cursor /\ disk["manifest"] = cursor
    BY DEF Site!ExportInv, Site!ReachedInv
  <2>2. Site!Active = {}
    BY <1>1, <2>1 DEF Site!Sole, Site!Active, Site!GameExportAssumption
  <2>3. Site!Active' = {w}
    BY <1>5, <2>2
  <2>4. thread'[w].alone
    BY <1>2, <2>2
  <2>5. Site!Sole(w)'
    BY <1>1, <2>3, <2>4 DEF Site!Sole
  <2>6. db.events # Site!NoState
    BY DEF Site!ExportInv, Site!SnapshotsInv, Site!NoState
  <2>7. thread'[w].mode \in {"append", "preserve"} =>
            disk["chunks"] = cursor /\ disk["manifest"] = cursor
    BY <1>2, <1>7, <2>1, <2>2, <2>6
  <2>8. generation' = Site!NoFiles => disk["manifest"] = Site!NoState
    BY <1>1, NoFilesIs, FileNames
  <2>9. Site!Based(w)'
    BY <1>1, <1>2, <1>7, <2>7, <2>8 DEF Site!Based
  <2>10. Site!Whole(generation)'
    <3>1. CASE generation = Site!NoFiles
      BY <1>1, <2>1, <3>1 DEF Site!Whole
    <3>2. CASE generation # Site!NoFiles
      BY <1>1, <2>1, <3>2 DEF Site!Whole
    <3> QED BY <3>1, <3>2
  <2>11. generation' = Site!NoFiles => Site!Whole(disk)'
    BY <1>1, <2>8 DEF Site!Whole
  <2> QED BY <2>3, <2>5, <2>9, <2>10, <2>11 DEF Site!ReachedInv
<1> QED BY <1>3, <1>6, <1>9, <1>10 DEF Site!ExportInv

(* A thread is over: the one that held the lock gives it back.              *)
LEMMA IdleThread == Site!Idle \in Thread /\ Site!Idle.pc = "idle"
<1>1. Site!NoState \in Site!Contents /\ Site!NoFiles \in [Site!Files -> Site!Contents]
  BY NoFilesIs
<1>2. [room |-> Site!NoState, events |-> Site!NoState] \in Site!Rooms
  BY <1>1, Zenon DEF Site!Rooms
<1>3. TRUE \in BOOLEAN /\ "idle" \in ThreadPlaces /\ "full" \in ThreadModes
  BY Zenon DEF ThreadPlaces, ThreadModes
<1>4. Site!Idle.pc = "idle"
  BY DEF Site!Idle
<1> QED BY <1>1, <1>2, <1>3, <1>4, Zenon DEF Site!Idle, Thread

LEMMA EndsIs ==
    ASSUME Site!GameExportAssumption, Site!TypeOK, Site!ExportInv, NEW w \in Workers, NEW ok \in BOOLEAN,
           thread[w].pc # "idle", Site!Ends(w, ok), UNCHANGED <<db, commits>>
    PROVE  /\ thread' \in [Workers -> Thread] /\ Site!Active' = Site!Active \ {w}
           /\ lock' \in Workers \union {Free} /\ cursor' \in Site!Contents /\ waits' \in BOOLEAN
           /\ Site!SnapshotsInv' /\ Site!SoleInv'
           /\ lock = w => cursor' = Site!CursorAfter(w, ok)
<1>1. /\ thread' = [thread EXCEPT ![w] = Site!Idle]
      /\ \/ lock = w /\ lock' = Free /\ cursor' = Site!CursorAfter(w, ok)
         \/ lock # w /\ UNCHANGED <<lock, cursor>>
  BY DEF Site!Ends
<1>2. waits' \in BOOLEAN
  <2>1. waits' = ok \/ waits' = waits
    BY Zenon DEF Site!Ends
  <2> QED BY <2>1, ExportBooleans, Zenon
<1>3. Site!CursorAfter(w, ok) \in Site!Contents
  BY ThreadIs, NoFilesIs DEF Site!CursorAfter
<1>4. /\ thread' \in [Workers -> Thread] /\ thread'[w].pc = "idle"
      /\ \A v \in Workers \ {w} : thread'[v] = thread[v]
  BY <1>1, IdleThread, ExportTypes
<1>5. Site!Active' = Site!Active \ {w} /\ w \in Site!Active
  BY <1>4 DEF Site!Active
<1>6. Site!SnapshotsInv'
  <2> SUFFICES ASSUME NEW v \in Site!Active' PROVE thread'[v].db \in commits
    BY DEF Site!ExportInv, Site!SnapshotsInv
  <2>1. v \in Site!Active /\ v \in Workers \ {w}
    BY <1>5 DEF Site!Active
  <2> QED BY <1>4, <2>1 DEF Site!ExportInv, Site!SnapshotsInv
<1>7. \A v \in Workers : ~Site!Sole(v)'
  <2> SUFFICES ASSUME NEW v \in Workers, Site!Sole(v)' PROVE FALSE
    OBVIOUS
  <2>1. lock' = v /\ v \in Site!Active' /\ Free # v
    BY DEF Site!Sole, Site!GameExportAssumption
  <2>2. lock = v /\ v # w /\ v \in Site!Active
    BY <1>1, <1>5, <2>1
  <2>3. thread'[v].alone
    BY DEF Site!Sole
  <2>4. thread[v].alone
    BY <1>4, <2>2, <2>3
  <2>5. Site!Active = {v}
    BY <2>2, <2>4 DEF Site!Sole, Site!ExportInv, Site!SoleInv
  <2> QED BY <1>5, <2>2, <2>5
<1>8. Site!SoleInv'
  BY <1>7 DEF Site!SoleInv
<1>9. lock' \in Workers \union {Free} /\ cursor' \in Site!Contents
  BY <1>1, <1>3, ExportTypes
<1> QED BY <1>1, <1>2, <1>4, <1>5, <1>6, <1>8, <1>9

LEMMA FinishHolds ==
    ASSUME Site!GameExportAssumption, Site!TypeOK, Site!ExportInv, NEW w \in Workers, Site!Finish(w)
    PROVE  Site!TypeOK' /\ Site!ExportInv'
<1>1. /\ thread[w].pc = "publish" /\ generation' = thread[w].current /\ Site!Ends(w, TRUE)
      /\ UNCHANGED <<db, commits, disk, faults>> /\ enabled' = enabled
  BY DEF Site!Finish
<1>2. abandoned' = (abandoned /\ ~(lock = w /\ thread[w].alone /\ thread[w].mode \in {"full", "off"}))
  BY DEF Site!Finish
<1>3. /\ thread' \in [Workers -> Thread] /\ Site!Active' = Site!Active \ {w}
      /\ lock' \in Workers \union {Free} /\ cursor' \in Site!Contents /\ waits' \in BOOLEAN
      /\ Site!SnapshotsInv' /\ Site!SoleInv'
      /\ lock = w => cursor' = Site!CursorAfter(w, TRUE)
  <2>1. UNCHANGED <<db, commits>> /\ thread[w].pc # "idle" /\ TRUE \in BOOLEAN
    BY <1>1
  <2> QED BY <1>1, <2>1, EndsIs
<1>4. abandoned' \in BOOLEAN
  BY <1>2, Zenon
<1>5. generation' \in [Site!Files -> Site!Contents]
  BY <1>1, ThreadIs
<1>6. Site!TypeOK'
  BY <1>1, <1>3, <1>4, <1>5, ExportTypes, ExportBooleans, ExportTypesHold
<1>7. Site!ReachedInv'
  <2> SUFFICES ASSUME ~abandoned' PROVE Site!ReachedInv'
    BY DEF Site!ReachedInv
  <2>1. w \in Site!Active /\ thread[w].db \in commits
    BY <1>1, SoleFacts
  <2>2. ~abandoned \/ (lock = w /\ thread[w].alone /\ thread[w].mode \in {"full", "off"})
    BY <1>2
  <2>3. Site!Sole(w)
    BY <1>1, <2>1, <2>2, SoleFacts DEF Site!Sole
  <2>4. Site!Active = {w} /\ Site!Progress(w) /\ lock = w
    BY <1>1, <2>3, SoleFacts DEF Site!Sole
  <2>5. Site!Active' = {}
    BY <1>3, <2>4
  <2>6. cursor' = IF thread[w].mode # "off" THEN thread[w].db.events ELSE Site!NoState
    BY <1>3, <2>4 DEF Site!CursorAfter
  <2>7. CASE thread[w].mode = "off"
    <3>1. disk = Site!NoFiles /\ thread[w].current = Site!NoFiles
      BY <1>1, <2>4, <2>7 DEF Site!Progress
    <3>2. generation'["manifest"] = Site!NoState /\ disk'["manifest"] = Site!NoState
      BY <1>1, <3>1, NoFilesIs, FileNames
    <3>3. cursor' = Site!NoState
      BY <2>6, <2>7
    <3> QED BY <2>5, <3>2, <3>3 DEF Site!ReachedInv, Site!Whole
  <2>8. CASE thread[w].mode # "off"
    <3>1. thread[w].mode = "full" \/ (~abandoned /\ thread[w].mode # "off")
      BY <2>2, <2>8
    <3>2. /\ Site!Written(w, "room", thread[w].db.room)
          /\ Site!Written(w, "chunks", thread[w].db.events)
          /\ Site!Written(w, "manifest", thread[w].db.events)
      BY <1>1, <2>4, <2>8, <3>1 DEF Site!Progress
    <3>3. PICK c \in commits : c = thread[w].db
      BY <2>1
    <3>4. /\ generation'["room"] = c.room /\ generation'["chunks"] = c.events
          /\ generation'["manifest"] = c.events
          /\ disk'["room"] = c.room /\ disk'["chunks"] = c.events /\ disk'["manifest"] = c.events
          /\ c \in commits'
      BY <1>1, <3>2, <3>3 DEF Site!Written
    <3>5. Site!Whole(generation)' /\ Site!Whole(disk)'
      BY <3>4 DEF Site!Whole
    <3>6. cursor' = c.events
      BY <2>6, <2>8, <3>3
    <3> QED BY <2>5, <3>4, <3>5, <3>6 DEF Site!ReachedInv
  <2> QED BY <2>7, <2>8
<1> QED BY <1>3, <1>6, <1>7 DEF Site!ExportInv

LEMMA FailsHolds ==
    ASSUME Site!GameExportAssumption, Site!TypeOK, Site!ExportInv, NEW w \in Workers, Site!Fails(w)
    PROVE  Site!TypeOK' /\ Site!ExportInv'
<1>1. /\ thread[w].pc # "idle" /\ Site!Ends(w, FALSE)
      /\ UNCHANGED <<db, commits, disk, generation>> /\ UNCHANGED <<enabled, abandoned>>
      /\ faults' = faults \/ (faults < MaxFaults /\ faults' = faults + 1)
  BY DEF Site!Fails
<1>2. /\ thread' \in [Workers -> Thread] /\ Site!Active' = Site!Active \ {w}
      /\ lock' \in Workers \union {Free} /\ cursor' \in Site!Contents /\ waits' \in BOOLEAN
      /\ Site!SnapshotsInv' /\ Site!SoleInv'
      /\ lock = w => cursor' = Site!CursorAfter(w, FALSE)
  <2>1. UNCHANGED <<db, commits>> /\ FALSE \in BOOLEAN
    BY <1>1
  <2> QED BY <1>1, <2>1, EndsIs
<1>3. faults' \in 0 .. MaxFaults
  BY <1>1, ExportTypes DEF Site!GameExportAssumption
<1>4. Site!TypeOK'
  BY <1>1, <1>2, <1>3, ExportTypes, ExportBooleans, ExportTypesHold
<1>5. Site!ReachedInv'
  <2> SUFFICES ASSUME ~abandoned PROVE Site!ReachedInv'
    BY <1>1 DEF Site!ReachedInv
  <2>1. Site!Sole(w) /\ Site!Whole(generation) /\ (generation = Site!NoFiles => Site!Whole(disk))
    BY <1>1, SoleFacts
  <2>2. Site!Active = {w} /\ lock = w
    BY <1>1, <2>1, SoleFacts DEF Site!Sole
  <2>3. Site!Active' = {}
    BY <1>2, <2>2
  <2>4. cursor' = Site!NoState
    BY <1>2, <2>2 DEF Site!CursorAfter
  <2>5. Site!Whole(generation)' /\ (generation' = Site!NoFiles => Site!Whole(disk)')
    BY <1>1, <2>1 DEF Site!Whole
  <2> QED BY <2>3, <2>4, <2>5 DEF Site!ReachedInv
<1> QED BY <1>2, <1>4, <1>5 DEF Site!ExportInv

(* The coroutine is cancelled, or the process ends.                         *)
LEMMA CancelledHolds ==
    ASSUME Site!GameExportAssumption, Site!TypeOK, Site!ExportInv, NEW w \in Workers, Site!Cancelled(w)
    PROVE  Site!TypeOK' /\ Site!ExportInv'
<1>1. /\ lock' = Free /\ faults < MaxFaults /\ faults' = faults + 1
      /\ UNCHANGED <<db, commits, cursor, thread, disk, generation>> /\ UNCHANGED <<enabled, waits>>
  BY DEF Site!Cancelled
<1>2. abandoned' \in BOOLEAN /\ abandoned'
  BY Zenon DEF Site!Cancelled
<1>3. faults' \in 0 .. MaxFaults
  BY <1>1, ExportTypes DEF Site!GameExportAssumption
<1>4. Site!TypeOK'
  BY <1>1, <1>2, <1>3, ExportTypes, ExportBooleans, ExportTypesHold
<1>5. Site!SnapshotsInv'
  BY <1>1 DEF Site!ExportInv, Site!SnapshotsInv, Site!Active
<1>6. Site!SoleInv'
  BY <1>1 DEF Site!SoleInv, Site!Sole, Site!GameExportAssumption
<1>7. Site!ReachedInv'
  BY <1>2 DEF Site!ReachedInv
<1> QED BY <1>4, <1>5, <1>6, <1>7 DEF Site!ExportInv

LEMMA CrashedHolds ==
    ASSUME Site!GameExportAssumption, Site!TypeOK, Site!ExportInv, Site!Crash
    PROVE  Site!TypeOK' /\ Site!ExportInv'
<1>1. /\ lock' = Free /\ cursor' = Site!NoState /\ faults < MaxFaults /\ faults' = faults + 1
      /\ thread' = [w \in Workers |-> Site!Idle]
      /\ UNCHANGED <<db, commits, disk, generation>> /\ UNCHANGED <<enabled, abandoned>>
  BY DEF Site!Crash
<1>2. waits' \in BOOLEAN
  BY Zenon DEF Site!Crash
<1>3. faults' \in 0 .. MaxFaults
  BY <1>1, ExportTypes DEF Site!GameExportAssumption
<1>4. thread' \in [Workers -> Thread] /\ \A w \in Workers : thread'[w].pc = "idle"
  BY <1>1, IdleThread
<1>5. Site!TypeOK'
  BY <1>1, <1>2, <1>3, <1>4, NoFilesIs, ExportTypes, ExportBooleans, ExportTypesHold
<1>6. Site!Active' = {}
  BY <1>4 DEF Site!Active
<1>7. Site!SnapshotsInv' /\ Site!SoleInv'
  BY <1>1, <1>6 DEF Site!ExportInv, Site!SnapshotsInv, Site!SoleInv, Site!Sole
<1>8. Site!ReachedInv'
  <2> SUFFICES ASSUME ~abandoned PROVE Site!ReachedInv'
    BY <1>1 DEF Site!ReachedInv
  <2>1. Site!Whole(generation) /\ (generation = Site!NoFiles => Site!Whole(disk))
    BY DEF Site!ExportInv, Site!ReachedInv
  <2>2. Site!Whole(generation)' /\ (generation' = Site!NoFiles => Site!Whole(disk)')
    BY <1>1, <2>1 DEF Site!Whole
  <2> QED BY <1>1, <1>6, <2>2 DEF Site!ReachedInv
<1> QED BY <1>5, <1>7, <1>8 DEF Site!ExportInv

(* The game saves: what was whole stays whole.                              *)
LEMMA SavedHolds ==
    ASSUME Site!TypeOK, Site!ExportInv, Site!SaveState
    PROVE  Site!TypeOK' /\ Site!ExportInv'
<1>1. /\ commits' = commits \union {db'}
      /\ UNCHANGED <<cursor, lock, thread, disk, generation, faults>>
      /\ UNCHANGED <<enabled, waits, abandoned>>
  BY DEF Site!SaveState
<1>2. PICK e \in {db.events, [db.events EXCEPT !.n = @ + 1],
                  [season |-> db.events.season + 1, n |-> 1]} :
          db' = [room |-> [season |-> e.season, n |-> db.room.n + 1], events |-> e]
  BY DEF Site!SaveState
<1>3. /\ db.events \in Site!Contents /\ db.events.season \in Nat /\ db.events.n \in Int
      /\ db.room.n \in Int
  BY ExportTypes, RoomIs
<1>4. db \in commits /\ \A c \in commits : c.events.season # 0
  BY DEF Site!ExportInv, Site!SnapshotsInv
<1>5. e \in Site!Contents /\ e.season # 0
  <2>1. CASE e = db.events
    BY <1>3, <1>4, <2>1
  <2>2. CASE e = [db.events EXCEPT !.n = @ + 1]
    BY <1>3, <1>4, <2>2 DEF Site!Contents
  <2>3. CASE e = [season |-> db.events.season + 1, n |-> 1]
    BY <1>3, <2>3 DEF Site!Contents
  <2> QED BY <2>1, <2>2, <2>3
<1>6. db' \in Site!Rooms /\ db'.events.season # 0
  <2>1. [season |-> e.season, n |-> db.room.n + 1] \in Site!Contents
    BY <1>3, <1>5 DEF Site!Contents
  <2> QED BY <1>2, <1>5, <2>1 DEF Site!Rooms
<1>7. Site!TypeOK'
  <2>1. commits' \subseteq Site!Rooms
    BY <1>1, <1>6, ExportTypes
  <2> QED BY <1>1, <1>6, <2>1, ExportTypes, ExportBooleans, ExportTypesHold
<1>8. Site!Active' = Site!Active
  BY <1>1 DEF Site!Active
<1>9. Site!SnapshotsInv'
  BY <1>1, <1>6, <1>8 DEF Site!ExportInv, Site!SnapshotsInv
<1>10. Site!SoleInv'
  BY <1>1, <1>8 DEF Site!ExportInv, Site!SoleInv, Site!Sole, Site!Progress, Site!Written
<1>11. Site!ReachedInv'
  <2> SUFFICES ASSUME ~abandoned PROVE Site!ReachedInv'
    BY <1>1 DEF Site!ReachedInv
  <2>1. /\ \A w \in Site!Active : Site!Sole(w) /\ Site!Based(w)
        /\ Site!Whole(generation) /\ (generation = Site!NoFiles => Site!Whole(disk))
        /\ Site!Active = {} /\ cursor # Site!NoState => disk["chunks"] = cursor /\ disk["manifest"] = cursor
    BY DEF Site!ExportInv, Site!ReachedInv
  <2>2. \A w \in Site!Active' : Site!Sole(w)' /\ Site!Based(w)'
    BY <1>1, <1>8, <2>1 DEF Site!Sole, Site!Based
  <2>3. Site!Whole(generation)' /\ (generation' = Site!NoFiles => Site!Whole(disk)')
    BY <1>1, <2>1 DEF Site!Whole
  <2> QED BY <1>1, <1>8, <2>1, <2>2, <2>3 DEF Site!ReachedInv
<1> QED BY <1>7, <1>9, <1>10, <1>11 DEF Site!ExportInv

LEMMA SwitchedHolds ==
    ASSUME Site!TypeOK, Site!ExportInv, Site!Toggle \/ Site!TimePasses
    PROVE  Site!TypeOK' /\ Site!ExportInv'
<1>1. UNCHANGED <<db, commits, cursor, lock, thread, disk, generation, faults>>
  BY DEF Site!Toggle, Site!TimePasses
<1>2. abandoned' = abandoned /\ enabled' \in BOOLEAN /\ waits' \in BOOLEAN
  BY ExportBooleans, Zenon DEF Site!Toggle, Site!TimePasses
<1> QED BY <1>1, <1>2, ExportTypes, ExportBooleans, ExportTypesHold, StillTrue

LEMMA ExportStarts ==
    ASSUME Site!GameExportAssumption, Site!Init PROVE Site!TypeOK /\ Site!ExportInv
<1>1. /\ db = [room |-> [season |-> 1, n |-> 1], events |-> [season |-> 1, n |-> 0]]
      /\ commits = {db} /\ cursor = Site!NoState /\ lock = Free
      /\ thread = [w \in Workers |-> Site!Idle] /\ disk = Site!NoFiles /\ generation = Site!NoFiles
      /\ faults = 0
  BY DEF Site!Init
<1>2. enabled \in BOOLEAN /\ waits \in BOOLEAN /\ abandoned \in BOOLEAN
  BY Zenon DEF Site!Init
<1>3. [season |-> 1, n |-> 1] \in Site!Contents /\ [season |-> 1, n |-> 0] \in Site!Contents
  BY DEF Site!Contents
<1>4. db \in Site!Rooms /\ commits \subseteq Site!Rooms
  BY <1>1, <1>3 DEF Site!Rooms
<1>5. thread \in [Workers -> Thread] /\ \A w \in Workers : thread[w].pc = "idle"
  BY <1>1, IdleThread
<1>6. faults \in 0 .. MaxFaults
  BY <1>1 DEF Site!GameExportAssumption
<1>7. Site!TypeOK
  BY <1>1, <1>2, <1>4, <1>5, <1>6, NoFilesIs, Zenon DEF Site!TypeOK, Thread, ThreadPlaces, ThreadModes
<1>8. Site!Active = {}
  BY <1>5 DEF Site!Active
<1>9. Site!Whole(generation) /\ Site!Whole(disk)
  BY <1>1, NoFilesIs, FileNames DEF Site!Whole
<1>10. db.events.season # 0
  BY <1>1
<1>11. Site!SnapshotsInv /\ Site!SoleInv /\ Site!ReachedInv
  BY <1>1, <1>8, <1>9, <1>10 DEF Site!SnapshotsInv, Site!SoleInv, Site!Sole, Site!ReachedInv
<1> QED BY <1>7, <1>11 DEF Site!ExportInv

LEMMA ExportStep ==
    ASSUME Site!GameExportAssumption, Site!TypeOK, Site!ExportInv, [Site!Next]_Site!vars
    PROVE  Site!TypeOK' /\ Site!ExportInv'
<1>1. CASE UNCHANGED Site!vars
  <2>1. /\ UNCHANGED <<db, commits, cursor, lock, thread, disk, generation, faults>>
        /\ UNCHANGED <<enabled, waits, abandoned>>
    BY <1>1 DEF Site!vars
  <2> QED BY <2>1, ExportTypes, ExportBooleans, ExportTypesHold, StillTrue
<1>2. CASE Site!SaveState
  BY <1>2, SavedHolds
<1>3. CASE Site!Toggle \/ Site!TimePasses
  BY <1>3, SwitchedHolds
<1>4. CASE Site!Crash
  BY <1>4, CrashedHolds
<1>5. ASSUME NEW w \in Workers, NEW forced \in BOOLEAN, Site!RefreshPublicExport(w, forced)
      PROVE  Site!TypeOK' /\ Site!ExportInv'
  BY <1>5, RefreshHolds
<1>6. ASSUME NEW w \in Workers, Site!Step(w) PROVE Site!TypeOK' /\ Site!ExportInv'
  <2>1. CASE Site!WriteRoom(w)
    BY <2>1, WriteRoomHolds
  <2>2. CASE Site!WriteChunks(w)
    BY <2>2, WriteChunksHolds
  <2>3. CASE Site!WriteManifest(w)
    BY <2>3, WriteManifestHolds
  <2>4. CASE Site!RemoveRoom(w)
    BY <2>4, RemoveRoomHolds
  <2>5. CASE Site!Finish(w)
    BY <2>5, FinishHolds
  <2>6. CASE Site!Fails(w)
    BY <2>6, FailsHolds
  <2> QED BY <1>6, <2>1, <2>2, <2>3, <2>4, <2>5, <2>6 DEF Site!Step
<1>7. ASSUME NEW w \in Workers, Site!Cancelled(w) PROVE Site!TypeOK' /\ Site!ExportInv'
  BY <1>7, CancelledHolds
<1> QED BY <1>1, <1>2, <1>3, <1>4, <1>5, <1>6, <1>7 DEF Site!Next

(* What one generation of the public files lists was committed together,    *)
(* unless a thread was left alone and no full export has followed:          *)
(* load_export_snapshot and _DeltaExportWriter.  The invariant adds that a  *)
(* thread that holds the lock and started alone is alone, and that the      *)
(* cursor is what the history on disk has reached.                          *)
THEOREM GenerationsAreAlwaysWhole ==
    ASSUME Site!GameExportAssumption
    PROVE  Site!Spec => [](Site!TypeOK /\ Site!GenerationsAreWhole)
<1>1. Site!Init => Site!TypeOK /\ Site!ExportInv
  BY ExportStarts
<1>2. Site!TypeOK /\ Site!ExportInv /\ [Site!Next]_Site!vars => Site!TypeOK' /\ Site!ExportInv'
  BY ExportStep
<1>3. Site!TypeOK /\ Site!ExportInv => Site!GenerationsAreWhole
  BY DEF Site!ExportInv, Site!ReachedInv, Site!GenerationsAreWhole
<1> QED BY <1>1, <1>2, <1>3, PTL DEF Site!Spec
=============================================================================
