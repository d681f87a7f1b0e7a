-------------------------- MODULE RateLimiterProofs --------------------------
(***************************************************************************)
(* Theorems about RateLimiter for any senders, settings and times: the     *)
(* table never exceeds its bound, a block is served to its end, and nobody *)
(* is allowed more than a full bucket and its refills.                     *)
(***************************************************************************)
EXTENDS RateLimiter, FiniteSetTheorems, TLAPS

Fields == {"tokens", "refilled", "denials", "until", "blocks", "notified", "seen"}

(* The inductive invariant.  A sender that is not tracked has no state at   *)
(* all, so a blocked sender is tracked; and the table is within its bound,  *)
(* so it is full only if pruning has removed nobody.                        *)
Bounded ==
    /\ IsFiniteSet(Tracked(client))
    /\ Cardinality(Tracked(client)) <= MaxClients

Table ==
    /\ now \in Nat /\ reloads \in Nat
    /\ client = [c \in Clients |-> client[c]]
    /\ \A c \in Clients : /\ DOMAIN client[c] = Fields
                          /\ client[c].seen = None => client[c] = Unknown
    /\ Bounded

-----------------------------------------------------------------------------
(* What pruning leaves: every sender it does not forget as it was, and no   *)
(* sender forgotten that is blocked or was seen lately.                     *)
Lapsed(c) ==
    IdleTtl # 0 /\ client[c].seen # None /\ client[c].seen + IdleTtl <= now

Leaves(cs) ==
    /\ cs = [c \in Clients |-> cs[c]]
    /\ \A c \in Clients :
        cs[c] = client[c] \/ (cs[c] = Unknown /\ ~Blocked(c) /\ Lapsed(c))

LEMMA ForgetIdle ==
    ASSUME NEW cs, Leaves(cs)
    PROVE  Leaves(Forget(cs, Idle(cs)))
<1> DEFINE fs == Forget(cs, Idle(cs))
<1>1. fs = [c \in Clients |-> fs[c]]
  BY DEF Forget
<1>2. ASSUME NEW c \in Clients
      PROVE  fs[c] = client[c] \/ (fs[c] = Unknown /\ ~Blocked(c) /\ Lapsed(c))
  <2>1. CASE c \in Idle(cs)
    <3>1. fs[c] = Unknown
      BY <2>1 DEF Forget
    <3>2. /\ ~Serves(cs[c]) /\ IdleTtl # 0
          /\ cs[c].seen # None /\ cs[c].seen + IdleTtl <= now
      BY <2>1 DEF Idle, Tracked
    <3>3. cs[c] = client[c]
      BY <3>2 DEF Leaves, Unknown
    <3> QED BY <3>1, <3>2, <3>3 DEF Blocked, Lapsed
  <2>2. CASE c \notin Idle(cs)
    <3>1. fs[c] = cs[c]
      BY <2>2 DEF Forget
    <3> QED BY <3>1 DEF Leaves
  <2> QED BY <2>1, <2>2
<1> QED BY <1>1, <1>2 DEF Leaves

LEMMA PrunedLeaves ==
    ASSUME Table, NEW c \in Clients
    PROVE  Leaves(Pruned(c))
<1>1. Leaves(client)
  BY DEF Table, Leaves
<1>2. Leaves(AfterDue)
  BY <1>1, ForgetIdle DEF AfterDue
<1> QED BY <1>2, ForgetIdle DEF Pruned

(* Pruned tables stay within the bound, and are full only if untouched.     *)
LEMMA PrunedBounded ==
    ASSUME RateLimiterAssumption, Table, NEW cs, Leaves(cs)
    PROVE  /\ IsFiniteSet(Tracked(cs))
           /\ Cardinality(Tracked(cs)) \in Nat
           /\ Cardinality(Tracked(cs)) <= MaxClients
           /\ Cardinality(Tracked(cs)) >= MaxClients =>
                  /\ Tracked(cs) = Tracked(client)
                  /\ Cardinality(Tracked(client)) >= MaxClients
<1>1. Tracked(cs) \in SUBSET Tracked(client)
  BY DEF Leaves, Tracked, Unknown
<1>2. /\ IsFiniteSet(Tracked(cs))
      /\ Cardinality(Tracked(cs)) <= Cardinality(Tracked(client))
      /\ Cardinality(Tracked(client)) = Cardinality(Tracked(cs)) =>
             Tracked(client) = Tracked(cs)
  BY <1>1, FS_Subset DEF Table, Bounded
<1>3. Cardinality(Tracked(cs)) \in Nat /\ Cardinality(Tracked(client)) \in Nat
  BY <1>2, FS_CardinalityType DEF Table, Bounded
<1>4. MaxClients \in Nat
  BY DEF RateLimiterAssumption
<1> QED BY <1>2, <1>3, <1>4 DEF Table, Bounded

-----------------------------------------------------------------------------
(* What an attempt does to the table.                                       *)
LEMMA AttemptShape ==
    ASSUME RateLimiterAssumption, Table, NEW c \in Clients,
           NEW gone \in Displaced(c), NEW r, NEW allowed, Answer(c, r, gone, allowed),
           DOMAIN r = Fields, r.seen = now
    PROVE  /\ client' = [d \in Clients |-> client'[d]]
           /\ \A d \in Clients : /\ DOMAIN client'[d] = Fields
                                 /\ client'[d].seen = None => client'[d] = Unknown
           /\ Bounded'
<1> DEFINE P == Pruned(c)
<1>1. Leaves(P)
  BY PrunedLeaves
<1>2. client' = [d \in Clients |-> IF d = c THEN r ELSE IF d \in gone THEN Unknown ELSE P[d]]
  BY DEF Answer, Forget
<1>3. now # None /\ now \in Nat
  BY DEF RateLimiterAssumption, Table
<1>4. ASSUME NEW d \in Clients
      PROVE  /\ DOMAIN client'[d] = Fields
             /\ client'[d].seen = None => client'[d] = Unknown
  <2>1. CASE d = c
    BY <1>2, <1>3, <2>1
  <2>2. CASE d # c
    <3>1. client'[d] = Unknown \/ client'[d] = client[d]
      BY <1>1, <1>2, <2>2 DEF Leaves
    <3>2. DOMAIN Unknown = Fields
      BY DEF Unknown, Fields
    <3> QED BY <3>1, <3>2 DEF Table
  <2> QED BY <2>1, <2>2
<1>5. /\ IsFiniteSet(Tracked(P)) /\ Cardinality(Tracked(P)) \in Nat
      /\ Cardinality(Tracked(P)) <= MaxClients
  BY <1>1, PrunedBounded
<1>6. Tracked(client') = (Tracked(P) \ gone) \cup {c}
  BY <1>2, <1>3 DEF Tracked, Unknown
<1>7. MaxClients \in Nat
  BY DEF RateLimiterAssumption
<1>8. CASE Full(c, P)
  <2>1. PICK o \in Candidates(P) : gone = {o}
    BY <1>8 DEF Displaced, Oldest
  <2>2. o \in Tracked(P) /\ c \notin Tracked(P)
    BY <1>8, <2>1 DEF Candidates, Full
  <2>3. /\ IsFiniteSet(Tracked(P) \ {o})
        /\ Cardinality(Tracked(P) \ {o}) = Cardinality(Tracked(P)) - 1
    BY <1>5, <2>2, FS_RemoveElement
  <2>4. /\ IsFiniteSet((Tracked(P) \ {o}) \cup {c})
        /\ Cardinality((Tracked(P) \ {o}) \cup {c}) = Cardinality(Tracked(P)) - 1 + 1
    BY <2>2, <2>3, FS_AddElement
  <2>5. Tracked(client') = (Tracked(P) \ {o}) \cup {c}
    BY <1>6, <2>1
  <2>6. Cardinality((Tracked(P) \ {o}) \cup {c}) <= MaxClients
    BY <1>5, <1>7, <2>4
  <2>7. Bounded'
    BY <2>4, <2>5, <2>6 DEF Bounded, Tracked
  <2> QED BY <1>2, <1>4, <2>7
<1>9. CASE ~Full(c, P)
  <2>1. gone = {}
    BY <1>9 DEF Displaced
  <2>2. Tracked(client') = Tracked(P) \cup {c}
    BY <1>6, <2>1
  <2>3. /\ IsFiniteSet(Tracked(P) \cup {c})
        /\ Cardinality(Tracked(P) \cup {c}) =
             IF c \in Tracked(P) THEN Cardinality(Tracked(P))
             ELSE Cardinality(Tracked(P)) + 1
    BY <1>5, FS_AddElement
  <2>4. Cardinality(Tracked(P) \cup {c}) <= MaxClients
    BY <1>5, <1>7, <1>9, <2>3 DEF Full
  <2>5. Bounded'
    BY <2>2, <2>3, <2>4 DEF Bounded, Tracked
  <2> QED BY <1>2, <1>4, <2>5
<1> QED BY <1>8, <1>9

(* The bucket an attempt finds.                                             *)
Bucket(p) == IF Serves(p) THEN Ensured(p) ELSE Refilled(Ensured(p))

(* The entry an attempt writes, whichever of the three answers it gets: it  *)
(* is seen now, a block it meets stays what it is, and the bucket loses a   *)
(* token if the attempt is allowed and nothing otherwise.                   *)
Settles(p, r, allowed) ==
    /\ DOMAIN r = Fields /\ r.seen = now
    /\ Serves(p) => r.until = p.until
    /\ r.refilled = Bucket(p).refilled /\ Bucket(p).seen = now
    /\ allowed => r.tokens = Bucket(p).tokens - 1 /\ Bucket(p).tokens # 0 /\ ~Serves(p)
    /\ ~allowed => r.tokens = Bucket(p).tokens

LEMMA AttemptAnswers ==
    ASSUME Table, NEW c \in Clients, Attempt(c)
    PROVE  \E gone, r, allowed :
               /\ gone \in Displaced(c)
               /\ Answer(c, r, gone, allowed)
               /\ DOMAIN Pruned(c)[c] = Fields
               /\ Settles(Pruned(c)[c], r, allowed)
<1> DEFINE p == Pruned(c)[c]
           e == Ensured(p)
           f == Refilled(e)
<1>1. DOMAIN p = Fields
  <2>1. p = client[c] \/ p = Unknown
    BY PrunedLeaves DEF Leaves
  <2> QED BY <2>1 DEF Table, Unknown, Fields
<1>2. DOMAIN e = Fields /\ e.seen = now /\ e.until = p.until
  BY <1>1 DEF Ensured, Fields
<1>3. DOMAIN f = Fields /\ f.seen = now
  BY <1>2 DEF Refilled, Fields
<1>4. PICK gone \in Displaced(c) :
          IF Serves(e) THEN Answer(c, Notified(e), gone, FALSE)
          ELSE IF f.tokens = 0 THEN Answer(c, Notified(Denied(f)), gone, FALSE)
          ELSE Answer(c, [f EXCEPT !.tokens = @ - 1, !.denials = Recent(@)], gone, TRUE)
  BY DEF Attempt
<1> HIDE DEF e, f
<1>5. Serves(p) <=> Serves(e)
  BY <1>2 DEF Serves
<1>5a. Bucket(p) = IF Serves(p) THEN e ELSE f
  BY DEF Bucket, e, f
<1> HIDE DEF p
<1>6. ASSUME NEW x, DOMAIN x = Fields
      PROVE  /\ DOMAIN Notified(x) = Fields
             /\ Notified(x).seen = x.seen /\ Notified(x).until = x.until
             /\ Notified(x).tokens = x.tokens /\ Notified(x).refilled = x.refilled
  BY <1>6 DEF Notified, Fields
<1>7. CASE Serves(e)
  <2>1. Answer(c, Notified(e), gone, FALSE)
    BY <1>4, <1>7
  <2>2. Settles(p, Notified(e), FALSE)
    BY <1>2, <1>5, <1>5a, <1>6, <1>7 DEF Settles
  <2> QED BY <1>1, <2>1, <2>2 DEF p
<1>8. CASE ~Serves(e) /\ f.tokens = 0
  <2>1. Answer(c, Notified(Denied(f)), gone, FALSE)
    BY <1>4, <1>8
  <2>2. /\ DOMAIN Denied(f) = Fields /\ Denied(f).seen = f.seen
        /\ Denied(f).tokens = f.tokens /\ Denied(f).refilled = f.refilled
    BY <1>3 DEF Denied, Fields
  <2>3. Settles(p, Notified(Denied(f)), FALSE)
    BY <1>3, <1>5, <1>5a, <1>6, <1>8, <2>2 DEF Settles
  <2> QED BY <1>1, <2>1, <2>3 DEF p
<1>9. CASE ~Serves(e) /\ f.tokens # 0
  <2> DEFINE g == [f EXCEPT !.tokens = @ - 1, !.denials = Recent(@)]
  <2>1. Answer(c, g, gone, TRUE)
    BY <1>4, <1>9
  <2>2. /\ DOMAIN g = Fields /\ g.seen = f.seen
        /\ g.tokens = f.tokens - 1 /\ g.refilled = f.refilled
    BY <1>3 DEF Fields
  <2> HIDE DEF g
  <2>3. Settles(p, g, TRUE)
    BY <1>3, <1>5, <1>5a, <1>9, <2>2 DEF Settles
  <2> QED BY <1>1, <2>1, <2>3 DEF p
<1> QED BY <1>7, <1>8, <1>9

-----------------------------------------------------------------------------
LEMMA InitTable ==
    ASSUME RateLimiterAssumption
    PROVE  Init => Table
<1> SUFFICES ASSUME Init PROVE Table
  OBVIOUS
<1>1. client = [c \in Clients |-> client[c]] /\ \A c \in Clients : client[c] = Unknown
  BY DEF Init
<1>2. DOMAIN Unknown = Fields /\ Unknown.seen = None
  BY DEF Unknown, Fields
<1>3. Tracked(client) = {}
  BY <1>1, <1>2 DEF Tracked
<1>4. Bounded
  BY <1>3, FS_EmptySet DEF Bounded, RateLimiterAssumption
<1> QED BY <1>1, <1>2, <1>4 DEF Table, Init

LEMMA NextTable ==
    ASSUME RateLimiterAssumption, Table, [Next]_vars
    PROVE  Table'
<1>1. CASE Tick
  BY <1>1 DEF Tick, Table, Bounded, Tracked, Unknown
<1>2. ASSUME NEW c \in Clients, Attempt(c)
      PROVE  Table'
  <2>1. PICK gone, r, allowed :
            /\ gone \in Displaced(c)
            /\ Answer(c, r, gone, allowed)
            /\ DOMAIN r = Fields /\ r.seen = now
    BY <1>2, AttemptAnswers DEF Settles
  <2>2. /\ client' = [d \in Clients |-> client'[d]]
        /\ \A d \in Clients : /\ DOMAIN client'[d] = Fields
                              /\ client'[d].seen = None => client'[d] = Unknown
        /\ Bounded'
    BY <2>1, AttemptShape
  <2>3. now' = now /\ reloads' = reloads
    BY <1>2 DEF Attempt
  <2> QED BY <2>2, <2>3 DEF Table, Unknown
<1>3. CASE RuntimeState
  <2>1. Leaves(client')
    <3>1. Leaves(client)
      BY DEF Table, Leaves
    <3> QED BY <1>3, <3>1, ForgetIdle DEF RuntimeState
  <2>2. Bounded'
    BY <2>1, PrunedBounded DEF Bounded, Tracked
  <2>3. \A c \in Clients : /\ DOMAIN client'[c] = Fields
                           /\ client'[c].seen = None => client'[c] = Unknown
    <3>1. DOMAIN Unknown = Fields
      BY DEF Unknown, Fields
    <3> QED BY <2>1, <3>1 DEF Leaves, Table
  <2> QED BY <1>3, <2>1, <2>2, <2>3 DEF RuntimeState, Table, Leaves, Unknown
<1>4. CASE Reload
  <2>1. client' = [c \in Clients |-> client'[c]] /\ \A c \in Clients : client'[c] = Unknown
    BY <1>4 DEF Reload
  <2>2. DOMAIN Unknown = Fields /\ Unknown.seen = None
    BY DEF Unknown, Fields
  <2>3. Tracked(client') = {}
    BY <2>1, <2>2 DEF Tracked
  <2>4. Bounded'
    <3>1. IsFiniteSet(Tracked(client')) /\ Cardinality(Tracked(client')) <= MaxClients
      BY <2>3, FS_EmptySet DEF RateLimiterAssumption
    <3> QED BY <3>1 DEF Bounded, Tracked
  <2> QED BY <1>4, <2>1, <2>2, <2>4 DEF Reload, Table, Unknown
<1>5. CASE UNCHANGED vars
  BY <1>5 DEF vars, Table, Bounded, Tracked, Unknown
<1> QED BY <1>1, <1>2, <1>3, <1>4, <1>5 DEF Next

(* The dictionaries of the limiter never describe more than MaxClients      *)
(* senders, however many ask. (_ensure_capacity)                            *)
THEOREM TableIsBounded ==
    ASSUME RateLimiterAssumption
    PROVE  Spec => []Table
<1>1. Init => Table
  BY InitTable
<1>2. Table /\ [Next]_vars => Table'
  BY NextTable
<1> QED BY <1>1, <1>2, PTL DEF Spec

(* What a step does to a block.                                             *)
LEMMA StepServesBlocks ==
    ASSUME RateLimiterAssumption, Table, [Next]_vars, NEW c \in Clients,
           Blocked(c), reloads' = reloads
    PROVE  \/ client'[c].until = client[c].until
           \/ /\ \A d \in Tracked(client) : d = c \/ Blocked(d)
              /\ Cardinality(Tracked(client)) >= MaxClients
<1>1. CASE Tick \/ UNCHANGED vars
  BY <1>1 DEF Tick, vars
<1>2. ASSUME NEW a \in Clients, Attempt(a)
      PROVE  \/ client'[c].until = client[c].until
             \/ /\ \A d \in Tracked(client) : d = c \/ Blocked(d)
                /\ Cardinality(Tracked(client)) >= MaxClients
  <2> DEFINE P == Pruned(a)
  <2>1. PICK gone, r, allowed :
            /\ gone \in Displaced(a)
            /\ Answer(a, r, gone, allowed)
            /\ Serves(P[a]) => r.until = P[a].until
    BY <1>2, AttemptAnswers DEF Settles
  <2>2. Leaves(P) /\ P[c] = client[c] /\ Serves(P[c])
    BY PrunedLeaves DEF Leaves, Blocked
  <2>3. client' = [d \in Clients |-> IF d = a THEN r ELSE IF d \in gone THEN Unknown ELSE P[d]]
    BY <2>1 DEF Answer, Forget
  <2>4. CASE c = a
    BY <2>1, <2>2, <2>3, <2>4
  <2>5. CASE c # a /\ c \notin gone
    BY <2>2, <2>3, <2>5
  <2>6. CASE c \in gone
    <3>1. Full(a, P) /\ c \in Candidates(P)
      <4>1. gone \in Displaced(a)
        BY <2>1
      <4> QED BY <2>6, <4>1 DEF Displaced, Oldest
    <3>2. \A d \in Tracked(P) : Serves(P[d])
      BY <2>2, <3>1 DEF Candidates
    <3>3. Cardinality(Tracked(P)) >= MaxClients
      BY <3>1 DEF Full
    <3>4. Tracked(P) = Tracked(client) /\ Cardinality(Tracked(client)) >= MaxClients
      BY <2>2, <3>3, PrunedBounded
    <3>5. ASSUME NEW d \in Tracked(client)
          PROVE  Blocked(d)
      <4>1. d \in Clients /\ P[d].seen # None /\ Serves(P[d])
        BY <3>2, <3>4 DEF Tracked
      <4>2. P[d] = client[d]
        BY <2>2, <4>1 DEF Leaves, Unknown
      <4> QED BY <4>1, <4>2 DEF Blocked
    <3> QED BY <3>4, <3>5
  <2> QED BY <2>4, <2>5, <2>6
<1>3. CASE RuntimeState
  <2>1. Leaves(client)
    BY DEF Table, Leaves
  <2>2. Leaves(client')
    BY <1>3, <2>1, ForgetIdle DEF RuntimeState
  <2> QED BY <2>2 DEF Leaves
<1>4. CASE Reload
  BY <1>4 DEF Reload, Table
<1> QED BY <1>1, <1>2, <1>3, <1>4 DEF Next

(* A sender that is blocked cannot free itself by asking, and a flood of    *)
(* others cannot free it, unless all of the table is blocked senders.       *)
(* (_ensure_capacity, _prune_stale, allow)                                  *)
THEOREM BlocksAreAlwaysServed ==
    ASSUME RateLimiterAssumption
    PROVE  Spec => BlocksAreServed
<1>1. Table /\ [Next]_vars =>
          [\A c \in Clients :
              Blocked(c) /\ reloads' = reloads =>
                \/ client'[c].until = client[c].until
                \/ /\ \A d \in Tracked(client) : d = c \/ Blocked(d)
                   /\ Cardinality(Tracked(client)) >= MaxClients]_vars
  BY StepServesBlocks
<1> QED BY <1>1, TableIsBounded, PTL DEF Spec, BlocksAreServed

-----------------------------------------------------------------------------
(* Arithmetic of refills.                                                   *)
LEMMA DivBounds ==
    ASSUME NEW a \in Nat, NEW d \in Nat \ {0}
    PROVE  /\ a \div d \in Nat
           /\ d * (a \div d) <= a /\ a < d * (a \div d) + d
  OBVIOUS

LEMMA MulMono ==
    ASSUME NEW a \in Nat, NEW b \in Nat, NEW c \in Nat, a <= b
    PROVE  c * a <= c * b
  OBVIOUS

LEMMA MulStrict ==
    ASSUME NEW a \in Nat, NEW b \in Nat, NEW c \in Nat \ {0}, c * a < c * b
    PROVE  a < b
  OBVIOUS

LEMMA MulDistr ==
    ASSUME NEW a \in Nat, NEW b \in Nat, NEW c \in Nat
    PROVE  c * (a + b) = c * a + c * b /\ c * a \in Nat /\ c * a = a * c
  OBVIOUS

LEMMA DivMono ==
    ASSUME NEW a \in Nat, NEW b \in Nat, NEW d \in Nat \ {0}, a <= b
    PROVE  a \div d <= b \div d
<1>1. d * (a \div d) < d * ((b \div d) + 1)
  BY DivBounds, MulDistr
<1> QED BY <1>1, DivBounds, MulStrict

LEMMA DivShift ==
    ASSUME NEW a \in Nat, NEW n \in Nat, NEW d \in Nat \ {0}
    PROVE  (a + n * d) \div d = (a \div d) + n
<1> DEFINE q == a \div d
           b == a + n * d
           p == b \div d
<1>1. q \in Nat /\ d * q <= a /\ a < d * q + d
  BY DivBounds
<1>2. n * d \in Nat /\ n * d = d * n
  BY MulDistr
<1>3. b \in Nat
  BY <1>2
<1>4. p \in Nat /\ d * p <= b /\ b < d * p + d
  BY <1>3, DivBounds
<1> HIDE DEF q, p
<1>5. /\ d * (q + n) = d * q + d * n
      /\ d * (p + 1) = d * p + d
      /\ d * ((q + n) + 1) = d * (q + n) + d
  BY <1>1, <1>4, MulDistr
<1>6. d * p < d * ((q + n) + 1)
  BY <1>1, <1>2, <1>4, <1>5, MulDistr
<1>7. d * (q + n) < d * (p + 1)
  BY <1>1, <1>2, <1>4, <1>5, MulDistr
<1>8. p < (q + n) + 1 /\ q + n < p + 1
  BY <1>1, <1>4, <1>6, <1>7, MulStrict
<1> QED BY <1>1, <1>4, <1>8 DEF q, p

(* What the refills between two moments are worth.                          *)
Worth(from, to) == RefillAmount * Refills(from, to)

LEMMA WorthMono ==
    ASSUME RateLimiterAssumption, NEW a \in Nat, NEW b \in Nat, NEW t \in Nat,
           a < b + RefillInterval, b <= t
    PROVE  Worth(a, b) \in Nat /\ Worth(a, t) \in Nat /\ Worth(a, b) <= Worth(a, t)
<1> DEFINE x == b + (RefillInterval - 1) - a
           y == t + (RefillInterval - 1) - a
<1>1. RefillInterval \in Nat \ {0} /\ RefillAmount \in Nat
  BY DEF RateLimiterAssumption
<1>2. x \in Nat /\ y \in Nat /\ x <= y
  BY <1>1
<1>3. Refills(a, b) = x \div RefillInterval /\ Refills(a, t) = y \div RefillInterval
  BY DEF Refills
<1> HIDE DEF x, y
<1>4. /\ x \div RefillInterval \in Nat /\ y \div RefillInterval \in Nat
      /\ x \div RefillInterval <= y \div RefillInterval
  BY <1>1, <1>2, DivBounds, DivMono
<1> DEFINE p == x \div RefillInterval
           q == y \div RefillInterval
<1>5. p \in Nat /\ q \in Nat /\ p <= q
  BY <1>4
<1> HIDE DEF p, q
<1>6. RefillAmount * p \in Nat /\ RefillAmount * q \in Nat /\ RefillAmount * p <= RefillAmount * q
  BY <1>1, <1>5, MulMono, MulDistr
<1> QED BY <1>3, <1>6 DEF Worth, p, q

LEMMA WorthShift ==
    ASSUME RateLimiterAssumption, NEW a \in Nat, NEW b \in Nat, NEW n \in Nat,
           a < b + RefillInterval
    PROVE  Worth(a, b + n * RefillInterval) = Worth(a, b) + RefillAmount * n
<1> DEFINE x == b + (RefillInterval - 1) - a
           y == (b + n * RefillInterval) + (RefillInterval - 1) - a
<1>1. RefillInterval \in Nat \ {0} /\ RefillAmount \in Nat
  BY DEF RateLimiterAssumption
<1>2. n * RefillInterval \in Nat
  BY <1>1, MulDistr
<1>3. x \in Nat /\ y = x + n * RefillInterval
  BY <1>1, <1>2
<1>4. /\ Refills(a, b) = x \div RefillInterval
      /\ Refills(a, b + n * RefillInterval) = y \div RefillInterval
  BY DEF Refills
<1> HIDE DEF x, y
<1>5. y \div RefillInterval = (x \div RefillInterval) + n /\ x \div RefillInterval \in Nat
  BY <1>1, <1>3, DivShift, DivBounds
<1>6. RefillAmount * ((x \div RefillInterval) + n)
        = RefillAmount * (x \div RefillInterval) + RefillAmount * n
  BY <1>1, <1>5, MulDistr
<1> QED BY <1>4, <1>5, <1>6 DEF Worth

LEMMA MinPair ==
    ASSUME NEW a \in Nat, NEW b \in Nat
    PROVE  Min({a, b}) \in {a, b} /\ Min({a, b}) <= a /\ Min({a, b}) <= b
<1>1. \E x \in {a, b} : \A y \in {a, b} : x <= y
  <2>1. CASE a <= b
    BY <2>1
  <2>2. CASE b <= a
    BY <2>2
  <2> QED BY <2>1, <2>2
<1>2. Min({a, b}) \in {a, b} /\ \A y \in {a, b} : Min({a, b}) <= y
  BY <1>1 DEF Min
<1> QED BY <1>2

-----------------------------------------------------------------------------
(* What becomes of a sender's bucket.                                       *)
LEMMA EarnedAges ==
    ASSUME RateLimiterAssumption, NEW t \in Nat, NEW u \in Nat, t <= u,
           NEW r, NEW g, Earned(t, r, g)
    PROVE  Earned(u, r, g)
<1>1. g \in Seq(0 .. u) /\ \A i \in DOMAIN g : g[i] \in 0 .. t /\ i \in 1 .. Len(g) /\ Len(g) \in Nat
  BY DEF Earned
<1>2. CASE /\ r.tokens = None
           /\ \A i \in DOMAIN g : Len(g) - i + 1 <= RefillAmount * Refills(g[i], t)
  <2>1. ASSUME NEW i \in DOMAIN g
        PROVE  Len(g) - i + 1 <= RefillAmount * Refills(g[i], u)
    <3>0. RefillInterval \in Nat \ {0} /\ g[i] \in 0 .. t
      BY <1>1 DEF RateLimiterAssumption
    <3>1. g[i] \in Nat /\ g[i] < t + RefillInterval
      BY <3>0
    <3>2. Worth(g[i], t) \in Nat /\ Worth(g[i], u) \in Nat /\ Worth(g[i], t) <= Worth(g[i], u)
      BY <3>1, WorthMono
    <3>3. Len(g) - i + 1 <= Worth(g[i], t)
      BY <1>2 DEF Worth
    <3>4. Len(g) - i + 1 <= Worth(g[i], u)
      BY <1>1, <3>2, <3>3
    <3> QED BY <3>4 DEF Worth
  <2> QED BY <1>1, <1>2, <2>1 DEF Earned
<1>3. CASE ~(/\ r.tokens = None
             /\ \A i \in DOMAIN g : Len(g) - i + 1 <= RefillAmount * Refills(g[i], t))
  <2>1. /\ r.tokens \in 0 .. Capacity
        /\ r.refilled \in 0 .. t /\ r.seen \in r.refilled .. t
        /\ \A i \in DOMAIN g :
              /\ g[i] < r.refilled + RefillInterval
              /\ Len(g) - i + 1 + r.tokens <= Capacity + RefillAmount * Refills(g[i], r.refilled)
    BY <1>3 DEF Earned
  <2>2. r.refilled \in 0 .. u /\ r.seen \in r.refilled .. u
    BY <2>1
  <2> QED BY <1>1, <2>1, <2>2 DEF Earned
<1> QED BY <1>2, <1>3

(* An idle sender's bucket would be full again by the time it is forgotten. *)
LEMMA EarnedForgotten ==
    ASSUME RateLimiterAssumption, IdleRefills, NEW t \in Nat, NEW r, NEW g,
           Earned(t, r, g), IdleTtl # 0, r.seen # None, r.seen + IdleTtl <= t
    PROVE  Earned(t, Unknown, g)
<1> DEFINE n == IdleTtl \div RefillInterval
<1>1. /\ g \in Seq(0 .. t) /\ Len(g) \in Nat
      /\ \A i \in DOMAIN g : g[i] \in Nat /\ i \in 1 .. Len(g)
  BY DEF Earned
<1>2. Unknown.tokens = None
  BY DEF Unknown
<1>3. CASE r.tokens = None /\ \A i \in DOMAIN g : Len(g) - i + 1 <= RefillAmount * Refills(g[i], t)
  BY <1>1, <1>2, <1>3 DEF Earned
<1>4. CASE ~(r.tokens = None /\ \A i \in DOMAIN g : Len(g) - i + 1 <= RefillAmount * Refills(g[i], t))
  <2>1. /\ r.tokens \in 0 .. Capacity
        /\ r.refilled \in 0 .. t /\ r.seen \in r.refilled .. t
        /\ \A i \in DOMAIN g :
              /\ g[i] < r.refilled + RefillInterval
              /\ Len(g) - i + 1 + r.tokens <= Capacity + Worth(g[i], r.refilled)
    BY <1>4 DEF Earned, Worth
  <2>2. /\ RefillInterval \in Nat \ {0} /\ IdleTtl \in Nat
        /\ Capacity \in Nat /\ RefillAmount \in Nat
    BY DEF RateLimiterAssumption
  <2>3. n \in Nat /\ RefillInterval * n <= IdleTtl
    BY <2>2, DivBounds
  <2>4. Capacity <= RefillAmount * n
    BY DEF IdleRefills
  <2> HIDE DEF n
  <2>5. n * RefillInterval = RefillInterval * n /\ n * RefillInterval \in Nat /\ RefillAmount * n \in Nat
    BY <2>2, <2>3, MulDistr
  <2> DEFINE b == r.refilled + n * RefillInterval
  <2>6. b \in Nat /\ b <= t /\ r.refilled <= b
    BY <2>1, <2>2, <2>3, <2>5
  <2>7. ASSUME NEW i \in DOMAIN g
        PROVE  Len(g) - i + 1 <= RefillAmount * Refills(g[i], t)
    <3>1. /\ g[i] \in Nat /\ g[i] < r.refilled + RefillInterval
          /\ Len(g) - i + 1 + r.tokens <= Capacity + Worth(g[i], r.refilled)
      BY <1>1, <2>1
    <3>2. Worth(g[i], b) = Worth(g[i], r.refilled) + RefillAmount * n
      BY <2>1, <2>3, <3>1, WorthShift
    <3>3. Worth(g[i], r.refilled) \in Nat
      BY <2>1, <3>1, WorthMono
    <3>4. g[i] < b + RefillInterval
      BY <2>1, <2>2, <2>6, <3>1
    <3> HIDE DEF b
    <3>5. Worth(g[i], t) \in Nat /\ Worth(g[i], b) <= Worth(g[i], t)
      BY <2>6, <3>1, <3>4, WorthMono
    <3>6. i \in 1 .. Len(g) /\ r.tokens \in Nat
      BY SMTT(30), <1>1, <2>1, <2>2
    <3> DEFINE x == Worth(g[i], r.refilled)
               y == Worth(g[i], t)
               m == RefillAmount * n
               l == Len(g)
               k == r.tokens
    <3>7. /\ x \in Nat /\ y \in Nat /\ m \in Nat /\ l \in Nat /\ i \in Nat /\ k \in Nat
          /\ l - i + 1 + k <= Capacity + x
          /\ Capacity <= m /\ x + m <= y
      BY <1>1, <2>4, <2>5, <3>1, <3>2, <3>3, <3>5, <3>6
    <3> HIDE DEF x, y, m, l, k
    <3>8. l - i + 1 <= y
      BY <2>2, <3>7
    <3> QED BY <3>8 DEF Worth, y, l
  <2> QED BY <1>1, <1>2, <2>7 DEF Earned
<1> QED BY <1>3, <1>4

LEMMA EarnedNobody ==
    ASSUME NEW t \in Nat
    PROVE  Earned(t, Unknown, <<>>) /\ Spaced(<<>>)
BY DEF Earned, Unknown, Spaced

(* A sender without a bucket gets a full one.                               *)
LEMMA EarnedEnsured ==
    ASSUME RateLimiterAssumption, now \in Nat, NEW r, NEW g, DOMAIN r = Fields,
           Earned(now, r, g)
    PROVE  /\ DOMAIN Ensured(r) = Fields
           /\ Earned(now, Ensured(r), g)
           /\ Ensured(r).tokens \in 0 .. Capacity
           /\ Ensured(r).refilled \in 0 .. now
           /\ Ensured(r).seen = now
<1>0. Capacity \in Nat /\ None \notin Nat /\ RefillInterval \in Nat \ {0}
  BY DEF RateLimiterAssumption
<1>1. /\ g \in Seq(0 .. now) /\ Len(g) \in Nat
      /\ \A i \in DOMAIN g : g[i] \in 0 .. now /\ i \in 1 .. Len(g)
  BY DEF Earned
<1>2. DOMAIN Ensured(r) = Fields /\ Ensured(r).seen = now
  BY DEF Ensured, Fields
<1>3. CASE r.tokens = None
  <2>1. Ensured(r).tokens = Capacity /\ Ensured(r).refilled = now
    BY <1>3 DEF Ensured, Fields
  <2>2. \A i \in DOMAIN g : Len(g) - i + 1 <= Worth(g[i], now)
    BY <1>0, <1>3 DEF Earned, Worth
  <2>3. ASSUME NEW i \in DOMAIN g
        PROVE  g[i] < now + RefillInterval /\ Len(g) - i + 1 + Capacity <= Capacity + Worth(g[i], now)
    <3>1. g[i] \in Nat /\ g[i] < now + RefillInterval /\ i \in 1 .. Len(g)
      BY <1>0, <1>1
    <3>2. Worth(g[i], now) \in Nat
      BY <3>1, WorthMono
    <3> QED BY <1>0, <1>1, <2>2, <3>1, <3>2
  <2>4. \A i \in DOMAIN g :
           /\ g[i] < Ensured(r).refilled + RefillInterval
           /\ Len(g) - i + 1 + Ensured(r).tokens
                <= Capacity + RefillAmount * Refills(g[i], Ensured(r).refilled)
    BY <2>1, <2>3 DEF Worth
  <2>5. /\ Ensured(r).tokens \in 0 .. Capacity /\ Ensured(r).refilled \in 0 .. now
        /\ Ensured(r).seen \in Ensured(r).refilled .. now
    BY <1>0, <1>2, <2>1
  <2> HIDE DEF Fields
  <2> QED BY <1>1, <1>2, <2>4, <2>5 DEF Earned
<1>4. CASE r.tokens # None
  <2>1. /\ r.tokens \in 0 .. Capacity /\ r.refilled \in 0 .. now
        /\ \A i \in DOMAIN g :
              /\ g[i] < r.refilled + RefillInterval
              /\ Len(g) - i + 1 + r.tokens <= Capacity + RefillAmount * Refills(g[i], r.refilled)
    BY <1>4 DEF Earned
  <2>2. Ensured(r).tokens = r.tokens /\ Ensured(r).refilled = r.refilled
    BY <1>4 DEF Ensured, Fields
  <2>3. Ensured(r).seen \in Ensured(r).refilled .. now
    BY <1>2, <2>1, <2>2
  <2> QED BY <1>1, <1>2, <2>1, <2>2, <2>3 DEF Earned
<1> QED BY <1>3, <1>4

(* A refill books every interval that has passed, up to a full bucket.      *)
LEMMA EarnedRefilled ==
    ASSUME RateLimiterAssumption, now \in Nat, NEW e, NEW g, DOMAIN e = Fields,
           Earned(now, e, g), e.tokens # None, e.seen = now
    PROVE  /\ Earned(now, Refilled(e), g)
           /\ Refilled(e).tokens \in 0 .. Capacity
           /\ Refilled(e).refilled \in 0 .. now
           /\ now < Refilled(e).refilled + RefillInterval
<1> DEFINE n == (now - e.refilled) \div RefillInterval
<1>1. /\ Capacity \in Nat /\ RefillAmount \in Nat /\ RefillInterval \in Nat \ {0}
      /\ None \notin Nat
  BY DEF RateLimiterAssumption
<1>2. /\ g \in Seq(0 .. now) /\ Len(g) \in Nat
      /\ \A i \in DOMAIN g : g[i] \in Nat /\ i \in 1 .. Len(g)
  BY DEF Earned
<1>3. /\ e.tokens \in 0 .. Capacity /\ e.refilled \in 0 .. now
      /\ \A i \in DOMAIN g :
            /\ g[i] < e.refilled + RefillInterval
            /\ Len(g) - i + 1 + e.tokens <= Capacity + Worth(g[i], e.refilled)
  BY DEF Earned, Worth
<1>4. now - e.refilled \in Nat
  BY <1>3
<1>5. /\ n \in Nat /\ RefillInterval * n <= now - e.refilled
      /\ now - e.refilled < RefillInterval * n + RefillInterval
  BY <1>1, <1>4, DivBounds
<1>6. /\ Refilled(e).tokens = Min({Capacity, e.tokens + n * RefillAmount})
      /\ Refilled(e).refilled = e.refilled + n * RefillInterval
      /\ Refilled(e).seen = e.seen
  BY DEF Refilled, Fields
<1> HIDE DEF n
<1>7. /\ n * RefillInterval = RefillInterval * n /\ n * RefillInterval \in Nat
      /\ n * RefillAmount = RefillAmount * n /\ n * RefillAmount \in Nat
  BY <1>1, <1>5, MulDistr
<1>8. /\ Refilled(e).tokens \in 0 .. Capacity
      /\ Refilled(e).tokens <= e.tokens + n * RefillAmount
  <2>1. Capacity \in Nat /\ e.tokens + n * RefillAmount \in Nat
    BY <1>1, <1>3, <1>7
  <2> QED BY <1>6, <2>1, MinPair
<1>9. /\ Refilled(e).refilled \in 0 .. now
      /\ now < Refilled(e).refilled + RefillInterval
      /\ Refilled(e).seen \in Refilled(e).refilled .. now
  BY <1>1, <1>3, <1>5, <1>6, <1>7
<1>10. ASSUME NEW i \in DOMAIN g
       PROVE  /\ g[i] < Refilled(e).refilled + RefillInterval
              /\ Len(g) - i + 1 + Refilled(e).tokens
                   <= Capacity + RefillAmount * Refills(g[i], Refilled(e).refilled)
  <2>1. /\ g[i] \in Nat /\ g[i] < e.refilled + RefillInterval /\ e.refilled \in Nat
        /\ Len(g) - i + 1 + e.tokens <= Capacity + Worth(g[i], e.refilled)
    BY <1>2, <1>3
  <2>2. Worth(g[i], Refilled(e).refilled) = Worth(g[i], e.refilled) + RefillAmount * n
    BY <1>5, <1>6, <2>1, WorthShift
  <2>3. Worth(g[i], e.refilled) \in Nat
    BY <2>1, WorthMono
  <2> DEFINE x == Worth(g[i], e.refilled)
             y == Worth(g[i], Refilled(e).refilled)
             m == RefillAmount * n
             l == Len(g)
             k == e.tokens
             j == Refilled(e).tokens
  <2>3a. x \in Nat /\ y = x + m /\ l - i + 1 + k <= Capacity + x
    BY <2>1, <2>2, <2>3
  <2>3b. m \in Nat /\ n * RefillAmount = m
    BY <1>7
  <2>3c. l \in Nat /\ i \in Nat
    BY <1>2
  <2>3d. k \in Nat /\ j \in Nat
    BY <1>1, <1>3, <1>8
  <2>3e. j <= k + m
    BY <1>8, <2>3b
  <2> HIDE DEF x, y, m, l, k, j
  <2>4. l - i + 1 + j <= Capacity + y
    BY <1>1, <2>3a, <2>3b, <2>3c, <2>3d, <2>3e
  <2>5. g[i] < Refilled(e).refilled + RefillInterval
    BY <1>1, <1>6, <1>7, <2>1
  <2> QED BY <2>4, <2>5 DEF Worth, y, l, j
<1> QED BY <1>2, <1>8, <1>9, <1>10 DEF Earned

(* A command that is allowed takes a token, and keeps to the bound.         *)
LEMMA EarnedGranted ==
    ASSUME RateLimiterAssumption, now \in Nat, NEW r, NEW f, NEW g,
           Earned(now, f, g), Spaced(g),
           f.tokens \in 1 .. Capacity, f.refilled \in 0 .. now,
           now < f.refilled + RefillInterval,
           r.tokens = f.tokens - 1, r.refilled = f.refilled, r.seen = now
    PROVE  Earned(now, r, Append(g, now)) /\ Spaced(Append(g, now))
<1> DEFINE h == Append(g, now)
           n == Len(g) + 1
<1>1. /\ Capacity \in Nat /\ RefillInterval \in Nat \ {0} /\ None \notin Nat
  BY DEF RateLimiterAssumption
<1>2. /\ g \in Seq(0 .. now) /\ Len(g) \in Nat /\ DOMAIN g = 1 .. Len(g)
      /\ \A i \in DOMAIN g : g[i] \in 0 .. now
  BY DEF Earned
<1>3. \A i \in DOMAIN g :
          /\ g[i] < f.refilled + RefillInterval
          /\ Len(g) - i + 1 + f.tokens <= Capacity + Worth(g[i], f.refilled)
  BY SMTT(30), <1>1 DEF Earned, Worth
<1>4. /\ h \in Seq(0 .. now) /\ Len(h) = n /\ DOMAIN h = 1 .. n
      /\ h[n] = now /\ \A i \in 1 .. Len(g) : h[i] = g[i]
  BY <1>2
<1> HIDE DEF h
<1>5. Worth(now, f.refilled) \in Nat /\ Worth(now, now) \in Nat
  BY SMTT(30), <1>1, WorthMono
<1>6. ASSUME NEW i \in DOMAIN h
      PROVE  /\ h[i] < f.refilled + RefillInterval
             /\ n - i + f.tokens <= Capacity + Worth(h[i], f.refilled)
  <2>1. CASE i \in 1 .. Len(g)
    <3>1. i \in Nat /\ h[i] = g[i] /\ i \in DOMAIN g
      BY <1>2, <1>4, <2>1
    <3>2. n - i = Len(g) - i + 1
      BY <1>2, <3>1
    <3> QED BY <1>3, <3>1, <3>2
  <2>2. CASE i = n
    <3>1. h[i] = now /\ n - i = 0
      BY <1>2, <1>4, <2>2
    <3> QED BY <1>1, <1>5, <3>1
  <2> QED BY <1>2, <1>4, <2>1, <2>2
<1>7. ASSUME NEW i \in DOMAIN h
      PROVE  /\ h[i] \in Nat /\ i \in Nat /\ i <= n
             /\ Worth(h[i], f.refilled) \in Nat /\ Worth(h[i], now) \in Nat
             /\ Worth(h[i], f.refilled) <= Worth(h[i], now)
  <2>1. h[i] \in Nat /\ i \in Nat /\ i <= n
    BY <1>2, <1>4
  <2>2. h[i] < f.refilled + RefillInterval /\ f.refilled \in Nat /\ f.refilled <= now
    BY <1>6
  <2> QED BY <2>1, <2>2, WorthMono
<1>8. Earned(now, r, h)
  <2>1. ASSUME NEW i \in DOMAIN h
        PROVE  /\ h[i] < r.refilled + RefillInterval
               /\ Len(h) - i + 1 + r.tokens <= Capacity + RefillAmount * Refills(h[i], r.refilled)
    <3>1. Len(h) - i + 1 + r.tokens = n - i + f.tokens
      BY <1>2, <1>4, <1>7
    <3> QED BY <1>6, <3>1 DEF Worth
  <2>2. r.tokens \in 0 .. Capacity /\ r.refilled \in 0 .. now /\ r.seen \in r.refilled .. now
    BY <1>1
  <2> QED BY <1>4, <2>1, <2>2 DEF Earned
<1>9. Spaced(h)
  <2>1. ASSUME NEW i \in DOMAIN h, NEW j \in DOMAIN h, i <= j
        PROVE  j - i + 1 <= Capacity + RefillAmount * Refills(h[i], h[j])
    <3>1. CASE j = n
      <4>1. n - i + 1 <= Capacity + Worth(h[i], f.refilled)
        <5> DEFINE x == Worth(h[i], f.refilled)
        <5>1. n \in Nat /\ i \in Nat /\ x \in Nat
          BY <1>2, <1>7
        <5>2. n - i + f.tokens <= Capacity + x
          BY <1>6
        <5> HIDE DEF x, n
        <5>3. n - i + 1 <= Capacity + x
          BY <1>1, <5>1, <5>2
        <5> QED BY <5>3 DEF x
      <4>2. n - i + 1 <= Capacity + Worth(h[i], now)
        <5> DEFINE x == Worth(h[i], f.refilled)
                   y == Worth(h[i], now)
        <5>1. n \in Nat /\ i \in Nat /\ x \in Nat /\ y \in Nat /\ x <= y
          BY <1>2, <1>7
        <5> HIDE DEF x, y, n
        <5>2. n - i + 1 <= Capacity + x
          BY <4>1 DEF x
        <5>3. n - i + 1 <= Capacity + y
          BY <1>1, <5>1, <5>2
        <5> QED BY <5>3 DEF y
      <4> QED BY <1>4, <3>1, <4>2 DEF Worth
    <3>2. CASE j # n
      <4>1. i \in DOMAIN g /\ j \in DOMAIN g /\ h[i] = g[i] /\ h[j] = g[j]
        BY SMTT(30), <1>2, <1>4, <2>1, <3>2
      <4> QED BY <2>1, <4>1 DEF Spaced
    <3> QED BY <3>1, <3>2
  <2> QED BY <2>1 DEF Spaced
<1> QED BY <1>8, <1>9 DEF h

-----------------------------------------------------------------------------
(* The inductive invariant of the bound on a sender's commands.             *)
Grants ==
    /\ Table
    /\ granted = [c \in Clients |-> granted[c]]
    /\ GrantsAreEarned
    /\ RateBound

LEMMA InitGrants ==
    ASSUME RateLimiterAssumption
    PROVE  Init => Grants
<1> SUFFICES ASSUME Init PROVE Grants
  OBVIOUS
<1>1. /\ now \in Nat
      /\ granted = [c \in Clients |-> granted[c]]
      /\ \A c \in Clients : client[c] = Unknown /\ granted[c] = <<>>
  BY DEF Init
<1> QED BY <1>1, InitTable, EarnedNobody DEF Grants, GrantsAreEarned, RateBound

(* What an attempt leaves of the senders' buckets.                          *)
LEMMA AttemptEarned ==
    ASSUME RateLimiterAssumption, IdleRefills, Grants, NEW c \in Clients, Attempt(c),
           NEW d \in Clients
    PROVE  Earned(now, client'[d], granted'[d]) /\ Spaced(granted'[d])
<1> DEFINE P == Pruned(c)
<1>1. PICK gone, r, allowed :
          /\ gone \in Displaced(c)
          /\ Answer(c, r, gone, allowed)
          /\ DOMAIN P[c] = Fields
          /\ Settles(P[c], r, allowed)
  BY AttemptAnswers DEF Grants
<1>2. Leaves(P) /\ now \in Nat
  BY PrunedLeaves DEF Grants, Table
<1>3. client' = [x \in Clients |-> IF x = c THEN r ELSE IF x \in gone THEN Unknown ELSE P[x]]
  BY <1>1 DEF Answer, Forget
<1>4. granted' = [x \in Clients |->
                    IF x \in gone THEN <<>>
                    ELSE IF x = c /\ allowed THEN Append(granted[x], now)
                    ELSE granted[x]]
  BY <1>1 DEF Answer
<1>5. ASSUME NEW x \in Clients
      PROVE  Earned(now, P[x], granted[x]) /\ Spaced(granted[x])
  <2>1. Earned(now, client[x], granted[x]) /\ Spaced(granted[x])
    BY DEF Grants, GrantsAreEarned, RateBound
  <2>2. CASE P[x] = client[x]
    BY <2>1, <2>2
  <2>3. CASE P[x] = Unknown /\ Lapsed(x)
    BY <1>2, <2>1, <2>3, EarnedForgotten DEF Lapsed
  <2> QED BY <1>2, <2>2, <2>3 DEF Leaves
<1> HIDE DEF P
<1>6. c \notin gone
  <2>1. CASE Full(c, P)
    <3>1. PICK o \in Candidates(P) : gone = {o}
      BY <1>1, <2>1 DEF Displaced, Oldest, P
    <3> QED BY <2>1, <3>1 DEF Candidates, Full
  <2>2. CASE ~Full(c, P)
    BY <1>1, <2>2 DEF Displaced, P
  <2> QED BY <2>1, <2>2
<1>7. CASE d \in gone
  <2>1. client'[d] = Unknown /\ granted'[d] = <<>>
    BY <1>3, <1>4, <1>6, <1>7
  <2> QED BY <1>2, <2>1, EarnedNobody
<1>8. CASE d \notin gone /\ d # c
  <2>1. client'[d] = P[d] /\ granted'[d] = granted[d]
    BY <1>3, <1>4, <1>8
  <2> QED BY <1>5, <2>1
<1>9. CASE d = c
  <2> DEFINE p == P[c]
             e == Ensured(p)
             b == Bucket(p)
             g == granted[c]
  <2>1. /\ DOMAIN e = Fields /\ Earned(now, e, g)
        /\ e.tokens \in 0 .. Capacity /\ e.refilled \in 0 .. now /\ e.seen = now
    BY <1>1, <1>2, <1>5, EarnedEnsured
  <2>2. e.tokens # None
    BY <2>1 DEF RateLimiterAssumption
  <2>3. Spaced(g)
    BY <1>5
  <2>4. /\ Settles(p, r, allowed)
        /\ client'[d] = r
        /\ granted'[d] = IF allowed THEN Append(g, now) ELSE g
    BY <1>1, <1>3, <1>4, <1>6, <1>9
  <2>5. b = IF Serves(p) THEN e ELSE Refilled(e)
    BY DEF Bucket
  <2> HIDE DEF p, e, g
  <2>6. /\ Earned(now, Refilled(e), g)
        /\ Refilled(e).tokens \in 0 .. Capacity
        /\ Refilled(e).refilled \in 0 .. now
        /\ now < Refilled(e).refilled + RefillInterval
    BY <1>2, <2>1, <2>2, EarnedRefilled
  <2> HIDE DEF b
  <2>7. CASE allowed
    <3>1. ~Serves(p) /\ b = Refilled(e) /\ b.tokens # 0 /\ r.tokens = b.tokens - 1
          /\ r.refilled = b.refilled /\ r.seen = now
      BY <2>4, <2>5, <2>7 DEF Settles, b
    <3>2. b.tokens \in 1 .. Capacity
      BY <2>6, <3>1 DEF RateLimiterAssumption
    <3>3. /\ Earned(now, b, g) /\ b.refilled \in 0 .. now
          /\ now < b.refilled + RefillInterval
      BY <2>6, <3>1
    <3>4. Earned(now, r, Append(g, now)) /\ Spaced(Append(g, now))
      BY <1>2, <2>3, <3>1, <3>2, <3>3, EarnedGranted
    <3> QED BY <2>4, <2>7, <3>4
  <2>8. CASE ~allowed
    <3>1. Earned(now, b, g)
      BY <2>1, <2>5, <2>6
    <3>2. r.tokens = b.tokens /\ r.refilled = b.refilled /\ r.seen = b.seen
      BY <2>4, <2>8 DEF Settles, b
    <3>3. Earned(now, r, g)
      BY <3>1, <3>2 DEF Earned
    <3> QED BY <2>3, <2>4, <2>8, <3>3
  <2> QED BY <2>7, <2>8
<1> QED BY <1>7, <1>8, <1>9

LEMMA NextGrants ==
    ASSUME RateLimiterAssumption, IdleRefills, Grants, [Next]_vars
    PROVE  Grants'
<1>1. Table'
  BY NextTable DEF Grants
<1>2. now \in Nat /\ now' \in Nat
  BY <1>1 DEF Grants, Table
<1>3. \A c \in Clients : Earned(now, client[c], granted[c]) /\ Spaced(granted[c])
  BY DEF Grants, GrantsAreEarned, RateBound
<1>4. SUFFICES
          /\ granted' = [c \in Clients |-> granted'[c]]
          /\ \A c \in Clients : Earned(now', client'[c], granted'[c]) /\ Spaced(granted'[c])
  <2>1. (\A c \in Clients : Earned(now', client'[c], granted'[c])) => GrantsAreEarned'
    BY DEF GrantsAreEarned, Earned, Unknown
  <2>2. (\A c \in Clients : Spaced(granted'[c])) => RateBound'
    BY DEF RateBound
  <2> QED BY <1>1, <2>1, <2>2 DEF Grants
<1>5. CASE Tick
  <2>1. now' >= now /\ client' = client /\ granted' = granted
    BY <1>2, <1>5 DEF Tick
  <2>2. ASSUME NEW c \in Clients PROVE Earned(now', client[c], granted[c])
    BY <1>2, <1>3, <2>1, EarnedAges
  <2> QED BY <1>3, <2>1, <2>2 DEF Grants
<1>6. ASSUME NEW a \in Clients, Attempt(a)
      PROVE  /\ granted' = [c \in Clients |-> granted'[c]]
             /\ \A c \in Clients : Earned(now', client'[c], granted'[c]) /\ Spaced(granted'[c])
  <2>1. now' = now
    BY <1>6 DEF Attempt
  <2>2. granted' = [c \in Clients |-> granted'[c]]
    <3>1. PICK gone, r, allowed : Answer(a, r, gone, allowed)
      BY <1>6, AttemptAnswers DEF Grants
    <3> QED BY <3>1 DEF Answer
  <2>3. \A c \in Clients : Earned(now, client'[c], granted'[c]) /\ Spaced(granted'[c])
    BY <1>6, AttemptEarned
  <2> QED BY <2>1, <2>2, <2>3
<1>7. CASE RuntimeState
  <2>1. now' = now /\ granted' = granted /\ client' = Forget(client, Idle(client))
    BY <1>7 DEF RuntimeState
  <2>2. Leaves(client')
    <3>1. Leaves(client)
      BY DEF Grants, Table, Leaves
    <3> QED BY <2>1, <3>1, ForgetIdle
  <2>3. ASSUME NEW c \in Clients PROVE Earned(now, client'[c], granted[c])
    <3>1. CASE client'[c] = client[c]
      BY <1>3, <3>1
    <3>2. CASE client'[c] = Unknown /\ Lapsed(c)
      BY <1>2, <1>3, <3>2, EarnedForgotten DEF Lapsed
    <3> QED BY <2>2, <3>1, <3>2 DEF Leaves
  <2> QED BY <1>3, <2>1, <2>3 DEF Grants
<1>8. CASE Reload
  <2>1. /\ granted' = [c \in Clients |-> granted'[c]]
        /\ \A c \in Clients : client'[c] = Unknown /\ granted'[c] = <<>>
    BY <1>8 DEF Reload
  <2> QED BY <1>2, <2>1, EarnedNobody
<1>9. CASE UNCHANGED vars
  BY <1>3, <1>9 DEF vars, Grants
<1> QED BY <1>5, <1>6, <1>7, <1>8, <1>9 DEF Next

(* In no stretch of time is a sender allowed more than a full bucket and    *)
(* the refills that fall into it, whatever others do, however often it is   *)
(* forgotten for being idle, and whatever the settings, as long as the idle *)
(* time fills a bucket.  (allow, _ensure_client, _prune_stale)              *)
THEOREM RatesAreAlwaysBounded ==
    ASSUME RateLimiterAssumption, IdleRefills
    PROVE  Spec => []RateBound
<1>1. Init => Grants
  BY InitGrants
<1>2. Grants /\ [Next]_vars => Grants'
  BY NextGrants
<1>3. Grants => RateBound
  BY DEF Grants
<1> QED BY <1>1, <1>2, <1>3, PTL DEF Spec
=================================================================================
