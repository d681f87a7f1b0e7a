---------------------------- MODULE RateLimiter -----------------------------
(***************************************************************************)
(* utils/rate_limiter.py: the token bucket per sender, the temporary block *)
(* after a flood, and the bounded table of senders, as bot/dispatch.py     *)
(* asks it before a command.                                               *)
(*                                                                         *)
(* Neither allow() nor notify_allowed() suspends: both asyncio locks are   *)
(* free whenever they are asked for, so a command's attempt is one step.   *)
(* Time is counted in whole units; tokens are whole because the refill is. *)
(***************************************************************************)
EXTENDS Naturals, Sequences, FiniteSets, FiniteSetsExt

CONSTANTS
    Clients,
    None,
    Capacity, RefillAmount, RefillInterval,
    DenyWindow, DenyThreshold,
    BaseBlock, Multiplier, MaxBlock,
    NotifyCooldown,
    IdleTtl, PruneInterval,
    MaxClients,     \* _MAX_CLIENT_STATES
    MaxTime,        \* bound: time units
    MaxReloads      \* bound: changes of the limiter's settings

(* What the code makes sure of.                                             *)
RateLimiterAssumption ==
    /\ {Capacity, RefillAmount, RefillInterval, DenyThreshold, BaseBlock,
        Multiplier, MaxBlock, PruneInterval, MaxClients} \subseteq Nat \ {0}
    /\ None \notin Nat
    /\ {DenyWindow, NotifyCooldown, IdleTtl, MaxTime, MaxReloads} \subseteq Nat

VARIABLES
    now,
    client,     \* per sender: its entries in the limiter's dictionaries
    prunedAt,   \* _last_prune_at
    granted,    \* per sender: when its commands were allowed, as long as
                \* the limiter has neither evicted it nor been replaced
    reloads

vars == <<now, client, prunedAt, granted, reloads>>

Times == 0 .. MaxTime

(* tokens and refilled are None without a _state entry.                     *)
Unknown == [tokens |-> None, refilled |-> None, denials |-> <<>>,
            until |-> 0, blocks |-> 0, notified |-> 0, seen |-> None]

Tracked(cs) == {c \in Clients : cs[c].seen # None}
Serves(r) == now < r.until
Blocked(c) == Serves(client[c])

TypeOK ==
    /\ now \in Times
    /\ prunedAt \in 0 .. now
    /\ \A c \in Clients :
        LET r == client[c] IN
        /\ r.tokens \in 0 .. Capacity \cup {None}
        /\ r.refilled \in 0 .. now \cup {None}
        /\ r.denials \in Seq(Times) /\ Len(r.denials) <= DenyThreshold
        /\ r.until \in 0 .. now + MaxBlock
        /\ r.seen \in 0 .. now \cup {None}
        /\ r.seen = None => r = Unknown
    /\ Cardinality(Tracked(client)) <= MaxClients

Init ==
    /\ now = 0
    /\ client = [c \in Clients |-> Unknown]
    /\ prunedAt = 0
    /\ granted = [c \in Clients |-> <<>>]
    /\ reloads = 0

Tick ==
    /\ now < MaxTime
    /\ now' = now + 1
    /\ UNCHANGED <<client, prunedAt, granted, reloads>>

-----------------------------------------------------------------------------
(* Room for the sender that asks.                                           *)

Forget(cs, gone) == [c \in Clients |-> IF c \in gone THEN Unknown ELSE cs[c]]

(* _prune_stale: senders idle for IdleTtl, unless they are blocked.         *)
Idle(cs) ==
    IF IdleTtl = 0 THEN {}
    ELSE {c \in Tracked(cs) : cs[c].seen + IdleTtl <= now /\ ~Serves(cs[c])}

PruneDue == now >= prunedAt + PruneInterval

Oldest(cs, candidates) ==
    {c \in candidates : \A d \in candidates : cs[c].seen <= cs[d].seen}

Candidates_All(cs) == Tracked(cs)

(* _ensure_capacity evicts a blocked sender only when all are blocked.      *)
Candidates(cs) ==
    LET free == {c \in Tracked(cs) : ~Serves(cs[c])}
    IN  IF free # {} THEN free ELSE Tracked(cs)

(* What is left of the table when c comes: the due pruning, and another if  *)
(* there is still no room for it.                                           *)
Full_OffByOne(c, cs) ==
    c \notin Tracked(cs) /\ Cardinality(Tracked(cs)) > MaxClients

Full(c, cs) == c \notin Tracked(cs) /\ Cardinality(Tracked(cs)) >= MaxClients

AfterDue == IF PruneDue THEN Forget(client, Idle(client)) ELSE client

Pruned(c) == IF Full(c, AfterDue) THEN Forget(AfterDue, Idle(AfterDue))
             ELSE AfterDue

(* Whom the sender c may have to displace after that.                       *)
Displaced(c) ==
    IF Full(c, Pruned(c))
    THEN {{o} : o \in Oldest(Pruned(c), Candidates(Pruned(c)))} ELSE {{}}

-----------------------------------------------------------------------------
(* One attempt of a sender that asks for a command.                         *)

Refilled_NoCap(r) ==
    LET steps == (now - r.refilled) \div RefillInterval
    IN  [r EXCEPT !.tokens = @ + steps * RefillAmount,
                  !.refilled = @ + steps * RefillInterval]

Refilled(r) ==
    LET steps == (now - r.refilled) \div RefillInterval
    IN  [r EXCEPT !.tokens = Min({Capacity, @ + steps * RefillAmount}),
                  !.refilled = @ + steps * RefillInterval]

(* _ensure_client gives a new sender a full bucket.                         *)
Ensured(r) ==
    [(IF r.tokens = None
      THEN [r EXCEPT !.tokens = Capacity, !.refilled = now] ELSE r)
     EXCEPT !.seen = now]

Recent(denials) == SelectSeq(denials, LAMBDA t : t + DenyWindow >= now)

(* _record_denial and _check_and_apply_block: enough denials in the window  *)
(* block the sender, each time for longer.                                  *)
Denied(r) ==
    LET denials == Recent(Append(r.denials, now))
    IN  IF Len(denials) < DenyThreshold
        THEN [r EXCEPT !.denials = denials]
        ELSE [r EXCEPT !.denials = <<>>,
                       !.until = now + Min({MaxBlock,
                                            BaseBlock * Multiplier ^ r.blocks}),
                       !.blocks = @ + 1]

(* notify_allowed: not every denial is answered.                            *)
Notified(r) ==
    IF now >= r.notified + NotifyCooldown THEN [r EXCEPT !.notified = now] ELSE r

(* The limiter's answer to c, whose entry becomes r.                        *)
Answer(c, r, gone, allowed) ==
    /\ client' = [Forget(Pruned(c), gone) EXCEPT ![c] = r]
    /\ granted' = [d \in Clients |->
                    IF d \in gone THEN <<>>
                    ELSE IF d = c /\ allowed THEN Append(granted[d], now)
                    ELSE granted[d]]

Attempt(c) ==
    \E gone \in Displaced(c) :
        LET e == Ensured(Pruned(c)[c])
            r == Refilled(e)
        IN  /\ IF Serves(e) THEN Answer(c, Notified(e), gone, FALSE)
               ELSE IF r.tokens = 0
               THEN Answer(c, Notified(Denied(r)), gone, FALSE)
               ELSE Answer(c, [r EXCEPT !.tokens = @ - 1,
                                        !.denials = Recent(@)], gone, TRUE)
            /\ prunedAt' = IF PruneDue \/ Full(c, AfterDue) THEN now
                           ELSE prunedAt
            /\ UNCHANGED <<now, reloads>>

(* runtime_state(), which the status and doctor commands show, prunes too.  *)
RuntimeState ==
    /\ PruneDue
    /\ client' = Forget(client, Idle(client))
    /\ prunedAt' = now
    /\ UNCHANGED <<now, granted, reloads>>

(* apply_runtime_config builds a new limiter when a setting has changed.    *)
Reload ==
    /\ reloads < MaxReloads
    /\ reloads' = reloads + 1
    /\ client' = [c \in Clients |-> Unknown]
    /\ prunedAt' = 0
    /\ granted' = [c \in Clients |-> <<>>]
    /\ UNCHANGED now

Next ==
    \/ Tick
    \/ \E c \in Clients : Attempt(c)
    \/ RuntimeState
    \/ Reload

Spec == Init /\ [][Next]_vars

-----------------------------------------------------------------------------
(* The most refills of a bucket that can fall between two moments.          *)
Refills(from, to) == (to + (RefillInterval - 1) - from) \div RefillInterval

Spaced(grants) ==
    \A i, j \in DOMAIN grants :
        i <= j => j - i + 1 <= Capacity + RefillAmount * Refills(grants[i], grants[j])

(* In no stretch of time is a sender allowed more commands than a full      *)
(* bucket and the refills that fall into the stretch: neither the rounding  *)
(* of a refill, nor the cap, nor the loss of an idle sender's bucket may    *)
(* give more.                                                               *)
RateBound == \A c \in Clients : Spaced(granted[c])

(* What RateBound asks of the settings, which the code checks one by one    *)
(* only: a sender's bucket is not forgotten before it would be full again.  *)
IdleRefills ==
    IdleTtl = 0 \/ Capacity <= RefillAmount * (IdleTtl \div RefillInterval)

(* What keeps RateBound: at any time the grants since one of them, and the  *)
(* tokens still in the bucket, are a full bucket and the refills booked     *)
(* since; and a sender without a bucket has waited for all it was granted.  *)
Earned(t, r, grants) ==
    /\ grants \in Seq(0 .. t)
    /\ \/ /\ r.tokens = None
          /\ \A i \in DOMAIN grants :
                Len(grants) - i + 1 <= RefillAmount * Refills(grants[i], t)
       \/ /\ r.tokens \in 0 .. Capacity
          /\ r.refilled \in 0 .. t
          /\ r.seen \in r.refilled .. t
          /\ \A i \in DOMAIN grants :
                /\ grants[i] < r.refilled + RefillInterval
                /\ Len(grants) - i + 1 + r.tokens
                      <= Capacity + RefillAmount * Refills(grants[i], r.refilled)

GrantsAreEarned == \A c \in Clients : Earned(now, client[c], granted[c])

(* A block is served to its end: nothing a sender or others do shortens or  *)
(* prolongs it, unless the table is full of blocked senders or the limiter  *)
(* is replaced.                                                             *)
BlocksAreServed ==
    [][\A c \in Clients :
        Blocked(c) /\ reloads' = reloads =>
            \/ client'[c].until = client[c].until
            \/ /\ \A d \in Tracked(client) : d = c \/ Blocked(d)
               /\ Cardinality(Tracked(client)) >= MaxClients]_vars
=============================================================================
