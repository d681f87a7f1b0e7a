-------------------------------- MODULE Translate --------------------------------
(***************************************************************************)
(* Translations (plugins/translate.py over utils/translation_providers.py).*)
(* The providers are tried in their order.  Each takes one request at a    *)
(* time; what waits for it too long goes on to the next.  A provider that  *)
(* answers 429 is left alone for a while, longer each time.  What a        *)
(* provider says that it can translate is fetched by a task of its own.    *)
(* The state is that of one import of the plugin.                          *)
(***************************************************************************)
EXTENDS Integers, FiniteSets

CONSTANTS
    Requests,
    Providers,     \* the number of configured providers, numbered in their order
    InitialLimit,  \* TRANSLATE_RATE_LIMIT_INITIAL_SECONDS
    MaxLimit,      \* TRANSLATE_RATE_LIMIT_MAX_SECONDS
    RetryAfter,    \* what a provider may ask for
    MaxFetches     \* bound on the fetches of what the providers support

Free == "free"

TranslateAssumption ==
    /\ Providers \in Nat /\ InitialLimit \in 1..MaxLimit
    /\ MaxLimit \in Nat /\ RetryAfter \subseteq Nat
    /\ MaxFetches \in Nat /\ Free \notin Requests

VARIABLES
    pc,       \* per request: "idle", "choosing", "queued", "calling", "answered" or "cancelled"
    at,       \* per request: the provider that it has come to
    outcomes, \* per request: what has come of the providers before it
    answers,  \* per request: what the user was told
    seen,     \* remember_stanza
    left,     \* per provider: how long it is left alone (until_monotonic)
    backoff,  \* per provider: backoff_seconds
    slot,     \* per provider: who holds its lock
    lacking,  \* the providers that are known not to support the language pair
    task,     \* the capability task: 0 when there is none, the provider that it
              \* asks, or Providers + 1 when it sleeps
    fetches

request == <<pc, at, outcomes, answers, seen>>
limits == <<left, backoff>>
vars == <<request, limits, slot, lacking, task, fetches>>

Chain == 1..Providers
Outcomes == {"limited", "busy", "rejected", "failed"}
Answers == {"translation", "unsupported", "limited", "busy", "unavailable"}

TypeOK ==
    /\ pc \in [Requests -> {"idle", "choosing", "queued", "calling", "answered", "cancelled"}]
    /\ at \in [Requests -> 1..(Providers + 1)] /\ outcomes \in [Requests -> SUBSET Outcomes]
    /\ answers \in [Requests -> SUBSET Answers] /\ seen \subseteq Requests
    /\ left \in [Chain -> 0..MaxLimit] /\ backoff \in [Chain -> 0..MaxLimit]
    /\ slot \in [Chain -> Requests \union {Free}]
    /\ lacking \subseteq Chain
    /\ task \in 0..(Providers + 1)
    /\ fetches \in 0..MaxFetches

Init ==
    /\ pc = [r \in Requests |-> "idle"] /\ at = [r \in Requests |-> 1]
    /\ outcomes = [r \in Requests |-> {}] /\ answers = [r \in Requests |-> {}] /\ seen = {}
    /\ left = [p \in Chain |-> 0] /\ backoff = [p \in Chain |-> 0]
    /\ slot = [p \in Chain |-> Free] /\ lacking = {}
    /\ task = 0 /\ fetches = 0

-----------------------------------------------------------------------------
(* A command, or a reply whose quoted text is followed by one: the handlers *)
(* of a room and of private messages may both be given it.                  *)
TranslateCommand(r) ==
    /\ r \notin seen /\ seen' = seen \union {r} /\ pc' = [pc EXCEPT ![r] = "choosing"]
    /\ UNCHANGED <<at, outcomes, answers, limits, slot, lacking, task, fetches>>

(* What a provider has come to; then the next one's turn.                   *)
GoesOn(r, outcome) ==
    /\ outcomes' = [outcomes EXCEPT ![r] = @ \union {outcome}]
    /\ at' = [at EXCEPT ![r] = @ + 1] /\ pc' = [pc EXCEPT ![r] = "choosing"]

(* Each provider is looked up in what is known of it, then in its limits.   *)
Choose(r) ==
    /\ pc[r] = "choosing" /\ at[r] \in Chain
    /\ \/ at[r] \in lacking /\ GoesOn(r, "rejected")
       \/ at[r] \notin lacking /\ left[at[r]] > 0 /\ GoesOn(r, "limited")
       \/ /\ at[r] \notin lacking /\ left[at[r]] = 0
          /\ pc' = [pc EXCEPT ![r] = "queued"] /\ UNCHANGED <<at, outcomes>>
    /\ UNCHANGED <<answers, seen, limits, slot, lacking, task, fetches>>

(* _run_provider_attempt: the limit is looked at again behind the lock.     *)
Acquire_Once(r) ==
    /\ pc[r] = "queued" /\ slot[at[r]] = Free
    /\ slot' = [slot EXCEPT ![at[r]] = r] /\ pc' = [pc EXCEPT ![r] = "calling"]
    /\ UNCHANGED <<at, outcomes, answers, seen, limits, lacking, task, fetches>>

Acquire(r) ==
    /\ pc[r] = "queued" /\ slot[at[r]] = Free
    /\ \/ left[at[r]] > 0 /\ GoesOn(r, "limited") /\ slot' = slot
       \/ /\ left[at[r]] = 0 /\ slot' = [slot EXCEPT ![at[r]] = r]
          /\ pc' = [pc EXCEPT ![r] = "calling"] /\ UNCHANGED <<at, outcomes>>
    /\ UNCHANGED <<answers, seen, limits, lacking, task, fetches>>

QueueTimeout(r) ==
    /\ pc[r] = "queued" /\ slot[at[r]] \notin {Free, r} /\ GoesOn(r, "busy")
    /\ UNCHANGED <<answers, seen, limits, slot, lacking, task, fetches>>

Release(r) == slot' = [slot EXCEPT ![at[r]] = Free]

ResetRateLimitBackoff(p) ==
    left' = [left EXCEPT ![p] = 0] /\ backoff' = [backoff EXCEPT ![p] = 0]

Lower(a, b) == IF a < b THEN a ELSE b
Higher(a, b) == IF a > b THEN a ELSE b

(* The cooldown after a 429: doubled in a streak, at least what the provider*)
(* asks for, and capped.                                                    *)
Cooldown(p, asked) ==
    Lower(MaxLimit, Higher(asked, IF backoff[p] > 0 THEN 2 * backoff[p] ELSE InitialLimit))

ActivateRateLimit(p, asked) ==
    /\ left' = [left EXCEPT ![p] = Cooldown(p, asked)]
    /\ backoff' = [backoff EXCEPT ![p] = Cooldown(p, asked)]

Succeeds(r) ==
    /\ pc[r] = "calling" /\ ResetRateLimitBackoff(at[r]) /\ Release(r)
    /\ pc' = [pc EXCEPT ![r] = "answered"]
    /\ answers' = [answers EXCEPT ![r] = @ \union {"translation"}]
    /\ UNCHANGED <<at, outcomes, seen, lacking, task, fetches>>

TooManyRequests(r) ==
    /\ pc[r] = "calling" /\ Release(r) /\ GoesOn(r, "limited")
    /\ \E asked \in RetryAfter \union {0} : ActivateRateLimit(at[r], asked)
    /\ UNCHANGED <<answers, seen, lacking, task, fetches>>

(* A 400 counts as a language pair that is not supported; every other       *)
(* status, a timeout or a payload that cannot be used is a failure.         *)
Fails(r) ==
    /\ pc[r] = "calling" /\ Release(r) /\ \E o \in {"rejected", "failed"} : GoesOn(r, o)
    /\ UNCHANGED <<answers, seen, limits, lacking, task, fetches>>

(* What the user is told when no provider has translated.                   *)
Answer(tried) ==
    CASE "failed" \in tried \/ tried = {} -> "unavailable"
      [] "rejected" \in tried -> "unsupported"
      [] "limited" \in tried -> "limited"
      [] OTHER -> "busy"

GivesUp(r) ==
    /\ pc[r] = "choosing" /\ at[r] \notin Chain /\ pc' = [pc EXCEPT ![r] = "answered"]
    /\ answers' = [answers EXCEPT ![r] = @ \union {Answer(outcomes[r])}]
    /\ UNCHANGED <<at, outcomes, seen, limits, slot, lacking, task, fetches>>

(* The command's own timeout, or the end of the session; the lock is let go.*)
Cancelled_Keeps(r) ==
    /\ pc[r] \in {"queued", "calling"} /\ pc' = [pc EXCEPT ![r] = "cancelled"]
    /\ UNCHANGED <<at, outcomes, answers, seen, limits, slot, lacking, task, fetches>>

Cancelled(r) ==
    /\ pc[r] \in {"queued", "calling"} /\ pc' = [pc EXCEPT ![r] = "cancelled"]
    /\ IF pc[r] = "calling" THEN Release(r) ELSE slot' = slot
    /\ UNCHANGED <<at, outcomes, answers, seen, limits, lacking, task, fetches>>

Tick ==
    /\ \E p \in Chain : left[p] > 0
    /\ left' = [p \in Chain |-> IF left[p] > 0 THEN left[p] - 1 ELSE 0]
    /\ UNCHANGED <<request, backoff, slot, lacking, task, fetches>>

-----------------------------------------------------------------------------
(* The capability task: the providers in turn, then it sleeps for half a    *)
(* day.  A fetch that fails leaves what was known.                          *)
OnLoad ==
    /\ task = 0 /\ fetches = 0 /\ Providers > 0 /\ task' = 1
    /\ UNCHANGED <<request, limits, slot, lacking, fetches>>

RefreshProviderCapabilities ==
    /\ task \in Chain /\ fetches < MaxFetches /\ fetches' = fetches + 1
    /\ lacking' \in {lacking, lacking \union {task}, lacking \ {task}}
    /\ task' = task + 1
    /\ UNCHANGED <<request, limits, slot>>

RefreshAgain ==
    /\ task = Providers + 1 /\ task' = 1
    /\ UNCHANGED <<request, limits, slot, lacking, fetches>>

(* What was fetched is not believed for longer than half a day.             *)
Expires(p) ==
    /\ p \in lacking /\ lacking' = lacking \ {p}
    /\ UNCHANGED <<request, limits, slot, task, fetches>>

OnUnload ==
    /\ task # 0 /\ task' = 0 /\ fetches' = MaxFetches
    /\ UNCHANGED <<request, limits, slot, lacking>>

Works(r) ==
    \/ Choose(r) \/ Acquire(r) \/ QueueTimeout(r) \/ Succeeds(r) \/ TooManyRequests(r)
    \/ Fails(r) \/ GivesUp(r)

Next ==
    \/ \E r \in Requests : TranslateCommand(r) \/ Works(r) \/ Cancelled(r)
    \/ Tick \/ OnLoad \/ RefreshProviderCapabilities \/ RefreshAgain \/ OnUnload
    \/ \E p \in Chain : Expires(p)

Spec == Init /\ [][Next]_vars
FairSpec == Spec /\ \A r \in Requests : WF_vars(Works(r))

-----------------------------------------------------------------------------
(* However many commands wait for a provider, none is sent to it before the *)
(* time for which it has to be left alone is over.                          *)
NoCallsInCooldown == \A r \in Requests : pc[r] = "calling" => left[at[r]] = 0

(* A provider is held by a request that it is answering: whoever is cut off *)
(* lets it go.                                                              *)
SlotsAreReleased ==
    \A p \in Chain : slot[p] # Free => pc[slot[p]] = "calling" /\ at[slot[p]] = p

(* What keeps both: who waits for a provider has come to one, who calls one *)
(* holds its lock, and nobody starts twice.                                 *)
CallsInv ==
    /\ NoCallsInCooldown /\ SlotsAreReleased
    /\ \A r \in Requests :
        /\ r \notin seen => pc[r] = "idle"
        /\ pc[r] \in {"queued", "calling"} => at[r] \in Chain
        /\ pc[r] = "calling" => slot[at[r]] = r

(* Every command that was accepted is answered, or cut off.                 *)
Accepted(r) == r \in seen
Ended(r) == pc[r] \in {"answered", "cancelled"}
CommandsEnd == \A r \in Requests : Accepted(r) ~> Ended(r)
=============================================================================
