------------------------- MODULE PluginManagerProofs -------------------------
(***************************************************************************)
(* What holds of the plugin manager for every set of plugins, whatever     *)
(* they require, and every number of commands and faults: a plugin is      *)
(* loaded only with what it requires, its registrations last exactly as    *)
(* long as it does, and a shutdown never loads.                            *)
(***************************************************************************)
EXTENDS PluginManager, FiniteSetTheorems, SequenceTheorems, TLAPS

-----------------------------------------------------------------------------
(* The inductive invariant *)

Busy == owner # Nobody
On(at) == stack # <<>> /\ Top.at \in at

\* the stages that an operation of a kind goes through
StagesOf(kind) ==
    CASE kind \in {"load", "unload", "restart"} -> {kind}
      [] kind = "reload" -> {"refused", "dependents", "restore", "target", "again", "redo"}
      [] kind = "reload_all" -> {"refused", "down", "up"}
      [] kind = "unload_all" -> {"all down"}
      [] kind = "load_all" -> {"pass", "rest"}
      [] kind = "call_on_ready" -> {"ready"}
      [] kind = "call_on_session_ready" -> {"session"}
      [] OTHER -> {"none"}

OnePlugin == {"load", "unload", "restart", "reload"}

\* Who is in which operation: only startup calls the hooks, in the order of
\* Script, and only the shutdown unloads all; nobody waits for the lock who is
\* not in an operation, or who has it.
Requested ==
    /\ \A c \in Callers :
        /\ request[c].kind = "idle" => request[c] = Idle
        /\ request[c].kind = "unload_all" => c = Down
        /\ request[c].kind \in {"call_on_ready", "call_on_session_ready"} => c = Boot
        /\ request[c].kind \in OnePlugin => request[c].plugin \in Plugins
    /\ request[Down].kind \in {"idle", "unload_all"}
    /\ request[Boot] # Idle => booted > 0 /\ request[Boot].kind = Script[booted]
    /\ \A i \in DOMAIN queue : request[queue[i]] # Idle /\ queue[i] # owner
    /\ Busy => op.stage \in StagesOf(op.kind) /\ (op.kind \in OnePlugin => op.plugin \in Plugins)

\* How far the shutdown is, and who can still have the lock then.
ShutdownOrder ==
    /\ shutdown <=> phase # "running"
    /\ phase \in {"grace", "cancel"} => target \in Callers
    /\ cancelled => phase = "cancel"
    /\ request[Down] # Idle => phase = "unloading"
    /\ phase \in {"grace", "cancel", "stuck"} => owner \in {Nobody, target}
    /\ phase \in {"unload", "unloading", "ok", "partial", "timeout"} => owner \in {Nobody, Down}

\* The call stack: load() calls load() for what is missing, and unload() when
\* on_ready has failed; everything else works on the head of the work.
Frames ==
    stack # <<>> =>
        /\ op.work # <<>> /\ stack[1].plugin = Head(op.work)
        /\ op.stage \in Unloading =>
            Len(stack) = 1 /\ Top.at \in {"on_unload", "tasks"} /\ Top.plugin \in plugins
        /\ op.stage \in Hooking => Len(stack) = 1 /\ Top.at = op.stage
        /\ op.stage = "restart" =>
            Len(stack) = 1 /\ Top.at \in {"stop", "restart"} /\ Top.plugin \in plugins
        /\ op.stage \in Loading => Top.at \in {"import", "deps", "on_load", "cleanup", "on_ready",
                                               "on_unload", "tasks"}
        /\ op.stage \notin {"none", "refused"}

LoadFrames ==
    op.stage \in Loading =>
        /\ \A i \in DOMAIN stack :
            /\ stack[i].at \in {"import", "deps", "on_load", "cleanup"} =>
                stack[i].plugin \notin plugins
            /\ stack[i].at \in {"on_ready", "refused", "on_unload", "tasks"} =>
                stack[i].plugin \in plugins
            /\ i < Len(stack) =>
                \/ stack[i].at = "deps"
                \/ stack[i].at = "refused" /\ On({"on_unload", "tasks"})
        /\ On({"on_unload", "tasks"}) => Len(stack) > 1
        /\ \A i, j \in DOMAIN stack :
            i < j /\ stack[i].plugin = stack[j].plugin => stack[i].at = "refused"

\* Why no plugin is unloaded under one that requires it: the check before a
\* single unload still holds, the work of a mass unload has the dependents of
\* each plugin before it, and what on_ready refused has just been loaded.
Unneeded(p) == \A q \in plugins : p \notin Requires[q]

Ordered ==
    /\ On({"on_load"}) => Requires[Top.plugin] \subseteq plugins
    /\ On({"on_unload", "tasks"}) /\ (op.stage = "target" \/ (op.stage = "unload" /\ ~op.flag))
        => Unneeded(Top.plugin)
    /\ op.stage \in {"dependents", "down", "all down"} /\ op.errors = {} /\ ~forced =>
        \A q \in plugins, i \in DOMAIN op.work :
            op.work[i] \in Requires[q] => \E j \in 1 .. i - 1 : op.work[j] = q
    /\ On({"on_ready", "on_unload", "tasks"}) /\ op.stage \in Loading /\ ~forced
        => Unneeded(Top.plugin)

\* What a plugin has registered, at every step of its load.
Registered ==
    \A p \in Plugins \ abandoned :
        /\ handlers[p] = IF p \in plugins \/ (On({"on_load"}) /\ Top.plugin = p) THEN 1 ELSE 0
        /\ p \in commands <=> p \in plugins
        /\ p \in workers => \/ p \in plugins \cup stubborn
                            \/ On({"on_load", "cleanup"}) /\ Top.plugin = p

\* A loaded plugin has had its on_ready, or has failed; so it is for those that
\* call_on_ready has dealt with.
Readied ==
    /\ \A p \in plugins : ready /\ ~shutdown /\ failed[p] \in {"none", "session"} =>
        p \in readied \cup masked \/ (On({"on_ready"}) /\ Top.plugin = p)
    /\ op.stage = "ready" =>
        \A p \in plugins \ ToSet(op.work) : failed[p] \in {"none", "session"} =>
            p \in readied \cup masked
    /\ booted > 2 \/ (booted = 2 /\ request[Boot] = Idle) => ready \/ shutdown

\* A shutdown that has met no error has unloaded what is not in its work.
Emptied ==
    /\ op.stage = "all down" /\ op.errors = {} => plugins \subseteq ToSet(op.work)
    /\ phase = "ok" => plugins = {}

Inv == /\ TypeOK /\ Requested /\ ShutdownOrder /\ Frames /\ LoadFrames
       /\ Ordered /\ DependenciesLoaded /\ Registered /\ Readied /\ Emptied


-----------------------------------------------------------------------------
(* Orders of plugins *)

LEMMA PluginsAreFinite == IsFiniteSet(Plugins)
<1>1. Discovery \in [1 .. Len(Discovery) -> Plugins] /\ Len(Discovery) \in Nat
      /\ DOMAIN Discovery = 1 .. Len(Discovery)
  BY PluginsAssumption
<1>2. Discovery \in Surjection(1 .. Len(Discovery), Plugins)
  BY <1>1, PluginsAssumption DEF Surjection, ToSet
<1>3. IsFiniteSet(1 .. Len(Discovery))
  BY <1>1, FS_Interval
<1>4. QED
  BY <1>2, <1>3, FS_Surjection

\* an order of a set is a sequence of exactly its elements
LEMMA OrdersCover ==
    ASSUME NEW S \in SUBSET Plugins, NEW o \in SetToSeqs(S)
    PROVE  o \in Seq(Plugins) /\ ToSet(o) = S
<1> DEFINE n == Cardinality(S)
<1>1. IsFiniteSet(S) /\ n \in Nat
  BY PluginsAreFinite, FS_Subset, FS_CardinalityType
<1>2. o \in [1 .. n -> S] /\ IsInjective(o)
  BY <1>1 DEF SetToSeqs, IsInjective
<1>3. o \in Injection(1 .. n, S)
  BY <1>2 DEF Injection
<1>4. IsFiniteSet(1 .. n) /\ Cardinality(1 .. n) = n
  <2>1. /\ IsFiniteSet(1 .. n)
        /\ Cardinality(1 .. n) = IF 1 > n THEN 0 ELSE n - 1 + 1
    BY <1>1, FS_Interval
  <2>2. QED
    BY <1>1, <2>1
<1>5. o \in Surjection(1 .. n, S)
  BY <1>1, <1>3, <1>4, FS_Injection
<1>6. DOMAIN o = 1 .. n /\ \A t \in S : \E s \in 1 .. n : o[s] = t
  BY <1>2, <1>5 DEF Surjection
<1>7. ToSet(o) = S
  BY <1>2, <1>6 DEF ToSet
<1>8. o \in Seq(Plugins)
  BY <1>1, <1>2
<1>9. QED
  BY <1>7, <1>8

LEMMA ReverseFacts ==
    ASSUME NEW s \in Seq(Plugins)
    PROVE  /\ Reverse(s) \in Seq(Plugins) /\ Len(Reverse(s)) = Len(s)
           /\ \A i \in 1 .. Len(s) : Reverse(s)[i] = s[Len(s) - i + 1]
           /\ ToSet(Reverse(s)) = ToSet(s)
<1> DEFINE n == Len(s)
           r == Reverse(s)
<1>1. n \in Nat /\ DOMAIN s = 1 .. n /\ \A i \in 1 .. n : s[i] \in Plugins
  OBVIOUS
<1>2. \A i \in 1 .. n : n - i + 1 \in 1 .. n
  BY <1>1
<1>3. r = [i \in 1 .. n |-> s[(n - i) + 1]]
  BY DEF Reverse
<1> HIDE DEF n, r
<1>4. \A i \in 1 .. n : r[i] = s[n - i + 1]
  BY <1>3
<1>5. r \in [1 .. n -> Plugins] /\ DOMAIN r = 1 .. n
  BY <1>1, <1>2, <1>3
<1>6. r \in Seq(Plugins) /\ Len(r) = n
  BY <1>1, <1>5
<1>7. ASSUME NEW i \in 1 .. n PROVE s[i] = r[n - i + 1] /\ n - i + 1 \in 1 .. n
  <2>1. n - i + 1 \in 1 .. n /\ n - (n - i + 1) + 1 = i
    BY <1>1, <1>2
  <2>2. r[n - i + 1] = s[n - (n - i + 1) + 1]
    BY <1>4, <2>1
  <2>3. QED
    BY <2>1, <2>2
<1>8. ToSet(r) = ToSet(s)
  <2>1. \A i \in DOMAIN r : \E j \in DOMAIN s : r[i] = s[j]
    BY <1>1, <1>2, <1>4, <1>5
  <2>2. \A i \in DOMAIN s : \E j \in DOMAIN r : s[i] = r[j]
    BY <1>1, <1>5, <1>7
  <2> HIDE DEF r
  <2>3. QED
    BY <2>1, <2>2 DEF ToSet
<1>9. QED
  BY <1>4, <1>6, <1>8 DEF n, r

\* what is taken off the head
LEMMA TailFacts ==
    ASSUME NEW s \in Seq(Plugins), s # <<>>
    PROVE  /\ Head(s) \in Plugins /\ Tail(s) \in Seq(Plugins) /\ Head(s) = s[1]
           /\ Len(s) \in Nat /\ Len(s) > 0 /\ Len(Tail(s)) = Len(s) - 1
           /\ \A i \in 1 .. Len(s) - 1 : Tail(s)[i] = s[i + 1]
           /\ ToSet(s) = {Head(s)} \cup ToSet(Tail(s))
<1>1. /\ Head(s) \in Plugins /\ Tail(s) \in Seq(Plugins) /\ Len(Tail(s)) = Len(s) - 1
      /\ \A i \in 1 .. Len(Tail(s)) : Tail(s)[i] = s[i + 1]
  BY HeadTailProperties
<1>2. Head(s) = s[1] /\ Len(s) \in Nat /\ Len(s) > 0 /\ DOMAIN s = 1 .. Len(s)
  OBVIOUS
<1>3. DOMAIN Tail(s) = 1 .. Len(s) - 1
  BY <1>1
<1>4. ASSUME NEW i \in 1 .. Len(s), i # 1
      PROVE  i - 1 \in 1 .. Len(s) - 1 /\ s[i] = Tail(s)[i - 1]
  <2>1. i - 1 \in 1 .. Len(s) - 1 /\ (i - 1) + 1 = i
    BY <1>2, <1>4
  <2>2. Tail(s)[i - 1] = s[(i - 1) + 1]
    BY <1>1, <2>1
  <2>3. QED
    BY <2>1, <2>2
<1>5. ToSet(s) = {Head(s)} \cup ToSet(Tail(s))
  <2>1. \A x \in ToSet(s) : x = Head(s) \/ x \in ToSet(Tail(s))
    BY ZenonT(60), <1>2, <1>3, <1>4 DEF ToSet
  <2>2. \A i \in 1 .. Len(s) - 1 : Tail(s)[i] = s[i + 1] /\ i + 1 \in 1 .. Len(s)
    BY <1>1, <1>2
  <2>3. ToSet(Tail(s)) \subseteq ToSet(s)
    BY <1>2, <1>3, <2>2 DEF ToSet
  <2>4. Head(s) \in ToSet(s)
    BY <1>2 DEF ToSet
  <2>5. QED
    BY <2>1, <2>3, <2>4
<1>6. QED
  BY <1>1, <1>2, <1>5

-----------------------------------------------------------------------------
(* What the parts of the steps do to an operation and to its call stack *)

FrameSet == [plugin : Plugins, at : Places]
SameOperation ==
    /\ op' \in Operations
    /\ op'.kind = op.kind /\ op'.plugin = op.plugin /\ op'.flag = op.flag
    /\ op'.stage = op.stage /\ op'.order = op.order

LEMMA DoneFacts ==
    ASSUME op \in Operations, op.work # <<>>, NEW ok \in BOOLEAN, Done(ok)
    PROVE  /\ stack' = <<>> /\ SameOperation
           /\ op'.work = Tail(op.work)
           /\ op'.errors = IF ok THEN op.errors ELSE op.errors \cup {Head(op.work)}
           /\ op'.done = IF ok THEN op.done \cup {Head(op.work)} ELSE op.done
<1>1. op.work \in Seq(Plugins) /\ op.errors \in SUBSET Plugins /\ op.done \in SUBSET Plugins
      /\ op.progress \in BOOLEAN
  BY DEF Operations
<1>2. Tail(op.work) \in Seq(Plugins) /\ Head(op.work) \in Plugins
  BY <1>1, TailFacts
<1> DEFINE errs == IF ok THEN op.errors ELSE op.errors \cup {Head(op.work)}
           dns == IF ok THEN op.done \cup {Head(op.work)} ELSE op.done
           prg == op.progress \/ ok
<1>3. op' = [op EXCEPT !.work = Tail(op.work), !.errors = errs, !.done = dns, !.progress = prg]
      /\ stack' = <<>>
  BY DEF Done
<1>4. errs \in SUBSET Plugins /\ dns \in SUBSET Plugins /\ prg \in BOOLEAN
  BY <1>1, <1>2
<1>5. op' \in Operations /\ op'.work = Tail(op.work) /\ op'.errors = errs /\ op'.done = dns
      /\ op'.kind = op.kind /\ op'.plugin = op.plugin /\ op'.flag = op.flag
      /\ op'.stage = op.stage /\ op'.order = op.order
  <2> HIDE DEF errs, dns, prg
  <2>1. QED
    BY <1>2, <1>3, <1>4 DEF Operations
<1>6. QED
  BY <1>3, <1>5 DEF SameOperation

LEMMA StackFacts ==
    ASSUME stack \in Seq(FrameSet), stack # <<>>
    PROVE  /\ Len(stack) \in Nat /\ Len(stack) > 0 /\ DOMAIN stack = 1 .. Len(stack)
           /\ Top = stack[Len(stack)] /\ Top \in FrameSet /\ Top.plugin \in Plugins
           /\ Top.plugin \in OnStack /\ OnStack \subseteq Plugins
           /\ \A i \in 1 .. Len(stack) : stack[i] \in FrameSet
<1>1. /\ Len(stack) \in Nat /\ Len(stack) > 0 /\ DOMAIN stack = 1 .. Len(stack)
      /\ \A i \in 1 .. Len(stack) : stack[i] \in FrameSet
  OBVIOUS
<1>2. Top = stack[Len(stack)]
  BY DEF Top, Last
<1>3. QED
  BY <1>1, <1>2 DEF FrameSet, OnStack

LEMMA PushFacts ==
    ASSUME stack \in Seq(FrameSet), NEW f \in FrameSet, Push(f)
    PROVE  /\ stack' \in Seq(FrameSet) /\ stack' # <<>> /\ Len(stack') = Len(stack) + 1
           /\ \A i \in 1 .. Len(stack) : stack'[i] = stack[i]
           /\ stack'[Len(stack) + 1] = f /\ Top' = f
<1>1. stack' = Append(stack, f)
  BY DEF Push
<1>2. /\ stack' \in Seq(FrameSet) /\ Len(stack') = Len(stack) + 1
      /\ \A i \in 1 .. Len(stack) : stack'[i] = stack[i]
      /\ stack'[Len(stack) + 1] = f
  BY <1>1
<1>3. QED
  BY <1>2 DEF Top, Last

LEMMA GoToFacts ==
    ASSUME stack \in Seq(FrameSet), stack # <<>>, NEW at \in Places, GoTo(at)
    PROVE  /\ stack' \in Seq(FrameSet) /\ stack' # <<>> /\ Len(stack') = Len(stack)
           /\ \A i \in 1 .. Len(stack) - 1 : stack'[i] = stack[i]
           /\ Top'.plugin = Top.plugin /\ Top'.at = at
           /\ \A i \in 1 .. Len(stack) : stack'[i].plugin = stack[i].plugin
<1> DEFINE n == Len(stack)
           f == [stack[n] EXCEPT !.at = at]
<1>1. stack' = [stack EXCEPT ![n] = f]
  BY DEF GoTo
<1>2. n \in Nat /\ n > 0 /\ DOMAIN stack = 1 .. n /\ Top = stack[n] /\ stack[n] \in FrameSet
  BY StackFacts
<1>3. f \in FrameSet /\ f.plugin = stack[n].plugin /\ f.at = at
  BY <1>2 DEF FrameSet
<1> HIDE DEF n, f
<1>4. /\ stack' \in Seq(FrameSet) /\ Len(stack') = n
      /\ \A j \in 1 .. n : stack'[j] = IF j = n THEN f ELSE stack[j]
  <2>1. n \in 1 .. Len(stack)
    BY <1>2 DEF n
  <2>2. QED
    BY <1>1, <1>3, <2>1, ExceptSeq DEF n
<1>5. stack' # <<>>
  <2>1. Len(stack') > 0
    BY <1>2, <1>4
  <2>2. QED
    BY <2>1
<1>6. Top' = f
  BY <1>2, <1>4 DEF Top, Last
<1>7. \A i \in 1 .. n : stack'[i].plugin = stack[i].plugin
  BY <1>2, <1>3, <1>4
<1>8. \A i \in 1 .. n - 1 : stack'[i] = stack[i]
  BY <1>2, <1>4
<1>9. QED
  BY <1>2, <1>3, <1>4, <1>5, <1>6, <1>7, <1>8 DEF n

LEMMA FrontFacts ==
    ASSUME stack \in Seq(FrameSet), Len(stack) > 1, stack' = Front(stack)
    PROVE  /\ stack' \in Seq(FrameSet) /\ stack' # <<>> /\ Len(stack') = Len(stack) - 1
           /\ \A i \in 1 .. Len(stack) - 1 : stack'[i] = stack[i]
           /\ Top' = stack[Len(stack) - 1]
<1>1. Len(stack) \in Nat /\ stack' = SubSeq(stack, 1, Len(stack) - 1)
  BY DEF Front
<1>2. /\ stack' \in Seq(FrameSet) /\ Len(stack') = Len(stack) - 1
      /\ \A i \in 1 .. Len(stack) - 1 : stack'[i] = stack[i]
  BY <1>1
<1>3. stack' # <<>>
  <2>1. Len(stack') > 0
    BY <1>1, <1>2
  <2>2. QED
    BY <2>1
<1>4. QED
  BY <1>1, <1>2, <1>3 DEF Top, Last

LEMMA MarkFacts ==
    ASSUME failed \in [Plugins -> Reasons], NEW S, NEW reason \in Reasons
    PROVE  /\ Mark(S, reason) \in [Plugins -> Reasons]
           /\ \A p \in Plugins : Mark(S, reason)[p] = IF p \in S THEN reason ELSE failed[p]
BY DEF Mark

LEMMA MarkNewFacts ==
    ASSUME NEW m \in [Plugins -> Reasons], NEW S
    PROVE  /\ MarkNew(m, S) \in [Plugins -> Reasons]
           /\ \A p \in Plugins :
                MarkNew(m, S)[p] = IF p \in S /\ m[p] = "none" THEN "other" ELSE m[p]
BY DEF MarkNew, Reasons

-----------------------------------------------------------------------------
(* Types, and what the work of an operation leaves alone *)

ManagerType ==
    /\ plugins \subseteq Plugins /\ commands \subseteq Plugins /\ workers \subseteq Plugins
    /\ readied \subseteq Plugins
    /\ failed \in [Plugins -> Reasons] /\ handlers \in [Plugins -> Nat]
    /\ stubborn \subseteq Plugins /\ abandoned \subseteq Plugins /\ masked \subseteq Plugins
    /\ forced \in BOOLEAN
    /\ op \in Operations /\ stack \in Seq(FrameSet) /\ faults \in 0 .. MaxFaults

LEMMA TypesInParts == TypeOK => ManagerType
BY DEF TypeOK, ManagerType, FrameSet

LEMMA WorkingFacts ==
    ASSUME TypeOK, Frames, Working
    PROVE  /\ ManagerType /\ Busy
           /\ stack # <<>> =>
                /\ op.work # <<>> /\ Top.plugin \in Plugins /\ Top \in FrameSet
                /\ OnStack \subseteq Plugins /\ Requires[Top.plugin] \subseteq Plugins
           /\ op.work # <<>> => Head(op.work) \in Plugins
<1>1. ManagerType /\ Busy
  BY TypesInParts DEF Working, Busy
<1>2. op.work \in Seq(Plugins)
  BY <1>1 DEF ManagerType, Operations
<1>3. op.work # <<>> => Head(op.work) \in Plugins
  BY <1>2, TailFacts
<1>4. ASSUME stack # <<>>
      PROVE  /\ op.work # <<>> /\ Top.plugin \in Plugins /\ Top \in FrameSet
             /\ OnStack \subseteq Plugins /\ Requires[Top.plugin] \subseteq Plugins
  <2>1. Top.plugin \in Plugins /\ OnStack \subseteq Plugins /\ Top \in FrameSet
    BY <1>1, <1>4, StackFacts DEF ManagerType
  <2>2. QED
    BY <1>4, <2>1, PluginsAssumption DEF Frames
<1>5. QED
  BY <1>1, <1>3, <1>4

LEMMA FaultType ==
    ASSUME faults \in 0 .. MaxFaults, Fault \/ faults' = faults
    PROVE  faults' \in 0 .. MaxFaults
BY PluginsAssumption DEF Fault

\* the work of the lock's owner
WorkEffect ==
    /\ Busy /\ ManagerType' /\ SameOperation
    /\ UNCHANGED <<ready, lock, hung, stopping, given>>

LEMMA LoadStepEffect == TypeOK /\ Frames /\ LoadStep => WorkEffect
<1> SUFFICES ASSUME TypeOK, Frames, LoadStep PROVE WorkEffect
  OBVIOUS
<1> USE DEF lock, stopping
<1>1. \/ Working /\ UNCHANGED <<ready, lock, hung, stopping, given, readied, forced, abandoned, masked>>
      \/ OnReady
  BY DEF LoadStep, SkipLoad, BeginLoad, ImportFails, ImportDone, LoadDependency, OnLoad, Loaded,
         OnLoadFails, CleanedUp, OnReadyFails, Between, At, manager, history, bounds
<1>2. Working
  BY <1>1 DEF OnReady, At
<1>3. /\ ManagerType /\ Busy
      /\ stack # <<>> =>
            /\ op.work # <<>> /\ Top.plugin \in Plugins /\ Top \in FrameSet
            /\ OnStack \subseteq Plugins /\ Requires[Top.plugin] \subseteq Plugins
      /\ op.work # <<>> => Head(op.work) \in Plugins
  BY <1>2, WorkingFacts
<1>4. \A ok \in BOOLEAN : op.work # <<>> /\ Done(ok) => SameOperation /\ stack' = <<>>
  BY <1>3, DoneFacts DEF ManagerType
<1>5. UNCHANGED op => SameOperation
  BY <1>3 DEF SameOperation, ManagerType
<1>6. <<>> \in Seq(FrameSet)
  OBVIOUS
<1>7. \A p \in Plugins, at \in Places : Frame(p, at) \in FrameSet
  BY DEF Frame, FrameSet
<1>8. {"import", "deps", "on_load", "cleanup", "on_ready", "refused", "on_unload"} \subseteq Places
  BY DEF Places, InHook
<1>9. \A p \in Plugins, at \in Places : Push(Frame(p, at)) => stack' \in Seq(FrameSet)
  BY <1>3, <1>7, PushFacts DEF ManagerType
<1>10. \A at \in Places : stack # <<>> /\ GoTo(at) => stack' \in Seq(FrameSet)
  BY <1>3, GoToFacts DEF ManagerType
<1>11. stack # <<>> /\ Return => SameOperation /\ stack' \in Seq(FrameSet)
  <2> SUFFICES ASSUME stack # <<>>, Return PROVE SameOperation /\ stack' \in Seq(FrameSet)
    OBVIOUS
  <2>1. CASE Len(stack) = 1
    BY <1>3, <1>4, <1>6, <2>1 DEF Return
  <2>2. CASE Len(stack) # 1
    <3>1. Len(stack) > 1
      BY <1>3, <2>2, StackFacts DEF ManagerType
    <3>2. QED
      BY <1>3, <1>5, <2>2, <3>1, FrontFacts DEF Return, ManagerType
  <2>3. QED
    BY <2>1, <2>2
<1>12. MarkNew(failed, OnStack) \in [Plugins -> Reasons]
  BY <1>3, MarkNewFacts DEF ManagerType
<1>13. stack # <<>> /\ Raise =>
        SameOperation /\ stack' \in Seq(FrameSet) /\ failed' \in [Plugins -> Reasons]
  BY <1>3, <1>4, <1>6, <1>12 DEF Raise
<1>14. \A p \in Plugins, reason \in {"none", "other"} : Mark({p}, reason) \in [Plugins -> Reasons]
  BY <1>3, MarkFacts DEF ManagerType, Reasons
<1>15. faults' = faults \/ Fault => faults' \in 0 .. MaxFaults
  BY <1>3, FaultType DEF ManagerType
<1>16. ASSUME SkipLoad PROVE WorkEffect
  <2>1. SameOperation /\ stack' \in Seq(FrameSet)
    <3>1. op.work # <<>> /\ op \in Operations
      BY <1>16, <1>3 DEF SkipLoad, Between, ManagerType
    <3>2. CASE Done(TRUE)
      BY <1>4, <1>6, <3>1, <3>2
    <3>3. CASE op' = [op EXCEPT !.work = Tail(@)] /\ UNCHANGED stack
      <4>1. op.work \in Seq(Plugins)
        BY <3>1 DEF Operations
      <4>2. Tail(op.work) \in Seq(Plugins)
        BY <3>1, <4>1, TailFacts
      <4>3. QED
        BY <1>3, <3>1, <3>3, <4>2 DEF SameOperation, Operations, ManagerType
    <3>4. QED
      BY <1>16, <3>2, <3>3 DEF SkipLoad
  <2>2. QED
    BY <1>16, <1>3, <2>1 DEF SkipLoad, WorkEffect, ManagerType, SameOperation, manager, history, bounds
<1>17. ASSUME BeginLoad PROVE WorkEffect
  <2>1. stack' \in Seq(FrameSet)
    BY <1>17, <1>3, <1>8, <1>9 DEF BeginLoad, Between
  <2>2. QED
    BY <1>17, <1>3, <1>5, <2>1 DEF BeginLoad, WorkEffect, ManagerType, manager, history, bounds
<1>18. ASSUME ImportFails PROVE WorkEffect
  BY <1>18, <1>3, <1>13, <1>15 DEF ImportFails, At, WorkEffect, ManagerType, SameOperation, history
<1>19. ASSUME ImportDone PROVE WorkEffect
  BY <1>19, <1>3, <1>5, <1>8, <1>10 DEF ImportDone, At, WorkEffect, ManagerType, manager, history, bounds
<1>20. ASSUME LoadDependency PROVE WorkEffect
  <2>1. PICK d \in Requires[Top.plugin] \ plugins :
            \/ Raise
            \/ Push(Frame(d, "import")) /\ UNCHANGED <<failed, op>>
    BY <1>20 DEF LoadDependency
  <2>2. d \in Plugins /\ stack # <<>>
    BY <1>20, <1>3 DEF LoadDependency, At
  <2>3. SameOperation /\ stack' \in Seq(FrameSet) /\ failed' \in [Plugins -> Reasons]
    BY <1>3, <1>5, <1>8, <1>9, <1>13, <2>1, <2>2 DEF ManagerType
  <2>4. QED
    BY <1>20, <1>3, <2>3
    DEF LoadDependency, At, WorkEffect, ManagerType, SameOperation, history, bounds
<1>21. ASSUME OnLoad PROVE WorkEffect
  <2>1. stack' \in Seq(FrameSet) /\ handlers' \in [Plugins -> Nat] /\ workers' \subseteq Plugins
    BY <1>21, <1>3, <1>8, <1>10 DEF OnLoad, At, ManagerType
  <2>2. QED
    BY <1>21, <1>3, <1>5, <2>1 DEF OnLoad, At, WorkEffect, ManagerType, history, bounds
<1>22. ASSUME Loaded PROVE WorkEffect
  <2>1. SameOperation /\ stack' \in Seq(FrameSet)
    BY <1>22, <1>3, <1>5, <1>8, <1>10, <1>11 DEF Loaded, At
  <2>2. QED
    BY <1>22, <1>3, <1>14, <2>1 DEF Loaded, At, WorkEffect, ManagerType, SameOperation, history, bounds
<1>23. ASSUME OnLoadFails PROVE WorkEffect
  <2>1. stack' \in Seq(FrameSet) /\ handlers' \in [Plugins -> Nat]
    BY <1>23, <1>3, <1>8, <1>10 DEF OnLoadFails, At, ManagerType
  <2>2. QED
    BY <1>23, <1>3, <1>5, <1>14, <1>15, <2>1 DEF OnLoadFails, At, WorkEffect, ManagerType, history
<1>24. ASSUME CleanedUp PROVE WorkEffect
  <2>1. SameOperation /\ stack' \in Seq(FrameSet) /\ failed' \in [Plugins -> Reasons]
    BY <1>24, <1>13 DEF CleanedUp, At
  <2>2. faults' \in 0 .. MaxFaults /\ workers' \subseteq Plugins /\ stubborn' \subseteq Plugins
    BY <1>24, <1>3, <1>15 DEF CleanedUp, At, ManagerType
  <2>3. QED
    BY <1>24, <1>3, <2>1, <2>2 DEF CleanedUp, At, WorkEffect, ManagerType, SameOperation
<1>25. ASSUME OnReady PROVE WorkEffect
  <2>1. SameOperation /\ stack' \in Seq(FrameSet)
    BY <1>25, <1>11 DEF OnReady, At
  <2>2. QED
    BY <1>25, <1>3, <2>1 DEF OnReady, At, WorkEffect, ManagerType, SameOperation, history, bounds
<1>26. ASSUME OnReadyFails PROVE WorkEffect
  <2>1. Top.plugin \in Plugins /\ stack # <<>>
    BY <1>26, <1>3 DEF OnReadyFails, At
  <2> DEFINE s == [stack EXCEPT ![Len(stack)].at = "refused"]
             f == Frame(Top.plugin, "on_unload")
  <2>2. s \in Seq(FrameSet)
    <3>1. Len(stack) \in 1 .. Len(stack) /\ stack[Len(stack)] \in FrameSet
      BY <1>3, <2>1, StackFacts DEF ManagerType
    <3>2. [stack[Len(stack)] EXCEPT !.at = "refused"] \in FrameSet
      BY <1>8, <3>1 DEF FrameSet
    <3>3. QED
      BY <1>3, <3>1, <3>2, ExceptSeq DEF ManagerType
  <2>3. f \in FrameSet
    BY <1>7, <1>8, <2>1
  <2>4. stack' = Append(s, f)
    BY <1>26 DEF OnReadyFails
  <2>5. stack' \in Seq(FrameSet)
    <3> HIDE DEF s, f
    <3>1. QED
      BY <2>2, <2>3, <2>4
  <2>6. QED
    BY <1>26, <1>3, <1>5, <1>14, <1>15, <2>1, <2>5
    DEF OnReadyFails, At, WorkEffect, ManagerType, history
<1>27. QED
  BY <1>16, <1>17, <1>18, <1>19, <1>20, <1>21, <1>22, <1>23, <1>24, <1>25, <1>26 DEF LoadStep

LEMMA UnloadStepEffect == TypeOK /\ Frames /\ UnloadStep => WorkEffect
<1> SUFFICES ASSUME TypeOK, Frames, UnloadStep PROVE WorkEffect
  OBVIOUS
<1> USE DEF lock, stopping
<1>1. Working
  BY DEF UnloadStep, BeginUnload, OnUnload, UnloadFails, Unloaded, Between, At
<1>2. /\ ManagerType /\ Busy
      /\ stack # <<>> =>
            /\ op.work # <<>> /\ Top.plugin \in Plugins /\ Top \in FrameSet
            /\ OnStack \subseteq Plugins /\ Requires[Top.plugin] \subseteq Plugins
      /\ op.work # <<>> => Head(op.work) \in Plugins
  BY <1>1, WorkingFacts
<1>3. \A ok \in BOOLEAN : op.work # <<>> /\ Done(ok) => SameOperation /\ stack' \in Seq(FrameSet)
  <2>1. \A ok \in BOOLEAN : op.work # <<>> /\ Done(ok) => SameOperation /\ stack' = <<>>
    BY <1>2, DoneFacts DEF ManagerType
  <2>2. <<>> \in Seq(FrameSet)
    OBVIOUS
  <2>3. QED
    BY <2>1, <2>2
<1>4. UNCHANGED op => SameOperation
  BY <1>2 DEF SameOperation, ManagerType
<1>5. {"on_unload", "tasks"} \subseteq Places
  BY DEF Places, InHook
<1>6. \A ok \in BOOLEAN, m \in [Plugins -> Reasons] : op.work # <<>> /\ UnloadReturns(ok, m) =>
        SameOperation /\ stack' \in Seq(FrameSet) /\ failed' \in [Plugins -> Reasons]
  <2> SUFFICES ASSUME NEW ok \in BOOLEAN, NEW m \in [Plugins -> Reasons],
                      op.work # <<>>, UnloadReturns(ok, m)
               PROVE  /\ SameOperation /\ stack' \in Seq(FrameSet)
                      /\ failed' \in [Plugins -> Reasons]
    OBVIOUS
  <2>1. MarkNew(m, OnStack) \in [Plugins -> Reasons]
    BY MarkNewFacts
  <2>2. QED
    BY <1>3, <2>1 DEF UnloadReturns
<1>7. ASSUME BeginUnload PROVE WorkEffect
  <2>1. Frame(Head(op.work), "on_unload") \in FrameSet
    BY <1>7, <1>2, <1>5 DEF BeginUnload, Between, Frame, FrameSet
  <2>2. SameOperation /\ stack' \in Seq(FrameSet)
    BY <1>7, <1>2, <1>3, <1>4, <2>1, PushFacts DEF BeginUnload, Between, ManagerType
  <2>3. QED
    BY <1>7, <1>2, <2>2 DEF BeginUnload, WorkEffect, ManagerType, SameOperation, manager, history, bounds
<1>8. ASSUME OnUnload PROVE WorkEffect
  <2>1. stack' \in Seq(FrameSet)
    BY <1>8, <1>2, <1>5, GoToFacts DEF OnUnload, At, ManagerType
  <2>2. QED
    BY <1>8, <1>2, <1>4, <2>1 DEF OnUnload, WorkEffect, ManagerType, manager, history, bounds
<1>9. ASSUME UnloadFails PROVE WorkEffect
  <2>1. SameOperation /\ stack' \in Seq(FrameSet) /\ failed' \in [Plugins -> Reasons]
    BY <1>9, <1>2, <1>6 DEF UnloadFails, At, ManagerType
  <2>2. faults' \in 0 .. MaxFaults
    BY <1>9, <1>2, FaultType DEF UnloadFails, ManagerType
  <2>3. QED
    BY <1>9, <1>2, <2>1, <2>2 DEF UnloadFails, WorkEffect, ManagerType, SameOperation, history
<1>10. ASSUME Unloaded PROVE WorkEffect
  <2>1. Mark({Top.plugin}, "none") \in [Plugins -> Reasons]
    BY <1>2, MarkFacts DEF Reasons, ManagerType
  <2>2. SameOperation /\ stack' \in Seq(FrameSet) /\ failed' \in [Plugins -> Reasons]
    BY <1>10, <1>2, <1>6, <2>1 DEF Unloaded, At
  <2>3. forced' \in BOOLEAN
    BY <1>10 DEF Unloaded
  <2>4. QED
    BY <1>10, <1>2, <2>2, <2>3 DEF Unloaded, WorkEffect, ManagerType, SameOperation, bounds
<1>11. QED
  BY <1>7, <1>8, <1>9, <1>10 DEF UnloadStep

LEMMA HookStepEffect == TypeOK /\ Frames /\ HookStep => WorkEffect
<1> SUFFICES ASSUME TypeOK, Frames, HookStep PROVE WorkEffect
  OBVIOUS
<1> USE DEF lock, stopping
<1>1. Working
  BY DEF HookStep, BeginHook, ReadyHook, SessionHook, HookFails, BeginRestart, WorkersStopped,
         Restarted, Between, At
<1>2. /\ ManagerType /\ Busy
      /\ stack # <<>> =>
            /\ op.work # <<>> /\ Top.plugin \in Plugins /\ Top \in FrameSet
            /\ OnStack \subseteq Plugins /\ Requires[Top.plugin] \subseteq Plugins
      /\ op.work # <<>> => Head(op.work) \in Plugins
  BY <1>1, WorkingFacts
<1>3. \A ok \in BOOLEAN : op.work # <<>> /\ Done(ok) => SameOperation /\ stack' \in Seq(FrameSet)
  <2>1. \A ok \in BOOLEAN : op.work # <<>> /\ Done(ok) => SameOperation /\ stack' = <<>>
    BY <1>2, DoneFacts DEF ManagerType
  <2>2. <<>> \in Seq(FrameSet)
    OBVIOUS
  <2>3. QED
    BY <2>1, <2>2
<1>4. UNCHANGED op => SameOperation
  BY <1>2 DEF SameOperation, ManagerType
<1>5. {"ready", "session", "stop", "restart"} \subseteq Places
  BY DEF Places, InHook
<1>6. \A p \in Plugins, reason \in {"none", "session", "blocked", "other"} :
        Mark({p}, reason) \in [Plugins -> Reasons]
  BY <1>2, MarkFacts DEF ManagerType, Reasons
<1>7. faults' = faults \/ Fault => faults' \in 0 .. MaxFaults
  BY <1>2, FaultType DEF ManagerType
<1>8. \A at \in {"ready", "session", "stop"} : op.work # <<>> /\ Push(Frame(Head(op.work), at))
        => stack' \in Seq(FrameSet)
  <2> SUFFICES ASSUME NEW at \in {"ready", "session", "stop"}, op.work # <<>>,
                      Push(Frame(Head(op.work), at))
               PROVE  stack' \in Seq(FrameSet)
    OBVIOUS
  <2>1. Frame(Head(op.work), at) \in FrameSet
    BY <1>2, <1>5 DEF Frame, FrameSet
  <2>2. QED
    BY <1>2, <2>1, PushFacts DEF ManagerType
<1>9. ASSUME BeginHook PROVE WorkEffect
  <2>1. SameOperation /\ stack' \in Seq(FrameSet) /\ failed' \in [Plugins -> Reasons]
    BY <1>9, <1>2, <1>3, <1>4, <1>6, <1>8 DEF BeginHook, Between, Hooking, ManagerType
  <2>2. QED
    BY <1>9, <1>2, <2>1 DEF BeginHook, WorkEffect, ManagerType, SameOperation, history, bounds
<1>10. ASSUME ReadyHook PROVE WorkEffect
  BY <1>10, <1>2, <1>3, <1>6
  DEF ReadyHook, At, WorkEffect, ManagerType, SameOperation, history, bounds
<1>11. ASSUME SessionHook PROVE WorkEffect
  BY <1>11, <1>2, <1>3, <1>6
  DEF SessionHook, At, WorkEffect, ManagerType, SameOperation, history, bounds
<1>12. ASSUME HookFails PROVE WorkEffect
  <2>1. stack # <<>> /\ failed' \in [Plugins -> Reasons] /\ masked' \subseteq Plugins
    BY <1>12, <1>2, <1>6 DEF HookFails, At, ManagerType
  <2>2. QED
    BY <1>12, <1>2, <1>3, <1>7, <2>1 DEF HookFails, WorkEffect, ManagerType, SameOperation
<1>13. ASSUME BeginRestart PROVE WorkEffect
  <2>1. SameOperation /\ stack' \in Seq(FrameSet)
    BY <1>13, <1>2, <1>3, <1>4, <1>8 DEF BeginRestart, Between, ManagerType
  <2>2. QED
    BY <1>13, <1>2, <2>1 DEF BeginRestart, WorkEffect, ManagerType, SameOperation, manager, history, bounds
<1>14. ASSUME WorkersStopped PROVE WorkEffect
  <2>1. SameOperation /\ stack' \in Seq(FrameSet)
    BY <1>14, <1>2, <1>3, <1>4, <1>5, GoToFacts DEF WorkersStopped, At, ManagerType
  <2>2. workers' \subseteq Plugins /\ faults' \in 0 .. MaxFaults
    BY <1>14, <1>2, <1>7 DEF WorkersStopped, ManagerType
  <2>3. QED
    BY <1>14, <1>2, <2>1, <2>2 DEF WorkersStopped, WorkEffect, ManagerType, SameOperation, history
<1>15. ASSUME Restarted PROVE WorkEffect
  <2>1. /\ failed' \in [Plugins -> Reasons] /\ workers' \subseteq Plugins
        /\ readied' \subseteq Plugins /\ stack # <<>>
    BY <1>15, <1>2, <1>6 DEF Restarted, At, ManagerType
  <2>2. SameOperation /\ stack' \in Seq(FrameSet) /\ faults' \in 0 .. MaxFaults
    BY <1>15, <1>2, <1>3, <1>7, <2>1 DEF Restarted
  <2>3. QED
    BY <1>15, <1>2, <2>1, <2>2 DEF Restarted, WorkEffect, ManagerType, SameOperation, history
<1>16. QED
  BY <1>9, <1>10, <1>11, <1>12, <1>13, <1>14, <1>15 DEF HookStep

-----------------------------------------------------------------------------
(* Who is in which operation, and the order of the shutdown *)

Control == TypeOK /\ Requested /\ ShutdownOrder

LEMMA NoOpType ==
    /\ NoOp \in Operations /\ Idle \in Requests /\ NoOp.stage = "none"
    /\ NoOp.errors = {} /\ NoOp.done = {} /\ NoOp.kind = "idle" /\ NoOp.work = <<>>
<1>1. <<>> \in Seq(Plugins)
  OBVIOUS
<1>2. QED
  BY <1>1 DEF NoOp, Idle, Operations, Requests, Kinds, Stages

LEMMA StagesKnown ==
    /\ Unloading \subseteq Stages /\ Loading \subseteq Stages /\ Hooking \subseteq Stages
    /\ \A kind \in Kinds : StagesOf(kind) \subseteq Stages
BY DEF Stages, Unloading, Loading, Hooking, StagesOf

LEMMA OperationFacts ==
    ASSUME NEW r \in Requests, NEW stage \in Stages \ {"none"},
           NEW work \in Seq(Plugins), NEW order \in Seq(Plugins)
    PROVE  /\ Operation(r, stage, work, order) \in Operations \ {NoOp}
           /\ Operation(r, stage, work, order).kind = r.kind
           /\ Operation(r, stage, work, order).plugin = r.plugin
           /\ Operation(r, stage, work, order).flag = r.flag
           /\ Operation(r, stage, work, order).stage = stage
           /\ Operation(r, stage, work, order).work = work
           /\ Operation(r, stage, work, order).order = order
           /\ Operation(r, stage, work, order).errors = {}
           /\ Operation(r, stage, work, order).done = {}
<1>1. r.kind \in Kinds /\ r.plugin \in Plugins \cup {Nobody} /\ r.flag \in BOOLEAN
  BY DEF Requests
<1>2. QED
  BY <1>1, NoOpType DEF Operation, Operations

\* a chosen order of the plugins, or of those of them that depend on p
LEMMA ChosenOrders ==
    ASSUME plugins \subseteq Plugins
    PROVE  /\ \A o \in SetToSeqs(plugins) \cup DependencyOrders(plugins) :
                /\ o \in Seq(Plugins) /\ Reverse(o) \in Seq(Plugins)
                /\ ToSet(o) = plugins /\ ToSet(Reverse(o)) = plugins
           /\ \A p, o : o \in DependencyOrders(DependentsOf(p)) =>
                /\ o \in Seq(Plugins) /\ Reverse(o) \in Seq(Plugins)
                /\ ToSet(o) = DependentsOf(p) /\ ToSet(Reverse(o)) = DependentsOf(p)
<1>1. \A S \in SUBSET Plugins : \A o \in SetToSeqs(S) :
        /\ o \in Seq(Plugins) /\ Reverse(o) \in Seq(Plugins)
        /\ ToSet(o) = S /\ ToSet(Reverse(o)) = S
  BY OrdersCover, ReverseFacts
<1>2. \A S : DependencyOrders(S) \subseteq SetToSeqs(S)
  BY DEF DependencyOrders
<1>3. \A p : DependentsOf(p) \in SUBSET Plugins
  BY DEF DependentsOf
<1>4. QED
  BY <1>1, <1>2, <1>3

LEMMA FirstStageType ==
    ASSUME plugins \subseteq Plugins, NEW r \in Requests, r.kind # "idle",
           r.kind \in OnePlugin => r.plugin \in Plugins,
           NEW o \in FirstStage(r)
    PROVE  /\ o \in Operations /\ o # NoOp /\ o.kind = r.kind /\ o.errors = {}
           /\ o.stage \in StagesOf(o.kind) /\ o.plugin = r.plugin
           /\ o.kind # "unload_all" => o.flag = r.flag
<1>1. r.kind \in Kinds /\ StagesOf(r.kind) \subseteq Stages
  BY StagesKnown DEF Requests
<1>2. \A s \in SetToSeqs(plugins) \cup DependencyOrders(plugins) :
        s \in Seq(Plugins) /\ Reverse(s) \in Seq(Plugins)
  BY ChosenOrders
<1>3. <<>> \in Seq(Plugins) /\ (r.plugin \in Plugins => <<r.plugin>> \in Seq(Plugins))
  OBVIOUS
<1> DEFINE Goal == /\ o \in Operations /\ o # NoOp /\ o.kind = r.kind /\ o.errors = {}
                   /\ o.stage \in StagesOf(o.kind) /\ o.plugin = r.plugin
                   /\ o.kind # "unload_all" => o.flag = r.flag
<1>4. ASSUME NEW q \in Requests, q.kind = r.kind, q.plugin = r.plugin,
             q.flag = r.flag \/ r.kind = "unload_all",
             NEW stage \in StagesOf(r.kind) \ {"none"},
             NEW work \in Seq(Plugins), NEW order \in Seq(Plugins),
             o = Operation(q, stage, work, order)
      PROVE  Goal
  <2>1. stage \in Stages \ {"none"}
    BY <1>1
  <2>2. QED
    BY <1>4, <2>1, OperationFacts
<1>5. CASE r.kind \in {"load", "unload", "restart"}
  <2>1. o = Operation(r, r.kind, <<r.plugin>>, <<>>)
    BY <1>5 DEF FirstStage
  <2>2. r.plugin \in Plugins /\ r.kind \in StagesOf(r.kind) \ {"none"}
    BY <1>5 DEF OnePlugin, StagesOf
  <2>3. QED
    BY <1>3, <1>4, <2>1, <2>2
<1>6. CASE r.kind = "reload"
  <2>1. \/ o = Operation(r, "refused", <<>>, <<>>)
        \/ \E s \in DependencyOrders(DependentsOf(r.plugin)) :
                o = Operation(r, "dependents", Reverse(s), s)
    BY <1>6 DEF FirstStage
  <2>2. {"refused", "dependents"} \subseteq StagesOf(r.kind) \ {"none"}
    BY <1>6 DEF StagesOf
  <2>3. \A s \in DependencyOrders(DependentsOf(r.plugin)) :
            s \in Seq(Plugins) /\ Reverse(s) \in Seq(Plugins)
    BY ChosenOrders
  <2>4. QED
    BY <1>3, <1>4, <2>1, <2>2, <2>3
<1>7. CASE r.kind = "reload_all"
  <2>1. \/ o = Operation(r, "refused", <<>>, <<>>)
        \/ \E s \in DependencyOrders(plugins) : o = Operation(r, "down", Reverse(s), s)
    BY <1>7 DEF FirstStage
  <2>2. {"refused", "down"} \subseteq StagesOf(r.kind) \ {"none"}
    BY <1>7 DEF StagesOf
  <2>3. QED
    BY <1>2, <1>3, <1>4, <2>1, <2>2
<1>8. CASE r.kind = "unload_all"
  <2> DEFINE q == [r EXCEPT !.flag = Complete]
  <2>1. PICK s \in SetToSeqs(plugins) \cup DependencyOrders(plugins) :
            o = Operation(q, "all down", Reverse(s), s)
    BY <1>8 DEF FirstStage
  <2>2. q \in Requests /\ q.kind = r.kind /\ q.plugin = r.plugin
    BY DEF Requests, Complete
  <2>3. "all down" \in Stages \ {"none"} /\ "all down" \in StagesOf(r.kind)
    BY <1>8 DEF StagesOf, Stages, Unloading
  <2>4. s \in Seq(Plugins) /\ Reverse(s) \in Seq(Plugins)
    BY <1>2
  <2> HIDE DEF q
  <2>5. QED
    BY <1>4, <1>8, <2>1, <2>2, <2>3, <2>4
<1>9. CASE r.kind = "load_all"
  <2> DEFINE a == Operation(r, "pass", Discovery, Discovery)
  <2>1. o = [a EXCEPT !.done = plugins]
    BY <1>9 DEF FirstStage
  <2>2. "pass" \in Stages \ {"none"} /\ "pass" \in StagesOf(r.kind)
    BY <1>9 DEF StagesOf, Stages, Loading
  <2>3. /\ a \in Operations /\ a.kind = r.kind /\ a.plugin = r.plugin /\ a.flag = r.flag
        /\ a.stage = "pass" /\ a.errors = {}
    BY <2>2, OperationFacts, PluginsAssumption
  <2>4. /\ o \in Operations /\ o.kind = a.kind /\ o.plugin = a.plugin /\ o.flag = a.flag
        /\ o.stage = a.stage /\ o.errors = a.errors
    <3> HIDE DEF a
    <3>1. QED
      BY <2>1, <2>3 DEF Operations
  <2> HIDE DEF a
  <2>5. /\ o \in Operations /\ o.kind = r.kind /\ o.plugin = r.plugin /\ o.flag = r.flag
        /\ o.errors = {} /\ o.stage = "pass"
    BY <2>3, <2>4
  <2>6. o # NoOp
    BY <2>5, NoOpType
  <2>7. o.stage \in StagesOf(o.kind)
    BY <2>2, <2>5
  <2>8. QED
    BY <2>5, <2>6, <2>7
<1>10. CASE r.kind \in {"call_on_ready", "call_on_session_ready"}
  <2> DEFINE stage == IF r.kind = "call_on_ready" THEN "ready" ELSE "session"
  <2>1. PICK s \in SetToSeqs(plugins) \cup DependencyOrders(plugins) :
            o = Operation(r, stage, s, s)
    BY <1>10 DEF FirstStage
  <2>2. stage \in StagesOf(r.kind) \ {"none"}
    BY <1>10 DEF StagesOf
  <2>3. s \in Seq(Plugins)
    BY <1>2
  <2>4. QED
    BY <1>4, <2>1, <2>2, <2>3
<1>11. QED
  BY <1>1, <1>5, <1>6, <1>7, <1>8, <1>9, <1>10 DEF Kinds

LEMMA EnterFacts ==
    ASSUME op \in Operations, NEW stage \in Stages, NEW work \in Seq(Plugins)
    PROVE  /\ Enter(op, stage, work) \in Operations
           /\ Enter(op, stage, work).kind = op.kind /\ Enter(op, stage, work).plugin = op.plugin
           /\ Enter(op, stage, work).flag = op.flag /\ Enter(op, stage, work).stage = stage
           /\ Enter(op, stage, work).work = work /\ Enter(op, stage, work).errors = {}
BY DEF Enter, Operations

\* the stages that follow another one, and what they work on
LEMMA NextStageFacts ==
    ASSUME op \in Operations, op.kind \in OnePlugin => op.plugin \in Plugins,
           op.stage \in StagesOf(op.kind), NextStage # NoOp
    PROVE  /\ NextStage \in Operations /\ NextStage.kind = op.kind
           /\ NextStage.plugin = op.plugin /\ NextStage.flag = op.flag
           /\ NextStage.stage \in StagesOf(op.kind)
           /\ NextStage.stage \in Loading \cup {"target"}
           /\ NextStage.stage = "target" => NextStage.errors = {}
<1> DEFINE Goal(n) ==
        /\ n \in Operations /\ n.kind = op.kind /\ n.plugin = op.plugin /\ n.flag = op.flag
        /\ n.stage \in StagesOf(op.kind) /\ n.stage \in Loading \cup {"target"}
        /\ n.stage = "target" => n.errors = {}
<1>1. /\ op.kind \in Kinds /\ op.order \in Seq(Plugins) /\ StagesOf(op.kind) \subseteq Stages
  BY StagesKnown DEF Operations
<1>2. \A stage \in StagesOf(op.kind) \cap (Loading \cup {"target"}), work \in Seq(Plugins) :
        Goal(Enter(op, stage, work))
  BY <1>1, EnterFacts
<1>3. CASE op.stage \in {"dependents", "target", "again"}
  <2>1. op.kind = "reload"
    BY <1>1, <1>3 DEF StagesOf, Kinds
  <2>2. <<op.plugin>> \in Seq(Plugins)
    BY <2>1 DEF OnePlugin
  <2>3. {"restore", "target", "again", "redo"} \subseteq StagesOf(op.kind) \cap (Loading \cup {"target"})
    BY <2>1 DEF StagesOf, Loading
  <2>4. PICK stage \in {"restore", "target", "again", "redo"}, work \in {op.order, <<op.plugin>>} :
            NextStage = Enter(op, stage, work)
    BY <1>3 DEF NextStage
  <2>5. work \in Seq(Plugins) /\ stage \in StagesOf(op.kind) \cap (Loading \cup {"target"})
    BY <1>1, <2>2, <2>3
  <2>6. Goal(NextStage)
    BY <1>2, <2>4, <2>5
  <2>7. QED
    BY <2>6
<1>4. CASE op.stage = "down"
  <2>1. NextStage = Enter(op, "up", op.order)
    BY <1>4 DEF NextStage
  <2>2. "up" \in StagesOf(op.kind) \cap (Loading \cup {"target"})
    BY <1>1, <1>4 DEF StagesOf, Kinds, Loading
  <2>3. QED
    BY <1>1, <1>2, <2>1, <2>2
<1>5. CASE op.stage = "pass"
  <2>1. \/ NextStage = [op EXCEPT !.work = Discovery, !.progress = FALSE]
        \/ NextStage = [op EXCEPT !.stage = "rest", !.work = Discovery]
    BY <1>5 DEF NextStage
  <2>2. {"pass", "rest"} \subseteq StagesOf(op.kind) \cap Loading
    BY <1>1, <1>5 DEF StagesOf, Kinds, Loading
  <2>3. Discovery \in Seq(Plugins) /\ "rest" \in Stages
    BY PluginsAssumption, <1>1, <2>2
  <2>4. "rest" \in StagesOf(op.kind) /\ "pass" # "target" /\ "rest" # "target"
    BY <2>2
  <2>5. CASE NextStage = [op EXCEPT !.work = Discovery, !.progress = FALSE]
    BY <1>5, <2>2, <2>3, <2>4, <2>5 DEF Operations
  <2>6. CASE NextStage = [op EXCEPT !.stage = "rest", !.work = Discovery]
    BY <2>2, <2>3, <2>4, <2>6 DEF Operations
  <2>7. QED
    BY <2>1, <2>5, <2>6
<1>6. CASE op.stage \notin {"dependents", "target", "again", "down", "pass"}
  BY <1>6 DEF NextStage
<1>7. QED
  BY <1>3, <1>4, <1>5, <1>6

\* the work keeps Control; an owner whose operation is over, or gives up
LEMMA WorkKeepsControl == Control /\ WorkEffect => Control'
<1> SUFFICES ASSUME Control, WorkEffect PROVE Control'
  OBVIOUS
<1>1. TypeOK'
  BY DEF Control, TypeOK, WorkEffect, ManagerType, SameOperation, lock, stopping, FrameSet, Busy
<1>2. Requested'
  BY DEF Control, Requested, WorkEffect, SameOperation, lock, stopping, Busy
<1>3. ShutdownOrder'
  BY DEF Control, ShutdownOrder, WorkEffect, lock, stopping
<1>4. QED
  BY <1>1, <1>2, <1>3 DEF Control

\* whoever waits, or calls, is in an operation
LEMMA CallKeepsQueue ==
    ASSUME TypeOK, Requested, NEW c \in Callers, NEW r \in Requests, r # Idle, Call(c, r)
    PROVE  /\ queue' \in Seq(Callers) /\ IsInjective(queue') /\ request' \in [Callers -> Requests]
           /\ \A i \in DOMAIN queue' : request'[queue'[i]] # Idle /\ queue'[i] # owner'
           /\ request'[c] = r /\ \A d \in Callers \ {c} : request'[d] = request[d]
           /\ owner' = owner /\ owner # c
<1> DEFINE n == Len(queue)
<1>1. /\ request \in [Callers -> Requests] /\ queue \in Seq(Callers) /\ IsInjective(queue)
      /\ owner # Nobody => request[owner] # Idle
  BY DEF TypeOK
<1>2. request[c] = Idle /\ request' = [request EXCEPT ![c] = r] /\ queue' = Append(queue, c)
      /\ owner' = owner
  BY DEF Call
<1>3. n \in Nat /\ DOMAIN queue = 1 .. n
  BY <1>1
<1>4. /\ queue' \in Seq(Callers) /\ DOMAIN queue' = 1 .. n + 1
      /\ \A i \in 1 .. n : queue'[i] = queue[i]
      /\ queue'[n + 1] = c
  BY <1>1, <1>2
<1>5. \A i \in 1 .. n : request[queue[i]] # Idle /\ queue[i] # owner /\ queue[i] # c
      /\ queue[i] \in Callers
  BY <1>1, <1>2, <1>3 DEF Requested
<1>6. Nobody # c
  BY PluginsAssumption
<1>7. owner # c
  BY <1>1, <1>2, <1>6
<1>8. request' \in [Callers -> Requests] /\ request'[c] = r
      /\ \A d \in Callers \ {c} : request'[d] = request[d]
  BY <1>1, <1>2
<1> HIDE DEF n
<1>9. \A i \in 1 .. n + 1 : i \in 1 .. n \/ i = n + 1
  BY <1>3
<1>10. IsInjective(queue')
  <2>1. \A a, b \in 1 .. n : queue[a] = queue[b] => a = b
    BY <1>1, <1>3 DEF IsInjective
  <2>2. \A a, b \in 1 .. n + 1 : queue'[a] = queue'[b] => a = b
    BY <1>3, <1>4, <1>5, <1>9, <2>1
  <2>3. QED
    BY <1>4, <2>2 DEF IsInjective
<1>11. \A i \in 1 .. n + 1 : request'[queue'[i]] # Idle /\ queue'[i] # owner'
  <2>1. \A i \in 1 .. n : queue'[i] \in Callers \ {c} /\ request'[queue'[i]] = request[queue[i]]
    BY <1>4, <1>5, <1>8
  <2>2. \A i \in 1 .. n : request'[queue'[i]] # Idle /\ queue'[i] # owner'
    BY <1>2, <1>4, <1>5, <2>1
  <2>3. request'[queue'[n + 1]] # Idle /\ queue'[n + 1] # owner'
    BY <1>2, <1>4, <1>7, <1>8
  <2>4. QED
    BY <1>9, <2>2, <2>3
<1>12. QED
  BY <1>2, <1>4, <1>7, <1>8, <1>10, <1>11

LEMMA NoQueue ==
    ASSUME TypeOK, Requested, queue # <<>>
    PROVE  /\ Head(queue) \in Callers /\ request[Head(queue)] # Idle
           /\ request[Head(queue)] \in Requests /\ Head(queue) # owner
           /\ Tail(queue) \in Seq(Callers) /\ IsInjective(Tail(queue))
           /\ \A i \in DOMAIN Tail(queue) :
                Tail(queue)[i] # Head(queue) /\ request[Tail(queue)[i]] # Idle
                /\ Tail(queue)[i] # owner /\ Tail(queue)[i] \in Callers
<1> DEFINE n == Len(queue)
           t == Tail(queue)
<1>1. queue \in Seq(Callers) /\ IsInjective(queue) /\ request \in [Callers -> Requests]
  BY DEF TypeOK
<1>2. /\ n \in Nat /\ n > 0 /\ DOMAIN queue = 1 .. n /\ Head(queue) = queue[1]
      /\ 1 \in 1 .. n
  BY <1>1
<1>3. /\ t \in Seq(Callers) /\ DOMAIN t = 1 .. n - 1
      /\ \A i \in 1 .. n - 1 : t[i] = queue[i + 1] /\ i + 1 \in 1 .. n /\ i + 1 # 1
  <2>1. /\ t \in Seq(Callers) /\ Len(t) = n - 1
        /\ \A i \in 1 .. Len(t) : t[i] = queue[i + 1]
    BY <1>1, HeadTailProperties
  <2>2. \A i \in 1 .. n - 1 : i + 1 \in 1 .. n /\ i + 1 # 1
    BY <1>2
  <2>3. QED
    BY <1>2, <2>1, <2>2
<1>4. \A i \in 1 .. n : request[queue[i]] # Idle /\ queue[i] # owner /\ queue[i] \in Callers
  BY <1>1, <1>2 DEF Requested
<1> HIDE DEF n, t
<1>5. \A i \in 1 .. n - 1 : t[i] # queue[1]
  BY <1>1, <1>2, <1>3 DEF IsInjective
<1>6. IsInjective(t)
  <2>1. ASSUME NEW a \in 1 .. n - 1, NEW b \in 1 .. n - 1, t[a] = t[b] PROVE a = b
    <3>1. queue[a + 1] = queue[b + 1]
      BY <1>3, <2>1
    <3>2. a + 1 \in DOMAIN queue /\ b + 1 \in DOMAIN queue
      BY <1>2, <1>3, <2>1
    <3>3. a + 1 = b + 1
      BY <1>1, <3>1, <3>2 DEF IsInjective
    <3>4. QED
      BY <1>2, <3>3
  <2>2. QED
    BY <1>3, <2>1 DEF IsInjective
<1>7. QED
  BY <1>1, <1>2, <1>3, <1>4, <1>5, <1>6 DEF t

LEMMA LeavingKeepsQueue ==
    ASSUME TypeOK, Requested, Busy, request' = [request EXCEPT ![owner] = Idle],
           queue' = queue, owner' = Nobody
    PROVE  /\ request' \in [Callers -> Requests] /\ request'[owner] = Idle
           /\ \A d \in Callers \ {owner} : request'[d] = request[d]
           /\ \A i \in DOMAIN queue' : request'[queue'[i]] # Idle /\ queue'[i] # owner'
           /\ owner \in Callers
<1>1. request \in [Callers -> Requests] /\ queue \in Seq(Callers) /\ owner \in Callers
  BY DEF TypeOK, Busy
<1>2. \A i \in DOMAIN queue : request[queue[i]] # Idle /\ queue[i] # owner /\ queue[i] \in Callers
  BY <1>1 DEF Requested
<1>3. request' \in [Callers -> Requests] /\ request'[owner] = Idle
      /\ \A d \in Callers \ {owner} : request'[d] = request[d]
  BY <1>1, NoOpType
<1>4. Nobody \notin Callers
  BY PluginsAssumption
<1>5. QED
  BY <1>1, <1>2, <1>3, <1>4

LEMMA AcquireControl == Control /\ Acquire => Control'
<1> SUFFICES ASSUME Control, Acquire PROVE Control'
  OBVIOUS
<1> DEFINE c == Head(queue)
<1>1. /\ c \in Callers /\ request[c] # Idle /\ request[c] \in Requests /\ c # Nobody
      /\ queue' \in Seq(Callers) /\ IsInjective(queue')
      /\ \A i \in DOMAIN queue' : queue'[i] # c /\ request[queue'[i]] # Idle
      /\ owner' = c /\ UNCHANGED <<request, stopping>>
  BY NoQueue, PluginsAssumption DEF Control, Acquire
<1>2. request[c].kind # "idle" /\ (request[c].kind \in OnePlugin => request[c].plugin \in Plugins)
  BY <1>1 DEF Control, Requested
<1>3. plugins \subseteq Plugins
  BY TypesInParts DEF Control, ManagerType
<1>4. /\ op' \in Operations /\ op' # NoOp /\ op'.kind = request[c].kind
      /\ op'.stage \in StagesOf(op'.kind) /\ op'.plugin = request[c].plugin
  BY <1>1, <1>2, <1>3, FirstStageType DEF Acquire
<1>5. TypeOK'
  BY <1>1, <1>4 DEF Control, TypeOK, Acquire, manager, history, bounds, stopping
<1>6. Requested'
  BY <1>1, <1>2, <1>4 DEF Control, Requested, Acquire, Busy
<1>7. ShutdownOrder'
  <2>1. shutdown => c = Down
    BY <1>1 DEF Acquire, Rejected, Control, Requested
  <2>2. c = Down => phase = "unloading"
    BY <1>1 DEF Control, ShutdownOrder
  <2>3. QED
    BY <1>1, <2>1, <2>2 DEF Control, ShutdownOrder, stopping
<1>8. QED
  BY <1>5, <1>6, <1>7 DEF Control

LEMMA RejectControl == Control /\ Reject => Control'
<1> SUFFICES ASSUME Control, Reject PROVE Control'
  OBVIOUS
<1> DEFINE c == Head(queue)
<1>1. /\ c \in Callers /\ request[c] # Idle
      /\ queue' \in Seq(Callers) /\ IsInjective(queue') /\ DOMAIN queue' = DOMAIN Tail(queue)
      /\ \A i \in DOMAIN queue' :
            queue'[i] # c /\ queue'[i] \in Callers /\ request[queue'[i]] # Idle /\ queue'[i] # owner
  BY NoQueue DEF Control, Reject
<1>2. /\ request \in [Callers -> Requests] /\ request' = [request EXCEPT ![c] = Idle]
      /\ UNCHANGED <<owner, op, stack, hung, booted, stopping>> /\ owner = Nobody
  BY DEF Control, TypeOK, Reject, running
<1>3. /\ request' \in [Callers -> Requests] /\ request'[c] = Idle
      /\ \A d \in Callers \ {c} : request'[d] = request[d]
  BY <1>1, <1>2, NoOpType
<1>4. TypeOK'
  BY <1>1, <1>2, <1>3 DEF Control, TypeOK, Reject, manager, history, bounds, stopping
<1>5. Requested'
  <2>1. \A d \in Callers : request'[d] = request[d] \/ request'[d] = Idle
    BY <1>3
  <2>2. Idle.kind = "idle" /\ "idle" \notin OnePlugin
    BY DEF Idle, OnePlugin
  <2>3. Down \in Callers /\ Boot \in Callers
    BY DEF Callers
  <2>4. \A i \in DOMAIN queue' : request'[queue'[i]] # Idle /\ queue'[i] # owner'
    BY <1>1, <1>2, <1>3
  <2>5. QED
    BY <1>2, <2>1, <2>2, <2>3, <2>4 DEF Control, Requested, Busy
<1>6. ShutdownOrder'
  <2>1. request'[Down] # Idle => request[Down] # Idle
    BY <1>3 DEF Callers
  <2>2. QED
    BY <1>2, <2>1 DEF Control, ShutdownOrder, stopping
<1>7. QED
  BY <1>4, <1>5, <1>6 DEF Control

LEMMA BootCallsControl == Control /\ BootCalls => Control'
<1> SUFFICES ASSUME Control, BootCalls PROVE Control'
  OBVIOUS
<1> DEFINE r == [Idle EXCEPT !.kind = Script[booted + 1]]
<1>1. booted \in 0 .. 3 /\ booted' = booted + 1 /\ booted' \in 1 .. 4 /\ Len(Script) = 4
  BY SMTT(30) DEF Control, TypeOK, BootCalls, Script
<1>2. Script[booted + 1] \in {"load_all", "call_on_ready", "call_on_session_ready"}
  BY <1>1 DEF Script
<1>3. /\ r \in Requests /\ r.kind = Script[booted'] /\ r # Idle
      /\ r.kind \in {"load_all", "call_on_ready", "call_on_session_ready"}
  BY <1>1, <1>2, NoOpType DEF Requests, Kinds, Idle
<1> HIDE DEF r
<1>4. Boot \in Callers /\ Down \in Callers /\ Boot # Down
  BY PluginsAssumption DEF Callers
<1>5. Call(Boot, r)
  BY DEF BootCalls, r
<1>6. /\ queue' \in Seq(Callers) /\ IsInjective(queue') /\ request' \in [Callers -> Requests]
      /\ \A i \in DOMAIN queue' : request'[queue'[i]] # Idle /\ queue'[i] # owner'
      /\ request'[Boot] = r /\ \A d \in Callers \ {Boot} : request'[d] = request[d]
      /\ owner' = owner /\ owner # Boot
  BY <1>3, <1>4, <1>5, CallKeepsQueue DEF Control
<1>7. UNCHANGED <<manager, ready, running, history, stopping, bounds>>
  BY <1>5 DEF Call, BootCalls, bounds
<1>8. TypeOK'
  BY <1>1, <1>6, <1>7 DEF Control, TypeOK, manager, running, history, stopping, bounds, Script
<1>9. Requested'
  <2>1. \A d \in Callers :
            /\ request'[d].kind = "idle" => request'[d] = Idle
            /\ request'[d].kind = "unload_all" => d = Down
            /\ request'[d].kind \in {"call_on_ready", "call_on_session_ready"} => d = Boot
            /\ request'[d].kind \in OnePlugin => request'[d].plugin \in Plugins
    BY <1>3, <1>6 DEF Control, Requested, OnePlugin
  <2>2. request'[Down].kind \in {"idle", "unload_all"}
    BY <1>4, <1>6 DEF Control, Requested
  <2>3. request'[Boot] # Idle => booted' > 0 /\ request'[Boot].kind = Script[booted']
    BY <1>1, <1>3, <1>6
  <2>4. QED
    BY <1>6, <1>7, <2>1, <2>2, <2>3 DEF Control, Requested, running, Busy
<1>10. ShutdownOrder'
  BY <1>4, <1>6, <1>7 DEF Control, ShutdownOrder, stopping
<1>11. QED
  BY <1>8, <1>9, <1>10 DEF Control

LEMMA AdminCallsControl ==
    ASSUME Control, NEW c \in Admins, NEW r \in PluginCommands \cup AllCommands, AdminCalls(c, r)
    PROVE  Control'
<1>1. /\ r \in Requests /\ r # Idle
      /\ r.kind \in {"load", "restart", "unload", "reload", "load_all", "reload_all"}
      /\ r.kind \in OnePlugin => r.plugin \in Plugins
  <2>1. CASE r \in PluginCommands
    <3>1. \/ r \in [kind : {"load", "restart"}, plugin : Plugins, flag : {FALSE}]
          \/ r \in [kind : {"unload", "reload"}, plugin : Plugins, flag : BOOLEAN]
      BY <2>1 DEF PluginCommands
    <3>2. /\ r.kind \in {"load", "restart", "unload", "reload"}
          /\ r.plugin \in Plugins /\ r \in Requests
      BY <3>1 DEF Requests, Kinds
    <3>3. QED
      BY <3>2, NoOpType DEF Idle
  <2>2. CASE r \in AllCommands
    <3>1. PICK k \in {"load_all", "reload_all"} : r = [Idle EXCEPT !.kind = k]
      BY <2>2 DEF AllCommands
    <3>2. r.kind = k /\ r \in Requests
      BY <3>1, NoOpType DEF Requests, Kinds, Idle
    <3>3. QED
      BY <3>2, NoOpType DEF Idle, OnePlugin
  <2>3. QED
    BY <2>1, <2>2
<1>2. c \in Callers /\ c # Boot /\ c # Down /\ Down \in Callers /\ Boot \in Callers
  BY PluginsAssumption DEF Callers
<1>3. /\ queue' \in Seq(Callers) /\ IsInjective(queue') /\ request' \in [Callers -> Requests]
      /\ \A i \in DOMAIN queue' : request'[queue'[i]] # Idle /\ queue'[i] # owner'
      /\ request'[c] = r /\ \A d \in Callers \ {c} : request'[d] = request[d]
      /\ owner' = owner /\ owner # c
  BY <1>1, <1>2, CallKeepsQueue DEF Control, AdminCalls
<1>4. UNCHANGED <<manager, ready, running, history, stopping, booted, faults>>
      /\ given' \in 0 .. MaxCommands
  <2>1. given' \in 0 .. MaxCommands
    BY PluginsAssumption DEF Control, TypeOK, AdminCalls
  <2>2. QED
    BY <2>1 DEF Call, AdminCalls
<1>5. TypeOK'
  BY <1>3, <1>4 DEF Control, TypeOK, manager, running, history, stopping
<1>6. Requested'
  <2>1. \A d \in Callers :
            /\ request'[d].kind = "idle" => request'[d] = Idle
            /\ request'[d].kind = "unload_all" => d = Down
            /\ request'[d].kind \in {"call_on_ready", "call_on_session_ready"} => d = Boot
            /\ request'[d].kind \in OnePlugin => request'[d].plugin \in Plugins
    BY <1>1, <1>3 DEF Control, Requested
  <2>2. request'[Down] = request[Down] /\ request'[Boot] = request[Boot]
    BY <1>2, <1>3
  <2>3. QED
    BY <1>3, <1>4, <2>1, <2>2 DEF Control, Requested, running, Busy
<1>7. ShutdownOrder'
  BY <1>2, <1>3, <1>4 DEF Control, ShutdownOrder, stopping
<1>8. QED
  BY <1>5, <1>6, <1>7 DEF Control

LEMMA CallUnloadAllControl == Control /\ CallUnloadAll => Control'
<1> SUFFICES ASSUME Control, CallUnloadAll PROVE Control'
  OBVIOUS
<1> DEFINE r == [Idle EXCEPT !.kind = "unload_all"]
<1>1. r \in Requests /\ r.kind = "unload_all" /\ r # Idle
  BY NoOpType DEF Requests, Kinds, Idle
<1> HIDE DEF r
<1>2. Boot \in Callers /\ Down \in Callers /\ Boot # Down
  BY PluginsAssumption DEF Callers
<1>3. Call(Down, r)
  BY DEF CallUnloadAll, r
<1>4. /\ queue' \in Seq(Callers) /\ IsInjective(queue') /\ request' \in [Callers -> Requests]
      /\ \A i \in DOMAIN queue' : request'[queue'[i]] # Idle /\ queue'[i] # owner'
      /\ request'[Down] = r /\ \A d \in Callers \ {Down} : request'[d] = request[d]
      /\ owner' = owner /\ owner # Down
  BY <1>1, <1>2, <1>3, CallKeepsQueue DEF Control
<1>5. UNCHANGED <<manager, ready, running, history, booted, shutdown, target, cancelled, bounds>>
      /\ phase = "unload" /\ phase' = "unloading"
  BY <1>3 DEF Call, CallUnloadAll, bounds
<1>6. TypeOK'
  BY <1>4, <1>5 DEF Control, TypeOK, manager, running, history, bounds, Phases
<1>7. Requested'
  <2>1. \A d \in Callers :
            /\ request'[d].kind = "idle" => request'[d] = Idle
            /\ request'[d].kind = "unload_all" => d = Down
            /\ request'[d].kind \in {"call_on_ready", "call_on_session_ready"} => d = Boot
            /\ request'[d].kind \in OnePlugin => request'[d].plugin \in Plugins
    BY <1>1, <1>4 DEF Control, Requested, OnePlugin
  <2>2. request'[Down].kind = "unload_all" /\ request'[Boot] = request[Boot]
    BY <1>1, <1>2, <1>4
  <2>3. QED
    BY <1>4, <1>5, <2>1, <2>2 DEF Control, Requested, running, Busy
<1>8. ShutdownOrder'
  BY <1>4, <1>5 DEF Control, ShutdownOrder
<1>9. QED
  BY <1>6, <1>7, <1>8 DEF Control

\* the owner leaves: done, cancelled or timed out
Leaves ==
    /\ op' = NoOp /\ stack' = <<>> /\ hung' = FALSE /\ owner' = Nobody
    /\ request' = [request EXCEPT ![owner] = Idle]
    /\ UNCHANGED <<manager, queue, booted, shutdown, target, forced, stubborn, masked, bounds>>
    /\ ready' \in BOOLEAN /\ abandoned' \subseteq Plugins

LEMMA LeavesTypes ==
    ASSUME Control, Busy, Leaves, cancelled' \in BOOLEAN, phase' \in Phases
    PROVE  TypeOK' /\ Requested'
<1>1. /\ request' \in [Callers -> Requests] /\ request'[owner] = Idle
      /\ \A d \in Callers \ {owner} : request'[d] = request[d]
      /\ \A i \in DOMAIN queue' : request'[queue'[i]] # Idle /\ queue'[i] # owner'
      /\ owner \in Callers
  BY LeavingKeepsQueue DEF Control, Leaves
<1>2. <<>> \in Seq([plugin : Plugins, at : Places]) /\ op' \in Operations
  BY NoOpType DEF Leaves
<1>3. TypeOK'
  <2>1. {plugins, commands, workers, readied, stubborn, abandoned, masked}' \subseteq SUBSET Plugins
    BY DEF Control, TypeOK, Leaves, manager
  <2>2. /\ failed' \in [Plugins -> Reasons] /\ handlers' \in [Plugins -> Nat]
        /\ {ready, hung, shutdown, cancelled, forced}' \subseteq BOOLEAN
        /\ given' \in 0 .. MaxCommands /\ faults' \in 0 .. MaxFaults
        /\ target' \in Callers \cup {Nobody} /\ booted' \in 0 .. Len(Script)
        /\ queue' \in Seq(Callers) /\ IsInjective(queue')
    BY DEF Control, TypeOK, Leaves, manager, bounds
  <2>3. owner' = Nobody /\ op' = NoOp /\ stack' = <<>> /\ ~hung'
    BY DEF Leaves
  <2>4. QED
    BY <1>1, <1>2, <2>1, <2>2, <2>3 DEF TypeOK
<1>4. Requested'
  <2>1. Idle.kind = "idle" /\ "idle" \notin OnePlugin
    BY DEF Idle, OnePlugin
  <2>2. \A d \in Callers : request'[d] = request[d] \/ request'[d] = Idle
    BY <1>1
  <2>3. Boot \in Callers /\ Down \in Callers
    BY DEF Callers
  <2>4. QED
    BY <1>1, <2>1, <2>2, <2>3 DEF Control, Requested, Leaves, Busy
<1>5. QED
  BY <1>3, <1>4

LEMMA OwnerFacts ==
    ASSUME Control, Busy
    PROVE  /\ owner \in Callers /\ op \in Operations /\ op.kind \in Kinds
           /\ op.kind = request[owner].kind /\ request[owner] # Idle
           /\ op.stage \in StagesOf(op.kind)
           /\ op.kind \in OnePlugin => op.plugin \in Plugins
           /\ op.stage = "all down" => owner = Down /\ phase = "unloading"
           /\ op.stage \in {"ready", "session"} => owner = Boot
           /\ op.stage = "ready" <=> op.kind = "call_on_ready"
           /\ op.stage = "session" <=> op.kind = "call_on_session_ready"
<1>1. /\ owner \in Callers /\ op \in Operations /\ op.kind \in Kinds
      /\ op.kind = request[owner].kind /\ request[owner] # Idle
      /\ op.stage \in StagesOf(op.kind)
      /\ op.kind \in OnePlugin => op.plugin \in Plugins
  BY DEF Control, TypeOK, Requested, Busy, Operations
<1>2. /\ op.stage = "all down" => op.kind = "unload_all"
      /\ op.stage = "ready" <=> op.kind = "call_on_ready"
      /\ op.stage = "session" <=> op.kind = "call_on_session_ready"
  BY <1>1 DEF StagesOf, Kinds
<1>3. QED
  BY <1>1, <1>2 DEF Control, Requested, ShutdownOrder

LEMMA AdvanceControl == Control /\ Advance => Control'
<1> SUFFICES ASSUME Control, Advance PROVE Control'
  OBVIOUS
<1>1. Busy /\ Working
  BY DEF Advance, Working, Busy
<1>2. /\ owner \in Callers /\ op \in Operations
      /\ op.kind = request[owner].kind /\ request[owner] # Idle
      /\ op.stage \in StagesOf(op.kind)
      /\ op.kind \in OnePlugin => op.plugin \in Plugins
      /\ op.stage = "all down" => owner = Down /\ phase = "unloading"
  BY <1>1, OwnerFacts
<1>3. CASE NextStage # NoOp
  <2>1. op' = NextStage /\ UNCHANGED <<ready, lock, stack, hung, phase, manager, shutdown, target,
                                       cancelled, history, bounds>>
    BY <1>3 DEF Advance
  <2>2. /\ op' \in Operations /\ op'.kind = op.kind /\ op'.plugin = op.plugin
        /\ op'.stage \in StagesOf(op.kind)
    BY <1>2, <1>3, <2>1, NextStageFacts
  <2>3. TypeOK'
    BY <1>1, <1>2, <2>1, <2>2 DEF Control, TypeOK, lock, manager, history, bounds, Busy
  <2>4. Requested'
    BY <1>2, <2>1, <2>2 DEF Control, Requested, lock, Busy
  <2>5. ShutdownOrder'
    BY <2>1 DEF Control, ShutdownOrder, lock
  <2>6. QED
    BY <2>3, <2>4, <2>5 DEF Control
<1>4. CASE NextStage = NoOp
  <2>1. Finish /\ UNCHANGED <<manager, shutdown, target, cancelled, history, bounds>>
    BY <1>4 DEF Advance
  <2>2. /\ ready' \in BOOLEAN
        /\ phase' = phase \/ (op.stage = "all down" /\ phase' \in {"ok", "partial"})
    BY <1>4 DEF Advance, Control, TypeOK
  <2>3. Leaves
    BY <1>1, <2>1, <2>2 DEF Finish, Leaves, Working, history, Control, TypeOK
  <2>4. cancelled' \in BOOLEAN /\ phase' \in Phases
    BY <2>1, <2>2 DEF Control, TypeOK, Phases
  <2>5. TypeOK' /\ Requested'
    BY <1>1, <2>3, <2>4, LeavesTypes
  <2>6. /\ request'[owner] = Idle /\ \A d \in Callers \ {owner} : request'[d] = request[d]
    BY <1>1, <2>3, LeavingKeepsQueue DEF Control, Leaves
  <2>7. ShutdownOrder'
    <3>1. owner' = Nobody /\ Down \in Callers
      BY <2>3 DEF Leaves, Callers
    <3>2. CASE phase' = phase
      <4>1. request'[Down] # Idle => request[Down] # Idle
        BY <2>6, <3>1
      <4>2. QED
        BY <2>1, <3>1, <3>2, <4>1 DEF Control, ShutdownOrder
    <3>3. CASE op.stage = "all down" /\ phase' \in {"ok", "partial"}
      <4>1. phase = "unloading" /\ request'[Down] = Idle
        BY <1>2, <2>6, <3>3
      <4>2. QED
        BY <2>1, <3>1, <3>3, <4>1 DEF Control, ShutdownOrder
    <3>4. QED
      BY <2>2, <3>2, <3>3
  <2>8. QED
    BY <2>5, <2>7 DEF Control
<1>5. QED
  BY <1>3, <1>4

LEMMA UnwindLeaves ==
    ASSUME TypeOK, Unwind, UNCHANGED <<shutdown, target, bounds>>
    PROVE  Leaves
<1>1. OnStack \subseteq Plugins
  <2>1. stack \in Seq(FrameSet)
    BY TypesInParts DEF ManagerType
  <2>2. \A i \in DOMAIN stack : stack[i] \in FrameSet
    BY <2>1
  <2>3. \A f \in FrameSet : f.plugin \in Plugins
    BY DEF FrameSet
  <2>4. QED
    BY <2>2, <2>3 DEF OnStack
<1>2. QED
  BY <1>1 DEF TypeOK, Unwind, Leaves

LEMMA ShutdownControl == Control /\ (BeginShutdown \/ ShutdownStep) => Control'
<1> SUFFICES ASSUME Control, BeginShutdown \/ ShutdownStep PROVE Control'
  OBVIOUS
<1>1. Down \in Callers /\ Nobody \notin Callers
  BY PluginsAssumption DEF Callers
<1>2. ASSUME UNCHANGED <<manager, ready, lock, running, history, bounds>>,
             target' \in Callers \cup {Nobody}, phase' \in Phases,
             shutdown' \in BOOLEAN, cancelled' \in BOOLEAN
      PROVE  TypeOK' /\ Requested'
  <2>1. TypeOK'
    BY <1>2 DEF Control, TypeOK, manager, lock, running, history, bounds
  <2>2. Requested'
    BY <1>2 DEF Control, Requested, lock, running, Busy
  <2>3. QED
    BY <2>1, <2>2
<1>3. owner \in Callers \cup {Nobody} /\ target \in Callers \cup {Nobody}
      /\ shutdown \in BOOLEAN /\ cancelled \in BOOLEAN /\ phase \in Phases
      /\ (owner # Nobody => request[owner] # Idle)
  BY DEF Control, TypeOK
<1>4. ASSUME BeginShutdown PROVE Control'
  <2>1. TypeOK' /\ Requested'
    BY <1>2, <1>3, <1>4 DEF BeginShutdown, Phases
  <2>2. ShutdownOrder'
    BY <1>3, <1>4 DEF BeginShutdown, Control, ShutdownOrder, lock
  <2>3. QED
    BY <2>1, <2>2 DEF Control
<1>5. ASSUME TargetEnds PROVE Control'
  <2>1. TypeOK' /\ Requested'
    BY <1>2, <1>3, <1>5 DEF TargetEnds, Phases
  <2>2. owner = Nobody
    BY <1>3, <1>5 DEF TargetEnds, Ended, Control, ShutdownOrder
  <2>3. ShutdownOrder'
    BY <1>5, <2>2 DEF TargetEnds, Control, ShutdownOrder, lock
  <2>4. QED
    BY <2>1, <2>3 DEF Control
<1>6. ASSUME GraceTimeout \/ CancelTimeout PROVE Control'
  <2>1. TypeOK' /\ Requested'
    BY <1>2, <1>3, <1>6 DEF GraceTimeout, CancelTimeout, Phases
  <2>2. ShutdownOrder'
    BY <1>6 DEF GraceTimeout, CancelTimeout, Control, ShutdownOrder, lock
  <2>3. QED
    BY <2>1, <2>2 DEF Control
<1>7. ASSUME TakeCancellation PROVE Control'
  <2>1. Busy /\ Leaves /\ cancelled' = FALSE /\ phase' = phase
    <3>1. phase = "cancel" /\ target \in Callers /\ owner = target
      BY <1>7 DEF TakeCancellation, Control, ShutdownOrder
    <3>2. Unwind /\ UNCHANGED <<shutdown, target, bounds>> /\ cancelled' = FALSE /\ phase' = phase
      BY <1>7 DEF TakeCancellation
    <3>3. Leaves
      BY <3>2, UnwindLeaves DEF Control
    <3>4. QED
      BY <1>1, <3>1, <3>2, <3>3 DEF Busy
  <2>2. TypeOK' /\ Requested'
    BY <1>3, <2>1, LeavesTypes
  <2>3. request'[Down] # Idle => request[Down] # Idle
    BY <1>1, <2>1, LeavingKeepsQueue DEF Control, Leaves
  <2>4. ShutdownOrder'
    BY <2>1, <2>3 DEF Leaves, Control, ShutdownOrder
  <2>5. QED
    BY <2>2, <2>4 DEF Control
<1>8. ASSUME UnloadTimeout PROVE Control'
  <2>1. Busy /\ Leaves /\ cancelled' = cancelled /\ phase' = "timeout" /\ phase = "unloading"
        /\ owner = Down
    <3>1. Unwind /\ UNCHANGED <<shutdown, target, cancelled, bounds>> /\ phase' = "timeout"
          /\ phase = "unloading" /\ owner = Down
      BY <1>8 DEF UnloadTimeout
    <3>2. Leaves
      BY <3>1, UnwindLeaves DEF Control
    <3>3. QED
      BY <1>1, <3>1, <3>2 DEF Busy
  <2>2. TypeOK' /\ Requested'
    BY <1>3, <2>1, LeavesTypes DEF Phases
  <2>3. request'[Down] = Idle
    BY <2>1, LeavingKeepsQueue DEF Control, Leaves
  <2>4. ShutdownOrder'
    BY <2>1, <2>3 DEF Leaves, Control, ShutdownOrder
  <2>5. QED
    BY <2>2, <2>4 DEF Control
<1>9. QED
  BY <1>4, <1>5, <1>6, <1>7, <1>8, CallUnloadAllControl DEF ShutdownStep

LEMMA HangControl == Control /\ (Hang \/ SwallowCancellation) => Control'
<1> SUFFICES ASSUME Control, Hang \/ SwallowCancellation PROVE Control'
  OBVIOUS
<1>1. faults' \in 0 .. MaxFaults /\ given' = given
  BY FaultType DEF Control, TypeOK, Hang, SwallowCancellation
<1>2. /\ UNCHANGED <<manager, ready, lock, op, stack, shutdown, phase, target, history>>
      /\ cancelled' \in BOOLEAN /\ (cancelled' => cancelled)
      /\ hung' \in BOOLEAN /\ (owner = Nobody => hung' = hung)
  <2>1. cancelled \in BOOLEAN /\ hung \in BOOLEAN
    BY DEF Control, TypeOK
  <2>2. CASE Hang
    BY <2>1, <2>2 DEF Hang, Working, stopping
  <2>3. CASE SwallowCancellation
    BY <2>1, <2>3 DEF SwallowCancellation, running
  <2>4. QED
    BY <2>2, <2>3
<1>3. TypeOK'
  BY <1>1, <1>2 DEF Control, TypeOK, manager, lock, history
<1>4. Requested'
  BY <1>2 DEF Control, Requested, lock, Busy
<1>5. ShutdownOrder'
  BY <1>2 DEF Control, ShutdownOrder, lock
<1>6. QED
  BY <1>3, <1>4, <1>5 DEF Control

LEMMA ControlStep == Control /\ Frames /\ Next => Control'
<1> SUFFICES ASSUME Control, Frames, Next PROVE Control'
  OBVIOUS
<1>1. LoadStep \/ UnloadStep \/ HookStep => Control'
  BY LoadStepEffect, UnloadStepEffect, HookStepEffect, WorkKeepsControl DEF Control
<1>2. BootCalls \/ Reject \/ Acquire \/ Advance \/ BeginShutdown \/ ShutdownStep => Control'
  BY BootCallsControl, RejectControl, AcquireControl, AdvanceControl, ShutdownControl
<1>3. (\E c \in Admins, r \in PluginCommands \cup AllCommands : AdminCalls(c, r)) => Control'
  BY AdminCallsControl
<1>4. Hang \/ SwallowCancellation => Control'
  BY HangControl
<1>5. QED
  BY <1>1, <1>2, <1>3, <1>4 DEF Next

\* steps that neither the owner's operation nor what is loaded takes part in
LEMMA ControlStutter == Control /\ UNCHANGED vars => Control'
BY DEF Control, TypeOK, Requested, ShutdownOrder, Busy, vars, manager, lock, running, stopping,
       history, bounds

-----------------------------------------------------------------------------
(* The call stack *)

Sound == Control /\ Frames /\ LoadFrames

LEMMA EmptyFrames == ASSUME stack' = <<>> PROVE Frames' /\ LoadFrames'
BY DEF Frames, LoadFrames, On

\* where the owner is, and what it does there
LEMMA WhereWorking ==
    ASSUME Sound, stack # <<>>
    PROVE  /\ op.work # <<>> /\ stack[1].plugin = Head(op.work) /\ Top.plugin \in Plugins
           /\ Len(stack) \in Nat /\ Len(stack) > 0 /\ Top = stack[Len(stack)]
           /\ stack \in Seq(FrameSet) /\ op \in Operations
           /\ Top.at \in {"import", "deps", "on_load", "cleanup", "on_ready"} => op.stage \in Loading
           /\ Top.at \in {"ready", "session"} => op.stage = Top.at
           /\ Top.at \in {"stop", "restart"} => op.stage = "restart"
           /\ Top.at \in {"on_unload", "tasks"} => op.stage \in Loading \cup Unloading
           /\ op.stage \in Loading <=> op.stage \notin Unloading \cup Hooking \cup {"restart"}
           /\ op.stage \notin Loading => Len(stack) = 1
           /\ op.stage \in Loading /\ Top.at \in {"on_unload", "tasks"} => Len(stack) > 1
           /\ Top.at # "refused"
<1>1. ManagerType /\ TypeOK /\ Frames /\ LoadFrames
  BY TypesInParts DEF Sound, Control
<1>2. /\ Len(stack) \in Nat /\ Len(stack) > 0 /\ Top = stack[Len(stack)] /\ Top.plugin \in Plugins
      /\ stack \in Seq(FrameSet) /\ op \in Operations /\ op.stage \in Stages
  BY <1>1, StackFacts DEF ManagerType, Operations
<1>3. op.stage \in Unloading \cup Loading \cup Hooking \cup {"restart"}
  BY <1>1, <1>2 DEF Frames, Stages
<1>4. QED
  BY <1>1, <1>2, <1>3 DEF Frames, LoadFrames, On, Unloading, Loading, Hooking

LEMMA PushFrames ==
    ASSUME Sound, Working, op.stage \in Loading, op.work # <<>>,
           NEW d \in Plugins \ plugins, Push(Frame(d, "import")), UNCHANGED <<plugins, op>>,
           IF stack = <<>> THEN d = Head(op.work) ELSE Top.at = "deps" /\ d \notin OnStack
    PROVE  Frames' /\ LoadFrames'
<1> DEFINE n == Len(stack)
           f == Frame(d, "import")
<1>1. /\ stack \in Seq(FrameSet) /\ n \in Nat /\ DOMAIN stack = 1 .. n /\ f \in FrameSet
      /\ f.plugin = d /\ f.at = "import"
  BY TypesInParts DEF Sound, Control, ManagerType, Frame, FrameSet, Places
<1>2. /\ stack' \in Seq(FrameSet) /\ stack' # <<>> /\ DOMAIN stack' = 1 .. n + 1
      /\ Len(stack') = n + 1
      /\ \A i \in 1 .. n : stack'[i] = stack[i]
      /\ stack'[n + 1] = f /\ Top' = f
  BY <1>1, PushFacts
<1>3. n = 0 <=> stack = <<>>
  BY <1>1
<1>4. stack # <<>> => Top = stack[n] /\ Top.at = "deps" /\ \A i \in 1 .. n : stack[i].plugin # d
  BY <1>1 DEF OnStack, Top, Last
<1> HIDE DEF n, f
<1>5. stack'[1].plugin = Head(op.work)
  <2>1. CASE stack = <<>>
    BY <1>1, <1>2, <1>3, <2>1
  <2>2. CASE stack # <<>>
    <3>1. stack'[1] = stack[1]
      BY <1>1, <1>2, <1>3, <2>2
    <3>2. QED
      BY <2>2, <3>1 DEF Sound, Frames
  <2>3. QED
    BY <2>1, <2>2
<1>6. Frames'
  BY <1>1, <1>2, <1>5 DEF Frames, Loading, Unloading, Hooking
<1>7. LoadFrames'
  <2>1. \A i \in 1 .. n + 1 : i = n + 1 \/ i \in 1 .. n
    BY <1>1
  <2>2. \A i \in 1 .. n :
            /\ stack[i].at \in {"import", "deps", "on_load", "cleanup"} => stack[i].plugin \notin plugins
            /\ stack[i].at \in {"on_ready", "refused", "on_unload", "tasks"} => stack[i].plugin \in plugins
            /\ i < n => stack[i].at = "deps"
            /\ stack[i].plugin # d
            /\ i = n => stack[i].at = "deps"
    <3>1. stack # <<>> => ~On({"on_unload", "tasks"})
      BY <1>4 DEF On
    <3>2. n > 0 => stack # <<>>
      BY <1>3
    <3>3. \A i \in 1 .. n :
            /\ stack[i].at \in {"import", "deps", "on_load", "cleanup"} => stack[i].plugin \notin plugins
            /\ stack[i].at \in {"on_ready", "refused", "on_unload", "tasks"} => stack[i].plugin \in plugins
            /\ i < n => stack[i].at = "deps" \/ On({"on_unload", "tasks"})
      BY <1>1 DEF Sound, LoadFrames, n
    <3>4. QED
      BY <1>1, <1>4, <3>1, <3>2, <3>3
  <2>3. \A i, j \in 1 .. n : i < j /\ stack[i].plugin = stack[j].plugin => stack[i].at = "refused"
    BY <1>1 DEF Sound, LoadFrames
  <2>4. \A i \in 1 .. n + 1 :
            /\ stack'[i].at \in {"import", "deps", "on_load", "cleanup"} => stack'[i].plugin \notin plugins'
            /\ stack'[i].at \in {"on_ready", "refused", "on_unload", "tasks"} => stack'[i].plugin \in plugins'
            /\ i < n + 1 => stack'[i].at = "deps"
    BY <1>1, <1>2, <2>1, <2>2
  <2>5. \A i, j \in 1 .. n + 1 : i < j /\ stack'[i].plugin = stack'[j].plugin => stack'[i].at = "refused"
    <3> SUFFICES ASSUME NEW i \in 1 .. n + 1, NEW j \in 1 .. n + 1, i < j,
                        stack'[i].plugin = stack'[j].plugin
                 PROVE  stack'[i].at = "refused"
      OBVIOUS
    <3>1. i \in 1 .. n
      BY <1>1
    <3>2. CASE j \in 1 .. n
      BY <1>2, <2>3, <3>1, <3>2
    <3>3. CASE j = n + 1
      BY <1>1, <1>2, <2>2, <3>1, <3>3
    <3>4. QED
      BY <2>1, <3>2, <3>3
  <2>6. ~On({"on_unload", "tasks"})'
    BY <1>1, <1>2 DEF On
  <2>7. QED
    BY <1>2, <2>4, <2>5, <2>6 DEF LoadFrames
<1>8. QED
  BY <1>6, <1>7

LEMMA GoToFrames ==
    ASSUME Sound, Working, op.stage \in Loading, stack # <<>>,
           NEW at \in {"deps", "on_load", "cleanup", "on_ready", "tasks"}, GoTo(at), UNCHANGED op,
           plugins \subseteq plugins', plugins' \ plugins \subseteq {Top.plugin},
           IF at \in {"on_ready", "tasks"} THEN Top.plugin \in plugins' ELSE Top.plugin \notin plugins',
           at = "tasks" <=> Top.at \in {"on_unload", "tasks"}
    PROVE  Frames' /\ LoadFrames'
<1> DEFINE n == Len(stack)
<1>1. /\ stack \in Seq(FrameSet) /\ n \in Nat /\ n > 0 /\ DOMAIN stack = 1 .. n
      /\ Top = stack[n] /\ Top.at # "refused" /\ op.work # <<>> /\ stack[1].plugin = Head(op.work)
      /\ at \in Places
  BY WhereWorking DEF Places, InHook
<1>2. /\ stack' \in Seq(FrameSet) /\ stack' # <<>> /\ Len(stack') = n
      /\ \A i \in 1 .. n - 1 : stack'[i] = stack[i]
      /\ Top'.plugin = Top.plugin /\ Top'.at = at
      /\ \A i \in 1 .. n : stack'[i].plugin = stack[i].plugin
  BY <1>1, GoToFacts
<1>3. DOMAIN stack' = 1 .. n /\ Top' = stack'[n] /\ stack'[n].at = at
  BY <1>1, <1>2 DEF Top, Last
<1>4. On({"on_unload", "tasks"})' <=> On({"on_unload", "tasks"})
  BY <1>2 DEF On
<1>5. LoadFrames /\ On({"on_unload", "tasks"}) => n > 1
  BY DEF LoadFrames
<1> HIDE DEF n
<1>6. \A i \in 1 .. n : i = n \/ (i \in 1 .. n - 1 /\ i < n)
  BY <1>1
<1>7. Frames'
  <2>1. stack'[1].plugin = stack[1].plugin
    BY <1>1, <1>2
  <2>2. op.stage \notin Unloading \cup Hooking \cup {"restart", "none", "refused"}
    BY DEF Loading, Unloading, Hooking
  <2>3. QED
    BY <1>1, <1>2, <2>1, <2>2 DEF Frames
<1>8. /\ \A i \in 1 .. n :
            /\ stack[i].at \in {"import", "deps", "on_load", "cleanup"} => stack[i].plugin \notin plugins
            /\ stack[i].at \in {"on_ready", "refused", "on_unload", "tasks"} => stack[i].plugin \in plugins
            /\ i < n => \/ stack[i].at = "deps"
                        \/ stack[i].at = "refused" /\ On({"on_unload", "tasks"})
      /\ \A i, j \in 1 .. n : i < j /\ stack[i].plugin = stack[j].plugin => stack[i].at = "refused"
  BY <1>1 DEF Sound, LoadFrames, n
<1>9. \A i \in 1 .. n :
            /\ stack'[i].at \in {"import", "deps", "on_load", "cleanup"} => stack'[i].plugin \notin plugins'
            /\ stack'[i].at \in {"on_ready", "refused", "on_unload", "tasks"} => stack'[i].plugin \in plugins'
            /\ i < n => \/ stack'[i].at = "deps"
                        \/ stack'[i].at = "refused" /\ On({"on_unload", "tasks"})'
  <2> SUFFICES ASSUME NEW i \in 1 .. n
               PROVE  /\ stack'[i].at \in {"import", "deps", "on_load", "cleanup"}
                            => stack'[i].plugin \notin plugins'
                      /\ stack'[i].at \in {"on_ready", "refused", "on_unload", "tasks"}
                            => stack'[i].plugin \in plugins'
                      /\ i < n => \/ stack'[i].at = "deps"
                                  \/ stack'[i].at = "refused" /\ On({"on_unload", "tasks"})'
    OBVIOUS
  <2>1. CASE i = n
    BY <1>1, <1>2, <1>3, <2>1
  <2>2. CASE i \in 1 .. n - 1 /\ i < n
    <3>1. stack'[i] = stack[i] /\ n \in 1 .. n
      BY <1>1, <1>2, <2>2
    <3>2. stack[i].plugin = Top.plugin => stack[i].at = "refused"
      BY <1>1, <1>8, <2>2, <3>1
    <3>3. QED
      BY <1>4, <1>8, <2>2, <3>1, <3>2
  <2>3. QED
    BY <1>6, <2>1, <2>2
<1>10. \A i, j \in 1 .. n : i < j /\ stack'[i].plugin = stack'[j].plugin => stack'[i].at = "refused"
  <2> SUFFICES ASSUME NEW i \in 1 .. n, NEW j \in 1 .. n, i < j,
                      stack'[i].plugin = stack'[j].plugin
               PROVE  stack'[i].at = "refused"
    OBVIOUS
  <2>1. i \in 1 .. n - 1
    BY <1>1
  <2>2. QED
    BY <1>2, <1>8, <2>1
<1>11. LoadFrames'
  BY <1>2, <1>3, <1>4, <1>5, <1>9, <1>10 DEF LoadFrames, Sound
<1>12. QED
  BY <1>7, <1>11

LEMMA ReturnFrames ==
    ASSUME Sound, Working, op.stage \in Loading, stack # <<>>,
           Top.at \in {"on_load", "on_ready"}, Return,
           plugins \subseteq plugins', plugins' \ plugins \subseteq {Top.plugin}
    PROVE  Frames' /\ LoadFrames' /\ (stack' # <<>> => Len(stack) > 1 /\ stack' = Front(stack)
                                                        /\ op' = op /\ Top'.at = "deps")
<1> DEFINE n == Len(stack)
<1>1. /\ stack \in Seq(FrameSet) /\ n \in Nat /\ n > 0 /\ DOMAIN stack = 1 .. n
      /\ Top = stack[n] /\ op.work # <<>> /\ stack[1].plugin = Head(op.work)
  BY WhereWorking
<1>2. CASE n = 1
  <2>1. stack' = <<>>
    BY <1>2 DEF Return, Done
  <2>2. QED
    BY <2>1, EmptyFrames
<1>3. CASE n # 1
  <2>1. n > 1 /\ stack' = Front(stack) /\ op' = op
    BY <1>1, <1>3 DEF Return
  <2>2. /\ stack' \in Seq(FrameSet) /\ stack' # <<>> /\ Len(stack') = n - 1
        /\ \A i \in 1 .. n - 1 : stack'[i] = stack[i]
        /\ Top' = stack[n - 1] /\ DOMAIN stack' = 1 .. n - 1
    <3>1. /\ stack' \in Seq(FrameSet) /\ stack' # <<>> /\ Len(stack') = n - 1
          /\ \A i \in 1 .. n - 1 : stack'[i] = stack[i]
          /\ Top' = stack[n - 1]
      BY <1>1, <2>1, FrontFacts
    <3> HIDE DEF n
    <3>2. QED
      BY <3>1
  <2> HIDE DEF n
  <2>3. ~On({"on_unload", "tasks"})
    BY DEF On
  <2>4. /\ \A i \in 1 .. n :
              /\ stack[i].at \in {"import", "deps", "on_load", "cleanup"}
                    => stack[i].plugin \notin plugins
              /\ stack[i].at \in {"on_ready", "refused", "on_unload", "tasks"}
                    => stack[i].plugin \in plugins
              /\ i < n => stack[i].at = "deps"
        /\ \A i, j \in 1 .. n :
              i < j /\ stack[i].plugin = stack[j].plugin => stack[i].at = "refused"
    BY <1>1, <2>3 DEF Sound, LoadFrames, n
  <2>5. \A i \in 1 .. n - 1 : i \in 1 .. n /\ i < n /\ n \in 1 .. n
    BY <1>1
  <2>6. \A i \in 1 .. n - 1 : /\ stack'[i] = stack[i] /\ stack'[i].at = "deps"
                              /\ stack'[i].plugin \notin plugins'
    <3> SUFFICES ASSUME NEW i \in 1 .. n - 1
                 PROVE  /\ stack'[i] = stack[i] /\ stack'[i].at = "deps"
                        /\ stack'[i].plugin \notin plugins'
      OBVIOUS
    <3>1. stack'[i] = stack[i] /\ stack[i].at = "deps" /\ stack[i].plugin \notin plugins
      BY <2>2, <2>4, <2>5
    <3>2. stack[i].plugin # Top.plugin
      BY <1>1, <2>4, <2>5, <3>1
    <3>3. QED
      BY <3>1, <3>2
  <2>7. Top' = stack'[n - 1] /\ n - 1 \in 1 .. n - 1 /\ 1 \in 1 .. n - 1
    BY <1>1, <2>1, <2>2
  <2>8. Top'.at = "deps" /\ ~On({"on_unload", "tasks"})'
    BY <2>6, <2>7 DEF On
  <2>9. stack'[1].plugin = stack[1].plugin
    BY <2>2, <2>7
  <2>10. op.stage \notin Unloading \cup Hooking \cup {"restart", "none", "refused"}
    BY DEF Loading, Unloading, Hooking
  <2>11. Frames'
    BY <1>1, <2>1, <2>2, <2>8, <2>9, <2>10 DEF Frames
  <2>12. \A i, j \in 1 .. n - 1 :
            i < j /\ stack'[i].plugin = stack'[j].plugin => stack'[i].at = "refused"
    BY <2>2, <2>4, <2>5
  <2>13. LoadFrames'
    BY <2>2, <2>6, <2>8, <2>12 DEF LoadFrames
  <2>14. QED
    BY <2>1, <2>8, <2>11, <2>13 DEF n
<1>4. QED
  BY <1>2, <1>3

LEMMA RefusedFrames ==
    ASSUME Sound, OnReadyFails
    PROVE  /\ Frames' /\ LoadFrames' /\ stack' # <<>> /\ Top' = Frame(Top.plugin, "on_unload")
           /\ Len(stack') = Len(stack) + 1 /\ op.stage \in Loading
<1> DEFINE n == Len(stack)
           s == [stack EXCEPT ![n].at = "refused"]
           f == Frame(Top.plugin, "on_unload")
<1>1. Working /\ stack # <<>> /\ Top.at = "on_ready" /\ stack' = Append(s, f)
      /\ UNCHANGED <<plugins, op>>
  BY DEF OnReadyFails, At
<1>2. /\ stack \in Seq(FrameSet) /\ n \in Nat /\ n > 0 /\ DOMAIN stack = 1 .. n
      /\ Top = stack[n] /\ op.work # <<>> /\ stack[1].plugin = Head(op.work)
      /\ op.stage \in Loading /\ Top.plugin \in Plugins
  BY <1>1, WhereWorking
<1>3. f \in FrameSet /\ f.plugin = Top.plugin /\ f.at = "on_unload"
  BY <1>2 DEF Frame, FrameSet, Places, InHook
<1>4. /\ s \in Seq(FrameSet) /\ Len(s) = n /\ s[n].at = "refused" /\ s[n].plugin = Top.plugin
      /\ \A i \in 1 .. n : s[i] = IF i = n THEN [stack[n] EXCEPT !.at = "refused"] ELSE stack[i]
  <2> DEFINE g == [stack[n] EXCEPT !.at = "refused"]
  <2>1. n \in 1 .. Len(stack) /\ stack[n] \in FrameSet
    BY <1>2
  <2>2. g \in FrameSet /\ g.at = "refused" /\ g.plugin = stack[n].plugin
    BY <2>1 DEF FrameSet, Places
  <2>3. s = [stack EXCEPT ![n] = g]
    OBVIOUS
  <2> HIDE DEF n, g, s
  <2>4. s \in Seq(FrameSet) /\ Len(s) = n
        /\ \A i \in 1 .. n : s[i] = IF i = n THEN g ELSE stack[i]
    BY <1>2, <2>1, <2>2, <2>3, ExceptSeq DEF n
  <2>5. n \in 1 .. n
    BY <1>2
  <2>6. QED
    BY <1>2, <2>2, <2>4, <2>5 DEF g
<1> HIDE DEF n, s, f
<1>5. /\ stack' \in Seq(FrameSet) /\ Len(stack') = n + 1 /\ DOMAIN stack' = 1 .. n + 1
      /\ \A i \in 1 .. n : stack'[i] = s[i]
      /\ stack'[n + 1] = f
  BY <1>1, <1>2, <1>3, <1>4
<1>6. stack' # <<>>
  <2>1. Len(stack') > 0
    BY <1>2, <1>5
  <2>2. QED
    BY <2>1
<1>7. Top' = f /\ On({"on_unload", "tasks"})'
  BY <1>2, <1>3, <1>5, <1>6 DEF Top, Last, On
<1>8. \A i \in 1 .. n : /\ i = n => stack'[i].at = "refused"
                        /\ i # n => stack'[i] = stack[i]
                        /\ stack'[i].plugin = stack[i].plugin
  BY <1>2, <1>4, <1>5
<1>9. /\ \A i \in 1 .. n :
            /\ stack[i].at \in {"import", "deps", "on_load", "cleanup"}
                  => stack[i].plugin \notin plugins
            /\ stack[i].at \in {"on_ready", "refused", "on_unload", "tasks"}
                  => stack[i].plugin \in plugins
            /\ i < n => stack[i].at = "deps"
      /\ \A i, j \in 1 .. n :
            i < j /\ stack[i].plugin = stack[j].plugin => stack[i].at = "refused"
  <2>1. ~On({"on_unload", "tasks"})
    BY <1>1 DEF On
  <2>2. QED
    BY <1>2, <2>1 DEF Sound, LoadFrames, n
<1>10. \A i \in 1 .. n + 1 : i = n + 1 \/ i = n \/ (i \in 1 .. n /\ i < n)
  BY <1>2
<1>11. n \in 1 .. n /\ stack[n].plugin \in plugins
  BY <1>1, <1>2, <1>9
<1>12. \A i \in 1 .. n + 1 :
            /\ stack'[i].at \in {"import", "deps", "on_load", "cleanup"} => stack'[i].plugin \notin plugins'
            /\ stack'[i].at \in {"on_ready", "refused", "on_unload", "tasks"} => stack'[i].plugin \in plugins'
            /\ i < n + 1 => stack'[i].at = "deps" \/ stack'[i].at = "refused"
  <2> SUFFICES ASSUME NEW i \in 1 .. n + 1
               PROVE  /\ stack'[i].at \in {"import", "deps", "on_load", "cleanup"}
                            => stack'[i].plugin \notin plugins'
                      /\ stack'[i].at \in {"on_ready", "refused", "on_unload", "tasks"}
                            => stack'[i].plugin \in plugins'
                      /\ i < n + 1 => stack'[i].at = "deps" \/ stack'[i].at = "refused"
    OBVIOUS
  <2>1. CASE i = n + 1
    BY <1>1, <1>2, <1>3, <1>5, <1>11, <2>1
  <2>2. CASE i = n
    BY <1>1, <1>8, <1>11, <2>2
  <2>3. CASE i \in 1 .. n /\ i < n
    BY <1>1, <1>2, <1>8, <1>9, <2>3
  <2>4. QED
    BY <1>10, <2>1, <2>2, <2>3
<1>13. \A i, j \in 1 .. n + 1 : i < j /\ stack'[i].plugin = stack'[j].plugin => stack'[i].at = "refused"
  <2> SUFFICES ASSUME NEW i \in 1 .. n + 1, NEW j \in 1 .. n + 1, i < j,
                      stack'[i].plugin = stack'[j].plugin
               PROVE  stack'[i].at = "refused"
    OBVIOUS
  <2>1. CASE i = n
    BY <1>8, <1>11, <2>1
  <2>2. CASE i \in 1 .. n /\ i < n
    <3>1. PICK k \in 1 .. n : i < k /\ stack'[j].plugin = stack[k].plugin
      <4>1. CASE j \in 1 .. n
        BY <1>8, <4>1
      <4>2. CASE j = n + 1
        BY <1>2, <1>3, <1>5, <1>11, <2>2, <4>2
      <4>3. QED
        BY <1>10, <1>11, <4>1, <4>2
    <3>2. QED
      BY <1>2, <1>8, <1>9, <2>2, <3>1
  <2>3. QED
    BY <1>2, <1>10, <2>1, <2>2
<1>14. LoadFrames'
  BY <1>1, <1>2, <1>5, <1>7, <1>12, <1>13 DEF LoadFrames
<1>15. Frames'
  <2>1. stack'[1].plugin = stack[1].plugin
    BY <1>2, <1>8
  <2>2. op.stage \notin Unloading \cup Hooking \cup {"restart", "none", "refused"}
    BY <1>2 DEF Loading, Unloading, Hooking
  <2>3. QED
    BY <1>1, <1>2, <1>3, <1>6, <1>7, <2>1, <2>2 DEF Frames
<1>16. QED
  BY <1>2, <1>5, <1>6, <1>7, <1>14, <1>15 DEF n, f

LEMMA LoadStepFrames == Sound /\ LoadStep => Frames' /\ LoadFrames'
<1> SUFFICES ASSUME Sound, LoadStep PROVE Frames' /\ LoadFrames'
  OBVIOUS
<1>1. plugins \subseteq Plugins /\ ManagerType
  BY TypesInParts DEF Sound, Control, ManagerType
<1>2. SkipLoad \/ ImportFails \/ CleanedUp => stack' = <<>>
  BY DEF SkipLoad, ImportFails, CleanedUp, Raise, Done, Between
<1>3. ASSUME BeginLoad PROVE Frames' /\ LoadFrames'
  <2>1. Head(op.work) \in Plugins
    BY <1>1, <1>3, TailFacts DEF BeginLoad, Between, ManagerType, Operations
  <2>2. QED
    BY <1>3, <2>1, PushFrames DEF BeginLoad, Between, manager
<1>4. ASSUME ImportDone PROVE Frames' /\ LoadFrames'
  <2>1. Working /\ stack # <<>> /\ Top.at = "import" /\ op.stage \in Loading
    BY <1>4, WhereWorking DEF ImportDone, At
  <2>2. Top.plugin \notin plugins
    BY <2>1, WhereWorking DEF Sound, LoadFrames
  <2>3. GoTo("deps") /\ UNCHANGED <<op, plugins>>
    BY <1>4 DEF ImportDone, manager
  <2>4. QED
    BY <2>1, <2>2, <2>3, GoToFrames
<1>5. ASSUME LoadDependency PROVE Frames' /\ LoadFrames'
  <2>1. Working /\ stack # <<>> /\ Top.at = "deps" /\ op.stage \in Loading /\ op.work # <<>>
        /\ Top.plugin \in Plugins /\ UNCHANGED plugins
    BY <1>5, WhereWorking DEF LoadDependency, At
  <2>2. PICK d \in Requires[Top.plugin] \ plugins :
            IF d \in OnStack THEN Raise ELSE Push(Frame(d, "import")) /\ UNCHANGED <<failed, op>>
    BY <1>5 DEF LoadDependency
  <2>3. d \in Plugins
    BY <2>1, PluginsAssumption
  <2>4. CASE d \in OnStack
    BY <2>2, <2>4, EmptyFrames DEF Raise, Done
  <2>5. CASE d \notin OnStack
    BY <2>1, <2>2, <2>3, <2>5, PushFrames
  <2>6. QED
    BY <2>4, <2>5
<1>6. ASSUME OnLoad \/ OnLoadFails PROVE Frames' /\ LoadFrames'
  <2>1. Working /\ stack # <<>> /\ Top.at \in {"deps", "on_load"} /\ op.stage \in Loading
    BY <1>6, WhereWorking DEF OnLoad, OnLoadFails, At
  <2>2. Top.plugin \notin plugins
    BY <2>1, WhereWorking DEF Sound, LoadFrames
  <2>3. (GoTo("on_load") \/ GoTo("cleanup")) /\ UNCHANGED <<op, plugins>>
    BY <1>6 DEF OnLoad, OnLoadFails
  <2>4. QED
    BY <2>1, <2>2, <2>3, GoToFrames
<1>7. ASSUME Loaded PROVE Frames' /\ LoadFrames'
  <2>1. Working /\ stack # <<>> /\ Top.at = "on_load" /\ op.stage \in Loading
        /\ plugins' = plugins \cup {Top.plugin}
    BY <1>7, WhereWorking DEF Loaded, At
  <2>2. CASE ready
    <3>1. GoTo("on_ready") /\ UNCHANGED op
      BY <1>7, <2>2 DEF Loaded
    <3>2. QED
      BY <2>1, <3>1, GoToFrames
  <2>3. CASE ~ready
    <3>1. Return
      BY <1>7, <2>3 DEF Loaded
    <3>2. QED
      BY <2>1, <3>1, ReturnFrames
  <2>4. QED
    BY <2>2, <2>3
<1>8. ASSUME OnReady PROVE Frames' /\ LoadFrames'
  <2>1. Working /\ stack # <<>> /\ Top.at = "on_ready" /\ op.stage \in Loading
        /\ plugins' = plugins /\ Return
    BY <1>8, WhereWorking DEF OnReady, At
  <2>2. QED
    BY <2>1, ReturnFrames
<1>9. QED
  BY <1>2, <1>3, <1>4, <1>5, <1>6, <1>7, <1>8, EmptyFrames, RefusedFrames DEF LoadStep

\* outside of load() the stack has one frame, for the head of the work
LEMMA SingleFrame ==
    ASSUME Sound, Working, op.stage \notin Loading, op.work # <<>>, UNCHANGED op,
           stack' # <<>>, Len(stack') = 1, Top'.plugin = Head(op.work),
           op.stage \in Unloading => Top'.at \in {"on_unload", "tasks"} /\ Top'.plugin \in plugins',
           op.stage \in Hooking => Top'.at = op.stage,
           op.stage = "restart" => Top'.at \in {"stop", "restart"} /\ Top'.plugin \in plugins',
           op.stage \in Unloading \cup Hooking \cup {"restart"}
    PROVE  Frames' /\ LoadFrames'
<1>1. stack'[1] = Top'
  BY DEF Top, Last
<1>2. op.stage \notin {"none", "refused"}
  BY DEF Unloading, Hooking
<1>3. QED
  BY <1>1, <1>2 DEF Frames, LoadFrames

\* the frame that is pushed on an empty stack
LEMMA FirstFrame ==
    ASSUME stack \in Seq(FrameSet), stack = <<>>, NEW f \in FrameSet, Push(f)
    PROVE  stack' # <<>> /\ Len(stack') = 1 /\ Top' = f
BY PushFacts

LEMMA UnloadStepFrames == Sound /\ UnloadStep => Frames' /\ LoadFrames'
<1> SUFFICES ASSUME Sound, UnloadStep PROVE Frames' /\ LoadFrames'
  OBVIOUS
<1>1. ManagerType
  BY TypesInParts DEF Sound, Control
<1>2. ASSUME BeginUnload PROVE Frames' /\ LoadFrames'
  <2> DEFINE p == Head(op.work)
             f == Frame(p, "on_unload")
  <2>1. Working /\ stack = <<>> /\ op.work # <<>> /\ op.stage \in Unloading /\ UNCHANGED plugins
    BY <1>2 DEF BeginUnload, Between, manager
  <2>2. CASE MayUnload(p)
    <3>1. Push(f) /\ UNCHANGED op /\ p \in plugins
      BY <1>2, <2>2 DEF BeginUnload, MayUnload
    <3>2. f \in FrameSet /\ f.plugin = p /\ f.at = "on_unload"
      BY <1>1, <3>1 DEF Frame, FrameSet, Places, InHook, ManagerType
    <3> HIDE DEF f
    <3>3. stack' # <<>> /\ Len(stack') = 1 /\ Top' = f
      BY <1>1, <2>1, <3>1, <3>2, FirstFrame DEF ManagerType
    <3>4. op.stage \notin Loading \cup Hooking \cup {"restart"}
      BY <2>1 DEF Loading, Unloading, Hooking
    <3>5. QED
      BY <2>1, <3>1, <3>2, <3>3, <3>4, SingleFrame
  <2>3. CASE ~MayUnload(p)
    BY <1>2, <2>3, EmptyFrames DEF BeginUnload, Done
  <2>4. QED
    BY <2>2, <2>3
<1>3. ASSUME OnUnload PROVE Frames' /\ LoadFrames'
  <2>1. /\ Working /\ stack # <<>> /\ Top.at = "on_unload" /\ GoTo("tasks")
        /\ UNCHANGED <<op, plugins>>
    BY <1>3 DEF OnUnload, At, manager
  <2>2. /\ op.stage \in Loading \cup Unloading /\ op.work # <<>>
        /\ op.stage \notin Hooking \cup {"restart"}
        /\ stack[1].plugin = Head(op.work) /\ Top = stack[Len(stack)]
    BY <2>1, WhereWorking DEF Loading, Unloading, Hooking
  <2>3. CASE op.stage \in Loading
    <3>1. Top.plugin \in plugins
      BY <2>1, <2>3, WhereWorking DEF Sound, LoadFrames
    <3>2. QED
      BY <2>1, <2>3, <3>1, GoToFrames
  <2>4. CASE op.stage \in Unloading /\ op.stage \notin Loading
    <3>1. Len(stack) = 1 /\ Top.plugin \in plugins /\ Top.plugin = Head(op.work)
      BY <2>1, <2>2, <2>4 DEF Sound, Frames
    <3>2. stack' # <<>> /\ Len(stack') = 1 /\ Top'.plugin = Top.plugin /\ Top'.at = "tasks"
      BY <1>1, <2>1, <3>1, GoToFacts DEF ManagerType, Places
    <3>3. QED
      BY <2>1, <2>2, <2>4, <3>1, <3>2, SingleFrame
  <2>5. QED
    BY <2>2, <2>3, <2>4
<1>4. ASSUME UnloadFails \/ Unloaded PROVE Frames' /\ LoadFrames'
  <2>1. stack' = <<>>
    BY <1>4 DEF UnloadFails, Unloaded, UnloadReturns, Done
  <2>2. QED
    BY <2>1, EmptyFrames
<1>5. QED
  BY <1>2, <1>3, <1>4 DEF UnloadStep

LEMMA HookStepFrames == Sound /\ HookStep => Frames' /\ LoadFrames'
<1> SUFFICES ASSUME Sound, HookStep PROVE Frames' /\ LoadFrames'
  OBVIOUS
<1>1. ManagerType /\ {"ready", "session", "stop", "restart"} \subseteq Places
  BY TypesInParts DEF Sound, Control, Places, InHook
<1>2. ASSUME BeginHook \/ BeginRestart PROVE Frames' /\ LoadFrames'
  <2> DEFINE p == Head(op.work)
             at == IF BeginHook THEN op.stage ELSE "stop"
             f == Frame(p, at)
  <2>1. /\ Working /\ stack = <<>> /\ op.work # <<>> /\ UNCHANGED plugins
        /\ BeginHook => op.stage \in Hooking
        /\ ~BeginHook => op.stage = "restart"
    BY <1>2 DEF BeginHook, BeginRestart, Between, manager
  <2>2. p \in Plugins /\ at \in Places /\ (BeginHook => at \in {"ready", "session"})
    BY <1>1, <2>1, TailFacts DEF ManagerType, Operations, Hooking
  <2>3. CASE Push(f) /\ UNCHANGED op /\ (~BeginHook => p \in plugins)
    <3>1. f \in FrameSet /\ f.plugin = p /\ f.at = at
      BY <2>2 DEF Frame, FrameSet
    <3> HIDE DEF f
    <3>2. stack' # <<>> /\ Len(stack') = 1 /\ Top' = f
      BY <1>1, <2>1, <2>3, <3>1, FirstFrame DEF ManagerType
    <3>3. op.stage \notin Loading \cup Unloading
      BY <2>1 DEF Loading, Unloading, Hooking
    <3>4. op.stage = "restart" => ~BeginHook
      BY <2>1 DEF Hooking
    <3>5. /\ op.stage \in Hooking => at = op.stage
          /\ op.stage = "restart" => at = "stop" /\ p \in plugins
      BY <2>1, <2>3, <3>4 DEF Hooking
    <3>6. op.stage \in Hooking \cup {"restart"}
      BY <2>1
    <3> HIDE DEF at, p
    <3>7. QED
      BY <2>1, <2>3, <3>1, <3>2, <3>3, <3>5, <3>6, SingleFrame DEF p
  <2>4. CASE stack' = <<>>
    BY <2>4, EmptyFrames
  <2>5. QED
    BY <1>2, <2>3, <2>4 DEF BeginHook, BeginRestart, Done
<1>3. ASSUME WorkersStopped PROVE Frames' /\ LoadFrames'
  <2>1. /\ Working /\ stack # <<>> /\ Top.at = "stop" /\ UNCHANGED plugins
        /\ stack' = <<>> \/ (GoTo("restart") /\ UNCHANGED op)
    BY <1>3 DEF WorkersStopped, At, Done
  <2>2. CASE stack' = <<>>
    BY <2>2, EmptyFrames
  <2>3. CASE GoTo("restart") /\ UNCHANGED op
    <3>1. /\ op.stage = "restart" /\ op.work # <<>> /\ stack[1].plugin = Head(op.work)
          /\ Top = stack[Len(stack)]
      BY <2>1, WhereWorking
    <3>2. Len(stack) = 1 /\ Top.plugin \in plugins /\ Top.plugin = Head(op.work)
      BY <2>1, <3>1 DEF Sound, Frames
    <3>3. stack' # <<>> /\ Len(stack') = 1 /\ Top'.plugin = Top.plugin /\ Top'.at = "restart"
      BY <1>1, <2>1, <2>3, <3>2, GoToFacts DEF ManagerType
    <3>4. op.stage \notin Loading \cup Unloading \cup Hooking
      BY <3>1 DEF Loading, Unloading, Hooking
    <3>5. QED
      BY <2>1, <2>3, <3>1, <3>2, <3>3, <3>4, SingleFrame
  <2>4. QED
    BY <2>1, <2>2, <2>3
<1>4. ReadyHook \/ SessionHook \/ HookFails \/ Restarted => stack' = <<>>
  BY DEF ReadyHook, SessionHook, HookFails, Restarted, Done
<1>5. QED
  BY <1>2, <1>3, <1>4, EmptyFrames DEF HookStep

LEMMA UnchangedFrames ==
    ASSUME Frames, LoadFrames, UNCHANGED <<op, stack, plugins>>
    PROVE  Frames' /\ LoadFrames'
BY DEF Frames, LoadFrames, On, Top


\* the steps of the others, and of an owner that enters a stage or leaves
OtherStep ==
    \/ BootCalls \/ \E c \in Admins, r \in PluginCommands \cup AllCommands : AdminCalls(c, r)
    \/ Reject \/ Acquire \/ Advance \/ Hang \/ SwallowCancellation \/ BeginShutdown \/ ShutdownStep

LEMMA OtherSteps ==
    ASSUME Control, OtherStep
    PROVE  UNCHANGED manager /\ UNCHANGED forced /\ (stack' = <<>> \/ UNCHANGED <<op, stack>>)
<1>1. CASE \E c \in Admins, r \in PluginCommands \cup AllCommands : AdminCalls(c, r)
  BY <1>1 DEF AdminCalls, Call, running, history
<1>2. CASE BootCalls
  BY <1>2 DEF BootCalls, Call, running, history
<1>3. CASE Acquire \/ Advance
  BY <1>3 DEF Acquire, Advance, Finish, Control, TypeOK, history
<1>4. CASE Reject \/ Hang \/ SwallowCancellation \/ BeginShutdown
  BY <1>4 DEF Reject, Hang, SwallowCancellation, BeginShutdown, running, history
<1>5. CASE ShutdownStep
  BY <1>5 DEF ShutdownStep, TakeCancellation, UnloadTimeout, Unwind, TargetEnds, GraceTimeout,
              CancelTimeout, CallUnloadAll, Call, running, history
<1>6. QED
  BY <1>1, <1>2, <1>3, <1>4, <1>5 DEF OtherStep

LEMMA SoundStep == Sound /\ [Next]_vars => Sound'
<1> SUFFICES ASSUME Sound, [Next]_vars PROVE Sound'
  OBVIOUS
<1>1. Control'
  BY ControlStep, ControlStutter DEF Sound
<1>2. ASSUME UNCHANGED <<op, stack, plugins>> PROVE Frames' /\ LoadFrames'
  BY <1>2, UnchangedFrames DEF Sound
<1>3. CASE UNCHANGED vars
  BY <1>1, <1>2, <1>3 DEF Sound, vars, running, manager
<1>4. CASE LoadStep \/ UnloadStep \/ HookStep
  BY <1>1, <1>4, LoadStepFrames, UnloadStepFrames, HookStepFrames DEF Sound
<1>5. CASE OtherStep
  BY <1>1, <1>2, <1>5, OtherSteps, EmptyFrames DEF Sound, manager
<1>6. QED
  BY <1>3, <1>4, <1>5 DEF Next, OtherStep

-----------------------------------------------------------------------------
(* Dependencies *)

Chained == Ordered /\ DependenciesLoaded
MassUnload == {"dependents", "down", "all down"}

\* the dependents of a plugin include those that require it, and theirs
LEMMA DependentsAreClosed ==
    ASSUME NEW p, NEW q \in plugins
    PROVE  /\ p \in Requires[q] => q \in DependentsOf(p)
           /\ \A d \in DependentsOf(p) : d \in Requires[q] => q \in DependentsOf(p)
BY DEF DependentsOf

LEMMA NoDependents == ASSUME NEW p, DependentsOf(p) = {} PROVE Unneeded(p)
BY DependentsAreClosed DEF Unneeded

\* an order of a set that contains what requires its members, backwards
LEMMA BackwardsIsSafe ==
    ASSUME plugins \subseteq Plugins, NEW S \in SUBSET plugins, NEW o \in DependencyOrders(S),
           \A d \in S, q \in plugins : d \in Requires[q] => q \in S
    PROVE  \A q \in plugins, i \in DOMAIN Reverse(o) :
                Reverse(o)[i] \in Requires[q] => \E j \in 1 .. i - 1 : Reverse(o)[j] = q
<1> DEFINE n == Len(o)
           r == Reverse(o)
<1>1. o \in Seq(Plugins) /\ ToSet(o) = S /\ Sorted(o)
  BY OrdersCover DEF DependencyOrders
<1>2. /\ r \in Seq(Plugins) /\ Len(r) = n /\ ToSet(r) = S
      /\ \A i \in 1 .. n : r[i] = o[n - i + 1]
  BY <1>1, ReverseFacts
<1>3. n \in Nat /\ DOMAIN o = 1 .. n /\ DOMAIN r = 1 .. n
  BY <1>1, <1>2
<1> HIDE DEF n, r
<1> SUFFICES ASSUME NEW q \in plugins, NEW i \in 1 .. n, r[i] \in Requires[q]
             PROVE  \E j \in 1 .. i - 1 : r[j] = q
  BY <1>3 DEF r
<1>4. q \in S
  BY <1>2, <1>3 DEF ToSet
<1>5. PICK j \in 1 .. n : r[j] = q
  BY <1>2, <1>3, <1>4 DEF ToSet
<1>6. n - i + 1 \in 1 .. n /\ n - j + 1 \in 1 .. n
  BY <1>3
<1>7. o[n - i + 1] \in Requires[o[n - j + 1]]
  BY <1>2, <1>5
<1>8. n - i + 1 < n - j + 1
  BY <1>1, <1>3, <1>6, <1>7 DEF Sorted
<1>9. j \in 1 .. i - 1
  BY <1>3, <1>8
<1>10. QED
  BY <1>5, <1>9

\* leaving out a plugin that nothing loaded requires
LEMMA UnneededLeaves ==
    ASSUME Complete, NEW p, plugins' = plugins \ {p}, \A q \in plugins \ {p} : p \notin Requires[q]
    PROVE  Complete'
BY DEF Complete

LEMMA LoadStepChained == Sound /\ Chained /\ LoadStep => Chained'
<1> SUFFICES ASSUME Sound, Chained, LoadStep PROVE Chained'
  OBVIOUS
<1>1. ManagerType /\ TypeOK /\ Frames /\ LoadFrames
  BY TypesInParts DEF Sound, Control
<1>2. SameOperation
  BY <1>1, LoadStepEffect DEF WorkEffect
<1>3. Working /\ forced' = forced
  BY DEF LoadStep, SkipLoad, BeginLoad, ImportFails, ImportDone, LoadDependency, OnLoad, Loaded,
         OnLoadFails, CleanedUp, OnReady, OnReadyFails, Between, At, history
<1>4. op.stage \in Loading /\ op'.stage = op.stage
  <2>1. CASE SkipLoad \/ BeginLoad
    BY <1>2, <2>1 DEF SkipLoad, BeginLoad, SameOperation
  <2>2. CASE ~(SkipLoad \/ BeginLoad)
    <3>1. stack # <<>> /\ Top.at \in {"import", "deps", "on_load", "cleanup", "on_ready"}
      BY <2>2 DEF LoadStep, ImportFails, ImportDone, LoadDependency, OnLoad, Loaded,
                  OnLoadFails, CleanedUp, OnReady, OnReadyFails, At
    <3>2. QED
      BY <1>2, <1>3, <3>1, WhereWorking DEF SameOperation
  <2>3. QED
    BY <2>1, <2>2
<1>5. op'.stage \notin MassUnload \cup {"target", "unload"}
  BY <1>4 DEF Loading, MassUnload
<1>6. SUFFICES /\ On({"on_load"})' => Requires[Top'.plugin] \subseteq plugins'
               /\ On({"on_ready", "on_unload", "tasks"})' /\ ~forced =>
                    \A q \in plugins' : Top'.plugin \notin Requires[q]
               /\ forced \/ Complete'
  BY <1>3, <1>5 DEF Chained, Ordered, DependenciesLoaded, Unneeded, MassUnload
<1>7. plugins' = plugins => forced \/ Complete'
  BY DEF Chained, DependenciesLoaded, Complete
<1>8. CASE SkipLoad \/ ImportFails \/ CleanedUp
  <2>1. stack' = <<>> /\ plugins' = plugins
    BY <1>8 DEF SkipLoad, ImportFails, CleanedUp, Raise, Done, Between, manager
  <2>2. QED
    BY <1>7, <2>1 DEF On
<1>9. CASE BeginLoad \/ LoadDependency
  <2>1. plugins' = plugins
    BY <1>9 DEF BeginLoad, LoadDependency, manager
  <2>2. stack' = <<>> \/ Top'.at = "import"
    <3>1. CASE BeginLoad
      <4>1. Frame(Head(op.work), "import") \in FrameSet
        BY <1>1, <3>1, TailFacts
        DEF BeginLoad, Between, ManagerType, Operations, Frame, FrameSet, Places
      <4>2. QED
        BY <1>1, <3>1, <4>1, PushFacts DEF BeginLoad, ManagerType, Frame
    <3>2. CASE LoadDependency
      <4>1. PICK d \in Requires[Top.plugin] \ plugins : Raise \/ Push(Frame(d, "import"))
        BY <3>2 DEF LoadDependency
      <4>2. d \in Plugins
        BY <1>3, <3>2, WhereWorking, PluginsAssumption DEF LoadDependency, At
      <4>3. Frame(d, "import") \in FrameSet /\ Frame(d, "import").at = "import"
        BY <4>2 DEF Frame, FrameSet, Places
      <4>4. QED
        BY <1>1, <4>1, <4>3, PushFacts DEF Raise, Done, ManagerType
    <3>3. QED
      BY <1>9, <3>1, <3>2
  <2>3. QED
    BY <1>7, <2>1, <2>2 DEF On
<1>10. CASE ImportDone \/ OnLoadFails
  <2>1. plugins' = plugins /\ stack # <<>> /\ (GoTo("deps") \/ GoTo("cleanup"))
    BY <1>10 DEF ImportDone, OnLoadFails, manager, At
  <2>2. Top'.at \in {"deps", "cleanup"}
    BY <1>1, <2>1, GoToFacts DEF ManagerType, Places, InHook
  <2>3. QED
    BY <1>7, <2>1, <2>2 DEF On
<1>11. CASE OnLoad
  <2>1. plugins' = plugins /\ stack # <<>> /\ GoTo("on_load") /\ Requires[Top.plugin] \subseteq plugins
    BY <1>11 DEF OnLoad, At
  <2>2. Top'.at = "on_load" /\ Top'.plugin = Top.plugin
    BY <1>1, <2>1, GoToFacts DEF ManagerType, Places, InHook
  <2>3. QED
    BY <1>7, <2>1, <2>2 DEF On
<1>12. CASE Loaded
  <2> DEFINE p == Top.plugin
  <2>1. /\ stack # <<>> /\ Top.at = "on_load" /\ plugins' = plugins \cup {p}
        /\ IF ready THEN GoTo("on_ready") /\ UNCHANGED op ELSE Return
    BY <1>12 DEF Loaded, At
  <2>2. p \notin plugins /\ p \in Plugins
    BY <1>3, <1>4, <2>1, WhereWorking DEF Sound, LoadFrames
  <2>3. Requires[p] \subseteq plugins
    BY <2>1 DEF Chained, Ordered, On
  <2>4. forced \/ Complete
    BY DEF Chained, DependenciesLoaded
  <2>5. ~forced => Complete' /\ \A q \in plugins' : p \notin Requires[q]
    BY <2>1, <2>2, <2>3, <2>4 DEF Complete
  <2>6. CASE ready
    <3>1. Top'.at = "on_ready" /\ Top'.plugin = p
      BY <1>1, <2>1, <2>6, GoToFacts DEF ManagerType, Places, InHook
    <3>2. QED
      BY <2>5, <3>1 DEF On
  <2>7. CASE ~ready
    <3>1. Return
      BY <2>1, <2>7
    <3>2. stack' # <<>> => Top'.at = "deps"
      BY <1>3, <1>4, <2>1, <3>1, ReturnFrames
    <3>3. QED
      BY <2>5, <3>2 DEF On
  <2>8. QED
    BY <2>6, <2>7
<1>13. CASE OnReady
  <2>1. stack # <<>> /\ Top.at = "on_ready" /\ plugins' = plugins /\ Return
    BY <1>13 DEF OnReady, At
  <2>2. stack' # <<>> => Top'.at = "deps"
    BY <1>3, <1>4, <2>1, ReturnFrames
  <2>3. QED
    BY <1>7, <2>1, <2>2 DEF On
<1>14. CASE OnReadyFails
  <2>1. plugins' = plugins /\ stack # <<>> /\ Top.at = "on_ready"
    BY <1>14 DEF OnReadyFails, At
  <2>2. Top'.plugin = Top.plugin /\ Top'.at = "on_unload"
    BY <1>14, RefusedFrames DEF Frame
  <2>3. ~forced => Unneeded(Top.plugin)
    BY <1>4, <2>1 DEF Chained, Ordered, On
  <2>4. QED
    BY <1>7, <2>1, <2>2, <2>3 DEF On, Unneeded
<1>15. QED
  BY <1>8, <1>9, <1>10, <1>11, <1>12, <1>13, <1>14 DEF LoadStep

\* the plugin that unload() takes out is required by none that stays, unless
\* the history is about to say so
LEMMA TakenOutUnneeded ==
    ASSUME Sound, Chained, Unloaded, ~forced'
    PROVE  \A q \in plugins \ {Top.plugin} : Top.plugin \notin Requires[q]
<1> DEFINE p == Top.plugin
<1>1. /\ Working /\ stack # <<>> /\ Top.at = "tasks"
      /\ forced' = (forced \/ (((op.stage = "unload" /\ op.flag) \/ op.errors # {})
                               /\ \E q \in plugins \ {p} : p \in Requires[q]))
  BY DEF Unloaded, At
<1>2. ~forced
  BY <1>1
<1>3. CASE (op.stage = "unload" /\ op.flag) \/ op.errors # {}
  BY <1>1, <1>3
<1>4. CASE op.errors = {} /\ ~(op.stage = "unload" /\ op.flag)
  <2>1. op.stage \in Loading \cup Unloading
    BY <1>1, WhereWorking
  <2>2. CASE op.stage \in Loading \/ op.stage \in {"target", "unload"}
    BY <1>1, <1>2, <1>4, <2>2 DEF Chained, Ordered, On, Unneeded
  <2>3. CASE op.stage \in MassUnload
    <3>1. op.work # <<>> /\ stack[1].plugin = Head(op.work) /\ Len(stack) = 1 /\ Top = stack[1]
          /\ op \in Operations
      BY <1>1, <2>3, WhereWorking DEF Loading, MassUnload
    <3>2. op.work[1] = p /\ 1 \in DOMAIN op.work
      BY <3>1, TailFacts DEF Operations
    <3>3. \A q \in plugins, i \in DOMAIN op.work :
                op.work[i] \in Requires[q] => \E j \in 1 .. i - 1 : op.work[j] = q
      BY <1>2, <1>4, <2>3 DEF Chained, Ordered, MassUnload
    <3>4. \A q \in plugins : p \in Requires[q] => \E j \in 1 .. 1 - 1 : op.work[j] = q
      BY <3>2, <3>3
    <3>5. QED
      BY <3>4
  <2>4. QED
    BY <2>1, <2>2, <2>3 DEF Unloading, MassUnload
<1>5. QED
  BY <1>3, <1>4

LEMMA UnloadStepChained == Sound /\ Chained /\ UnloadStep => Chained'
<1> SUFFICES ASSUME Sound, Chained, UnloadStep PROVE Chained'
  OBVIOUS
<1>1. ManagerType /\ TypeOK /\ Frames /\ LoadFrames
  BY TypesInParts DEF Sound, Control
<1>2. /\ op' \in Operations /\ op'.stage = op.stage /\ op'.flag = op.flag
  BY <1>1, UnloadStepEffect DEF WorkEffect, SameOperation
<1>3. Working
  BY DEF UnloadStep, BeginUnload, OnUnload, UnloadFails, Unloaded, Between, At
<1>4. plugins' = plugins => forced \/ Complete'
  BY DEF Chained, DependenciesLoaded, Complete
<1>5. CASE BeginUnload
  <2> DEFINE p == Head(op.work)
  <2>1. /\ UNCHANGED <<plugins, forced>> /\ op.work # <<>> /\ stack = <<>> /\ op.stage \in Unloading
        /\ IF MayUnload(p) THEN Push(Frame(p, "on_unload")) /\ UNCHANGED op ELSE Done(FALSE)
    BY <1>5 DEF BeginUnload, Between, manager, history
  <2>2. op.stage \notin Loading
    BY <2>1 DEF Loading, Unloading
  <2>3. CASE MayUnload(p)
    <3>1. p \in plugins /\ UNCHANGED op
      BY <2>1, <2>3 DEF MayUnload
    <3>2. Frame(p, "on_unload") \in FrameSet
      BY <1>1, <3>1 DEF Frame, FrameSet, Places, InHook, ManagerType
    <3>3. Top' = Frame(p, "on_unload")
      BY <1>1, <2>1, <2>3, <3>2, PushFacts DEF ManagerType
    <3>4. Top'.at = "on_unload" /\ Top'.plugin = p
      BY <3>3 DEF Frame
    <3>5. op.stage = "target" \/ (op.stage = "unload" /\ ~op.flag) => Unneeded(p)
      BY <2>3, NoDependents DEF MayUnload, ByForce
    <3>6. ~On({"on_load"})'
      BY <3>4 DEF On
    <3>7. UNCHANGED <<plugins, op, forced>>
      BY <2>1, <3>1
    <3>8. DependenciesLoaded'
      BY <3>7 DEF Chained, DependenciesLoaded, Complete
    <3>9. op.stage \in {"dependents", "down", "all down"} /\ op.errors = {} /\ ~forced =>
            \A q \in plugins, i \in DOMAIN op.work :
                op.work[i] \in Requires[q] => \E j \in 1 .. i - 1 : op.work[j] = q
      BY DEF Chained, Ordered
    <3>10. QED
      BY ZenonT(60), <2>2, <3>4, <3>5, <3>6, <3>7, <3>8, <3>9 DEF Chained, Ordered, Unneeded
  <2>4. CASE ~MayUnload(p)
    <3>1. stack' = <<>> /\ op'.errors # {}
      BY <1>1, <2>1, <2>4, DoneFacts DEF ManagerType
    <3>2. QED
      BY <1>4, <2>1, <3>1 DEF Chained, Ordered, DependenciesLoaded, On
  <2>5. QED
    BY <2>3, <2>4
<1>6. CASE OnUnload
  <2>1. /\ UNCHANGED <<plugins, forced, op>> /\ stack # <<>> /\ Top.at = "on_unload" /\ GoTo("tasks")
    BY <1>6 DEF OnUnload, At, manager, history
  <2>2. Top'.at = "tasks" /\ Top'.plugin = Top.plugin
    BY <1>1, <2>1, GoToFacts DEF ManagerType, Places
  <2>3. On({"on_unload", "tasks"})' /\ On({"on_unload", "tasks"}) /\ ~On({"on_load"})'
    BY <2>1, <2>2 DEF On, GoTo
  <2>4. On({"on_ready", "on_unload", "tasks"})
    BY <2>3 DEF On
  <2>5. Unneeded(Top.plugin)' <=> Unneeded(Top.plugin)
    BY <2>1, <2>2 DEF Unneeded
  <2>6. Ordered'
    BY <2>1, <2>3, <2>4, <2>5 DEF Chained, Ordered
  <2>7. QED
    BY <1>4, <2>1, <2>6 DEF Chained, DependenciesLoaded
<1>7. ASSUME UnloadFails \/ Unloaded
      PROVE  /\ stack' = <<>>
             /\ op.work # <<>> /\ op.work \in Seq(Plugins)
             /\ op'.errors # {} \/ (Len(stack) = 1 /\ Unloaded
                                    /\ op'.work = Tail(op.work) /\ op'.errors = op.errors)
  <2>1. stack # <<>> /\ op.work # <<>>
    BY <1>1, <1>7 DEF UnloadFails, Unloaded, At, Frames
  <2>2. op \in Operations /\ op.work \in Seq(Plugins)
    BY <1>1 DEF ManagerType, Operations
  <2>3. Done(FALSE) \/ (Len(stack) = 1 /\ Unloaded /\ Done(TRUE))
    BY <1>7 DEF UnloadFails, Unloaded, UnloadReturns
  <2>4. CASE Done(FALSE)
    BY <2>1, <2>2, <2>4, DoneFacts
  <2>5. CASE Len(stack) = 1 /\ Unloaded /\ Done(TRUE)
    BY <2>1, <2>2, <2>5, DoneFacts
  <2>6. QED
    BY <2>3, <2>4, <2>5
<1>8. CASE UnloadFails
  <2>1. ~Unloaded \/ plugins' = plugins
    BY <1>8 DEF UnloadFails
  <2>2. UNCHANGED <<plugins, forced>> /\ stack' = <<>>
    BY <1>7, <1>8 DEF UnloadFails, history
  <2>3. op'.errors # {}
    <3>1. stack # <<>> /\ op.work # <<>> /\ op \in Operations /\ Done(FALSE)
      BY <1>1, <1>8 DEF UnloadFails, UnloadReturns, At, Frames, ManagerType
    <3>2. QED
      BY <3>1, DoneFacts
  <2>4. QED
    BY <1>4, <2>2, <2>3 DEF Chained, Ordered, DependenciesLoaded, On
<1>9. CASE Unloaded
  <2> DEFINE p == Top.plugin
  <2>1. plugins' = plugins \ {p} /\ stack' = <<>> /\ (forced => forced')
    BY <1>7, <1>9 DEF Unloaded
  <2>2. forced' \/ Complete'
    <3>1. ~forced' => Complete
      BY <2>1 DEF Chained, DependenciesLoaded
    <3>2. QED
      BY <1>9, <2>1, <3>1, TakenOutUnneeded, UnneededLeaves
  <2>3. ASSUME op'.stage \in MassUnload, op'.errors = {}, ~forced',
               NEW q \in plugins', NEW i \in DOMAIN op'.work, op'.work[i] \in Requires[q]
        PROVE  \E j \in 1 .. i - 1 : op'.work[j] = q
    <3> DEFINE w == op.work
    <3>1. /\ w # <<>> /\ w \in Seq(Plugins) /\ Len(stack) = 1 /\ op'.work = Tail(w)
          /\ op.errors = {} /\ op.stage \in MassUnload
      BY <1>2, <1>7, <1>9, <2>3
    <3>2. stack # <<>> /\ Top = stack[1] /\ p = Head(w)
      BY <1>1, <1>9, <3>1 DEF Unloaded, At, Top, Last, Frames
    <3> HIDE DEF w
    <3>3. /\ Head(w) = w[1] /\ Len(w) \in Nat /\ Len(Tail(w)) = Len(w) - 1 /\ DOMAIN w = 1 .. Len(w)
          /\ \A k \in 1 .. Len(w) - 1 : Tail(w)[k] = w[k + 1]
          /\ DOMAIN Tail(w) = 1 .. Len(w) - 1
      BY <3>1, TailFacts
    <3>4. i \in 1 .. Len(w) - 1 /\ i + 1 \in DOMAIN w /\ op'.work[i] = w[i + 1]
      BY <3>1, <3>3
    <3>5. q \in plugins /\ q # w[1]
      BY <2>1, <3>2, <3>3
    <3>6. PICK j \in 1 .. i : w[j] = q
      <4>1. \A k \in DOMAIN w : w[k] \in Requires[q] => \E j \in 1 .. k - 1 : w[j] = q
        BY <2>1, <2>3, <3>1, <3>5 DEF Chained, Ordered, MassUnload, w
      <4>2. \E j \in 1 .. (i + 1) - 1 : w[j] = q
        BY <2>3, <3>4, <4>1
      <4>3. (i + 1) - 1 = i
        BY <3>3, <3>4
      <4>4. QED
        BY <4>2, <4>3
    <3>7. j - 1 \in 1 .. i - 1 /\ j - 1 \in 1 .. Len(w) - 1
      BY <3>3, <3>4, <3>5, <3>6
    <3>8. op'.work[j - 1] = w[j]
      BY <3>1, <3>3, <3>4, <3>6, <3>7
    <3>9. QED
      BY <3>6, <3>7, <3>8
  <2>4. QED
    BY <2>1, <2>2, <2>3 DEF Chained, Ordered, DependenciesLoaded, On, MassUnload
<1>10. QED
  BY <1>5, <1>6, <1>8, <1>9 DEF UnloadStep

LEMMA HookStepChained == Sound /\ Chained /\ HookStep => Chained'
<1> SUFFICES ASSUME Sound, Chained, HookStep PROVE Chained'
  OBVIOUS
<1>1. op'.stage = op.stage
  BY HookStepEffect DEF Sound, Control, WorkEffect, SameOperation
<1>2. Working /\ UNCHANGED <<plugins, forced>>
  BY DEF HookStep, BeginHook, ReadyHook, SessionHook, HookFails, BeginRestart, WorkersStopped,
         Restarted, Between, At, manager, history
<1>3. op.stage \in Hooking \cup {"restart"}
  <2>1. CASE BeginHook \/ BeginRestart
    BY <2>1 DEF BeginHook, BeginRestart
  <2>2. CASE ~(BeginHook \/ BeginRestart)
    <3>1. stack # <<>> /\ Top.at \in {"ready", "session", "stop", "restart"}
      BY <2>2 DEF HookStep, ReadyHook, SessionHook, HookFails, WorkersStopped, Restarted, At
    <3>2. QED
      BY <1>2, <3>1, WhereWorking DEF Hooking
  <2>3. QED
    BY <2>1, <2>2
<1>4. Frames'
  BY HookStepFrames
<1>5. /\ op'.stage \notin Loading \cup Unloading \cup MassUnload \cup {"target", "unload"}
      /\ ~On({"on_load"})'
  BY <1>1, <1>3, <1>4 DEF Frames, Hooking, Loading, Unloading, MassUnload, On
<1>6. Ordered'
  BY <1>5 DEF Ordered, MassUnload
<1>7. QED
  BY <1>2, <1>6 DEF Chained, DependenciesLoaded, Complete

LEMMA EmptyStackChained ==
    ASSUME Chained, UNCHANGED <<plugins, forced>>, stack' = <<>>,
           op'.stage \in MassUnload /\ op'.errors = {} /\ ~forced =>
                \A q \in plugins, i \in DOMAIN op'.work :
                    op'.work[i] \in Requires[q] => \E j \in 1 .. i - 1 : op'.work[j] = q
    PROVE  Chained'
BY DEF Chained, Ordered, DependenciesLoaded, Complete, On, MassUnload

LEMMA AcquireChained == Sound /\ Chained /\ Acquire => Chained'
<1> SUFFICES ASSUME Sound, Chained, Acquire PROVE Chained'
  OBVIOUS
<1> DEFINE c == Head(queue)
           r == request[c]
<1>1. /\ op' \in FirstStage(r) /\ stack' = <<>> /\ UNCHANGED <<plugins, forced>>
      /\ plugins \subseteq Plugins
  BY TypesInParts DEF Acquire, Sound, Control, ManagerType, TypeOK, manager, history
<1>2. r \in Requests /\ r.kind # "idle" /\ (r.kind \in OnePlugin => r.plugin \in Plugins)
  BY NoQueue DEF Acquire, Sound, Control, Requested
<1> HIDE DEF r, c
<1>3. op' \in Operations /\ op'.kind = r.kind /\ op'.stage \in StagesOf(r.kind)
  BY <1>1, <1>2, FirstStageType
<1> SUFFICES ASSUME op'.stage \in MassUnload, ~forced
             PROVE  \A q \in plugins, i \in DOMAIN op'.work :
                        op'.work[i] \in Requires[q] => \E j \in 1 .. i - 1 : op'.work[j] = q
  BY <1>1, EmptyStackChained
<1>4. Complete
  BY DEF Chained, DependenciesLoaded
<1>5. r.kind \in {"reload", "reload_all", "unload_all"} /\ r.kind \in Kinds
  BY <1>2, <1>3 DEF StagesOf, MassUnload, Requests, Kinds
<1>6. ASSUME NEW s \in Requests, NEW stage \in {"dependents", "down", "all down"},
             NEW S \in SUBSET plugins, NEW o \in DependencyOrders(S),
             op' = Operation(s, stage, Reverse(o), o),
             \A d \in S, q \in plugins : d \in Requires[q] => q \in S
      PROVE  \A q \in plugins, i \in DOMAIN op'.work :
                op'.work[i] \in Requires[q] => \E j \in 1 .. i - 1 : op'.work[j] = q
  <2>1. o \in Seq(Plugins) /\ Reverse(o) \in Seq(Plugins)
    BY <1>1, OrdersCover, ReverseFacts DEF DependencyOrders
  <2>2. stage \in Stages \ {"none"}
    BY DEF Stages, Unloading
  <2>3. op'.work = Reverse(o)
    <3> DEFINE w == Reverse(o)
    <3>1. op' = Operation(s, stage, w, o) /\ w \in Seq(Plugins)
      BY <1>6, <2>1
    <3> HIDE DEF w
    <3>2. op'.work = w
      BY <3>1 DEF Operation, NoOp
    <3>3. QED
      BY <3>2 DEF w
  <2>4. \A q \in plugins, i \in DOMAIN Reverse(o) :
            Reverse(o)[i] \in Requires[q] => \E j \in 1 .. i - 1 : Reverse(o)[j] = q
    BY <1>1, <1>6, BackwardsIsSafe
  <2>5. QED
    BY <2>3, <2>4
<1>7. CASE r.kind = "reload"
  <2>1. op' # Operation(r, "refused", <<>>, <<>>)
    <3>1. Operation(r, "refused", <<>>, <<>>).stage = "refused"
      BY DEF Operation, NoOp
    <3>2. QED
      BY <3>1 DEF MassUnload
  <2>2. PICK o \in DependencyOrders(DependentsOf(r.plugin)) :
            op' = Operation(r, "dependents", Reverse(o), o)
    BY <1>1, <1>7, <2>1 DEF FirstStage
  <2>3. DependentsOf(r.plugin) \in SUBSET plugins
    BY DEF DependentsOf
  <2>4. \A d \in DependentsOf(r.plugin), q \in plugins :
            d \in Requires[q] => q \in DependentsOf(r.plugin)
    BY DependentsAreClosed
  <2>5. QED
    BY <1>2, <1>6, <2>2, <2>3, <2>4
<1>8. CASE r.kind = "reload_all"
  <2>1. PICK o \in DependencyOrders(plugins) : op' = Operation(r, "down", Reverse(o), o)
    BY <1>1, <1>4, <1>8 DEF FirstStage
  <2>2. QED
    BY <1>2, <1>6, <2>1
<1>9. CASE r.kind = "unload_all"
  <2> DEFINE s == [r EXCEPT !.flag = Complete]
  <2>1. PICK o \in DependencyOrders(plugins) : op' = Operation(s, "all down", Reverse(o), o)
    BY <1>1, <1>4, <1>9 DEF FirstStage
  <2>2. s \in Requests
    BY <1>2 DEF Requests, Complete
  <2> HIDE DEF s
  <2>3. QED
    BY <1>6, <2>1, <2>2
<1>10. QED
  BY <1>5, <1>7, <1>8, <1>9

LEMMA OtherStepChained == Sound /\ Chained /\ OtherStep => Chained'
<1> SUFFICES ASSUME Sound, Chained, OtherStep PROVE Chained'
  OBVIOUS
<1>1. UNCHANGED manager /\ UNCHANGED forced /\ (stack' = <<>> \/ UNCHANGED <<op, stack>>)
  BY OtherSteps DEF Sound
<1>2. CASE UNCHANGED <<op, stack>>
  BY ZenonT(60), <1>1, <1>2 DEF Chained, Ordered, DependenciesLoaded, Complete, On, Top, Unneeded, manager
<1>3. CASE Acquire
  BY <1>3, AcquireChained
<1>4. CASE stack' = <<>> /\ ~Acquire
  <2>1. op'.stage \notin MassUnload \/ op' = op
    <3>1. CASE Advance
      <4>1. Busy
        BY <3>1 DEF Advance, Working, Busy
      <4>2. /\ op \in Operations
            /\ op.kind \in OnePlugin => op.plugin \in Plugins
            /\ op.stage \in StagesOf(op.kind)
        BY <4>1, OwnerFacts DEF Sound
      <4>3. CASE NextStage = NoOp
        BY <3>1, <4>3, NoOpType DEF Advance, Finish, MassUnload
      <4>4. CASE NextStage # NoOp
        <5>1. op' = NextStage /\ NextStage.stage \in Loading \cup {"target"}
          BY <3>1, <4>2, <4>4, NextStageFacts DEF Advance
        <5>2. QED
          BY <5>1 DEF MassUnload, Loading
      <4>5. QED
        BY <4>3, <4>4
    <3>2. CASE TakeCancellation \/ UnloadTimeout
      BY <3>2, NoOpType DEF TakeCancellation, UnloadTimeout, Unwind, MassUnload
    <3>3. CASE \E c \in Admins, r \in PluginCommands \cup AllCommands : AdminCalls(c, r)
      BY <3>3 DEF AdminCalls, Call, running
    <3>4. CASE BootCalls \/ Reject \/ Hang \/ SwallowCancellation \/ BeginShutdown \/ TargetEnds
               \/ GraceTimeout \/ CancelTimeout \/ CallUnloadAll
      BY <3>4 DEF BootCalls, Call, Reject, Hang, SwallowCancellation, BeginShutdown, TargetEnds,
                  GraceTimeout, CancelTimeout, CallUnloadAll, running
    <3>5. QED
      BY <1>4, <3>1, <3>2, <3>3, <3>4 DEF OtherStep, ShutdownStep
  <2>2. UNCHANGED <<plugins, forced>>
    BY <1>1 DEF manager
  <2>3. CASE op'.stage \notin MassUnload
    BY <1>4, <2>2, <2>3, EmptyStackChained
  <2>4. CASE op' = op
    <3>1. op'.stage \in MassUnload /\ op'.errors = {} /\ ~forced =>
                \A q \in plugins, i \in DOMAIN op'.work :
                    op'.work[i] \in Requires[q] => \E j \in 1 .. i - 1 : op'.work[j] = q
      BY <2>4 DEF Chained, Ordered, MassUnload
    <3>2. QED
      BY <1>4, <2>2, <3>1, EmptyStackChained
  <2>5. QED
    BY <2>1, <2>3, <2>4
<1>5. QED
  BY <1>1, <1>2, <1>3, <1>4

LEMMA ChainedStep == Sound /\ Chained /\ [Next]_vars => Chained'
<1> SUFFICES ASSUME Sound, Chained, [Next]_vars PROVE Chained'
  OBVIOUS
<1>1. CASE UNCHANGED vars
  BY ZenonT(60), <1>1 DEF Chained, Ordered, DependenciesLoaded, Complete, On, Top, Unneeded, vars, manager,
              running, history
<1>2. CASE Next
  <2>1. LoadStep \/ UnloadStep \/ HookStep \/ OtherStep
    BY <1>2 DEF Next, OtherStep
  <2>2. QED
    BY <2>1, LoadStepChained, UnloadStepChained, HookStepChained, OtherStepChained
<1>3. QED
  BY <1>1, <1>2

-----------------------------------------------------------------------------
(* The shutdown *)

Late == {"unload", "unloading", "ok", "partial", "timeout"}

LEMMA OnlyLoadedLoads == Sound /\ [Next]_vars => Loaded \/ plugins' \subseteq plugins
<1> SUFFICES ASSUME Sound, [Next]_vars PROVE Loaded \/ plugins' \subseteq plugins
  OBVIOUS
<1>1. OtherStep => plugins' = plugins
  BY OtherSteps DEF Sound, manager
<1>2. LoadStep => Loaded \/ plugins' = plugins
  BY DEF LoadStep, SkipLoad, BeginLoad, ImportFails, ImportDone, LoadDependency, OnLoad,
         OnLoadFails, CleanedUp, OnReady, OnReadyFails, manager
<1>3. UnloadStep => plugins' \subseteq plugins
  BY DEF UnloadStep, BeginUnload, OnUnload, UnloadFails, Unloaded, manager
<1>4. HookStep => plugins' = plugins
  BY DEF HookStep, BeginHook, ReadyHook, SessionHook, HookFails, BeginRestart, WorkersStopped,
         Restarted, manager
<1>5. UNCHANGED vars => plugins' = plugins
  BY DEF vars, manager
<1>6. QED
  BY <1>1, <1>2, <1>3, <1>4, <1>5 DEF Next, OtherStep

\* once the shutdown unloads, the lock is its own, and what it does is not load
LEMMA LateNeverLoads == Sound /\ phase \in Late => ~Loaded
<1> SUFFICES ASSUME Sound, phase \in Late, Loaded PROVE FALSE
  OBVIOUS
<1>1. Working /\ Busy /\ stack # <<>> /\ Top.at = "on_load"
  BY DEF Loaded, At, Working, Busy
<1>2. op.stage \in Loading
  BY <1>1, WhereWorking
<1>3. owner = Down
  BY <1>1 DEF Sound, Control, ShutdownOrder, Late, Busy
<1>4. op.kind = "unload_all" /\ op.stage \in StagesOf(op.kind)
  <2>1. op.kind = request[Down].kind /\ request[Down] # Idle /\ op.stage \in StagesOf(op.kind)
    BY <1>1, <1>3, OwnerFacts DEF Sound
  <2>2. request[Down].kind \in {"idle", "unload_all"}
        /\ (request[Down].kind = "idle" => request[Down] = Idle)
    BY DEF Sound, Control, Requested, Callers
  <2>3. QED
    BY <2>1, <2>2
<1>5. QED
  BY <1>2, <1>4 DEF StagesOf, Loading

\* when the shutdown can have become a success
LEMMA SuccessIsAdvance ==
    ASSUME [Next]_vars, phase' = "ok", phase # "ok"
    PROVE  Advance /\ op.stage = "all down" /\ op.errors = {} /\ op.work = <<>>
<1>1. CASE Advance
  BY <1>1 DEF Advance
<1>2. LoadStep => UNCHANGED phase
  BY DEF LoadStep, SkipLoad, BeginLoad, ImportFails, ImportDone, LoadDependency, OnLoad, Loaded,
         OnLoadFails, CleanedUp, OnReady, OnReadyFails, stopping
<1>3. UnloadStep => UNCHANGED phase
  BY DEF UnloadStep, BeginUnload, OnUnload, UnloadFails, Unloaded, stopping
<1>4. HookStep => UNCHANGED phase
  BY DEF HookStep, BeginHook, ReadyHook, SessionHook, HookFails, BeginRestart, WorkersStopped,
         Restarted, stopping
<1>5. \A c, r : AdminCalls(c, r) => UNCHANGED phase
  BY DEF AdminCalls, stopping
<1>6. BootCalls \/ Reject \/ Acquire \/ Hang \/ SwallowCancellation \/ UNCHANGED vars => UNCHANGED phase
  BY DEF BootCalls, Reject, Acquire, Hang, SwallowCancellation, vars, stopping
<1>7. BeginShutdown \/ ShutdownStep => phase' = phase \/ phase' # "ok"
  BY DEF BeginShutdown, ShutdownStep, TakeCancellation, TargetEnds, GraceTimeout, CancelTimeout,
         CallUnloadAll, UnloadTimeout
<1>8. QED
  BY <1>1, <1>2, <1>3, <1>4, <1>5, <1>6, <1>7 DEF Next

LEMMA WorkOfAllDown ==
    ASSUME Sound, Emptied, UnloadStep, op'.stage = "all down", op'.errors = {}
    PROVE  plugins' \subseteq ToSet(op'.work)
<1>1. ManagerType /\ TypeOK /\ Frames
  BY TypesInParts DEF Sound, Control
<1>2. op.stage = "all down" /\ op \in Operations /\ op.work \in Seq(Plugins)
  BY <1>1, UnloadStepEffect DEF WorkEffect, SameOperation, ManagerType, Operations
<1>3. ASSUME op.work # <<>>, Done(FALSE) PROVE FALSE
  BY <1>2, <1>3, DoneFacts
<1>4. CASE BeginUnload \/ OnUnload \/ UnloadFails
  <2>1. UNCHANGED <<plugins, op>>
    <3>1. op.work # <<>>
      BY <1>1, <1>4 DEF BeginUnload, OnUnload, UnloadFails, Between, At, Frames
    <3>2. QED
      BY <1>3, <1>4, <3>1 DEF BeginUnload, OnUnload, UnloadFails, UnloadReturns, manager
  <2>2. QED
    BY <2>1 DEF Emptied
<1>5. CASE Unloaded
  <2>1. /\ stack # <<>> /\ op.work # <<>> /\ Len(stack) = 1 /\ Top.plugin = Head(op.work)
        /\ plugins' = plugins \ {Top.plugin}
    BY <1>1, <1>2, <1>5 DEF Unloaded, At, Frames, Unloading, Top, Last
  <2>2. Done(TRUE)
    BY <1>5, <2>1 DEF Unloaded, UnloadReturns
  <2>3. op'.work = Tail(op.work) /\ op'.errors = op.errors
    BY <1>2, <2>1, <2>2, DoneFacts
  <2>4. ToSet(op.work) = {Head(op.work)} \cup ToSet(Tail(op.work))
    BY <1>2, <2>1, TailFacts
  <2>5. plugins \subseteq ToSet(op.work)
    BY <1>2, <2>3 DEF Emptied
  <2>6. QED
    BY <2>1, <2>3, <2>4, <2>5
<1>6. QED
  BY <1>4, <1>5 DEF UnloadStep

LEMMA AcquiredAllDown ==
    ASSUME Sound, Acquire, op'.stage = "all down"
    PROVE  plugins' \subseteq ToSet(op'.work)
<1> DEFINE r == request[Head(queue)]
<1>1. op' \in FirstStage(r) /\ plugins' = plugins /\ plugins \subseteq Plugins
  BY TypesInParts DEF Acquire, Sound, Control, ManagerType, manager
<1>2. r \in Requests /\ r.kind # "idle" /\ (r.kind \in OnePlugin => r.plugin \in Plugins)
  BY NoQueue DEF Acquire, Sound, Control, Requested
<1> HIDE DEF r
<1>3. op'.kind = r.kind /\ op'.stage \in StagesOf(r.kind) /\ r.kind \in Kinds
  BY <1>1, <1>2, FirstStageType DEF Requests
<1>4. r.kind = "unload_all"
  BY <1>3 DEF StagesOf, Kinds
<1> DEFINE q == [r EXCEPT !.flag = Complete]
<1>5. PICK o \in SetToSeqs(plugins) \cup DependencyOrders(plugins) :
            op' = Operation(q, "all down", Reverse(o), o)
  BY <1>1, <1>4 DEF FirstStage
<1>6. op'.work = Reverse(o)
  <2> HIDE DEF q
  <2> DEFINE w == Reverse(o)
  <2>1. op' = Operation(q, "all down", w, o)
    BY <1>5
  <2> HIDE DEF w
  <2>2. op'.work = w
    BY <2>1 DEF Operation, NoOp
  <2>3. QED
    BY <2>2 DEF w
<1>7. ToSet(Reverse(o)) = plugins
  BY <1>1, ChosenOrders
<1>8. QED
  BY <1>1, <1>6, <1>7

LEMMA EmptiedStep == Sound /\ Emptied /\ [Next]_vars => Emptied'
<1> SUFFICES ASSUME Sound, Emptied, [Next]_vars PROVE Emptied'
  OBVIOUS
<1>1. phase = "ok" => plugins' \subseteq plugins
  BY OnlyLoadedLoads, LateNeverLoads DEF Late
<1>2. phase' = "ok" => plugins' = {}
  <2>1. CASE phase = "ok"
    BY <1>1, <2>1 DEF Emptied
  <2>2. CASE phase # "ok" /\ phase' = "ok"
    <3>1. Advance /\ op.stage = "all down" /\ op.errors = {} /\ op.work = <<>>
      BY <2>2, SuccessIsAdvance
    <3>2. ToSet(<<>>) = {}
      BY DEF ToSet
    <3>3. plugins \subseteq ToSet(<<>>)
      BY <3>1 DEF Emptied
    <3>4. QED
      BY <3>1, <3>2, <3>3 DEF Advance, manager
  <2>3. QED
    BY <2>1, <2>2
<1>3. ASSUME op'.stage = "all down", op'.errors = {} PROVE plugins' \subseteq ToSet(op'.work)
  <2>1. CASE UNCHANGED <<op, plugins>>
    BY <1>3, <2>1 DEF Emptied
  <2>2. CASE UnloadStep
    BY <1>3, <2>2, WorkOfAllDown
  <2>3. CASE Acquire
    BY <1>3, <2>3, AcquiredAllDown
  <2>4. CASE LoadStep \/ HookStep
    <3>1. op'.stage = op.stage
      BY <2>4, LoadStepEffect, HookStepEffect DEF Sound, Control, WorkEffect, SameOperation
    <3>2. Working /\ (op.stage \in Loading \cup Hooking \cup {"restart"}
                      \/ (stack # <<>> /\ Top.at \notin {"on_unload", "tasks"}))
      BY <2>4 DEF LoadStep, SkipLoad, BeginLoad, ImportFails, ImportDone, LoadDependency, OnLoad,
                  Loaded, OnLoadFails, CleanedUp, OnReady, OnReadyFails, HookStep, BeginHook,
                  ReadyHook, SessionHook, HookFails, BeginRestart, WorkersStopped, Restarted,
                  Between, At
    <3>3. QED
      BY <1>3, <3>1, <3>2 DEF Sound, Frames, Loading, Hooking, Unloading
  <2>5. CASE OtherStep /\ ~Acquire /\ ~UNCHANGED <<op, plugins>>
    <3>1. op'.stage # "all down"
      <4>1. CASE Advance
        <5>1. Busy
          BY <4>1 DEF Advance, Working, Busy
        <5>2. /\ op \in Operations
              /\ op.kind \in OnePlugin => op.plugin \in Plugins
              /\ op.stage \in StagesOf(op.kind)
          BY <5>1, OwnerFacts DEF Sound
        <5>3. CASE NextStage = NoOp
          BY <4>1, <5>3, NoOpType DEF Advance, Finish
        <5>4. CASE NextStage # NoOp
          <6>1. op' = NextStage /\ NextStage.stage \in Loading \cup {"target"}
            BY <4>1, <5>2, <5>4, NextStageFacts DEF Advance
          <6>2. QED
            BY <6>1 DEF Loading
        <5>5. QED
          BY <5>3, <5>4
      <4>2. CASE TakeCancellation \/ UnloadTimeout
        BY <4>2, NoOpType DEF TakeCancellation, UnloadTimeout, Unwind
      <4>3. CASE \E c \in Admins, r \in PluginCommands \cup AllCommands : AdminCalls(c, r)
        BY <2>5, <4>3 DEF AdminCalls, Call, running, manager
      <4>4. CASE BootCalls \/ Reject \/ Hang \/ SwallowCancellation \/ BeginShutdown \/ TargetEnds
                 \/ GraceTimeout \/ CancelTimeout \/ CallUnloadAll
        BY <2>5, <4>4 DEF BootCalls, Call, Reject, Hang, SwallowCancellation, BeginShutdown,
                  TargetEnds, GraceTimeout, CancelTimeout, CallUnloadAll, running, manager
      <4>5. QED
        BY <2>5, <4>1, <4>2, <4>3, <4>4 DEF OtherStep, ShutdownStep
    <3>2. QED
      BY <1>3, <3>1
  <2>6. QED
    BY <2>1, <2>2, <2>3, <2>4, <2>5 DEF Next, OtherStep, vars, running, manager
<1>4. QED
  BY <1>2, <1>3 DEF Emptied

-----------------------------------------------------------------------------
(* What a plugin has registered *)

registrations == <<plugins, handlers, commands, workers, stubborn, abandoned>>

LEMMA SameStackRegistered ==
    ASSUME Registered, UNCHANGED <<registrations, stack>>
    PROVE  Registered'
BY DEF Registered, registrations, On, Top

LEMMA QuietRegistered ==
    ASSUME Registered, UNCHANGED registrations,
           ~On({"on_load"}), ~On({"cleanup"}), ~On({"on_load"})'
    PROVE  Registered'
<1>1. ~On({"on_load", "cleanup"})
  BY DEF On
<1>2. QED
  BY <1>1 DEF Registered, registrations

LEMMA LoadStepRegistered == Sound /\ Registered /\ LoadStep => Registered'
<1> SUFFICES ASSUME Sound, Registered, LoadStep PROVE Registered'
  OBVIOUS
<1> DEFINE p == Top.plugin
<1>1. ManagerType /\ TypeOK /\ Frames /\ LoadFrames
  BY TypesInParts DEF Sound, Control
<1>2. ASSUME stack' = <<>> \/ Top'.at \in {"import", "deps", "on_unload"},
             ~On({"on_load"}), ~On({"cleanup"}), UNCHANGED registrations
      PROVE  Registered'
  <2>1. ~On({"on_load"})'
    BY <1>2 DEF On
  <2>2. QED
    BY <1>2, <2>1, QuietRegistered
<1>3. CASE SkipLoad \/ BeginLoad
  <2>1. stack = <<>> /\ UNCHANGED registrations /\ op.work # <<>>
    BY <1>3 DEF SkipLoad, BeginLoad, Between, registrations, manager, history
  <2>2. stack' = <<>> \/ Top'.at = "import"
    <3>1. CASE SkipLoad
      BY <3>1, <2>1 DEF SkipLoad, Done
    <3>2. CASE BeginLoad
      <4>1. Frame(Head(op.work), "import") \in FrameSet
        BY <1>1, <2>1, TailFacts DEF ManagerType, Operations, Frame, FrameSet, Places
      <4>2. QED
        BY <1>1, <3>2, <4>1, PushFacts DEF BeginLoad, ManagerType, Frame
    <3>3. QED
      BY <1>3, <3>1, <3>2
  <2>3. QED
    BY <1>2, <2>1, <2>2 DEF On
<1>4. CASE ImportFails \/ ImportDone \/ LoadDependency
  <2>1. /\ Working /\ stack # <<>> /\ Top.at \in {"import", "deps"} /\ UNCHANGED registrations
        /\ p \in Plugins
    BY <1>4, WhereWorking
    DEF ImportFails, ImportDone, LoadDependency, At, registrations, manager, history
  <2>2. stack' = <<>> \/ Top'.at \in {"import", "deps"}
    <3>1. CASE ImportFails
      BY <3>1 DEF ImportFails, Raise, Done
    <3>2. CASE ImportDone
      BY <1>1, <2>1, <3>2, GoToFacts DEF ImportDone, ManagerType, Places
    <3>3. CASE LoadDependency
      <4>1. PICK d \in Requires[Top.plugin] \ plugins : Raise \/ Push(Frame(d, "import"))
        BY <3>3 DEF LoadDependency
      <4>2. d \in Plugins
        BY <2>1, PluginsAssumption
      <4>3. Frame(d, "import") \in FrameSet /\ Frame(d, "import").at = "import"
        BY <4>2 DEF Frame, FrameSet, Places
      <4>4. QED
        BY <1>1, <4>1, <4>3, PushFacts DEF Raise, Done, ManagerType
    <3>4. QED
      BY <1>4, <3>1, <3>2, <3>3
  <2>3. QED
    BY <1>2, <2>1, <2>2 DEF On
<1>5. CASE OnReady \/ OnReadyFails
  <2>1. Working /\ stack # <<>> /\ Top.at = "on_ready" /\ UNCHANGED registrations /\ op.stage \in Loading
    BY <1>5, WhereWorking DEF OnReady, OnReadyFails, At, registrations, history
  <2>2. stack' = <<>> \/ Top'.at \in {"deps", "on_unload"}
    <3>1. CASE OnReady
      <4>1. Return /\ plugins' = plugins
        BY <3>1 DEF OnReady
      <4>2. QED
        BY <2>1, <4>1, ReturnFrames
    <3>2. CASE OnReadyFails
      BY <3>2, RefusedFrames DEF Frame
    <3>3. QED
      BY <1>5, <3>1, <3>2
  <2>3. QED
    BY <1>2, <2>1, <2>2 DEF On
<1>6. CASE OnLoad
  <2>1. /\ Working /\ stack # <<>> /\ Top.at = "deps" /\ op.stage \in Loading /\ GoTo("on_load")
        /\ UNCHANGED <<plugins, commands, stubborn, abandoned>>
        /\ handlers' = [handlers EXCEPT ![p] = @ + 1] /\ workers' = workers \cup {p}
    BY <1>6, WhereWorking DEF OnLoad, At, history
  <2>2. p \notin plugins /\ p \in Plugins
    BY <2>1, WhereWorking DEF Sound, LoadFrames
  <2>3. stack' # <<>> /\ Top'.at = "on_load" /\ Top'.plugin = p
    BY <1>1, <2>1, GoToFacts DEF ManagerType, Places, InHook
  <2>4. ~On({"on_load"}) /\ ~On({"on_load", "cleanup"})
        /\ On({"on_load"})' /\ On({"on_load", "cleanup"})'
    BY <2>1, <2>3 DEF On
  <2>5. \A q \in Plugins : handlers'[q] = IF q = p THEN handlers[p] + 1 ELSE handlers[q]
    BY <1>1, <2>1, <2>2 DEF ManagerType
  <2>6. QED
    BY <2>1, <2>2, <2>3, <2>4, <2>5 DEF Registered
<1>7. CASE Loaded
  <2>1. /\ Working /\ stack # <<>> /\ Top.at = "on_load" /\ op.stage \in Loading
        /\ UNCHANGED <<handlers, workers, stubborn, abandoned>>
        /\ plugins' = plugins \cup {p} /\ commands' = commands \cup {p}
        /\ IF ready THEN GoTo("on_ready") ELSE Return
    BY <1>7, WhereWorking DEF Loaded, At, history
  <2>2. stack' = <<>> \/ Top'.at \in {"on_ready", "deps"}
    <3>1. CASE ready
      BY <1>1, <2>1, <3>1, GoToFacts DEF ManagerType, Places, InHook
    <3>2. CASE ~ready
      BY <2>1, <3>2, ReturnFrames
    <3>3. QED
      BY <3>1, <3>2
  <2>3. /\ On({"on_load"}) /\ On({"on_load", "cleanup"})
        /\ ~On({"on_load"})' /\ ~On({"on_load", "cleanup"})'
    BY <2>1, <2>2 DEF On
  <2>4. QED
    BY <2>1, <2>3 DEF Registered
<1>8. CASE OnLoadFails
  <2>1. /\ Working /\ stack # <<>> /\ Top.at = "on_load" /\ op.stage \in Loading /\ GoTo("cleanup")
        /\ UNCHANGED <<plugins, workers, stubborn, abandoned>>
        /\ commands' = commands \ {p} /\ handlers' = [handlers EXCEPT ![p] = 0]
    BY <1>8, WhereWorking DEF OnLoadFails, At, history
  <2>2. p \notin plugins /\ p \in Plugins
    BY <2>1, WhereWorking DEF Sound, LoadFrames
  <2>3. stack' # <<>> /\ Top'.at = "cleanup" /\ Top'.plugin = p
    BY <1>1, <2>1, GoToFacts DEF ManagerType, Places, InHook
  <2>4. /\ On({"on_load"}) /\ On({"on_load", "cleanup"})
        /\ ~On({"on_load"})' /\ On({"on_load", "cleanup"})'
    BY <2>1, <2>3 DEF On
  <2>5. \A q \in Plugins : handlers'[q] = IF q = p THEN 0 ELSE handlers[q]
    BY <1>1, <2>1, <2>2 DEF ManagerType
  <2>6. QED
    BY <2>1, <2>2, <2>3, <2>4, <2>5 DEF Registered
<1>9. CASE CleanedUp
  <2>1. /\ Working /\ stack # <<>> /\ Top.at = "cleanup" /\ stack' = <<>>
        /\ UNCHANGED <<plugins, handlers, commands, abandoned>>
        /\ \/ workers' = workers \ {p} /\ UNCHANGED stubborn
           \/ stubborn' = stubborn \cup {p} /\ UNCHANGED workers
    BY <1>9 DEF CleanedUp, At, Raise, Done
  <2>2. /\ ~On({"on_load"}) /\ On({"on_load", "cleanup"})
        /\ ~On({"on_load"})' /\ ~On({"on_load", "cleanup"})'
    BY <2>1 DEF On
  <2>3. QED
    BY <2>1, <2>2 DEF Registered
<1>10. QED
  BY <1>3, <1>4, <1>5, <1>6, <1>7, <1>8, <1>9 DEF LoadStep

LEMMA UnloadStepRegistered == Sound /\ Registered /\ UnloadStep => Registered'
<1> SUFFICES ASSUME Sound, Registered, UnloadStep PROVE Registered'
  OBVIOUS
<1>1. ManagerType /\ TypeOK /\ Frames
  BY TypesInParts DEF Sound, Control
<1>2. CASE BeginUnload \/ OnUnload \/ UnloadFails
  <2>1. /\ Working /\ UNCHANGED registrations
        /\ stack # <<>> => Top.at \in {"on_unload", "tasks"}
    BY <1>2 DEF BeginUnload, OnUnload, UnloadFails, Between, At, registrations, manager, history
  <2>2. stack' = <<>> \/ Top'.at \in {"on_unload", "tasks"}
    <3>1. CASE BeginUnload
      <4>1. op.work # <<>>
        BY <3>1 DEF BeginUnload, Between
      <4>2. Frame(Head(op.work), "on_unload") \in FrameSet
        BY <1>1, <4>1, TailFacts DEF ManagerType, Operations, Frame, FrameSet, Places, InHook
      <4>3. QED
        BY <1>1, <3>1, <4>2, PushFacts DEF BeginUnload, Done, ManagerType, Frame
    <3>2. CASE OnUnload
      BY <1>1, <3>2, GoToFacts DEF OnUnload, At, ManagerType, Places
    <3>3. CASE UnloadFails
      BY <3>3 DEF UnloadFails, UnloadReturns, Done
    <3>4. QED
      BY <1>2, <3>1, <3>2, <3>3
  <2>3. ~On({"on_load"}) /\ ~On({"cleanup"}) /\ ~On({"on_load"})'
    BY <2>1, <2>2 DEF On
  <2>4. QED
    BY <2>1, <2>3, QuietRegistered
<1>3. CASE Unloaded
  <2> DEFINE p == Top.plugin
  <2>1. /\ stack # <<>> /\ Top.at = "tasks" /\ stack' = <<>> /\ UNCHANGED <<stubborn, abandoned>>
        /\ workers' = workers \ {p} /\ handlers' = [handlers EXCEPT ![p] = 0]
        /\ commands' = commands \ {p} /\ plugins' = plugins \ {p}
    BY <1>3 DEF Unloaded, At, UnloadReturns, Done
  <2>2. /\ ~On({"on_load"}) /\ ~On({"on_load", "cleanup"})
        /\ ~On({"on_load"})' /\ ~On({"on_load", "cleanup"})'
    BY <2>1 DEF On
  <2>3. \A q \in Plugins : handlers'[q] = IF q = p THEN 0 ELSE handlers[q]
    BY <1>1, <2>1 DEF ManagerType
  <2>4. QED
    BY <2>1, <2>2, <2>3 DEF Registered
<1>4. QED
  BY <1>2, <1>3 DEF UnloadStep

LEMMA HookStepRegistered == Sound /\ Registered /\ HookStep => Registered'
<1> SUFFICES ASSUME Sound, Registered, HookStep PROVE Registered'
  OBVIOUS
<1>1. Working /\ UNCHANGED <<plugins, handlers, commands, stubborn, abandoned>>
  BY DEF HookStep, BeginHook, ReadyHook, SessionHook, HookFails, BeginRestart, WorkersStopped,
         Restarted, Between, At, manager, history
<1>2. \/ workers' \subseteq workers
      \/ workers' = workers \cup {Top.plugin} /\ stack # <<>> /\ Top.at = "restart"
  BY DEF HookStep, BeginHook, ReadyHook, SessionHook, HookFails, BeginRestart, WorkersStopped,
         Restarted, At, manager
<1>3. stack # <<>> /\ Top.at = "restart" => Top.plugin \in plugins
  BY <1>1, WhereWorking DEF Sound, Frames
<1>4. stack = <<>> \/ Top.at \in {"ready", "session", "stop", "restart"}
  BY DEF HookStep, BeginHook, ReadyHook, SessionHook, HookFails, BeginRestart, WorkersStopped,
         Restarted, Between, At
<1>5. stack' = <<>> \/ Top'.at \in {"ready", "session", "stop", "restart"}
  <2>1. op'.stage = op.stage
    BY HookStepEffect DEF Sound, Control, WorkEffect, SameOperation
  <2>2. op.stage \in Hooking \cup {"restart"}
    <3>1. CASE stack = <<>>
      BY <3>1 DEF HookStep, BeginHook, ReadyHook, SessionHook, HookFails, BeginRestart,
                  WorkersStopped, Restarted, At
    <3>2. CASE stack # <<>>
      BY <1>1, <1>4, <3>2, WhereWorking DEF Hooking
    <3>3. QED
      BY <3>1, <3>2
  <2>3. Frames'
    BY HookStepFrames
  <2>4. QED
    BY <2>1, <2>2, <2>3 DEF Frames, Hooking
<1>6. ~On({"on_load"}) /\ ~On({"on_load", "cleanup"}) /\ ~On({"on_load"})' /\ ~On({"on_load", "cleanup"})'
  BY <1>4, <1>5 DEF On
<1>7. \A q \in workers' : q \in workers \/ q \in plugins
  BY <1>2, <1>3
<1>8. QED
  BY <1>1, <1>6, <1>7 DEF Registered

\* a cancelled load leaves what it has registered behind
LEMMA UnwindRegistered == Sound /\ Registered /\ Unwind => Registered'
<1> SUFFICES ASSUME Sound, Registered, Unwind PROVE Registered'
  OBVIOUS
<1>1. /\ UNCHANGED <<plugins, handlers, commands, workers, stubborn>> /\ stack' = <<>>
      /\ abandoned' = abandoned \cup (OnStack \ plugins)
  BY DEF Unwind, manager
<1>2. ~On({"on_load"})' /\ ~On({"on_load", "cleanup"})'
  BY <1>1 DEF On
<1>3. On({"on_load", "cleanup"}) => Top.plugin \in OnStack \ plugins
  <2> SUFFICES ASSUME On({"on_load", "cleanup"}) PROVE Top.plugin \in OnStack \ plugins
    OBVIOUS
  <2>1. stack # <<>> /\ Top.at \in {"on_load", "cleanup"} /\ stack \in Seq(FrameSet)
    BY TypesInParts DEF On, Sound, Control, ManagerType
  <2>2. Top.plugin \in OnStack
    BY <2>1, StackFacts
  <2>3. Top.plugin \notin plugins
    BY <2>1, WhereWorking DEF Sound, LoadFrames
  <2>4. QED
    BY <2>2, <2>3
<1>4. On({"on_load"}) => On({"on_load", "cleanup"})
  BY DEF On
<1>5. QED
  BY <1>1, <1>2, <1>3, <1>4 DEF Registered

LEMMA OtherStepRegistered == Sound /\ Registered /\ OtherStep => Registered'
<1> SUFFICES ASSUME Sound, Registered, OtherStep PROVE Registered'
  OBVIOUS
<1>1. UNCHANGED manager
  BY OtherSteps DEF Sound
<1>2. CASE TakeCancellation \/ UnloadTimeout
  BY <1>2, UnwindRegistered DEF TakeCancellation, UnloadTimeout
<1>3. CASE ~(TakeCancellation \/ UnloadTimeout)
  <2>1. UNCHANGED <<stubborn, abandoned, stack>>
    <3>1. CASE \E c \in Admins, r \in PluginCommands \cup AllCommands : AdminCalls(c, r)
      BY <3>1 DEF AdminCalls, Call, running, history
    <3>2. CASE BootCalls \/ Acquire \/ Advance
      BY <3>2 DEF BootCalls, Call, Acquire, Advance, Finish, running, history
    <3>3. CASE Reject \/ Hang \/ SwallowCancellation \/ BeginShutdown
      BY <3>3 DEF Reject, Hang, SwallowCancellation, BeginShutdown, running, history
    <3>4. CASE TargetEnds \/ GraceTimeout \/ CancelTimeout \/ CallUnloadAll
      BY <3>4 DEF TargetEnds, GraceTimeout, CancelTimeout, CallUnloadAll, Call, running, history
    <3>5. QED
      BY <1>3, <3>1, <3>2, <3>3, <3>4 DEF OtherStep, ShutdownStep
  <2>2. QED
    BY <1>1, <2>1, SameStackRegistered DEF registrations, manager
<1>4. QED
  BY <1>2, <1>3

LEMMA RegisteredStep == Sound /\ Registered /\ [Next]_vars => Registered'
<1> SUFFICES ASSUME Sound, Registered, [Next]_vars PROVE Registered'
  OBVIOUS
<1>1. CASE UNCHANGED vars
  BY <1>1, SameStackRegistered DEF vars, registrations, manager, history, running
<1>2. QED
  BY <1>1, LoadStepRegistered, UnloadStepRegistered, HookStepRegistered, OtherStepRegistered
  DEF Next, OtherStep

-----------------------------------------------------------------------------
(* Whose on_ready has run *)

\* no new plugin that is not reported as failed, and no on_ready forgotten
LEMMA QuietReadied ==
    ASSUME Readied, plugins \subseteq Plugins,
           plugins' \subseteq plugins, UNCHANGED <<ready, shutdown, booted, request>>,
           masked \subseteq masked', \A p \in plugins' \cap readied : p \in readied',
           \A p \in plugins' : failed'[p] \in {"none", "session"} =>
                failed[p] \in {"none", "session"} \/ p \in readied' \cup masked',
           op'.stage = "ready" => op.stage = "ready"
                                  /\ \A p \in plugins' \ ToSet(op'.work) :
                                        p \in plugins \ ToSet(op.work)
                                        \/ failed'[p] \notin {"none", "session"}
                                        \/ p \in readied' \cup masked',
           On({"on_ready"}) => Top.plugin \in readied' \cup masked'
                               \/ failed'[Top.plugin] \notin {"none", "session"}
                               \/ Top.plugin \notin plugins'
                               \/ UNCHANGED stack
    PROVE  Readied'
<1>1. ASSUME NEW p \in plugins', ready, ~shutdown, failed'[p] \in {"none", "session"}
      PROVE  p \in readied' \cup masked' \/ (On({"on_ready"})' /\ Top'.plugin = p)
  <2>1. CASE failed[p] \in {"none", "session"}
    <3>1. p \in plugins
      OBVIOUS
    <3>2. p \in readied \cup masked \/ (On({"on_ready"}) /\ Top.plugin = p)
      BY <1>1, <2>1, <3>1 DEF Readied
    <3>3. CASE p \in readied \cup masked
      BY <3>3
    <3>4. CASE On({"on_ready"}) /\ Top.plugin = p
      BY <1>1, <3>4 DEF On, Top
    <3>5. QED
      BY <3>2, <3>3, <3>4
  <2>2. CASE failed[p] \notin {"none", "session"}
    BY <1>1, <2>2
  <2>3. QED
    BY <2>1, <2>2
<1>2. ASSUME op'.stage = "ready", NEW p \in plugins' \ ToSet(op'.work),
             failed'[p] \in {"none", "session"}
      PROVE  p \in readied' \cup masked'
  <2>1. CASE p \in plugins \ ToSet(op.work) /\ failed[p] \in {"none", "session"}
    <3>1. p \in readied \cup masked
      BY <1>2, <2>1 DEF Readied
    <3>2. QED
      BY <3>1
  <2>2. CASE ~(p \in plugins \ ToSet(op.work) /\ failed[p] \in {"none", "session"})
    BY <1>2, <2>2
  <2>3. QED
    BY <2>1, <2>2
<1>3. (booted > 2 \/ (booted = 2 /\ request[Boot] = Idle))' => ready' \/ shutdown'
  BY DEF Readied
<1>4. QED
  BY <1>1, <1>2, <1>3 DEF Readied

LEMMA LoadStepReadied == Sound /\ Readied /\ LoadStep => Readied'
<1> SUFFICES ASSUME Sound, Readied, LoadStep PROVE Readied'
  OBVIOUS
<1> DEFINE p == Top.plugin
<1>1. ManagerType /\ TypeOK /\ Frames
  BY TypesInParts DEF Sound, Control
<1>2. UNCHANGED <<ready, shutdown, booted, request>> /\ op'.stage = op.stage
  BY <1>1, LoadStepEffect DEF WorkEffect, SameOperation, lock, stopping
<1>3. masked' = masked /\ op.stage \in Loading /\ op'.stage # "ready"
  <2>1. masked' = masked
    BY DEF LoadStep, SkipLoad, BeginLoad, ImportFails, ImportDone, LoadDependency, OnLoad, Loaded,
           OnLoadFails, CleanedUp, OnReady, OnReadyFails, history
  <2>2. op.stage \in Loading
    <3>1. CASE stack = <<>>
      BY <3>1 DEF LoadStep, SkipLoad, BeginLoad, ImportFails, ImportDone, LoadDependency, OnLoad,
                  Loaded, OnLoadFails, CleanedUp, OnReady, OnReadyFails, At
    <3>2. CASE stack # <<>>
      <4>1. Top.at \in {"import", "deps", "on_load", "cleanup", "on_ready"}
        BY <3>2 DEF LoadStep, SkipLoad, BeginLoad, ImportFails, ImportDone, LoadDependency, OnLoad,
                    Loaded, OnLoadFails, CleanedUp, OnReady, OnReadyFails, At, Between
      <4>2. QED
        BY <3>2, <4>1, WhereWorking
    <3>3. QED
      BY <3>1, <3>2
  <2>3. QED
    BY <1>2, <2>1, <2>2 DEF Loading
<1>4. ASSUME plugins' = plugins, readied \subseteq readied',
             \A q \in Plugins : failed'[q] \in {"none", "session"} => failed[q] \in {"none", "session"},
             On({"on_ready"}) => p \in readied' \/ failed'[p] \notin {"none", "session"}
      PROVE  Readied'
  BY <1>1, <1>2, <1>3, <1>4, QuietReadied DEF ManagerType
<1>5. CASE SkipLoad \/ BeginLoad \/ ImportDone \/ OnLoad
  <2>1. UNCHANGED <<plugins, failed, readied>> /\ ~On({"on_ready"})
    BY <1>5 DEF SkipLoad, BeginLoad, ImportDone, OnLoad, Between, At, On, manager
  <2>2. QED
    BY <1>4, <2>1
<1>6. CASE ImportFails \/ LoadDependency \/ CleanedUp
  <2>1. UNCHANGED <<plugins, readied>> /\ ~On({"on_ready"})
        /\ (failed' = failed \/ failed' = MarkNew(failed, OnStack))
    BY <1>6 DEF ImportFails, LoadDependency, CleanedUp, Raise, At, On
  <2>2. \A q \in Plugins : failed'[q] \in {"none", "session"} => failed[q] \in {"none", "session"}
    BY <1>1, <2>1, MarkNewFacts DEF ManagerType
  <2>3. QED
    BY <1>4, <2>1, <2>2
<1>7. CASE OnLoadFails \/ OnReadyFails
  <2>1. UNCHANGED <<plugins, readied>> /\ failed' = Mark({p}, "other") /\ stack # <<>>
    BY <1>7 DEF OnLoadFails, OnReadyFails, At
  <2>2. \A q \in Plugins : failed'[q] = IF q = p THEN "other" ELSE failed[q]
    BY <1>1, <2>1, MarkFacts DEF ManagerType, Reasons
  <2>3. p \in Plugins
    BY <1>1, <2>1, StackFacts DEF ManagerType
  <2>4. QED
    BY <1>4, <2>1, <2>2, <2>3
<1>8. CASE OnReady
  BY <1>4, <1>8 DEF OnReady
<1>9. CASE Loaded
  <2>1. /\ stack # <<>> /\ Top.at = "on_load" /\ plugins' = plugins \cup {p}
        /\ failed' = Mark({p}, "none") /\ UNCHANGED readied
        /\ ready => GoTo("on_ready")
    BY <1>9 DEF Loaded, At
  <2>2. \A q \in Plugins : failed'[q] = IF q = p THEN "none" ELSE failed[q]
    BY <1>1, <2>1, MarkFacts DEF ManagerType, Reasons
  <2>3. ready => On({"on_ready"})' /\ Top'.plugin = p
    BY <1>1, <2>1, GoToFacts DEF ManagerType, Places, InHook, On
  <2>4. ASSUME NEW q \in plugins', ready', ~shutdown', failed'[q] \in {"none", "session"}
        PROVE  q \in readied' \cup masked' \/ (On({"on_ready"})' /\ Top'.plugin = q)
    <3>1. CASE q = p
      BY <1>2, <2>3, <2>4, <3>1
    <3>2. CASE q # p
      <4>1. q \in plugins /\ q \in Plugins /\ ~On({"on_ready"})
        BY <1>1, <2>1, <2>4, <3>2 DEF ManagerType, On
      <4>2. QED
        BY <1>2, <1>3, <2>1, <2>2, <2>4, <3>2, <4>1 DEF Readied
    <3>3. QED
      BY <3>1, <3>2
  <2>5. (booted > 2 \/ (booted = 2 /\ request[Boot] = Idle))' => ready' \/ shutdown'
    BY <1>2 DEF Readied
  <2>6. QED
    BY <1>3, <2>4, <2>5 DEF Readied
<1>10. QED
  BY <1>5, <1>6, <1>7, <1>8, <1>9 DEF LoadStep

LEMMA UnloadStepReadied == Sound /\ Readied /\ UnloadStep => Readied'
<1> SUFFICES ASSUME Sound, Readied, UnloadStep PROVE Readied'
  OBVIOUS
<1> DEFINE p == Top.plugin
<1>1. ManagerType /\ TypeOK /\ Frames
  BY TypesInParts DEF Sound, Control
<1>2. UNCHANGED <<ready, shutdown, booted, request>> /\ op'.stage = op.stage
  BY <1>1, UnloadStepEffect DEF WorkEffect, SameOperation, lock, stopping
<1>3. masked' = masked /\ ~On({"on_ready"}) /\ op.stage # "ready"
  <2>1. masked' = masked /\ ~On({"on_ready"})
    BY DEF UnloadStep, BeginUnload, OnUnload, UnloadFails, Unloaded, history, Between, At, On
  <2>2. CASE BeginUnload
    BY <2>1, <2>2 DEF BeginUnload, Unloading
  <2>3. CASE ~BeginUnload
    <3>1. stack # <<>> /\ Top.at \in {"on_unload", "tasks"}
      BY <2>3 DEF UnloadStep, OnUnload, UnloadFails, Unloaded, At
    <3>2. QED
      BY <2>1, <3>1, WhereWorking DEF Loading, Unloading
  <2>4. QED
    BY <2>2, <2>3
<1>4. CASE BeginUnload \/ OnUnload \/ UnloadFails
  <2>1. UNCHANGED <<plugins, readied>> /\ (failed' = failed \/ failed' = MarkNew(failed, OnStack))
    BY <1>4 DEF BeginUnload, OnUnload, UnloadFails, UnloadReturns, manager
  <2>2. \A q \in Plugins : failed'[q] \in {"none", "session"} => failed[q] \in {"none", "session"}
    BY <1>1, <2>1, MarkNewFacts DEF ManagerType
  <2>3. QED
    BY <1>1, <1>2, <1>3, <2>1, <2>2, QuietReadied DEF ManagerType
<1>5. CASE Unloaded
  <2> DEFINE m == Mark({p}, "none")
  <2>1. /\ plugins' = plugins \ {p} /\ readied' = readied \ {p}
        /\ failed' = m \/ failed' = MarkNew(m, OnStack)
    BY <1>5 DEF Unloaded, UnloadReturns
  <2>2. m \in [Plugins -> Reasons] /\ \A q \in Plugins : q # p => m[q] = failed[q]
    BY <1>1, MarkFacts DEF ManagerType, Reasons
  <2> HIDE DEF m
  <2>3. \A q \in Plugins : q # p /\ failed'[q] \in {"none", "session"} => failed[q] \in {"none", "session"}
    BY <2>1, <2>2, MarkNewFacts
  <2>4. QED
    BY <1>1, <1>2, <1>3, <2>1, <2>3, QuietReadied DEF ManagerType
<1>6. QED
  BY <1>4, <1>5 DEF UnloadStep

LEMMA HookStepReadied == Sound /\ Readied /\ HookStep => Readied'
<1> SUFFICES ASSUME Sound, Readied, HookStep PROVE Readied'
  OBVIOUS
<1> DEFINE p == Top.plugin
           h == Head(op.work)
<1>1. ManagerType /\ TypeOK /\ Frames
  BY TypesInParts DEF Sound, Control
<1>2. UNCHANGED <<ready, shutdown, booted, request>> /\ op'.stage = op.stage
  BY <1>1, HookStepEffect DEF WorkEffect, SameOperation, lock, stopping
<1>3. plugins' = plugins /\ masked \subseteq masked' /\ readied \subseteq readied' /\ ~On({"on_ready"})
  BY DEF HookStep, BeginHook, ReadyHook, SessionHook, HookFails, BeginRestart, WorkersStopped,
         Restarted, history, Between, At, On, manager
<1>4. op.work # <<>> /\ op \in Operations /\ op.work \in Seq(Plugins) /\ h \in Plugins
      /\ ToSet(op.work) = {h} \cup ToSet(Tail(op.work))
  <2>1. op.work # <<>>
    BY <1>1 DEF HookStep, BeginHook, ReadyHook, SessionHook, HookFails, BeginRestart,
                WorkersStopped, Restarted, Between, At, Frames
  <2>2. op \in Operations /\ op.work \in Seq(Plugins)
    BY <1>1 DEF ManagerType, Operations
  <2>3. QED
    BY <2>1, <2>2, TailFacts
<1>5. op'.work = op.work \/ op'.work = Tail(op.work)
  <2>1. UNCHANGED op \/ Done(TRUE) \/ Done(FALSE)
    BY DEF HookStep, BeginHook, ReadyHook, SessionHook, HookFails, BeginRestart, WorkersStopped,
           Restarted
  <2>2. QED
    BY <1>4, <2>1, DoneFacts
<1>6. stack # <<>> => p \in Plugins /\ (op.stage \notin Loading => p = h)
  BY <1>1, WhereWorking DEF Sound, Frames
<1>7. ASSUME \A q \in Plugins : failed'[q] \in {"none", "session"} =>
                failed[q] \in {"none", "session"} \/ q \in readied' \cup masked',
             op.stage = "ready" /\ op'.work # op.work =>
                failed'[h] \notin {"none", "session"} \/ h \in readied' \cup masked'
      PROVE  Readied'
  <2>1. op.stage = "ready" => \A q \in plugins' \ ToSet(op'.work) :
            \/ q \in plugins \ ToSet(op.work)
            \/ failed'[q] \notin {"none", "session"}
            \/ q \in readied' \cup masked'
    BY <1>3, <1>4, <1>5, <1>7
  <2>2. QED
    BY <1>1, <1>2, <1>3, <1>7, <2>1, QuietReadied DEF ManagerType
<1>8. \A q \in Plugins, x \in Plugins, reason \in {"none", "session", "blocked", "other"} :
        failed' = Mark({x}, reason) => failed'[q] = IF q = x THEN reason ELSE failed[q]
  BY <1>1, MarkFacts DEF ManagerType, Reasons
<1>9. CASE BeginHook
  <2>1. \/ UNCHANGED <<failed, op>>
        \/ failed' = Mark({h}, IF op.stage = "session" THEN "blocked" ELSE "other")
    BY <1>9 DEF BeginHook
  <2>2. CASE UNCHANGED <<failed, op>>
    BY <1>7, <2>2
  <2>3. CASE failed' = Mark({h}, IF op.stage = "session" THEN "blocked" ELSE "other")
    <3>1. \A q \in Plugins : IF q = h THEN failed'[q] \in {"blocked", "other"}
                                      ELSE failed'[q] = failed[q]
      BY <1>4, <1>8, <2>3
    <3>2. QED
      BY <1>4, <1>7, <3>1
  <2>4. QED
    BY <2>1, <2>2, <2>3
<1>10. CASE ReadyHook
  <2>1. /\ stack # <<>> /\ Top.at = "ready" /\ readied' = readied \cup {p}
        /\ failed' = Mark({p}, "none")
    BY <1>10 DEF ReadyHook, At
  <2>2. p = h
    BY <1>6, <2>1, WhereWorking DEF Loading
  <2>3. \A q \in Plugins : q = p \/ failed'[q] = failed[q]
    BY <1>6, <1>8, <2>1
  <2>4. QED
    BY <1>7, <2>1, <2>2, <2>3
<1>11. CASE SessionHook
  <2>1. /\ stack # <<>> /\ Top.at = "session"
        /\ failed' = IF failed[p] = "session" THEN Mark({p}, "none") ELSE failed
    BY <1>11 DEF SessionHook, At
  <2>2. op.stage = "session"
    BY <2>1, WhereWorking
  <2>3. \A q \in Plugins : failed'[q] = failed[q] \/ failed[q] = "session"
    BY <1>6, <1>8, <2>1
  <2>4. QED
    BY <1>7, <2>2, <2>3
<1>12. CASE HookFails
  <2>1. /\ stack # <<>> /\ Top.at \in {"ready", "session"}
        /\ failed' = Mark({p}, IF Top.at = "session" THEN "session" ELSE "other")
        /\ masked' = IF Top.at = "session" /\ failed[p] # "none" THEN masked \cup {p} ELSE masked
    BY <1>12 DEF HookFails, At
  <2>2. op.stage = Top.at /\ p = h
    BY <1>6, <2>1, WhereWorking DEF Loading
  <2>3. \A q \in Plugins :
            IF q = p THEN failed'[q] = IF Top.at = "session" THEN "session" ELSE "other"
                     ELSE failed'[q] = failed[q]
    BY <1>6, <1>8, <2>1
  <2>4. QED
    BY <1>4, <1>7, <2>1, <2>2, <2>3
<1>13. CASE BeginRestart \/ WorkersStopped
  <2>1. UNCHANGED failed /\ op.stage # "ready"
    <3>1. CASE BeginRestart
      BY <3>1 DEF BeginRestart, manager
    <3>2. CASE WorkersStopped
      <4>1. stack # <<>> /\ Top.at = "stop" /\ UNCHANGED failed
        BY <3>2 DEF WorkersStopped, At
      <4>2. QED
        BY <4>1, WhereWorking
    <3>3. QED
      BY <1>13, <3>1, <3>2
  <2>2. QED
    BY <1>7, <2>1
<1>14. CASE Restarted
  <2>1. /\ stack # <<>> /\ Top.at = "restart"
        /\ \/ failed' = Mark({p}, "none") /\ readied' = readied \cup {p}
           \/ failed' = Mark({p}, "other")
    BY <1>14 DEF Restarted, At
  <2>2. op.stage = "restart"
    BY <2>1, WhereWorking
  <2>3. \A q \in Plugins : failed'[q] = failed[q] \/ failed'[q] = "other" \/ q \in readied'
    BY <1>6, <1>8, <2>1
  <2>4. QED
    BY <1>7, <2>2, <2>3
<1>15. QED
  BY <1>9, <1>10, <1>11, <1>12, <1>13, <1>14 DEF HookStep

LEMMA AcquiredReady ==
    ASSUME Sound, Acquire, op'.stage = "ready"
    PROVE  plugins' \subseteq ToSet(op'.work)
<1> DEFINE r == request[Head(queue)]
<1>1. op' \in FirstStage(r) /\ plugins' = plugins /\ plugins \subseteq Plugins
  BY TypesInParts DEF Acquire, Sound, Control, ManagerType, manager
<1>2. r \in Requests /\ r.kind # "idle" /\ (r.kind \in OnePlugin => r.plugin \in Plugins)
  BY NoQueue DEF Acquire, Sound, Control, Requested
<1> HIDE DEF r
<1>3. op'.kind = r.kind /\ op'.stage \in StagesOf(r.kind) /\ r.kind \in Kinds
  BY <1>1, <1>2, FirstStageType DEF Requests
<1>4. r.kind = "call_on_ready"
  BY <1>3 DEF StagesOf, Kinds
<1>5. PICK o \in SetToSeqs(plugins) \cup DependencyOrders(plugins) : op' = Operation(r, "ready", o, o)
  BY <1>1, <1>4 DEF FirstStage
<1>6. op'.work = o
  BY <1>5 DEF Operation, NoOp
<1>7. ToSet(o) = plugins
  BY <1>1, ChosenOrders
<1>8. QED
  BY <1>1, <1>6, <1>7

\* steps that change neither what is loaded nor how far the operation is
LEMMA WaitingReadied ==
    ASSUME Readied, UNCHANGED <<manager, op, stack, ready, masked>>, shutdown => shutdown',
           (booted > 2 \/ (booted = 2 /\ request[Boot] = Idle))' => ready \/ shutdown'
    PROVE  Readied'
<1>1. UNCHANGED <<plugins, failed, readied>>
  BY DEF manager
<1>2. \A p \in plugins : ready /\ ~shutdown' /\ failed[p] \in {"none", "session"} =>
            p \in readied \cup masked \/ (On({"on_ready"})' /\ Top'.plugin = p)
  BY DEF Readied, On, Top
<1>3. QED
  BY <1>1, <1>2 DEF Readied

LEMMA AdvanceReadied == Sound /\ Readied /\ Advance => Readied'
<1> SUFFICES ASSUME Sound, Readied, Advance PROVE Readied'
  OBVIOUS
<1>1. Busy /\ Working /\ stack = <<>> /\ op.work = <<>> /\ UNCHANGED <<manager, masked, shutdown>>
  BY DEF Advance, Working, Busy, history
<1>2. /\ op \in Operations
      /\ op.kind \in OnePlugin => op.plugin \in Plugins
      /\ op.stage \in StagesOf(op.kind) /\ op.kind = request[owner].kind
      /\ op.stage = "all down" => owner = Down /\ phase = "unloading"
      /\ op.stage = "ready" <=> op.kind = "call_on_ready"
      /\ owner \in Callers
  BY <1>1, OwnerFacts DEF Sound
<1>3. UNCHANGED <<plugins, failed, readied>> /\ ~On({"on_ready"})
  BY <1>1 DEF manager, On
<1>4. CASE NextStage # NoOp
  <2>1. op' = NextStage /\ UNCHANGED <<ready, request, booted, stack>>
    BY <1>4 DEF Advance, lock
  <2>2. op'.stage # "ready"
    <3>1. op'.stage \in Loading \cup {"target"}
      BY <1>2, <1>4, <2>1, NextStageFacts
    <3>2. QED
      BY <3>1 DEF Loading
  <2>3. QED
    BY <1>1, <1>3, <2>1, <2>2 DEF Readied, On
<1>5. CASE NextStage = NoOp
  <2>1. /\ op' = NoOp /\ stack' = <<>> /\ request' = [request EXCEPT ![owner] = Idle]
        /\ UNCHANGED booted
        /\ ready' = CASE op.stage = "ready" -> TRUE [] op.stage = "all down" -> FALSE [] OTHER -> ready
    BY <1>5 DEF Advance, Finish
  <2>2. op'.stage # "ready"
    BY <2>1, NoOpType
  <2>3. ToSet(op.work) = {}
    BY <1>1 DEF ToSet
  <2>4. op.stage = "all down" => shutdown
    BY <1>2 DEF Sound, Control, ShutdownOrder
  <2>5. ASSUME NEW p \in plugins', ready', ~shutdown', failed'[p] \in {"none", "session"}
        PROVE  p \in readied' \cup masked'
    <3>1. CASE op.stage = "ready"
      BY <1>1, <1>3, <2>3, <2>5, <3>1 DEF Readied
    <3>2. CASE op.stage # "ready"
      BY <1>1, <1>3, <2>1, <2>4, <2>5, <3>2 DEF Readied
    <3>3. QED
      BY <3>1, <3>2
  <2>6. (booted > 2 \/ (booted = 2 /\ request[Boot] = Idle))' => ready' \/ shutdown'
    <3>1. CASE op.stage \in {"ready", "all down"}
      BY <1>1, <2>1, <2>4, <3>1
    <3>2. CASE op.stage \notin {"ready", "all down"}
      <4>1. ready' = ready
        BY <2>1, <3>2
      <4>2. booted = 2 /\ request'[Boot] = Idle => request[Boot] = Idle
        <5>1. booted = 2 /\ owner = Boot => op.kind = "call_on_ready"
          <6>1. request[Boot] # Idle => request[Boot].kind = Script[booted]
            BY DEF Sound, Control, Requested
          <6>2. owner = Boot => request[Boot] # Idle
            BY <1>1, OwnerFacts DEF Sound
          <6>3. Script[2] = "call_on_ready"
            BY DEF Script
          <6>4. QED
            BY <1>2, <6>1, <6>2, <6>3
        <5>2. booted = 2 => owner # Boot
          BY <1>2, <3>2, <5>1
        <5>3. Boot \in Callers /\ request \in [Callers -> Requests]
          BY DEF Callers, Sound, Control, TypeOK
        <5>4. owner # Boot => request'[Boot] = request[Boot]
          BY <2>1, <5>3
        <5>5. QED
          BY <5>2, <5>4
      <4>3. booted > 2 \/ (booted = 2 /\ request[Boot] = Idle) => ready \/ shutdown
        BY DEF Readied
      <4>4. booted' = booted /\ shutdown' = shutdown
        BY <1>1, <2>1
      <4>5. QED
        BY <4>1, <4>2, <4>3, <4>4
    <3>3. QED
      BY <3>1, <3>2
  <2>7. QED
    BY <2>2, <2>5, <2>6 DEF Readied
<1>6. QED
  BY <1>4, <1>5

LEMMA OtherStepReadied == Sound /\ Readied /\ OtherStep => Readied'
<1> SUFFICES ASSUME Sound, Readied, OtherStep PROVE Readied'
  OBVIOUS
<1>1. UNCHANGED manager
  BY OtherSteps DEF Sound
<1>2. UNCHANGED <<plugins, failed, readied>>
  BY <1>1 DEF manager
<1>3. Boot \in Callers /\ Boot # Down /\ Boot \notin Admins /\ request \in [Callers -> Requests]
  BY PluginsAssumption DEF Callers, Sound, Control, TypeOK
<1>4. CASE Hang \/ SwallowCancellation \/ BeginShutdown \/ TargetEnds \/ GraceTimeout \/ CancelTimeout
  <2>1. UNCHANGED <<op, stack, ready, masked, request, booted>> /\ (shutdown => shutdown')
    BY <1>4 DEF Hang, SwallowCancellation, BeginShutdown, TargetEnds, GraceTimeout, CancelTimeout,
                running, history, lock, stopping
  <2>2. QED
    BY <1>1, <2>1, WaitingReadied DEF Readied
<1>5. CASE CallUnloadAll \/ \E c \in Admins, r \in PluginCommands \cup AllCommands : AdminCalls(c, r)
  <2>1. PICK c \in Admins \cup {Down} : \E r : request' = [request EXCEPT ![c] = r]
    BY <1>5 DEF CallUnloadAll, AdminCalls, Call
  <2>2. request'[Boot] = request[Boot]
    BY <1>3, <2>1
  <2>3. UNCHANGED <<op, stack, ready, masked, booted, shutdown>>
    BY <1>5 DEF CallUnloadAll, AdminCalls, Call, running, history, stopping
  <2>4. QED
    BY <1>1, <2>2, <2>3, WaitingReadied DEF Readied
<1>6. CASE BootCalls
  <2>1. /\ UNCHANGED <<op, stack, ready, masked, shutdown>> /\ booted' = booted + 1
        /\ request[Boot] = Idle /\ request'[Boot] # Idle /\ booted \in 0 .. 3
    <3>1. /\ UNCHANGED <<op, stack, ready, masked, shutdown>> /\ booted' = booted + 1
          /\ request[Boot] = Idle /\ booted \in 0 .. 3
      <4>1. booted \in 0 .. 3
        <5>1. Len(Script) = 4
          BY DEF Script
        <5>2. booted \in 0 .. Len(Script)
          BY DEF Sound, Control, TypeOK
        <5>3. booted < Len(Script)
          BY <1>6 DEF BootCalls
        <5>4. QED
          BY <5>1, <5>2, <5>3
      <4>2. QED
        BY <1>6, <4>1 DEF BootCalls, Call, running, history, stopping
    <3>2. request' = [request EXCEPT ![Boot] = [Idle EXCEPT !.kind = Script[booted + 1]]]
      BY <1>6 DEF BootCalls, Call
    <3>3. Script[booted + 1] # "idle"
      BY <3>1 DEF Script
    <3>4. QED
      BY <1>3, <3>1, <3>2, <3>3 DEF Idle
  <2>2. booted' > 2 => ready \/ shutdown
    BY <2>1 DEF Readied
  <2>3. QED
    BY <1>1, <2>1, <2>2, WaitingReadied
<1>7. CASE Reject
  <2>1. UNCHANGED <<op, stack, ready, masked, shutdown>> /\ shutdown
    BY <1>7 DEF Reject, Rejected, running, history, stopping
  <2>2. QED
    BY <1>1, <2>1, WaitingReadied
<1>8. CASE Acquire
  <2>1. UNCHANGED <<stack, ready, masked, shutdown, booted, request>> /\ stack = <<>>
    BY <1>8 DEF Acquire, history, stopping, Sound, Control, TypeOK
  <2>2. QED
    BY <1>2, <1>8, <2>1, AcquiredReady DEF Readied, On
<1>9. CASE TakeCancellation \/ UnloadTimeout
  <2>1. op' = NoOp /\ shutdown' = shutdown /\ phase \in {"cancel", "unloading"}
    BY <1>9 DEF TakeCancellation, UnloadTimeout, Unwind, Sound, Control, ShutdownOrder
  <2>2. shutdown'
    BY <2>1 DEF Sound, Control, ShutdownOrder
  <2>3. QED
    BY <2>1, <2>2, NoOpType DEF Readied
<1>10. QED
  BY <1>4, <1>5, <1>6, <1>7, <1>8, <1>9, AdvanceReadied DEF OtherStep, ShutdownStep

LEMMA ReadiedStep == Sound /\ Readied /\ [Next]_vars => Readied'
<1> SUFFICES ASSUME Sound, Readied, [Next]_vars PROVE Readied'
  OBVIOUS
<1>1. CASE UNCHANGED vars
  BY <1>1, WaitingReadied DEF vars, running, history, stopping, lock, Readied
<1>2. QED
  BY <1>1, LoadStepReadied, UnloadStepReadied, HookStepReadied, OtherStepReadied
  DEF Next, OtherStep

-----------------------------------------------------------------------------
(* The theorems *)

LEMMA InitInv == Init => Inv
<1> SUFFICES ASSUME Init PROVE Inv
  OBVIOUS
<1>1. /\ request \in [Callers -> Requests] /\ \A c \in Callers : request[c] = Idle
      /\ Idle.kind = "idle" /\ Boot \in Callers /\ Down \in Callers
  <2>1. Idle \in Requests /\ Idle.kind = "idle"
    BY NoOpType DEF Idle
  <2>2. QED
    BY <2>1 DEF Init, Callers
<1>2. op \in Operations /\ op.stage = "none" /\ op.kind = "idle" /\ op.work = <<>>
      /\ stack = <<>> /\ owner = Nobody /\ queue = <<>>
  BY NoOpType DEF Init
<1>3. TypeOK
  <2>1. queue \in Seq(Callers) /\ IsInjective(queue)
    BY <1>2 DEF IsInjective
  <2>2. stack \in Seq([plugin : Plugins, at : Places])
    BY <1>2
  <2>3. /\ failed \in [Plugins -> Reasons] /\ handlers \in [Plugins -> Nat]
        /\ {plugins, commands, workers, readied, stubborn, abandoned, masked} \subseteq SUBSET Plugins
        /\ {ready, hung, shutdown, cancelled, forced} \subseteq BOOLEAN
    BY DEF Init, Reasons
  <2>4. booted \in 0 .. Len(Script) /\ phase \in Phases /\ target \in Callers \cup {Nobody}
        /\ given \in 0 .. MaxCommands /\ faults \in 0 .. MaxFaults
    BY PluginsAssumption DEF Init, Script, Phases
  <2>5. op = NoOp /\ ~hung
    BY DEF Init
  <2>6. QED
    BY <1>1, <1>2, <2>1, <2>2, <2>3, <2>4, <2>5 DEF TypeOK
<1>4. Requested
  BY <1>1, <1>2 DEF Requested, Busy, OnePlugin
<1>5. ShutdownOrder
  BY <1>1, <1>2 DEF ShutdownOrder, Init
<1>6. Frames /\ LoadFrames
  BY <1>2 DEF Frames, LoadFrames, Loading
<1>7. Ordered /\ DependenciesLoaded /\ Registered /\ Readied /\ Emptied
  BY <1>1, <1>2 DEF Ordered, DependenciesLoaded, Complete, Registered, Readied, Emptied, On, Init
<1>8. QED
  BY <1>3, <1>4, <1>5, <1>6, <1>7 DEF Inv

LEMMA InvStep == Inv /\ [Next]_vars => Inv'
BY SoundStep, ChainedStep, RegisteredStep, ReadiedStep, EmptiedStep
DEF Inv, Sound, Control, Chained

THEOREM InvHolds == Spec => []Inv
BY InitInv, InvStep, PTL DEF Spec

\* The lifecycle lock has at most one owner, which is in an operation; nobody
\* waits for it twice, and the operation it is in works on plugins.
THEOREM LifecycleIsTyped == Spec => []TypeOK
<1>1. Inv => TypeOK
  BY DEF Inv
<1>2. QED
  BY <1>1, InvHolds, PTL

\* load(), unload(), a reload with its dependents, a reload of everything and
\* the shutdown never leave a plugin loaded without those it requires, whatever
\* fails on the way, unless an unload was forced or has failed.
THEOREM DependenciesAreAlwaysLoaded == Spec => []DependenciesLoaded
<1>1. Inv => DependenciesLoaded
  BY DEF Inv
<1>2. QED
  BY <1>1, InvHolds, PTL

\* A plugin's handler, its commands and its workers are there exactly while it
\* is loaded, and a loaded plugin that has not failed has had its on_ready.
THEOREM RegistryIsAlwaysExact == Spec => []RegistryIsExact
<1>1. ASSUME Inv PROVE RegistryIsExact
  <2>1. \A at : On(at) => Top.plugin \in OnStack
    BY <1>1, StackFacts DEF Inv, TypeOK, FrameSet, On
  <2>2. NoLeftovers
    BY <1>1, <2>1 DEF Inv, Registered, NoLeftovers
  <2>3. HealthyIsReady
    BY <1>1, <2>1 DEF Inv, Readied, HealthyIsReady
  <2>4. QED
    BY <2>2, <2>3 DEF RegistryIsExact
<1>2. QED
  BY <1>1, InvHolds, PTL

\* Once the shutdown unloads, nothing loads any more, and a shutdown that
\* reports success has unloaded every plugin.
THEOREM TheShutdownNeverLoads == Spec => UnloadingNeverLoads
<1> DEFINE Kept == /\ phase \in Late => plugins' \subseteq plugins
                   /\ phase' = "ok" => plugins' = {}
<1>1. ASSUME Inv, [Next]_vars PROVE Kept
  <2>1. phase \in Late => plugins' \subseteq plugins
    BY <1>1, OnlyLoadedLoads, LateNeverLoads DEF Inv, Sound, Control
  <2>2. Emptied'
    BY <1>1, InvStep DEF Inv
  <2>3. phase' = "ok" => plugins' = {}
    BY <2>2, Zenon DEF Emptied
  <2>4. QED
    BY <2>1, <2>3
<1>2. Inv /\ [Next]_vars => [Kept]_vars
  BY <1>1
<1>3. Spec => [][Kept]_vars
  <2> HIDE DEF Kept
  <2>1. QED
    BY <1>2, InvHolds, PTL DEF Spec
<1>4. QED
  BY <1>3 DEF UnloadingNeverLoads, Late
=================================================================================
