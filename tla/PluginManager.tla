---------------------------- MODULE PluginManager ----------------------------
(***************************************************************************)
(* utils/plugin_manager.py and its mixins: loading, unloading and          *)
(* reloading plugins that depend on each other, one lifecycle operation at *)
(* a time, and the shutdown that pre-empts the operation in its way.       *)
(*                                                                         *)
(* An operation is a list of plugins to work through (`op.work`), a stage  *)
(* that says what is done to each and what follows, and the call stack of  *)
(* the plugin being worked on.  Between two actions an operation is        *)
(* suspended at an await: an import, a hook or the cancelling of workers.  *)
(*                                                                         *)
(* A hook may fail, hang, or swallow one cancellation.  What hooks do      *)
(* beyond registering one event handler and starting one supervised worker *)
(* is left out, and so is the inner `_lock`, which is only ever taken by   *)
(* the task that holds the lifecycle lock.                                 *)
(***************************************************************************)
EXTENDS Naturals, Sequences, FiniteSets, SequencesExt

CONSTANTS
    Plugins,        \* discoverable plugins
    Core,           \* those of core_plugins/
    Requires,       \* PLUGIN_META["requires"] of each
    Discovery,      \* Plugins in the order discover() returns them
    Admins,         \* command tasks that manage plugins
    Boot,           \* the process startup task
    Down,           \* the shutdown task
    Nobody,
    MaxCommands,    \* bound: lifecycle commands given
    MaxFaults       \* bound: hooks and cancellations that go wrong

Callers == Admins \cup {Boot, Down}

ASSUME PluginsAssumption ==
    /\ Core \subseteq Plugins
    /\ Requires \in [Plugins -> SUBSET Plugins]
    /\ Nobody \notin Plugins \cup Callers
    /\ Boot # Down /\ Boot \notin Admins /\ Down \notin Admins
    /\ Discovery \in Seq(Plugins) /\ ToSet(Discovery) = Plugins
    /\ {MaxCommands, MaxFaults} \subseteq Nat

VARIABLES
    plugins,        \* self.plugins; self.meta has the same keys
    failed,         \* failed_plugins: why, per plugin
    handlers,       \* per plugin: its live event handlers
    commands,       \* plugins whose commands are registered
    workers,        \* plugins with a supervised task
    readied,        \* plugins whose on_ready ran since they were loaded
    ready,          \* _ready
    owner,          \* _lifecycle_owner
    queue,          \* callers waiting for _lifecycle_lock, in order
    request,        \* per caller: the operation it is in
    booted,         \* calls made by startup and by the sessions after it
    op,             \* the owner's operation
    stack,          \* its call stack: the plugin being worked on, and why
    hung,           \* the hook it awaits never ends on its own
    shutdown,       \* _shutdown_requested
    phase,          \* of _shutdown_plugins
    target,         \* the owner it waits for
    cancelled,      \* that task has a cancellation to take
    forced,         \* history: a dependency was unloaded although a dependent stayed
    stubborn,       \* history: workers that survived a failed load
    abandoned,      \* history: plugins whose load was cancelled
    masked,         \* history: a session failure has replaced that of on_ready
    given, faults   \* bounds

manager == <<plugins, failed, handlers, commands, workers, readied>>
lock == <<owner, queue, request, booted>>
running == <<op, stack, hung>>
stopping == <<shutdown, phase, target, cancelled>>
history == <<forced, stubborn, abandoned, masked>>
bounds == <<given, faults>>
vars == <<manager, ready, lock, running, stopping, history, bounds>>

-----------------------------------------------------------------------------
(* The dependency graph *)

\* plugin_manager_dependencies.get_dependents, over the loaded plugins
DependentsOf(p) ==
    LET Closed(S) == \A q \in plugins : Requires[q] \cap (S \cup {p}) # {} => q \in S
    IN  {q \in plugins : \A S \in SUBSET plugins : Closed(S) => q \in S}

\* mutant: in the order of the names
DependencyOrders_ByName(S) == SetToSeqs(S)

\* plugin_manager_dependencies.topological_sort: dependencies first
Sorted(order) ==
    \A i, j \in DOMAIN order : order[i] \in Requires[order[j]] => i < j
DependencyOrders(S) == {order \in SetToSeqs(S) : Sorted(order)}

\* _loaded_dependency_order raises when a loaded plugin lacks a dependency
Complete == \A p \in plugins : Requires[p] \subseteq plugins

-----------------------------------------------------------------------------
(* The operation of the lock's owner *)

Idle == [kind |-> "idle", plugin |-> Nobody, flag |-> FALSE]
NoOp == [kind |-> "idle", plugin |-> Nobody, flag |-> FALSE, stage |-> "none",
         work |-> <<>>, errors |-> {}, order |-> <<>>, done |-> {}, progress |-> FALSE]

\* an operation r entering a stage that goes through the plugins of work
Enter(r, stage, work) == [r EXCEPT !.stage = stage, !.work = work, !.errors = {}]
Operation(r, stage, work, order) ==
    [NoOp EXCEPT !.kind = r.kind, !.plugin = r.plugin, !.flag = r.flag,
                 !.stage = stage, !.work = work, !.order = order]

Unloading == {"unload", "dependents", "target", "down", "all down"}
Loading == {"load", "restore", "again", "redo", "up", "pass", "rest"}
Hooking == {"ready", "session"}

Frame(p, at) == [plugin |-> p, at |-> at]
Top == Last(stack)
Push(f) == stack' = Append(stack, f)
GoTo(at) == stack' = [stack EXCEPT ![Len(stack)].at = at]
OnStack == {stack[i].plugin : i \in DOMAIN stack}

Working == owner # Nobody /\ op # NoOp /\ ~hung
Between == Working /\ stack = <<>> /\ op.work # <<>>
At(at) == Working /\ stack # <<>> /\ Top.at = at
Fault == faults < MaxFaults /\ faults' = faults + 1

\* the head of the work is done, well or not
Done(ok) ==
    /\ stack' = <<>>
    /\ op' = [op EXCEPT !.work = Tail(@),
                        !.errors = IF ok THEN @ ELSE @ \cup {Head(op.work)},
                        !.done = IF ok THEN @ \cup {Head(op.work)} ELSE @,
                        !.progress = @ \/ ok]

\* failed_plugins; a session hook clears only what it has recorded itself
Reasons == {"none", "session", "blocked", "other"}
Mark(S, reason) == [p \in Plugins |-> IF p \in S THEN reason ELSE failed[p]]
MarkNew(marked, S) ==
    [p \in Plugins |-> IF p \in S /\ marked[p] = "none" THEN "other" ELSE marked[p]]

\* an exception leaves every load() on the stack
Raise ==
    /\ failed' = MarkNew(failed, OnStack)
    /\ Done(FALSE)

\* the decorated method returns or raises: the lifecycle lock is released
Finish ==
    /\ op' = NoOp /\ stack' = <<>>
    /\ owner' = Nobody
    /\ request' = [request EXCEPT ![owner] = Idle]
    /\ UNCHANGED <<queue, booted, hung>>

-----------------------------------------------------------------------------
(* Taking the lifecycle lock *)

\* what process startup and each session call, in order
Script == <<"load_all", "call_on_ready", "call_on_session_ready", "call_on_session_ready">>

Init ==
    /\ plugins = {} /\ failed = [p \in Plugins |-> "none"]
    /\ commands = {} /\ workers = {} /\ readied = {}
    /\ handlers = [p \in Plugins |-> 0]
    /\ ready = FALSE
    /\ owner = Nobody /\ queue = <<>>
    /\ request = [c \in Callers |-> Idle] /\ booted = 0
    /\ op = NoOp /\ stack = <<>> /\ hung = FALSE
    /\ shutdown = FALSE /\ phase = "running" /\ target = Nobody /\ cancelled = FALSE
    /\ forced = FALSE /\ stubborn = {} /\ abandoned = {} /\ masked = {}
    /\ given = 0 /\ faults = 0

Call(c, r) ==
    /\ request[c] = Idle
    /\ request' = [request EXCEPT ![c] = r]
    /\ queue' = Append(queue, c)
    /\ UNCHANGED <<manager, ready, owner, running, history, faults>>

BootCalls ==
    /\ ~shutdown /\ booted < Len(Script)
    /\ Call(Boot, [Idle EXCEPT !.kind = Script[booted + 1]])
    /\ booted' = booted + 1
    /\ UNCHANGED <<stopping, given>>

\* commands are accepted once the first session is ready
CommandsOpen == booted >= 3 /\ ready /\ ~shutdown

AdminCalls(c, r) ==
    /\ CommandsOpen /\ given < MaxCommands
    /\ given' = given + 1
    /\ Call(c, r)
    /\ UNCHANGED <<booted, stopping>>

PluginCommands == [kind : {"load", "restart"}, plugin : Plugins, flag : {FALSE}]
                    \cup [kind : {"unload", "reload"}, plugin : Plugins, flag : BOOLEAN]
AllCommands == {[Idle EXCEPT !.kind = k] : k \in {"load_all", "reload_all"}}

\* mutant: the flag is checked only before queueing
Rejected_Never(c) == FALSE

\* The lock comes to the head of the queue; a caller that queued before the
\* shutdown began raises instead of starting
Rejected(c) == shutdown /\ request[c].kind # "unload_all"

Reject ==
    /\ owner = Nobody /\ queue # <<>> /\ Rejected(Head(queue))
    /\ queue' = Tail(queue)
    /\ request' = [request EXCEPT ![Head(queue)] = Idle]
    /\ UNCHANGED <<manager, ready, owner, booted, running, stopping, history, bounds>>

\* what each operation decides as soon as it has the lock
FirstStage(r) ==
    LET p == r.plugin IN
    CASE r.kind \in {"load", "unload", "restart"} -> {Operation(r, r.kind, <<p>>, <<>>)}
      [] r.kind = "reload" ->
           IF p \notin plugins \/ (DependentsOf(p) # {} /\ ~r.flag)
           THEN {Operation(r, "refused", <<>>, <<>>)}
           ELSE {Operation(r, "dependents", Reverse(o), o) : o \in DependencyOrders(DependentsOf(p))}
      [] r.kind = "reload_all" ->
           IF Complete THEN {Operation(r, "down", Reverse(o), o) : o \in DependencyOrders(plugins)}
                       ELSE {Operation(r, "refused", <<>>, <<>>)}
      [] r.kind = "unload_all" ->
           \* flag: the dependency graph was in order
           {Operation([r EXCEPT !.flag = Complete], "all down", Reverse(o), o) :
                o \in IF Complete THEN DependencyOrders(plugins) ELSE SetToSeqs(plugins)}
      [] r.kind = "load_all" ->
           {[Operation(r, "pass", Discovery, Discovery) EXCEPT !.done = plugins]}
      [] OTHER ->
           {Operation(r, IF r.kind = "call_on_ready" THEN "ready" ELSE "session", o, o) :
                o \in IF Complete THEN DependencyOrders(plugins) ELSE SetToSeqs(plugins)}

Acquire ==
    /\ owner = Nobody /\ queue # <<>> /\ ~Rejected(Head(queue))
    /\ owner' = Head(queue)
    /\ queue' = Tail(queue)
    /\ op' \in FirstStage(request[Head(queue)])
    /\ UNCHANGED <<manager, ready, request, booted, stack, hung, stopping, history, bounds>>

\* What follows when the work of a stage is done.  What is still loaded when its
\* turn comes is passed over (SkipLoad).
NextStage ==
    CASE op.stage = "dependents" ->
           IF op.errors # {} THEN Enter(op, "restore", op.order)
                             ELSE Enter(op, "target", <<op.plugin>>)
      [] op.stage = "target" ->
           IF op.errors # {} THEN Enter(op, "restore", op.order)
                             ELSE Enter(op, "again", <<op.plugin>>)
      [] op.stage = "again" /\ op.errors = {} -> Enter(op, "redo", op.order)
      [] op.stage = "down" -> Enter(op, "up", op.order)
      [] op.stage = "pass" /\ ~(Plugins \subseteq op.done) ->
           \* load_all keeps what failed; a pass without progress is the last
           IF op.progress THEN [op EXCEPT !.work = Discovery, !.progress = FALSE]
                          ELSE [op EXCEPT !.stage = "rest", !.work = Discovery]
      [] OTHER -> NoOp

Advance ==
    /\ Working /\ stack = <<>> /\ op.work = <<>>
    /\ IF NextStage # NoOp
       THEN /\ op' = NextStage
            /\ UNCHANGED <<ready, lock, stack, hung>>
       ELSE /\ Finish
            /\ ready' = CASE op.stage = "ready" -> TRUE
                          [] op.stage = "all down" -> FALSE
                          [] OTHER -> ready
    /\ phase' = IF NextStage # NoOp \/ op.stage # "all down" THEN phase
                ELSE IF op.flag /\ op.errors = {} THEN "ok" ELSE "partial"
    /\ UNCHANGED <<manager, shutdown, target, cancelled, history, bounds>>

-----------------------------------------------------------------------------
(* load(): dependencies first, then on_load, then on_ready *)

\* load_all passes over what it has dealt with and, before the last pass, over
\* what still waits for a dependency
PassedOver(p) ==
    \/ op.stage \in {"pass", "rest"} /\ p \in op.done \cup op.errors
    \/ op.stage = "pass" /\ ~(Requires[p] \subseteq op.done)

SkipLoad ==
    LET p == Head(op.work) IN
    /\ Between /\ op.stage \in Loading
    /\ \/ /\ PassedOver(p)
          /\ op' = [op EXCEPT !.work = Tail(@)]
          /\ UNCHANGED stack
       \/ /\ ~PassedOver(p) /\ p \in plugins
          /\ Done(TRUE)
    /\ UNCHANGED <<manager, ready, lock, hung, stopping, history, bounds>>

BeginLoad ==
    LET p == Head(op.work) IN
    /\ Between /\ op.stage \in Loading
    /\ ~PassedOver(p) /\ p \notin plugins
    /\ Push(Frame(p, "import"))
    /\ UNCHANGED <<manager, ready, lock, op, hung, stopping, history, bounds>>

\* the import, or the metadata, is broken
ImportFails ==
    /\ At("import") /\ Fault
    /\ Raise
    /\ UNCHANGED <<plugins, handlers, commands, workers, readied, ready, lock, hung,
                   stopping, history, given>>

ImportDone ==
    /\ At("import")
    /\ GoTo("deps")
    /\ UNCHANGED <<manager, ready, lock, op, hung, stopping, history, bounds>>

LoadDependency ==
    /\ At("deps")
    /\ \E d \in Requires[Top.plugin] \ plugins :
         IF d \in OnStack
         THEN Raise                        \* circular dependency
         ELSE Push(Frame(d, "import")) /\ UNCHANGED <<failed, op>>
    /\ UNCHANGED <<plugins, handlers, commands, workers, readied, ready, lock, hung,
                   stopping, history, bounds>>

\* the hook registers its event handler and starts its worker, then awaits
OnLoad ==
    LET p == Top.plugin IN
    /\ At("deps") /\ Requires[p] \subseteq plugins
    /\ GoTo("on_load")
    /\ handlers' = [handlers EXCEPT ![p] = @ + 1]
    /\ workers' = workers \cup {p}
    /\ UNCHANGED <<plugins, failed, commands, readied, ready, lock, op, hung,
                   stopping, history, bounds>>

\* a load() is over: the one below it on the stack goes on, or the item is done
Return == IF Len(stack) = 1 THEN Done(TRUE)
                            ELSE stack' = Front(stack) /\ UNCHANGED op

\* mutant: on_ready is left to call_on_ready
Loaded_NotReady ==
    LET p == Top.plugin IN
    /\ At("on_load")
    /\ plugins' = plugins \cup {p}
    /\ commands' = commands \cup {p}
    /\ failed' = Mark({p}, "none")
    /\ Return
    /\ UNCHANGED <<handlers, workers, readied, ready, lock, hung, stopping, history, bounds>>

Loaded ==
    LET p == Top.plugin IN
    /\ At("on_load")
    /\ plugins' = plugins \cup {p}
    /\ commands' = commands \cup {p}
    /\ failed' = Mark({p}, "none")
    /\ IF ready THEN GoTo("on_ready") /\ UNCHANGED op ELSE Return
    /\ UNCHANGED <<handlers, workers, readied, ready, lock, hung, stopping, history, bounds>>

\* mutant: the handlers of a failed load stay
OnLoadFails_KeepsHandlers ==
    LET p == Top.plugin IN
    /\ At("on_load") /\ Fault
    /\ GoTo("cleanup")
    /\ failed' = Mark({p}, "other")
    /\ commands' = commands \ {p}
    /\ UNCHANGED <<plugins, handlers, workers, readied, ready, lock, op, hung, stopping,
                   history, given>>

OnLoadFails ==
    LET p == Top.plugin IN
    /\ At("on_load") /\ Fault
    /\ GoTo("cleanup")
    /\ failed' = Mark({p}, "other")
    /\ commands' = commands \ {p}
    /\ handlers' = [handlers EXCEPT ![p] = 0]
    /\ UNCHANGED <<plugins, workers, readied, ready, lock, op, hung, stopping, history, given>>

\* _cleanup_failed_load is best effort: it does not insist on the workers
CleanedUp ==
    LET p == Top.plugin IN
    /\ At("cleanup")
    /\ \/ /\ workers' = workers \ {p}
          /\ UNCHANGED <<stubborn, faults>>
       \/ /\ Fault
          /\ stubborn' = stubborn \cup {p}
          /\ UNCHANGED workers
    /\ Raise
    /\ UNCHANGED <<plugins, handlers, commands, readied, ready, lock, hung, stopping,
                   forced, abandoned, masked, given>>

OnReady ==
    LET p == Top.plugin IN
    /\ At("on_ready")
    /\ readied' = readied \cup {p}
    /\ Return
    /\ UNCHANGED <<plugins, failed, handlers, commands, workers, ready, lock, hung,
                   stopping, history, bounds>>

\* on_ready fails: load() unloads the plugin again and raises
OnReadyFails ==
    LET p == Top.plugin IN
    /\ At("on_ready") /\ Fault
    /\ stack' = Append([stack EXCEPT ![Len(stack)].at = "refused"], Frame(p, "on_unload"))
    /\ failed' = Mark({p}, "other")
    /\ UNCHANGED <<plugins, handlers, commands, workers, readied, ready, lock, op, hung,
                   stopping, history, given>>

-----------------------------------------------------------------------------
(* unload(): on_unload, then the workers, then all the rest at once *)

ByForce == op.stage \notin {"unload", "target"} \/ (op.stage = "unload" /\ op.flag)
AllowCore == op.stage # "unload"

MayUnload(p) ==
    /\ p \in Core => AllowCore
    /\ ~ByForce => DependentsOf(p) = {}
    /\ p \in plugins

BeginUnload ==
    LET p == Head(op.work) IN
    /\ Between /\ op.stage \in Unloading
    /\ IF MayUnload(p) THEN Push(Frame(p, "on_unload")) /\ UNCHANGED op
                       ELSE Done(FALSE)
    /\ UNCHANGED <<manager, ready, lock, hung, stopping, history, bounds>>

OnUnload ==
    /\ At("on_unload")
    /\ GoTo("tasks")
    /\ UNCHANGED <<manager, ready, lock, op, hung, stopping, history, bounds>>

\* unload() was called by the stage, or by a load() whose on_ready failed
UnloadReturns(ok, stillFailed) ==
    IF Len(stack) = 1
    THEN Done(ok) /\ failed' = stillFailed
    ELSE Done(FALSE) /\ failed' = MarkNew(stillFailed, OnStack)

\* on_unload raises, or a worker ignores its cancellation
UnloadFails ==
    /\ At("on_unload") \/ At("tasks")
    /\ Fault
    /\ UnloadReturns(FALSE, failed)
    /\ UNCHANGED <<plugins, handlers, commands, workers, readied, ready, lock, hung,
                   stopping, history, given>>

Unloaded ==
    LET p == Top.plugin IN
    /\ At("tasks")
    /\ workers' = workers \ {p}
    /\ handlers' = [handlers EXCEPT ![p] = 0]
    /\ commands' = commands \ {p}
    /\ plugins' = plugins \ {p}
    /\ readied' = readied \ {p}
    /\ UnloadReturns(TRUE, Mark({p}, "none"))
    /\ forced' = (forced \/ /\ (op.stage = "unload" /\ op.flag) \/ op.errors # {}
                            /\ \E q \in plugins \ {p} : p \in Requires[q])
    /\ UNCHANGED <<ready, lock, hung, stopping, stubborn, abandoned, masked, bounds>>

-----------------------------------------------------------------------------
(* call_on_ready, call_on_session_ready, restart_tasks *)

\* a plugin waits for those it requires: not in this pass, or, in a session,
\* not while they are in failed_plugins
BlockedBy(p) ==
    {d \in Requires[p] : \/ d \in op.errors
                         \/ op.stage = "session" /\ failed[d] # "none"}

BeginHook ==
    LET p == Head(op.work) IN
    /\ Between /\ op.stage \in Hooking
    /\ IF BlockedBy(p) = {}
       THEN Push(Frame(p, op.stage)) /\ UNCHANGED <<failed, op>>
       ELSE /\ failed' = Mark({p}, IF op.stage = "session" THEN "blocked" ELSE "other")
            /\ Done(FALSE)
    /\ UNCHANGED <<plugins, handlers, commands, workers, readied, ready, lock, hung,
                   stopping, history, bounds>>

ReadyHook ==
    LET p == Top.plugin IN
    /\ At("ready")
    /\ readied' = readied \cup {p}
    /\ failed' = Mark({p}, "none")
    /\ Done(TRUE)
    /\ UNCHANGED <<plugins, handlers, commands, workers, ready, lock, hung, stopping,
                   history, bounds>>

SessionHook ==
    LET p == Top.plugin IN
    /\ At("session")
    /\ failed' = IF failed[p] = "session" THEN Mark({p}, "none") ELSE failed
    /\ Done(TRUE)
    /\ UNCHANGED <<plugins, handlers, commands, workers, readied, ready, lock, hung,
                   stopping, history, bounds>>

HookFails ==
    LET p == Top.plugin IN
    /\ At("ready") \/ At("session")
    /\ Fault
    /\ failed' = Mark({p}, IF Top.at = "session" THEN "session" ELSE "other")
    /\ masked' = IF Top.at = "session" /\ failed[p] # "none" THEN masked \cup {p} ELSE masked
    /\ Done(FALSE)
    /\ UNCHANGED <<plugins, handlers, commands, workers, readied, ready, lock, hung,
                   stopping, forced, stubborn, abandoned, given>>

\* restart_tasks cancels the workers, then runs the hook that starts them
BeginRestart ==
    LET p == Head(op.work) IN
    /\ Between /\ op.stage = "restart"
    /\ IF p \in plugins THEN Push(Frame(p, "stop")) /\ UNCHANGED op ELSE Done(FALSE)
    /\ UNCHANGED <<manager, ready, lock, hung, stopping, history, bounds>>

WorkersStopped ==
    /\ At("stop")
    /\ \/ /\ workers' = workers \ {Top.plugin}
          /\ GoTo("restart")
          /\ UNCHANGED <<op, faults>>
       \/ /\ Fault /\ Done(FALSE)           \* a worker ignores its cancellation
          /\ UNCHANGED workers
    /\ UNCHANGED <<plugins, failed, handlers, commands, readied, ready, lock, hung,
                   stopping, history, given>>

Restarted ==
    LET p == Top.plugin IN
    /\ At("restart")
    /\ \/ /\ failed' = Mark({p}, "none")
          /\ workers' = workers \cup {p}
          /\ readied' = readied \cup {p}
          /\ Done(TRUE)
          /\ UNCHANGED faults
       \/ /\ Fault
          /\ failed' = Mark({p}, "other")
          /\ Done(FALSE)
          /\ UNCHANGED <<workers, readied>>
    /\ UNCHANGED <<plugins, handlers, commands, ready, lock, hung, stopping, history, given>>

-----------------------------------------------------------------------------
(* Hooks that hang, and the shutdown: quiesce_for_shutdown, then unload_all *)

InHook == {"on_load", "on_ready", "on_unload", "ready", "session", "restart"}

Hang ==
    /\ Working /\ stack # <<>> /\ Top.at \in InHook
    /\ Fault
    /\ hung' = TRUE
    /\ UNCHANGED <<manager, ready, lock, op, stack, stopping, history, given>>

\* mutant: the owner is not reset in a `finally`
Unwind_KeepsOwner ==
    /\ op' = NoOp /\ stack' = <<>> /\ hung' = FALSE
    /\ request' = [request EXCEPT ![owner] = Idle]
    /\ ready' = (ready \/ op.stage = "ready")
    /\ abandoned' = abandoned \cup (OnStack \ plugins)
    /\ UNCHANGED <<manager, owner, queue, booted, forced, stubborn, masked>>

\* CancelledError unwinds the operation: no `except Exception` sees it, only
\* the `finally` clauses run
Unwind ==
    /\ op' = NoOp /\ stack' = <<>> /\ hung' = FALSE
    /\ owner' = Nobody
    /\ request' = [request EXCEPT ![owner] = Idle]
    /\ ready' = (ready \/ op.stage = "ready")
    /\ abandoned' = abandoned \cup (OnStack \ plugins)
    /\ UNCHANGED <<manager, queue, booted, forced, stubborn, masked>>

TakeCancellation ==
    /\ cancelled /\ owner = target
    /\ cancelled' = FALSE
    /\ Unwind
    /\ UNCHANGED <<shutdown, phase, target, bounds>>

\* a hook catches its CancelledError and goes on
SwallowCancellation ==
    /\ cancelled /\ owner = target /\ stack # <<>> /\ Top.at \in InHook
    /\ Fault
    /\ cancelled' = FALSE
    /\ UNCHANGED <<manager, ready, lock, running, shutdown, phase, target, history, given>>

Ended(c) == request[c] = Idle

BeginShutdown ==
    /\ phase = "running"
    /\ shutdown' = TRUE
    /\ target' = owner
    /\ phase' = IF owner = Nobody THEN "unload" ELSE "grace"
    /\ UNCHANGED <<manager, ready, lock, running, cancelled, history, bounds>>

TargetEnds ==
    /\ phase \in {"grace", "cancel"} /\ Ended(target)
    /\ phase' = "unload" /\ cancelled' = FALSE
    /\ UNCHANGED <<manager, ready, lock, running, shutdown, target, history, bounds>>

GraceTimeout ==
    /\ phase = "grace" /\ ~Ended(target)
    /\ phase' = "cancel" /\ cancelled' = TRUE
    /\ UNCHANGED <<manager, ready, lock, running, shutdown, target, history, bounds>>

\* mutant: the cancelled owner is awaited without a timeout
CancelTimeout_None ==
    /\ phase = "cancel" /\ ~Ended(target) /\ ~cancelled /\ Ended(target)
    /\ phase' = "stuck"
    /\ UNCHANGED <<manager, ready, lock, running, shutdown, target, cancelled, history, bounds>>

\* the owner has swallowed its cancellation: the unload is skipped
CancelTimeout ==
    /\ phase = "cancel" /\ ~Ended(target) /\ ~cancelled
    /\ phase' = "stuck"
    /\ UNCHANGED <<manager, ready, lock, running, shutdown, target, cancelled, history, bounds>>

CallUnloadAll ==
    /\ phase = "unload"
    /\ Call(Down, [Idle EXCEPT !.kind = "unload_all"])
    /\ phase' = "unloading"
    /\ UNCHANGED <<booted, shutdown, target, cancelled, given>>

\* wait_for(unload_all(), 30)
UnloadTimeout ==
    /\ phase = "unloading" /\ owner = Down
    /\ phase' = "timeout"
    /\ Unwind
    /\ UNCHANGED <<shutdown, target, cancelled, bounds>>

-----------------------------------------------------------------------------
LoadStep == \/ SkipLoad \/ BeginLoad \/ ImportFails \/ ImportDone \/ LoadDependency
            \/ OnLoad \/ Loaded \/ OnLoadFails \/ CleanedUp \/ OnReady \/ OnReadyFails
UnloadStep == BeginUnload \/ OnUnload \/ UnloadFails \/ Unloaded
HookStep == \/ BeginHook \/ ReadyHook \/ SessionHook \/ HookFails
            \/ BeginRestart \/ WorkersStopped \/ Restarted
ShutdownStep == \/ TakeCancellation \/ TargetEnds \/ GraceTimeout \/ CancelTimeout
                \/ CallUnloadAll \/ UnloadTimeout

Next ==
    \/ BootCalls
    \/ \E c \in Admins, r \in PluginCommands \cup AllCommands : AdminCalls(c, r)
    \/ Reject \/ Acquire \/ Advance
    \/ LoadStep \/ UnloadStep \/ HookStep
    \/ Hang \/ SwallowCancellation
    \/ BeginShutdown \/ ShutdownStep

Spec == Init /\ [][Next]_vars

\* The event loop runs whatever can run and the shutdown's timers expire.  A
\* hook need not end: see Hang.
FairSpec ==
    /\ Spec
    /\ WF_vars(Reject) /\ WF_vars(Acquire) /\ WF_vars(Advance)
    /\ WF_vars(LoadStep) /\ WF_vars(UnloadStep) /\ WF_vars(HookStep)
    /\ WF_vars(TakeCancellation) /\ WF_vars(TargetEnds) /\ WF_vars(GraceTimeout)
    /\ WF_vars(CancelTimeout) /\ WF_vars(CallUnloadAll) /\ WF_vars(UnloadTimeout)

-----------------------------------------------------------------------------
(* Properties *)

Kinds == {"idle", "load", "restart", "unload", "reload", "load_all", "reload_all",
          "unload_all", "call_on_ready", "call_on_session_ready"}
Requests == [kind : Kinds, plugin : Plugins \cup {Nobody}, flag : BOOLEAN]
Stages == Unloading \cup Loading \cup Hooking \cup {"none", "refused", "restart"}
Operations ==
    [kind : Kinds, plugin : Plugins \cup {Nobody}, flag : BOOLEAN, stage : Stages,
     work : Seq(Plugins), errors : SUBSET Plugins, order : Seq(Plugins),
     done : SUBSET Plugins, progress : BOOLEAN]
Places == InHook \cup {"import", "deps", "cleanup", "refused", "tasks", "stop"}
Phases == {"running", "grace", "cancel", "unload", "unloading", "ok", "partial", "timeout", "stuck"}

(* Types: every collection holds plugins, the lock has at most one owner,   *)
(* which is in an operation, and nobody waits for it twice.                 *)
TypeOK ==
    /\ {plugins, commands, workers, readied, stubborn, abandoned, masked} \subseteq SUBSET Plugins
    /\ failed \in [Plugins -> Reasons]
    /\ handlers \in [Plugins -> Nat]
    /\ {ready, hung, shutdown, cancelled, forced} \subseteq BOOLEAN
    /\ request \in [Callers -> Requests]
    /\ owner \in Callers \cup {Nobody} /\ target \in Callers \cup {Nobody}
    /\ queue \in Seq(Callers) /\ IsInjective(queue)
    /\ owner # Nobody => request[owner] # Idle /\ op.kind = request[owner].kind
    /\ owner = Nobody => op = NoOp /\ stack = <<>> /\ ~hung
    /\ booted \in 0 .. Len(Script) /\ phase \in Phases
    /\ op \in Operations /\ stack \in Seq([plugin : Plugins, at : Places])
    /\ given \in 0 .. MaxCommands /\ faults \in 0 .. MaxFaults

(* No plugin runs without the plugins it requires: at no moment of a load,  *)
(* a reload with its dependents, a reload of everything or a shutdown, with *)
(* whatever fails on the way, unless an operation has unloaded a plugin     *)
(* against a dependent that was asked to be ignored or refused to unload.   *)
DependenciesLoaded == forced \/ Complete

(* What a plugin has registered is there exactly while the plugin is: one   *)
(* handler, not two after a reload, and its commands; no worker outlives    *)
(* its plugin.  Excepted are the plugins being loaded or unloaded, a worker *)
(* that survived a failed load, and a load that the shutdown cancelled.     *)
NoLeftovers ==
    \A p \in Plugins \ (OnStack \cup abandoned) :
        /\ handlers[p] = IF p \in plugins THEN 1 ELSE 0
        /\ p \in commands <=> p \in plugins
        /\ p \in workers => p \in plugins \cup stubborn

(* After startup a loaded plugin that is not reported as failed has had its *)
(* on_ready, however it was loaded, reloaded or restarted.  Excepted are    *)
(* those whose failed on_ready has given its place in failed_plugins to a   *)
(* failed session hook: the next session clears that one.                   *)
HealthyIsReady ==
    \A p \in plugins \ OnStack :
        ready /\ ~shutdown /\ failed[p] = "none" => p \in readied \cup masked

(* What a plugin has registered, and that it is ready, is so exactly while  *)
(* it is loaded.                                                            *)
RegistryIsExact == NoLeftovers /\ HealthyIsReady

(* Once the shutdown unloads, nothing loads any more: not what was queued   *)
(* behind the lock, not the operation that was cancelled.  And a shutdown   *)
(* that reports success has unloaded every plugin.                          *)
UnloadingNeverLoads ==
    [][ /\ phase \in {"unload", "unloading", "ok", "partial", "timeout"}
            => plugins' \subseteq plugins
        /\ phase' = "ok" => plugins' = {} ]_vars

(* The plugin phase of the shutdown ends, also when a hook hangs, whoever   *)
(* holds the lock, and when an operation ignores its cancellation.          *)
ShutdownEnds == shutdown ~> phase \in {"ok", "partial", "timeout", "stuck"}

(* docs/architecture.md:219: "`on_session_ready` is session-scoped and runs *)
(* after every successful XMPP session establishment, including             *)
(* reconnects": a hook is passed over only if a plugin it requires has      *)
(* failed in this session or failed to get ready.                           *)
SessionHooksRun ==
    op.stage = "session" =>
        \A p \in op.errors : failed[p] = "blocked" =>
            \E d \in Requires[p] : d \in op.errors \/ failed[d] = "other"

=============================================================================
