----------------------------- MODULE ConfigReload -----------------------------
(***************************************************************************)
(* config.py while the bot runs (core_plugins/config_cmd.py,               *)
(* utils/config): the file, the configuration in memory, and what was made *)
(* from it: the rate limiter, the constants of the plugins' modules and    *)
(* the plugins' background tasks.  A command reads the configuration,      *)
(* waits for a backup, edits the file and applies it, then restarts tasks. *)
(***************************************************************************)
EXTENDS Integers

CONSTANTS
    None,
    Tasks,      \* the commands that may run at the same time
    MaxValue,   \* values are 0 (no value) to MaxValue
    Bad,        \* a value the validation refuses
    MaxEdits    \* bound on commands, edits by hand and restarts of the process

ConfigReloadAssumption ==
    MaxValue \in Nat /\ MaxValue >= 1 /\ Bad \notin 0..MaxValue /\ MaxEdits \in Nat

Startup == {"jid"}                      \* STARTUP_ONLY_KEYS
RateLimitKeys == {"limit"}              \* _RATE_LIMIT_KEYS
TaskKeys == {"interval"}                \* timing of a plugin's tasks
Window == {"min", "max"}                \* bounds of a number drawn at random, as for ducks
Keys == Startup \union RateLimitKeys \union TaskKeys \union Window
Values == 0..MaxValue

VARIABLES
    file,       \* the assignments of config.py
    config,     \* the configuration in memory
    boot,       \* ghost: what the process was started with
    limiter,    \* the settings of the rate limiter in use
    constants,  \* the constants of the plugins' modules
    running,    \* the setting each plugin's tasks were started with
    task,       \* the commands under way: [pc, key, value, before]
    unread,     \* ghost: keys edited by hand since the file was last loaded
    raced,      \* ghost: a command applied changes to a configuration it had not read
    edits

vars == <<file, config, boot, limiter, constants, running, task, unread, raced, edits>>

Idle == [pc |-> "idle", key |-> None, value |-> None, before |-> [k \in Keys |-> 0]]
Jobs == [pc : {"idle", "backup", "restart"}, key : Keys \union {None},
         value : Values \union {None}, before : [Keys -> Values]]

Bigger(a, b) == IF a > b THEN a ELSE b
Or(v, default) == IF v = 0 THEN default ELSE v

(* Constants are computed from the values, their defaults and their bounds. *)
Clamped_Apart(cfg) == [interval |-> Or(cfg["interval"], MaxValue),
                       min |-> Bigger(1, cfg["min"]), max |-> Bigger(1, cfg["max"])]

Clamped(cfg) ==
    LET least == Bigger(1, cfg["min"])
    IN  [interval |-> Or(cfg["interval"], MaxValue), min |-> least,
         max |-> Bigger(least, cfg["max"])]

LimiterFrom(cfg) == [k \in RateLimitKeys |-> Or(cfg[k], MaxValue)]
Valid(cfg) == \A k \in Keys : cfg[k] # Bad

TypeOK ==
    /\ file \in [Keys -> Values \union {Bad}] /\ config \in [Keys -> Values]
    /\ limiter \in [RateLimitKeys -> Values] /\ running \in [TaskKeys -> Values]
    /\ constants \in [TaskKeys \union Window -> Values]
    /\ task \in [Tasks -> Jobs]
    /\ \A t \in Tasks : task[t].pc = "backup" => task[t].key \in Keys \ Startup /\ task[t].value \in Values
    /\ unread \subseteq Keys /\ raced \in BOOLEAN /\ edits \in 0..MaxEdits

StartsWith(cfg) ==
    /\ file = cfg /\ config = cfg /\ boot = cfg /\ limiter = LimiterFrom(cfg)
    /\ constants = Clamped(cfg) /\ running = [k \in TaskKeys |-> Clamped(cfg)[k]]

Init ==
    /\ StartsWith([k \in Keys |-> 1])
    /\ task = [t \in Tasks |-> Idle] /\ unread = {} /\ raced = FALSE /\ edits = 0

Edit == edits < MaxEdits /\ edits' = edits + 1

-----------------------------------------------------------------------------
(* An operator edits config.py; the process ends and is started again.      *)

HandEdit(k, v) ==
    /\ Edit /\ file[k] # v /\ file' = [file EXCEPT ![k] = v] /\ unread' = unread \union {k}
    /\ UNCHANGED <<config, boot, limiter, constants, running, task, raced>>

ProcessRestarts ==
    /\ Edit /\ Valid(file)
    /\ config' = file /\ boot' = file /\ limiter' = LimiterFrom(file) /\ constants' = Clamped(file)
    /\ running' = [k \in TaskKeys |-> Clamped(file)[k]]
    /\ task' = [t \in Tasks |-> Idle] /\ unread' = {} /\ raced' = FALSE /\ UNCHANGED file

-----------------------------------------------------------------------------
(* Applying a configuration that was loaded.  The keys that only a start    *)
(* reads keep their values.  A failure before the restarts puts everything  *)
(* back, and with it the file if a command has just changed it.             *)

Effective_All(before, new) == new
Effective(before, new) == [k \in Keys |-> IF k \in Startup THEN before[k] ELSE new[k]]

Changed(keys, before, after) == \E k \in keys : before[k] # after[k]

(* apply_runtime_config *)
Runtime(before, after) ==
    /\ limiter' = IF Changed(RateLimitKeys, before, after) THEN LimiterFrom(after) ELSE limiter
    /\ constants' = Clamped(after)

RolledBack_Half(effective) ==
    Runtime(effective, config) /\ config' = effective

RolledBack(effective) ==
    Runtime(effective, config) /\ UNCHANGED config

ApplyConfigReload(t, before, new) ==
    LET effective == Effective(before, new)
    IN  \/ /\ config' = effective /\ Runtime(before, effective)
           /\ task' = [task EXCEPT ![t] = [pc |-> "restart", key |-> None, value |-> None, before |-> before]]
           /\ file' = new /\ raced' = (raced \/ before # config)
           /\ unread' = {}
        \/ /\ RolledBack(effective) /\ task' = [task EXCEPT ![t] = Idle]
           /\ UNCHANGED <<file, raced, unread>>

ConfigReload(t) ==
    /\ task[t] = Idle /\ Edit
    /\ IF Valid(file) THEN ApplyConfigReload(t, config, file)
       ELSE UNCHANGED <<file, config, limiter, constants, task, unread, raced>>
    /\ UNCHANGED <<boot, running>>

(* restart_reloadable_plugin_tasks compares with the configuration of the   *)
(* moment, and the tasks it starts read the constants.                      *)
RestartTasks_Never(t) ==
    /\ task[t].pc = "restart" /\ task' = [task EXCEPT ![t] = Idle]
    /\ UNCHANGED <<file, config, boot, limiter, constants, running, unread, raced, edits>>

RestartTasks(t) ==
    /\ task[t].pc = "restart" /\ task' = [task EXCEPT ![t] = Idle]
    /\ running' = IF Changed(TaskKeys, task[t].before, config)
                  THEN [k \in TaskKeys |-> constants[k]] ELSE running
    /\ UNCHANGED <<file, config, boot, limiter, constants, unread, raced, edits>>

-----------------------------------------------------------------------------
(* config set and config unset: one value, checked before the backup.       *)

Writable(k) == k \notin Startup

ConfigSet(t, k, v) ==
    /\ task[t] = Idle /\ Edit /\ Writable(k) /\ v # Bad
    /\ task' = [task EXCEPT ![t] = [pc |-> "backup", key |-> k, value |-> v, before |-> config]]
    /\ UNCHANGED <<file, config, boot, limiter, constants, running, unread, raced>>

ConfigUnset(t, k) == ConfigSet(t, k, 0)

(* _persist_config_edit: the file as it is by now, with the one assignment. *)
PersistConfigEdit(t) ==
    /\ task[t].pc = "backup"
    /\ LET edited == [file EXCEPT ![task[t].key] = task[t].value]
       IN  IF Valid(edited) THEN ApplyConfigReload(t, task[t].before, edited)
           ELSE /\ task' = [task EXCEPT ![t] = Idle]
                /\ UNCHANGED <<file, config, limiter, constants, unread, raced>>
    /\ UNCHANGED <<boot, running, edits>>

(* The command's time limit passes while it waits for the backup.           *)
TimesOut(t) ==
    /\ task[t].pc = "backup" /\ task' = [task EXCEPT ![t] = Idle]
    /\ UNCHANGED <<file, config, boot, limiter, constants, running, unread, raced, edits>>

-----------------------------------------------------------------------------
Next ==
    \/ \E k \in Keys, v \in Values \union {Bad} : HandEdit(k, v)
    \/ ProcessRestarts
    \/ \E t \in Tasks :
        \/ ConfigReload(t) \/ RestartTasks(t) \/ PersistConfigEdit(t) \/ TimesOut(t)
        \/ \E k \in Keys, v \in Values \ {0} : ConfigSet(t, k, v)
        \/ \E k \in Keys : ConfigUnset(t, k)

Spec == Init /\ [][Next]_vars

-----------------------------------------------------------------------------
(* A running bot keeps the startup-only settings it was started with,       *)
(* whatever is edited, reloaded or rolled back.                             *)
StartupIsKept == \A k \in Startup : config[k] = boot[k]

(* Whether an edit succeeded, was refused or failed half-way: what is in    *)
(* effect is what the file says, but for keys edited by hand and not loaded *)
(* since.                                                                   *)
FileIsInEffect == \A k \in Keys \ (Startup \union unread) : file[k] = config[k]

(* The limiter, the constants and, once restarts are over, the tasks follow *)
(* the configuration, unless a command applied its change against values it *)
(* had read before another command changed them.                            *)
DerivedFollows ==
    ~raced =>
        /\ limiter = LimiterFrom(config)
        /\ (\A t \in Tasks : task[t].pc # "restart") =>
              \A k \in TaskKeys : running[k] = Clamped(config)[k]

(* Numbers are drawn from a range that is never empty, whatever is set.     *)
RangesAreProper ==
    constants = Clamped(config) /\ 1 <= constants["min"] /\ constants["min"] <= constants["max"]

(* What keeps them: a command has read the startup-only settings of this    *)
(* process, and tasks that do not follow the configuration are still to be  *)
(* restarted by a command that sees the difference.                         *)
ConfigInv ==
    /\ StartupIsKept /\ FileIsInEffect /\ constants = Clamped(config)
    /\ \A t \in Tasks : task[t].pc # "idle" => \A k \in Startup : task[t].before[k] = boot[k]
    /\ ~raced =>
        /\ limiter = LimiterFrom(config)
        /\ \A k \in TaskKeys : \/ running[k] = Clamped(config)[k]
                               \/ \E t \in Tasks : task[t].pc = "restart" /\ task[t].before[k] # config[k]
=============================================================================
