---------------------------- MODULE TaskManager ----------------------------
(***************************************************************************)
(* Detached PTY tasks of the Agent (internal/engine/task.go) and the two   *)
(* authorities that must stop them: the local kill-switch file and the end *)
(* of the remote session (internal/engine/engine.go).                      *)
(*                                                                         *)
(* Each task id is one Start call.  The goroutines of a task are the Start *)
(* call (starting), the copier from the PTY to the log (copier) and waitTask *)
(* (waiter); the command itself is a process of the operating system.      *)
(***************************************************************************)
EXTENDS Integers, FiniteSets

CONSTANTS
  Task,       \* task ids, each used by one Start call
  MaxActive,  \* cfg.MaxActiveTasks, the capacity of the slots channel
  MaxCrash,   \* bound: how often the Agent process stops
  CrashAt,    \* bound: how many Start calls were made before a restart
  MaxToggle   \* bound: how often the operator creates or removes the file

ASSUME MaxActiveAssumption == MaxActive \in Nat \ {0}
ASSUME BoundAssumption == MaxCrash \in Nat /\ MaxToggle \in Nat /\ CrashAt \subseteq Nat
\* Start calls and the two callers of StopAll are told apart by their names.
ASSUME NameAssumption == {"watcher", "client"} \cap Task = {}

VARIABLES
  \* the Start calls
  starting,   \* where the Start call of a task is
  refused,    \* its last checkContext returned an error
  ctxDone,    \* its context is canceled
  attached,   \* its context is canceled with the current kill-switch context
  canceling,  \* its context.AfterFunc was triggered, the goroutine has not run
  \* the task manager
  taskSlots,  \* number of elements in the slots channel
  tasks,      \* ids in the map of active tasks
  state,      \* task.info.State; after a restart, the loaded history
  copier,     \* the goroutine that copies the PTY to the log
  waiter,     \* where the waitTask goroutine of a task is
  \* the authorities
  session,    \* the remote session: "up", "lost" or "ended"
  killFile,   \* the operator's kill-switch file exists
  latched,    \* killSwitchLatched
  lifted,     \* history: the file was absent at some time since it latched
  stopAll,    \* what each of them saw of the file, and its StopAll to do
  \* the operating system
  proc,       \* the command's process; "foreign" is another one with its PID
  disk,       \* the state in the task's json file
  \* bound counters
  crashes, toggles

start    == <<starting, refused, ctxDone, attached, canceling>>
run      == <<taskSlots, tasks, state, copier, waiter>>
kill     == <<killFile, latched, lifted>>
taskVars == <<start, run, session, kill, stopAll, proc, disk, crashes, toggles>>

\* Who calls StopAll: the kill-switch watcher, the Agent client when it ends the
\* remote session, and every call that finds the kill-switch file.
Stopper   == {"watcher", "client"} \cup Task
Terminal  == {"completed", "failed"}
Finished  == Terminal \cup {"orphaned"}
Started   == {"spawned", "checked", "registered", "persisted", "launched"}
InFlight  == {"called", "slot"} \cup Started
Phase     == {"idle", "latch", "unlatch", "snapshot", "signal"}
Live      == {"running", "killed", "exited"}   \* a child not waited for yet

TaskTypeOK ==
  /\ starting \in [Task -> InFlight \cup {"none", "returned", "failed"}]
  /\ {refused, ctxDone, attached, canceling} \subseteq [Task -> BOOLEAN]
  /\ taskSlots \in 0..MaxActive
  /\ tasks \in SUBSET Task
  /\ state \in [Task -> {"none", "running", "orphaned_running"} \cup Finished]
  /\ copier \in [Task -> {"none", "copying", "done"}]
  /\ waiter \in [Task -> {"none", "wait", "drain", "settle", "retire", "persist", "done"}]
  /\ session \in {"up", "lost", "ended"}
  /\ {killFile, latched, lifted} \subseteq BOOLEAN
  /\ stopAll \in [Stopper -> [phase : Phase, left : SUBSET Task]]
  /\ proc \in [Task -> {"none", "orphan", "reaped", "foreign"} \cup Live]
  /\ disk \in [Task -> {"none", "running"} \cup Terminal]
  /\ crashes \in 0..MaxCrash /\ toggles \in 0..MaxToggle

Rest == [phase |-> "idle", left |-> {}]

TaskInit ==
  /\ starting = [t \in Task |-> "none"]
  /\ refused = [t \in Task |-> FALSE] /\ ctxDone = [t \in Task |-> FALSE]
  /\ attached = [t \in Task |-> FALSE] /\ canceling = [t \in Task |-> FALSE]
  /\ taskSlots = 0 /\ tasks = {}
  /\ state = [t \in Task |-> "none"]
  /\ copier = [t \in Task |-> "none"] /\ waiter = [t \in Task |-> "none"]
  /\ session = "up"
  /\ killFile = FALSE /\ latched = FALSE /\ lifted = FALSE
  /\ stopAll = [a \in Stopper |-> Rest]
  /\ proc = [t \in Task |-> "none"] /\ disk = [t \in Task |-> "none"]
  /\ crashes = 0 /\ toggles = 0

-----------------------------------------------------------------------------
(* The kill switch and StopAll.                                            *)

\* Whoever looks at the file acts on what it saw later, when the file may have
\* come or gone again.
Saw(a, decision) ==
  /\ stopAll[a] = Rest
  /\ stopAll' = [stopAll EXCEPT ![a].phase = decision]

\* The watcher's tick, every 100 ms.
WatchLook ==
  /\ Saw("watcher", IF killFile THEN "latch" ELSE "unlatch")
  /\ UNCHANGED <<start, run, session, kill, proc, disk, crashes, toggles>>

\* updateKillSwitchState(FALSE): a new context for the calls to come.
Unlatch ==
  /\ stopAll["watcher"].phase = "unlatch"
  /\ stopAll' = [stopAll EXCEPT !["watcher"] = Rest]
  /\ latched' = FALSE /\ lifted' = FALSE
  /\ UNCHANGED <<start, run, session, killFile, proc, disk, crashes, toggles>>

\* Variant: the switch cancels calls and leaves detached tasks running.
LatchNoStopAll(a) ==
  /\ stopAll[a].phase = "latch"
  /\ stopAll' = [stopAll EXCEPT ![a] = Rest]
  /\ latched' = TRUE
  /\ IF latched
       THEN UNCHANGED <<lifted, canceling, attached>>
       ELSE /\ lifted' = ~killFile
            /\ canceling' = [t \in Task |-> canceling[t] \/ attached[t]]
            /\ attached' = [t \in Task |-> FALSE]
  /\ UNCHANGED <<starting, refused, ctxDone, run, session, killFile, proc, disk, crashes, toggles>>

\* updateKillSwitchState(TRUE) by a: the caller that latches cancels the current
\* context, whose AfterFuncs run later, and then calls StopAll.
Latch(a) ==
  /\ stopAll[a].phase = "latch"
  /\ latched' = TRUE
  /\ IF latched
       THEN /\ stopAll' = [stopAll EXCEPT ![a] = Rest]
            /\ UNCHANGED <<lifted, canceling, attached>>
       ELSE /\ stopAll' = [stopAll EXCEPT ![a].phase = "snapshot"]
            /\ lifted' = ~killFile
            /\ canceling' = [t \in Task |-> canceling[t] \/ attached[t]]
            /\ attached' = [t \in Task |-> FALSE]
  /\ UNCHANGED <<starting, refused, ctxDone, run, session, killFile, proc, disk, crashes, toggles>>

\* The AfterFunc goroutine cancels the context of the call.
CancelCall(t) ==
  /\ canceling[t]
  /\ canceling' = [canceling EXCEPT ![t] = FALSE]
  /\ ctxDone' = [ctxDone EXCEPT ![t] = TRUE]
  /\ UNCHANGED <<starting, refused, attached, run, session, kill, stopAll, proc, disk, crashes, toggles>>

\* StopAll: a snapshot of the map under its lock, then one signal per task.
StopSnapshot(a) ==
  /\ stopAll[a].phase = "snapshot"
  /\ stopAll' = [stopAll EXCEPT ![a] = [phase |-> "signal", left |-> tasks]]
  /\ UNCHANGED <<start, run, session, kill, proc, disk, crashes, toggles>>

Killed(t) == [proc EXCEPT ![t] = IF @ = "running" THEN "killed" ELSE @]

StopSignal(a, t) ==
  /\ stopAll[a].phase = "signal" /\ t \in stopAll[a].left
  /\ stopAll' = [stopAll EXCEPT ![a].left = @ \ {t}]
  /\ proc' = Killed(t)
  /\ UNCHANGED <<start, run, session, kill, disk, crashes, toggles>>

\* For the client, EndRemoteSession returns.
StopDone(a) ==
  /\ stopAll[a].phase = "signal" /\ stopAll[a].left = {}
  /\ stopAll' = [stopAll EXCEPT ![a] = Rest]
  /\ session' = IF a = "client" THEN "ended" ELSE session
  /\ UNCHANGED <<start, run, kill, proc, disk, crashes, toggles>>

\* The operator creates or removes the file.
ToggleKillFile ==
  /\ toggles < MaxToggle /\ toggles' = toggles + 1
  /\ killFile' = ~killFile
  /\ lifted' = (lifted \/ (latched /\ killFile))
  /\ UNCHANGED <<start, run, session, latched, stopAll, proc, disk, crashes>>

-----------------------------------------------------------------------------
(* Start.                                                                  *)

\* Invoke and callContext, which refuses while the switch is latched.  Invoke's
\* own look at the file is the first look of Start.
Call(t) ==
  /\ starting[t] = "none" /\ state[t] = "none"
  /\ session = "up" /\ ~latched
  /\ starting' = [starting EXCEPT ![t] = "called"]
  /\ attached' = [attached EXCEPT ![t] = TRUE]
  /\ UNCHANGED <<refused, ctxDone, canceling, run, session, kill, stopAll, proc, disk, crashes, toggles>>

\* checkContext lets the call go on.
Allowed(t) == ~refused[t] /\ ~ctxDone[t] /\ ~killFile

\* checkContext refuses a canceled context before it looks at the file; a call
\* that finds the file latches the switch itself.
CheckPoint == {"called", "slot", "spawned", "launched"}

Refuse(t) ==
  /\ starting[t] \in CheckPoint /\ ~refused[t]
  /\ refused' = [refused EXCEPT ![t] = TRUE]
  /\ \/ ctxDone[t] /\ UNCHANGED stopAll
     \/ ~ctxDone[t] /\ killFile /\ Saw(t, "latch")
  /\ UNCHANGED <<starting, ctxDone, attached, canceling, run, session, kill, proc, disk, crashes, toggles>>

Step(t, from, to) ==
  /\ starting[t] = from
  /\ starting' = [starting EXCEPT ![t] = to]

\* The call returns: Invoke stops its AfterFunc and cancels its context.
Return(t, outcome) ==
  /\ starting' = [starting EXCEPT ![t] = outcome]
  /\ refused' = [refused EXCEPT ![t] = FALSE] /\ ctxDone' = [ctxDone EXCEPT ![t] = FALSE]
  /\ attached' = [attached EXCEPT ![t] = FALSE] /\ canceling' = [canceling EXCEPT ![t] = FALSE]

Same == UNCHANGED <<refused, ctxDone, attached, canceling>>

TakeSlot(t) ==
  /\ Allowed(t) /\ taskSlots < MaxActive
  /\ Step(t, "called", "slot") /\ Same
  /\ taskSlots' = taskSlots + 1
  /\ UNCHANGED <<tasks, state, copier, waiter, session, kill, stopAll, proc, disk, crashes, toggles>>

\* The active task limit is reached: the call does not wait for a slot.
NoSlot(t) ==
  /\ starting[t] = "called" /\ Allowed(t) /\ taskSlots = MaxActive
  /\ Return(t, "failed")
  /\ UNCHANGED <<run, session, kill, stopAll, proc, disk, crashes, toggles>>

Spawn(t) ==
  /\ Allowed(t)
  /\ Step(t, "slot", "spawned") /\ Same
  /\ proc' = [proc EXCEPT ![t] = "running"]
  /\ UNCHANGED <<run, session, kill, stopAll, disk, crashes, toggles>>

\* The directories, the log file, the sandbox or the PTY cannot be set up.
SpawnFails(t) ==
  /\ starting[t] = "slot" /\ Allowed(t)
  /\ Return(t, "failed")
  /\ taskSlots' = taskSlots - 1
  /\ UNCHANGED <<tasks, state, copier, waiter, session, kill, stopAll, proc, disk, crashes, toggles>>

\* The check between pty.Start and the registration.
CheckSpawned(t) ==
  /\ Allowed(t)
  /\ Step(t, "spawned", "checked") /\ Same
  /\ UNCHANGED <<run, session, kill, stopAll, proc, disk, crashes, toggles>>

\* A refusal before the registration: a process that was started is killed and
\* waited for, and the deferred function returns the slot.
Abandon(t) ==
  /\ refused[t] /\ starting[t] \in {"called", "slot", "spawned"} /\ stopAll[t] = Rest
  /\ Return(t, "failed")
  /\ taskSlots' = IF starting[t] = "called" THEN taskSlots ELSE taskSlots - 1
  /\ proc' = IF starting[t] = "spawned" THEN [proc EXCEPT ![t] = "reaped"] ELSE proc
  /\ UNCHANGED <<tasks, state, copier, waiter, session, kill, stopAll, disk, crashes, toggles>>

RegisterTask(t) ==
  /\ Step(t, "checked", "registered") /\ Same
  /\ tasks' = tasks \cup {t}
  /\ state' = [state EXCEPT ![t] = "running"]
  /\ UNCHANGED <<taskSlots, copier, waiter, session, kill, stopAll, proc, disk, crashes, toggles>>

\* Variant: the first persist is left to a goroutine.
PersistRunningLate(t) ==
  /\ starting[t] \in {"registered", "persisted", "launched", "returned"}
  /\ starting' = [starting EXCEPT ![t] = IF @ = "registered" THEN "persisted" ELSE @] /\ Same
  /\ disk' \in {disk, [disk EXCEPT ![t] = "running"]}
  /\ UNCHANGED <<run, session, kill, stopAll, proc, crashes, toggles>>

\* persist discards the error of the write.
PersistRunning(t) ==
  /\ Step(t, "registered", "persisted") /\ Same
  /\ disk' \in {disk, [disk EXCEPT ![t] = "running"]}
  /\ UNCHANGED <<run, session, kill, stopAll, proc, crashes, toggles>>

\* Variant: releaseSlot stays true, so Start and waitTask both return the slot.
LaunchReleases(t) ==
  /\ Step(t, "persisted", "launched") /\ Same
  /\ copier' = [copier EXCEPT ![t] = "copying"]
  /\ waiter' = [waiter EXCEPT ![t] = "wait"]
  /\ taskSlots' = taskSlots - 1
  /\ UNCHANGED <<tasks, state, session, kill, stopAll, proc, disk, crashes, toggles>>

\* The copier and waitTask are started; the slot now belongs to waitTask.
Launch(t) ==
  /\ Step(t, "persisted", "launched") /\ Same
  /\ copier' = [copier EXCEPT ![t] = "copying"]
  /\ waiter' = [waiter EXCEPT ![t] = "wait"]
  /\ UNCHANGED <<taskSlots, tasks, state, session, kill, stopAll, proc, disk, crashes, toggles>>

\* The last check comes after the registration, so that the StopAll whose
\* snapshot missed the task leaves it to this check.
Succeed(t) ==
  /\ starting[t] = "launched" /\ Allowed(t)
  /\ Return(t, "returned")
  /\ UNCHANGED <<run, session, kill, stopAll, proc, disk, crashes, toggles>>

KillStarted(t) ==
  /\ refused[t] /\ starting[t] = "launched" /\ stopAll[t] = Rest
  /\ Return(t, "failed")
  /\ proc' = Killed(t)
  /\ UNCHANGED <<run, session, kill, stopAll, disk, crashes, toggles>>

-----------------------------------------------------------------------------
(* The process, the copier and waitTask.                                   *)

\* The command ends by itself.
Exit(t) ==
  /\ proc[t] \in {"running", "orphan"}
  /\ proc' = [proc EXCEPT ![t] = IF @ = "running" THEN "exited" ELSE "reaped"]
  /\ UNCHANGED <<start, run, session, kill, stopAll, disk, crashes, toggles>>

Die(t) ==
  /\ proc[t] = "killed"
  /\ proc' = [proc EXCEPT ![t] = "exited"]
  /\ UNCHANGED <<start, run, session, kill, stopAll, disk, crashes, toggles>>

\* stopContext with KILL; for a weaker signal the command ends by itself.
Stop(t) ==
  /\ session = "up" /\ ~killFile /\ ~latched
  /\ t \in tasks /\ proc[t] = "running"
  /\ proc' = Killed(t)
  /\ UNCHANGED <<start, run, session, kill, stopAll, disk, crashes, toggles>>

\* The copier ends when the log cannot be written, when the command has
\* closed its side, or when waitTask has closed the PTY.
CopyDone(t) ==
  /\ copier[t] = "copying"
  /\ copier' = [copier EXCEPT ![t] = "done"]
  /\ UNCHANGED <<start, taskSlots, tasks, state, waiter, session, kill, stopAll, proc, disk, crashes, toggles>>

WaiterGoes(t, from, to) ==
  /\ waiter[t] = from
  /\ waiter' = [waiter EXCEPT ![t] = to]

\* cmd.Wait returns and the PTY is closed.
Reap(t) ==
  /\ WaiterGoes(t, "wait", "drain")
  /\ proc[t] = "exited"
  /\ proc' = [proc EXCEPT ![t] = "reaped"]
  /\ UNCHANGED <<start, taskSlots, tasks, state, copier, session, kill, stopAll, disk, crashes, toggles>>

\* Variant: waitTask gives up on a copier that the closed PTY does not end.
CloseLogNever(t) ==
  /\ WaiterGoes(t, "drain", "settle")
  /\ copier[t] = "done" /\ proc[t] # "reaped"
  /\ UNCHANGED <<start, taskSlots, tasks, state, copier, session, kill, stopAll, proc, disk, crashes, toggles>>

\* The log is closed only after the copier is done with it.
CloseLog(t) ==
  /\ WaiterGoes(t, "drain", "settle")
  /\ copier[t] = "done"
  /\ UNCHANGED <<start, taskSlots, tasks, state, copier, session, kill, stopAll, proc, disk, crashes, toggles>>

\* Variant: the end of the output is taken for the end of the command.
SettleOnEof(t) ==
  /\ waiter[t] \in {"wait", "settle"} /\ copier[t] = "done"
  /\ waiter' = [waiter EXCEPT ![t] = "retire"]
  /\ \E s \in Terminal : state' = [state EXCEPT ![t] = s]
  /\ UNCHANGED <<start, taskSlots, tasks, copier, session, kill, stopAll, proc, disk, crashes, toggles>>

Settle(t) ==
  /\ WaiterGoes(t, "settle", "retire")
  /\ \E s \in Terminal : state' = [state EXCEPT ![t] = s]
  /\ UNCHANGED <<start, taskSlots, tasks, copier, session, kill, stopAll, proc, disk, crashes, toggles>>

Retire(t) ==
  /\ WaiterGoes(t, "retire", "persist")
  /\ tasks' = tasks \ {t}
  /\ UNCHANGED <<start, taskSlots, state, copier, session, kill, stopAll, proc, disk, crashes, toggles>>

\* The final persist, and the deferred return of the slot.
PersistFinal(t) ==
  /\ WaiterGoes(t, "persist", "done")
  /\ disk' \in {disk, [disk EXCEPT ![t] = state[t]]}
  /\ taskSlots' = taskSlots - 1
  /\ UNCHANGED <<start, tasks, state, copier, session, kill, stopAll, proc, crashes, toggles>>

-----------------------------------------------------------------------------
(* The remote session and the Agent process.                               *)

\* Variant: calls run on a context of their own.
LoseSessionOnly ==
  /\ session = "up"
  /\ session' = "lost"
  /\ UNCHANGED <<start, run, kill, stopAll, proc, disk, crashes, toggles>>

\* serve returns, which cancels the contexts of its calls.
LoseSession ==
  /\ session = "up"
  /\ session' = "lost"
  /\ ctxDone' = [t \in Task |-> ctxDone[t] \/ starting[t] \in InFlight]
  /\ UNCHANGED <<starting, refused, attached, canceling, run, kill, stopAll, proc, disk, crashes, toggles>>

\* EndRemoteSession, when the Relay rejected the credential.
EndSession ==
  /\ session = "lost" /\ stopAll["client"] = Rest
  /\ stopAll' = [stopAll EXCEPT !["client"].phase = "snapshot"]
  /\ UNCHANGED <<start, run, session, kill, proc, disk, crashes, toggles>>

Reconnect ==
  /\ session \in {"lost", "ended"} /\ stopAll["client"] = Rest
  /\ session' = "up"
  /\ UNCHANGED <<start, run, kill, stopAll, proc, disk, crashes, toggles>>

\* kill(pid, 0): some process has the recorded PID of the command.
processExists(p) == p \in {"orphan", "foreign"}

\* The Agent process stops and starts again.  Its commands lose their terminal;
\* loadHistory reads what was persisted of them and looks for their PIDs, which
\* the system may have given to other processes by then.
Restart ==
  /\ crashes < MaxCrash /\ Cardinality({t \in Task : starting[t] # "none"}) \in CrashAt
  /\ crashes' = crashes + 1
  /\ starting' = [t \in Task |-> IF starting[t] = "none" THEN "none" ELSE "failed"]
  /\ refused' = [t \in Task |-> FALSE] /\ ctxDone' = [t \in Task |-> FALSE]
  /\ attached' = [t \in Task |-> FALSE] /\ canceling' = [t \in Task |-> FALSE]
  /\ taskSlots' = 0 /\ tasks' = {}
  /\ copier' = [t \in Task |-> "none"] /\ waiter' = [t \in Task |-> "none"]
  /\ \E reused \in SUBSET {t \in Task : disk[t] = "running"} :
       proc' = [t \in Task |-> CASE proc[t] = "none" -> "none"
                                [] proc[t] \in {"running", "killed", "orphan"} -> "orphan"
                                [] OTHER -> IF t \in reused THEN "foreign" ELSE "reaped"]
  /\ state' = [t \in Task |->
       IF disk[t] # "running" THEN disk[t]
       ELSE IF processExists(proc'[t]) THEN "orphaned_running" ELSE "orphaned"]
  /\ session' = "lost" /\ latched' = killFile /\ lifted' = FALSE
  /\ stopAll' = [a \in Stopper |-> Rest]
  /\ UNCHANGED <<killFile, disk, toggles>>

-----------------------------------------------------------------------------
StartStep(t) ==
  \/ Refuse(t) \/ TakeSlot(t) \/ NoSlot(t) \/ Spawn(t) \/ SpawnFails(t)
  \/ CheckSpawned(t) \/ Abandon(t) \/ RegisterTask(t) \/ PersistRunning(t)
  \/ Launch(t) \/ Succeed(t) \/ KillStarted(t)

WaitStep(t) ==
  \/ Reap(t) \/ CloseLog(t) \/ Settle(t) \/ Retire(t) \/ PersistFinal(t)

StopStep(a) == Latch(a) \/ StopSnapshot(a) \/ (\E t \in Task : StopSignal(a, t)) \/ StopDone(a)

Watch == WatchLook \/ Unlatch

TaskNext ==
  \/ Watch
  \/ \E a \in Stopper : StopStep(a)
  \/ \E t \in Task :
       \/ Call(t) \/ StartStep(t) \/ CancelCall(t)
       \/ Exit(t) \/ Die(t) \/ Stop(t) \/ CopyDone(t) \/ WaitStep(t)
  \/ LoseSession \/ EndSession \/ Reconnect
  \/ ToggleKillFile \/ Restart

TaskSpec == TaskInit /\ [][TaskNext]_taskVars

-----------------------------------------------------------------------------
\* The commands that run under this Agent never outnumber the task limit, while
\* the slot of a task passes from Start to waitTask and each of Start's exits
\* returns it or not.
LiveWithinLimit == TaskTypeOK /\ Cardinality({t \in Task : proc[t] \in Live}) <= MaxActive

\* A call of Start that can still kill its process: it will look once more.
LooksAgain(t) == starting[t] \in Started

\* The kill switch leaves no detached command behind: once it has latched, has
\* been on ever since, and every StopAll has returned, a command that still runs
\* belongs to a Start call that has yet to make its last check.
KillSwitchKills ==
  (latched /\ ~lifted /\ \A a \in Stopper : stopAll[a].phase \notin {"snapshot", "signal"})
    => \A t \in Task : proc[t] = "running" => LooksAgain(t)

\* Nor does the end of the remote session: when EndRemoteSession has returned, a
\* command that still runs belongs to a Start call whose context is canceled.
SessionEndKills ==
  session = "ended" =>
    \A t \in Task : proc[t] = "running" => LooksAgain(t) /\ (ctxDone[t] \/ refused[t])

\* A task whose outcome reached the disk is never written down as running again,
\* so a restart cannot take it for an orphan.
TerminalNotOverwritten ==
  [][\A t \in Task : disk[t] \in Terminal => disk'[t] = disk[t]]_taskVars

\* A task reported as finished is never reported as running later, even by the
\* next Agent process, with one exception that processExists cannot tell: its
\* final persist failed and another process has its PID when that Agent looks.
FinishedStaysFinished ==
  [][\A t \in Task : state[t] \in Finished =>
       \/ state'[t] \in Finished \cup {"none"}
       \/ disk[t] = "running" /\ proc'[t] = "foreign"]_taskVars

\* A kill-switch file that stays from the latch on ends every command of the
\* Agent, those of calls that were under way included.
KillSwitchPrevails ==
  <>[](killFile /\ ~lifted) => <>[](\A t \in Task : proc[t] \notin {"running", "killed"})

\* A killed command is always settled: waitTask returns its slot and its task is
\* not reported as running any more (unless the Agent stops first).
KilledIsSettled ==
  \A t \in Task : proc[t] = "killed" ~> waiter[t] \in {"none", "done"} /\ state[t] # "running"

\* What docs/agent.md says of a disconnect: it ends the remote session, so that no
\* detached task survives into the next one.  The code keeps them on purpose.
DisconnectEndsTasks ==
  [][session # "up" /\ session' = "up" =>
       \A t \in Task : starting[t] = "returned" => proc[t] # "running"]_taskVars
=============================================================================
