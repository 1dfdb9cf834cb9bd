----------------------------- MODULE TaskProof -----------------------------
(***************************************************************************)
(* Detached tasks: first the manager, for every set of Start calls, every   *)
(* task limit and every number of restarts and changes of the kill-switch   *)
(* file, then the log, for every amount of output, cap, terminal and number *)
(* of readers.                                                              *)
(*                                                                          *)
(* Nobody holds a lock from the start of a command to its registration, or  *)
(* from a look at the file to StopAll: that nothing slips through rests on  *)
(* the order of the steps of Start, and the invariant says which.  That an  *)
(* EOF is final rests on another order the code never states in one place:  *)
(* a task is finished only after its copier has ended, and a reader looks   *)
(* at the state before it looks at the log.                                 *)
(***************************************************************************)
EXTENDS TaskManager, TaskLog, FiniteSetTheorems, TLAPS

\* Start before it hands its slot to waitTask, and waitTask before it returns it.
OnSlot     == {"slot", "spawned", "checked", "registered", "persisted"}
WaitOnSlot == {"wait", "drain", "settle", "retire", "persist"}
Owns(t)    == starting[t] \in OnSlot \/ waiter[t] \in WaitOnSlot
Owners     == {t \in Task : Owns(t)}

SlotsInv == IsFiniteSet(Owners) /\ taskSlots = Cardinality(Owners)

\* Start: a task is known to nobody before its registration, and waitTask runs from
\* the launch on.
StartInv ==
  \A t \in Task :
    /\ starting[t] \in {"none", "called", "slot"} => proc[t] = "none"
    /\ starting[t] \in {"none", "called", "slot", "spawned", "checked"} => state[t] = "none" /\ disk[t] = "none"
    /\ starting[t] \in OnSlot \cup {"none", "called"} => waiter[t] = "none"
    /\ starting[t] \in OnSlot \ {"slot"} => proc[t] \in Live
    /\ starting[t] \in {"registered", "persisted"} => t \in tasks
    /\ starting[t] = "launched" => waiter[t] # "none"

\* waitTask: a task that may still run is in the map, and one that waitTask has got
\* past cmd.Wait has no process.
WaitInv ==
  \A t \in Task :
    /\ waiter[t] = "wait" => proc[t] \in Live /\ t \in tasks
    /\ waiter[t] \notin {"none", "wait"} => proc[t] = "reaped"
    /\ waiter[t] \in {"retire", "persist", "done"} => state[t] \in Terminal
    /\ proc[t] \in Live => starting[t] \in OnSlot \ {"slot"} \/ waiter[t] = "wait"

\* What is reported or written down as finished has no process, and neither Start
\* nor waitTask has anything more to write about it.
OutcomeInv ==
  \A t \in Task :
    /\ state[t] \in Finished => proc[t] \in {"none", "reaped", "foreign"}
    /\ disk[t] \in Terminal =>
         /\ proc[t] \in {"reaped", "foreign"}
         /\ waiter[t] = "done" \/ (waiter[t] = "none" /\ starting[t] = "failed")

\* A command that no check of its Start call will look at again.
Loose(t) == proc[t] = "running" /\ starting[t] \notin Started

\* Some StopAll has it still to signal.
Due(a, t) == \/ stopAll[a].phase = "snapshot" /\ t \in tasks
             \/ stopAll[a].phase = "signal" /\ t \in stopAll[a].left

\* The switch is on since it latched only while the file is there, and then every
\* loose command is due.
KillInv ==
  latched /\ ~lifted => /\ killFile
                        /\ \A t \in Task : Loose(t) => \E a \in Stopper : Due(a, t)

\* Without a session every call under way is canceled; StopAll of the client runs
\* between two sessions and no command it has passed is loose.
SessionInv ==
  /\ session # "up" => \A t \in Task : starting[t] \in InFlight => ctxDone[t]
  /\ stopAll["client"].phase \in {"idle", "snapshot", "signal"}
  /\ stopAll["client"].phase # "idle" =>
       session = "lost" /\ \A t \in Task : Loose(t) => Due("client", t)
  /\ session = "ended" => \A t \in Task : ~Loose(t)

TaskInv == TaskTypeOK /\ SlotsInv /\ StartInv /\ WaitInv /\ OutcomeInv /\ KillInv /\ SessionInv

USE MaxActiveAssumption, BoundAssumption, NameAssumption

-----------------------------------------------------------------------------
(* Initially.                                                              *)

\* A manager without tasks, and an Agent that is connected.
LEMMA TaskInitially == TaskInit => TaskInv
<1> SUFFICES ASSUME TaskInit PROVE TaskInv
  OBVIOUS
<1> USE DEF TaskInit
<1>1. TaskTypeOK
  <2>1. /\ starting \in [Task -> InFlight \cup {"none", "returned", "failed"}]
        /\ taskSlots \in 0..MaxActive /\ tasks \in SUBSET Task
        /\ state \in [Task -> {"none", "running", "orphaned_running"} \cup Finished]
        /\ copier \in [Task -> {"none", "copying", "done"}]
        /\ waiter \in [Task -> {"none", "wait", "drain", "settle", "retire", "persist", "done"}]
        /\ session \in {"up", "lost", "ended"}
        /\ proc \in [Task -> {"none", "orphan", "reaped", "foreign"} \cup Live]
        /\ disk \in [Task -> {"none", "running"} \cup Terminal]
        /\ crashes \in 0..MaxCrash /\ toggles \in 0..MaxToggle
    BY SMT
  <2>2. stopAll \in [Stopper -> [phase : Phase, left : SUBSET Task]]
    BY DEF Rest, Phase
  <2>3. {refused, ctxDone, attached, canceling} \subseteq [Task -> BOOLEAN]
    BY Zenon
  <2>4. {killFile, latched, lifted} \subseteq BOOLEAN
    BY Zenon
  <2> QED BY <2>1, <2>2, <2>3, <2>4 DEF TaskTypeOK
<1>2. SlotsInv
  <2>1. Owners = {}
    BY DEF Owners, Owns, OnSlot, WaitOnSlot
  <2> QED BY <2>1, FS_EmptySet DEF SlotsInv
<1>3. StartInv /\ WaitInv /\ OutcomeInv
  BY DEF StartInv, WaitInv, OutcomeInv, OnSlot, Live, Terminal, Finished
<1>4. KillInv /\ SessionInv
  <2>1. stopAll["client"] = Rest
    BY DEF Stopper
  <2>2. SessionInv
    BY <2>1 DEF SessionInv, Loose, Rest
  <2> QED BY <2>2 DEF KillInv
<1> QED BY <1>1, <1>2, <1>3, <1>4 DEF TaskInv

-----------------------------------------------------------------------------
(* The life of one task.                                                   *)

\* The steps that leave the stages of every task alone.
LEMMA StagesSame ==
  ASSUME TaskInv,
         UNCHANGED <<starting, waiter, tasks, state, proc, disk>>
  PROVE  StartInv' /\ WaitInv' /\ OutcomeInv'
BY DEF TaskInv, StartInv, WaitInv, OutcomeInv

\* What a restart makes of a command, and what the next Agent reads of it.
LEMMA RestartAt ==
  ASSUME TaskTypeOK, Restart, NEW t \in Task
  PROVE  /\ proc'[t] \in {"none", "orphan", "reaped", "foreign"}
         /\ proc[t] = "none" => proc'[t] = "none"
         /\ proc[t] \in {"reaped", "foreign"} => proc'[t] \in {"reaped", "foreign"}
         /\ disk[t] # "running" => state'[t] = disk[t]
         /\ disk[t] = "running" =>
              state'[t] = IF proc'[t] \in {"orphan", "foreign"} THEN "orphaned_running" ELSE "orphaned"
         /\ state'[t] \in {"none", "orphaned_running"} \cup Finished
<1>1. PICK reused :
        proc' = [u \in Task |-> CASE proc[u] = "none" -> "none"
                                 [] proc[u] \in {"running", "killed", "orphan"} -> "orphan"
                                 [] OTHER -> IF u \in reused THEN "foreign" ELSE "reaped"]
  BY Zenon DEF Restart
<1>2. proc'[t] = CASE proc[t] = "none" -> "none"
                   [] proc[t] \in {"running", "killed", "orphan"} -> "orphan"
                   [] OTHER -> IF t \in reused THEN "foreign" ELSE "reaped"
  BY <1>1
<1>3. /\ proc'[t] \in {"none", "orphan", "reaped", "foreign"}
      /\ proc[t] = "none" => proc'[t] = "none"
      /\ proc[t] \in {"reaped", "foreign"} => proc'[t] \in {"reaped", "foreign"}
  BY <1>2
<1>4. state' = [u \in Task |-> IF disk[u] # "running" THEN disk[u]
                              ELSE IF proc'[u] \in {"orphan", "foreign"}
                                     THEN "orphaned_running" ELSE "orphaned"]
  BY Zenon DEF Restart, processExists
<1>5. disk[t] \in {"none", "running"} \cup Terminal
  BY DEF TaskTypeOK
<1>6. state'[t] = IF disk[t] # "running" THEN disk[t]
                  ELSE IF proc'[t] \in {"orphan", "foreign"} THEN "orphaned_running" ELSE "orphaned"
  BY <1>4
<1>7. state'[t] \in {"none", "orphaned_running"} \cup Finished
  BY <1>5, <1>6 DEF Finished, Terminal
<1> QED BY <1>3, <1>6, <1>7

LEMMA RestartTypes ==
  ASSUME TaskTypeOK, Restart
  PROVE  /\ proc' \in [Task -> {"none", "orphan", "reaped", "foreign"}]
         /\ state' \in [Task -> {"none", "orphaned_running"} \cup Finished]
<1>1. proc' = [t \in Task |-> proc'[t]] /\ state' = [t \in Task |-> state'[t]]
  BY DEF Restart
<1>2. \A t \in Task : /\ proc'[t] \in {"none", "orphan", "reaped", "foreign"}
                     /\ state'[t] \in {"none", "orphaned_running"} \cup Finished
  BY RestartAt
<1> QED BY <1>1, <1>2, Zenon

\* Start and waitTask take a task from stage to stage; nobody else does, and the
\* next Agent process finds it at the end of both.
LEMMA StagesKept == TaskInv /\ [TaskNext]_taskVars => StartInv' /\ WaitInv' /\ OutcomeInv'
<1> SUFFICES ASSUME TaskInv, [TaskNext]_taskVars PROVE StartInv' /\ WaitInv' /\ OutcomeInv'
  OBVIOUS
<1> DEFINE Kept == StartInv' /\ WaitInv' /\ OutcomeInv'
<1>1. CASE \/ Watch \/ LoseSession \/ EndSession \/ Reconnect \/ ToggleKillFile
           \/ \E a \in Stopper : Latch(a) \/ StopSnapshot(a) \/ StopDone(a)
           \/ \E t \in Task : CancelCall(t) \/ Refuse(t) \/ CopyDone(t)
           \/ UNCHANGED taskVars
  <2>1. UNCHANGED <<starting, waiter, tasks, state, proc, disk>>
    BY <1>1, Zenon
    DEF Watch, WatchLook, Unlatch, LoseSession, EndSession, Reconnect, ToggleKillFile, Latch,
        StopSnapshot, StopDone, CancelCall, Refuse, CopyDone, taskVars, start, run
  <2> QED BY <2>1, StagesSame
<1> USE DEF TaskInv, TaskTypeOK, StartInv, WaitInv, OutcomeInv, OnSlot, Live, Terminal, Finished,
            InFlight, Started
<1>2. ASSUME NEW t \in Task, Call(t) \/ TakeSlot(t) \/ NoSlot(t) PROVE Kept
  BY <1>2 DEF Call, TakeSlot, NoSlot, Return, Step, run
<1>3. ASSUME NEW t \in Task, Spawn(t) \/ SpawnFails(t) \/ CheckSpawned(t) PROVE Kept
  BY <1>3 DEF Spawn, SpawnFails, CheckSpawned, Return, Step, run
<1>4. ASSUME NEW t \in Task, Abandon(t) \/ RegisterTask(t) PROVE Kept
  BY <1>4 DEF Abandon, RegisterTask, Return, Step, run
<1>5. ASSUME NEW t \in Task, PersistRunning(t) \/ Launch(t) PROVE Kept
  BY <1>5 DEF PersistRunning, Launch, Return, Step, run
<1>6. ASSUME NEW t \in Task, Succeed(t) \/ KillStarted(t) PROVE Kept
  BY <1>6 DEF Succeed, KillStarted, Killed, Return, Step, run
<1>7. ASSUME NEW t \in Task, Exit(t) \/ Die(t) \/ Stop(t) PROVE Kept
  BY <1>7 DEF Exit, Die, Stop, Killed, start, run
<1>8. ASSUME NEW t \in Task, NEW a \in Stopper, StopSignal(a, t) PROVE Kept
  BY <1>8 DEF StopSignal, Killed, start, run
<1>9. ASSUME NEW t \in Task, Reap(t) \/ CloseLog(t) \/ Settle(t) PROVE Kept
  BY <1>9 DEF Reap, CloseLog, Settle, WaiterGoes, start
<1>10. ASSUME NEW t \in Task, Retire(t) \/ PersistFinal(t) PROVE Kept
  BY <1>10 DEF Retire, PersistFinal, WaiterGoes, start
<1>11. CASE Restart
  <2>1. /\ starting' = [t \in Task |-> IF starting[t] = "none" THEN "none" ELSE "failed"]
        /\ waiter' = [t \in Task |-> "none"] /\ disk' = disk
    BY <1>11 DEF Restart
  <2>2. ASSUME NEW t \in Task
        PROVE  /\ starting'[t] \in {"none", "failed"} /\ waiter'[t] = "none" /\ disk'[t] = disk[t]
               /\ starting'[t] = "none" => proc'[t] = "none" /\ state'[t] = "none" /\ disk'[t] = "none"
               /\ proc'[t] \notin {"running", "killed", "exited"}
               /\ state'[t] \in Finished => proc'[t] \in {"none", "reaped", "foreign"}
               /\ disk'[t] \in Terminal =>
                    proc'[t] \in {"reaped", "foreign"} /\ starting'[t] = "failed"
    <3>0. TaskTypeOK
      OBVIOUS
    <3>1. /\ proc'[t] \in {"none", "orphan", "reaped", "foreign"}
          /\ proc[t] = "none" => proc'[t] = "none"
          /\ proc[t] \in {"reaped", "foreign"} => proc'[t] \in {"reaped", "foreign"}
          /\ disk[t] # "running" => state'[t] = disk[t]
          /\ disk[t] = "running" =>
               state'[t] = IF proc'[t] \in {"orphan", "foreign"} THEN "orphaned_running" ELSE "orphaned"
      BY ONLY <1>11, <3>0, RestartAt
    <3>2. /\ starting[t] = "none" => proc[t] = "none" /\ disk[t] = "none"
          /\ disk[t] \in Terminal => proc[t] \in {"reaped", "foreign"} /\ starting[t] # "none"
          /\ disk[t] \in {"none", "running"} \cup Terminal
      OBVIOUS
    <3>3. /\ starting'[t] = IF starting[t] = "none" THEN "none" ELSE "failed"
          /\ waiter'[t] = "none" /\ disk'[t] = disk[t]
      BY ONLY <2>1
    <3> QED BY ONLY <3>1, <3>2, <3>3 DEF Finished, Terminal
  <2> QED BY <2>2
<1> QED
  BY <1>1, <1>2, <1>3, <1>4, <1>5, <1>6, <1>7, <1>8, <1>9, <1>10, <1>11
  DEF TaskNext, StopStep, StartStep, WaitStep

-----------------------------------------------------------------------------
(* Slots.                                                                  *)

\* The slot of one task is taken, returned, or handed on.
LEMMA OwnersChange ==
  ASSUME TaskInv, NEW t \in Task, \A u \in Task \ {t} : Owns(u)' = Owns(u)
  PROVE  /\ IsFiniteSet(Owners')
         /\ Owns(t)' /\ ~Owns(t) => Cardinality(Owners') = taskSlots + 1
         /\ ~Owns(t)' /\ Owns(t) => Cardinality(Owners') = taskSlots - 1
         /\ (Owns(t)' <=> Owns(t)) => Cardinality(Owners') = taskSlots
<1>1. IsFiniteSet(Owners) /\ taskSlots = Cardinality(Owners)
  BY DEF TaskInv, SlotsInv
<1>2. CASE Owns(t)'
  <2>1. Owners' = Owners \cup {t}
    BY <1>2 DEF Owners
  <2>2. t \in Owners <=> Owns(t)
    BY DEF Owners
  <2> QED BY <1>1, <1>2, <2>1, <2>2, FS_AddElement
<1>3. CASE ~Owns(t)'
  <2>1. Owners' = Owners \ {t}
    BY <1>3 DEF Owners
  <2>2. t \in Owners <=> Owns(t)
    BY DEF Owners
  <2> QED BY <1>1, <1>3, <2>1, <2>2, FS_RemoveElement
<1> QED BY <1>2, <1>3

\* Each exit of Start returns the slot it took, once; waitTask returns it when it
\* was launched; and a slot is taken only while the channel has room.
LEMMA SlotsKept == TaskInv /\ [TaskNext]_taskVars => SlotsInv' /\ taskSlots' \in 0..MaxActive
<1> SUFFICES ASSUME TaskInv, [TaskNext]_taskVars PROVE SlotsInv' /\ taskSlots' \in 0..MaxActive
  OBVIOUS
<1>0. taskSlots \in 0..MaxActive /\ taskSlots = Cardinality(Owners) /\ IsFiniteSet(Owners)
  BY DEF TaskInv, TaskTypeOK, SlotsInv
<1> USE DEF OnSlot, WaitOnSlot
<1> DEFINE Kept == SlotsInv' /\ taskSlots' \in 0..MaxActive
<1>1. ASSUME UNCHANGED <<starting, waiter, taskSlots>> PROVE Kept
  BY <1>0, <1>1 DEF SlotsInv, Owners, Owns
<1>2. CASE \/ Watch \/ LoseSession \/ EndSession \/ Reconnect \/ ToggleKillFile
           \/ \E a \in Stopper : Latch(a) \/ StopSnapshot(a) \/ StopDone(a)
           \/ \E a \in Stopper, t \in Task : StopSignal(a, t)
           \/ \E t \in Task : CancelCall(t) \/ Refuse(t) \/ CopyDone(t) \/ Exit(t) \/ Die(t) \/ Stop(t)
           \/ UNCHANGED taskVars
  <2>1. UNCHANGED <<starting, waiter, taskSlots>>
    BY <1>2, Zenon
    DEF Watch, WatchLook, Unlatch, LoseSession, EndSession, Reconnect, ToggleKillFile, Latch,
        StopSnapshot, StopDone, StopSignal, CancelCall, Refuse, CopyDone, Exit, Die, Stop,
        taskVars, start, run
  <2> QED BY <2>1, <1>1
<1> DEFINE Others(t) == \A u \in Task \ {t} : Owns(u)' = Owns(u)
<1>3. ASSUME NEW t \in Task, Others(t), Owns(t)' <=> Owns(t), UNCHANGED taskSlots PROVE Kept
  BY <1>0, <1>3, OwnersChange DEF SlotsInv
<1>4. ASSUME NEW t \in Task, Others(t), ~Owns(t)', Owns(t), taskSlots' = taskSlots - 1 PROVE Kept
  <2>1. IsFiniteSet(Owners') /\ taskSlots' = Cardinality(Owners')
    BY <1>4, OwnersChange
  <2>2. taskSlots' \in Nat
    BY <2>1, FS_CardinalityType
  <2> QED BY <1>0, <1>4, <2>1, <2>2 DEF SlotsInv
<1> USE DEF Owns, TaskInv, TaskTypeOK, StartInv
<1>5. ASSUME NEW t \in Task, TakeSlot(t) PROVE Kept
  <2>1. Others(t) /\ ~Owns(t) /\ Owns(t)'
    BY <1>5 DEF TakeSlot, Step
  <2>2. taskSlots' = taskSlots + 1 /\ taskSlots < MaxActive
    BY <1>5 DEF TakeSlot
  <2> HIDE DEF Owns, TaskInv
  <2>3. IsFiniteSet(Owners') /\ Cardinality(Owners') = taskSlots + 1
    BY <2>1, OwnersChange
  <2> QED BY <1>0, <2>2, <2>3 DEF SlotsInv
<1>6. ASSUME NEW t \in Task,
             \/ Call(t) \/ NoSlot(t) \/ Spawn(t) \/ CheckSpawned(t) \/ RegisterTask(t)
             \/ PersistRunning(t) \/ Launch(t) \/ Succeed(t) \/ KillStarted(t)
      PROVE  Kept
  <2>1. UNCHANGED taskSlots
    BY <1>6
    DEF Call, NoSlot, Spawn, CheckSpawned, RegisterTask, PersistRunning, Launch, Succeed,
        KillStarted, run
  <2>2. Others(t) /\ (Owns(t)' <=> Owns(t))
    BY <1>6
    DEF Call, NoSlot, Spawn, CheckSpawned, RegisterTask, PersistRunning, Launch, Succeed,
        KillStarted, Return, Step, run
  <2> QED BY <2>1, <2>2, <1>3
<1>7. ASSUME NEW t \in Task, SpawnFails(t) \/ (Abandon(t) /\ starting[t] # "called") PROVE Kept
  <2>1. Others(t) /\ ~Owns(t)' /\ Owns(t)
    BY <1>7 DEF SpawnFails, Abandon, Return
  <2>2. taskSlots' = taskSlots - 1
    BY <1>7 DEF SpawnFails, Abandon
  <2> QED BY <2>1, <2>2, <1>4
<1>8. ASSUME NEW t \in Task, Abandon(t), starting[t] = "called" PROVE Kept
  <2>1. Others(t) /\ (Owns(t)' <=> Owns(t)) /\ UNCHANGED taskSlots
    BY <1>8 DEF Abandon, Return
  <2> QED BY <2>1, <1>3
<1>9. ASSUME NEW t \in Task, Reap(t) \/ CloseLog(t) \/ Settle(t) \/ Retire(t) PROVE Kept
  <2>1. Others(t) /\ (Owns(t)' <=> Owns(t)) /\ UNCHANGED taskSlots
    BY <1>9 DEF Reap, CloseLog, Settle, Retire, WaiterGoes, start
  <2> QED BY <2>1, <1>3
<1>10. ASSUME NEW t \in Task, PersistFinal(t) PROVE Kept
  <2>1. Others(t) /\ ~Owns(t)' /\ Owns(t) /\ taskSlots' = taskSlots - 1
    BY <1>10 DEF PersistFinal, WaiterGoes, start
  <2> QED BY <2>1, <1>4
<1>11. CASE Restart
  <2>1. Owners' = {} /\ taskSlots' = 0
    BY <1>11 DEF Restart, Owners
  <2> QED BY <2>1, FS_EmptySet DEF SlotsInv
<1> QED
  BY <1>2, <1>5, <1>6, <1>7, <1>8, <1>9, <1>10, <1>11
  DEF TaskNext, StopStep, StartStep, WaitStep

-----------------------------------------------------------------------------
(* Loose commands.                                                         *)

\* What may be loose is in the map, so that a snapshot taken now has it.
LEMMA LooseIsInMap == ASSUME TaskInv, NEW t \in Task, Loose(t) PROVE t \in tasks
BY DEF TaskInv, StartInv, WaitInv, Loose, Started, OnSlot, Live

\* The steps after which the stage of every process and Start call is the same.
NoProcessStep ==
  \/ Watch \/ LoseSession \/ EndSession \/ Reconnect \/ ToggleKillFile
  \/ \E a \in Stopper : Latch(a) \/ StopSnapshot(a) \/ StopDone(a)
  \/ \E t \in Task : CancelCall(t) \/ Refuse(t) \/ CopyDone(t)

\* Only a Start call that passes its last check lets a command loose.
LEMMA LooseOnlyBySuccess ==
  ASSUME TaskInv, [TaskNext]_taskVars, NEW t \in Task, Loose(t)'
  PROVE  Loose(t) \/ Succeed(t)
<1> USE DEF Loose
<1>1. CASE NoProcessStep \/ UNCHANGED taskVars
  <2>1. UNCHANGED <<starting, proc>>
    BY <1>1, Zenon
    DEF NoProcessStep, Watch, WatchLook, Unlatch, LoseSession, EndSession, Reconnect, ToggleKillFile,
        Latch, StopSnapshot, StopDone, CancelCall, Refuse, CopyDone, taskVars, start, run
  <2> QED BY <2>1
<1> USE DEF TaskInv, TaskTypeOK, StartInv, WaitInv, OnSlot, Started, Live
<1>2. ASSUME NEW u \in Task,
             \/ Call(u) \/ TakeSlot(u) \/ NoSlot(u) \/ Spawn(u) \/ SpawnFails(u) \/ CheckSpawned(u)
             \/ RegisterTask(u) \/ PersistRunning(u) \/ Launch(u)
      PROVE  Loose(t)
  BY <1>2
  DEF Call, TakeSlot, NoSlot, Spawn, SpawnFails, CheckSpawned, RegisterTask, PersistRunning, Launch,
      Return, Step
<1>3. ASSUME NEW u \in Task, Abandon(u) \/ KillStarted(u) PROVE Loose(t)
  BY <1>3 DEF Abandon, KillStarted, Killed, Return
<1>4. ASSUME NEW u \in Task, Exit(u) \/ Die(u) \/ Stop(u) PROVE Loose(t)
  BY <1>4 DEF Exit, Die, Stop, Killed, start
<1>5. ASSUME NEW u \in Task, NEW a \in Stopper, StopSignal(a, u) PROVE Loose(t)
  BY <1>5 DEF StopSignal, Killed, start
<1>6. ASSUME NEW u \in Task, WaitStep(u) PROVE Loose(t)
  BY <1>6 DEF WaitStep, Reap, CloseLog, Settle, Retire, PersistFinal, WaiterGoes, start
<1>7. CASE Restart
  BY <1>7 DEF Restart
<1>8. ASSUME NEW u \in Task, Succeed(u) PROVE Loose(t) \/ Succeed(t)
  <2>1. CASE u = t
    BY <1>8, <2>1
  <2>2. CASE u # t
    <3>1. starting'[t] = starting[t] /\ proc' = proc
      BY <1>8, <2>2 DEF Succeed, Return
    <3> QED BY <3>1
  <2> QED BY <2>1, <2>2
<1> QED
  BY <1>1, <1>2, <1>3, <1>4, <1>5, <1>6, <1>7, <1>8
  DEF TaskNext, StopStep, StartStep, NoProcessStep

\* A StopAll that has a command still to signal has so until the command is killed:
\* the snapshot has it, and Retire comes after cmd.Wait.
LEMMA DueStays ==
  ASSUME TaskInv, [TaskNext]_taskVars, NEW t \in Task, Loose(t), Loose(t)', NEW a \in Stopper,
         Due(a, t)
  PROVE  Due(a, t)'
<1> USE DEF Due, TaskInv, TaskTypeOK
<1>1. CASE UNCHANGED <<stopAll, tasks>>
  BY <1>1
<1>2. ASSUME NEW b \in Stopper, Latch(b) \/ StopSnapshot(b) \/ StopDone(b) PROVE Due(a, t)'
  <2>1. CASE Latch(b)
    BY <2>1 DEF Latch, Rest, run
  <2>2. CASE StopSnapshot(b)
    BY <2>2 DEF StopSnapshot, run
  <2>3. CASE StopDone(b)
    BY <2>3 DEF StopDone, Rest, run
  <2> QED BY <1>2, <2>1, <2>2, <2>3
<1>3. ASSUME NEW b \in Stopper, NEW u \in Task, StopSignal(b, u) PROVE Due(a, t)'
  BY <1>3 DEF StopSignal, Killed, Loose, run
<1>4. ASSUME NEW b \in Stopper, NEW d \in Phase, Saw(b, d), UNCHANGED tasks PROVE Due(a, t)'
  BY <1>4 DEF Saw, Rest
<1>5. CASE WatchLook
  <2>1. (killFile \/ ~killFile) /\ "watcher" \in Stopper /\ {"latch", "unlatch"} \subseteq Phase
    BY DEF Stopper, Phase
  <2>2. Saw("watcher", "latch") \/ Saw("watcher", "unlatch")
    BY <1>5, <2>1, Zenon DEF WatchLook
  <2>3. UNCHANGED tasks
    BY <1>5 DEF WatchLook, run
  <2> QED BY <1>4, <2>1, <2>2, <2>3
<1>6. CASE Unlatch
  BY <1>6 DEF Unlatch, Rest, run
<1>7. CASE EndSession
  BY <1>7 DEF EndSession, Rest, run
<1>8. ASSUME NEW u \in Task, Refuse(u) PROVE Due(a, t)'
  <2>1. u \in Stopper /\ "latch" \in Phase
    BY DEF Stopper, Phase
  <2>2. UNCHANGED tasks /\ (UNCHANGED stopAll \/ Saw(u, "latch"))
    BY <1>8, Zenon DEF Refuse, run
  <2> QED BY <1>1, <1>4, <2>1, <2>2
<1>9. ASSUME NEW u \in Task, RegisterTask(u) \/ Retire(u) PROVE Due(a, t)'
  BY <1>9 DEF RegisterTask, Retire, WaiterGoes, WaitInv, Loose, Live
<1>10. CASE Restart
  BY <1>10 DEF Restart, Loose
<1>11. CASE \/ LoseSession \/ Reconnect \/ ToggleKillFile \/ UNCHANGED taskVars
            \/ \E u \in Task :
                 \/ Call(u) \/ TakeSlot(u) \/ NoSlot(u) \/ Spawn(u) \/ SpawnFails(u) \/ CheckSpawned(u)
                 \/ Abandon(u) \/ PersistRunning(u) \/ Launch(u) \/ Succeed(u) \/ KillStarted(u)
                 \/ CancelCall(u) \/ Exit(u) \/ Die(u) \/ Stop(u) \/ CopyDone(u)
                 \/ Reap(u) \/ CloseLog(u) \/ Settle(u) \/ PersistFinal(u)
  <2>1. UNCHANGED <<stopAll, tasks>>
    BY <1>11, Zenon
    DEF LoseSession, Reconnect, ToggleKillFile, taskVars, Call, TakeSlot, NoSlot, Spawn, SpawnFails,
        CheckSpawned, Abandon, PersistRunning, Launch, Succeed, KillStarted, CancelCall, Exit, Die,
        Stop, CopyDone, Reap, CloseLog, Settle, PersistFinal, start, run
  <2> QED BY <1>1, <2>1
<1> QED
  BY <1>2, <1>3, <1>5, <1>6, <1>7, <1>8, <1>9, <1>10, <1>11
  DEF TaskNext, Watch, StopStep, StartStep, WaitStep

\* The switch is latched, lifted or held by four steps only.
LEMMA KillSteps ==
  ASSUME [TaskNext]_taskVars
  PROVE  \/ UNCHANGED kill \/ Unlatch \/ ToggleKillFile \/ Restart
         \/ \E a \in Stopper : Latch(a)
BY Zenon
DEF TaskNext, Watch, StopStep, StartStep, WaitStep, WatchLook, LoseSession, EndSession, Reconnect,
    taskVars, StopSnapshot, StopSignal, StopDone, Call, Refuse, TakeSlot, NoSlot, Spawn, SpawnFails,
    CheckSpawned, Abandon, RegisterTask, PersistRunning, Launch, Succeed, KillStarted, CancelCall,
    Exit, Die, Stop, CopyDone, Reap, CloseLog, Settle, Retire, PersistFinal

\* The caller that latches the switch takes its snapshot after it, so every loose
\* command is due at once; and while the file stays no other becomes loose.
LEMMA KillKept == TaskInv /\ [TaskNext]_taskVars => KillInv'
<1> SUFFICES ASSUME TaskInv, [TaskNext]_taskVars, latched', ~lifted'
             PROVE  killFile' /\ \A t \in Task : Loose(t)' => \E a \in Stopper : Due(a, t)'
  BY DEF KillInv
<1>1. CASE Restart
  <2>1. killFile'
    BY <1>1, Zenon DEF Restart
  <2>2. \A t \in Task : ~Loose(t)'
    BY <1>1 DEF Restart, Loose
  <2> QED BY <2>1, <2>2
<1>2. CASE ~Restart /\ latched /\ ~lifted
  <2>1. killFile /\ \A t \in Task : Loose(t) => \E a \in Stopper : Due(a, t)
    BY <1>2 DEF TaskInv, KillInv
  <2>2. killFile'
    <3>1. CASE ToggleKillFile
      BY <3>1, <1>2, <2>1, Zenon DEF ToggleKillFile
    <3>2. CASE UNCHANGED killFile
      BY <2>1, <3>2, Zenon
    <3> QED BY <1>2, <3>1, <3>2, KillSteps, Zenon DEF kill, Unlatch, Latch
  <2>3. \A t \in Task : ~Succeed(t)
    BY <2>1 DEF Succeed, Allowed
  <2>4. ASSUME NEW t \in Task, Loose(t)' PROVE \E a \in Stopper : Due(a, t)'
    BY <2>1, <2>3, <2>4, LooseOnlyBySuccess, DueStays
  <2> QED BY <2>2, <2>4
<1>3. CASE ~Restart /\ ~(latched /\ ~lifted)
  <2>1. ~(UNCHANGED kill) /\ ~Unlatch
    BY <1>3, Zenon DEF kill, Unlatch
  <2>2. ~ToggleKillFile
    BY <1>3, Zenon DEF ToggleKillFile
  <2>3. PICK a \in Stopper : Latch(a)
    BY <1>3, <2>1, <2>2, KillSteps, Zenon
  <2>4. /\ ~latched /\ killFile' = killFile /\ lifted' = ~killFile
        /\ stopAll' = [stopAll EXCEPT ![a].phase = "snapshot"] /\ UNCHANGED <<starting, proc, tasks>>
    BY <1>3, <2>1, <2>3, Zenon DEF Latch, kill, run
  <2>5. killFile'
    BY <2>4, Zenon
  <2>6. stopAll'[a].phase = "snapshot"
    BY <2>4 DEF TaskInv, TaskTypeOK
  <2>7. \A t \in Task : Loose(t)' => t \in tasks'
    BY <2>4, LooseIsInMap DEF Loose
  <2> QED BY <2>5, <2>6, <2>7 DEF Due
<1> QED BY <1>1, <1>2, <1>3

\* The session comes and goes by four steps only.
LEMMA SessionSteps ==
  ASSUME [TaskNext]_taskVars
  PROVE  UNCHANGED session \/ LoseSession \/ Reconnect \/ Restart \/ StopDone("client")
<1>1. ASSUME NEW a \in Stopper, StopDone(a) PROVE UNCHANGED session \/ StopDone("client")
  BY <1>1 DEF StopDone
<1> QED
  BY <1>1, Zenon
  DEF TaskNext, Watch, StopStep, StartStep, WaitStep, WatchLook, Unlatch, EndSession, ToggleKillFile,
      taskVars, Latch, StopSnapshot, StopSignal, Call, Refuse, TakeSlot, NoSlot, Spawn, SpawnFails,
      CheckSpawned, Abandon, RegisterTask, PersistRunning, Launch, Succeed, KillStarted, CancelCall,
      Exit, Die, Stop, CopyDone, Reap, CloseLog, Settle, Retire, PersistFinal

\* StopAll of the client begins with EndRemoteSession and is nobody else's.
LEMMA ClientSteps ==
  ASSUME TaskInv, [TaskNext]_taskVars
  PROVE  /\ stopAll'["client"].phase \in {"idle", "snapshot", "signal"}
         /\ stopAll'["client"].phase # "idle" => stopAll["client"].phase # "idle" \/ EndSession
<1> USE DEF TaskInv, TaskTypeOK, SessionInv
<1>0. /\ "client" \in Stopper /\ "watcher" # "client" /\ "client" \notin Task
      /\ stopAll["client"].phase \in {"idle", "snapshot", "signal"}
  BY DEF Stopper
<1> DEFINE Kept == /\ stopAll'["client"].phase \in {"idle", "snapshot", "signal"}
                   /\ stopAll'["client"].phase # "idle" => stopAll["client"].phase # "idle" \/ EndSession
<1>1. CASE UNCHANGED stopAll["client"]
  BY <1>0, <1>1
<1>2. ASSUME NEW a \in Stopper, StopStep(a) PROVE Kept
  <2>1. CASE a # "client"
    <3>1. UNCHANGED stopAll["client"]
      BY <1>0, <1>2, <2>1 DEF StopStep, Latch, StopSnapshot, StopSignal, StopDone
    <3> QED BY <1>1, <3>1
  <2>2. CASE a = "client"
    BY <1>0, <1>2, <2>2 DEF StopStep, Latch, StopSnapshot, StopSignal, StopDone, Rest
  <2> QED BY <2>1, <2>2
<1>3. CASE EndSession
  BY <1>0, <1>3 DEF EndSession, Rest
<1>4. CASE Restart
  BY <1>0, <1>4 DEF Restart, Rest
<1>5. CASE Watch
  <2>1. UNCHANGED stopAll["client"]
    BY <1>0, <1>5 DEF Watch, WatchLook, Unlatch, Saw
  <2> QED BY <1>1, <2>1
<1>6. ASSUME NEW t \in Task, Refuse(t) PROVE Kept
  <2>1. UNCHANGED stopAll["client"]
    BY <1>0, <1>6 DEF Refuse, Saw
  <2> QED BY <1>1, <2>1
<1>7. CASE \/ LoseSession \/ Reconnect \/ ToggleKillFile \/ UNCHANGED taskVars
           \/ \E u \in Task :
                \/ Call(u) \/ TakeSlot(u) \/ NoSlot(u) \/ Spawn(u) \/ SpawnFails(u) \/ CheckSpawned(u)
                \/ Abandon(u) \/ RegisterTask(u) \/ PersistRunning(u) \/ Launch(u) \/ Succeed(u)
                \/ KillStarted(u) \/ CancelCall(u) \/ Exit(u) \/ Die(u) \/ Stop(u) \/ CopyDone(u)
                \/ WaitStep(u)
  <2>1. UNCHANGED stopAll
    BY <1>7, Zenon
    DEF LoseSession, Reconnect, ToggleKillFile, taskVars, Call, TakeSlot, NoSlot, Spawn, SpawnFails,
        CheckSpawned, Abandon, RegisterTask, PersistRunning, Launch, Succeed, KillStarted, CancelCall,
        Exit, Die, Stop, CopyDone, WaitStep, Reap, CloseLog, Settle, Retire, PersistFinal
  <2> QED BY <1>1, <2>1
<1> QED BY <1>2, <1>3, <1>4, <1>5, <1>6, <1>7 DEF TaskNext, StartStep

\* A call that is under way was so before, unless it was just made, and a context
\* that is canceled stays so until the call returns.
LEMMA ContextStays ==
  ASSUME TaskInv, [TaskNext]_taskVars, NEW t \in Task, starting'[t] \in InFlight
  PROVE  /\ starting[t] \in InFlight \/ Call(t)
         /\ ctxDone[t] => ctxDone'[t]
<1> USE DEF InFlight, Started
<1>0. starting \in [Task -> InFlight \cup {"none", "returned", "failed"}] /\ ctxDone \in [Task -> BOOLEAN]
  BY Zenon DEF TaskInv, TaskTypeOK
<1>1. CASE UNCHANGED <<starting, ctxDone>>
  BY <1>1
<1>2. ASSUME NEW u \in Task, NEW o \in {"failed", "returned"}, Return(u, o)
      PROVE  starting[t] \in InFlight /\ (ctxDone[t] => ctxDone'[t])
  BY <1>0, <1>2 DEF Return
<1>3. ASSUME NEW u \in Task, NEW f \in InFlight, NEW g, Step(u, f, g), Same
      PROVE  starting[t] \in InFlight /\ (ctxDone[t] => ctxDone'[t])
  BY <1>0, <1>3 DEF Step, Same
<1>4. ASSUME NEW u \in Task, Call(u)
      PROVE  (starting[t] \in InFlight \/ Call(t)) /\ (ctxDone[t] => ctxDone'[t])
  BY <1>0, <1>4 DEF Call
<1>5. ASSUME NEW u \in Task, CancelCall(u)
      PROVE  starting[t] \in InFlight /\ (ctxDone[t] => ctxDone'[t])
  <2>1. ctxDone' = [ctxDone EXCEPT ![u] = TRUE] /\ UNCHANGED starting
    BY <1>5 DEF CancelCall
  <2> QED BY <1>0, <2>1
<1>6. CASE LoseSession
  <2>1. ctxDone' = [u \in Task |-> ctxDone[u] \/ starting[u] \in InFlight] /\ UNCHANGED starting
    BY <1>6, Zenon DEF LoseSession
  <2> QED BY <2>1, Zenon
<1>7. CASE Restart
  BY <1>7 DEF Restart
<1>8. ASSUME NEW u \in Task,
             \/ NoSlot(u) \/ SpawnFails(u) \/ Abandon(u) \/ KillStarted(u) \/ Succeed(u)
      PROVE  \E o \in {"failed", "returned"} : Return(u, o)
  BY <1>8 DEF NoSlot, SpawnFails, Abandon, KillStarted, Succeed
<1>9. ASSUME NEW u \in Task,
             \/ TakeSlot(u) \/ Spawn(u) \/ CheckSpawned(u) \/ RegisterTask(u) \/ PersistRunning(u)
             \/ Launch(u)
      PROVE  Same /\ \E f \in InFlight, g \in InFlight : Step(u, f, g)
  BY <1>9 DEF TakeSlot, Spawn, CheckSpawned, RegisterTask, PersistRunning, Launch
<1>10. CASE \/ Watch \/ EndSession \/ Reconnect \/ ToggleKillFile \/ UNCHANGED taskVars
            \/ \E a \in Stopper : StopStep(a)
            \/ \E u \in Task : \/ Refuse(u) \/ Exit(u) \/ Die(u) \/ Stop(u) \/ CopyDone(u) \/ WaitStep(u)
  <2>1. UNCHANGED <<starting, ctxDone>>
    BY <1>10, Zenon
    DEF Watch, WatchLook, Unlatch, EndSession, Reconnect, ToggleKillFile, taskVars, StopStep, Latch,
        StopSnapshot, StopSignal, StopDone, Refuse, Exit, Die, Stop, CopyDone, WaitStep, Reap,
        CloseLog, Settle, Retire, PersistFinal, start
  <2> QED BY <1>1, <2>1
<1> QED
  BY <1>2, <1>3, <1>4, <1>5, <1>6, <1>7, <1>8, <1>9, <1>10 DEF TaskNext, StartStep

\* The end of serve cancels every call before StopAll begins, and no call begins
\* until the next session.
LEMMA SessionKept == TaskInv /\ [TaskNext]_taskVars => SessionInv'
<1> SUFFICES ASSUME TaskInv, [TaskNext]_taskVars PROVE SessionInv'
  OBVIOUS
<1> DEFINE Canceled == session # "up" => \A t \in Task : starting[t] \in InFlight => ctxDone[t]
           Client   == stopAll["client"].phase \in {"idle", "snapshot", "signal"}
           Covers   == stopAll["client"].phase # "idle" =>
                         session = "lost" /\ \A t \in Task : Loose(t) => Due("client", t)
           NoneLeft == session = "ended" => \A t \in Task : ~Loose(t)
<1>0. Canceled /\ Client /\ Covers /\ NoneLeft /\ "client" \in Stopper /\ "client" \notin Task
  BY DEF TaskInv, SessionInv, Stopper
<1>1. stopAll["client"].phase = "signal" => session = "lost"
  BY <1>0
<1>2. Canceled'
  <2> SUFFICES ASSUME NEW t \in Task, session' # "up", starting'[t] \in InFlight PROVE ctxDone'[t]
    OBVIOUS
  <2>1. CASE LoseSession
    <3>1. ctxDone' = [u \in Task |-> ctxDone[u] \/ starting[u] \in InFlight] /\ UNCHANGED starting
      BY <2>1, Zenon DEF LoseSession
    <3> QED BY <3>1, Zenon
  <2>2. CASE Restart
    BY <2>2 DEF Restart, InFlight, Started
  <2>3. CASE ~LoseSession /\ ~Restart
    <3>1. session # "up"
      BY <1>1, <2>3, SessionSteps DEF Reconnect, StopDone
    <3>2. starting[t] \in InFlight /\ (ctxDone[t] => ctxDone'[t])
      BY <3>1, ContextStays DEF Call
    <3> QED BY <1>0, <3>1, <3>2, Zenon
  <2> QED BY <2>1, <2>2, <2>3
<1>3. NoneLeft'
  <2> SUFFICES ASSUME session' = "ended", NEW t \in Task, Loose(t)' PROVE FALSE
    OBVIOUS
  <2>1. session # "up"
    BY <1>1, SessionSteps DEF Reconnect, StopDone, LoseSession, Restart
  <2>2. ~Succeed(t)
    BY <1>0, <2>1 DEF Succeed, Allowed, InFlight, Started
  <2>3. Loose(t)
    BY <2>2, LooseOnlyBySuccess
  <2>4. StopDone("client")
    BY <1>0, <2>3, SessionSteps DEF Reconnect, LoseSession, Restart
  <2>5. ~Due("client", t)
    BY <2>4 DEF StopDone, Due
  <2> QED BY <1>0, <2>3, <2>4, <2>5 DEF StopDone
<1>4. Client' /\ (stopAll'["client"].phase # "idle" => stopAll["client"].phase # "idle" \/ EndSession)
  BY <1>0, ClientSteps
<1>5. Covers'
  <2> SUFFICES ASSUME stopAll'["client"].phase # "idle"
               PROVE  session' = "lost" /\ \A t \in Task : Loose(t)' => Due("client", t)'
    OBVIOUS
  <2>1. CASE EndSession
    <3>1. session' = "lost" /\ UNCHANGED <<starting, proc, tasks>> /\ stopAll'["client"].phase = "snapshot"
      BY <1>0, <2>1 DEF EndSession, start, run, TaskInv, TaskTypeOK
    <3> QED BY <3>1, LooseIsInMap DEF Loose, Due
  <2>2. CASE ~EndSession
    <3>1. stopAll["client"].phase # "idle" /\ session = "lost"
      BY <1>0, <1>4, <2>2
    <3>2. ASSUME NEW t \in Task, Loose(t)' PROVE Due("client", t)'
      <4>1. ~Succeed(t)
        BY <1>0, <3>1 DEF Succeed, Allowed, InFlight, Started
      <4>2. Loose(t)
        BY <3>2, <4>1, LooseOnlyBySuccess
      <4> QED BY <1>0, <3>1, <3>2, <4>2, DueStays
    <3>3. ~StopDone("client") /\ ~Restart /\ ~Reconnect
      BY <1>0, <3>1 DEF StopDone, Restart, Reconnect, Rest, TaskInv, TaskTypeOK
    <3> QED BY <3>1, <3>2, <3>3, SessionSteps DEF LoseSession
  <2> QED BY <2>1, <2>2
<1> QED BY <1>2, <1>3, <1>4, <1>5 DEF SessionInv

-----------------------------------------------------------------------------
(* The invariant.                                                          *)

\* Each action writes values of the right kind.
LEMMA TaskTypesKept == TaskInv /\ [TaskNext]_taskVars => TaskTypeOK'
<1> SUFFICES ASSUME TaskInv, [TaskNext]_taskVars PROVE TaskTypeOK'
  OBVIOUS
<1> DEFINE Words == /\ starting \in [Task -> InFlight \cup {"none", "returned", "failed"}]
                    /\ state \in [Task -> {"none", "running", "orphaned_running"} \cup Finished]
                    /\ copier \in [Task -> {"none", "copying", "done"}]
                    /\ waiter \in [Task -> {"none", "wait", "drain", "settle", "retire", "persist", "done"}]
                    /\ proc \in [Task -> {"none", "orphan", "reaped", "foreign"} \cup Live]
                    /\ disk \in [Task -> {"none", "running"} \cup Terminal]
                    /\ tasks \in SUBSET Task
           Host  == /\ session \in {"up", "lost", "ended"}
                    /\ stopAll \in [Stopper -> [phase : Phase, left : SUBSET Task]]
           Count == crashes \in 0..MaxCrash /\ toggles \in 0..MaxToggle
           Flags == /\ {refused, ctxDone, attached, canceling} \subseteq [Task -> BOOLEAN]
                    /\ {killFile, latched, lifted} \subseteq BOOLEAN
<1>0. Words /\ Host /\ Count /\ taskSlots' \in 0..MaxActive /\ tasks \in SUBSET Task
  BY SlotsKept DEF TaskInv, TaskTypeOK
<1>1. Words'
  <2> USE DEF InFlight, Started, Finished, Terminal, Live
  <2>1. CASE UNCHANGED <<starting, state, copier, waiter, proc, disk, tasks>>
    BY <1>0, <2>1
  <2>2. CASE NoProcessStep \/ UNCHANGED taskVars
    BY <1>0, <2>1, <2>2
    DEF NoProcessStep, Watch, WatchLook, Unlatch, LoseSession, EndSession, Reconnect, ToggleKillFile,
        Latch, StopSnapshot, StopDone, CancelCall, Refuse, CopyDone, taskVars, start, run
  <2>3. ASSUME NEW t \in Task,
               \/ Call(t) \/ TakeSlot(t) \/ NoSlot(t) \/ Spawn(t) \/ SpawnFails(t) \/ CheckSpawned(t)
        PROVE  Words'
    BY <1>0, <2>3 DEF Call, TakeSlot, NoSlot, Spawn, SpawnFails, CheckSpawned, Return, Step, run
  <2>4. ASSUME NEW t \in Task,
               \/ Abandon(t) \/ RegisterTask(t) \/ PersistRunning(t) \/ Launch(t) \/ Succeed(t)
        PROVE  Words'
    BY <1>0, <2>4 DEF Abandon, RegisterTask, PersistRunning, Launch, Succeed, Return, Step, run
  <2>5. ASSUME NEW t \in Task, KillStarted(t) \/ Exit(t) \/ Die(t) \/ Stop(t) PROVE Words'
    BY <1>0, <2>5 DEF KillStarted, Exit, Die, Stop, Killed, Return, start, run
  <2>6. ASSUME NEW t \in Task, NEW a \in Stopper, StopSignal(a, t) PROVE Words'
    BY <1>0, <2>6 DEF StopSignal, Killed, start, run
  <2>7. ASSUME NEW t \in Task, Reap(t) \/ CloseLog(t) \/ Settle(t) \/ Retire(t) PROVE Words'
    BY <1>0, <2>7 DEF Reap, CloseLog, Settle, Retire, WaiterGoes, start
  <2>8. ASSUME NEW t \in Task, PersistFinal(t) PROVE Words'
    <3>1. state[t] \in Terminal
      BY <2>8 DEF PersistFinal, WaiterGoes, TaskInv, WaitInv
    <3> QED BY <1>0, <2>8, <3>1 DEF PersistFinal, WaiterGoes, start
  <2>9. CASE Restart
    <3>1. TaskTypeOK
      BY DEF TaskInv
    <3>2. /\ starting' \in [Task -> {"none", "failed"}]
          /\ copier' = [t \in Task |-> "none"] /\ waiter' = [t \in Task |-> "none"]
          /\ tasks' = {} /\ disk' = disk
      BY <2>9 DEF Restart
    <3>3. proc' \in [Task -> {"none", "orphan", "reaped", "foreign"}]
          /\ state' \in [Task -> {"none", "orphaned_running"} \cup Finished]
      BY <2>9, <3>1, RestartTypes
    <3> QED BY <1>0, <3>2, <3>3
  <2> QED
    BY <2>2, <2>3, <2>4, <2>5, <2>6, <2>7, <2>8, <2>9
    DEF TaskNext, StopStep, StartStep, WaitStep, NoProcessStep
<1>2. session' \in {"up", "lost", "ended"}
  BY <1>0, SessionSteps DEF LoseSession, Reconnect, Restart, StopDone
<1>3. stopAll' \in [Stopper -> [phase : Phase, left : SUBSET Task]]
  <2> USE DEF Phase, Rest
  <2>1. ASSUME NEW a \in Stopper, NEW d \in Phase, Saw(a, d)
        PROVE  stopAll' \in [Stopper -> [phase : Phase, left : SUBSET Task]]
    BY <1>0, <2>1 DEF Saw
  <2>2. ASSUME NEW a \in Stopper, StopStep(a)
        PROVE  stopAll' \in [Stopper -> [phase : Phase, left : SUBSET Task]]
    BY <1>0, <2>2 DEF StopStep, Latch, StopSnapshot, StopSignal, StopDone
  <2>3. CASE Watch
    <3>1. Saw("watcher", "latch") \/ Saw("watcher", "unlatch") \/ Unlatch
      <4>1. killFile \/ ~killFile
        OBVIOUS
      <4> QED BY <2>3, <4>1, Zenon DEF Watch, WatchLook
    <3>2. "watcher" \in Stopper
      BY DEF Stopper
    <3>3. CASE Unlatch
      BY <1>0, <3>2, <3>3 DEF Unlatch
    <3> QED BY <2>1, <3>1, <3>2, <3>3
  <2>4. ASSUME NEW t \in Task, Refuse(t)
        PROVE  stopAll' \in [Stopper -> [phase : Phase, left : SUBSET Task]]
    BY <1>0, <2>1, <2>4 DEF Refuse, Stopper
  <2>5. CASE EndSession \/ Restart
    <3>1. CASE EndSession
      BY <1>0, <3>1 DEF EndSession, Stopper
    <3>2. CASE Restart
      BY <3>2 DEF Restart, Rest, Phase
    <3> QED BY <2>5, <3>1, <3>2
  <2>6. CASE UNCHANGED stopAll
    BY <1>0, <2>6
  <2>7. \/ UNCHANGED stopAll \/ EndSession \/ Restart \/ Watch
        \/ \E a \in Stopper : StopStep(a)
        \/ \E t \in Task : Refuse(t)
    BY Zenon
    DEF TaskNext, StartStep, LoseSession, Reconnect, ToggleKillFile, taskVars, Call, TakeSlot, NoSlot,
        Spawn, SpawnFails, CheckSpawned, Abandon, RegisterTask, PersistRunning, Launch, Succeed,
        KillStarted, CancelCall, Exit, Die, Stop, CopyDone, WaitStep, Reap, CloseLog, Settle, Retire,
        PersistFinal
  <2> QED BY <2>2, <2>3, <2>4, <2>5, <2>6, <2>7
<1>4. Count'
  <2>1. CASE Restart
    BY <1>0, <2>1 DEF Restart
  <2>2. CASE ToggleKillFile
    BY <1>0, <2>2 DEF ToggleKillFile
  <2>3. CASE Watch \/ LoseSession \/ EndSession \/ Reconnect \/ \E a \in Stopper : StopStep(a)
    <3>1. UNCHANGED <<crashes, toggles>>
      BY <2>3, Zenon
      DEF Watch, WatchLook, Unlatch, LoseSession, EndSession, Reconnect, StopStep, Latch, StopSnapshot,
          StopSignal, StopDone
    <3> QED BY <1>0, <3>1
  <2>4. ASSUME NEW t \in Task, StartStep(t) PROVE UNCHANGED <<crashes, toggles>>
    BY <2>4, Zenon
    DEF StartStep, Call, Refuse, TakeSlot, NoSlot, Spawn, SpawnFails, CheckSpawned, Abandon,
        RegisterTask, PersistRunning, Launch, Succeed, KillStarted
  <2>5. ASSUME NEW t \in Task, WaitStep(t) PROVE UNCHANGED <<crashes, toggles>>
    BY <2>5, Zenon DEF WaitStep, Reap, CloseLog, Settle, Retire, PersistFinal
  <2>6. ASSUME NEW t \in Task,
               Call(t) \/ CancelCall(t) \/ Exit(t) \/ Die(t) \/ Stop(t) \/ CopyDone(t)
        PROVE  UNCHANGED <<crashes, toggles>>
    BY <2>6, Zenon DEF Call, CancelCall, Exit, Die, Stop, CopyDone
  <2>7. CASE UNCHANGED taskVars
    BY <1>0, <2>7 DEF taskVars
  <2>8. CASE UNCHANGED <<crashes, toggles>>
    BY <1>0, <2>8
  <2> QED BY <2>1, <2>2, <2>3, <2>4, <2>5, <2>6, <2>7, <2>8, Zenon DEF TaskNext
<1>5. {killFile, latched, lifted}' \subseteq BOOLEAN
  <2>1. /\ killFile \in BOOLEAN /\ latched \in BOOLEAN /\ lifted \in BOOLEAN
    BY Zenon DEF TaskInv, TaskTypeOK
  <2>2. killFile' \in BOOLEAN /\ latched' \in BOOLEAN /\ lifted' \in BOOLEAN
    <3>1. ASSUME NEW a \in Stopper, Latch(a)
          PROVE  killFile' \in BOOLEAN /\ latched' \in BOOLEAN /\ lifted' \in BOOLEAN
      BY <2>1, <3>1, Zenon DEF Latch
    <3>2. CASE Unlatch \/ ToggleKillFile \/ Restart \/ UNCHANGED kill
      BY <2>1, <3>2, Zenon DEF Unlatch, ToggleKillFile, Restart, kill
    <3> QED BY <3>1, <3>2, KillSteps, Zenon
  <2> QED BY <2>2, Zenon
<1>6. {refused, ctxDone, attached, canceling}' \subseteq [Task -> BOOLEAN]
  <2>1. /\ refused \in [Task -> BOOLEAN] /\ ctxDone \in [Task -> BOOLEAN]
        /\ attached \in [Task -> BOOLEAN] /\ canceling \in [Task -> BOOLEAN]
    BY Zenon DEF TaskInv, TaskTypeOK
  <2>2. /\ refused' \in [Task -> BOOLEAN] /\ ctxDone' \in [Task -> BOOLEAN]
        /\ attached' \in [Task -> BOOLEAN] /\ canceling' \in [Task -> BOOLEAN]
    <3> DEFINE Typed == /\ refused' \in [Task -> BOOLEAN] /\ ctxDone' \in [Task -> BOOLEAN]
                        /\ attached' \in [Task -> BOOLEAN] /\ canceling' \in [Task -> BOOLEAN]
    <3>1. CASE UNCHANGED <<refused, ctxDone, attached, canceling>>
      BY <2>1, <3>1
    <3>2. ASSUME NEW t \in Task, NEW o, Return(t, o) PROVE Typed
      BY <2>1, <3>2 DEF Return
    <3>3. ASSUME NEW t \in Task, Call(t) \/ Refuse(t) \/ CancelCall(t) PROVE Typed
      BY <2>1, <3>3 DEF Call, Refuse, CancelCall
    <3>4. ASSUME NEW a \in Stopper, Latch(a) PROVE Typed
      BY <2>1, <3>4, Zenon DEF Latch
    <3>5. CASE LoseSession
      BY <2>1, <3>5, Zenon DEF LoseSession
    <3>6. CASE Restart
      BY <3>6, Zenon DEF Restart
    <3>7. ASSUME NEW t \in Task,
                 \/ NoSlot(t) \/ SpawnFails(t) \/ Abandon(t) \/ KillStarted(t) \/ Succeed(t)
          PROVE  Typed
      BY <3>2, <3>7, Zenon DEF NoSlot, SpawnFails, Abandon, KillStarted, Succeed
    <3>8. CASE \/ Watch \/ EndSession \/ Reconnect \/ ToggleKillFile \/ UNCHANGED taskVars
               \/ \E a \in Stopper : StopSnapshot(a) \/ StopDone(a) \/ \E t \in Task : StopSignal(a, t)
               \/ \E t \in Task : \/ TakeSlot(t) \/ Spawn(t) \/ CheckSpawned(t) \/ RegisterTask(t)
                                 \/ PersistRunning(t) \/ Launch(t) \/ Exit(t) \/ Die(t) \/ Stop(t)
                                 \/ CopyDone(t) \/ WaitStep(t)
      <4>1. UNCHANGED <<refused, ctxDone, attached, canceling>>
        BY <3>8, Zenon
        DEF Watch, WatchLook, Unlatch, EndSession, Reconnect, ToggleKillFile, taskVars, StopSnapshot,
            StopDone, StopSignal, TakeSlot, Spawn, CheckSpawned, RegisterTask, PersistRunning, Launch,
            Same, Exit, Die, Stop, CopyDone, WaitStep, Reap, CloseLog, Settle, Retire, PersistFinal, start
      <4> QED BY <3>1, <4>1
    <3> QED
      BY <3>3, <3>4, <3>5, <3>6, <3>7, <3>8, Zenon DEF TaskNext, StopStep, StartStep
  <2> QED BY <2>2, Zenon
<1> QED BY <1>0, <1>1, <1>2, <1>3, <1>4, <1>5, <1>6, Zenon DEF TaskTypeOK

\* Every state the task manager can reach is in the invariant.
LEMMA TaskInvariant == TaskSpec => []TaskInv
<1>1. TaskInv /\ [TaskNext]_taskVars => TaskInv'
  <2> SUFFICES ASSUME TaskInv, [TaskNext]_taskVars PROVE TaskInv'
    OBVIOUS
  <2>1. TaskTypeOK'
    BY TaskTypesKept
  <2>2. StartInv' /\ WaitInv' /\ OutcomeInv'
    BY StagesKept
  <2>3. SlotsInv' /\ KillInv' /\ SessionInv'
    BY SlotsKept, KillKept, SessionKept
  <2> QED BY <2>1, <2>2, <2>3 DEF TaskInv
<1> QED BY TaskInitially, <1>1, PTL DEF TaskSpec

-----------------------------------------------------------------------------
(* What the task manager promises.                                         *)

\* The slot of taskManager.Start goes to waitTask and comes back once, on every
\* path, so the commands that run never outnumber cfg.MaxActiveTasks.
THEOREM LimitIsKept == TaskSpec => []LiveWithinLimit
<1>1. TaskInv => LiveWithinLimit
  <2> SUFFICES ASSUME TaskInv PROVE Cardinality({t \in Task : proc[t] \in Live}) <= MaxActive
    BY DEF TaskInv, LiveWithinLimit
  <2>1. {t \in Task : proc[t] \in Live} \in SUBSET Owners
    BY DEF TaskInv, WaitInv, Owners, Owns, OnSlot, WaitOnSlot
  <2>2. IsFiniteSet(Owners) /\ Cardinality(Owners) = taskSlots /\ taskSlots \in 0..MaxActive
    BY DEF TaskInv, SlotsInv, TaskTypeOK
  <2>3. Cardinality({t \in Task : proc[t] \in Live}) <= Cardinality(Owners)
    BY <2>1, <2>2, FS_Subset
  <2>4. Cardinality({t \in Task : proc[t] \in Live}) \in Nat
    BY <2>1, <2>2, FS_Subset, FS_CardinalityType
  <2> QED BY <2>2, <2>3, <2>4
<1> QED BY TaskInvariant, <1>1, PTL

\* Once the kill switch is latched and StopAll has returned everywhere, a command
\* that still runs belongs to a Start call that will look once more, however many
\* callers found the file and however the calls were interleaved with them.
THEOREM KillSwitchIsComplete == TaskSpec => []KillSwitchKills
<1>1. TaskInv => KillSwitchKills
  BY DEF TaskInv, KillInv, KillSwitchKills, Loose, Due, LooksAgain
<1> QED BY TaskInvariant, <1>1, PTL

\* When EndRemoteSession has returned, what still runs belongs to a Start call whose
\* context is canceled.
THEOREM SessionEndIsComplete == TaskSpec => []SessionEndKills
<1>1. TaskInv => SessionEndKills
  BY DEF TaskInv, SessionInv, SessionEndKills, Loose, LooksAgain, InFlight
<1> QED BY TaskInvariant, <1>1, PTL

\* The first persist of Start and the last of waitTask never meet on the disk in
\* the wrong order, over any number of restarts.
THEOREM OutcomeStaysOnDisk == TaskSpec => TerminalNotOverwritten
<1>1. TaskInv /\ [TaskNext]_taskVars
        => [\A t \in Task : disk[t] \in Terminal => disk'[t] = disk[t]]_taskVars
  <2> SUFFICES ASSUME TaskInv, TaskNext, NEW t \in Task, disk[t] \in Terminal
               PROVE  disk'[t] = disk[t]
    OBVIOUS
  <2> USE DEF TaskInv, TaskTypeOK, StartInv, WaitInv, OutcomeInv, Terminal
  <2>1. ASSUME NEW u \in Task, PersistRunning(u) PROVE disk'[t] = disk[t]
    BY <2>1 DEF PersistRunning, Step, OnSlot
  <2>2. ASSUME NEW u \in Task, PersistFinal(u) PROVE disk'[t] = disk[t]
    BY <2>2 DEF PersistFinal, WaiterGoes
  <2>3. CASE UNCHANGED disk
    BY <2>3
  <2>4. UNCHANGED disk \/ \E u \in Task : PersistRunning(u) \/ PersistFinal(u)
    BY Zenon
    DEF TaskNext, Watch, StopStep, StartStep, WaitStep, WatchLook, Unlatch, LoseSession, EndSession,
        Reconnect, ToggleKillFile, Restart, taskVars, Latch, StopSnapshot, StopSignal, StopDone, Call,
        Refuse, TakeSlot, NoSlot, Spawn, SpawnFails, CheckSpawned, Abandon, RegisterTask, Launch,
        Succeed, KillStarted, CancelCall, Exit, Die, Stop, CopyDone, Reap, CloseLog, Settle, Retire
  <2> QED BY <2>1, <2>2, <2>3, <2>4
<1> QED BY TaskInvariant, <1>1, PTL DEF TaskSpec, TerminalNotOverwritten

\* A task that was reported as finished is never reported as running again, by this
\* Agent process or by loadHistory of the next, unless the final persist was lost and
\* another process has the PID of its command when loadHistory looks.
THEOREM FinishedIsFinal == TaskSpec => FinishedStaysFinished
<1>1. TaskInv /\ [TaskNext]_taskVars
        => [\A t \in Task : state[t] \in Finished =>
              \/ state'[t] \in Finished \cup {"none"}
              \/ disk[t] = "running" /\ proc'[t] = "foreign"]_taskVars
  <2> SUFFICES ASSUME TaskInv, TaskNext, NEW t \in Task, state[t] \in Finished
               PROVE  \/ state'[t] \in Finished \cup {"none"}
                      \/ disk[t] = "running" /\ proc'[t] = "foreign"
    OBVIOUS
  <2> USE DEF TaskInv, TaskTypeOK, StartInv, OutcomeInv, Terminal, Finished
  <2>1. ASSUME NEW u \in Task, RegisterTask(u) PROVE state'[t] \in Finished
    BY <2>1 DEF RegisterTask, Step
  <2>2. ASSUME NEW u \in Task, Settle(u) PROVE state'[t] \in Finished
    BY <2>2 DEF Settle
  <2>3. CASE Restart
    <3>1. TaskTypeOK /\ proc[t] \in {"none", "reaped", "foreign"}
          /\ disk[t] \in {"none", "running"} \cup Terminal
      OBVIOUS
    <3> QED BY ONLY <2>3, <3>1, RestartAt DEF Finished, Terminal
  <2>4. CASE UNCHANGED state
    BY <2>4
  <2>5. CASE Watch \/ LoseSession \/ EndSession \/ Reconnect \/ ToggleKillFile \/ \E a \in Stopper : StopStep(a)
    <3>1. UNCHANGED state
      BY <2>5, Zenon
      DEF Watch, WatchLook, Unlatch, LoseSession, EndSession, Reconnect, ToggleKillFile, StopStep, Latch,
          StopSnapshot, StopSignal, StopDone, run
    <3> QED BY <2>4, <3>1
  <2>6. ASSUME NEW u \in Task, StartStep(u) PROVE UNCHANGED state \/ RegisterTask(u)
    BY <2>6, Zenon
    DEF StartStep, Call, Refuse, TakeSlot, NoSlot, Spawn, SpawnFails, CheckSpawned, Abandon,
        PersistRunning, Launch, Succeed, KillStarted, run
  <2>7. ASSUME NEW u \in Task, WaitStep(u) PROVE UNCHANGED state \/ Settle(u)
    BY <2>7, Zenon DEF WaitStep, Reap, CloseLog, Retire, PersistFinal, run
  <2>8. ASSUME NEW u \in Task,
               Call(u) \/ CancelCall(u) \/ Exit(u) \/ Die(u) \/ Stop(u) \/ CopyDone(u)
        PROVE  UNCHANGED state
    BY <2>8, Zenon DEF Call, CancelCall, Exit, Die, Stop, CopyDone, run
  <2> QED BY <2>1, <2>2, <2>3, <2>4, <2>5, <2>6, <2>7, <2>8 DEF TaskNext
<1> QED BY TaskInvariant, <1>1, PTL DEF TaskSpec, FinishedStaysFinished
-----------------------------------------------------------------------------
(* The log and its readers: the inductive invariant.                       *)

\* The copier holds output only between its read and its write, what was written
\* is in the terminal or was read, and the writer keeps count of the cap.
CopyInv ==
  /\ written = copied + tty
  /\ buf <= copied /\ (copying # "write" => buf = 0)
  /\ remaining = MaxLog - log /\ log <= copied - buf

\* Unless the log file failed, the log is what passed the writer, up to the cap.
CapInv ==
  ~broken => /\ log = Least(copied - buf, MaxLog)
             /\ copied - buf > MaxLog => truncated

\* The copier has ended before the task is settled.
OrderInv ==
  /\ settling \in {"settle", "done"} => copying = "done"
  /\ finished => settling = "done"

\* Readers are within the log, and one that saw the task finished or was told EOF
\* saw the end of the copier.
ReaderInv ==
  \A r \in Reader :
    /\ off[r] + got[r] <= log /\ (rpc[r] # "answer" => got[r] = 0)
    /\ seen[r] => finished
    /\ eof[r] => finished /\ off[r] = log /\ rpc[r] = "idle"

LogInv == LogTypeOK /\ CopyInv /\ CapInv /\ OrderInv /\ ReaderInv

USE LimitAssumption, OutputAssumption

\* The log starts empty (newTask).
LEMMA LogInitially == LogInit => LogInv
<1> SUFFICES ASSUME LogInit PROVE LogInv
  OBVIOUS
<1> USE DEF LogInit
<1>1. LogTypeOK
  <2>1. /\ command \in {"running", "exited", "reaped"} /\ written \in 0..MaxOut
        /\ tty \in 0..TtyCap /\ {buf, copied, log} \subseteq 0..MaxOut /\ remaining \in 0..MaxLog
        /\ copying \in {"read", "write", "done"} /\ settling \in {"wait", "drain", "settle", "done"}
        /\ got \in [Reader -> 0..Limit] /\ off \in [Reader -> 0..MaxOut]
    BY SMT
  <2>2. /\ ptyOpen \in BOOLEAN /\ {truncated, broken, finished} \subseteq BOOLEAN
        /\ rpc \in [Reader -> {"idle", "open", "answer"}]
        /\ seen \in [Reader -> BOOLEAN] /\ eof \in [Reader -> BOOLEAN]
    BY Zenon
  <2> QED BY <2>1, <2>2 DEF LogTypeOK
<1>2. CopyInv /\ OrderInv
  BY DEF CopyInv, OrderInv
<1>3. CapInv
  BY DEF CapInv, Least
<1>4. ReaderInv
  <2> SUFFICES ASSUME NEW r \in Reader
               PROVE  /\ off[r] + got[r] <= log /\ got[r] = 0
                      /\ ~seen[r] /\ ~eof[r]
    BY Zenon DEF ReaderInv
  <2>1. ~seen[r] /\ ~eof[r]
    BY Zenon
  <2> QED BY <2>1
<1> QED BY <1>1, <1>2, <1>3, <1>4 DEF LogInv

\* The smaller of two amounts.
LEMMA LeastIs ==
  ASSUME NEW a \in Int, NEW b \in Int
  PROVE  /\ Least(a, b) \in {a, b} /\ Least(a, b) <= a /\ Least(a, b) <= b
BY DEF Least

\* Each step of the command, the copier, waitTask and a reader keeps the invariant.
LEMMA LogInductive == LogInv /\ [LogNext]_logVars => LogInv'
<1> SUFFICES ASSUME LogInv, [LogNext]_logVars PROVE LogInv'
  OBVIOUS
<1> USE DEF LogInv, LogTypeOK, child, copy, wait, read
<1>1. CASE Write
  BY <1>1 DEF Write, CopyInv, CapInv, OrderInv, ReaderInv
<1>2. CASE CommandExits
  BY <1>2 DEF CommandExits, CopyInv, CapInv, OrderInv, ReaderInv
<1>3. CASE CopyRead
  <2>1. PICK n \in 1..tty : buf' = n /\ copied' = copied + n /\ tty' = tty - n
    BY <1>3 DEF CopyRead
  <2>2. LogTypeOK' /\ CopyInv'
    BY <1>3, <2>1 DEF CopyRead, CopyInv
  <2>3. CapInv' /\ OrderInv' /\ ReaderInv'
    BY <1>3, <2>1 DEF CopyRead, CopyInv, CapInv, OrderInv, ReaderInv
  <2> QED BY <2>2, <2>3
<1>4. CASE CopyWrite
  <2> DEFINE n == Least(buf, remaining)
  <2>1. n \in 0..buf /\ n <= remaining
    BY LeastIs DEF Least
  <2>2. log' = log + n /\ remaining' = remaining - n
    BY <1>4 DEF CopyWrite
  <2>3. CopyInv'
    BY <1>4, <2>1, <2>2 DEF CopyWrite, CopyInv
  <2>4. LogTypeOK'
    BY <1>4, <2>1, <2>2 DEF CopyWrite, CopyInv
  <2>5. CapInv'
    <3> SUFFICES ASSUME ~broken
                 PROVE  log' = Least(copied, MaxLog) /\ (copied > MaxLog => truncated')
      BY <1>4 DEF CopyWrite, CapInv, CopyInv
    <3>1. log = Least(copied - buf, MaxLog) /\ (copied - buf > MaxLog => truncated)
      BY DEF CapInv
    <3>2. log' = Least(copied, MaxLog)
      BY <2>2, <3>1 DEF CopyInv, Least
    <3>3. copied > MaxLog => copied - buf > MaxLog \/ buf > remaining
      BY <3>1 DEF CopyInv, Least
    <3>4. truncated \/ buf > remaining => truncated'
      BY <1>4, Zenon DEF CopyWrite
    <3> QED BY <3>1, <3>2, <3>3, <3>4, Zenon
  <2>6. OrderInv'
    BY <1>4 DEF CopyWrite, OrderInv
  <2>7. ReaderInv'
    BY <1>4, <2>1, <2>2 DEF CopyWrite, OrderInv, ReaderInv
  <2> QED BY <2>3, <2>4, <2>5, <2>6, <2>7
<1>5. CASE CopyFails
  <2>1. PICK n \in 0..(Least(buf, remaining) - 1) : log' = log + n /\ remaining' = remaining - n
    BY <1>5 DEF CopyFails
  <2>2. n \in Nat /\ n <= buf /\ n <= remaining
    BY <2>1 DEF Least
  <2>3. LogTypeOK' /\ CopyInv'
    BY <1>5, <2>1, <2>2 DEF CopyFails, CopyInv
  <2>4. CapInv' /\ OrderInv'
    BY <1>5 DEF CopyFails, CapInv, OrderInv
  <2>5. ReaderInv'
    BY <1>5, <2>1, <2>2 DEF CopyFails, OrderInv, ReaderInv
  <2> QED BY <2>3, <2>4, <2>5
<1>6. CASE CopyEnds
  BY <1>6 DEF CopyEnds, CopyInv, CapInv, OrderInv, ReaderInv
<1>7. CASE Waiter
  <2>1. CASE ReapCommand
    BY <2>1 DEF ReapCommand, CopyInv, CapInv, OrderInv, ReaderInv
  <2>2. CASE CopyDrained
    BY <2>2 DEF CopyDrained, CopyInv, CapInv, OrderInv, ReaderInv
  <2>3. CASE ReportFinished
    BY <2>3 DEF ReportFinished, CopyInv, CapInv, OrderInv, ReaderInv
  <2> QED BY <1>7, <2>1, <2>2, <2>3 DEF Waiter
<1>8. ASSUME NEW r \in Reader, Read(r) PROVE LogInv'
  <2>1. CASE GetInfo(r)
    BY <2>1 DEF GetInfo, CopyInv, CapInv, OrderInv, ReaderInv
  <2>2. CASE ReadLog(r)
    <3>1. Least(Limit, log - off[r]) \in 0..Limit /\ Least(Limit, log - off[r]) <= log - off[r]
      BY DEF ReaderInv, Least
    <3>2. LogTypeOK'
      BY <2>2, <3>1 DEF ReadLog
    <3>4. CopyInv' /\ CapInv' /\ OrderInv'
      BY <2>2 DEF ReadLog, CopyInv, CapInv, OrderInv
    <3>3. ReaderInv'
      BY <2>2, <3>1 DEF ReadLog, ReaderInv
    <3> QED BY <3>2, <3>3, <3>4
  <2>3. CASE Answer(r)
    <3>1. off[r] + got[r] \in 0..MaxOut
      BY DEF ReaderInv
    <3>2. LogTypeOK' /\ CopyInv' /\ CapInv' /\ OrderInv'
      BY <2>3, <3>1 DEF Answer, CopyInv, CapInv, OrderInv
    <3>3. ReaderInv'
      BY <2>3, <3>1 DEF Answer, ReaderInv
    <3> QED BY <3>2, <3>3
  <2> QED BY <1>8, <2>1, <2>2, <2>3 DEF Read
<1>9. CASE UNCHANGED logVars
  BY <1>9 DEF logVars, CopyInv, CapInv, OrderInv, ReaderInv
<1> QED BY <1>1, <1>2, <1>3, <1>4, <1>5, <1>6, <1>7, <1>8, <1>9 DEF LogNext, Copier

\* The invariant gives what readers rely on.
LEMMA LogInvHolds == LogInv => LogHolds
BY DEF LogInv, LogHolds, LogTypeOK, CopyInv, CapInv, OrderInv, ReaderInv, EofIsFinal,
       LogIsCappedPrefix, TruncationIsReported

\* An EOF is final, the log is what was read from the PTY up to the cap, and a log
\* that was cut says so: for any output, cap, terminal, read size and readers, and
\* wherever a write to the log fails (waitTask, cappedLogWriter, readContext).
THEOREM LogIsFaithful == LogSpec => []LogHolds
<1>1. LogInit => LogInv
  BY LogInitially
<1>2. LogInv /\ [LogNext]_logVars => LogInv'
  BY LogInductive
<1>3. LogInv => LogHolds
  BY LogInvHolds
<1> QED BY <1>1, <1>2, <1>3, PTL DEF LogSpec

\* What a client has read up to an EOF is all there will ever be in the log: once
\* told, nothing is added.
LogStaysRead == [][\A r \in Reader : eof[r] => log' = log /\ off'[r] = off[r] /\ eof'[r]]_logVars

\* The action form of EOF being final.
THEOREM ReadLogNeverGrows == LogSpec => LogStaysRead
<1> DEFINE Stays == \A r \in Reader : eof[r] => log' = log /\ off'[r] = off[r] /\ eof'[r]
<1>1. ASSUME LogInv, LogNext PROVE Stays
  <2> SUFFICES ASSUME NEW r \in Reader, eof[r]
               PROVE  log' = log /\ off'[r] = off[r] /\ eof'[r]
    OBVIOUS
  <2>1. copying = "done" /\ rpc[r] = "idle"
    BY <1>1 DEF LogInv, OrderInv, ReaderInv
  <2>2. ASSUME NEW q \in Reader, Read(q) PROVE log' = log /\ off'[r] = off[r] /\ eof'[r]
    BY <1>1, <2>1, <2>2 DEF Read, GetInfo, ReadLog, Answer, copy, LogInv, LogTypeOK
  <2> QED
    BY <1>1, <2>1, <2>2 DEF LogNext, Copier, Waiter, Write, CommandExits, CopyRead, CopyWrite, CopyFails,
       CopyEnds, ReapCommand, CopyDrained, ReportFinished, copy, read
<1>2. LogInit => LogInv
  BY LogInitially
<1>3. LogInv /\ [LogNext]_logVars => LogInv'
  BY LogInductive
<1>4. LogInv /\ [LogNext]_logVars => [Stays]_logVars
  BY <1>1
<1> QED BY <1>2, <1>3, <1>4, PTL DEF LogSpec, LogStaysRead
=============================================================================
