--------------------------- MODULE AuthzStoreProof ---------------------------
(***************************************************************************)
(* The safety of AuthzStore for every set of tokens.  IInv strengthens the *)
(* checked invariants: it says at which step of the save transaction file, *)
(* guard and memory agree, and that no version of the state that can still *)
(* come back (memory, snapshot, any surviving file) holds a revoked token. *)
(***************************************************************************)
EXTENDS AuthzStore, TLAPS

Revoking == {"publicRevoke", "adminRevoke"}

\* What the step of the transaction says about memory, snapshot and disk.
PhaseInv ==
  /\ pc = "idle" => op = "none"
  /\ pc # "idle" => up /\ op # "none"
  /\ ~up => ~fault
  /\ file \in durable
  /\ guard \in guardDur
  /\ pc \in {"replace", "sync", "clean"} => guard = "dirty" /\ guardDur = {"dirty"}
  /\ pc \in {"sync", "clean"} => file = mem
  /\ pc = "clean" => durable = {mem}

\* What the operation that runs the transaction changed.
OpInv ==
  /\ op = "load" => ~fault /\ undo = Halt
  /\ op = "issue" =>
       /\ ~fault /\ ~mem.kill /\ ~undo.kill /\ tok \in issued
       /\ mem.live = undo.live \cup {tok}
  /\ op \in Revoking =>
       /\ tok \in issued
       /\ mem.live = undo.live \ {tok}
       /\ mem.kill = (undo.kill \/ fault)
  /\ op = "publicRevoke" => ~fault
  /\ op = "stop" => mem.kill
  /\ op = "release" => ~fault /\ ~mem.kill /\ mem.live = undo.live

\* No surviving version of the state holds a token revoked for good.
FinalInv ==
  /\ acked \subseteq issued
  /\ mem.live \subseteq issued \ acked
  /\ undo.live \subseteq issued \ acked
  /\ \A f \in durable : f.live \subseteq issued \ acked

StopInv ==
  stopHeld => /\ \A f \in durable : f.kill
              /\ up => mem.kill
              /\ pc # "idle" => undo.kill

UnsavedInv ==
  unsaved # {} => /\ DiskFrozen
                  /\ (up /\ ~fault) => mem.kill
                  /\ (up /\ ~fault /\ pc # "idle") => undo.kill

IInv ==
  /\ TypeOK
  /\ PhaseInv
  /\ OpInv
  /\ FinalInv
  /\ MemoryIsDurable
  /\ StopInv
  /\ UnsavedInv

-----------------------------------------------------------------------------
\* The two states the code writes by name are states.
LEMMA EmptyIsState == Empty \in State /\ Halt \in State
  BY DEF Empty, Halt, State

\* What a failed transaction leaves behind, whatever I/O step failed.
LEMMA AbortMemory ==
  ASSUME IInv, pc # "idle", Abort
  PROVE  /\ mem' \in {mem, undo, Empty} /\ mem' \in State
         /\ undo' = Empty /\ pc' = "idle" /\ op' = "none" /\ tok' = NoToken
         /\ up' \in BOOLEAN /\ fault' = up'
         /\ (up' /\ stopHeld) => mem'.kill
         /\ unsaved' \in SUBSET Token
         /\ unsaved' # unsaved => up' /\ DiskFrozen'
         /\ lost' \in BOOLEAN
         /\ UNCHANGED <<issued, acked, stopHeld>>
<1> USE EmptyIsState, NoTokenAssumption
<1>1. up /\ tok \in Token \cup {NoToken}
  BY DEF IInv, PhaseInv, TypeOK
<1>2. CASE op = "load"
  BY <1>2 DEF Abort, Down, Idle, IInv, TypeOK
<1>3. CASE op # "load"
  <2>1. /\ mem' \in {mem, undo} /\ mem' \in State
        /\ up' = up /\ fault' = TRUE
    BY <1>3 DEF Abort, IInv, TypeOK
  <2>2. stopHeld => mem'.kill
    BY <1>1, <1>3 DEF Abort, IInv, StopInv
  <2>3. unsaved' \in SUBSET Token
    <3>1. CASE op = "publicRevoke"
      BY <3>1 DEF Abort, IInv, OpInv, TypeOK, Revoking
    <3>2. CASE op # "publicRevoke"
      BY <3>2 DEF Abort, IInv, TypeOK
    <3>3. QED BY <3>1, <3>2
  <2>4. QED BY <1>1, <1>3, <2>1, <2>2, <2>3 DEF Abort, Idle, IInv, TypeOK
<1>4. QED BY <1>2, <1>3

\* The initial state satisfies the inductive invariant.
LEMMA Initially == Init => IInv
<1> SUFFICES ASSUME Init PROVE IInv
  OBVIOUS
<1>1. TypeOK
  BY EmptyIsState DEF Init, TypeOK, Op, PC
<1>2. PhaseInv /\ OpInv /\ MemoryIsDurable
  BY DEF Init, PhaseInv, OpInv, MemoryIsDurable, Revoking, Ready
<1>3. FinalInv /\ StopInv /\ UnsavedInv
  BY DEF Init, FinalInv, StopInv, UnsavedInv, Empty
<1>4. QED BY <1>1, <1>2, <1>3 DEF IInv

\* Every step preserves it: one step per action, one leaf per conjunct.
LEMMA Inductive == IInv /\ [Next]_vars => IInv'
<1> SUFFICES ASSUME IInv, [Next]_vars PROVE IInv'
  OBVIOUS
<1> USE NoTokenAssumption, EmptyIsState
<1>1. ASSUME NEW t \in Token, Issue(t) PROVE IInv'
  <2>1. TypeOK'
    BY <1>1 DEF IInv, TypeOK, Op, PC, PhaseInv, State, Issue, Enter, Ready, disk
  <2>2. PhaseInv'
    BY <1>1 DEF IInv, PhaseInv, Issue, Enter, Ready, disk
  <2>3. OpInv'
    BY <1>1
       DEF IInv, OpInv, Revoking, PhaseInv, TypeOK, Issue, Enter, Ready, disk
  <2>4. FinalInv'
    BY <1>1 DEF IInv, FinalInv, Issue, Enter, Ready, disk
  <2>5. MemoryIsDurable'
    BY <1>1 DEF IInv, MemoryIsDurable, Ready, Issue, Enter, disk
  <2>6. StopInv'
    BY <1>1 DEF IInv, StopInv, Issue, Enter, Ready, disk
  <2>7. UnsavedInv'
    BY <1>1 DEF IInv, UnsavedInv, DiskFrozen, Issue, Enter, Ready, disk
  <2>8. QED BY <2>1, <2>2, <2>3, <2>4, <2>5, <2>6, <2>7 DEF IInv
<1>2. ASSUME NEW t \in Token, AdminRevoke(t) PROVE IInv'
  <2>1. TypeOK'
    BY <1>2
       DEF IInv, TypeOK, Op, PC, PhaseInv, State, AdminRevoke, Enter, Ready,
           disk, history
  <2>2. PhaseInv'
    BY <1>2 DEF IInv, PhaseInv, AdminRevoke, Enter, Ready, disk, history
  <2>3. OpInv'
    BY <1>2
       DEF IInv, OpInv, FinalInv, TypeOK, State, Revoking, AdminRevoke, Enter,
           Ready, disk, history
  <2>4. FinalInv'
    BY <1>2 DEF IInv, FinalInv, AdminRevoke, Enter, Ready, disk, history
  <2>5. MemoryIsDurable'
    BY <1>2 DEF IInv, MemoryIsDurable, Ready, AdminRevoke, Enter, disk, history
  <2>6. StopInv'
    BY <1>2
       DEF IInv, StopInv, PhaseInv, TypeOK, State, AdminRevoke, Enter, Ready,
           disk, history
  <2>7. UnsavedInv'
    BY <1>2
       DEF IInv, UnsavedInv, DiskFrozen, PhaseInv, TypeOK, State, AdminRevoke,
           Enter, Ready, disk, history
  <2>8. QED BY <2>1, <2>2, <2>3, <2>4, <2>5, <2>6, <2>7 DEF IInv
<1>3. ASSUME NEW t \in Token, PublicRevoke(t) PROVE IInv'
  <2>1. TypeOK'
    BY <1>3
       DEF IInv, TypeOK, Op, PC, PhaseInv, State, PublicRevoke, Enter, Ready,
           disk, history
  <2>2. PhaseInv'
    BY <1>3 DEF IInv, PhaseInv, PublicRevoke, Enter, Ready, disk, history
  <2>3. OpInv'
    BY <1>3 DEF IInv, OpInv, Revoking, PublicRevoke, Enter, Ready, disk, history
  <2>4. FinalInv'
    BY <1>3 DEF IInv, FinalInv, PublicRevoke, Enter, Ready, disk, history
  <2>5. MemoryIsDurable'
    BY <1>3 DEF IInv, MemoryIsDurable, Ready, PublicRevoke, Enter, disk, history
  <2>6. StopInv'
    BY <1>3
       DEF IInv, StopInv, PhaseInv, TypeOK, State, PublicRevoke, Enter, Ready,
           disk, history
  <2>7. UnsavedInv'
    BY <1>3
       DEF IInv, UnsavedInv, DiskFrozen, PhaseInv, TypeOK, State,
           PublicRevoke, Enter, Ready, disk, history
  <2>8. QED BY <2>1, <2>2, <2>3, <2>4, <2>5, <2>6, <2>7 DEF IInv
<1>4. ASSUME NEW t \in Token, PublicRevokeFrozen(t) PROVE IInv'
  <2>1. TypeOK'
    BY <1>4
       DEF IInv, TypeOK, Op, PC, PhaseInv, State, PublicRevokeFrozen, Ready,
           disk
  <2>2. PhaseInv'
    BY <1>4 DEF IInv, PhaseInv, PublicRevokeFrozen, Ready, disk
  <2>3. OpInv'
    BY <1>4 DEF IInv, OpInv, Revoking, PhaseInv, PublicRevokeFrozen, Ready, disk
  <2>4. FinalInv'
    BY <1>4 DEF IInv, FinalInv, PublicRevokeFrozen, Ready, disk
  <2>5. MemoryIsDurable'
    BY <1>4 DEF IInv, MemoryIsDurable, Ready, PublicRevokeFrozen, disk
  <2>6. StopInv'
    BY <1>4 DEF IInv, StopInv, PublicRevokeFrozen, Ready, disk
  <2>7. UnsavedInv'
    BY <1>4 DEF IInv, UnsavedInv, DiskFrozen, PublicRevokeFrozen, Ready, disk
  <2>8. QED BY <2>1, <2>2, <2>3, <2>4, <2>5, <2>6, <2>7 DEF IInv
<1>5. ASSUME NEW on \in BOOLEAN, SetKillSwitch(on) PROVE IInv'
  <2>1. TypeOK'
    BY <1>5
       DEF IInv, TypeOK, Op, PC, PhaseInv, State, SetKillSwitch, Enter, Ready,
           disk
  <2>2. PhaseInv'
    BY <1>5 DEF IInv, PhaseInv, SetKillSwitch, Enter, Ready, disk
  <2>3. OpInv'
    BY <1>5 DEF IInv, OpInv, Revoking, SetKillSwitch, Enter, Ready, disk
  <2>4. FinalInv'
    BY <1>5 DEF IInv, FinalInv, SetKillSwitch, Enter, Ready, disk
  <2>5. MemoryIsDurable'
    BY <1>5 DEF IInv, MemoryIsDurable, Ready, SetKillSwitch, Enter, disk
  <2>6. StopInv'
    BY <1>5
       DEF IInv, StopInv, PhaseInv, TypeOK, SetKillSwitch, Enter, Ready, disk
  <2>7. UnsavedInv'
    BY <1>5 DEF IInv, UnsavedInv, DiskFrozen, SetKillSwitch, Enter, Ready, disk
  <2>8. QED BY <2>1, <2>2, <2>3, <2>4, <2>5, <2>6, <2>7 DEF IInv
<1>6. ASSUME MarkDirty PROVE IInv'
  <2> USE <1>6
  <2>1. pc = "mark" /\ up
    BY DEF MarkDirty, IInv, PhaseInv
  <2>2. CASE GuardWritten("dirty") /\ Advance("replace")
    <3>1. TypeOK'
      BY <2>1, <2>2
         DEF IInv, TypeOK, Op, PC, Advance, GuardWritten, history, MarkDirty
    <3>2. PhaseInv'
      BY <2>1, <2>2
         DEF IInv, PhaseInv, Advance, GuardWritten, history, MarkDirty
    <3>3. OpInv'
      BY <2>1, <2>2
         DEF IInv, OpInv, Revoking, Advance, GuardWritten, history, MarkDirty
    <3>4. FinalInv'
      BY <2>1, <2>2
         DEF IInv, FinalInv, Advance, GuardWritten, history, MarkDirty
    <3>5. MemoryIsDurable'
      BY <2>1, <2>2
         DEF IInv, MemoryIsDurable, Ready, Advance, GuardWritten, history,
             MarkDirty
    <3>6. StopInv'
      BY <2>1, <2>2 DEF IInv, StopInv, Advance, GuardWritten, history, MarkDirty
    <3>7. UnsavedInv'
      BY <2>1, <2>2
         DEF IInv, UnsavedInv, DiskFrozen, Advance, GuardWritten, history,
             MarkDirty
    <3>8. QED BY <3>1, <3>2, <3>3, <3>4, <3>5, <3>6, <3>7 DEF IInv
  <2>3. CASE Abort /\ (UNCHANGED <<guard, guardDur>>
                       \/ (guard' = "dirty" /\ guardDur' = guardDur \cup {"dirty"}))
    <3>1. TypeOK'
      BY <2>1, <2>3, AbortMemory DEF IInv, TypeOK, Op, PC, MarkDirty
    <3>2. PhaseInv'
      BY <2>1, <2>3, AbortMemory DEF IInv, PhaseInv, MarkDirty
    <3>3. OpInv'
      BY <2>1, <2>3, AbortMemory DEF IInv, OpInv, Revoking, MarkDirty
    <3>4. FinalInv'
      BY <2>1, <2>3, AbortMemory
         DEF IInv, FinalInv, PhaseInv, TypeOK, State, Empty, MarkDirty
    <3>5. MemoryIsDurable'
      BY <2>1, <2>3, AbortMemory DEF IInv, MemoryIsDurable, Ready, MarkDirty
    <3>6. StopInv'
      BY <2>1, <2>3, AbortMemory DEF IInv, StopInv, MarkDirty
    <3>7. UnsavedInv'
      BY <2>1, <2>3, AbortMemory DEF IInv, UnsavedInv, DiskFrozen, MarkDirty
    <3>8. QED BY <3>1, <3>2, <3>3, <3>4, <3>5, <3>6, <3>7 DEF IInv
  <2>4. QED BY <2>2, <2>3 DEF MarkDirty, GuardFails
<1>7. ASSUME ReplaceFile PROVE IInv'
  <2> USE <1>7
  <2>1. pc = "replace" /\ up
    BY DEF ReplaceFile, IInv, PhaseInv
  <2>2. CASE file' = mem /\ durable' = durable \cup {mem} /\ Advance("sync")
    <3>1. TypeOK'
      BY <2>1, <2>2 DEF IInv, TypeOK, Op, PC, Advance, history, ReplaceFile
    <3>2. PhaseInv'
      BY <2>1, <2>2 DEF IInv, PhaseInv, Advance, history, ReplaceFile
    <3>3. OpInv'
      BY <2>1, <2>2 DEF IInv, OpInv, Revoking, Advance, history, ReplaceFile
    <3>4. FinalInv'
      BY <2>1, <2>2 DEF IInv, FinalInv, Advance, history, ReplaceFile
    <3>5. MemoryIsDurable'
      BY <2>1, <2>2
         DEF IInv, MemoryIsDurable, Ready, Advance, history, ReplaceFile
    <3>6. StopInv'
      BY <2>1, <2>2 DEF IInv, StopInv, Advance, history, ReplaceFile
    <3>7. UnsavedInv'
      BY <2>1, <2>2
         DEF IInv, UnsavedInv, DiskFrozen, PhaseInv, Advance, history,
             ReplaceFile
    <3>8. QED BY <3>1, <3>2, <3>3, <3>4, <3>5, <3>6, <3>7 DEF IInv
  <2>3. CASE Abort /\ (UNCHANGED <<file, durable>>)
    <3>1. TypeOK'
      BY <2>1, <2>3, AbortMemory DEF IInv, TypeOK, Op, PC, ReplaceFile
    <3>2. PhaseInv'
      BY <2>1, <2>3, AbortMemory DEF IInv, PhaseInv, ReplaceFile
    <3>3. OpInv'
      BY <2>1, <2>3, AbortMemory DEF IInv, OpInv, Revoking, ReplaceFile
    <3>4. FinalInv'
      BY <2>1, <2>3, AbortMemory
         DEF IInv, FinalInv, PhaseInv, TypeOK, State, Empty, ReplaceFile
    <3>5. MemoryIsDurable'
      BY <2>1, <2>3, AbortMemory DEF IInv, MemoryIsDurable, Ready, ReplaceFile
    <3>6. StopInv'
      BY <2>1, <2>3, AbortMemory DEF IInv, StopInv, ReplaceFile
    <3>7. UnsavedInv'
      BY <2>1, <2>3, AbortMemory DEF IInv, UnsavedInv, DiskFrozen, ReplaceFile
    <3>8. QED BY <3>1, <3>2, <3>3, <3>4, <3>5, <3>6, <3>7 DEF IInv
  <2>4. QED BY <2>2, <2>3 DEF ReplaceFile
<1>8. ASSUME SyncDirectory PROVE IInv'
  <2> USE <1>8
  <2>1. pc = "sync" /\ up
    BY DEF SyncDirectory, IInv, PhaseInv
  <2>2. CASE durable' = {file} /\ Advance("clean")
    <3>1. TypeOK'
      BY <2>1, <2>2 DEF IInv, TypeOK, Op, PC, Advance, history, SyncDirectory
    <3>2. PhaseInv'
      BY <2>1, <2>2 DEF IInv, PhaseInv, Advance, history, SyncDirectory
    <3>3. OpInv'
      BY <2>1, <2>2 DEF IInv, OpInv, Revoking, Advance, history, SyncDirectory
    <3>4. FinalInv'
      BY <2>1, <2>2
         DEF IInv, FinalInv, PhaseInv, Advance, history, SyncDirectory
    <3>5. MemoryIsDurable'
      BY <2>1, <2>2
         DEF IInv, MemoryIsDurable, Ready, Advance, history, SyncDirectory
    <3>6. StopInv'
      BY <2>1, <2>2 DEF IInv, StopInv, PhaseInv, Advance, history, SyncDirectory
    <3>7. UnsavedInv'
      BY <2>1, <2>2
         DEF IInv, UnsavedInv, DiskFrozen, Advance, history, SyncDirectory
    <3>8. QED BY <3>1, <3>2, <3>3, <3>4, <3>5, <3>6, <3>7 DEF IInv
  <2>3. CASE Abort /\ (UNCHANGED durable)
    <3>1. TypeOK'
      BY <2>1, <2>3, AbortMemory DEF IInv, TypeOK, Op, PC, SyncDirectory
    <3>2. PhaseInv'
      BY <2>1, <2>3, AbortMemory DEF IInv, PhaseInv, SyncDirectory
    <3>3. OpInv'
      BY <2>1, <2>3, AbortMemory DEF IInv, OpInv, Revoking, SyncDirectory
    <3>4. FinalInv'
      BY <2>1, <2>3, AbortMemory
         DEF IInv, FinalInv, PhaseInv, TypeOK, State, Empty, SyncDirectory
    <3>5. MemoryIsDurable'
      BY <2>1, <2>3, AbortMemory DEF IInv, MemoryIsDurable, Ready, SyncDirectory
    <3>6. StopInv'
      BY <2>1, <2>3, AbortMemory DEF IInv, StopInv, SyncDirectory
    <3>7. UnsavedInv'
      BY <2>1, <2>3, AbortMemory DEF IInv, UnsavedInv, DiskFrozen, SyncDirectory
    <3>8. QED BY <3>1, <3>2, <3>3, <3>4, <3>5, <3>6, <3>7 DEF IInv
  <2>4. QED BY <2>2, <2>3 DEF SyncDirectory
<1>9. ASSUME MarkClean PROVE IInv'
  <2> USE <1>9
  <2>1. pc = "clean" /\ up
    BY DEF MarkClean, IInv, PhaseInv
  <2>2. CASE GuardWritten("clean") /\ Finish
    <3>1. TypeOK'
      BY <2>1, <2>2
         DEF IInv, TypeOK, Op, PC, PhaseInv, OpInv, Revoking, Empty, Finish,
             Idle, GuardWritten, MarkClean
    <3>2. PhaseInv'
      BY <2>1, <2>2 DEF IInv, PhaseInv, Finish, Idle, GuardWritten, MarkClean
    <3>3. OpInv'
      BY <2>1, <2>2
         DEF IInv, OpInv, Revoking, Finish, Idle, GuardWritten, MarkClean
    <3>4. FinalInv'
      BY <2>1, <2>2
         DEF IInv, FinalInv, PhaseInv, OpInv, Revoking, Empty, Finish, Idle,
             GuardWritten, MarkClean
    <3>5. MemoryIsDurable'
      BY <2>1, <2>2
         DEF IInv, MemoryIsDurable, Ready, PhaseInv, Finish, Idle,
             GuardWritten, MarkClean
    <3>6. StopInv'
      BY <2>1, <2>2
         DEF IInv, StopInv, PhaseInv, TypeOK, Op, OpInv, Revoking, Finish,
             Idle, GuardWritten, MarkClean
    <3>7. UnsavedInv'
      BY <2>1, <2>2
         DEF IInv, UnsavedInv, DiskFrozen, PhaseInv, TypeOK, Op, OpInv,
             Revoking, Finish, Idle, GuardWritten, MarkClean
    <3>8. QED BY <3>1, <3>2, <3>3, <3>4, <3>5, <3>6, <3>7 DEF IInv
  <2>3. CASE Abort /\ (UNCHANGED <<guard, guardDur>>
                       \/ (guard' = "clean" /\ guardDur' = guardDur \cup {"clean"}))
    <3>1. TypeOK'
      BY <2>1, <2>3, AbortMemory DEF IInv, TypeOK, Op, PC, MarkClean
    <3>2. PhaseInv'
      BY <2>1, <2>3, AbortMemory DEF IInv, PhaseInv, MarkClean
    <3>3. OpInv'
      BY <2>1, <2>3, AbortMemory DEF IInv, OpInv, Revoking, MarkClean
    <3>4. FinalInv'
      BY <2>1, <2>3, AbortMemory
         DEF IInv, FinalInv, PhaseInv, TypeOK, State, Empty, MarkClean
    <3>5. MemoryIsDurable'
      BY <2>1, <2>3, AbortMemory DEF IInv, MemoryIsDurable, Ready, MarkClean
    <3>6. StopInv'
      BY <2>1, <2>3, AbortMemory DEF IInv, StopInv, MarkClean
    <3>7. UnsavedInv'
      BY <2>1, <2>3, AbortMemory
         DEF IInv, UnsavedInv, DiskFrozen, PhaseInv, TypeOK, Op, OpInv,
             Revoking, MarkClean
    <3>8. QED BY <3>1, <3>2, <3>3, <3>4, <3>5, <3>6, <3>7 DEF IInv
  <2>4. QED BY <2>2, <2>3 DEF MarkClean, GuardFails
<1>10. ASSUME Boot PROVE IInv'
  <2>1. TypeOK'
    BY <1>10 DEF IInv, TypeOK, Op, PC, Boot, Halt, disk, history
  <2>2. PhaseInv'
    BY <1>10 DEF IInv, PhaseInv, Boot, Halt, disk, history
  <2>3. OpInv'
    BY <1>10 DEF IInv, OpInv, Revoking, PhaseInv, Boot, Halt, disk, history
  <2>4. FinalInv'
    BY <1>10 DEF IInv, FinalInv, PhaseInv, Boot, Halt, disk, history
  <2>5. MemoryIsDurable'
    BY <1>10 DEF IInv, MemoryIsDurable, Ready, Boot, Halt, disk, history
  <2>6. StopInv'
    BY <1>10 DEF IInv, StopInv, PhaseInv, Boot, Halt, disk, history
  <2>7. UnsavedInv'
    BY <1>10
       DEF IInv, UnsavedInv, DiskFrozen, PhaseInv, TypeOK, State, Boot, Halt,
           disk, history
  <2>8. QED BY <2>1, <2>2, <2>3, <2>4, <2>5, <2>6, <2>7 DEF IInv
<1>11. ASSUME ProcessCrash PROVE IInv'
  <2>1. TypeOK'
    BY <1>11 DEF IInv, TypeOK, Op, PC, ProcessCrash, Down, Idle, disk, history
  <2>2. PhaseInv'
    BY <1>11 DEF IInv, PhaseInv, ProcessCrash, Down, Idle, disk, history
  <2>3. OpInv'
    BY <1>11 DEF IInv, OpInv, Revoking, ProcessCrash, Down, Idle, disk, history
  <2>4. FinalInv'
    BY <1>11
       DEF IInv, FinalInv, PhaseInv, TypeOK, State, Empty, ProcessCrash, Down,
           Idle, disk, history
  <2>5. MemoryIsDurable'
    BY <1>11
       DEF IInv, MemoryIsDurable, Ready, ProcessCrash, Down, Idle, disk,
           history
  <2>6. StopInv'
    BY <1>11 DEF IInv, StopInv, ProcessCrash, Down, Idle, disk, history
  <2>7. UnsavedInv'
    BY <1>11
       DEF IInv, UnsavedInv, DiskFrozen, ProcessCrash, Down, Idle, disk,
           history
  <2>8. QED BY <2>1, <2>2, <2>3, <2>4, <2>5, <2>6, <2>7 DEF IInv
<1>12. ASSUME PowerLoss PROVE IInv'
  <2>1. TypeOK'
    BY <1>12 DEF IInv, TypeOK, Op, PC, PowerLoss, Down, Idle, history
  <2>2. PhaseInv'
    BY <1>12 DEF IInv, PhaseInv, PowerLoss, Down, Idle, history
  <2>3. OpInv'
    BY <1>12 DEF IInv, OpInv, Revoking, PowerLoss, Down, Idle, history
  <2>4. FinalInv'
    BY <1>12
       DEF IInv, FinalInv, PhaseInv, TypeOK, State, Empty, PowerLoss, Down,
           Idle, history
  <2>5. MemoryIsDurable'
    BY <1>12 DEF IInv, MemoryIsDurable, Ready, PowerLoss, Down, Idle, history
  <2>6. StopInv'
    BY <1>12 DEF IInv, StopInv, PowerLoss, Down, Idle, history
  <2>7. UnsavedInv'
    BY <1>12 DEF IInv, UnsavedInv, DiskFrozen, PowerLoss, Down, Idle, history
  <2>8. QED BY <2>1, <2>2, <2>3, <2>4, <2>5, <2>6, <2>7 DEF IInv
<1>13. CASE UNCHANGED vars
  BY <1>13 DEF IInv, TypeOK, PhaseInv, OpInv, FinalInv, MemoryIsDurable,
     StopInv, UnsavedInv, DiskFrozen, Ready, vars, process, disk, history
<1>14. QED
  BY <1>1, <1>2, <1>3, <1>4, <1>5, <1>6, <1>7, <1>8, <1>9, <1>10, <1>11, <1>12,
     <1>13 DEF Next

\* The strengthening holds in every state of every behavior.
LEMMA Invariant == Spec => []IInv
<1>1. Init => IInv
  BY Initially
<1>2. IInv /\ [Next]_vars => IInv'
  BY Inductive
<1>3. QED BY <1>1, <1>2, PTL DEF Spec

\* Every variable keeps its type, in memory and on disk.
THEOREM TypeCorrect == Spec => []TypeOK
<1>1. IInv => TypeOK
  BY DEF IInv
<1>2. QED BY <1>1, Invariant, PTL

\* A revocation acknowledged after its save never authorizes again, across
\* every failed save, crash, power loss, recovery and restart.
THEOREM RevocationIsFinal == Spec => []RevocationHolds
<1>1. IInv => RevocationHolds
  BY DEF IInv, FinalInv, RevocationHolds, Serving, Seen
<1>2. QED BY <1>1, Invariant, PTL

\* A serving process never differs from what a crash would bring back.
THEOREM ServingIsDurable == Spec => []MemoryIsDurable
<1>1. IInv => MemoryIsDurable
  BY DEF IInv
<1>2. QED BY <1>1, Invariant, PTL

\* An acknowledged emergency stop holds until its release is asked for.
THEOREM StopIsHeld == Spec => []StopHolds
<1>1. IInv => StopHolds
  BY DEF IInv, PhaseInv, StopInv, StopHolds, Serving, Seen
<1>2. QED BY <1>1, Invariant, PTL

\* A revocation lost while the disk was frozen needs a release to come back.
THEOREM LostRevocationNeedsRelease == Spec => []UnsavedRevocationNeedsRelease
<1>1. IInv => UnsavedRevocationNeedsRelease
  BY
     DEF IInv, PhaseInv, UnsavedInv, UnsavedRevocationNeedsRelease, Serving,
         Seen
<1>2. QED BY <1>1, Invariant, PTL

-----------------------------------------------------------------------------
(* The refinement: each step of the store is a step of its promise, or     *)
(* leaves what the promise speaks of unchanged.                            *)

\* A failed transaction leaves a store that serves nothing.
LEMMA AbortFreezes ==
  ASSUME IInv, pc # "idle", Abort
  PROVE  Promise!Freeze
<1>1. fault' = up' /\ UNCHANGED <<issued, acked, stopHeld>>
  BY AbortMemory
<1>2. QED BY <1>1 DEF Promise!Freeze, Serving

\* A committed transaction is the promised effect of its operation.
LEMMA FinishIsPromised ==
  ASSUME IInv, pc # "idle", Finish
  PROVE  [Promise!Next]_(Promise!vars)
<1> USE DEF Serving, Seen, Idle
<1>1. /\ up /\ up' = up /\ fault' = fault /\ mem' = mem /\ pc' = "idle"
      /\ UNCHANGED issued
  BY DEF Finish, IInv, PhaseInv
<1>2. stopHeld => mem.kill
  BY <1>1 DEF IInv, StopInv
<1>3. mem.live \subseteq issued \ acked
  BY DEF IInv, FinalInv
<1>4. CASE op = "load"
  <2>1. Serving = {} /\ ~fault /\ UNCHANGED <<acked, stopHeld>>
    BY <1>4 DEF Finish, IInv, TypeOK, OpInv, Halt
  <2>2. CASE stopHeld
    BY <1>1, <1>2, <2>1, <2>2 DEF Promise!Next, Promise!Freeze
  <2>3. CASE ~stopHeld
    BY <1>1, <1>3, <2>1, <2>3 DEF Promise!Next, Promise!Thaw
  <2>4. QED BY <2>2, <2>3
<1>5. CASE op = "issue"
  <2>1. /\ ~fault /\ ~mem.kill /\ ~undo.kill /\ tok \in mem.live
        /\ mem.live = undo.live \cup {tok}
    BY <1>5 DEF IInv, OpInv
  <2>2. UNCHANGED <<acked, stopHeld>>
    BY <1>5, <2>1 DEF Finish, IInv, TypeOK
  <2>3. tok \in Token
    BY <2>1, <1>3 DEF IInv, TypeOK
  <2>4. Promise!Deliver(tok)
    BY <1>1, <1>2, <1>3, <2>1, <2>2 DEF Promise!Deliver
  <2>5. QED BY <2>3, <2>4 DEF Promise!Next
<1>6. CASE op \in Revoking
  <2>1. /\ tok \in issued /\ mem.live = undo.live \ {tok}
        /\ mem.kill = (undo.kill \/ fault)
    BY <1>6 DEF IInv, OpInv
  <2>2. acked' = acked \cup {tok} /\ stopHeld' = (stopHeld \/ fault)
    BY <1>6 DEF Finish, Revoking
  <2>3. tok \in Token
    BY <2>1 DEF IInv, TypeOK
  <2>4. Promise!Revoke(tok)
    BY <1>1, <1>2, <2>1, <2>2 DEF Promise!Revoke, IInv, TypeOK, State
  <2>5. QED BY <2>3, <2>4 DEF Promise!Next
<1>7. CASE op = "stop"
  <2>1. mem.kill /\ stopHeld' = TRUE /\ UNCHANGED acked
    BY <1>7 DEF Finish, IInv, OpInv
  <2>2. QED BY <1>1, <2>1 DEF Promise!Next, Promise!Stop
<1>8. CASE op = "release"
  <2>1. /\ ~fault /\ ~mem.kill /\ mem.live = undo.live
        /\ UNCHANGED <<acked, stopHeld>>
    BY <1>8 DEF Finish, IInv, TypeOK, OpInv
  <2>2. CASE undo.kill
    BY <1>1, <1>2, <1>3, <2>1, <2>2 DEF Promise!Next, Promise!Thaw
  <2>3. CASE ~undo.kill
    BY <1>1, <2>1, <2>3 DEF Promise!vars
  <2>4. QED BY <2>2, <2>3
<1>9. QED BY <1>4, <1>5, <1>6, <1>7, <1>8 DEF IInv, PhaseInv, TypeOK, Op, Revoking

\* Each action maps to a step of the promise or to a stutter.
LEMMA StepIsPromised == IInv /\ [Next]_vars => [Promise!Next]_(Promise!vars)
<1> SUFFICES ASSUME IInv, [Next]_vars PROVE [Promise!Next]_(Promise!vars)
  OBVIOUS
<1>1. ASSUME NEW t \in Token, Issue(t) PROVE Promise!Mint(t)
  BY <1>1 DEF Promise!Mint, Issue, Enter, Ready, Serving, Seen
<1>2. ASSUME NEW t \in Token, AdminRevoke(t) \/ PublicRevoke(t) \/ PublicRevokeFrozen(t)
      PROVE UNCHANGED Promise!vars
  BY <1>2 DEF Promise!vars, AdminRevoke, PublicRevoke, PublicRevokeFrozen,
              Enter, Ready, Serving, Seen, history
<1>3. ASSUME NEW on \in BOOLEAN, SetKillSwitch(on)
      PROVE UNCHANGED Promise!vars \/ Promise!AskRelease
  BY <1>3 DEF Promise!vars, Promise!AskRelease, SetKillSwitch, Enter, Ready,
              Serving, Seen, IInv, TypeOK
<1>4. ASSUME NEW next \in PC \ {"idle"}, pc # "idle", Advance(next)
      PROVE UNCHANGED Promise!vars
  BY <1>4 DEF Promise!vars, Advance, Serving, Seen, history
<1>5. CASE MarkDirty \/ ReplaceFile \/ SyncDirectory
  <2>1. pc # "idle"
    BY <1>5 DEF MarkDirty, ReplaceFile, SyncDirectory
  <2>2. (\E next \in PC \ {"idle"} : Advance(next)) \/ Abort
    BY <1>5 DEF MarkDirty, ReplaceFile, SyncDirectory, GuardFails, PC
  <2>3. QED BY <1>4, <2>1, <2>2, AbortFreezes DEF Promise!Next
<1>6. CASE MarkClean
  <2>1. pc # "idle" /\ (Finish \/ Abort)
    BY <1>6 DEF MarkClean, GuardFails
  <2>2. QED BY <2>1, AbortFreezes, FinishIsPromised DEF Promise!Next
<1>7. CASE Boot
  <2>1. ~up /\ UNCHANGED history
    BY <1>7 DEF Boot
  <2>2. CASE guard = "dirty"
    <3>1. fault' = TRUE
      BY <1>7, <2>2 DEF Boot
    <3>2. QED BY <2>1, <3>1 DEF Promise!vars, Serving, history
  <2>3. CASE guard # "dirty"
    <3>1. Seen' = Halt
      BY <1>7, <2>3 DEF Boot, Seen
    <3>2. QED BY <2>1, <3>1 DEF Promise!vars, Serving, Halt, history
  <2>4. QED BY <2>2, <2>3
<1>8. CASE ProcessCrash \/ PowerLoss
  <2>1. Promise!Freeze
    BY <1>8 DEF Promise!Freeze, ProcessCrash, PowerLoss, Down, Serving, history
  <2>2. QED BY <2>1 DEF Promise!Next
<1>9. CASE UNCHANGED vars
  BY <1>9 DEF vars, process, disk, history, Promise!vars, Serving, Seen
<1>10. QED
  BY <1>1, <1>2, <1>3, <1>5, <1>6, <1>7, <1>8, <1>9 DEF Next, Promise!Next

\* The file, the guard and the latch implement the store's promise for every
\* set of tokens.
THEOREM StoreKeepsItsPromise == Spec => ImplementsPromise
<1>1. Init => Promise!Init
  BY DEF Init, Promise!Init, Serving
<1>2. IInv /\ [Next]_vars => [Promise!Next]_(Promise!vars)
  BY StepIsPromised
<1>3. QED BY <1>1, <1>2, Invariant, PTL DEF Spec, Promise!Spec, ImplementsPromise
=============================================================================
