----------------------------- MODULE AuthzStore -----------------------------
(***************************************************************************)
(* The durable authorization state of the Relay (internal/oauthserver).    *)
(*                                                                         *)
(* The server keeps its authority in memory, in oauth-state.json and in a  *)
(* six-byte guard file.  Every mutation runs one save transaction under    *)
(* the server mutex: mark the guard dirty, replace the JSON file, fsync    *)
(* its directory, mark the guard clean.  Each I/O step may fail, and the   *)
(* process or the machine may stop between any two of them.                *)
(*                                                                         *)
(* The authority is abstracted to the set of live tokens and the emergency *)
(* stop.  A token stands for anything a record in the file authorizes.     *)
(***************************************************************************)
EXTENDS FiniteSets

CONSTANTS
  Token,   \* the tokens the server may generate; each is generated once
  NoToken  \* the subject of a transaction that concerns no token

ASSUME NoTokenAssumption == NoToken \notin Token

VARIABLES
  up,        \* a Relay process runs
  mem,       \* its authority in memory
  fault,     \* persistenceFault, the fail-closed latch of the process
  pc,        \* the step the save transaction is at
  op,        \* the operation that runs it
  tok,       \* the token it concerns
  undo,      \* the snapshot taken before the operation changed memory
  file,      \* oauth-state.json as a process reads it
  durable,   \* the contents of it a power loss may bring back
  guard,     \* oauth-state.guard as a process reads it
  guardDur,  \* the contents of it a power loss may bring back
  \* History of what callers were told; the code does not keep it.
  issued,    \* tokens ever generated
  acked,     \* tokens whose revocation was answered after a complete save
  unsaved,   \* revocations answered 200 without a save while the disk said
             \* "frozen", and no release of the emergency stop asked since
  stopHeld,  \* an acknowledged stop whose release was not asked for
  lost       \* a mutation failed to reach the disk, no recovery save since

process == <<up, mem, fault, pc, op, tok, undo>>
disk    == <<file, durable, guard, guardDur>>
history == <<issued, acked, unsaved, stopHeld, lost>>
vars    == <<process, disk, history>>

State == [live : SUBSET Token, kill : BOOLEAN]
Empty == [live |-> {}, kill |-> FALSE]
Halt  == [live |-> {}, kill |-> TRUE]

Op == {"none", "load", "issue", "publicRevoke", "adminRevoke", "stop", "release"}
PC == {"idle", "mark", "replace", "sync", "clean"}

TypeOK ==
  /\ up \in BOOLEAN /\ fault \in BOOLEAN
  /\ mem \in State /\ undo \in State
  /\ pc \in PC /\ op \in Op /\ tok \in Token \cup {NoToken}
  /\ file \in State /\ durable \in SUBSET State
  /\ guard \in {"clean", "dirty"} /\ guardDur \in SUBSET {"clean", "dirty"}
  /\ issued \in SUBSET Token /\ acked \in SUBSET Token
  /\ unsaved \in SUBSET Token
  /\ stopHeld \in BOOLEAN /\ lost \in BOOLEAN

\* An installed Relay that was shut down cleanly.
Init ==
  /\ up = FALSE /\ fault = FALSE
  /\ mem = Empty /\ undo = Empty
  /\ pc = "idle" /\ op = "none" /\ tok = NoToken
  /\ file = Empty /\ durable = {Empty}
  /\ guard = "clean" /\ guardDur = {"clean"}
  /\ issued = {} /\ acked = {} /\ unsaved = {}
  /\ stopHeld = FALSE /\ lost = FALSE

-----------------------------------------------------------------------------
(* What a request sees.  It takes the server mutex, so while a transaction *)
(* holds it the last answer given was computed from the state before.      *)

Seen == IF pc = "idle" THEN mem ELSE undo

Serving == IF up /\ ~fault /\ ~Seen.kill THEN Seen.live ELSE {}

\* Whatever of the disk survives, the next process serves nothing before a
\* release of the emergency stop.
DiskFrozen ==
  \/ \A g \in guardDur \cup {guard} : g = "dirty"
  \/ \A f \in durable \cup {file} : f.kill

-----------------------------------------------------------------------------
(* Operations: each changes memory and enters the save transaction.        *)

\* Mutant: a recovery save does not stop the Relay first.
EnterUnstopped(o, t, m) ==
  /\ undo' = mem /\ mem' = m
  /\ op' = o /\ tok' = t /\ pc' = "mark"
  /\ UNCHANGED <<up, fault, disk>>

\* saveLocked or saveRecoveryLocked: a recovery save (only a latched process
\* makes one) stops the Relay globally before it writes anything.
Enter(o, t, m) ==
  /\ undo' = mem
  /\ mem' = [m EXCEPT !.kill = @ \/ fault]
  /\ op' = o /\ tok' = t /\ pc' = "mark"
  /\ UNCHANGED <<up, fault, disk>>

Ready == up /\ pc = "idle"

\* exchangeCode and exchangeRefresh: only while the resource is enabled.
Issue(t) ==
  /\ Ready /\ ~fault /\ ~mem.kill
  /\ t \notin issued
  /\ issued' = issued \cup {t}
  /\ Enter("issue", t, [mem EXCEPT !.live = @ \cup {t}])
  /\ UNCHANGED <<acked, unsaved, stopHeld, lost>>

\* The public revocation endpoint: the save error is discarded.
PublicRevoke(t) ==
  /\ Ready /\ ~fault
  /\ t \in issued
  /\ Enter("publicRevoke", t, [mem EXCEPT !.live = @ \ {t}])
  /\ UNCHANGED history

\* The same endpoint in a latched process: nothing is written, memory
\* changes, and the answer is 200 all the same.
PublicRevokeFrozen(t) ==
  /\ Ready /\ fault
  /\ t \in issued
  /\ mem' = [mem EXCEPT !.live = @ \ {t}]
  /\ unsaved' = IF DiskFrozen THEN unsaved \cup {t} ELSE unsaved
  /\ UNCHANGED <<up, fault, pc, op, tok, undo, disk, issued, acked, stopHeld, lost>>

\* An administrator's reduction of authority: a recovery save when latched.
AdminRevoke(t) ==
  /\ Ready
  /\ t \in mem.live
  /\ Enter("adminRevoke", t, [mem EXCEPT !.live = @ \ {t}])
  /\ UNCHANGED history

SetKillSwitch(on) ==
  /\ Ready
  /\ fault => on
  /\ Enter(IF on THEN "stop" ELSE "release", NoToken, [mem EXCEPT !.kill = on])
  /\ stopHeld' = (stopHeld /\ on)
  /\ unsaved' = IF on THEN unsaved ELSE {}
  /\ UNCHANGED <<issued, acked, lost>>

-----------------------------------------------------------------------------
(* The save transaction, one action per I/O step.                          *)

Idle == pc' = "idle" /\ op' = "none" /\ tok' = NoToken /\ undo' = Empty

Down == up' = FALSE /\ fault' = FALSE /\ mem' = Empty /\ Idle

Finish ==
  /\ Idle
  /\ acked' = IF op \in {"publicRevoke", "adminRevoke"} THEN acked \cup {tok} ELSE acked
  /\ stopHeld' = (stopHeld \/ op = "stop" \/ fault)
  /\ lost' = (lost /\ ~fault)
  /\ UNCHANGED <<up, mem, fault, issued, unsaved>>

\* Mutant: the snapshot is restored but the fault is not latched.
AbortUnlatched ==
  /\ IF op = "load" THEN Down ELSE Idle /\ mem' = undo /\ UNCHANGED <<up, fault>>
  /\ UNCHANGED history

\* An error latches the fault and restores the snapshot.  Two callers differ:
\* the revocation endpoint keeps its change, and a failed load ends New.
Abort ==
  /\ IF op = "load"
       THEN Down
       ELSE /\ Idle
            /\ fault' = TRUE
            /\ mem' = IF op = "publicRevoke" THEN mem ELSE undo
            /\ UNCHANGED up
  /\ unsaved' = IF op = "publicRevoke" /\ DiskFrozen' THEN unsaved \cup {tok} ELSE unsaved
  /\ lost' = (lost \/ (op # "load" /\ pc # "clean"))
  /\ UNCHANGED <<issued, acked, stopHeld>>

Advance(next) == pc' = next /\ UNCHANGED <<up, mem, fault, op, tok, undo, history>>

GuardWritten(value) == guard' = value /\ guardDur' = {value}

\* writeStateGuard: an error may come before the write or from the fsync
\* after it, in which case the new value is there but may not last.
GuardFails(value) ==
  /\ \/ UNCHANGED <<guard, guardDur>>
     \/ guard' = value /\ guardDur' = guardDur \cup {value}
  /\ Abort

MarkDirty ==
  /\ pc = "mark"
  /\ UNCHANGED <<file, durable>>
  /\ \/ GuardWritten("dirty") /\ Advance("replace")
     \/ GuardFails("dirty")

\* saveLockedUnlocked up to the rename: any error leaves the old file.
ReplaceFile ==
  /\ pc = "replace"
  /\ UNCHANGED <<guard, guardDur>>
  /\ \/ file' = mem /\ durable' = durable \cup {mem} /\ Advance("sync")
     \/ UNCHANGED <<file, durable>> /\ Abort

\* Mutant: the error of the directory fsync is ignored.
SyncDirectoryUnchecked ==
  /\ pc = "sync"
  /\ durable' \in {durable, {file}}
  /\ Advance("clean")
  /\ UNCHANGED <<file, guard, guardDur>>

SyncDirectory ==
  /\ pc = "sync"
  /\ UNCHANGED <<file, guard, guardDur>>
  /\ \/ durable' = {file} /\ Advance("clean")
     \/ UNCHANGED durable /\ Abort

MarkClean ==
  /\ pc = "clean"
  /\ UNCHANGED <<file, durable>>
  /\ \/ GuardWritten("clean") /\ Finish
     \/ GuardFails("clean")

-----------------------------------------------------------------------------
(* Processes start and stop.                                               *)

\* Mutant: the guard is not consulted at start.
BootUnguarded ==
  /\ ~up
  /\ up' = TRUE /\ mem' = file /\ fault' = FALSE
  /\ pc' = "mark" /\ op' = "load" /\ tok' = NoToken /\ undo' = Halt
  /\ UNCHANGED <<disk, history>>

\* New and load: a dirty guard latches the fault and the file is only read;
\* otherwise the loaded state is saved again before anything is served.
Boot ==
  /\ ~up
  /\ up' = TRUE /\ mem' = file
  /\ fault' = (guard = "dirty")
  /\ IF guard = "dirty"
       THEN UNCHANGED <<pc, op, tok, undo>>
       ELSE pc' = "mark" /\ op' = "load" /\ tok' = NoToken /\ undo' = Halt
  /\ UNCHANGED <<disk, history>>

\* The process ends between two I/O steps; the kernel keeps what it wrote.
ProcessCrash ==
  /\ up
  /\ Down
  /\ UNCHANGED <<disk, history>>

\* The machine stops: of what was not fsynced, either version comes back.
PowerLoss ==
  /\ file' \in durable
  /\ durable' = {file'}
  /\ guard' \in guardDur /\ guardDur' = {guard'}
  /\ Down
  /\ UNCHANGED history

Next ==
  \/ \E t \in Token : \/ Issue(t) \/ AdminRevoke(t)
                      \/ PublicRevoke(t) \/ PublicRevokeFrozen(t)
  \/ \E on \in BOOLEAN : SetKillSwitch(on)
  \/ MarkDirty \/ ReplaceFile \/ SyncDirectory \/ MarkClean
  \/ Boot \/ ProcessCrash \/ PowerLoss

Spec == Init /\ [][Next]_vars

-----------------------------------------------------------------------------
(* Correctness.                                                            *)

\* A revocation whose complete save was acknowledged is final: whatever
\* fails or crashes later, no process ever authorizes the token again
\* (saveOrRollbackLocked, saveRecoveryOrRollbackLocked, load).
RevocationHolds == Serving \cap acked = {}

\* A process that serves holds in memory exactly what every crash would
\* bring back: rollback, the latch and the save that load makes leave no
\* serving process ahead of or behind its file.
MemoryIsDurable ==
  (Ready /\ ~fault) =>
     /\ file = mem /\ durable = {mem}
     /\ guard = "clean" /\ guardDur = {"clean"}

\* An acknowledged emergency stop, and the one every recovery save forces,
\* outlives crashes and failed saves until a release is asked for.
StopHolds == stopHeld => Serving = {}

\* A revocation that was answered without reaching a disk known to be frozen
\* cannot silently come back: before its token is served again an
\* administrator has asked for the release of the emergency stop.
UnsavedRevocationNeedsRelease == Serving \cap unsaved = {}

\* docs/admin.md: authorization state that cannot be durably persisted
\* freezes authorization across restarts, until a recovery save succeeds.
FreezeSurvivesRestart == lost => Serving = {}

\* The store implements its promise: a token joins the served ones when its
\* own issue commits, or with all others when a frozen Relay thaws.
Promise == INSTANCE DurableAuthz
  WITH minted <- issued, revoked <- acked, stopped <- stopHeld, serving <- Serving
ImplementsPromise == Promise!Spec
=============================================================================
