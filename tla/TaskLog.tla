------------------------------ MODULE TaskLog ------------------------------
(***************************************************************************)
(* The output of one detached PTY task (internal/engine/task.go): the      *)
(* command writes to its terminal, the copier goroutine moves it through   *)
(* the capped writer into the log file, waitTask closes the PTY when the   *)
(* command is gone and then the log, and clients read the log by offset    *)
(* until an answer says EOF.  Only amounts of output are kept.             *)
(***************************************************************************)
EXTENDS Integers

CONSTANTS
  Reader,   \* clients that follow the log
  MaxOut,   \* bound: how much the command writes
  TtyCap,   \* what the terminal holds before the command blocks
  MaxLog,   \* cfg.MaxTaskLogBytes
  Limit     \* what one read returns at most, cfg.MaxReadChunkBytes

ASSUME LimitAssumption == Limit \in Nat \ {0} /\ TtyCap \in Nat \ {0}
ASSUME OutputAssumption == MaxOut \in Nat /\ MaxLog \in Nat

VARIABLES
  command,    \* the command's process: "running", "exited" or "reaped"
  written,    \* all the command has written
  tty,        \* written and not yet read from the PTY
  ptyOpen,
  copying,    \* the copier: "read", "write" or "done"
  buf,        \* read from the PTY and not yet passed to the writer
  copied,     \* history: all that was ever read from the PTY
  remaining,  \* cappedLogWriter.remaining
  truncated,  \* cappedLogWriter.truncated, task.info.LogTruncated when done
  broken,     \* history: a write to the log file failed
  log,        \* size of the log file
  settling,   \* waitTask: "wait", "drain", "settle" or "done"
  finished,   \* task.info.State is terminal
  rpc,        \* per reader, where readContext is
  seen,       \* finished, as getInfo saw it
  got,        \* how much this read returned
  off,        \* the reader's next_offset
  eof         \* the answer said EOF

child   == <<command, written>>
copy    == <<copying, buf, copied, remaining, truncated, broken, log>>
wait    == <<settling, finished>>
read    == <<rpc, seen, got, off, eof>>
logVars == <<child, tty, ptyOpen, copy, wait, read>>

LogTypeOK ==
  /\ command \in {"running", "exited", "reaped"} /\ written \in 0..MaxOut
  /\ tty \in 0..TtyCap /\ ptyOpen \in BOOLEAN
  /\ copying \in {"read", "write", "done"}
  /\ {buf, copied, log} \subseteq 0..MaxOut /\ remaining \in 0..MaxLog
  /\ {truncated, broken, finished} \subseteq BOOLEAN
  /\ settling \in {"wait", "drain", "settle", "done"}
  /\ rpc \in [Reader -> {"idle", "open", "answer"}]
  /\ seen \in [Reader -> BOOLEAN] /\ eof \in [Reader -> BOOLEAN]
  /\ got \in [Reader -> 0..Limit] /\ off \in [Reader -> 0..MaxOut]

LogInit ==
  /\ command = "running" /\ written = 0
  /\ tty = 0 /\ ptyOpen = TRUE
  /\ copying = "read" /\ buf = 0 /\ copied = 0
  /\ remaining = MaxLog /\ truncated = FALSE /\ broken = FALSE /\ log = 0
  /\ settling = "wait" /\ finished = FALSE
  /\ rpc = [r \in Reader |-> "idle"]
  /\ seen = [r \in Reader |-> FALSE] /\ eof = [r \in Reader |-> FALSE]
  /\ got = [r \in Reader |-> 0] /\ off = [r \in Reader |-> 0]

Least(a, b) == IF a < b THEN a ELSE b

-----------------------------------------------------------------------------
(* The command.                                                            *)

\* A full terminal blocks the command.
Write ==
  /\ command = "running" /\ written < MaxOut /\ tty < TtyCap
  /\ written' = written + 1 /\ tty' = tty + 1
  /\ UNCHANGED <<command, ptyOpen, copy, wait, read>>

\* By itself, or killed while it is blocked.
CommandExits ==
  /\ command = "running"
  /\ command' = "exited"
  /\ UNCHANGED <<written, tty, ptyOpen, copy, wait, read>>

-----------------------------------------------------------------------------
(* io.Copy into the cappedLogWriter.                                       *)

CopyRead ==
  /\ copying = "read" /\ ptyOpen /\ tty > 0
  /\ copying' = "write"
  /\ \E n \in 1..tty : buf' = n /\ copied' = copied + n /\ tty' = tty - n
  /\ UNCHANGED <<child, ptyOpen, remaining, truncated, broken, log, wait, read>>

\* Past the cap the writer drops output and reports it as written.
CopyWrite ==
  /\ copying = "write"
  /\ copying' = "read" /\ buf' = 0
  /\ LET n == Least(buf, remaining)
     IN  log' = log + n /\ remaining' = remaining - n
  /\ truncated' = (truncated \/ buf > remaining)
  /\ UNCHANGED <<child, tty, ptyOpen, copied, broken, wait, read>>

\* The log file takes part of the write, or nothing: io.Copy gives up.
CopyFails ==
  /\ copying = "write" /\ remaining > 0
  /\ copying' = "done" /\ buf' = 0 /\ broken' = TRUE
  /\ \E n \in 0..(Least(buf, remaining) - 1) :
       log' = log + n /\ remaining' = remaining - n
  /\ truncated' = (truncated \/ buf > remaining)
  /\ UNCHANGED <<child, tty, ptyOpen, copied, wait, read>>

\* The read fails once the PTY is closed, whatever it still holds, or once the
\* command has gone and all is read.
CopyEnds ==
  /\ copying = "read"
  /\ ~ptyOpen \/ (command # "running" /\ tty = 0)
  /\ copying' = "done"
  /\ UNCHANGED <<child, tty, ptyOpen, buf, copied, remaining, truncated, broken, log, wait, read>>

-----------------------------------------------------------------------------
(* waitTask.                                                               *)

ReapCommand ==
  /\ settling = "wait" /\ command = "exited"
  /\ command' = "reaped" /\ ptyOpen' = FALSE
  /\ settling' = "drain"
  /\ UNCHANGED <<written, tty, copy, finished, read>>

\* Variant: waitTask does not wait for copyDone.
CopyDrainedEarly ==
  /\ settling = "drain"
  /\ settling' = "settle"
  /\ UNCHANGED <<child, tty, ptyOpen, copy, finished, read>>

CopyDrained ==
  /\ settling = "drain" /\ copying = "done"
  /\ settling' = "settle"
  /\ UNCHANGED <<child, tty, ptyOpen, copy, finished, read>>

ReportFinished ==
  /\ settling = "settle"
  /\ settling' = "done" /\ finished' = TRUE
  /\ UNCHANGED <<child, tty, ptyOpen, copy, read>>

-----------------------------------------------------------------------------
(* readContext, called by a client until it is told EOF.                   *)

\* getInfo, before the log is opened and read.
GetInfo(r) ==
  /\ rpc[r] = "idle" /\ ~eof[r]
  /\ rpc' = [rpc EXCEPT ![r] = "open"]
  /\ seen' = [seen EXCEPT ![r] = finished]
  /\ UNCHANGED <<child, tty, ptyOpen, copy, wait, got, off, eof>>

ReadLog(r) ==
  /\ rpc[r] = "open"
  /\ rpc' = [rpc EXCEPT ![r] = "answer"]
  /\ got' = [got EXCEPT ![r] = Least(Limit, log - off[r])]
  /\ UNCHANGED <<child, tty, ptyOpen, copy, wait, seen, off, eof>>

\* Variant: EOF asks for more than the size of the log.
AnswerLate(r) ==
  /\ rpc[r] = "answer"
  /\ rpc' = [rpc EXCEPT ![r] = "idle"]
  /\ off' = [off EXCEPT ![r] = @ + got[r]]
  /\ eof' = [eof EXCEPT ![r] = seen[r] /\ off[r] + got[r] > log]
  /\ got' = [got EXCEPT ![r] = 0] /\ seen' = [seen EXCEPT ![r] = FALSE]
  /\ UNCHANGED <<child, tty, ptyOpen, copy, wait>>

\* The second Stat, and the answer.
Answer(r) ==
  /\ rpc[r] = "answer"
  /\ rpc' = [rpc EXCEPT ![r] = "idle"]
  /\ off' = [off EXCEPT ![r] = @ + got[r]]
  /\ eof' = [eof EXCEPT ![r] = seen[r] /\ off[r] + got[r] >= log]
  /\ got' = [got EXCEPT ![r] = 0] /\ seen' = [seen EXCEPT ![r] = FALSE]
  /\ UNCHANGED <<child, tty, ptyOpen, copy, wait>>

-----------------------------------------------------------------------------
Copier == CopyRead \/ CopyWrite \/ CopyFails \/ CopyEnds
Waiter == ReapCommand \/ CopyDrained \/ ReportFinished
Read(r) == GetInfo(r) \/ ReadLog(r) \/ Answer(r)

LogNext == Write \/ CommandExits \/ Copier \/ Waiter \/ (\E r \in Reader : Read(r))

LogSpec == LogInit /\ [][LogNext]_logVars

-----------------------------------------------------------------------------
\* An answer that says EOF is final: the log never grows past what that reader
\* was given, although the state was read before the log and the size after it.
EofIsFinal == \A r \in Reader : eof[r] => off[r] = log

\* The log is what was read from the PTY up to the cap, whatever the sizes of the
\* reads were, as long as the log file took every write.
LogIsCappedPrefix == ~broken => log = Least(copied - buf, MaxLog)

\* A finished task whose log lost output to the cap says so.
TruncationIsReported == (finished /\ copied > MaxLog /\ ~broken) => truncated

\* Every reader that keeps asking is told EOF once the command has ended, also
\* when the log file failed or the terminal still held output.
EofIsReached == \A r \in Reader : command = "exited" ~> eof[r]

\* What readers are given is the whole of a log that is what it claims to be.
LogHolds == LogTypeOK /\ EofIsFinal /\ LogIsCappedPrefix /\ TruncationIsReported

\* What TestLongTaskReturnsIDAndCanBeReadLater asserts of EOF: the reader has
\* all the command wrote, when nothing was truncated and no write failed.  The
\* PTY may be closed before the copier has read its last output.
EofMeansAllOutput ==
  \A r \in Reader : eof[r] /\ ~truncated /\ ~broken => off[r] = written
=============================================================================
