------------------------------- MODULE MCLive -------------------------------
(***************************************************************************)
(* What must come to an end: calls and connections at the broker, commands  *)
(* under a kill switch, and the log of a task that has ended.  The three    *)
(* share no state, so one of them runs at a time, under its own fairness.    *)
(***************************************************************************)
EXTENDS Broker, TaskManager, TaskLog, TLC

CONSTANTS d1, p1, p2, c1, t1, rd1

VARIABLE part

liveVars == <<brokerVars, taskVars, logVars, part>>

Init ==
  /\ BrokerInit /\ TaskInit /\ LogInit
  /\ part \in {"broker", "tasks", "log"}

Next ==
  /\ \/ part = "broker" /\ BrokerNext /\ UNCHANGED <<taskVars, logVars>>
     \/ part = "tasks"  /\ TaskNext   /\ UNCHANGED <<brokerVars, logVars>>
     \/ part = "log"    /\ LogNext    /\ UNCHANGED <<brokerVars, taskVars>>
  /\ UNCHANGED part

\* Bound: the kill-switch file comes, goes and comes again, or the Agent stops once
\* and the file changes once.
TasksWithin == toggles + 2 * crashes <= 3

\* Goroutines run and tickers tick.  The two minutes end for a call that waits
\* for a slot; no property leans on them for a call that was sent.  Nothing makes
\* an Agent connect, answer or leave.
BrokerFairness ==
  LET Runs(A) == part = "broker" /\ A IN
  /\ \A p \in Peer : /\ WF_brokerVars(Runs(AcceptStep(p))) /\ WF_brokerVars(Runs(WatchPeer(p)))
                     /\ WF_brokerVars(Runs(ReadStep(p)))
  /\ \A c \in CallId : /\ WF_brokerVars(Runs(CallStep(c)))
                       /\ WF_brokerVars(Runs(pc[c] = "checked" /\ Expire(c)))

\* The watcher ticks, and the system ends a killed process and, once the PTY is
\* closed, the copier's read.  Nothing makes a command end by itself, a client
\* call, the operator act, or the session come or go.
TaskFairness ==
  LET Runs(A) == part = "tasks" /\ A IN
  /\ WF_taskVars(Runs(Watch)) /\ \A a \in Stopper : WF_taskVars(Runs(StopStep(a)))
  /\ \A t \in Task :
       /\ WF_taskVars(Runs(StartStep(t))) /\ WF_taskVars(Runs(CancelCall(t)))
       /\ WF_taskVars(Runs(WaitStep(t))) /\ WF_taskVars(Runs(Die(t)))
       /\ WF_taskVars(Runs(waiter[t] = "drain" /\ CopyDone(t)))

\* The copier and waitTask run; a client asks again until it is told EOF.
LogFairness ==
  LET Runs(A) == part = "log" /\ A IN
  /\ WF_logVars(Runs(Copier)) /\ WF_logVars(Runs(Waiter))
  /\ \A r \in Reader : WF_logVars(Runs(Read(r)))

Spec == Init /\ [][Next /\ TasksWithin']_liveVars /\ BrokerFairness /\ TaskFairness /\ LogFairness
=============================================================================
