----------------------------- MODULE AgentLink -----------------------------
(***************************************************************************)
(* The connection loop of an Agent (internal/agent/client.go Run): obtain a *)
(* token, prove the device, dial, serve calls until the connection is lost, *)
(* and again.  It uses the credential file together with other processes.   *)
(***************************************************************************)
EXTENDS Credentials

CONSTANTS
  Agent,     \* the processes that run the loop
  DeviceOf   \* the device resource of each

ASSUME AgentAssumption == Agent \subseteq Proc /\ DeviceOf \in [Agent -> Resource]

VARIABLES
  phase,     \* where Run is
  held,      \* the credential of this round
  jobs,      \* credentials under which this process started detached tasks that run
  orphans,   \* those of the tasks that run on after a crash of the process
  refused    \* history: credentials whose challenge was answered with 401

linkVars == <<phase, held, jobs, orphans, refused>>

Phase == {"off", "token", "challenge", "dial", "up", "forget", "wait"}

LinkTypeOK ==
  /\ phase \in [Agent -> Phase] /\ held \in [Agent -> Cred \cup {NoCred}]
  /\ jobs \in [Agent -> SUBSET Cred] /\ orphans \in [Agent -> SUBSET Cred]
  /\ refused \in [Agent -> SUBSET Cred]

LinkInit ==
  /\ phase = [a \in Agent |-> "off"] /\ held = [a \in Agent |-> NoCred]
  /\ jobs = [a \in Agent |-> {}] /\ orphans = jobs /\ refused = jobs

At(a, p) == phase' = [phase EXCEPT ![a] = p]
CredUnchanged == UNCHANGED <<grant, retired, old, late, file, history>>

\* runAgentCommand starts the loop.
Connect(a) ==
  /\ phase[a] = "off"
  /\ At(a, "token") /\ Begin(a, "token", DeviceOf[a])
  /\ UNCHANGED <<held, jobs, orphans, refused, flock>> /\ CredUnchanged

\* TokenProvider has returned: a token, or an error that waits for another try.
Obtained(a) ==
  LET s == step[a] IN
  /\ phase[a] = "token" /\ s.at = "done"
  /\ held' = [held EXCEPT ![a] = s.cred]
  /\ At(a, IF s.ok THEN "challenge" ELSE "wait")
  /\ step' = [step EXCEPT ![a] = Idle]
  /\ UNCHANGED <<jobs, orphans, refused, flock>> /\ CredUnchanged

\* The Relay issues a challenge.
Challenged(a) ==
  /\ phase[a] = "challenge" /\ DeviceOf[a] \notin retired /\ Live(held[a])
  /\ At(a, "dial")
  /\ UNCHANGED <<held, jobs, orphans, refused>> /\ UNCHANGED credVars

\* 401: the session ends, and TokenRejected forgets what is stored.
RejectedLeaving(a, left) ==
  /\ phase[a] = "challenge" /\ DeviceOf[a] \notin retired /\ ~Live(held[a])
  /\ jobs' = [jobs EXCEPT ![a] = left]
  /\ refused' = [refused EXCEPT ![a] = @ \cup {held[a]}]
  /\ At(a, "forget") /\ Begin(a, "forget", DeviceOf[a])
  /\ UNCHANGED <<held, orphans, flock>> /\ CredUnchanged

\* Variant: detached tasks survive a rejected credential.
RejectedKeepingJobs(a) == RejectedLeaving(a, jobs[a])

\* EndRemoteSession ends every task this process started.
Rejected(a) == RejectedLeaving(a, {})

\* It is forgotten and the loop asks for a token at once, or waits first.
Forgotten(a) ==
  /\ phase[a] = "forget" /\ step[a].at = "done"
  /\ IF step[a].ok
       THEN At(a, "token") /\ step' = [step EXCEPT ![a] =
              [Idle EXCEPT !.at = "start", !.op = "token", !.res = DeviceOf[a]]]
       ELSE At(a, "wait") /\ step' = [step EXCEPT ![a] = Idle]
  /\ UNCHANGED <<held, jobs, orphans, refused, flock>> /\ CredUnchanged

\* 410: EndRemoteSession, and Run returns.
Gone(a) ==
  /\ phase[a] = "challenge" /\ DeviceOf[a] \in retired
  /\ jobs' = [jobs EXCEPT ![a] = {}] /\ At(a, "off")
  /\ UNCHANGED <<held, orphans, refused>> /\ UNCHANGED credVars

\* websocket.Dial with the proof; sendCapabilities.  The token is looked up again.
Dialed(a) ==
  /\ phase[a] = "dial" /\ Live(held[a])
  /\ At(a, "up")
  /\ UNCHANGED <<held, jobs, orphans, refused>> /\ UNCHANGED credVars

\* A call of this connection starts a detached task, whatever became of the token
\* since the dial.
StartJob(a) ==
  /\ phase[a] = "up"
  /\ jobs' = [jobs EXCEPT ![a] = @ \cup {held[a]}]
  /\ UNCHANGED <<phase, held, orphans, refused>> /\ UNCHANGED credVars

\* The commands started with a token have come to their end.
JobsEnd(a, c) ==
  /\ \/ c \in jobs[a] /\ jobs' = [jobs EXCEPT ![a] = @ \ {c}] /\ UNCHANGED orphans
     \/ c \in orphans[a] /\ orphans' = [orphans EXCEPT ![a] = @ \ {c}] /\ UNCHANGED jobs
  /\ UNCHANGED <<phase, held, refused>> /\ UNCHANGED credVars

\* A failed challenge or dial, or the connection is lost: tasks are kept.
Disconnected(a) ==
  /\ phase[a] \in {"challenge", "dial", "up"}
  /\ At(a, "wait")
  /\ UNCHANGED <<held, jobs, orphans, refused>> /\ UNCHANGED credVars

\* waitForReconnect.
Again(a) ==
  /\ phase[a] = "wait"
  /\ At(a, "token") /\ Begin(a, "token", DeviceOf[a])
  /\ UNCHANGED <<held, jobs, orphans, refused, flock>> /\ CredUnchanged

RunEnds(a) == phase[a] # "off" /\ At(a, "off") /\ Die(a) /\ held' = [held EXCEPT ![a] = NoCred]

\* A signal ends the loop, and Engine.Close ends its tasks.
Stop(a) ==
  /\ RunEnds(a)
  /\ jobs' = [jobs EXCEPT ![a] = {}]
  /\ UNCHANGED <<orphans, refused>>

\* The process crashes.  Its commands run on, and no later process can stop them.
Crash(a) ==
  /\ RunEnds(a)
  /\ jobs' = [jobs EXCEPT ![a] = {}] /\ orphans' = [orphans EXCEPT ![a] = @ \cup jobs[a]]
  /\ UNCHANGED refused

Loop(a) ==
  \/ Connect(a) \/ Obtained(a) \/ Challenged(a) \/ Rejected(a) \/ Forgotten(a)
  \/ Gone(a) \/ Dialed(a) \/ StartJob(a) \/ Disconnected(a) \/ Again(a)
  \/ Stop(a) \/ Crash(a) \/ \E c \in Cred : JobsEnd(a, c)

\* The Relay, the requests of the Agent, and the commands of other processes.
LinkNext ==
  \/ \E a \in Agent : Loop(a)
  \/ /\ \/ RelayNext
        \/ \E p \in Proc : Work(p)
        \/ \E p \in Proc \ Agent : Command(p)
        \/ \E p \in Proc \ Agent : step[p].at # "idle" /\ Die(p)
     /\ UNCHANGED linkVars

LinkSpec == CredentialsInit /\ LinkInit /\ [][LinkNext]_<<credVars, linkVars>>
-----------------------------------------------------------------------------
\* Work that a rejected credential authorized has ended for good: no task of this
\* process was started with a token that was ever refused to this Agent.  What a
\* crash left behind is not among its tasks.
RejectedWorkEnds == \A a \in Agent : jobs[a] \cap refused[a] = {}

\* A refused token never serves a connection again, although forgetting it may fail
\* and other processes put tokens in its place.
RefusedStaysOut == \A a \in Agent : phase[a] \in {"dial", "up"} => held[a] \notin refused[a]

\* What an Agent lets go on across connections was authorized by a credential
\* the Relay has not refused to it.
LinkHolds == LinkTypeOK /\ RejectedWorkEnds /\ RefusedStaysOut
=============================================================================
