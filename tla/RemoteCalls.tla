---------------------------- MODULE RemoteCalls ----------------------------
(***************************************************************************)
(* What the broker promises to those who call an Agent, without maps,      *)
(* request ids, slots or locks.  A connection speaks for one device.  A    *)
(* call goes to one connection, is admitted while its caller and that      *)
(* connection are trusted, and is sent while its caller still is and fewer *)
(* than Limit calls are out.  Only that connection answers it, once, and   *)
(* it ends once.  Broker implements it.                                    *)
(***************************************************************************)
EXTENDS Naturals, FiniteSets

CONSTANTS Device, Agent, CallId, Limit, None

VARIABLES
  of,        \* the device a connection speaks for
  trusted,   \* its credential is accepted
  permitted, \* the caller may call
  stage,     \* how far a call is
  asked,     \* the connection it goes to
  answer     \* the connection that has answered it

vars == <<of, trusted, permitted, stage, asked, answer>>

Init ==
  /\ of = [a \in Agent |-> None] /\ trusted = [a \in Agent |-> TRUE]
  /\ permitted = [c \in CallId |-> TRUE]
  /\ stage = [c \in CallId |-> "new"]
  /\ asked = [c \in CallId |-> None] /\ answer = [c \in CallId |-> None]

Connect(a, d) ==
  /\ of[a] = None
  /\ of' = [of EXCEPT ![a] = d]
  /\ UNCHANGED <<trusted, permitted, stage, asked, answer>>

Revoke(a) ==
  /\ trusted[a]
  /\ trusted' = [trusted EXCEPT ![a] = FALSE]
  /\ UNCHANGED <<of, permitted, stage, asked, answer>>

Withdraw(c) ==
  /\ permitted[c] /\ stage[c] \in {"new", "admitted", "out"}
  /\ permitted' = [permitted EXCEPT ![c] = FALSE]
  /\ UNCHANGED <<of, trusted, stage, asked, answer>>

\* The call finds a connection of its device ...
Ask(c, a) ==
  /\ stage[c] = "new" /\ asked[c] = None /\ of[a] \in Device
  /\ asked' = [asked EXCEPT ![c] = a]
  /\ UNCHANGED <<of, trusted, permitted, stage, answer>>

\* ... is admitted to it ...
AdmitCall(c) ==
  /\ stage[c] = "new" /\ asked[c] # None
  /\ permitted[c] /\ trusted[asked[c]]
  /\ stage' = [stage EXCEPT ![c] = "admitted"]
  /\ UNCHANGED <<of, trusted, permitted, asked, answer>>

\* ... and is sent.
SendOut(c) ==
  /\ stage[c] = "admitted" /\ permitted[c]
  /\ Cardinality({e \in CallId : stage[e] = "out"}) < Limit
  /\ stage' = [stage EXCEPT ![c] = "out"]
  /\ UNCHANGED <<of, trusted, permitted, asked, answer>>

\* An Agent may answer before it was asked, or when the call has ended.
Answer(c) ==
  /\ stage[c] # "new" /\ answer[c] = None
  /\ answer' = [answer EXCEPT ![c] = asked[c]]
  /\ UNCHANGED <<of, trusted, permitted, stage, asked>>

Return(c) ==
  /\ stage[c] = "out" /\ answer[c] # None
  /\ stage' = [stage EXCEPT ![c] = "result"]
  /\ UNCHANGED <<of, trusted, permitted, asked, answer>>

Fail(c) ==
  /\ stage[c] \in {"new", "admitted", "out"}
  /\ stage' = [stage EXCEPT ![c] = "error"]
  /\ UNCHANGED <<of, trusted, permitted, asked, answer>>

\* Most of what the broker does is not seen by those who call.
Next ==
  \/ UNCHANGED vars
  \/ \E a \in Agent : Revoke(a) \/ \E d \in Device : Connect(a, d)
  \/ \E c \in CallId :
       \/ Withdraw(c) \/ AdmitCall(c) \/ SendOut(c) \/ Answer(c) \/ Return(c) \/ Fail(c)
       \/ \E a \in Agent : Ask(c, a)

Spec == Init /\ [][Next]_vars
=============================================================================
