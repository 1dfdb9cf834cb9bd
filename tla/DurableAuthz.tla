---------------------------- MODULE DurableAuthz ----------------------------
(***************************************************************************)
(* What the Relay's authorization store promises, without files, guards,   *)
(* locks or crashes: a set of tokens is being served, a revocation that    *)
(* was acknowledged is final, and an acknowledged emergency stop holds     *)
(* until an administrator asks for its release.  AuthzStore implements it. *)
(***************************************************************************)
CONSTANT Token

VARIABLES
  minted,    \* tokens the Relay ever generated
  revoked,   \* tokens whose revocation was acknowledged after a durable save
  stopped,   \* an acknowledged emergency stop, not yet asked to be released
  serving    \* tokens that authorize a request now

vars == <<minted, revoked, stopped, serving>>

Init ==
  /\ minted = {}
  /\ revoked = {}
  /\ stopped = FALSE
  /\ serving = {}

Mint(t) ==
  /\ t \notin minted
  /\ minted' = minted \cup {t}
  /\ UNCHANGED <<revoked, stopped, serving>>

Deliver(t) ==
  /\ t \in minted \ revoked
  /\ ~stopped
  /\ serving' = serving \cup {t}
  /\ UNCHANGED <<minted, revoked, stopped>>

\* A revocation acknowledged during recovery also stops the Relay.
Revoke(t) ==
  /\ t \in minted
  /\ revoked' = revoked \cup {t}
  /\ stopped' \in {stopped, TRUE}
  /\ serving' = IF stopped' THEN {} ELSE serving \ {t}
  /\ UNCHANGED minted

Stop ==
  /\ stopped' = TRUE
  /\ serving' = {}
  /\ UNCHANGED <<minted, revoked>>

AskRelease ==
  /\ stopped' = FALSE
  /\ UNCHANGED <<minted, revoked, serving>>

\* A fault, a shutdown or a crash: nothing is served until Thaw.
Freeze ==
  /\ serving' = {}
  /\ UNCHANGED <<minted, revoked, stopped>>

Thaw ==
  /\ serving = {}
  /\ ~stopped
  /\ serving' \in SUBSET (minted \ revoked)
  /\ UNCHANGED <<minted, revoked, stopped>>

Next ==
  \/ \E t \in Token : Mint(t) \/ Deliver(t) \/ Revoke(t)
  \/ Stop \/ AskRelease \/ Freeze \/ Thaw

Spec == Init /\ [][Next]_vars
=============================================================================
