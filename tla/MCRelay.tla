------------------------------ MODULE MCRelay ------------------------------
(***************************************************************************)
(* Four parts of the Relay beside the token store, checked together.  They *)
(* share no state, so a behaviour of one of them at a time shows what each  *)
(* of them can do.                                                          *)
(***************************************************************************)
EXTENDS Usage, Accounts, DeviceProofs, Limiter, TLC

CONSTANTS a1, a2, r1, r2, u1, u2, u3, n1, n2, s1, s2, i1, v1, v2, x1, x2, x3, t1, t2, b1, b2, h1, h2, k1, k2

VARIABLE part

relayVars == <<usageVars, accountsVars, proofVars, limiterVars, part>>

Owner2 == u1 :> n1 @@ u2 :> n2 @@ u3 :> n2

\* The parts share no state, so one permutation may act on each of them.
Swap(i, x, y) == IF i = 0 THEN x :> x @@ y :> y ELSE x :> y @@ y :> x
Symmetry ==
  {Swap(i, a1, a2) @@ Swap(i, s1, s2) @@ Swap(i, x1, x2) @@ Swap(i, b1, b2) @@ Swap(i, k1, k2)
   @@ Swap(j, r1, r2) @@ Swap(j, v1, v2) @@ Swap(j, t1, t2) @@ Swap(j, h1, h2) : i, j \in 0..1}

Init ==
  /\ UsageInit /\ AccountsInit /\ DeviceProofsInit /\ LimiterInit
  /\ part \in {"usage", "accounts", "proofs", "limiter"}

Next ==
  /\ \/ part = "usage"    /\ UsageNext        /\ UNCHANGED <<accountsVars, proofVars, limiterVars>>
     \/ part = "accounts" /\ AccountsNext     /\ UNCHANGED <<usageVars, proofVars, limiterVars>>
     \/ part = "proofs"   /\ DeviceProofsNext /\ UNCHANGED <<usageVars, accountsVars, limiterVars>>
     \/ part = "limiter"  /\ LimiterNext      /\ UNCHANGED <<usageVars, accountsVars, proofVars>>
  /\ UNCHANGED part

\* Bounds.  Two accounts are paid while nobody uses them; one is paid while its
\* Agent sends frames; one has metered requests and is not paid meanwhile.
UsageWithin ==
  LET copies == {file, book, durable}
      alone  == \E a \in Account : account[a] = "absent"
      unpaid == \A b \in copies : b.codes = {} /\ \A a \in Account : b.of[a].paid = {}
      still  == \A b \in copies, a \in Account : b.of[a].used = 0
      quiet  == \A r \in Request : stage[r] = "idle"
  IN \/ quiet /\ still
     \/ quiet /\ alone
     \/ unpaid /\ alone

\* u1 sets the Relay up, u3 comes after u2 and has its name.  Of the
\* complications (requests side by side, a state that did not reach the disk,
\* an invite, further accounts, a second password, open registration) those
\* that concern each other are combined.
AccountsWithin ==
  LET crowded == Cardinality({v \in Visit : visit[v] # Idle}) > 1
      torn    == (disk # state /\ alive) \/ frozen \/ guardDirty
      rehash  == \E m \in {state, disk}, u \in UserId : m.users[u].hash > 1
  IN /\ Users(state) # {} => u1 \in Users(state)
     /\ u3 \in minted => u2 \in minted /\ ~crowded
     /\ rehash => u2 \notin minted
     /\ torn => ~crowded /\ u3 \notin minted
     /\ i1 \in minted => ~crowded /\ ~rehash /\ u3 \notin minted /\ ended = {}
     /\ i1 \in minted => ephemeral = {} /\ \A s \in Live(state) : state.sessions[s].fresh
     /\ i1 \in minted => \A u \in Users(state) : ~state.users[u].disabled
     /\ state.open => ~torn /\ ~crowded /\ ~rehash
     /\ crowded => ~state.public

\* Two requests are under way while one client exists.  The third challenge is for
\* connections; once it is issued, nothing else answers one.
ProofsWithin ==
  /\ \/ Cardinality({t \in Attempt : attempt[t] # NoAttempt}) <= 1
     \/ Cardinality({c \in Client : client[c] # Unregistered}) <= 1
  /\ issue[x3].kind \in {"none", "agent"}
  /\ issue[x3] # NotIssued =>
       \A t \in Attempt : attempt[t] = NoAttempt \/ attempt[t].challenge = x3

Spec == Init /\ [][Next /\ UsageWithin' /\ AccountsWithin' /\ ProofsWithin']_relayVars
=============================================================================
