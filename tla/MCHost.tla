------------------------------- MODULE MCHost -------------------------------
(***************************************************************************)
(* What the workstation does beside its tasks: the OAuth credentials and    *)
(* the connection loop that uses them, changes of files, the portal session  *)
(* and semantic calls on the desktop, and the commands that replace the      *)
(* binary and the identity.  Apart from the first two they share no state,   *)
(* so one of them runs at a time.                                            *)
(***************************************************************************)
EXTENDS AgentLink, Workspace, Portal, UniqueUI, Installation, TLC

CONSTANTS p1, p2, r1, r2, f1, f2, w1, w2, c1, c2, o1, o2, i1, i2

VARIABLE part

agentVars == <<credVars, linkVars>>
hostVars  == <<agentVars, wsVars, portalVars, uiVars, installVars, part>>

Device1  == p1 :> r1
\* <<max_depth, max_nodes>>: one call cuts the depth, the other the number.
UiLimits == {<<2, 4>>, <<3, 3>>}

HostInit ==
  /\ CredentialsInit /\ LinkInit /\ WorkspaceInit /\ PortalInit /\ UniqueUIInit /\ InstallationInit
  /\ part \in {"agent", "files", "portal", "elements", "cli"}
  \* The elements vary only where they matter, and a third match is like a second.
  /\ part # "elements" => bounds = <<2, 4>> /\ ~waits /\ matching = {} /\ \A n \in Element : parentOf[n] = 0
  /\ bounds # <<2, 4>> => waits
  /\ Cardinality(matching) <= 2
  /\ part # "portal" => ~persistent

HostNext ==
  /\ \/ part = "agent"    /\ LinkNext         /\ UNCHANGED <<wsVars, portalVars, uiVars, installVars>>
     \/ part = "files"    /\ WorkspaceNext    /\ UNCHANGED <<agentVars, portalVars, uiVars, installVars>>
     \/ part = "portal"   /\ PortalNext       /\ UNCHANGED <<agentVars, wsVars, uiVars, installVars>>
     \/ part = "elements" /\ UniqueUINext     /\ UNCHANGED <<agentVars, wsVars, portalVars, installVars>>
     \/ part = "cli"      /\ InstallationNext /\ UNCHANGED <<agentVars, wsVars, portalVars, uiVars>>
  /\ UNCHANGED part

\* Bounds.  Two processes work on the credentials, for one resource when a file was
\* torn; the second family and the second resource come into play where the
\* connection does not.  Beside the connection the other process works while it is up
\* or lost, and until a token was refused.
AgentWithin ==
  LET busy    == {p \in Proc : step[p].at \notin {"idle", "done"}}
      linked  == jobs[p1] # {} \/ refused[p1] # {} \/ orphans[p1] # {}
      issued  == {f \in Family : grant[f].of # {}}
      overdue == {c \in Cred : late[c] # 0}
      calling == phase[p1] \notin {"off", "token", "forget"}
  IN /\ linked \/ retired # {} =>
          Cardinality(busy) <= 1 /\ torn = {} /\ overdue = {} /\ file[r2] = NoCred
     /\ linked /\ p2 \in busy => phase[p1] = "up" /\ step[p2].op \in {"login", "token"}
     /\ retired \subseteq {r1}
     /\ orphans[p1] # {} => step[p2] = Idle
     /\ retired # {} => step[p2] = Idle \/ f2 \notin issued
     /\ Cardinality(refused[p1]) <= 1 /\ Cardinality(jobs[p1] \cup orphans[p1]) <= 1
     /\ f2 \in issued => f1 \in issued
     /\ p2 \in busy /\ calling => step[p2].res = r1 /\ torn = {}
     /\ refused[p1] # {} \/ phase[p1] \in {"challenge", "dial"} => step[p2] = Idle
     /\ p2 \in busy /\ step[p2].res = r2 => step[p2].op \in {"login", "logout"}
     /\ grant[f1].head # 2 \/ grant[f2].head # 2
     /\ Cardinality(old) = 2 => step[p2] = Idle
     /\ Cardinality(busy) = 2 => old \subseteq {[fam |-> f1, gen |-> 1]}
     /\ torn # {} => file[r2] = NoCred
     /\ overdue # {} =>
          /\ overdue = {[fam |-> f1, gen |-> 1]} /\ late[[fam |-> f1, gen |-> 1]] = 1
          /\ f2 \notin issued /\ phase[p1] \in {"off", "token"}
     /\ [fam |-> f2, gen |-> 1] \in old => linked

\* A command that is done returns before anything else happens.
Returns == step[p2].at = "done" => step[p2]' = Idle

\* The first call uses the first name, the second begins beside it.  No call begins
\* after an error that came late or a create that replaced a file, and none that brings
\* a content when none is left.
FilesWithin ==
  /\ call[c1].path = w1 /\ (call[c2].at = "begin" => call[c1].at # "idle")
  /\ effective # {} \/ lost # {} => \A c \in Call : call[c].at # "begin"
  /\ \A c \in Call :
       fresh > MaxVer /\ call[c].at = "begin" => call[c].kind \in {"delete", "move", "replace"}

\* A third session is created when the first two have ended, by a call that is
\* alone.  Without restore tokens one session shows what there is.  Two calls are
\* canceled by the end of the remote session only, and beside a second session only
\* where no key is stuck and no token file stayed.
PortalWithin ==
  /\ desk[3] # "none" =>
       /\ {desk[1], desk[2]} = {"closed"} /\ stuck = {} /\ remote # "ending"
       /\ tool[o2] = NoCallYet
  /\ desk[2] # "none" => persistent
  /\ tool[o1].canceled /\ tool[o2].canceled =>
       remote # "up" /\ (desk[2] = "none" \/ (stuck = {} /\ unremoved = {}))

\* Commands that change the binary and commands that change the identity are not
\* combined, and two that get in each other's way are not followed further.
CliWithin ==
  /\ overlap = {} /\ Cardinality(vanished) <= 1 /\ Cardinality(gone) <= 1
  /\ keys = MaxKey => Cardinality({c \in Cli : cli[c].at # "idle"}) <= 1
  /\ \/ keys = 0 /\ \A c \in Cli : cli[c].at \notin Fresh
     \/ shown["backup"] = 0 /\ \A c \in Cli : cli[c].at \notin Binary

HostWithin == AgentWithin /\ FilesWithin /\ PortalWithin /\ CliWithin

HostSpec == HostInit /\ [][HostNext /\ HostWithin' /\ Returns]_hostVars
=============================================================================
