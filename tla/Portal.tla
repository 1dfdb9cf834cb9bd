------------------------------- MODULE Portal -------------------------------
(***************************************************************************)
(* Input through the RemoteDesktop portal (internal/engine/portal_input.go).*)
(* The engine keeps one session with the compositor, opened with the user's  *)
(* consent by the call that first needs it and closed when the remote        *)
(* session ends.  Calls run side by side and are canceled at any point, the  *)
(* compositor ends sessions as it likes, and what it is asked may happen      *)
(* although the answer does not come.                                        *)
(***************************************************************************)
EXTENDS Integers

CONSTANTS
  Tool,        \* computer calls
  MaxSession,  \* bound: portal sessions ever created
  NoTool       \* nobody

ASSUME MaxSessionAssumption == MaxSession \in Nat \ {0}
ASSUME NoToolAssumption == NoTool \notin Tool

VARIABLES
  persistent,  \* cfg.ComputerPersistMode
  remote,      \* the remote session: "up", "down", "ending" or "ended"
  tool,        \* per call, where it is
  portalMu,    \* who holds it
  portal,      \* e.portal, 0 for none
  flagged,     \* sessions whose closed channel is closed
  desk,        \* the compositor's side of each session
  doomed,      \* what closePortalSession took and is about to close
  token,       \* e.portalRestoreToken
  tokenFile,   \* the file that holds it
  loaded,      \* e.portalTokenLoaded
  unremoved,   \* history: tokens whose file was not removed when it should be
  presented,   \* history: tokens given to the compositor
  again,       \* history: tokens given to it a second time
  stuck        \* sessions in which a call that has ended left keys down

tokens     == <<token, tokenFile, loaded, unremoved, presented, again>>
portalVars == <<persistent, remote, tool, portalMu, portal, flagged, desk, doomed, tokens, stuck>>

Session == 1..MaxSession
\* create, select and start are the requests of newPortalRemoteDesktopSession.
ToolPlace == {"idle", "want", "create", "select", "start", "save", "press", "release"}
\* sent: the request went out, since the call was not canceled yet.  keys is how
\* many are pressed before they are released, down how many are pressed.
NoCallYet == [at |-> "idle", sess |-> 0, with |-> 0, sent |-> FALSE, canceled |-> FALSE,
              keys |-> 0, down |-> 0]

PortalTypeOK ==
  /\ persistent \in BOOLEAN /\ loaded \in BOOLEAN
  /\ remote \in {"up", "down", "ending", "ended"}
  /\ tool \in [Tool -> [at : ToolPlace, sess : 0..MaxSession, with : 0..MaxSession, sent : BOOLEAN,
                        canceled : BOOLEAN, keys : 0..2, down : 0..2]]
  /\ portalMu \in Tool \cup {NoTool}
  /\ {portal, token, tokenFile} \subseteq 0..MaxSession
  /\ desk \in [Session -> {"none", "created", "started", "closed"}]
  /\ \A S \in {flagged, doomed, unremoved, presented, again, stuck} : S \subseteq Session

PortalInit ==
  /\ persistent \in BOOLEAN /\ remote = "up"
  /\ tool = [t \in Tool |-> NoCallYet] /\ portalMu = NoTool
  /\ portal = 0 /\ flagged = {} /\ desk = [s \in Session |-> "none"] /\ doomed = {}
  /\ token = 0 /\ tokenFile = 0 /\ loaded = FALSE
  /\ unremoved = {} /\ presented = {} /\ again = {} /\ stuck = {}

-----------------------------------------------------------------------------
IsOpen(s) == desk[s] \in {"created", "started"}
InUse(s)  == s # 0 /\ desk[s] = "started"
Shut(S)   == /\ desk' = [s \in Session |-> IF s \in S /\ IsOpen(s) THEN "closed" ELSE desk[s]]
             /\ stuck' = stuck \ S
ToolAt(t, place)   == tool' = [tool EXCEPT ![t].at = place]
Ends(t)        == tool' = [tool EXCEPT ![t] = NoCallYet]
\* The next request goes out unless the call was canceled by now.
Asks(t, place) == tool' = [tool EXCEPT ![t] = [@ EXCEPT !.at = place, !.sent = ~tool[t].canceled]]

-----------------------------------------------------------------------------
(* The remote session, and the end of a call's context.                    *)

ToolCall(t) ==
  /\ remote = "up" /\ tool[t].at = "idle"
  /\ \E k \in 0..2 : tool' = [tool EXCEPT ![t] = [NoCallYet EXCEPT !.at = "want", !.keys = k]]
  /\ UNCHANGED <<persistent, remote, portalMu, portal, flagged, desk, doomed, tokens, stuck>>

CancelTool(t) ==
  /\ tool[t].at # "idle" /\ ~tool[t].canceled
  /\ tool' = [tool EXCEPT ![t].canceled = TRUE]
  /\ UNCHANGED <<persistent, remote, portalMu, portal, flagged, desk, doomed, tokens, stuck>>

\* serve returns: its calls are canceled and not waited for.
RemoteLost ==
  /\ remote = "up" /\ remote' = "down"
  /\ tool' = [t \in Tool |-> IF tool[t].at = "idle" THEN NoCallYet ELSE [tool[t] EXCEPT !.canceled = TRUE]]
  /\ UNCHANGED <<persistent, portalMu, portal, flagged, desk, doomed, tokens, stuck>>

RemoteBack ==
  /\ remote \in {"down", "ended"} /\ remote' = "up"
  /\ UNCHANGED <<persistent, tool, portalMu, portal, flagged, desk, doomed, tokens, stuck>>

\* EndRemoteSession, after a rejected credential or before the process ends.  The
\* connection to the bus is closed last, and every session on it with it.
EndTakes ==
  /\ remote = "down" /\ portalMu = NoTool
  /\ remote' = "ending" /\ portal' = 0
  /\ doomed' = {s \in Session : IsOpen(s)}
  /\ UNCHANGED <<persistent, tool, portalMu, flagged, desk, tokens, stuck>>

EndCloses ==
  /\ remote = "ending" /\ remote' = "ended"
  /\ Shut(doomed) /\ flagged' = flagged \cup doomed /\ doomed' = {}
  /\ UNCHANGED <<persistent, tool, portalMu, portal, tokens>>

-----------------------------------------------------------------------------
(* portalSession.                                                          *)

UseOpen(t) ==
  /\ tool[t].at = "want" /\ portalMu = NoTool
  /\ portal # 0 /\ portal \notin flagged
  /\ tool' = [tool EXCEPT ![t] = [@ EXCEPT !.at = "press", !.sess = portal]]
  /\ UNCHANGED <<persistent, remote, portalMu, portal, flagged, desk, doomed, tokens, stuck>>

\* A session that is closed by now is dropped.  Without a connection to the
\* portal that is all.
NoPortal(t) ==
  /\ tool[t].at = "want" /\ portalMu = NoTool /\ portal \in flagged \cup {0}
  /\ Shut(Session \ doomed) /\ portal' = 0 /\ Ends(t)
  /\ UNCHANGED <<persistent, remote, portalMu, flagged, doomed, tokens>>

Loaded == IF loaded \/ ~persistent THEN token ELSE tokenFile

\* The restore token is removed before it is used; that removing its file may fail
\* is not noticed.
Open(t) ==
  /\ tool[t].at = "want" /\ portalMu = NoTool /\ portal \in flagged \cup {0}
  /\ portalMu' = t /\ portal' = 0 /\ Shut({portal})
  /\ loaded' = TRUE /\ token' = 0
  /\ \/ /\ tokenFile' = IF Loaded # 0 /\ persistent THEN 0 ELSE tokenFile
        /\ UNCHANGED unremoved
     \/ /\ Loaded # 0 /\ persistent /\ unremoved' = unremoved \cup ({tokenFile} \ {0})
        /\ UNCHANGED tokenFile
  /\ tool' = [tool EXCEPT ![t] = [@ EXCEPT !.at = "create", !.sent = ~tool[t].canceled, !.with = Loaded]]
  /\ UNCHANGED <<persistent, remote, flagged, doomed, presented, again>>

\* SelectDevices gives the token to the compositor.
Presents(t, alive) ==
  LET k == IF alive /\ tool[t].with # 0 THEN {tool[t].with} ELSE {} IN
  /\ presented' = presented \cup k /\ again' = again \cup (k \cap presented)
  /\ UNCHANGED <<token, tokenFile, loaded, unremoved>>

Created(t) ==
  /\ tool[t].at = "create" /\ tool[t].sent
  /\ \E s \in Session :
       /\ desk[s] = "none" /\ \A x \in 1..(s - 1) : desk[x] # "none"
       /\ desk' = [desk EXCEPT ![s] = "created"]
       /\ tool' = [tool EXCEPT ![t] = [@ EXCEPT !.at = "select", !.sent = ~tool[t].canceled, !.sess = s]]
  /\ Presents(t, ~tool[t].canceled)
  /\ UNCHANGED <<persistent, remote, portalMu, portal, flagged, doomed, stuck>>

Selected(t) ==
  /\ tool[t].at = "select" /\ tool[t].sent /\ desk[tool[t].sess] = "created"
  /\ Asks(t, "start")
  /\ UNCHANGED <<persistent, remote, portalMu, portal, flagged, desk, doomed, tokens, stuck>>

\* The user consents.
Started(t) ==
  /\ tool[t].at = "start" /\ tool[t].sent /\ desk[tool[t].sess] = "created"
  /\ desk' = [desk EXCEPT ![tool[t].sess] = "started"] /\ ToolAt(t, "save")
  /\ UNCHANGED <<persistent, remote, portalMu, portal, flagged, doomed, tokens, stuck>>

\* A request is denied, times out or is canceled, or Start names no stream: the
\* session is closed, unless it is not known which one was created.
OpenFails(t) ==
  LET s == tool[t].sess IN
  /\ tool[t].at \in {"create", "select", "start", "save"}
  /\ \/ Shut({s}) /\ flagged' = flagged \cup ({s} \ {0})
     \/ /\ tool[t].at = "create" /\ tool[t].sent
        /\ \E n \in Session : /\ desk[n] = "none" /\ \A x \in 1..(n - 1) : desk[x] # "none"
                              /\ desk' = [desk EXCEPT ![n] = "created"]
        /\ UNCHANGED <<flagged, stuck>>
  /\ portalMu' = NoTool /\ Ends(t)
  /\ UNCHANGED <<persistent, remote, portal, doomed, tokens>>

\* The token Start returned, or none, replaces the one that was used.
Publish(t) ==
  LET s == tool[t].sess IN
  /\ tool[t].at = "save"
  /\ portal' = s /\ portalMu' = NoTool /\ ToolAt(t, "press")
  /\ \E k \in {0, s} :
       /\ token' = k
       /\ tokenFile' = IF persistent /\ k # 0 THEN k ELSE tokenFile
  /\ UNCHANGED <<persistent, remote, flagged, desk, doomed, loaded, unremoved, presented, again, stuck>>

PublishFails(t) ==
  LET s == tool[t].sess IN
  /\ tool[t].at = "save" /\ persistent
  /\ token' = s /\ tokenFile' \in {tokenFile, s}
  /\ Shut({s}) /\ flagged' = flagged \cup {s} /\ portalMu' = NoTool /\ Ends(t)
  /\ UNCHANGED <<persistent, remote, portal, doomed, loaded, unremoved, presented, again>>
-----------------------------------------------------------------------------
(* Input.                                                                  *)

\* Pointer motion and scrolling press nothing; a click and typing press and
\* release one at a time; a key combination presses all before it releases any.
Notified(t) ==
  LET c == tool[t] IN
  /\ c.at \in {"press", "release"} /\ ~c.canceled
  /\ c.sess \notin flagged /\ desk[c.sess] = "started"
  /\ \/ /\ c.keys = 0 /\ UNCHANGED tool
     \/ /\ c.at = "press" /\ c.keys > 0
        /\ tool' = [tool EXCEPT ![t] = [@ EXCEPT !.down = c.down + 1,
                                               !.at = IF c.down + 1 = c.keys THEN "release" ELSE "press"]]
     \/ /\ c.at = "release"
        /\ IF c.down > 1 THEN tool' = [tool EXCEPT ![t].down = @ - 1]
           ELSE IF c.keys = 1 THEN tool' = [tool EXCEPT ![t] = [@ EXCEPT !.down = 0, !.at = "press"]]
           ELSE Ends(t)
  /\ UNCHANGED <<persistent, remote, portalMu, portal, flagged, desk, doomed, tokens, stuck>>

InputDone(t) ==
  /\ tool[t].at = "press" /\ tool[t].down = 0 /\ tool[t].keys < 2
  /\ Ends(t)
  /\ UNCHANGED <<persistent, remote, portalMu, portal, flagged, desk, doomed, tokens, stuck>>

\* notify finds the session closed, or its request fails; what was pressed stays
\* pressed, and so may what was asked without an answer.
NotifyFailsMarking(t, marked) ==
  LET c == tool[t] IN
  /\ c.at \in {"press", "release"}
  /\ flagged' = flagged \cup marked
  /\ \E arrived \in BOOLEAN :
       /\ arrived => c.sess \notin flagged /\ ~c.canceled /\ c.keys > 0
       /\ stuck' = IF (c.down > 0 \/ arrived) /\ InUse(c.sess) THEN stuck \cup {c.sess} ELSE stuck
  /\ Ends(t)
  /\ UNCHANGED <<persistent, remote, portalMu, portal, desk, doomed, tokens>>

\* Variant: only a call that was not canceled closes the session it failed in.
NotifyFailsQuietly(t) == NotifyFailsMarking(t, IF tool[t].canceled THEN {} ELSE {tool[t].sess})

NotifyFails(t) == NotifyFailsMarking(t, {tool[t].sess})

-----------------------------------------------------------------------------
(* The compositor, and the end of the process.                             *)

\* It ends a session, also because the user does.
DeskCloses(s) ==
  /\ IsOpen(s) /\ Shut({s})
  /\ UNCHANGED <<persistent, remote, tool, portalMu, portal, flagged, doomed, tokens>>

\* watchClosed has the signal.
WatchClosed(s) ==
  /\ desk[s] = "closed" /\ s \notin flagged /\ flagged' = flagged \cup {s}
  /\ UNCHANGED <<persistent, remote, tool, portalMu, portal, desk, doomed, tokens, stuck>>

PortalCrash ==
  /\ portal # 0 \/ portalMu # NoTool \/ token # 0
  /\ remote' = "down" /\ tool' = [t \in Tool |-> NoCallYet] /\ portalMu' = NoTool /\ portal' = 0
  /\ Shut(Session) /\ flagged' = {s \in Session : desk[s] # "none"} /\ doomed' = {}
  /\ token' = 0 /\ loaded' = FALSE
  /\ UNCHANGED <<persistent, tokenFile, unremoved, presented, again>>

ToolStep(t) ==
  \/ UseOpen(t) \/ NoPortal(t) \/ Open(t) \/ Created(t) \/ Selected(t) \/ Started(t)
  \/ OpenFails(t) \/ Publish(t) \/ PublishFails(t)
  \/ Notified(t) \/ InputDone(t) \/ NotifyFails(t)

PortalNext ==
  \/ \E t \in Tool : ToolCall(t) \/ CancelTool(t) \/ ToolStep(t)
  \/ RemoteLost \/ RemoteBack \/ EndTakes \/ EndCloses
  \/ \E s \in Session : DeskCloses(s) \/ WatchClosed(s)
  \/ PortalCrash

PortalSpec == PortalInit /\ [][PortalNext]_portalVars
-----------------------------------------------------------------------------
\* Whatever was under way when it ended: after EndRemoteSession the desktop takes
\* no input from this process, and no call of the ended session changes that.
NoControlAfterEnd == remote = "ended" => \A s \in Session : desk[s] # "started"

\* The compositor's sessions that take input are those the engine knows: the one
\* it keeps, the one it is opening, and those it is about to close.
NoStraySession ==
  \A s \in Session : desk[s] = "started" =>
    s \in {portal} \cup doomed \/ (portalMu # NoTool /\ tool[portalMu].sess = s)

\* Keys that a failed or canceled call left down are not combined with the input
\* of a later call: nobody obtains that session again.
StuckIsClosed == \A s \in stuck : s \in flagged

\* A restore token is presented once, over restarts, unless its file could not be
\* removed.
TokenIsSingleUse == again \subseteq unremoved

\* Control of the desktop ends with what authorized it and is not inherited by
\* accident.
PortalHolds ==
  PortalTypeOK /\ NoControlAfterEnd /\ NoStraySession /\ StuckIsClosed /\ TokenIsSingleUse
=============================================================================
