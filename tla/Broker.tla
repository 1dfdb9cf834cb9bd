------------------------------- MODULE Broker -------------------------------
(***************************************************************************)
(* The Relay's broker (internal/relay/broker.go): Agents connect, one peer *)
(* per WebSocket, and MCP handlers call the peer that currently serves a   *)
(* device.  Peers are replaced, dropped and revoked while calls are under  *)
(* way; callers lose their authorization, go away or time out.             *)
(*                                                                         *)
(* The credential of a peer and the authorization of a caller are only     *)
(* withdrawn here, never restored.                                         *)
(***************************************************************************)
EXTENDS Integers, FiniteSets

CONSTANTS
  Device,          \* routes of devices
  Peer,            \* connections of Agents, each accepted once
  CallId,          \* calls of MCP handlers, each with a fresh request id
  MaxCalls,        \* capacity of callSlots
  MaxConnections,  \* maxConnections
  None

ASSUME CapacityAssumption ==
  MaxCalls \in Nat \ {0} /\ MaxConnections \in Nat \ {0}
ASSUME NoneAssumption == None \notin Peer \cup CallId \cup Device

VARIABLES
  \* connections
  peers,     \* the map from devices to peers
  dev,       \* the device a connection was made for
  accept,    \* where acceptAgent, then readLoop, of a connection is
  old,       \* the peer it replaces and has still to close
  conn,      \* its WebSocket: "none", "open" or "closed" (with p.done)
  valid,     \* the authorizer accepts its credential
  pending,   \* request ids that wait for a response
  inbox,     \* ids of responses on their way to readLoop
  handing,   \* the response readLoop has matched and not yet handed over
  watching,  \* watchPeerAuthorization runs
  \* calls
  pc,        \* where Call is
  target,    \* the peer it found
  allowed,   \* authzctx.Allowed of the caller
  answer,    \* what is in the call's channel, and who sent it
  slots      \* number of elements in callSlots

link == <<peers, dev, accept, old, conn, valid, watching>>
mail == <<inbox, handing>>
call == <<pc, target, allowed, answer, slots, pending>>
brokerVars == <<link, mail, call>>

Ended     == {"result", "error"}
Holding   == {"slot", "pending", "sent"}   \* a slot of callSlots is theirs
Waiting   == {"pending", "sent"}           \* and an entry of pending

BrokerTypeOK ==
  /\ peers \in [Device -> Peer \cup {None}] /\ dev \in [Peer -> Device \cup {None}]
  /\ accept \in [Peer -> {"none", "admitted", "authorized", "inserted", "reading", "gone"}]
  /\ old \in [Peer -> Peer \cup {None}]
  /\ conn \in [Peer -> {"none", "open", "closed"}] /\ valid \in [Peer -> BOOLEAN]
  /\ watching \subseteq Peer
  /\ pending \in [Peer -> SUBSET CallId] /\ inbox \in [Peer -> SUBSET CallId]
  /\ handing \in [Peer -> CallId \cup {None}]
  /\ pc \in [CallId -> {"none", "found", "checked"} \cup Holding \cup Ended]
  /\ target \in [CallId -> Peer \cup {None}] /\ allowed \in [CallId -> BOOLEAN]
  /\ answer \in [CallId -> Peer \cup {None}]
  /\ slots \in 0..MaxCalls

BrokerInit ==
  /\ peers = [d \in Device |-> None] /\ dev = [p \in Peer |-> None]
  /\ accept = [p \in Peer |-> "none"] /\ old = [p \in Peer |-> None]
  /\ conn = [p \in Peer |-> "none"] /\ valid = [p \in Peer |-> TRUE]
  /\ watching = {}
  /\ pending = [p \in Peer |-> {}] /\ inbox = [p \in Peer |-> {}]
  /\ handing = [p \in Peer |-> None]
  /\ pc = [c \in CallId |-> "none"] /\ target = [c \in CallId |-> None]
  /\ allowed = [c \in CallId |-> TRUE] /\ answer = [c \in CallId |-> None]
  /\ slots = 0

\* p.close: done and the socket, without a closing handshake.
Close(p) == conn' = [conn EXCEPT ![p] = "closed"]

-----------------------------------------------------------------------------
(* acceptAgent.                                                            *)

\* The limit is looked at under one lock and the map written under another.
Admit(p, d) ==
  /\ accept[p] = "none"
  /\ dev' = [dev EXCEPT ![p] = d]
  /\ \/ /\ peers[d] # None \/ Cardinality({e \in Device : peers[e] # None}) < MaxConnections
        /\ accept' = [accept EXCEPT ![p] = "admitted"]
        /\ conn' = [conn EXCEPT ![p] = "open"]
     \/ /\ peers[d] = None /\ Cardinality({e \in Device : peers[e] # None}) >= MaxConnections
        /\ accept' = [accept EXCEPT ![p] = "gone"]
        /\ UNCHANGED conn
  /\ UNCHANGED <<peers, old, valid, watching, mail, call>>

Authorize(p) ==
  /\ accept[p] = "admitted"
  /\ IF valid[p]
       THEN accept' = [accept EXCEPT ![p] = "authorized"] /\ UNCHANGED conn
       ELSE accept' = [accept EXCEPT ![p] = "gone"] /\ Close(p)
  /\ UNCHANGED <<peers, dev, old, valid, watching, mail, call>>

Insert(p) ==
  /\ accept[p] = "authorized"
  /\ accept' = [accept EXCEPT ![p] = "inserted"]
  /\ old' = [old EXCEPT ![p] = peers[dev[p]]]
  /\ peers' = [peers EXCEPT ![dev[p]] = p]
  /\ UNCHANGED <<dev, conn, valid, watching, mail, call>>

\* Variant: the connection that was replaced is forgotten, not closed.
ServeBeside(p) ==
  /\ accept[p] = "inserted"
  /\ accept' = [accept EXCEPT ![p] = "reading"]
  /\ old' = [old EXCEPT ![p] = None]
  /\ watching' = watching \cup {p}
  /\ UNCHANGED <<peers, dev, conn, valid, mail, call>>

\* Variant: an idle connection is not revalidated.
ServeUnwatched(p) ==
  /\ accept[p] = "inserted"
  /\ accept' = [accept EXCEPT ![p] = "reading"]
  /\ old' = [old EXCEPT ![p] = None]
  /\ IF old[p] = None THEN UNCHANGED conn ELSE Close(old[p])
  /\ UNCHANGED <<peers, dev, valid, watching, mail, call>>

\* The peer that was replaced is closed, and the two goroutines are started.
Serve(p) ==
  /\ accept[p] = "inserted"
  /\ accept' = [accept EXCEPT ![p] = "reading"]
  /\ old' = [old EXCEPT ![p] = None]
  /\ IF old[p] = None THEN UNCHANGED conn ELSE Close(old[p])
  /\ watching' = watching \cup {p}
  /\ UNCHANGED <<peers, dev, valid, mail, call>>

\* watchPeerAuthorization, every 250 ms until the peer is done.
WatchPeer(p) ==
  /\ p \in watching
  /\ \/ conn[p] = "closed" /\ watching' = watching \ {p} /\ UNCHANGED conn
     \/ conn[p] = "open" /\ ~valid[p] /\ watching' = watching \ {p} /\ Close(p)
  /\ UNCHANGED <<peers, dev, accept, old, valid, mail, call>>

\* Variant: readLoop's end removes whoever serves the device by now.
RemoveDevice(p) ==
  /\ accept[p] = "reading" /\ conn[p] = "closed" /\ handing[p] = None
  /\ accept' = [accept EXCEPT ![p] = "gone"]
  /\ inbox' = [inbox EXCEPT ![p] = {}]
  /\ peers' = [peers EXCEPT ![dev[p]] = None]
  /\ UNCHANGED <<dev, old, conn, valid, watching, handing, call>>

\* Variant: readLoop ends and leaves its map entry.
RemoveNothing(p) ==
  /\ accept[p] = "reading" /\ conn[p] = "closed" /\ handing[p] = None
  /\ accept' = [accept EXCEPT ![p] = "gone"]
  /\ inbox' = [inbox EXCEPT ![p] = {}]
  /\ UNCHANGED <<peers, dev, old, conn, valid, watching, handing, call>>

\* readLoop ends: the map entry goes only while it is still this peer's.
Remove(p) ==
  /\ accept[p] = "reading" /\ conn[p] = "closed" /\ handing[p] = None
  /\ accept' = [accept EXCEPT ![p] = "gone"]
  /\ inbox' = [inbox EXCEPT ![p] = {}]
  /\ peers' = [peers EXCEPT ![dev[p]] = IF @ = p THEN None ELSE @]
  /\ UNCHANGED <<dev, old, conn, valid, watching, handing, call>>

-----------------------------------------------------------------------------
(* What happens to connections and credentials.                            *)

\* The network or the Agent drops the connection.
Drop(p) ==
  /\ conn[p] = "open"
  /\ Close(p)
  /\ UNCHANGED <<peers, dev, accept, old, valid, watching, mail, call>>

\* A token is revoked, a device disabled, the Relay's kill switch engaged.
RevokePeer(p) ==
  /\ valid[p] /\ conn[p] = "open"
  /\ valid' = [valid EXCEPT ![p] = FALSE]
  /\ UNCHANGED <<peers, dev, accept, old, conn, watching, mail, call>>

\* DisconnectDevice; an Agent that probes with a revoked credential in the map.
DisconnectDevice(d) ==
  /\ peers[d] # None /\ conn[peers[d]] = "open"
  /\ Close(peers[d])
  /\ UNCHANGED <<peers, dev, accept, old, valid, watching, mail, call>>

\* The Agent answers a request id: one it was sent, one it was sent before, or
\* any other.
Respond(p, c) ==
  /\ conn[p] = "open" /\ pc[c] # "none"
  /\ inbox' = [inbox EXCEPT ![p] = @ \cup {c}]
  /\ UNCHANGED <<link, handing, call>>

-----------------------------------------------------------------------------
(* readLoop.                                                               *)

\* Variant: the id is looked up among the calls of every peer.
MatchAnywhere(p, c) ==
  /\ accept[p] = "reading" /\ conn[p] = "open" /\ handing[p] = None
  /\ c \in inbox[p]
  /\ inbox' = [inbox EXCEPT ![p] = @ \ {c}]
  /\ handing' = [handing EXCEPT ![p] = IF \E q \in Peer : c \in pending[q] THEN c ELSE None]
  /\ UNCHANGED <<link, call>>

\* The id is looked up under the lock of pending ...
Match(p, c) ==
  /\ accept[p] = "reading" /\ conn[p] = "open" /\ handing[p] = None
  /\ c \in inbox[p]
  /\ inbox' = [inbox EXCEPT ![p] = @ \ {c}]
  /\ handing' = [handing EXCEPT ![p] = IF c \in pending[p] THEN c ELSE None]
  /\ UNCHANGED <<link, call>>

\* ... and the response is sent after it, to a channel that holds one.
Hand(p) ==
  /\ handing[p] # None
  /\ handing' = [handing EXCEPT ![p] = None]
  /\ answer' = [answer EXCEPT ![handing[p]] =
                  IF @ = None THEN p ELSE @]
  /\ UNCHANGED <<link, inbox, pc, target, allowed, slots, pending>>

-----------------------------------------------------------------------------
(* Call.                                                                   *)

\* The caller's token is revoked.
RevokeCaller(c) ==
  /\ allowed[c] /\ pc[c] \notin Ended
  /\ allowed' = [allowed EXCEPT ![c] = FALSE]
  /\ UNCHANGED <<link, mail, pc, target, answer, slots, pending>>

Goes(c, to) == pc' = [pc EXCEPT ![c] = to]

\* Variant: an early return keeps the slot.
EndHolding(c, outcome) ==
  /\ Goes(c, outcome)
  /\ UNCHANGED slots
  /\ pending' = IF pc[c] \in Waiting
                  THEN [pending EXCEPT ![target[c]] = @ \ {c}] ELSE pending
  /\ UNCHANGED <<target, allowed, answer>>

\* Call returns: its deferred functions remove the entry and return the slot.
End(c, outcome) ==
  /\ Goes(c, outcome)
  /\ slots' = IF pc[c] \in Holding THEN slots - 1 ELSE slots
  /\ pending' = IF pc[c] \in Waiting
                  THEN [pending EXCEPT ![target[c]] = @ \ {c}] ELSE pending
  /\ UNCHANGED <<target, allowed, answer>>

Lookup(c, d) ==
  /\ pc[c] = "none"
  /\ IF peers[d] = None
       THEN End(c, "error")
       ELSE /\ Goes(c, "found") /\ target' = [target EXCEPT ![c] = peers[d]]
            /\ UNCHANGED <<allowed, answer, slots, pending>>
  /\ UNCHANGED <<link, mail>>

\* The caller is revalidated, then the peer, which is closed if it is refused.
CheckCaller(c) ==
  /\ pc[c] = "found" /\ ~allowed[c]
  /\ End(c, "error")
  /\ UNCHANGED <<link, mail>>

RefusePeer(c) ==
  /\ ~valid[target[c]]
  /\ End(c, "error") /\ Close(target[c])
  /\ UNCHANGED <<peers, dev, accept, old, valid, watching, mail>>

CheckPeer(c) ==
  /\ pc[c] = "found" /\ allowed[c]
  /\ \/ RefusePeer(c)
     \/ /\ valid[target[c]]
        /\ Goes(c, "checked")
        /\ UNCHANGED <<target, allowed, answer, slots, pending, link, mail>>

AcquireSlot(c) ==
  /\ pc[c] = "checked" /\ slots < MaxCalls
  /\ Goes(c, "slot") /\ slots' = slots + 1
  /\ UNCHANGED <<target, allowed, answer, pending, link, mail>>

Register(c) ==
  /\ pc[c] = "slot"
  /\ Goes(c, "pending")
  /\ pending' = [pending EXCEPT ![target[c]] = @ \cup {c}]
  /\ UNCHANGED <<target, allowed, answer, slots, link, mail>>

\* The caller is looked at once more before the request is written.
Send(c) ==
  /\ pc[c] = "pending"
  /\ IF allowed[c] /\ conn[target[c]] = "open"
       THEN Goes(c, "sent") /\ UNCHANGED <<target, allowed, answer, slots, pending>>
       ELSE End(c, "error")
  /\ UNCHANGED <<link, mail>>

TakeAnswer(c) ==
  /\ pc[c] = "sent" /\ answer[c] # None
  /\ End(c, "result")
  /\ UNCHANGED <<link, mail>>

\* Variant: while the call waits only the peer is revalidated.
RevalidatePeer(c) ==
  /\ pc[c] = "sent"
  /\ RefusePeer(c)

\* The 250 ms ticker.
Revalidate(c) ==
  /\ pc[c] = "sent"
  /\ \/ ~allowed[c] /\ End(c, "error") /\ UNCHANGED <<link, mail>>
     \/ allowed[c] /\ RefusePeer(c)

PeerDone(c) ==
  /\ pc[c] = "sent" /\ conn[target[c]] = "closed"
  /\ End(c, "error")
  /\ UNCHANGED <<link, mail>>

\* Two minutes are over, or the MCP client is gone.  The checks do not look at
\* the context.
Expire(c) ==
  /\ pc[c] \in {"checked", "pending", "sent"}
  /\ End(c, "error")
  /\ UNCHANGED <<link, mail>>

-----------------------------------------------------------------------------
AcceptStep(p) == Authorize(p) \/ Insert(p) \/ Serve(p)
ReadStep(p) == (\E c \in CallId : Match(p, c)) \/ Hand(p) \/ Remove(p)
CallStep(c) ==
  \/ CheckCaller(c) \/ CheckPeer(c) \/ AcquireSlot(c) \/ Register(c) \/ Send(c)
  \/ TakeAnswer(c) \/ Revalidate(c) \/ PeerDone(c)

\* Every connection was made and every call has returned.
Done ==
  /\ \A p \in Peer : accept[p] # "none" /\ conn[p] # "open"
  /\ \A c \in CallId : pc[c] \in Ended
  /\ UNCHANGED brokerVars

BrokerNext ==
  \/ \E p \in Peer :
       \/ \E d \in Device : Admit(p, d)
       \/ AcceptStep(p) \/ WatchPeer(p) \/ ReadStep(p)
       \/ Drop(p) \/ RevokePeer(p) \/ \E c \in CallId : Respond(p, c)
  \/ \E d \in Device : DisconnectDevice(d)
  \/ \E c \in CallId :
       \/ RevokeCaller(c) \/ Expire(c) \/ CallStep(c)
       \/ \E d \in Device : Lookup(c, d)
  \/ Done

BrokerSpec == BrokerInit /\ [][BrokerNext]_brokerVars

-----------------------------------------------------------------------------
\* A call returns only what the Agent connection it asked has sent for it, even
\* though any connection may send any id, twice or after the call has ended.
AnswerIsFromTarget ==
  \A c \in CallId : answer[c] # None => answer[c] = target[c]

\* The slots count the calls that hold one, and the ids waiting at a peer are
\* those of the calls that wait for it: nothing of an ended call is left behind.
NothingLeftBehind ==
  /\ BrokerTypeOK
  /\ slots = Cardinality({c \in CallId : pc[c] \in Holding})
  /\ \A p \in Peer : pending[p] = {c \in CallId : target[c] = p /\ pc[c] \in Waiting}

\* A served connection that is open is the one its device's calls go to, except
\* while the connection that replaced it is about to close it.
NoConnectionBeside ==
  \A p \in Peer :
    accept[p] = "reading" /\ conn[p] = "open" /\ peers[dev[p]] # p
      => \E q \in Peer : accept[q] = "inserted" /\ old[q] = p

\* The end of a connection never unplugs the one that replaced it.
OpenPeerIsKept ==
  [][\A d \in Device : peers[d] # None /\ conn[peers[d]] = "open" => peers'[d] # None]_brokerVars

\* A call is admitted when its peer has been revalidated, and out once it is sent.
StageAt(at) ==
  CASE at \in {"none", "found"} -> "new"
    [] at \in {"checked", "slot", "pending"} -> "admitted"
    [] at = "sent" -> "out"
    [] OTHER -> at

Remote == INSTANCE RemoteCalls
  WITH Agent <- Peer, Limit <- MaxCalls, of <- dev, trusted <- valid, permitted <- allowed,
       stage <- [c \in CallId |-> StageAt(pc[c])], asked <- target

\* The broker keeps what RemoteCalls promises: an answer comes from the connection
\* that was asked, which never changes its device; no request goes out beside the
\* limit or for a caller that lost its authorization before the last look.
ImplementsRemoteCalls == Remote!Spec

\* A revoked credential closes its connection, idle or not, and with it every
\* call that is under way to the device.
RevocationCloses ==
  \A p \in Peer : ~valid[p] ~> /\ conn[p] = "closed"
                               /\ \A c \in CallId : target[c] = p => pc[c] \in Ended

\* A caller that lost its authorization is answered, whatever the Agent does.
RevokedCallerEnds == \A c \in CallId : ~allowed[c] /\ pc[c] # "none" ~> pc[c] \in Ended

\* A closed connection leaves the map, so the device is reported offline.
ClosedPeerLeaves ==
  \A p \in Peer : conn[p] = "closed" ~> accept[p] = "gone" /\ peers[dev[p]] # p
=============================================================================
