----------------------------- MODULE BrokerProof -----------------------------
(***************************************************************************)
(* The broker, for every set of devices, connections and calls and every    *)
(* limit.  A call and its connection are tied together by three tables that *)
(* are written under different locks (pending, the map of peers, callSlots) *)
(* and by a response that is held outside all of them.                      *)
(***************************************************************************)
EXTENDS Broker, FiniteSetTheorems, TLAPS

\* The calls that hold a slot, and those that wait at a peer.
Holders    == {c \in CallId : pc[c] \in Holding}
WaitingAt(p) == {c \in CallId : target[c] = p /\ pc[c] \in Waiting}

\* A connection is in the map from its insertion to its removal, and only under
\* the device it was made for.
MapInv ==
  /\ \A p \in Peer : accept[p] # "none" => dev[p] \in Device
  /\ \A d \in Device : peers[d] \in Peer =>
       dev[peers[d]] = d /\ accept[peers[d]] \in {"inserted", "reading"}

\* A connection that was inserted and is open is in the map or about to be closed
\* by the one that replaced it: NoConnectionBeside before readLoop runs, too.
BesideInv ==
  \A p \in Peer :
    accept[p] \in {"inserted", "reading"} /\ conn[p] = "open" /\ peers[dev[p]] # p
      => \E q \in Peer : accept[q] = "inserted" /\ old[q] = p

\* A call has a target once it was found, and keeps it; a response that readLoop
\* has matched, or handed over, is for a call that was made to this very peer.
MailInv ==
  /\ \A c \in CallId : /\ pc[c] = "none" => target[c] = None
                       /\ pc[c] \in {"found", "checked"} \cup Holding => target[c] \in Peer
  /\ \A p \in Peer : handing[p] \in CallId => target[handing[p]] = p
  /\ AnswerIsFromTarget

\* What a call has taken, it holds.
SlotInv == IsFiniteSet(Holders) /\ slots = Cardinality(Holders)

PendingInv == \A p \in Peer : pending[p] = WaitingAt(p)

BrokerInv == BrokerTypeOK /\ MapInv /\ BesideInv /\ MailInv /\ SlotInv /\ PendingInv

USE CapacityAssumption, NoneAssumption DEF Holding, Waiting, Ended

-----------------------------------------------------------------------------
(* Initially.                                                              *)

\* Nobody is connected and no call is made.
LEMMA BrokerInitially == BrokerInit => BrokerInv
<1> SUFFICES ASSUME BrokerInit PROVE BrokerInv
  OBVIOUS
<1> USE DEF BrokerInit
<1>1. BrokerTypeOK
  BY DEF BrokerTypeOK
<1>2. MapInv /\ BesideInv
  BY DEF MapInv, BesideInv
<1>3. MailInv /\ PendingInv
  BY DEF MailInv, AnswerIsFromTarget, PendingInv, WaitingAt
<1>4. SlotInv
  <2>1. Holders = {}
    BY DEF Holders
  <2> QED BY <2>1, FS_EmptySet DEF SlotInv
<1> QED BY <1>1, <1>2, <1>3, <1>4 DEF BrokerInv

-----------------------------------------------------------------------------
(* Connections.                                                            *)

\* What acceptAgent, readLoop and the watcher do to the map of peers: a step of a
\* call, a response or a revocation leaves it alone or closes a connection.
LEMMA MapKept == BrokerInv /\ [BrokerNext]_brokerVars => MapInv' /\ BesideInv'
<1> SUFFICES ASSUME BrokerInv, [BrokerNext]_brokerVars PROVE MapInv' /\ BesideInv'
  OBVIOUS
<1> USE DEF BrokerInv, BrokerTypeOK, MapInv, BesideInv
<1> DEFINE OnlyCloses == /\ UNCHANGED <<peers, dev, accept, old>>
                         /\ \/ UNCHANGED conn
                            \/ \E p \in Peer : conn' = [conn EXCEPT ![p] = "closed"]
<1>1. ASSUME NEW p \in Peer, NEW d \in Device, Admit(p, d) PROVE MapInv' /\ BesideInv'
  BY <1>1 DEF Admit
<1>2. ASSUME NEW p \in Peer, Authorize(p) PROVE MapInv' /\ BesideInv'
  BY <1>2 DEF Authorize, Close
<1>3. ASSUME NEW p \in Peer, Insert(p) PROVE MapInv' /\ BesideInv'
  BY <1>3 DEF Insert
<1>4. ASSUME NEW p \in Peer, Serve(p) PROVE MapInv' /\ BesideInv'
  BY <1>4 DEF Serve, Close
<1>5. ASSUME NEW p \in Peer, Remove(p) PROVE MapInv' /\ BesideInv'
  BY <1>5 DEF Remove
<1>6. CASE OnlyCloses
  BY <1>6
<1>7. ASSUME NEW p \in Peer,
             \/ WatchPeer(p) \/ Drop(p) \/ RevokePeer(p) \/ Hand(p)
             \/ \E c \in CallId : Match(p, c) \/ Respond(p, c)
      PROVE  OnlyCloses
  BY <1>7 DEF WatchPeer, Drop, RevokePeer, Hand, Match, Respond, Close, link
<1>8. ASSUME NEW d \in Device, DisconnectDevice(d) PROVE OnlyCloses
  <2>1. peers[d] \in Peer /\ conn' = [conn EXCEPT ![peers[d]] = "closed"]
    BY <1>8 DEF DisconnectDevice, Close
  <2> QED BY <1>8, <2>1 DEF DisconnectDevice
<1>9. ASSUME NEW c \in CallId,
             RevokeCaller(c) \/ Expire(c) \/ CallStep(c) \/ \E d \in Device : Lookup(c, d)
      PROVE  OnlyCloses
  <2>1. CASE CheckPeer(c) \/ Revalidate(c)
    <3>1. target[c] \in Peer
      BY <2>1 DEF CheckPeer, Revalidate, MailInv
    <3> QED BY <2>1, <3>1 DEF CheckPeer, Revalidate, RefusePeer, Close, link
  <2>2. CASE CheckCaller(c) \/ AcquireSlot(c) \/ Register(c) \/ Send(c) \/ TakeAnswer(c) \/ PeerDone(c)
    BY <2>2 DEF CheckCaller, AcquireSlot, Register, Send, TakeAnswer, PeerDone, link
  <2>3. CASE RevokeCaller(c) \/ Expire(c) \/ \E d \in Device : Lookup(c, d)
    BY <2>3 DEF RevokeCaller, Expire, Lookup, link
  <2> QED BY <1>9, <2>1, <2>2, <2>3 DEF CallStep
<1>10. CASE Done \/ UNCHANGED brokerVars
  BY <1>10 DEF Done, brokerVars, link
<1> QED
  BY <1>1, <1>2, <1>3, <1>4, <1>5, <1>6, <1>7, <1>8, <1>9, <1>10
  DEF BrokerNext, AcceptStep, ReadStep

-----------------------------------------------------------------------------
(* Calls.                                                                  *)

\* A call that takes a slot is one more holder; one that ends is one less, if it
\* held a slot at all.
LEMMA HoldersChange ==
  ASSUME BrokerInv, NEW c \in CallId, NEW to, pc' = [pc EXCEPT ![c] = to]
  PROVE  /\ IsFiniteSet(Holders')
         /\ to \in Holding /\ pc[c] \notin Holding => Cardinality(Holders') = slots + 1
         /\ to \notin Holding /\ pc[c] \in Holding => Cardinality(Holders') = slots - 1
         /\ (to \in Holding <=> pc[c] \in Holding) => Cardinality(Holders') = slots
<1> USE DEF BrokerInv
<1>1. IsFiniteSet(Holders) /\ slots = Cardinality(Holders)
  BY DEF SlotInv
<1>2. CASE to \in Holding
  <2>1. Holders' = Holders \cup {c}
    BY <1>2 DEF Holders, BrokerTypeOK
  <2>2. c \in Holders <=> pc[c] \in Holding
    BY DEF Holders
  <2> QED BY <1>1, <1>2, <2>1, <2>2, FS_AddElement
<1>3. CASE to \notin Holding
  <2>1. Holders' = Holders \ {c}
    BY <1>3 DEF Holders, BrokerTypeOK
  <2>2. c \in Holders <=> pc[c] \in Holding
    BY DEF Holders
  <2> QED BY <1>1, <1>3, <2>1, <2>2, FS_RemoveElement
<1> QED BY <1>2, <1>3

\* A call that ends, however it ends, removes what it left at its peer and in the
\* slots and nothing else.
LEMMA EndKeeps ==
  ASSUME BrokerInv, NEW c \in CallId, NEW o \in Ended, End(c, o), UNCHANGED handing
  PROVE  MailInv' /\ SlotInv' /\ PendingInv' /\ slots' \in 0..MaxCalls
<1> USE DEF BrokerInv, BrokerTypeOK
<1>1. pc' = [pc EXCEPT ![c] = o] /\ UNCHANGED <<target, allowed, answer>>
  BY DEF End, Goes
<1>2. MailInv'
  BY <1>1 DEF MailInv, AnswerIsFromTarget
<1>3. SlotInv' /\ slots' \in 0..MaxCalls
  <2>1. slots' = Cardinality(Holders') /\ IsFiniteSet(Holders')
    BY <1>1, HoldersChange DEF End
  <2>2. slots' \in Nat
    BY <2>1, FS_CardinalityType
  <2> QED BY <2>1, <2>2 DEF SlotInv, End
<1>4. PendingInv'
  <2> SUFFICES ASSUME NEW p \in Peer PROVE pending'[p] = WaitingAt(p)'
    BY DEF PendingInv
  <2>1. pending[p] = WaitingAt(p)
    BY DEF PendingInv
  <2>2. CASE pc[c] \in Waiting /\ target[c] = p
    <3>1. pending'[p] = pending[p] \ {c}
      BY <2>2 DEF End
    <3> QED BY <1>1, <2>1, <2>2, <3>1 DEF WaitingAt
  <2>3. CASE ~(pc[c] \in Waiting /\ target[c] = p)
    <3>1. pending'[p] = pending[p]
      BY <2>3 DEF End
    <3> QED BY <1>1, <2>1, <2>3, <3>1 DEF WaitingAt
  <2> QED BY <2>2, <2>3
<1> QED BY <1>2, <1>3, <1>4

\* A call that goes on without a slot or an entry of its own keeps the tables.
LEMMA GoesKeeps ==
  ASSUME BrokerInv, NEW c \in CallId, NEW to \in {"found", "checked", "sent"}, Goes(c, to),
         to = "sent" <=> pc[c] = "pending",
         to # "sent" => pc[c] \in {"none", "found"} /\ target'[c] \in Peer,
         \/ UNCHANGED target
         \/ pc[c] = "none" /\ \E p \in Peer : target' = [target EXCEPT ![c] = p],
         UNCHANGED <<answer, slots, pending, handing>>
  PROVE  MailInv' /\ SlotInv' /\ PendingInv'
<1> USE DEF BrokerInv, BrokerTypeOK
<1>1. pc' = [pc EXCEPT ![c] = to]
  BY DEF Goes
<1>2. \A e \in CallId \ {c} : target'[e] = target[e] /\ pc'[e] = pc[e]
  BY <1>1
<1>3. MailInv'
  BY <1>1, <1>2 DEF MailInv, AnswerIsFromTarget
<1>4. SlotInv'
  BY <1>1, HoldersChange DEF SlotInv
<1>5. PendingInv'
  BY <1>1, <1>2 DEF PendingInv, WaitingAt, MailInv
<1> QED BY <1>3, <1>4, <1>5

\* What a step of Call, of readLoop or of the caller does to the mail and the tables.
LEMMA CallsKept ==
  BrokerInv /\ [BrokerNext]_brokerVars
    => MailInv' /\ SlotInv' /\ PendingInv' /\ slots' \in 0..MaxCalls
<1> SUFFICES ASSUME BrokerInv, [BrokerNext]_brokerVars
             PROVE  MailInv' /\ SlotInv' /\ PendingInv' /\ slots' \in 0..MaxCalls
  OBVIOUS
<1> USE DEF BrokerInv
<1> DEFINE Kept == MailInv' /\ SlotInv' /\ PendingInv' /\ slots' \in 0..MaxCalls
<1>1. ASSUME UNCHANGED <<handing, pc, target, answer, slots, pending>> PROVE Kept
  BY <1>1 DEF MailInv, AnswerIsFromTarget, SlotInv, Holders, PendingInv, WaitingAt, BrokerTypeOK
<1>2. ASSUME NEW p \in Peer, NEW c \in CallId, Match(p, c) PROVE Kept
  <2>1. UNCHANGED <<pc, target, answer, slots, pending>>
    BY <1>2 DEF Match, call
  <2>2. handing' = [handing EXCEPT ![p] = IF c \in pending[p] THEN c ELSE None]
    BY <1>2 DEF Match
  <2>3. c \in pending[p] => target[c] = p
    BY DEF PendingInv, WaitingAt
  <2>4. MailInv'
    BY <2>1, <2>2, <2>3 DEF MailInv, AnswerIsFromTarget, BrokerTypeOK
  <2> QED BY <2>1, <2>4 DEF SlotInv, Holders, PendingInv, WaitingAt, BrokerTypeOK
<1>3. ASSUME NEW p \in Peer, Hand(p) PROVE Kept
  <2>1. UNCHANGED <<pc, target, slots, pending>>
    BY <1>3 DEF Hand
  <2>2. MailInv'
    BY <1>3, <2>1 DEF Hand, MailInv, AnswerIsFromTarget, BrokerTypeOK
  <2> QED BY <2>1, <2>2 DEF SlotInv, Holders, PendingInv, WaitingAt, BrokerTypeOK
<1>4. ASSUME NEW p \in Peer,
             \/ \E d \in Device : Admit(p, d)
             \/ Authorize(p) \/ Insert(p) \/ Serve(p) \/ WatchPeer(p) \/ Drop(p) \/ RevokePeer(p)
             \/ Remove(p) \/ \E c \in CallId : Respond(p, c)
      PROVE  Kept
  BY <1>1, <1>4
  DEF Admit, Authorize, Insert, Serve, WatchPeer, Drop, RevokePeer, Remove, Respond, mail, call
<1>5. ASSUME NEW d \in Device, DisconnectDevice(d) PROVE Kept
  BY <1>1, <1>5 DEF DisconnectDevice, mail, call
<1>6. ASSUME NEW c \in CallId, NEW o \in Ended, End(c, o), UNCHANGED handing PROVE Kept
  BY <1>6, EndKeeps
<1>7. ASSUME NEW c \in CallId, RevokeCaller(c) PROVE Kept
  BY <1>1, <1>7 DEF RevokeCaller, mail
<1>8. ASSUME NEW c \in CallId, NEW d \in Device, Lookup(c, d) PROVE Kept
  <2>1. CASE peers[d] = None
    BY <1>6, <1>8, <2>1 DEF Lookup, mail
  <2>2. CASE peers[d] # None
    <3>1. peers[d] \in Peer /\ slots \in 0..MaxCalls
      BY <2>2 DEF BrokerTypeOK
    <3>2. /\ pc[c] = "none" /\ Goes(c, "found") /\ target' = [target EXCEPT ![c] = peers[d]]
          /\ UNCHANGED <<answer, slots, pending, handing>>
      BY <1>8, <2>2 DEF Lookup, mail
    <3>3. target'[c] \in Peer
      BY <3>1, <3>2 DEF BrokerTypeOK
    <3> QED BY <3>1, <3>2, <3>3, GoesKeeps
  <2> QED BY <2>1, <2>2
<1>9. ASSUME NEW c \in CallId, CheckCaller(c) \/ TakeAnswer(c) \/ PeerDone(c) \/ Expire(c)
             \/ Revalidate(c)
      PROVE  Kept
  <2>1. UNCHANGED handing
    BY <1>9 DEF CheckCaller, TakeAnswer, PeerDone, Expire, Revalidate, RefusePeer, mail
  <2>2. End(c, "result") \/ End(c, "error")
    BY <1>9, Zenon DEF CheckCaller, TakeAnswer, PeerDone, Expire, Revalidate, RefusePeer
  <2>3. "result" \in Ended /\ "error" \in Ended
    OBVIOUS
  <2> QED BY <1>6, <2>1, <2>2, <2>3
<1>10. ASSUME NEW c \in CallId, CheckPeer(c) PROVE Kept
  <2>1. CASE RefusePeer(c)
    BY <1>6, <2>1 DEF RefusePeer, mail
  <2>2. CASE ~RefusePeer(c)
    <3>1. /\ pc[c] = "found" /\ Goes(c, "checked")
          /\ UNCHANGED <<target, answer, slots, pending, handing>>
      BY <1>10, <2>2 DEF CheckPeer, mail
    <3>2. target'[c] \in Peer /\ slots' \in 0..MaxCalls
      BY <3>1 DEF MailInv, BrokerTypeOK
    <3> QED BY <3>1, <3>2, GoesKeeps
  <2> QED BY <2>1, <2>2
<1>11. ASSUME NEW c \in CallId, AcquireSlot(c) PROVE Kept
  <2>1. /\ pc[c] = "checked" /\ slots < MaxCalls /\ slots' = slots + 1
        /\ pc' = [pc EXCEPT ![c] = "slot"] /\ UNCHANGED <<target, answer, pending, handing>>
    BY <1>11 DEF AcquireSlot, Goes, mail
  <2>2. SlotInv' /\ slots' \in 0..MaxCalls
    <3>1. IsFiniteSet(Holders') /\ Cardinality(Holders') = slots + 1
      BY <2>1, HoldersChange
    <3> QED BY <2>1, <3>1 DEF SlotInv, BrokerTypeOK
  <2>3. MailInv'
    BY <2>1 DEF MailInv, AnswerIsFromTarget, BrokerTypeOK
  <2>4. PendingInv'
    BY <2>1 DEF PendingInv, WaitingAt, BrokerTypeOK
  <2> QED BY <2>2, <2>3, <2>4
<1>12. ASSUME NEW c \in CallId, Register(c) PROVE Kept
  <2>1. /\ pc[c] = "slot" /\ pc' = [pc EXCEPT ![c] = "pending"]
        /\ pending' = [pending EXCEPT ![target[c]] = @ \cup {c}]
        /\ UNCHANGED <<target, answer, slots, handing>>
    BY <1>12 DEF Register, Goes, mail
  <2>2. SlotInv' /\ slots' \in 0..MaxCalls
    BY <2>1, HoldersChange DEF SlotInv, BrokerTypeOK
  <2>3. MailInv'
    BY <2>1 DEF MailInv, AnswerIsFromTarget, BrokerTypeOK
  <2>4. PendingInv'
    <3> SUFFICES ASSUME NEW p \in Peer PROVE pending'[p] = WaitingAt(p)'
      BY DEF PendingInv
    <3>1. pending[p] = WaitingAt(p)
      BY DEF PendingInv
    <3>2. CASE target[c] = p
      BY <2>1, <3>1, <3>2 DEF WaitingAt, BrokerTypeOK
    <3>3. CASE target[c] # p
      BY <2>1, <3>1, <3>3 DEF WaitingAt, BrokerTypeOK
    <3> QED BY <3>2, <3>3
  <2> QED BY <2>2, <2>3, <2>4
<1>13. ASSUME NEW c \in CallId, Send(c) PROVE Kept
  <2>1. CASE allowed[c] /\ conn[target[c]] = "open"
    <3>1. /\ pc[c] = "pending" /\ Goes(c, "sent")
          /\ UNCHANGED <<target, answer, slots, pending, handing>>
      BY <1>13, <2>1 DEF Send, mail
    <3> QED BY <3>1, GoesKeeps DEF BrokerTypeOK
  <2>2. CASE ~(allowed[c] /\ conn[target[c]] = "open")
    BY <1>6, <1>13, <2>2 DEF Send, mail
  <2> QED BY <2>1, <2>2
<1>14. CASE Done \/ UNCHANGED brokerVars
  BY <1>1, <1>14 DEF Done, brokerVars, mail, call
<1> QED
  BY <1>2, <1>3, <1>4, <1>5, <1>7, <1>8, <1>9, <1>10, <1>11, <1>12, <1>13, <1>14
  DEF BrokerNext, AcceptStep, ReadStep, CallStep

-----------------------------------------------------------------------------
(* The invariant.                                                          *)

\* Each action writes values of the right kind.
LEMMA TypesKept == BrokerInv /\ [BrokerNext]_brokerVars => BrokerTypeOK'
<1> SUFFICES ASSUME BrokerInv, [BrokerNext]_brokerVars PROVE BrokerTypeOK'
  OBVIOUS
<1> USE DEF BrokerInv, BrokerTypeOK
<1>0. slots' \in 0..MaxCalls
  BY CallsKept
<1> DEFINE Links == /\ peers \in [Device -> Peer \cup {None}] /\ dev \in [Peer -> Device \cup {None}]
                    /\ accept \in [Peer -> {"none", "admitted", "authorized", "inserted", "reading", "gone"}]
                    /\ old \in [Peer -> Peer \cup {None}]
                    /\ conn \in [Peer -> {"none", "open", "closed"}]
           Guards == valid \in [Peer -> BOOLEAN] /\ allowed \in [CallId -> BOOLEAN]
           Mails == /\ watching \subseteq Peer
                    /\ inbox \in [Peer -> SUBSET CallId] /\ handing \in [Peer -> CallId \cup {None}]
           Calls == /\ pending \in [Peer -> SUBSET CallId]
                    /\ pc \in [CallId -> {"none", "found", "checked"} \cup Holding \cup Ended]
                    /\ target \in [CallId -> Peer \cup {None}] /\ answer \in [CallId -> Peer \cup {None}]
<1> SUFFICES Links' /\ Guards' /\ Mails' /\ Calls'
  BY <1>0
<1>1. ASSUME NEW p \in Peer, NEW d \in Device, Admit(p, d) PROVE Links' /\ Mails' /\ Calls'
  BY <1>1 DEF Admit, mail, call
<1>2. ASSUME NEW p \in Peer, Authorize(p) PROVE Links' /\ Mails' /\ Calls'
  BY <1>2 DEF Authorize, Close, mail, call
<1>3. ASSUME NEW p \in Peer, Insert(p) PROVE Links' /\ Mails' /\ Calls'
  BY <1>3 DEF Insert, MapInv, mail, call
<1>4. ASSUME NEW p \in Peer, Serve(p) PROVE Links' /\ Mails' /\ Calls'
  BY <1>4 DEF Serve, Close, mail, call
<1>5. ASSUME NEW p \in Peer, Remove(p) PROVE Links' /\ Mails' /\ Calls'
  BY <1>5 DEF Remove, call
<1>6. ASSUME NEW p \in Peer, WatchPeer(p) \/ Drop(p) \/ RevokePeer(p) PROVE Links' /\ Mails' /\ Calls'
  BY <1>6 DEF WatchPeer, Drop, RevokePeer, Close, mail, call
<1>7. ASSUME NEW p \in Peer, NEW c \in CallId, Respond(p, c) \/ Match(p, c)
      PROVE  Links' /\ Mails' /\ Calls'
  BY <1>7 DEF Respond, Match, link, call
<1>8. ASSUME NEW p \in Peer, Hand(p) PROVE Links' /\ Mails' /\ Calls'
  BY <1>8 DEF Hand, link
<1>9. ASSUME NEW d \in Device, DisconnectDevice(d) PROVE Links' /\ Mails' /\ Calls'
  BY <1>9 DEF DisconnectDevice, Close, mail, call
<1>10. ASSUME NEW c \in CallId, NEW o \in Ended, End(c, o) PROVE Calls'
  <2>1. pc[c] \in Waiting => target[c] \in Peer
    BY DEF MailInv
  <2> QED BY <1>10, <2>1 DEF End, Goes
<1>11. ASSUME NEW c \in CallId, NEW d \in Device, Lookup(c, d) PROVE Links' /\ Mails' /\ Calls'
  <2>1. Links' /\ Mails'
    BY <1>11 DEF Lookup, link, mail
  <2>2. CASE peers[d] = None
    BY <1>10, <1>11, <2>1, <2>2 DEF Lookup
  <2>3. CASE peers[d] # None
    <3>1. pc' = [pc EXCEPT ![c] = "found"] /\ target' = [target EXCEPT ![c] = peers[d]]
      BY <1>11, <2>3, Zenon DEF Lookup, Goes
    <3>2. UNCHANGED <<pending, answer>>
      BY <1>11, <2>3, Zenon DEF Lookup
    <3>3. peers[d] \in Peer
      BY <2>3
    <3> QED BY <2>1, <3>1, <3>2, <3>3
  <2> QED BY <2>2, <2>3
<1>12. ASSUME NEW c \in CallId, RefusePeer(c) PROVE Links' /\ Mails' /\ Calls'
  BY <1>10, <1>12 DEF RefusePeer, Close, mail
<1>13. ASSUME NEW c \in CallId, CheckCaller(c) \/ TakeAnswer(c) \/ PeerDone(c) \/ Expire(c)
       PROVE  Links' /\ Mails' /\ Calls'
  <2>1. Links' /\ Mails'
    BY <1>13 DEF CheckCaller, TakeAnswer, PeerDone, Expire, link, mail
  <2>2. End(c, "result") \/ End(c, "error")
    BY <1>13, Zenon DEF CheckCaller, TakeAnswer, PeerDone, Expire
  <2> QED BY <1>10, <2>1, <2>2
<1>14. ASSUME NEW c \in CallId, Revalidate(c) PROVE Links' /\ Mails' /\ Calls'
  <2>1. CASE RefusePeer(c)
    BY <1>12, <2>1
  <2>2. CASE End(c, "error") /\ UNCHANGED <<link, mail>>
    BY <1>10, <2>2 DEF link, mail
  <2> QED BY <1>14, <2>1, <2>2 DEF Revalidate
<1>15. ASSUME NEW c \in CallId, CheckPeer(c) PROVE Links' /\ Mails' /\ Calls'
  <2>1. CASE RefusePeer(c)
    BY <1>12, <2>1
  <2>2. CASE Goes(c, "checked") /\ UNCHANGED <<target, answer, pending, link, mail>>
    BY <2>2 DEF Goes, link, mail
  <2> QED BY <1>15, <2>1, <2>2 DEF CheckPeer
<1>16. ASSUME NEW c \in CallId, Send(c) PROVE Links' /\ Mails' /\ Calls'
  <2>1. Links' /\ Mails'
    BY <1>16 DEF Send, link, mail
  <2>2. CASE End(c, "error")
    BY <1>10, <2>1, <2>2
  <2>3. CASE Goes(c, "sent") /\ UNCHANGED <<target, answer, pending>>
    BY <2>1, <2>3 DEF Goes
  <2> QED BY <1>16, <2>2, <2>3 DEF Send
<1>17. ASSUME NEW c \in CallId, AcquireSlot(c) \/ Register(c) PROVE Links' /\ Mails' /\ Calls'
  <2>1. pc[c] = "slot" => target[c] \in Peer
    BY DEF MailInv
  <2> QED BY <1>17, <2>1 DEF AcquireSlot, Register, Goes, link, mail
<1>18. ASSUME NEW c \in CallId, RevokeCaller(c) PROVE Links' /\ Mails' /\ Calls'
  BY <1>18 DEF RevokeCaller, link, mail
<1>19. CASE Done \/ UNCHANGED brokerVars
  BY <1>19 DEF Done, brokerVars, link, mail, call
<1>20. Guards'
  <2>1. valid' = valid \/ \E p \in Peer : valid' = [valid EXCEPT ![p] = FALSE]
    <3>1. ASSUME NEW p \in Peer,
                 \/ \E d \in Device : Admit(p, d)
                 \/ AcceptStep(p) \/ WatchPeer(p) \/ ReadStep(p) \/ Drop(p)
                 \/ \E c \in CallId : Respond(p, c)
          PROVE  valid' = valid
      BY <3>1, Zenon
      DEF AcceptStep, ReadStep, Admit, Authorize, Insert, Serve, Remove, WatchPeer, Drop, Respond,
          Match, Hand, link
    <3>2. ASSUME NEW p \in Peer, RevokePeer(p) PROVE valid' = [valid EXCEPT ![p] = FALSE]
      BY <3>2, Zenon DEF RevokePeer
    <3>3. ASSUME NEW d \in Device, DisconnectDevice(d) PROVE valid' = valid
      BY <3>3, Zenon DEF DisconnectDevice
    <3>4. ASSUME NEW c \in CallId,
                 RevokeCaller(c) \/ Expire(c) \/ CallStep(c) \/ \E d \in Device : Lookup(c, d)
          PROVE  valid' = valid
      BY <3>4, Zenon
      DEF CallStep, Lookup, RefusePeer, CheckCaller, TakeAnswer, PeerDone, Expire, Revalidate, CheckPeer,
          Send, AcquireSlot, Register, RevokeCaller, link
    <3>5. CASE Done \/ UNCHANGED brokerVars
      BY <3>5, Zenon DEF Done, brokerVars, link
    <3> QED BY <3>1, <3>2, <3>3, <3>4, <3>5, Zenon DEF BrokerNext
  <2>2. allowed' = allowed \/ \E c \in CallId : allowed' = [allowed EXCEPT ![c] = FALSE]
    <3>1. ASSUME NEW p \in Peer,
                 \/ \E d \in Device : Admit(p, d)
                 \/ AcceptStep(p) \/ WatchPeer(p) \/ ReadStep(p) \/ Drop(p) \/ RevokePeer(p)
                 \/ \E c \in CallId : Respond(p, c)
          PROVE  allowed' = allowed
      BY <3>1, Zenon
      DEF AcceptStep, ReadStep, Admit, Authorize, Insert, Serve, Remove, WatchPeer, Drop, RevokePeer,
          Respond, Match, Hand, call
    <3>2. ASSUME NEW c \in CallId, RevokeCaller(c) PROVE allowed' = [allowed EXCEPT ![c] = FALSE]
      BY <3>2, Zenon DEF RevokeCaller
    <3>3. ASSUME NEW d \in Device, DisconnectDevice(d) PROVE allowed' = allowed
      BY <3>3, Zenon DEF DisconnectDevice, call
    <3>4. ASSUME NEW c \in CallId, Expire(c) \/ CallStep(c) \/ \E d \in Device : Lookup(c, d)
          PROVE  allowed' = allowed
      BY <3>4, Zenon
      DEF CallStep, Lookup, RefusePeer, CheckCaller, TakeAnswer, PeerDone, Expire, Revalidate, CheckPeer,
          Send, AcquireSlot, Register, End
    <3>5. CASE Done \/ UNCHANGED brokerVars
      BY <3>5, Zenon DEF Done, brokerVars, call
    <3> QED BY <3>1, <3>2, <3>3, <3>4, <3>5, Zenon DEF BrokerNext
  <2> QED BY <2>1, <2>2
<1>21. Links' /\ Mails' /\ Calls'
  BY <1>1, <1>2, <1>3, <1>4, <1>5, <1>6, <1>7, <1>8, <1>9, <1>11, <1>13, <1>14, <1>15, <1>16,
     <1>17, <1>18, <1>19
  DEF BrokerNext, AcceptStep, ReadStep, CallStep
<1> QED BY <1>20, <1>21

\* Every state the broker can reach is in the invariant.
LEMMA BrokerInvariant == BrokerSpec => []BrokerInv
<1>1. BrokerInv /\ [BrokerNext]_brokerVars => BrokerInv'
  <2> SUFFICES ASSUME BrokerInv, [BrokerNext]_brokerVars PROVE BrokerInv'
    OBVIOUS
  <2>1. BrokerTypeOK'
    BY TypesKept
  <2>2. MapInv' /\ BesideInv'
    BY MapKept
  <2>3. MailInv' /\ SlotInv' /\ PendingInv'
    BY CallsKept
  <2> QED BY <2>1, <2>2, <2>3 DEF BrokerInv
<1> QED BY BrokerInitially, <1>1, PTL DEF BrokerSpec

-----------------------------------------------------------------------------
(* What the broker promises.                                               *)

\* Broker.Call returns only what the connection it asked has sent for this very
\* call, for any number of connections that answer any id at any time: readLoop
\* matches under the lock of pending, and hands over after it.
THEOREM AnswersAreGenuine == BrokerSpec => []AnswerIsFromTarget
BY BrokerInvariant, PTL DEF BrokerInv, MailInv

\* Whatever way Call returns, its slot of callSlots and its entry in pending are
\* given back, once: the counter equals the calls that hold a slot, and never
\* passes the capacity of the channel.
THEOREM CallsLeaveNothing == BrokerSpec => []NothingLeftBehind
<1>1. BrokerInv => NothingLeftBehind
  BY DEF BrokerInv, SlotInv, PendingInv, Holders, WaitingAt, NothingLeftBehind
<1> QED BY BrokerInvariant, <1>1, PTL

\* acceptAgent and readLoop leave one open connection per device that serves it,
\* and the one it replaced only until it is closed.
THEOREM OneConnectionServes == BrokerSpec => []NoConnectionBeside
<1>1. BrokerInv => NoConnectionBeside
  BY DEF BrokerInv, BesideInv, NoConnectionBeside
<1> QED BY BrokerInvariant, <1>1, PTL

\* No step of the broker takes a device with an open connection off the map: the
\* deferred removal of a readLoop that ends late spares the connection that
\* replaced it.
THEOREM OpenPeerStays == BrokerSpec => OpenPeerIsKept
<1>1. BrokerInv /\ [BrokerNext]_brokerVars
        => [\A d \in Device : peers[d] # None /\ conn[peers[d]] = "open" => peers'[d] # None]_brokerVars
  <2> SUFFICES ASSUME BrokerInv, BrokerNext, NEW d \in Device, peers[d] # None,
                      conn[peers[d]] = "open"
               PROVE  peers'[d] # None
    OBVIOUS
  <2> USE DEF BrokerInv, BrokerTypeOK
  <2>1. ASSUME NEW p \in Peer, Insert(p) PROVE peers'[d] # None
    BY <2>1 DEF Insert
  <2>2. ASSUME NEW p \in Peer, Remove(p) PROVE peers'[d] # None
    BY <2>2 DEF Remove
  <2>3. CASE UNCHANGED peers
    BY <2>3
  <2>4. UNCHANGED peers \/ \E p \in Peer : Insert(p) \/ Remove(p)
    BY Zenon
    DEF BrokerNext, AcceptStep, ReadStep, CallStep, Admit, Authorize, Serve, WatchPeer, Drop,
        RevokePeer, Respond, Match, Hand, DisconnectDevice, Lookup, RefusePeer, CheckCaller,
        TakeAnswer, PeerDone, Expire, Revalidate, CheckPeer, Send, AcquireSlot, Register,
        RevokeCaller, Done, brokerVars, link
  <2> QED BY <2>1, <2>2, <2>3, <2>4
<1> QED BY BrokerInvariant, <1>1, PTL DEF BrokerSpec, OpenPeerIsKept

-----------------------------------------------------------------------------
(* The broker implements RemoteCalls.                                      *)

\* A connection has no device before it is accepted, and readLoop holds a response
\* only for a call that went past its checks.
EarlyInv ==
  /\ \A p \in Peer : accept[p] = "none" => dev[p] = None
  /\ \A p \in Peer : handing[p] \in CallId => pc[handing[p]] \notin {"none", "found"}

\* What a call is to its caller at each point of Call.
LEMMA StagesAre ==
  /\ \A at \in {"none", "found"} : StageAt(at) = "new"
  /\ \A at \in {"checked", "slot", "pending"} : StageAt(at) = "admitted"
  /\ StageAt("sent") = "out"
  /\ \A at \in {"result", "error"} : StageAt(at) = at
BY DEF StageAt

\* One call moves on.
LEMMA StageMoves ==
  ASSUME BrokerTypeOK, NEW c \in CallId, NEW to, pc' = [pc EXCEPT ![c] = to]
  PROVE  /\ [e \in CallId |-> StageAt(pc'[e])] = [[e \in CallId |-> StageAt(pc[e])] EXCEPT ![c] = StageAt(to)]
         /\ StageAt(to) = StageAt(pc[c]) =>
              [e \in CallId |-> StageAt(pc'[e])] = [e \in CallId |-> StageAt(pc[e])]
<1>1. pc \in [CallId -> {"none", "found", "checked"} \cup Holding \cup Ended]
  BY DEF BrokerTypeOK
<1>2. pc'[c] = to /\ \A e \in CallId \ {c} : pc'[e] = pc[e]
  BY <1>1
<1> DEFINE Before == [e \in CallId |-> StageAt(pc[e])]
           After  == [e \in CallId |-> StageAt(pc'[e])]
<1>3. After[c] = StageAt(to) /\ \A e \in CallId \ {c} : After[e] = Before[e]
  BY <1>2
<1>4. Before[c] = StageAt(pc[c])
  OBVIOUS
<1> HIDE DEF Before, After
<1>5. Before = [e \in CallId |-> Before[e]] /\ After = [e \in CallId |-> After[e]]
  BY DEF Before, After
<1>6. After = [Before EXCEPT ![c] = StageAt(to)]
  BY <1>3, <1>5
<1>7. StageAt(to) = StageAt(pc[c]) => After = Before
  BY <1>3, <1>4, <1>5
<1> QED BY <1>6, <1>7 DEF Before, After

\* ... or none does.
LEMMA NothingHappens ==
  ASSUME UNCHANGED <<dev, valid, allowed, pc, target, answer>>
  PROVE  UNCHANGED Remote!vars
BY DEF Remote!vars

\* A call that ends without a result has failed, wherever it was.
LEMMA EndFails ==
  ASSUME BrokerTypeOK, NEW c \in CallId, End(c, "error"), pc[c] \notin Ended, UNCHANGED <<dev, valid>>
  PROVE  Remote!Fail(c)
<1>1. pc' = [pc EXCEPT ![c] = "error"] /\ UNCHANGED <<target, allowed, answer>>
  BY DEF End, Goes
<1>2. StageAt(pc[c]) \in {"new", "admitted", "out"} /\ StageAt("error") = "error"
  BY StagesAre DEF BrokerTypeOK
<1>3. [e \in CallId |-> StageAt(pc'[e])] = [[e \in CallId |-> StageAt(pc[e])] EXCEPT ![c] = "error"]
  BY <1>1, <1>2, StageMoves
<1> QED BY <1>1, <1>2, <1>3 DEF Remote!Fail

\* The calls that are out hold slots, and so does one that is still to be sent.
LEMMA OutIsLimited ==
  ASSUME BrokerInv, NEW c \in CallId, pc[c] = "pending"
  PROVE  Cardinality({e \in CallId : StageAt(pc[e]) = "out"}) < MaxCalls
<1> DEFINE Out == {e \in CallId : StageAt(pc[e]) = "out"}
<1>1. IsFiniteSet(Holders) /\ Cardinality(Holders) \in 0..MaxCalls
  BY DEF BrokerInv, SlotInv, BrokerTypeOK
<1>2. Out \subseteq Holders \ {c}
  <2>1. \A e \in CallId : StageAt(pc[e]) = "out" => pc[e] = "sent"
    BY StagesAre DEF BrokerInv, BrokerTypeOK
  <2> QED BY <2>1 DEF Holders
<1>3. c \in Holders
  BY DEF Holders
<1>4. IsFiniteSet(Holders \ {c}) /\ Cardinality(Holders \ {c}) = Cardinality(Holders) - 1
  BY <1>1, <1>3, FS_RemoveElement
<1>5. Cardinality(Out) \in Nat /\ Cardinality(Out) <= Cardinality(Holders \ {c})
  BY <1>2, <1>4, FS_Subset, FS_CardinalityType
<1> QED BY <1>1, <1>4, <1>5

\* A connection gets its device when it is accepted, and a call is matched while
\* it waits, after its checks.
LEMMA EarlyKept == BrokerInv /\ EarlyInv /\ [BrokerNext]_brokerVars => EarlyInv'
<1> SUFFICES ASSUME BrokerInv, EarlyInv, [BrokerNext]_brokerVars PROVE EarlyInv'
  OBVIOUS
<1> USE DEF BrokerInv, BrokerTypeOK
<1> DEFINE Late(c) == pc[c] \notin {"none", "found"}
<1>1. \A p \in Peer : accept'[p] = "none" => accept[p] = "none" /\ dev'[p] = dev[p]
  <2>1. ASSUME NEW q \in Peer, NEW d \in Device, Admit(q, d)
        PROVE  \A p \in Peer : accept'[p] = "none" => accept[p] = "none" /\ dev'[p] = dev[p]
    BY <2>1 DEF Admit
  <2>2. ASSUME NEW q \in Peer, Authorize(q) \/ Insert(q) \/ Serve(q) \/ Remove(q)
        PROVE  \A p \in Peer : accept'[p] = "none" => accept[p] = "none" /\ dev'[p] = dev[p]
    BY <2>2 DEF Authorize, Insert, Serve, Remove
  <2>3. ASSUME NEW q \in Peer,
               \/ WatchPeer(q) \/ Drop(q) \/ RevokePeer(q) \/ Hand(q)
               \/ \E c \in CallId : Match(q, c) \/ Respond(q, c)
        PROVE  UNCHANGED <<accept, dev>>
    BY <2>3, Zenon DEF WatchPeer, Drop, RevokePeer, Hand, Match, Respond, link
  <2>4. ASSUME NEW d \in Device, DisconnectDevice(d) PROVE UNCHANGED <<accept, dev>>
    BY <2>4, Zenon DEF DisconnectDevice
  <2>5. ASSUME NEW c \in CallId,
               RevokeCaller(c) \/ Expire(c) \/ CallStep(c) \/ \E d \in Device : Lookup(c, d)
        PROVE  UNCHANGED <<accept, dev>>
    BY <2>5, Zenon
    DEF CallStep, Lookup, RefusePeer, CheckCaller, TakeAnswer, PeerDone, Expire, Revalidate, CheckPeer,
        Send, AcquireSlot, Register, RevokeCaller, link
  <2>6. CASE Done \/ UNCHANGED brokerVars
    BY <2>6, Zenon DEF Done, brokerVars, link
  <2> QED BY <2>1, <2>2, <2>3, <2>4, <2>5, <2>6 DEF BrokerNext, AcceptStep, ReadStep
<1>2. \A c \in CallId : Late(c) => Late(c)'
  <2>1. \/ pc' = pc
        \/ \E c \in CallId, to \in {"checked", "slot", "pending", "sent", "result", "error"} :
             pc' = [pc EXCEPT ![c] = to]
        \/ \E c \in CallId : pc[c] = "none" /\ pc' = [pc EXCEPT ![c] = "found"]
    <3>1. ASSUME NEW p \in Peer,
                 \/ \E d \in Device : Admit(p, d)
                 \/ AcceptStep(p) \/ WatchPeer(p) \/ ReadStep(p) \/ Drop(p) \/ RevokePeer(p)
                 \/ \E c \in CallId : Respond(p, c)
          PROVE  pc' = pc
      BY <3>1, Zenon
      DEF AcceptStep, ReadStep, Admit, Authorize, Insert, Serve, Remove, WatchPeer, Drop, RevokePeer,
          Respond, Match, Hand, call
    <3>2. ASSUME NEW d \in Device, DisconnectDevice(d) PROVE pc' = pc
      BY <3>2, Zenon DEF DisconnectDevice, call
    <3>3. ASSUME NEW c \in CallId, RevokeCaller(c) PROVE pc' = pc
      BY <3>3, Zenon DEF RevokeCaller
    <3>4. ASSUME NEW c \in CallId, Expire(c) \/ CallStep(c)
          PROVE  \E to \in {"checked", "slot", "pending", "sent", "result", "error"} :
                   pc' = [pc EXCEPT ![c] = to]
      BY <3>4, Zenon
      DEF CallStep, RefusePeer, CheckCaller, TakeAnswer, PeerDone, Expire, Revalidate, CheckPeer,
          Send, AcquireSlot, Register, End, Goes
    <3>5. ASSUME NEW c \in CallId, NEW d \in Device, Lookup(c, d)
          PROVE  pc[c] = "none" /\ \E to \in {"found", "error"} : pc' = [pc EXCEPT ![c] = to]
      BY <3>5, Zenon DEF Lookup, End, Goes
    <3>6. CASE Done \/ UNCHANGED brokerVars
      BY <3>6, Zenon DEF Done, brokerVars, call
    <3> QED BY <3>1, <3>2, <3>3, <3>4, <3>5, <3>6 DEF BrokerNext
  <2> QED BY <2>1
<1>3. \A p \in Peer : handing'[p] \in CallId => Late(handing'[p])
  <2>1. ASSUME NEW q \in Peer, NEW c \in CallId, Match(q, c)
        PROVE  \A p \in Peer : handing'[p] \in CallId => Late(handing'[p])
    <3>1. handing' = [handing EXCEPT ![q] = IF c \in pending[q] THEN c ELSE None]
      BY <2>1 DEF Match
    <3>2. c \in pending[q] => Late(c)
      BY DEF PendingInv, WaitingAt
    <3> QED BY <3>1, <3>2 DEF EarlyInv
  <2>2. ASSUME NEW q \in Peer, Hand(q)
        PROVE  \A p \in Peer : handing'[p] \in CallId => Late(handing'[p])
    BY <2>2 DEF Hand, EarlyInv
  <2>3. ASSUME UNCHANGED handing
        PROVE  \A p \in Peer : handing'[p] \in CallId => Late(handing'[p])
    BY <2>3 DEF EarlyInv
  <2>4. ASSUME NEW q \in Peer,
               \/ \E d \in Device : Admit(q, d)
               \/ AcceptStep(q) \/ WatchPeer(q) \/ Remove(q) \/ Drop(q) \/ RevokePeer(q)
               \/ \E c \in CallId : Respond(q, c)
        PROVE  UNCHANGED handing
    BY <2>4, Zenon
    DEF AcceptStep, Admit, Authorize, Insert, Serve, Remove, WatchPeer, Drop, RevokePeer, Respond, mail
  <2>5. ASSUME NEW d \in Device, DisconnectDevice(d) PROVE UNCHANGED handing
    BY <2>5, Zenon DEF DisconnectDevice, mail
  <2>6. ASSUME NEW c \in CallId,
               RevokeCaller(c) \/ Expire(c) \/ CallStep(c) \/ \E d \in Device : Lookup(c, d)
        PROVE  UNCHANGED handing
    BY <2>6, Zenon
    DEF CallStep, Lookup, RefusePeer, CheckCaller, TakeAnswer, PeerDone, Expire, Revalidate, CheckPeer,
        Send, AcquireSlot, Register, RevokeCaller, mail
  <2>7. CASE Done \/ UNCHANGED brokerVars
    BY <2>3, <2>7 DEF Done, brokerVars, mail
  <2> HIDE DEF BrokerInv, Late
  <2> QED BY <2>1, <2>2, <2>3, <2>4, <2>5, <2>6, <2>7 DEF BrokerNext, ReadStep
<1>4. (\A p \in Peer : accept[p] = "none" => dev[p] = None)'
  BY <1>1 DEF EarlyInv
<1>5. (\A p \in Peer : handing[p] \in CallId => Late(handing[p]))'
  BY <1>2, <1>3
<1> QED BY <1>4, <1>5 DEF EarlyInv

\* A step of a connection, as its callers see it.
LEMMA LinkIsPromised ==
  ASSUME BrokerInv, EarlyInv, NEW p \in Peer,
         \/ \E d \in Device : Admit(p, d)
         \/ AcceptStep(p) \/ WatchPeer(p) \/ ReadStep(p) \/ Drop(p) \/ RevokePeer(p)
         \/ \E c \in CallId : Respond(p, c)
  PROVE  Remote!Next
<1> USE DEF BrokerInv, BrokerTypeOK
<1>1. ASSUME NEW d \in Device, Admit(p, d) PROVE Remote!Connect(p, d)
  <2>1. dev[p] = None /\ dev' = [dev EXCEPT ![p] = d]
    BY <1>1 DEF Admit, EarlyInv
  <2>2. UNCHANGED <<valid, allowed, pc, target, answer>>
    BY <1>1, Zenon DEF Admit, call
  <2> QED BY <2>1, <2>2 DEF Remote!Connect
<1>2. ASSUME RevokePeer(p) PROVE Remote!Revoke(p)
  <2>1. valid[p] /\ valid' = [valid EXCEPT ![p] = FALSE]
    BY <1>2 DEF RevokePeer
  <2>2. UNCHANGED <<dev, allowed, pc, target, answer>>
    BY <1>2, Zenon DEF RevokePeer, call
  <2> QED BY <2>1, <2>2 DEF Remote!Revoke
<1>3. ASSUME AcceptStep(p) \/ WatchPeer(p) \/ Remove(p) \/ Drop(p)
             \/ \E c \in CallId : Match(p, c) \/ Respond(p, c)
      PROVE  UNCHANGED Remote!vars
  <2>1. UNCHANGED <<dev, valid, allowed, pc, target, answer>>
    BY <1>3, Zenon
    DEF AcceptStep, Authorize, Insert, Serve, WatchPeer, Remove, Drop, Match, Respond, link, call
  <2> QED BY <2>1, NothingHappens
<1>4. ASSUME Hand(p) PROVE UNCHANGED Remote!vars \/ \E c \in CallId : Remote!Answer(c)
  <2>1. UNCHANGED <<dev, valid, allowed, pc, target>>
    BY <1>4, Zenon DEF Hand, link
  <2>2. PICK c \in CallId : c = handing[p]
    BY <1>4 DEF Hand
  <2>3. target[c] = p /\ StageAt(pc[c]) # "new"
    <3>1. target[c] = p /\ pc[c] \notin {"none", "found"}
      BY <2>2 DEF MailInv, EarlyInv
    <3>2. pc[c] \in {"checked", "slot", "pending", "sent", "result", "error"}
      BY <3>1
    <3> QED BY <3>1, <3>2, StagesAre
  <2>4. answer' = [answer EXCEPT ![c] = IF answer[c] = None THEN p ELSE answer[c]]
    BY <1>4, <2>2 DEF Hand
  <2>5. CASE answer[c] = None
    <3>1. answer' = [answer EXCEPT ![c] = target[c]]
      BY <2>3, <2>4, <2>5
    <3>2. Remote!Answer(c)
      BY <2>1, <2>3, <2>5, <3>1 DEF Remote!Answer
    <3> QED BY <3>2
  <2>6. CASE answer[c] # None
    <3>1. UNCHANGED answer
      BY <2>4, <2>6
    <3> QED BY <2>1, <3>1, NothingHappens
  <2> QED BY <2>5, <2>6
<1> HIDE DEF BrokerInv, BrokerTypeOK
<1> QED BY <1>1, <1>2, <1>3, <1>4, Zenon DEF Remote!Next, ReadStep

\* A step of a call, as its caller sees it.
LEMMA CallIsPromised ==
  ASSUME BrokerInv, EarlyInv, NEW c \in CallId,
         RevokeCaller(c) \/ Expire(c) \/ CallStep(c) \/ \E d \in Device : Lookup(c, d)
  PROVE  Remote!Next
<1>1. BrokerTypeOK /\ MapInv /\ MailInv
  BY DEF BrokerInv
<1>2. ASSUME RevokeCaller(c) PROVE Remote!Withdraw(c)
  <2>1. allowed[c] /\ allowed' = [allowed EXCEPT ![c] = FALSE]
    BY <1>2 DEF RevokeCaller
  <2>2. UNCHANGED <<dev, valid, pc, target, answer>>
    BY <1>2, Zenon DEF RevokeCaller, link
  <2>3. StageAt(pc[c]) \in {"new", "admitted", "out"}
    BY <1>1, <1>2, StagesAre DEF RevokeCaller, BrokerTypeOK
  <2> QED BY <2>1, <2>2, <2>3 DEF Remote!Withdraw
<1>3. ASSUME End(c, "error"), pc[c] \notin Ended, UNCHANGED <<dev, valid>> PROVE Remote!Fail(c)
  BY <1>1, <1>3, EndFails
<1>4. ASSUME RefusePeer(c), pc[c] \notin Ended PROVE Remote!Fail(c)
  BY <1>3, <1>4 DEF RefusePeer
<1>5. ASSUME NEW d \in Device, Lookup(c, d) PROVE Remote!Fail(c) \/ \E a \in Peer : Remote!Ask(c, a)
  <2>1. CASE peers[d] = None
    <3>1. End(c, "error") /\ pc[c] \notin Ended /\ UNCHANGED <<dev, valid>>
      BY <1>5, <2>1 DEF Lookup, link
    <3> QED BY <1>3, <3>1
  <2>2. CASE peers[d] # None
    <3>1. /\ pc[c] = "none" /\ pc' = [pc EXCEPT ![c] = "found"]
          /\ target' = [target EXCEPT ![c] = peers[d]]
          /\ UNCHANGED <<dev, valid, allowed, answer>>
      BY <1>5, <2>2 DEF Lookup, Goes, link
    <3>2. PICK a \in Peer : a = peers[d]
      BY <1>1, <2>2 DEF BrokerTypeOK
    <3>3. dev[a] = d /\ target[c] = None
      BY <1>1, <3>1, <3>2 DEF MapInv, MailInv
    <3>4. StageAt("none") = "new" /\ StageAt("found") = "new"
      BY StagesAre
    <3>5. [e \in CallId |-> StageAt(pc'[e])] = [e \in CallId |-> StageAt(pc[e])]
      BY <1>1, <3>1, <3>4, StageMoves
    <3>6. Remote!Ask(c, a)
      BY <3>1, <3>2, <3>3, <3>4, <3>5 DEF Remote!Ask
    <3> QED BY <3>6
  <2> QED BY <2>1, <2>2
<1>6. ASSUME CheckPeer(c) PROVE Remote!Fail(c) \/ Remote!AdmitCall(c)
  <2>1. CASE RefusePeer(c)
    BY <1>4, <1>6, <2>1 DEF CheckPeer
  <2>2. CASE ~RefusePeer(c)
    <3>1. /\ pc[c] = "found" /\ allowed[c] /\ valid[target[c]]
          /\ UNCHANGED <<dev, valid, target, allowed, answer>>
      BY <1>6, <2>2 DEF CheckPeer, link
    <3>2. pc' = [pc EXCEPT ![c] = "checked"]
      BY <1>6, <2>2 DEF CheckPeer, Goes
    <3>3. target[c] # None
      BY <1>1, <3>1 DEF MailInv
    <3>4. StageAt("found") = "new" /\ StageAt("checked") = "admitted"
      BY StagesAre
    <3>5. [e \in CallId |-> StageAt(pc'[e])] = [[e \in CallId |-> StageAt(pc[e])] EXCEPT ![c] = "admitted"]
      BY <1>1, <3>2, <3>4, StageMoves
    <3>6. Remote!AdmitCall(c)
      BY <3>1, <3>3, <3>4, <3>5 DEF Remote!AdmitCall
    <3> QED BY <3>6
  <2> QED BY <2>1, <2>2
<1>7. ASSUME AcquireSlot(c) \/ Register(c) PROVE UNCHANGED Remote!vars
  <2>1. PICK to \in {"slot", "pending"} : pc' = [pc EXCEPT ![c] = to]
    BY <1>7 DEF AcquireSlot, Register, Goes
  <2>2. pc[c] \in {"checked", "slot"} /\ UNCHANGED <<dev, valid, target, allowed, answer>>
    BY <1>7 DEF AcquireSlot, Register, link
  <2>3. StageAt(pc[c]) = StageAt(to)
    BY <2>2, StagesAre
  <2>4. [e \in CallId |-> StageAt(pc'[e])] = [e \in CallId |-> StageAt(pc[e])]
    BY <1>1, <2>1, <2>3, StageMoves
  <2> QED BY <2>2, <2>4 DEF Remote!vars
<1>8. ASSUME Send(c) PROVE Remote!Fail(c) \/ Remote!SendOut(c)
  <2>1. pc[c] = "pending" /\ UNCHANGED <<dev, valid>>
    BY <1>8 DEF Send, link
  <2>2. CASE allowed[c] /\ conn[target[c]] = "open"
    <3>1. pc' = [pc EXCEPT ![c] = "sent"]
      BY <1>8, <2>2 DEF Send, Goes
    <3>2. UNCHANGED <<target, allowed, answer>>
      BY <1>8, <2>2 DEF Send
    <3>3. StageAt("pending") = "admitted" /\ StageAt("sent") = "out"
      BY StagesAre
    <3> DEFINE stage == [e \in CallId |-> StageAt(pc[e])]
    <3>4. [e \in CallId |-> StageAt(pc'[e])] = [stage EXCEPT ![c] = "out"]
      BY <1>1, <3>1, <3>3, StageMoves
    <3>5. {e \in CallId : stage[e] = "out"} = {e \in CallId : StageAt(pc[e]) = "out"}
      OBVIOUS
    <3>6. Cardinality({e \in CallId : stage[e] = "out"}) < MaxCalls
      BY <2>1, <3>5, OutIsLimited
    <3>7. stage[c] = "admitted"
      BY <2>1, <3>3
    <3>8. Remote!SendOut(c)
      <4> HIDE DEF stage
      <4> SUFFICES /\ stage[c] = "admitted" /\ allowed[c]
                   /\ Cardinality({e \in CallId : stage[e] = "out"}) < MaxCalls
                   /\ [e \in CallId |-> StageAt(pc'[e])] = [stage EXCEPT ![c] = "out"]
                   /\ UNCHANGED <<dev, valid, allowed, target, answer>>
        BY DEF stage, Remote!SendOut, Remote!Cardinality, Cardinality
      <4> QED BY <2>1, <2>2, <3>2, <3>4, <3>6, <3>7
    <3> QED BY <3>8
  <2>3. CASE ~(allowed[c] /\ conn[target[c]] = "open")
    <3>1. End(c, "error")
      BY <1>8, <2>3 DEF Send
    <3> QED BY <1>3, <2>1, <3>1
  <2> QED BY <2>2, <2>3
<1>9. ASSUME TakeAnswer(c) PROVE Remote!Return(c)
  <2>1. /\ pc[c] = "sent" /\ answer[c] # None /\ pc' = [pc EXCEPT ![c] = "result"]
        /\ UNCHANGED <<dev, valid, target, allowed, answer>>
    BY <1>9 DEF TakeAnswer, End, Goes, link
  <2>2. StageAt("sent") = "out" /\ StageAt("result") = "result"
    BY StagesAre
  <2>3. [e \in CallId |-> StageAt(pc'[e])] = [[e \in CallId |-> StageAt(pc[e])] EXCEPT ![c] = "result"]
    BY <1>1, <2>1, <2>2, StageMoves
  <2> QED BY <2>1, <2>2, <2>3 DEF Remote!Return
<1>10. ASSUME CheckCaller(c) \/ Revalidate(c) \/ PeerDone(c) \/ Expire(c) PROVE Remote!Fail(c)
  <2>1. pc[c] \notin Ended
    BY <1>10 DEF CheckCaller, Revalidate, PeerDone, Expire
  <2>2. CASE Revalidate(c) /\ RefusePeer(c)
    BY <1>4, <2>1, <2>2
  <2>3. CASE ~(Revalidate(c) /\ RefusePeer(c))
    <3>1. End(c, "error")
      BY <1>10, <2>3, Zenon DEF CheckCaller, Revalidate, PeerDone, Expire
    <3>2. UNCHANGED <<dev, valid>>
      BY <1>10, <2>3 DEF CheckCaller, Revalidate, PeerDone, Expire, link
    <3> QED BY <1>3, <2>1, <3>1, <3>2
  <2> QED BY <2>2, <2>3
<1> QED
  BY <1>2, <1>5, <1>6, <1>7, <1>8, <1>9, <1>10, Zenon DEF Remote!Next, CallStep

\* Each step of the broker is one that RemoteCalls allows.
LEMMA StepIsPromised ==
  BrokerInv /\ EarlyInv /\ [BrokerNext]_brokerVars => [Remote!Next]_(Remote!vars)
<1> SUFFICES ASSUME BrokerInv, EarlyInv, [BrokerNext]_brokerVars PROVE Remote!Next
  OBVIOUS
<1>1. ASSUME NEW d \in Device, DisconnectDevice(d) PROVE UNCHANGED Remote!vars
  <2>1. UNCHANGED <<dev, valid, allowed, pc, target, answer>>
    BY <1>1, Zenon DEF DisconnectDevice, call
  <2> QED BY <2>1, NothingHappens
<1>2. ASSUME Done \/ UNCHANGED brokerVars PROVE UNCHANGED Remote!vars
  <2>1. UNCHANGED <<dev, valid, allowed, pc, target, answer>>
    BY <1>2, Zenon DEF Done, brokerVars, link, call
  <2> QED BY <2>1, NothingHappens
<1>3. UNCHANGED Remote!vars => Remote!Next
  BY DEF Remote!Next
<1> QED BY <1>1, <1>2, <1>3, LinkIsPromised, CallIsPromised DEF BrokerNext

\* The broker keeps the promise of RemoteCalls, whatever its connections send and
\* however often they are replaced, dropped or revoked: an answer is the asked
\* connection's, a call is admitted while caller and connection are trusted, sent
\* while its caller is and the limit holds, and ends once (Call, acceptAgent,
\* readLoop).
THEOREM BrokerKeepsItsPromise == BrokerSpec => ImplementsRemoteCalls
<1>1. BrokerInit => Remote!Init /\ EarlyInv
  <2> SUFFICES ASSUME BrokerInit PROVE Remote!Init /\ EarlyInv
    OBVIOUS
  <2>1. EarlyInv
    BY DEF BrokerInit, EarlyInv
  <2>2. [c \in CallId |-> StageAt(pc[c])] = [c \in CallId |-> "new"]
    BY StagesAre DEF BrokerInit
  <2> QED BY <2>1, <2>2 DEF BrokerInit, Remote!Init
<1> QED
  BY <1>1, BrokerInvariant, EarlyKept, StepIsPromised, PTL
  DEF BrokerSpec, Remote!Spec, ImplementsRemoteCalls
=============================================================================
