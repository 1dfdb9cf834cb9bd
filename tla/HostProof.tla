----------------------------- MODULE HostProof -----------------------------
(***************************************************************************)
(* Proofs about the workstation: control of the desktop ends with what       *)
(* authorized it (Portal), changes of files destroy nothing they did not     *)
(* expect (Workspace), interrupted updates and rotations can be repaired      *)
(* (Installation), and semantic calls act on the element they name            *)
(* (UniqueUI).                                                               *)
(***************************************************************************)
EXTENDS Portal, Workspace, Installation, UniqueUI,
        FiniteSetTheorems, SequenceTheorems, WellFoundedInduction, TLAPS

-----------------------------------------------------------------------------
(* Portal: the inductive invariant.                                        *)

Opening == {"create", "select", "start", "save"}

\* Who opens a session holds portalMu, and nobody else does.
OneOpener == \A t \in Tool : tool[t].at \in Opening <=> portalMu = t

\* A call knows its session from the answer to CreateSession on.
Placed ==
  \A t \in Tool :
    /\ tool[t].at \in {"idle", "want", "create"} => tool[t].sess = 0
    /\ tool[t].at \in {"select", "start", "save", "press", "release"} => tool[t].sess \in Session

\* How many keys are down follows from where a call is.
Fingers ==
  \A t \in Tool :
    /\ tool[t].at = "release" => tool[t].down # 0
    /\ tool[t].at = "press" => tool[t].down = 0 \/ tool[t].down < tool[t].keys
    /\ tool[t].at \notin {"press", "release"} => tool[t].down = 0

\* A token that may still be presented was not, unless its file stayed.
Good(k) == k = 0 \/ k \in unremoved \/ k \notin presented

\* While a session is opened there is no other, and the token is in the hands of
\* the call that opens it.
OpenerAlone ==
  portalMu # NoTool =>
    LET c == tool[portalMu] IN
    /\ portal = 0 /\ token = 0 /\ loaded
    /\ c.at = "create" => Good(c.with) /\ (c.with # 0 => desk[c.with] # "none")
    /\ c.at # "create" => desk[c.sess] # "none" /\ c.sess \notin presented

\* Tokens are of sessions that were created.
Known ==
  /\ Good(token) /\ (token # 0 => desk[token] # "none")
  /\ Good(tokenFile) /\ (tokenFile # 0 => desk[tokenFile] # "none")
  /\ \A k \in presented : desk[k] # "none"

\* The file holds the token, or none, or one that could not be removed.
Recorded ==
  /\ loaded => tokenFile \in {0, token} \cup unremoved
  /\ ~loaded => token = 0
  /\ ~persistent => tokenFile = 0

\* CallRecord of a session that is over send no further request.
Ended ==
  /\ remote # "up" => \A t \in Tool : tool[t].at # "idle" => tool[t].canceled
  /\ remote \in {"ending", "ended"} =>
       \A t \in Tool : tool[t].at \in Opening => tool[t].at = "create" /\ ~tool[t].sent
  /\ remote = "ending" => \A s \in Session : desk[s] = "started" => s \in doomed

\* The call and the lock, control of the desktop, the restore token.
Hands   == OneOpener /\ Placed /\ Fingers
Control == NoControlAfterEnd /\ NoStraySession /\ StuckIsClosed /\ Ended
TokenUse == TokenIsSingleUse /\ OpenerAlone /\ Known /\ Recorded

PortalInv == PortalTypeOK /\ Hands /\ Control /\ TokenUse

CallRecord == [at : ToolPlace, sess : 0..MaxSession, with : 0..MaxSession, sent : BOOLEAN,
          canceled : BOOLEAN, keys : 0..2, down : 0..2]

USE MaxSessionAssumption, NoToolAssumption DEF Session, ToolPlace, Opening, tokens

-----------------------------------------------------------------------------
(* What a step makes of a call is a call.                                  *)

\* Before its first step, and after its last.
LEMMA NoCallIsTyped == NoCallYet \in CallRecord
  BY DEF NoCallYet, CallRecord

\* A call that ends.
LEMMA EndIsTyped ==
  ASSUME tool \in [Tool -> CallRecord], NEW t \in Tool, Ends(t)
  PROVE  tool' \in [Tool -> CallRecord]
  BY NoCallIsTyped DEF Ends

\* Fields of a call are replaced.
LEMMA FieldsAreTyped ==
  ASSUME NEW q \in CallRecord, NEW p \in ToolPlace, NEW b \in BOOLEAN, NEW k \in 0..MaxSession
  PROVE  /\ [q EXCEPT !.at = p, !.sent = b, !.with = k] \in CallRecord
         /\ [q EXCEPT !.at = p, !.sent = b, !.sess = k] \in CallRecord
         /\ [q EXCEPT !.at = p, !.sent = b] \in CallRecord
         /\ [q EXCEPT !.at = p, !.sess = k] \in CallRecord
  BY DEF CallRecord

\* A call that sends its next request, with a session or a token in its hands.
LEMMA RequestIsTyped ==
  ASSUME tool \in [Tool -> CallRecord], NEW t \in Tool, NEW p \in ToolPlace, NEW b \in BOOLEAN,
         NEW k \in 0..MaxSession
  PROVE  /\ [tool EXCEPT ![t] = [@ EXCEPT !.at = p, !.sent = b, !.with = k]] \in [Tool -> CallRecord]
         /\ [tool EXCEPT ![t] = [@ EXCEPT !.at = p, !.sent = b, !.sess = k]] \in [Tool -> CallRecord]
         /\ [tool EXCEPT ![t] = [@ EXCEPT !.at = p, !.sent = b]] \in [Tool -> CallRecord]
         /\ [tool EXCEPT ![t] = [@ EXCEPT !.at = p, !.sess = k]] \in [Tool -> CallRecord]
<1>1. \A q \in CallRecord : [tool EXCEPT ![t] = q] \in [Tool -> CallRecord]
  OBVIOUS
<1>2. tool[t] \in CallRecord
  OBVIOUS
<1>3. [tool EXCEPT ![t] = [@ EXCEPT !.at = p, !.sent = b, !.with = k]] \in [Tool -> CallRecord]
  BY <1>1, <1>2, FieldsAreTyped
<1>4. [tool EXCEPT ![t] = [@ EXCEPT !.at = p, !.sent = b, !.sess = k]] \in [Tool -> CallRecord]
  BY <1>1, <1>2, FieldsAreTyped
<1>5. [tool EXCEPT ![t] = [@ EXCEPT !.at = p, !.sent = b]] \in [Tool -> CallRecord]
  BY <1>1, <1>2, FieldsAreTyped
<1>6. [tool EXCEPT ![t] = [@ EXCEPT !.at = p, !.sess = k]] \in [Tool -> CallRecord]
  BY <1>1, <1>2, FieldsAreTyped
<1> QED
  BY <1>3, <1>4, <1>5, <1>6

\* A call whose context ends.
LEMMA CanceledIsTyped == \A q \in CallRecord : [q EXCEPT !.canceled = TRUE] \in CallRecord
  BY DEF CallRecord

\* A call that moves on, and one whose context ends.
LEMMA MoveIsTyped ==
  ASSUME tool \in [Tool -> CallRecord], NEW t \in Tool, NEW p \in ToolPlace
  PROVE  /\ [tool EXCEPT ![t].at = p] \in [Tool -> CallRecord]
         /\ [tool EXCEPT ![t].canceled = TRUE] \in [Tool -> CallRecord]
<1>1. tool[t] \in CallRecord
  OBVIOUS
<1>2. [tool[t] EXCEPT !.at = p] \in CallRecord
  BY <1>1 DEF CallRecord
<1>3. [tool[t] EXCEPT !.canceled = TRUE] \in CallRecord
  BY <1>1, CanceledIsTyped
<1> QED
  BY <1>2, <1>3

\* r is the call q with n keys down, at p.
Pressed(r, q, n, p) == r \in CallRecord /\ r.at = p /\ r.down = n /\ r.sess = q.sess /\ r.keys = q.keys

LEMMA KeyFieldsAreTyped ==
  ASSUME NEW q \in CallRecord, NEW n \in 0..2, NEW p \in ToolPlace
  PROVE  Pressed([q EXCEPT !.down = n, !.at = p], q, n, p) /\ Pressed([q EXCEPT !.down = n], q, n, q.at)
  BY DEF CallRecord, Pressed

\* Where a key is pressed or released the call has so many down afterwards.
Follows(r, c) ==
  /\ r \in CallRecord /\ r.at \in {"idle", "press", "release"}
  /\ r.at # "idle" => r.sess = c.sess /\ r.keys = c.keys
  /\ r.at = "idle" => r.sess = 0 /\ r.down = 0
  /\ r.at = "release" => r.down # 0
  /\ r.at = "press" => r.down = 0 \/ r.down < r.keys

LEMMA KeyMoves ==
  ASSUME PortalTypeOK, Fingers, NEW t \in Tool, Notified(t)
  PROVE  Follows(tool'[t], tool[t]) /\ tool' \in [Tool -> CallRecord] /\ \A x \in Tool : x # t => tool'[x] = tool[x]
<1> DEFINE c == tool[t]
<1>1. /\ tool \in [Tool -> CallRecord] /\ c \in CallRecord /\ c.at \in {"press", "release"}
      /\ c.at = "release" => c.down # 0
      /\ c.at = "press" => c.down = 0 \/ c.down < c.keys
      /\ c.down \in 0..2 /\ c.keys \in 0..2
  BY DEF PortalTypeOK, CallRecord, Notified, Fingers
<1>2. ASSUME NEW r, Follows(r, c), tool' = [tool EXCEPT ![t] = r]
      PROVE  Follows(tool'[t], c) /\ tool' \in [Tool -> CallRecord] /\ \A x \in Tool : x # t => tool'[x] = tool[x]
  BY <1>1, <1>2 DEF Follows
<1>3. CASE UNCHANGED tool
  BY <1>1, <1>3 DEF Follows
<1>4. CASE /\ c.at = "press" /\ c.keys > 0
           /\ tool' = [tool EXCEPT ![t] = [@ EXCEPT !.down = c.down + 1,
                                                    !.at = IF c.down + 1 = c.keys THEN "release" ELSE "press"]]
  <2> DEFINE p == IF c.down + 1 = c.keys THEN "release" ELSE "press"
             n == c.down + 1
             r == [c EXCEPT !.down = n, !.at = p]
  <2>1. n \in 1..2 /\ p \in {"press", "release"} /\ (p = "press" => n < c.keys)
    BY <1>1, <1>4
  <2>2. tool' = [tool EXCEPT ![t] = r]
    BY <1>4, Zenon
  <2> HIDE DEF n, p
  <2>3. Pressed(r, c, n, p)
    <3>1. n \in 0..2 /\ p \in ToolPlace
      BY <2>1
    <3> QED
      BY <1>1, <3>1, KeyFieldsAreTyped, Zenon
  <2>4. Follows(r, c)
    <3> HIDE DEF c, r
    <3> QED
      BY <2>1, <2>3 DEF Follows, Pressed
  <2> QED
    BY <1>2, <2>2, <2>4
<1>5. CASE c.at = "release" /\ c.down > 1 /\ tool' = [tool EXCEPT ![t].down = @ - 1]
  <2> DEFINE n == c.down - 1
             r == [c EXCEPT !.down = n]
  <2>1. n \in 1..2
    BY <1>1, <1>5
  <2>2. tool' = [tool EXCEPT ![t] = r]
    BY <1>5, Zenon
  <2> HIDE DEF n
  <2>3. Pressed(r, c, n, c.at)
    <3>1. n \in 0..2
      BY <2>1
    <3> QED
      BY <1>1, <3>1, KeyFieldsAreTyped, Zenon
  <2>4. Follows(r, c)
    <3> HIDE DEF c, r
    <3> QED
      BY <1>5, <2>1, <2>3 DEF Follows, Pressed
  <2> QED
    BY <1>2, <2>2, <2>4
<1>6. CASE tool' = [tool EXCEPT ![t] = [@ EXCEPT !.down = 0, !.at = "press"]]
  <2> DEFINE r == [c EXCEPT !.down = 0, !.at = "press"]
  <2>1. tool' = [tool EXCEPT ![t] = r]
    BY <1>6, Zenon
  <2>2. Pressed(r, c, 0, "press")
    <3>1. 0 \in 0..2 /\ "press" \in ToolPlace
      OBVIOUS
    <3> QED
      BY <1>1, <3>1, KeyFieldsAreTyped, Zenon
  <2>3. Follows(r, c)
    <3> HIDE DEF c, r
    <3> QED
      BY <2>2 DEF Follows, Pressed
  <2> QED
    BY <1>2, <2>1, <2>3
<1>7. CASE Ends(t)
  <2>1. Follows(NoCallYet, c)
    BY NoCallIsTyped DEF NoCallYet, Follows
  <2>2. tool' = [tool EXCEPT ![t] = NoCallYet]
    BY <1>7 DEF Ends
  <2> QED
    BY <1>2, <2>1, <2>2
<1> QED
  BY <1>3, <1>4, <1>5, <1>6, <1>7 DEF Notified

-----------------------------------------------------------------------------
(* The remote session, and the end of a call's context.                    *)

\* A call begins, and holds nothing.
LEMMA ToolCallKeeps == ASSUME NEW t \in Tool, PortalInv, ToolCall(t) PROVE PortalInv'
<1> USE DEF PortalInv, ToolCall, NoCallYet
<1>1. tool' \in [Tool -> CallRecord]
  <2>1. PICK k \in 0..2 : tool' = [tool EXCEPT ![t] = [NoCallYet EXCEPT !.at = "want", !.keys = k]]
    OBVIOUS
  <2>2. [NoCallYet EXCEPT !.at = "want", !.keys = k] \in CallRecord
    BY NoCallIsTyped DEF CallRecord
  <2> QED
    BY <2>1, <2>2 DEF PortalTypeOK, CallRecord
<1>2. PortalTypeOK'
  BY <1>1 DEF PortalTypeOK, CallRecord
<1>3. Hands'
  BY DEF Hands, OneOpener, Placed, Fingers
<1>4. Control'
  BY DEF Control, NoControlAfterEnd, NoStraySession, StuckIsClosed, Ended, Placed, Hands
<1>5. TokenUse'
  BY DEF TokenUse, TokenIsSingleUse, OpenerAlone, Known, Recorded, Good, Placed, Hands
<1> QED
  BY <1>2, <1>3, <1>4, <1>5

\* Its context ends; what it holds it still holds.
LEMMA CancelToolKeeps == ASSUME NEW t \in Tool, PortalInv, CancelTool(t) PROVE PortalInv'
<1> USE DEF PortalInv, CancelTool
<1>1. tool' \in [Tool -> CallRecord]
  <2>1. tool \in [Tool -> CallRecord]
    BY DEF PortalTypeOK, CallRecord
  <2> QED
    BY <2>1, MoveIsTyped
<1>2. PortalTypeOK'
  BY <1>1 DEF PortalTypeOK, CallRecord
<1>3. Hands'
  BY DEF Hands, OneOpener, Placed, Fingers
<1>4. Control'
  BY DEF Control, NoControlAfterEnd, NoStraySession, StuckIsClosed, Ended
<1>5. TokenUse'
  BY DEF TokenUse, TokenIsSingleUse, OpenerAlone, Known, Recorded, Good
<1> QED
  BY <1>2, <1>3, <1>4, <1>5

\* Every call of the session is canceled at once.
LEMMA RemoteLostKeeps == ASSUME PortalInv, RemoteLost PROVE PortalInv'
<1> USE DEF PortalInv, RemoteLost, NoCallYet
<1>1. tool' \in [Tool -> CallRecord]
  <2>1. \A t \in Tool : [tool[t] EXCEPT !.canceled = TRUE] \in CallRecord
    <3>1. \A t \in Tool : tool[t] \in CallRecord
      BY DEF PortalTypeOK, CallRecord
    <3> QED
      BY <3>1, CanceledIsTyped
  <2> QED
    BY <2>1, NoCallIsTyped
<1>2. PortalTypeOK'
  BY <1>1 DEF PortalTypeOK, CallRecord
<1>3. Hands'
  BY DEF Hands, OneOpener, Placed, Fingers
<1>4. Control'
  BY DEF Control, NoControlAfterEnd, NoStraySession, StuckIsClosed, Ended, Placed, Hands, PortalTypeOK
<1>5. TokenUse'
  BY DEF TokenUse, TokenIsSingleUse, OpenerAlone, Known, Recorded, Good, Placed, Hands, PortalTypeOK
<1> QED
  BY <1>2, <1>3, <1>4, <1>5

\* CallRecord that were canceled stay so.
LEMMA RemoteBackKeeps == ASSUME PortalInv, RemoteBack PROVE PortalInv'
<1> USE DEF PortalInv, RemoteBack
<1>2. PortalTypeOK'
  BY DEF PortalTypeOK
<1>3. Hands'
  BY DEF Hands, OneOpener, Placed, Fingers
<1>4. Control'
  BY DEF Control, NoControlAfterEnd, NoStraySession, StuckIsClosed, Ended
<1>5. TokenUse'
  BY DEF TokenUse, TokenIsSingleUse, OpenerAlone, Known, Recorded, Good
<1> QED
  BY <1>2, <1>3, <1>4, <1>5

\* portalMu is free: no session is being opened, and what is open is doomed.
LEMMA EndTakesKeeps == ASSUME PortalInv, EndTakes PROVE PortalInv'
<1> USE DEF PortalInv, EndTakes, IsOpen
<1>2. PortalTypeOK'
  BY DEF PortalTypeOK
<1>3. Hands'
  BY DEF Hands, OneOpener, Placed, Fingers
<1>4. Control'
  BY DEF Control, NoControlAfterEnd, NoStraySession, StuckIsClosed, Ended, OneOpener, Hands
<1>5. TokenUse'
  BY DEF TokenUse, TokenIsSingleUse, OpenerAlone, Known, Recorded, Good
<1> QED
  BY <1>2, <1>3, <1>4, <1>5

\* What was doomed is closed, and there was nothing else.
LEMMA EndClosesKeeps == ASSUME PortalInv, EndCloses PROVE PortalInv'
<1> USE DEF PortalInv, EndCloses, Shut, IsOpen
<1>2. PortalTypeOK'
  BY DEF PortalTypeOK
<1>3. Hands'
  BY DEF Hands, OneOpener, Placed, Fingers
<1>4. Control'
  BY DEF Control, NoControlAfterEnd, NoStraySession, StuckIsClosed, Ended
<1>5. TokenUse'
  BY DEF TokenUse, TokenIsSingleUse, OpenerAlone, Known, Recorded, Good, OneOpener, Placed, Hands, PortalTypeOK
<1> QED
  BY <1>2, <1>3, <1>4, <1>5

-----------------------------------------------------------------------------
(* portalSession.                                                          *)

\* The session was opened before, so it is the call's without a request.
LEMMA UseOpenKeeps == ASSUME NEW t \in Tool, PortalInv, UseOpen(t) PROVE PortalInv'
<1> USE DEF PortalInv, UseOpen
<1>1. tool' \in [Tool -> CallRecord]
  <2>1. tool \in [Tool -> CallRecord]
    BY DEF PortalTypeOK, CallRecord
  <2>2. portal \in 0..MaxSession /\ "press" \in ToolPlace
    BY DEF PortalTypeOK
  <2>3. TRUE \in BOOLEAN
    OBVIOUS
  <2>4. [tool EXCEPT ![t] = [@ EXCEPT !.at = "press", !.sess = portal]] \in [Tool -> CallRecord]
    BY <2>1, <2>2, <2>3, RequestIsTyped
  <2> QED
    BY <2>4
<1>2. PortalTypeOK'
  BY <1>1 DEF PortalTypeOK, CallRecord
<1>3. Hands'
  BY DEF Hands, OneOpener, Placed, Fingers, PortalTypeOK
<1>4. Control'
  BY DEF Control, NoControlAfterEnd, NoStraySession, StuckIsClosed, Ended, PortalTypeOK
<1>5. TokenUse'
  BY DEF TokenUse, TokenIsSingleUse, OpenerAlone, Known, Recorded, Good
<1> QED
  BY <1>2, <1>3, <1>4, <1>5

\* Every session but the doomed is closed.
LEMMA NoPortalKeeps == ASSUME NEW t \in Tool, PortalInv, NoPortal(t) PROVE PortalInv'
<1> USE DEF PortalInv, NoPortal, Ends, Shut, NoCallYet, IsOpen
<1>1. tool' \in [Tool -> CallRecord]
  <2>1. tool \in [Tool -> CallRecord]
    BY DEF PortalTypeOK, CallRecord
  <2> QED
    BY <2>1, EndIsTyped
<1>2. PortalTypeOK'
  BY <1>1 DEF PortalTypeOK, CallRecord
<1>3. Hands'
  BY DEF Hands, OneOpener, Placed, Fingers
<1>4. Control'
  BY DEF Control, NoControlAfterEnd, NoStraySession, StuckIsClosed, Ended
<1>5. TokenUse'
  BY DEF TokenUse, TokenIsSingleUse, OpenerAlone, Known, Recorded, Good, PortalTypeOK
<1> QED
  BY <1>2, <1>3, <1>4, <1>5

\* The token leaves the engine and, if it can be removed, the file.
LEMMA OpenKeeps == ASSUME NEW t \in Tool, PortalInv, Open(t) PROVE PortalInv'
<1> USE DEF PortalInv, Open, Shut, Loaded, IsOpen
<1>1. tool' \in [Tool -> CallRecord]
  <2> DEFINE b == ~tool[t].canceled
             k == Loaded
  <2>1. k \in 0..MaxSession /\ b \in BOOLEAN
    BY DEF PortalTypeOK
  <2>2. tool' = [tool EXCEPT ![t] = [@ EXCEPT !.at = "create", !.sent = b, !.with = k]]
    OBVIOUS
  <2>3. tool \in [Tool -> CallRecord] /\ "create" \in ToolPlace
    BY DEF PortalTypeOK, CallRecord
  <2> HIDE DEF b, k, Open, ToolPlace
  <2>4. [tool EXCEPT ![t] = [@ EXCEPT !.at = "create", !.sent = b, !.with = k]] \in [Tool -> CallRecord]
    BY <2>1, <2>3, RequestIsTyped, Zenon
  <2> QED
    BY <2>2, <2>4, Zenon
<1>2. PortalTypeOK'
  BY <1>1 DEF PortalTypeOK, CallRecord
<1>3. Hands'
  BY DEF Hands, OneOpener, Placed, Fingers, PortalTypeOK
<1>4. Control'
  <2>1. /\ \A x \in Tool : x # t => tool'[x] = tool[x]
        /\ tool'[t].at = "create" /\ tool'[t].sent = ~tool[t].canceled /\ tool'[t].canceled = tool[t].canceled
    BY DEF PortalTypeOK
  <2>2. /\ tool[t].at = "want" /\ portalMu = NoTool /\ remote' = remote /\ doomed' = doomed /\ flagged' = flagged
        /\ \A s \in Session : desk'[s] = "started" => desk[s] = "started" /\ s # portal
        /\ stuck' \subseteq stuck
    BY DEF PortalTypeOK
  <2>3. NoControlAfterEnd' /\ StuckIsClosed' /\ NoStraySession'
    BY <2>2 DEF Control, NoControlAfterEnd, NoStraySession, StuckIsClosed
  <2>4. Ended'
    BY <2>1, <2>2 DEF Control, Ended, Hands, OneOpener
  <2> QED
    BY <2>3, <2>4 DEF Control
<1>5. TokenUse'
  BY DEF TokenUse, TokenIsSingleUse, OpenerAlone, Known, Recorded, Good, PortalTypeOK
<1> QED
  BY <1>2, <1>3, <1>4, <1>5

\* The session is new: its token cannot have been presented.
LEMMA CreatedKeeps == ASSUME NEW t \in Tool, PortalInv, Created(t) PROVE PortalInv'
<1> USE DEF PortalInv, Created, Presents
<1>1. tool' \in [Tool -> CallRecord]
  <2>1. PICK s \in Session :
               tool' = [tool EXCEPT ![t] = [@ EXCEPT !.at = "select", !.sent = ~tool[t].canceled, !.sess = s]]
    BY Zenon
  <2>2. (~tool[t].canceled) \in BOOLEAN /\ s \in 0..MaxSession
    OBVIOUS
  <2>3. tool \in [Tool -> CallRecord] /\ "select" \in ToolPlace
    BY DEF PortalTypeOK, CallRecord
  <2> QED
    BY <2>1, <2>2, <2>3, RequestIsTyped, Zenon
<1>2. PortalTypeOK'
  <2>1. presented' \subseteq Session /\ again' \subseteq Session
    BY DEF PortalTypeOK
  <2>2. desk' \in [Session -> {"none", "created", "started", "closed"}]
    BY DEF PortalTypeOK
  <2>3. UNCHANGED <<persistent, remote, portalMu, portal, flagged, doomed, stuck, token, tokenFile,
                    loaded, unremoved>>
    OBVIOUS
  <2>4. tool' \in [Tool -> [at : ToolPlace, sess : 0..MaxSession, with : 0..MaxSession, sent : BOOLEAN,
                             canceled : BOOLEAN, keys : 0..2, down : 0..2]]
    BY <1>1, Zenon DEF CallRecord
  <2>5. PortalTypeOK
    OBVIOUS
  <2> HIDE DEF PortalInv, Created, Presents
  <2> QED
    BY <2>1, <2>2, <2>3, <2>4, <2>5 DEF PortalTypeOK
<1>3. Hands'
  BY DEF Hands, OneOpener, Placed, Fingers, PortalTypeOK
<1>4. Control'
  BY DEF Control, NoControlAfterEnd, NoStraySession, StuckIsClosed, Ended, OneOpener, Placed, Hands, PortalTypeOK
<1>5. TokenUse'
  <2>1. portalMu = t
    BY DEF Hands, OneOpener
  <2>2. TokenIsSingleUse' /\ Recorded'
    BY <2>1 DEF TokenUse, TokenIsSingleUse, OpenerAlone, Recorded, Good
  <2>3. OpenerAlone'
    <3>1. PICK s \in Session :
            /\ desk[s] = "none" /\ desk' = [desk EXCEPT ![s] = "created"]
            /\ tool' = [tool EXCEPT ![t] = [@ EXCEPT !.at = "select", !.sent = ~tool[t].canceled, !.sess = s]]
      BY Zenon
    <3>2. tool'[t].at = "select" /\ tool'[t].sess = s
      BY <3>1 DEF PortalTypeOK
    <3>3. desk'[s] = "created"
      BY <3>1 DEF PortalTypeOK
    <3>4. s \notin presented /\ (tool[t].with # 0 => tool[t].with # s)
      BY <2>1, <3>1 DEF TokenUse, OpenerAlone, Known
    <3>5. s \notin presented'
      BY <3>4
    <3>6. portal = 0 /\ token = 0 /\ loaded
      BY <2>1, NoToolAssumption DEF TokenUse, OpenerAlone
    <3>7. UNCHANGED <<portalMu, portal, token, loaded>>
      OBVIOUS
    <3> QED
      BY <2>1, <3>2, <3>3, <3>5, <3>6, <3>7 DEF OpenerAlone
  <2>4. Known'
    <3>1. \A k \in Session : desk[k] # "none" => desk'[k] # "none"
      BY DEF PortalTypeOK
    <3>2. {token, tokenFile, tool[t].with} \cup presented \subseteq 0..MaxSession
      BY DEF PortalTypeOK
    <3>3. /\ presented' = presented \cup (IF ~tool[t].canceled /\ tool[t].with # 0 THEN {tool[t].with} ELSE {})
          /\ UNCHANGED <<token, tokenFile, unremoved>>
      OBVIOUS
    <3>4. tool[t].with # 0 => desk[tool[t].with] # "none"
      BY <2>1, NoToolAssumption DEF TokenUse, OpenerAlone
    <3>5. /\ token = 0
          /\ tokenFile # 0 => tokenFile \in unremoved
      BY <2>1, NoToolAssumption DEF TokenUse, OpenerAlone, Recorded
    <3>6. Known /\ 0 \notin presented
      BY DEF TokenUse, PortalTypeOK
    <3>7. \A k \in presented' : desk'[k] # "none"
      BY <3>1, <3>2, <3>3, <3>4, <3>6 DEF Known
    <3> HIDE DEF PortalInv, Created, Presents
    <3> QED
      BY <3>1, <3>2, <3>3, <3>5, <3>6, <3>7 DEF Known, Good
  <2> QED
    BY <2>2, <2>3, <2>4 DEF TokenUse
<1> QED
  BY <1>2, <1>3, <1>4, <1>5

LEMMA SelectedKeeps == ASSUME NEW t \in Tool, PortalInv, Selected(t) PROVE PortalInv'
<1> USE DEF PortalInv, Selected, Asks
<1>1. tool' \in [Tool -> CallRecord]
  <2> DEFINE b == ~tool[t].canceled
  <2>1. tool' = [tool EXCEPT ![t] = [@ EXCEPT !.at = "start", !.sent = b]]
    OBVIOUS
  <2>2. b \in BOOLEAN /\ 0 \in 0..MaxSession
    OBVIOUS
  <2>3. tool \in [Tool -> CallRecord] /\ "start" \in ToolPlace
    BY DEF PortalTypeOK, CallRecord
  <2> HIDE DEF b, Selected, Asks, ToolPlace
  <2>4. [tool EXCEPT ![t] = [@ EXCEPT !.at = "start", !.sent = b]] \in [Tool -> CallRecord]
    BY <2>2, <2>3, RequestIsTyped, Zenon
  <2> QED
    BY <2>1, <2>4, Zenon
<1>2. PortalTypeOK'
  BY <1>1 DEF PortalTypeOK, CallRecord
<1>3. Hands'
  BY DEF Hands, OneOpener, Placed, Fingers, PortalTypeOK
<1>4. Control'
  BY DEF Control, NoControlAfterEnd, NoStraySession, StuckIsClosed, Ended, PortalTypeOK
<1>5. TokenUse'
  BY DEF TokenUse, TokenIsSingleUse, OpenerAlone, Known, Recorded, Good, PortalTypeOK
<1> QED
  BY <1>2, <1>3, <1>4, <1>5

\* The session that takes input from here on is the one of who holds portalMu.
LEMMA StartedKeeps == ASSUME NEW t \in Tool, PortalInv, Started(t) PROVE PortalInv'
<1> USE DEF PortalInv, Started, ToolAt, InUse
<1>1. tool' \in [Tool -> CallRecord]
  <2>1. tool \in [Tool -> CallRecord]
    BY DEF PortalTypeOK, CallRecord
  <2>2. "save" \in ToolPlace
    OBVIOUS
  <2> QED
    BY <2>1, <2>2, MoveIsTyped
<1>2. PortalTypeOK'
  BY <1>1 DEF PortalTypeOK, CallRecord
<1>3. Hands'
  BY DEF Hands, OneOpener, Placed, Fingers
<1>4. Control'
  BY DEF Control, NoControlAfterEnd, NoStraySession, StuckIsClosed, Ended, OneOpener, Hands
<1>5. TokenUse'
  BY DEF TokenUse, TokenIsSingleUse, OpenerAlone, Known, Recorded, Good
<1> QED
  BY <1>2, <1>3, <1>4, <1>5

\* The call gives up its session, which is closed or was never started.
LEMMA OpenFailsKeeps == ASSUME NEW t \in Tool, PortalInv, OpenFails(t) PROVE PortalInv'
<1> USE DEF PortalInv, OpenFails, Ends, Shut, NoCallYet, IsOpen
<1>1. tool' \in [Tool -> CallRecord]
  <2>1. tool \in [Tool -> CallRecord]
    BY DEF PortalTypeOK, CallRecord
  <2> QED
    BY <2>1, EndIsTyped
<1>2. PortalTypeOK'
  BY <1>1 DEF PortalTypeOK, CallRecord
<1>3. Hands'
  BY DEF Hands, OneOpener, Placed, Fingers, PortalTypeOK
<1>4. Control'
  BY DEF Control, NoControlAfterEnd, NoStraySession, StuckIsClosed, Ended, OneOpener, Placed, Hands, PortalTypeOK
<1>5. TokenUse'
  BY DEF TokenUse, TokenIsSingleUse, OpenerAlone, Known, Recorded, Good, PortalTypeOK
<1> QED
  BY <1>2, <1>3, <1>4, <1>5

\* The session changes hands, from the call to the engine.
LEMMA PublishKeeps == ASSUME NEW t \in Tool, PortalInv, Publish(t) PROVE PortalInv'
<1> USE DEF PortalInv, Publish, ToolAt
<1>1. tool' \in [Tool -> CallRecord]
  <2>1. tool \in [Tool -> CallRecord]
    BY DEF PortalTypeOK, CallRecord
  <2>2. "press" \in ToolPlace
    OBVIOUS
  <2> QED
    BY <2>1, <2>2, MoveIsTyped
<1>2. PortalTypeOK'
  BY <1>1 DEF PortalTypeOK, CallRecord
<1>3. Hands'
  BY DEF Hands, OneOpener, Placed, Fingers, PortalTypeOK
<1>4. Control'
  <2> USE DEF Control, OneOpener, Placed, Hands, PortalTypeOK
  <2>1. NoControlAfterEnd' /\ Ended'
    BY DEF NoControlAfterEnd, Ended
  <2>2. NoStraySession'
    BY DEF NoStraySession, TokenUse, OpenerAlone
  <2>3. StuckIsClosed'
    BY DEF StuckIsClosed
  <2> QED
    BY <2>1, <2>2, <2>3
<1>5. TokenUse'
  BY DEF TokenUse, TokenIsSingleUse, OpenerAlone, Known, Recorded, Good, OneOpener, Hands
<1> QED
  BY <1>2, <1>3, <1>4, <1>5

\* Its token is kept although the session is closed.
LEMMA PublishFailsKeeps == ASSUME NEW t \in Tool, PortalInv, PublishFails(t) PROVE PortalInv'
<1> USE DEF PortalInv, PublishFails, Ends, Shut, NoCallYet, IsOpen
<1>1. tool' \in [Tool -> CallRecord]
  <2>1. tool \in [Tool -> CallRecord]
    BY DEF PortalTypeOK, CallRecord
  <2> QED
    BY <2>1, EndIsTyped
<1>2. PortalTypeOK'
  BY <1>1 DEF PortalTypeOK, CallRecord, Hands, Placed
<1>3. Hands'
  BY DEF Hands, OneOpener, Placed, Fingers, PortalTypeOK
<1>4. Control'
  BY DEF Control, NoControlAfterEnd, NoStraySession, StuckIsClosed, Ended, OneOpener, Hands
<1>5. TokenUse'
  BY DEF TokenUse, TokenIsSingleUse, OpenerAlone, Known, Recorded, Good, OneOpener, Hands, PortalTypeOK
<1> QED
  BY <1>2, <1>3, <1>4, <1>5

-----------------------------------------------------------------------------
(* Input, the compositor and the end of the process.                       *)

\* Only keys change.
LEMMA NotifiedKeeps == ASSUME NEW t \in Tool, PortalInv, Notified(t) PROVE PortalInv'
<1> USE DEF PortalInv, Notified, Ends, NoCallYet
<1>1. tool' \in [Tool -> CallRecord]
  BY KeyMoves DEF Hands
<1>2. PortalTypeOK'
  BY <1>1 DEF PortalTypeOK, CallRecord
<1>3. Hands'
  <2> USE DEF Hands, OneOpener, Placed, Fingers, PortalTypeOK
  <2>1. tool[t].at \in {"press", "release"} /\ tool'[t].at \in {"idle", "press", "release"}
    BY KeyMoves DEF Follows, Notified
  <2>2. tool'[t].at # "idle" => tool'[t].sess = tool[t].sess /\ tool'[t].keys = tool[t].keys
    BY KeyMoves DEF Follows
  <2>3. tool'[t].at = "idle" => tool'[t].sess = 0 /\ tool'[t].down = 0
    BY KeyMoves DEF Follows
  <2>4. /\ tool'[t].at = "release" => tool'[t].down # 0
        /\ tool'[t].at = "press" => tool'[t].down = 0 \/ tool'[t].down < tool'[t].keys
    BY KeyMoves DEF Follows
  <2>5. \A x \in Tool : x # t => tool'[x] = tool[x]
    BY KeyMoves DEF Follows
  <2>6. OneOpener'
    BY <2>1, <2>5
  <2>7. Placed'
    BY <2>1, <2>2, <2>3, <2>5
  <2>8. Fingers'
    BY <2>1, <2>3, <2>4, <2>5
  <2> QED
    BY <2>6, <2>7, <2>8
<1>4. Control'
  <2>1. /\ \A x \in Tool : x # t => tool'[x] = tool[x]
        /\ tool'[t].at = "idle" \/ tool'[t].sess = tool[t].sess
        /\ tool'[t].at \notin Opening /\ ~tool[t].canceled /\ tool[t].at \in {"press", "release"}
    BY KeyMoves DEF Follows, Hands
  <2>2. /\ remote' = remote /\ doomed' = doomed /\ portal' = portal /\ portalMu' = portalMu
        /\ flagged' \subseteq flagged \cup Session /\ flagged \subseteq flagged'
        /\ \A s \in Session : desk'[s] = desk[s]
    BY DEF PortalTypeOK
  <2>3. portalMu # NoTool => portalMu # t /\ portalMu \in Tool
    BY <2>1 DEF PortalTypeOK, Hands, OneOpener
  <2>4. NoControlAfterEnd' /\ StuckIsClosed'
    BY <2>2 DEF Control, NoControlAfterEnd, StuckIsClosed
  <2>5. NoStraySession'
    BY <2>1, <2>2, <2>3 DEF Control, NoStraySession
  <2>6. remote = "up"
    BY <2>1 DEF Control, Ended, PortalTypeOK
  <2>7. Ended'
    BY <2>2, <2>6 DEF Ended
  <2> QED
    BY <2>4, <2>5, <2>7 DEF Control
<1>5. TokenUse'
  BY DEF TokenUse, TokenIsSingleUse, OpenerAlone, Known, Recorded, Good, OneOpener, Hands, PortalTypeOK
<1> QED
  BY <1>2, <1>3, <1>4, <1>5

LEMMA InputDoneKeeps == ASSUME NEW t \in Tool, PortalInv, InputDone(t) PROVE PortalInv'
<1> USE DEF PortalInv, InputDone, Ends, NoCallYet
<1>1. tool' \in [Tool -> CallRecord]
  <2>1. tool \in [Tool -> CallRecord]
    BY DEF PortalTypeOK, CallRecord
  <2> QED
    BY <2>1, EndIsTyped
<1>2. PortalTypeOK'
  BY <1>1 DEF PortalTypeOK, CallRecord
<1>3. Hands'
  BY DEF Hands, OneOpener, Placed, Fingers
<1>4. Control'
  BY DEF Control, NoControlAfterEnd, NoStraySession, StuckIsClosed, Ended, OneOpener, Hands
<1>5. TokenUse'
  BY DEF TokenUse, TokenIsSingleUse, OpenerAlone, Known, Recorded, Good, OneOpener, Hands
<1> QED
  BY <1>2, <1>3, <1>4, <1>5

\* Keys may stay down, and the session is marked.
LEMMA NotifyFailsKeeps == ASSUME NEW t \in Tool, PortalInv, NotifyFails(t) PROVE PortalInv'
<1> USE DEF PortalInv, NotifyFails, NotifyFailsMarking, Ends, InUse, NoCallYet
<1>1. tool' \in [Tool -> CallRecord]
  <2>1. tool \in [Tool -> CallRecord]
    BY DEF PortalTypeOK, CallRecord
  <2> QED
    BY <2>1, EndIsTyped
<1>2. PortalTypeOK'
  BY <1>1 DEF PortalTypeOK, CallRecord, Hands, Placed
<1>3. Hands'
  BY DEF Hands, OneOpener, Placed, Fingers
<1>4. Control'
  BY DEF Control, NoControlAfterEnd, NoStraySession, StuckIsClosed, Ended, OneOpener, Hands
<1>5. TokenUse'
  BY DEF TokenUse, TokenIsSingleUse, OpenerAlone, Known, Recorded, Good, OneOpener, Hands
<1> QED
  BY <1>2, <1>3, <1>4, <1>5

LEMMA DeskClosesKeeps == ASSUME NEW s \in Session, PortalInv, DeskCloses(s) PROVE PortalInv'
<1> USE DEF PortalInv, DeskCloses, Shut, IsOpen
<1>2. PortalTypeOK'
  BY DEF PortalTypeOK
<1>3. Hands'
  BY DEF Hands, OneOpener, Placed, Fingers
<1>4. Control'
  BY DEF Control, NoControlAfterEnd, NoStraySession, StuckIsClosed, Ended
<1>5. TokenUse'
  BY DEF TokenUse, TokenIsSingleUse, OpenerAlone, Known, Recorded, Good, OneOpener, Placed, Hands, PortalTypeOK
<1> QED
  BY <1>2, <1>3, <1>4, <1>5

LEMMA WatchClosedKeeps == ASSUME NEW s \in Session, PortalInv, WatchClosed(s) PROVE PortalInv'
<1> USE DEF PortalInv, WatchClosed
<1>2. PortalTypeOK'
  BY DEF PortalTypeOK
<1>3. Hands'
  BY DEF Hands, OneOpener, Placed, Fingers
<1>4. Control'
  BY DEF Control, NoControlAfterEnd, NoStraySession, StuckIsClosed, Ended
<1>5. TokenUse'
  BY DEF TokenUse, TokenIsSingleUse, OpenerAlone, Known, Recorded, Good
<1> QED
  BY <1>2, <1>3, <1>4, <1>5

\* The token in the file is all that survives.
LEMMA PortalCrashKeeps == ASSUME PortalInv, PortalCrash PROVE PortalInv'
<1> USE DEF PortalInv, PortalCrash, Shut, NoCallYet, IsOpen
<1>1. tool' \in [Tool -> CallRecord]
  BY NoCallIsTyped
<1>a. desk' \in [Session -> {"none", "created", "started", "closed"}] /\ flagged' \subseteq Session
  BY DEF PortalTypeOK
<1>b. stuck' = {}
  BY DEF PortalTypeOK
<1>c. portalMu' = NoTool /\ token' = 0 /\ tokenFile' \in 0..MaxSession /\ loaded' \in BOOLEAN /\ persistent' \in BOOLEAN
  BY DEF PortalTypeOK
<1>d. unremoved' \subseteq Session /\ presented' \subseteq Session /\ again' \subseteq Session /\ doomed' = {} /\ portal' = 0 /\ remote' = "down"
  BY DEF PortalTypeOK
<1>2. PortalTypeOK'
  BY <1>1, <1>a, <1>b, <1>c, <1>d DEF PortalTypeOK, CallRecord
<1>3. Hands'
  BY DEF Hands, OneOpener, Placed, Fingers
<1>4. Control'
  BY DEF Control, NoControlAfterEnd, NoStraySession, StuckIsClosed, Ended, PortalTypeOK
<1>5. TokenUse'
  BY DEF TokenUse, TokenIsSingleUse, OpenerAlone, Known, Recorded, Good, PortalTypeOK
<1> QED
  BY <1>2, <1>3, <1>4, <1>5

LEMMA PortalInitially == PortalInit => PortalInv
<1> SUFFICES ASSUME PortalInit PROVE PortalInv
  OBVIOUS
<1> USE DEF PortalInit
<1>1. tool \in [Tool -> CallRecord] /\ \A t \in Tool : tool[t] = NoCallYet
  BY NoCallIsTyped
<1>2. PortalTypeOK
  <2>1. desk \in [Session -> {"none", "created", "started", "closed"}] /\ portalMu \in Tool \cup {NoTool}
    OBVIOUS
  <2>2. {portal, token, tokenFile} \subseteq 0..MaxSession
    OBVIOUS
  <2>3. \A S \in {flagged, doomed, unremoved, presented, again, stuck} : S \subseteq Session
    OBVIOUS
  <2>4. persistent \in BOOLEAN /\ loaded \in BOOLEAN /\ remote \in {"up", "down", "ending", "ended"}
    OBVIOUS
  <2>5. tool \in [Tool -> CallRecord]
    BY <1>1
  <2> HIDE DEF PortalInit
  <2> QED
    BY <2>1, <2>2, <2>3, <2>4, <2>5 DEF PortalTypeOK, CallRecord
<1>3. Hands
  BY <1>1 DEF Hands, OneOpener, Placed, Fingers, NoCallYet
<1>4. Control
  BY <1>1 DEF Control, NoControlAfterEnd, NoStraySession, StuckIsClosed, Ended, NoCallYet
<1>5. TokenUse
  BY DEF TokenUse, TokenIsSingleUse, OpenerAlone, Known, Recorded, Good
<1> QED
  BY <1>2, <1>3, <1>4, <1>5 DEF PortalInv

LEMMA PortalStutters == PortalInv /\ UNCHANGED portalVars => PortalInv'
<1> SUFFICES ASSUME PortalInv, UNCHANGED portalVars PROVE PortalInv'
  OBVIOUS
<1> USE DEF PortalInv, portalVars
<1>1. PortalTypeOK'
  BY DEF PortalTypeOK
<1>2. Hands'
  BY DEF Hands, OneOpener, Placed, Fingers
<1>3. Control'
  BY DEF Control, NoControlAfterEnd, NoStraySession, StuckIsClosed, Ended
<1>4. TokenUse'
  BY DEF TokenUse, TokenIsSingleUse, OpenerAlone, Known, Recorded, Good
<1> QED
  BY <1>1, <1>2, <1>3, <1>4

LEMMA PortalStep == PortalInv /\ [PortalNext]_portalVars => PortalInv'
<1> SUFFICES ASSUME PortalInv, PortalNext PROVE PortalInv'
  BY PortalStutters
<1>1. ASSUME NEW t \in Tool, ToolStep(t) PROVE PortalInv'
  BY <1>1, UseOpenKeeps, NoPortalKeeps, OpenKeeps, CreatedKeeps, SelectedKeeps, StartedKeeps, OpenFailsKeeps,
     PublishKeeps, PublishFailsKeeps, NotifiedKeeps, InputDoneKeeps, NotifyFailsKeeps, Zenon DEF ToolStep
<1>2. CASE \E t \in Tool : ToolCall(t) \/ CancelTool(t) \/ ToolStep(t)
  BY <1>1, <1>2, ToolCallKeeps, CancelToolKeeps, Zenon
<1>3. CASE RemoteLost \/ RemoteBack \/ EndTakes \/ EndCloses
  BY <1>3, RemoteLostKeeps, RemoteBackKeeps, EndTakesKeeps, EndClosesKeeps, Zenon
<1>4. CASE PortalCrash \/ \E s \in Session : DeskCloses(s) \/ WatchClosed(s)
  BY <1>4, DeskClosesKeeps, WatchClosedKeeps, PortalCrashKeeps, Zenon
<1> QED
  BY <1>2, <1>3, <1>4, Zenon DEF PortalNext

\* The portal session, the calls that use it and the restore token stay as
\* PortalInv says, however calls, their cancellation, the compositor, the remote
\* session's end and restarts of the Agent interleave.
THEOREM PortalInvariant == PortalSpec => []PortalInv
<1> QED
  BY PortalInitially, PortalStep, PTL DEF PortalSpec

\* Control of the desktop ends with what authorized it and is not inherited by
\* accident (EndRemoteSession, newPortalRemoteDesktopSession, finishPortalKeys):
\* for any number of calls and of sessions.
THEOREM ControlEnds == PortalSpec => []PortalHolds
<1>1. PortalInv => PortalHolds
  BY DEF PortalInv, Control, TokenUse, PortalHolds
<1> QED
  BY <1>1, PortalInvariant, PTL

HIDE DEF Session, ToolPlace, Opening, tokens

-----------------------------------------------------------------------------
(* Workspace: the inductive invariant.                                     *)

Here(n)  == dir[n] # NoFile
Bringing == {"write", "create"}

\* A file and a content are under one name at most, and are not new.
Ids ==
  /\ \A n \in Name : Here(n) => dir[n].id < fresh /\ dir[n].ver < fresh
  /\ \A m, n \in Name : Here(m) /\ Here(n) /\ m # n => dir[m].id # dir[n].id /\ dir[m].ver # dir[n].ver

\* What was denied was written before.
Past == \A v \in denied : v < fresh

\* Which changes reach which stage, and with what.
Stages ==
  \A c \in Call :
    LET s == call[c] IN
    /\ s.at = "staged" => s.kind \in Bringing
    /\ s.at \in {"commit", "swapped", "restore"} => s.kind \in {"write", "delete", "move", "replace"}
    /\ s.at = "verified" => s.kind \in {"write", "delete", "replace"}
    /\ s.at = "discard" => s.kind = "write"
    /\ s.at \in {"checked", "opened"} => s.kind = "append"
    /\ s.at \in {"idle", "begin"} \/ s.kind \notin Bringing \cup {"append"} => s.own = 0
    /\ s.at = "opened" => s.old \in Ver /\ s.old < fresh
    /\ s.own < fresh

\* Until it is swapped or renamed the temporary file is the call's alone, also
\* beside those who have a file open.
Private ==
  \A c \in Call :
    call[c].at \in {"staged", "commit"} /\ call[c].kind \in Bringing =>
      /\ dir[c] = [id |-> call[c].own, ver |-> call[c].own]
      /\ \A a \in Call : call[a].at = "opened" => call[a].old # call[c].own

\* What a call may rely on after its swap: the swap can be undone, what it removes
\* is what it expected, and what it discards is its own.
Reversible(c) ==
  call[c].at \in {"swapped", "restore"} /\ call[c].kind = "write" =>
    Has(call[c].path, call[c].own) /\ Here(c)
Expected(c) ==
  call[c].at = "verified" /\ Here(Spare(c)) =>
    dir[Spare(c)].ver \in {call[c].ver, call[c].old, call[c].own}
Discards(c)   == call[c].at = "discard" => Has(c, call[c].own)
Exchanged     == \A c \in Call \ disturbed : Reversible(c) /\ Expected(c) /\ Discards(c)

FilesInv == WorkspaceTypeOK /\ NothingIsLost /\ DeniedIsGone /\ Past /\ Ids /\ Stages /\ Private /\ Exchanged

ChangeRecord == [at : Stage, kind : Kind, path : Path, to : Path,
            ver : 0..MaxVer, old : 0..MaxVer, own : 0..MaxVer]

USE MaxVerAssumption, NamesAssumption
    DEF Name, Ver, File, Kind, Stage, Bringing, Swapped, Here, Has, Kept, Reported, Spare, Uses

-----------------------------------------------------------------------------
(* What every step is made of.                                             *)

\* A call that ends.
LEMMA NoChangeIsTyped == NoCall \in ChangeRecord
<1>1. (CHOOSE p \in Path : TRUE) \in Path
  OBVIOUS
<1> QED
  BY <1>1 DEF NoCall, ChangeRecord

LEMMA EndCallIsTyped ==
  ASSUME call \in [Call -> ChangeRecord], NEW c \in Call, EndCall(c)
  PROVE  call' \in [Call -> ChangeRecord]
  BY NoChangeIsTyped DEF EndCall

\* What a call may leave in the histories when it ends: an error that comes late
\* denies nothing that is still there.
Reports(c, v) == (EndCall(c) /\ Reported) \/ DenyCall(c) \/ DenyLate(c, v)

LEMMA ReportIsTyped ==
  ASSUME WorkspaceTypeOK, NEW c \in Call, NEW v \in 0..MaxVer, Reports(c, v)
  PROVE  denied' \subseteq Ver /\ effective' \subseteq Ver
<1>1. call[c].own \in Ver \cup {0} /\ denied \subseteq Ver /\ effective \subseteq Ver
  BY DEF WorkspaceTypeOK
<1>2. v \in Ver \cup {0}
  OBVIOUS
<1>3. \A d \in denied' : d \in denied \/ (d # 0 /\ d \in {v, call[c].own})
  BY DEF Reports, Reported, DenyCall, DenyLate
<1>4. \A d \in effective' : d \in effective \/ (d # 0 /\ d = v)
  BY DEF Reports, Reported, DenyCall, DenyLate
<1> HIDE DEF Ver
<1> QED
  BY <1>1, <1>2, <1>3, <1>4

LEMMA ReportKeepsPast ==
  ASSUME FilesInv, NEW c \in Call, NEW v \in 0..MaxVer, v < fresh', fresh <= fresh', fresh' \in Nat,
         Reports(c, v)
  PROVE  Past'
<1>1. \A d \in denied' : d \in denied \/ d \in {v, call[c].own}
  BY DEF Reports, Reported, DenyCall, DenyLate
<1>2. \A d \in denied : d < fresh'
  BY DEF FilesInv, Past, WorkspaceTypeOK
<1>3. call[c].own < fresh'
  BY DEF FilesInv, Stages, WorkspaceTypeOK
<1> QED
  BY <1>1, <1>2, <1>3 DEF Past

LEMMA LateIsEffective ==
  ASSUME NEW c \in Call, NEW v, (EndCall(c) /\ Reported) \/ DenyLate(c, v)
  PROVE  denied' \ effective' \subseteq denied \ effective
  BY DEF Reported, DenyLate

\* A call that goes on, with a file of its own or an open one.
LEMMA StageFieldsAreTyped ==
  ASSUME NEW q \in ChangeRecord, NEW at \in Stage, NEW v \in Ver
  PROVE  /\ [q EXCEPT !.at = at] \in ChangeRecord
         /\ [q EXCEPT !.at = at, !.own = v] \in ChangeRecord
         /\ [q EXCEPT !.at = at, !.old = v] \in ChangeRecord
         /\ [q EXCEPT !.at = at, !.old = v, !.own = v] \in ChangeRecord
<1>1. v \in 0..MaxVer
  OBVIOUS
<1> HIDE DEF Stage, Ver, Kind
<1>2. [q EXCEPT !.at = at] \in ChangeRecord
  BY DEF ChangeRecord
<1>3. [q EXCEPT !.at = at, !.own = v] \in ChangeRecord
  BY <1>1 DEF ChangeRecord
<1>4. [q EXCEPT !.at = at, !.old = v] \in ChangeRecord
  BY <1>1 DEF ChangeRecord
<1>5. [q EXCEPT !.at = at, !.old = v, !.own = v] \in ChangeRecord
  BY <1>1 DEF ChangeRecord
<1> QED
  BY <1>2, <1>3, <1>4, <1>5

LEMMA StageIsTyped ==
  ASSUME call \in [Call -> ChangeRecord], NEW c \in Call, NEW at \in Stage, NEW v \in Ver
  PROVE  /\ [call EXCEPT ![c].at = at] \in [Call -> ChangeRecord]
         /\ [call EXCEPT ![c] = [@ EXCEPT !.at = at, !.own = v]] \in [Call -> ChangeRecord]
         /\ [call EXCEPT ![c] = [@ EXCEPT !.at = at, !.old = v]] \in [Call -> ChangeRecord]
         /\ [call EXCEPT ![c] = [@ EXCEPT !.at = at, !.old = v, !.own = v]] \in [Call -> ChangeRecord]
<1>1. \A q \in ChangeRecord : [call EXCEPT ![c] = q] \in [Call -> ChangeRecord]
  OBVIOUS
<1>2. call[c] \in ChangeRecord
  OBVIOUS
<1> HIDE DEF Stage, Ver
<1> QED
  BY <1>1, <1>2, StageFieldsAreTyped, Zenon

\* Whoever changes names spares the undisturbed calls beside it.
LEMMA OthersKeep ==
  ASSUME WorkspaceTypeOK, Exchanged, NEW x \in Call \cup {NoFile}, NEW names, Disturb(x, names),
         \A n \in Name \ (names \cup {x}) : dir'[n] = dir[n],
         \A d \in Call : d # x => call'[d] = call[d]
  PROVE  \A d \in Call \ disturbed' : d # x => (Reversible(d) /\ Expected(d) /\ Discards(d))'
<1> SUFFICES ASSUME NEW d \in Call, d \notin disturbed', d # x
             PROVE  (Reversible(d) /\ Expected(d) /\ Discards(d))'
  OBVIOUS
<1>1. CASE call[d].at \in Swapped
  <2>1. d \notin disturbed /\ names \cap Uses(d) = {}
    BY <1>1 DEF Disturb, WorkspaceTypeOK
  <2>2. call[d].path \in Path /\ call[d].to \in Path
    BY DEF WorkspaceTypeOK
  <2>3. \A n \in Uses(d) : n \in Name \ (names \cup {x})
    BY <2>1, <2>2
  <2>5. dir'[d] = dir[d] /\ dir'[call[d].path] = dir[call[d].path]
    BY <2>3
  <2>4. Reversible(d) /\ Expected(d) /\ Discards(d)
    BY <2>1 DEF Exchanged
  <2> QED
    BY <2>4, <2>5 DEF Reversible, Expected, Discards
<1>2. CASE call[d].at \notin Swapped
  BY <1>2 DEF Reversible, Expected, Discards
<1> QED
  BY <1>1, <1>2

\* A call that ends when its change is complete, whatever it reports.
LEMMA ConcludesKeeps ==
  ASSUME FilesInv, NEW c \in Call, Concludes(c), fresh' = fresh
  PROVE  /\ denied' \subseteq Ver /\ effective' \subseteq Ver /\ Past'
         /\ denied' \ effective' \subseteq denied \ effective
         /\ call' \in [Call -> ChangeRecord] /\ call' = [call EXCEPT ![c] = NoCall]
<1>1. call[c].own \in 0..MaxVer /\ call[c].own < fresh' /\ fresh <= fresh' /\ fresh' \in Nat
  BY DEF FilesInv, WorkspaceTypeOK, Stages
<1>2. Reports(c, call[c].own) /\ EndCall(c)
  BY DEF Concludes, Reports, DenyLate
<1>3. Past'
  BY <1>1, <1>2, ReportKeepsPast
<1>4. denied' \subseteq Ver /\ effective' \subseteq Ver
  BY <1>1, <1>2, ReportIsTyped DEF FilesInv
<1>5. denied' \ effective' \subseteq denied \ effective
  BY LateIsEffective DEF Concludes
<1>6. call' \in [Call -> ChangeRecord]
  BY <1>2, EndCallIsTyped DEF FilesInv, WorkspaceTypeOK, ChangeRecord
<1> QED
  BY <1>2, <1>3, <1>4, <1>5, <1>6 DEF EndCall

\* Exchanging two names leaves every file under one name.
LEMMA SwapKeepsIds ==
  ASSUME WorkspaceTypeOK, Ids, NEW a \in Name, NEW b \in Name, dir' = Swap(a, b), fresh' = fresh
  PROVE  Ids'
<1> DEFINE other(n) == IF n = a THEN b ELSE IF n = b THEN a ELSE n
<1>1. \A n \in Name : other(n) \in Name /\ dir'[n] = dir[other(n)]
  BY DEF Swap
<1>2. \A m, n \in Name : m # n => other(m) # other(n)
  OBVIOUS
<1> HIDE DEF other, Name
<1> QED
  BY <1>1, <1>2 DEF Ids

LEMMA EditKeeps ==
  ASSUME NEW p \in Path, FilesInv, Edit(p)
  PROVE  FilesInv'
<1> USE DEF FilesInv, Edit, New
<1>1. WorkspaceTypeOK'
  BY DEF WorkspaceTypeOK, Disturb
<1>2. Past'
  BY DEF Past, WorkspaceTypeOK
<1>3. NothingIsLost' /\ DeniedIsGone'
  BY DEF NothingIsLost, DeniedIsGone, Past, WorkspaceTypeOK
<1>4. Ids'
  BY DEF Ids, WorkspaceTypeOK
<1>5. Stages'
  BY DEF Stages, WorkspaceTypeOK
<1>6. Private'
  BY DEF Private, WorkspaceTypeOK
<1>7. Exchanged'
  <2>1. \A n \in Name \ ({p} \cup {NoFile}) : dir'[n] = dir[n]
    BY DEF WorkspaceTypeOK
  <2>2. \A d \in Call : d # NoFile => call'[d] = call[d]
    BY DEF WorkspaceTypeOK
  <2>3. \A d \in Call \ disturbed' : d # NoFile => (Reversible(d) /\ Expected(d) /\ Discards(d))'
    BY <2>1, <2>2, OthersKeep
  <2> QED
    BY <2>3 DEF Exchanged
<1> QED
  BY <1>1, <1>2, <1>3, <1>4, <1>5, <1>6, <1>7

LEMMA RemoveKeeps ==
  ASSUME NEW p \in Path, FilesInv, Remove(p)
  PROVE  FilesInv'
<1> USE DEF FilesInv, Remove, Drop
<1>1. WorkspaceTypeOK'
  BY DEF WorkspaceTypeOK, Disturb
<1>2. Past'
  BY DEF Past, WorkspaceTypeOK
<1>3. NothingIsLost' /\ DeniedIsGone'
  BY DEF NothingIsLost, DeniedIsGone, WorkspaceTypeOK
<1>4. Ids'
  BY DEF Ids, WorkspaceTypeOK
<1>5. Stages'
  BY DEF Stages, WorkspaceTypeOK
<1>6. Private'
  BY DEF Private, WorkspaceTypeOK
<1>7. Exchanged'
  <2>1. \A n \in Name \ ({p} \cup {NoFile}) : dir'[n] = dir[n]
    BY DEF WorkspaceTypeOK
  <2>2. \A d \in Call : d # NoFile => call'[d] = call[d]
    BY DEF WorkspaceTypeOK
  <2>3. \A d \in Call \ disturbed' : d # NoFile => (Reversible(d) /\ Expected(d) /\ Discards(d))'
    BY <2>1, <2>2, OthersKeep
  <2> QED
    BY <2>3 DEF Exchanged
<1> QED
  BY <1>1, <1>2, <1>3, <1>4, <1>5, <1>6, <1>7

LEMMA BeginCallKeeps ==
  ASSUME NEW c \in Call, NEW kind \in Kind, FilesInv, BeginCall(c, kind)
  PROVE  FilesInv'
<1> USE DEF FilesInv, BeginCall
<1>1. call' \in [Call -> ChangeRecord]
  <2>1. PICK p, q \in Path, v, w \in 1..(fresh - 1) :
          call' = [call EXCEPT ![c] = [NoCall EXCEPT !.at = "begin", !.kind = kind, !.path = p, !.to = q,
                                                     !.ver = IF kind = "create" THEN 0 ELSE v,
                                                     !.old = IF kind = "replace" THEN w ELSE 0]]
    BY Zenon
  <2> DEFINE k == IF kind = "create" THEN 0 ELSE v
             m == IF kind = "replace" THEN w ELSE 0
  <2>4. k \in 0..MaxVer /\ m \in 0..MaxVer
    BY DEF WorkspaceTypeOK
  <2> HIDE DEF k, m
  <2>2. [NoCall EXCEPT !.at = "begin", !.kind = kind, !.path = p, !.to = q, !.ver = k, !.old = m] \in ChangeRecord
    BY NoChangeIsTyped, <2>4 DEF ChangeRecord
  <2>3. call \in [Call -> ChangeRecord]
    BY DEF WorkspaceTypeOK, ChangeRecord
  <2> QED
    BY <2>1, <2>2, <2>3 DEF k, m
<1>2. WorkspaceTypeOK'
  BY <1>1 DEF WorkspaceTypeOK, ChangeRecord, Disturb
<1>3. Past'
  BY DEF Past, WorkspaceTypeOK
<1>4. NothingIsLost' /\ DeniedIsGone'
  BY DEF NothingIsLost, DeniedIsGone, WorkspaceTypeOK
<1>5. Ids'
  BY DEF Ids, WorkspaceTypeOK
<1>6. Stages'
  BY DEF Stages, WorkspaceTypeOK, NoCall
<1>7. Private'
  BY DEF NoCall, Private, WorkspaceTypeOK
<1>8. Exchanged'
  BY DEF NoCall, Exchanged, Reversible, Expected, Discards, Disturb, WorkspaceTypeOK
<1> QED
  BY <1>2, <1>3, <1>4, <1>5, <1>6, <1>7, <1>8

LEMMA AbandonKeeps ==
  ASSUME NEW c \in Call, FilesInv, Abandon(c)
  PROVE  FilesInv'
<1> USE DEF FilesInv, Abandon, Drop
<1>1. call' \in [Call -> ChangeRecord]
  <2>1. call \in [Call -> ChangeRecord]
    BY DEF WorkspaceTypeOK, ChangeRecord
  <2> QED
    BY <2>1, EndCallIsTyped DEF DenyCall, DenyLate
<1>2. denied' \subseteq Ver /\ effective' \subseteq Ver /\ lost' \subseteq [by : Kind, ver : Ver] /\ disturbed' \subseteq Call
  <2>1. call[c].own \in 0..MaxVer
    BY DEF WorkspaceTypeOK
  <2>2. denied' \subseteq Ver /\ effective' \subseteq Ver
    BY <2>1, ReportIsTyped DEF Reports
  <2>3. lost' \subseteq [by : Kind, ver : Ver]
    BY DEF WorkspaceTypeOK
  <2>4. disturbed' \subseteq Call
    BY DEF WorkspaceTypeOK, Disturb
  <2> QED
    BY <2>2, <2>3, <2>4
<1>3. dir' \in [Name -> File \cup {NoFile}]
  BY DEF WorkspaceTypeOK
<1>4. WorkspaceTypeOK'
  BY <1>1, <1>2, <1>3 DEF WorkspaceTypeOK, ChangeRecord
<1>5. Past'
  <2>1. call[c].own \in 0..MaxVer /\ call[c].own < fresh' /\ fresh <= fresh' /\ fresh' \in Nat
    BY DEF WorkspaceTypeOK, Stages
  <2> QED
    BY <2>1, ReportKeepsPast DEF Reports
<1> USE DEF EndCall, NoCall
<1>6. NothingIsLost' /\ DeniedIsGone'
  <2>1. CASE call[c].kind = "append"
    <3>1. denied' \ effective' \subseteq denied \ effective
      BY <2>1, LateIsEffective
    <3> QED
      BY <2>1, <3>1 DEF NothingIsLost, DeniedIsGone, WorkspaceTypeOK
  <2>2. CASE call[c].kind # "append"
    <3>1. denied' \subseteq denied \cup ({call[c].own} \ {0}) /\ effective' = effective
      BY <2>2 DEF DenyCall
    <3>2. ASSUME call[c].own # 0, NEW n \in Name PROVE dir'[n] # NoFile => dir'[n].ver # call[c].own
      <4>1. call[c].at \in {"staged", "commit"} /\ call[c].kind \in Bringing
        BY <2>2, <3>2 DEF Stages
      <4> QED
        BY <4>1 DEF Private, Ids, WorkspaceTypeOK
    <3>3. \A v \in denied \ effective, n \in Name : dir'[n] # NoFile => dir'[n].ver # v
      BY DEF DeniedIsGone, WorkspaceTypeOK
    <3> QED
      BY <3>1, <3>2, <3>3 DEF NothingIsLost, DeniedIsGone
  <2> QED
    BY <2>1, <2>2
<1> USE DEF DenyCall, DenyLate
<1>7. Ids'
  BY DEF Ids, WorkspaceTypeOK
<1>8. Stages'
  BY DEF Stages, WorkspaceTypeOK
<1>9. Private'
  BY DEF Private, WorkspaceTypeOK
<1>10. Exchanged'
  BY DEF Exchanged, Reversible, Expected, Discards, Disturb, WorkspaceTypeOK
<1> QED
  BY <1>4, <1>5, <1>6, <1>7, <1>8, <1>9, <1>10

LEMMA Stage1Keeps ==
  ASSUME NEW c \in Call, FilesInv, Stage1(c)
  PROVE  FilesInv'
<1> USE DEF FilesInv, Stage1, New
<1>1. call' \in [Call -> ChangeRecord]
  <2>1. call \in [Call -> ChangeRecord] /\ fresh \in Ver
    BY DEF WorkspaceTypeOK, ChangeRecord
  <2> QED
    BY <2>1, StageIsTyped
<1>2. WorkspaceTypeOK'
  BY <1>1 DEF WorkspaceTypeOK, ChangeRecord, Disturb
<1>3. Past'
  BY DEF Past, Ids, Stages, WorkspaceTypeOK
<1>4. NothingIsLost' /\ DeniedIsGone'
  BY DEF NothingIsLost, DeniedIsGone, Past, WorkspaceTypeOK, Ids, Stages, Private, Exchanged, Reversible, Expected, Discards
<1>5. Ids'
  BY DEF Ids, Stages, WorkspaceTypeOK
<1>6. Stages'
  BY DEF Stages, WorkspaceTypeOK
<1>7. Private'
  BY DEF Private, Stages, Ids, WorkspaceTypeOK
<1>8. Exchanged'
  BY DEF Exchanged, Reversible, Expected, Discards, Disturb, WorkspaceTypeOK
<1> QED
  BY <1>2, <1>3, <1>4, <1>5, <1>6, <1>7, <1>8

LEMMA CheckKeeps ==
  ASSUME NEW c \in Call, FilesInv, Check(c)
  PROVE  FilesInv'
<1> USE DEF FilesInv, Check, CallAt
<1>1. WorkspaceTypeOK'
  BY DEF WorkspaceTypeOK, Disturb
<1>2. Past'
  BY DEF Past, WorkspaceTypeOK
<1>3. NothingIsLost' /\ DeniedIsGone'
  BY DEF NothingIsLost, DeniedIsGone, WorkspaceTypeOK
<1>4. Ids'
  BY DEF Ids, WorkspaceTypeOK
<1>5. Stages'
  BY DEF Stages, WorkspaceTypeOK
<1>6. Private'
  BY DEF Private, WorkspaceTypeOK
<1>7. Exchanged'
  BY DEF Exchanged, Reversible, Expected, Discards, Disturb, WorkspaceTypeOK
<1> QED
  BY <1>1, <1>2, <1>3, <1>4, <1>5, <1>6, <1>7

LEMMA CreateCommitKeeps ==
  ASSUME NEW c \in Call, FilesInv, CreateCommit(c)
  PROVE  FilesInv'
<1> USE DEF FilesInv, CreateCommit, Swap
<1>0. /\ denied' \subseteq Ver /\ effective' \subseteq Ver /\ Past'
      /\ denied' \ effective' \subseteq denied \ effective
      /\ call' \in [Call -> ChangeRecord] /\ call' = [call EXCEPT ![c] = NoCall]
  BY ConcludesKeeps
<1>1. WorkspaceTypeOK'
  <2>1. lost' \subseteq [by : Kind, ver : Ver] /\ disturbed' \subseteq Call
    BY DEF WorkspaceTypeOK, Destroy, Disturb
  <2>2. dir' \in [Name -> File \cup {NoFile}]
    BY DEF WorkspaceTypeOK
  <2> QED
    BY <1>0, <2>1, <2>2 DEF WorkspaceTypeOK, ChangeRecord
<1>2. Past'
  BY <1>0
<1>3. NothingIsLost' /\ DeniedIsGone'
  <2>1. NothingIsLost'
    BY DEF NothingIsLost, Destroy
  <2> QED
    BY <1>0, <2>1 DEF DeniedIsGone, WorkspaceTypeOK
<1> USE <1>0 DEF NoCall
<1>4. Ids'
  BY DEF Ids, WorkspaceTypeOK
<1>5. Stages'
  BY DEF Stages, WorkspaceTypeOK
<1>6. Private'
  BY DEF Private, WorkspaceTypeOK
<1>7. Exchanged'
  <2>1. \A n \in Name \ ({call[c].path} \cup {c}) : dir'[n] = dir[n]
    BY DEF WorkspaceTypeOK
  <2>2. \A d \in Call : d # c => call'[d] = call[d]
    BY DEF WorkspaceTypeOK
  <2>3. \A d \in Call \ disturbed' : d # c => (Reversible(d) /\ Expected(d) /\ Discards(d))'
    BY <2>1, <2>2, OthersKeep
  <2>4. c \notin disturbed' => (Reversible(c) /\ Expected(c) /\ Discards(c))'
    BY DEF Reversible, Expected, Discards, Disturb, WorkspaceTypeOK
  <2> QED
    BY <2>3, <2>4 DEF Exchanged
<1> QED
  BY <1>1, <1>2, <1>3, <1>4, <1>5, <1>6, <1>7

LEMMA CommitSwapKeeps ==
  ASSUME NEW c \in Call, FilesInv, CommitSwap(c)
  PROVE  FilesInv'
<1> USE DEF FilesInv, CommitSwap, CallAt, Swap, From, To, Possible, Exchanges
<1>1. WorkspaceTypeOK'
  BY DEF WorkspaceTypeOK, Disturb
<1>2. Past'
  BY DEF Past, WorkspaceTypeOK
<1>3. NothingIsLost' /\ DeniedIsGone'
  BY DEF NothingIsLost, DeniedIsGone, WorkspaceTypeOK
<1>4. Ids'
  <2>1. From(c) \in Name /\ To(c) \in Name
    BY DEF WorkspaceTypeOK
  <2>2. WorkspaceTypeOK /\ Ids /\ dir' = Swap(From(c), To(c)) /\ fresh' = fresh
    OBVIOUS
  <2> HIDE DEF From, To, Swap, Name
  <2> QED
    BY <2>1, <2>2, SwapKeepsIds, Zenon
<1>5. Stages'
  BY DEF Stages, WorkspaceTypeOK
<1>6. Private'
  BY DEF Private, WorkspaceTypeOK
<1>7. Exchanged'
  <2>1. \A n \in Name \ ({From(c), To(c)} \cup {c}) : dir'[n] = dir[n]
    BY DEF WorkspaceTypeOK
  <2>2. \A d \in Call : d # c => call'[d] = call[d]
    BY DEF WorkspaceTypeOK
  <2>3. \A d \in Call \ disturbed' : d # c => (Reversible(d) /\ Expected(d) /\ Discards(d))'
    BY <2>1, <2>2, OthersKeep
  <2>4. c \notin disturbed' => (Reversible(c) /\ Expected(c) /\ Discards(c))'
    <3>1. call'[c].at = "swapped" /\ call'[c].kind = call[c].kind
          /\ call'[c].path = call[c].path /\ call'[c].own = call[c].own
      BY DEF WorkspaceTypeOK
    <3>2. (Expected(c) /\ Discards(c))'
      BY <3>1 DEF Expected, Discards
    <3>3. Reversible(c)'
      BY <3>1 DEF Reversible, Private, WorkspaceTypeOK
    <3> QED
      BY <3>2, <3>3
  <2> QED
    BY <2>3, <2>4 DEF Exchanged
<1> QED
  BY <1>1, <1>2, <1>3, <1>4, <1>5, <1>6, <1>7

LEMMA VerifyMatchesKeeps ==
  ASSUME NEW c \in Call, FilesInv, VerifyMatches(c)
  PROVE  FilesInv'
<1> USE DEF FilesInv, VerifyMatches, CallAt, EndCall, NoCall, AsExpected
<1>0. \/ /\ call' = [call EXCEPT ![c] = NoCall] /\ call' \in [Call -> ChangeRecord]
         /\ call[c].kind = "move"
      \/ call' = [call EXCEPT ![c].at = "verified"] /\ call[c].kind # "move"
  BY ConcludesKeeps
<1>1. denied' = denied /\ effective' = effective
  BY DEF Concludes, DenyLate, Stages
<1>2. WorkspaceTypeOK'
  BY <1>0, <1>1 DEF WorkspaceTypeOK, Disturb, ChangeRecord
<1>3. NothingIsLost' /\ DeniedIsGone' /\ Past'
  BY <1>1 DEF NothingIsLost, DeniedIsGone, WorkspaceTypeOK, Past
<1> USE <1>0
<1>4. Ids'
  BY DEF Ids, WorkspaceTypeOK
<1>5. Stages'
  BY DEF Stages, WorkspaceTypeOK
<1>6. Private'
  <2>1. /\ dir' = dir /\ call'[c].at \notin {"staged", "commit", "opened"}
        /\ \A d \in Call : d # c => call'[d] = call[d]
    BY DEF WorkspaceTypeOK
  <2>2. Private
    OBVIOUS
  <2> HIDE DEF FilesInv, VerifyMatches
  <2> QED
    BY <2>1, <2>2 DEF Private
<1>7. Exchanged'
  BY DEF Exchanged, Reversible, Expected, Discards, Disturb, Stages, WorkspaceTypeOK
<1> QED
  BY <1>1, <1>2, <1>3, <1>4, <1>5, <1>6, <1>7

LEMMA VerifyFailsKeeps ==
  ASSUME NEW c \in Call, FilesInv, VerifyFails(c)
  PROVE  FilesInv'
<1> USE DEF FilesInv, VerifyFails, CallAt
<1>1. WorkspaceTypeOK'
  BY DEF WorkspaceTypeOK, Disturb
<1>2. Past'
  BY DEF Past, WorkspaceTypeOK
<1>3. NothingIsLost' /\ DeniedIsGone'
  BY DEF NothingIsLost, DeniedIsGone, WorkspaceTypeOK
<1>4. Ids'
  BY DEF Ids, WorkspaceTypeOK
<1>5. Stages'
  BY DEF Stages, WorkspaceTypeOK
<1>6. Private'
  BY DEF Private, WorkspaceTypeOK
<1>7. Exchanged'
  BY DEF Exchanged, Reversible, Expected, Discards, Disturb, WorkspaceTypeOK
<1> QED
  BY <1>1, <1>2, <1>3, <1>4, <1>5, <1>6, <1>7

LEMMA RemoveFailsKeeps ==
  ASSUME NEW c \in Call, FilesInv, RemoveFails(c)
  PROVE  FilesInv'
<1> USE DEF FilesInv, RemoveFails, CallAt, NoCall
<1>0. \/ /\ call' = [call EXCEPT ![c] = NoCall] /\ call' \in [Call -> ChangeRecord]
         /\ denied' \subseteq Ver /\ effective' \subseteq Ver /\ Past'
         /\ denied' \ effective' \subseteq denied \ effective
      \/ call' = [call EXCEPT ![c].at = "restore"] /\ Reported /\ call[c].kind # "write"
  BY ConcludesKeeps DEF Concludes
<1>1. WorkspaceTypeOK'
  BY <1>0 DEF WorkspaceTypeOK, Disturb, ChangeRecord
<1>2. Past'
  BY <1>0 DEF Past, WorkspaceTypeOK
<1>3. NothingIsLost' /\ DeniedIsGone'
  BY <1>0 DEF NothingIsLost, DeniedIsGone, WorkspaceTypeOK
<1> USE <1>0
<1>4. Ids'
  BY DEF Ids, WorkspaceTypeOK
<1>5. Stages'
  BY DEF Stages, WorkspaceTypeOK
<1>6. Private'
  BY DEF Private, WorkspaceTypeOK
<1>7. Exchanged'
  BY DEF Exchanged, Reversible, Expected, Discards, Disturb, WorkspaceTypeOK
<1> QED
  BY <1>1, <1>2, <1>3, <1>4, <1>5, <1>6, <1>7

LEMMA CompleteKeeps ==
  ASSUME NEW c \in Call, FilesInv, Complete(c)
  PROVE  FilesInv'
<1> USE DEF FilesInv, Complete, Destroy, Drop
<1>0. /\ denied' \subseteq Ver /\ effective' \subseteq Ver /\ Past'
      /\ denied' \ effective' \subseteq denied \ effective
      /\ call' \in [Call -> ChangeRecord] /\ call' = [call EXCEPT ![c] = NoCall]
  BY ConcludesKeeps
<1>1. lost' \subseteq [by : Kind, ver : Ver] /\ disturbed' \subseteq Call
  BY DEF WorkspaceTypeOK, Disturb
<1>3. dir' \in [Name -> File \cup {NoFile}]
  BY DEF WorkspaceTypeOK
<1>4. WorkspaceTypeOK'
  BY <1>0, <1>1, <1>3 DEF WorkspaceTypeOK, ChangeRecord
<1>5. Past'
  BY <1>0
<1>6. NothingIsLost' /\ DeniedIsGone'
  BY <1>0 DEF NothingIsLost, DeniedIsGone, WorkspaceTypeOK, Exchanged, Expected
<1> USE <1>0 DEF NoCall
<1>7. Ids'
  BY DEF Ids, WorkspaceTypeOK
<1>8. Stages'
  BY DEF Stages, WorkspaceTypeOK
<1>9. Private'
  BY DEF Private, WorkspaceTypeOK
<1>10. Exchanged'
  <2>1. \A n \in Name \ ({Spare(c)} \cup {c}) : dir'[n] = dir[n]
    BY DEF WorkspaceTypeOK
  <2>2. \A d \in Call : d # c => call'[d] = call[d]
    BY DEF WorkspaceTypeOK
  <2>3. \A d \in Call \ disturbed' : d # c => (Reversible(d) /\ Expected(d) /\ Discards(d))'
    BY <2>1, <2>2, OthersKeep
  <2>4. c \notin disturbed' => (Reversible(c) /\ Expected(c) /\ Discards(c))'
    BY DEF Reversible, Expected, Discards, Disturb, WorkspaceTypeOK
  <2> QED
    BY <2>3, <2>4 DEF Exchanged
<1> QED
  BY <1>4, <1>5, <1>6, <1>7, <1>8, <1>9, <1>10

LEMMA RestoreKeeps ==
  ASSUME NEW c \in Call, FilesInv, Restore(c)
  PROVE  FilesInv'
<1> USE DEF FilesInv, Restore, CallAt, DenyCall, EndCall, NoCall, Swap, From, To, Possible, Exchanges
<1>1. WorkspaceTypeOK'
  BY DEF WorkspaceTypeOK, Disturb
<1>2. Past'
  BY DEF Past, Stages, WorkspaceTypeOK
<1>3. NothingIsLost' /\ DeniedIsGone'
  <2>1. denied' = denied /\ effective' = effective /\ lost' = lost
    BY DEF Stages
  <2>2. \A n \in Name : \E m \in Name : dir'[n] = dir[m]
    BY DEF WorkspaceTypeOK
  <2>3. NothingIsLost /\ DeniedIsGone
    OBVIOUS
  <2> HIDE DEF FilesInv, Restore, Name
  <2> QED
    BY <2>1, <2>2, <2>3 DEF NothingIsLost, DeniedIsGone
<1>4. Ids'
  <2>1. From(c) \in Name /\ To(c) \in Name
    BY DEF WorkspaceTypeOK
  <2>2. WorkspaceTypeOK /\ Ids /\ dir' = Swap(From(c), To(c)) /\ fresh' = fresh
    OBVIOUS
  <2> HIDE DEF From, To, Swap, Name
  <2> QED
    BY <2>1, <2>2, SwapKeepsIds, Zenon
<1>5. Stages'
  BY DEF Stages, WorkspaceTypeOK
<1>6. Private'
  BY DEF Private, WorkspaceTypeOK
<1>7. Exchanged'
  <2>1. \A n \in Name \ ({From(c), To(c)} \cup {c}) : dir'[n] = dir[n]
    BY DEF WorkspaceTypeOK
  <2>2. \A d \in Call : d # c => call'[d] = call[d]
    BY DEF WorkspaceTypeOK
  <2>3. \A d \in Call \ disturbed' : d # c => (Reversible(d) /\ Expected(d) /\ Discards(d))'
    BY <2>1, <2>2, OthersKeep
  <2>4. c \notin disturbed' => (Reversible(c) /\ Expected(c) /\ Discards(c))'
    <3>1. IF call[c].kind = "write"
            THEN call'[c].at = "discard" /\ call'[c].own = call[c].own
            ELSE call'[c].at = "idle"
      BY DEF WorkspaceTypeOK
    <3>2. (Reversible(c) /\ Expected(c))'
      BY <3>1 DEF Reversible, Expected
    <3>3. CASE c \in disturbed
      BY <3>3 DEF Disturb
    <3>4. CASE c \notin disturbed /\ call[c].kind = "write"
      <4>1. Has(call[c].path, call[c].own) /\ Here(c)
        BY <3>4 DEF Exchanged, Reversible
      <4>2. Discards(c)'
        BY <3>1, <3>4, <4>1 DEF Discards, WorkspaceTypeOK
      <4> QED
        BY <3>2, <4>2
    <3>5. CASE call[c].kind # "write"
      BY <3>1, <3>2, <3>5 DEF Discards
    <3> QED
      BY <3>3, <3>4, <3>5
  <2> QED
    BY <2>3, <2>4 DEF Exchanged
<1> QED
  BY <1>1, <1>2, <1>3, <1>4, <1>5, <1>6, <1>7

LEMMA DiscardKeeps ==
  ASSUME NEW c \in Call, FilesInv, Discard(c)
  PROVE  FilesInv'
<1> USE DEF FilesInv, Discard, DenyCall, EndCall, NoCall, Destroy, Drop
<1>1. call' \in [Call -> ChangeRecord]
  <2>1. call \in [Call -> ChangeRecord]
    BY DEF WorkspaceTypeOK, ChangeRecord
  <2> QED
    BY <2>1, EndCallIsTyped
<1>2. denied' \subseteq Ver /\ effective' \subseteq Ver /\ lost' \subseteq [by : Kind, ver : Ver] /\ disturbed' \subseteq Call
  <2>1. call[c].own \in 0..MaxVer
    BY DEF WorkspaceTypeOK
  <2>2. denied' \subseteq Ver /\ effective' \subseteq Ver
    BY <2>1, ReportIsTyped DEF Reports
  <2>3. lost' \subseteq [by : Kind, ver : Ver]
    BY DEF WorkspaceTypeOK
  <2>4. disturbed' \subseteq Call
    BY DEF WorkspaceTypeOK, Disturb
  <2> QED
    BY <2>2, <2>3, <2>4
<1>3. dir' \in [Name -> File \cup {NoFile}]
  BY DEF WorkspaceTypeOK
<1>4. WorkspaceTypeOK'
  BY <1>1, <1>2, <1>3 DEF WorkspaceTypeOK, ChangeRecord
<1>5. Past'
  BY DEF Past, Stages, WorkspaceTypeOK
<1>6. NothingIsLost' /\ DeniedIsGone'
  BY DEF NothingIsLost, DeniedIsGone, WorkspaceTypeOK, Ids, Exchanged, Discards
<1>7. Ids'
  BY DEF Ids, WorkspaceTypeOK
<1>8. Stages'
  BY DEF Stages, WorkspaceTypeOK
<1>9. Private'
  BY DEF Private, WorkspaceTypeOK
<1>10. Exchanged'
  BY DEF Exchanged, Reversible, Expected, Discards, Disturb, WorkspaceTypeOK
<1> QED
  BY <1>4, <1>5, <1>6, <1>7, <1>8, <1>9, <1>10

LEMMA RestoreFailsKeeps ==
  ASSUME NEW c \in Call, FilesInv, RestoreFails(c)
  PROVE  FilesInv'
<1> USE DEF FilesInv, RestoreFails, DenyCall, EndCall, NoCall, From, To, Possible, Exchanges
<1>1. WorkspaceTypeOK'
  BY DEF WorkspaceTypeOK, Disturb
<1>2. Past'
  BY DEF Past, Stages, WorkspaceTypeOK
<1>3. NothingIsLost' /\ DeniedIsGone'
  BY DEF NothingIsLost, DeniedIsGone, WorkspaceTypeOK, Stages, Exchanged, Reversible
<1>4. Ids'
  BY DEF Ids, WorkspaceTypeOK
<1>5. Stages'
  BY DEF Stages, WorkspaceTypeOK
<1>6. Private'
  BY DEF Private, WorkspaceTypeOK
<1>7. Exchanged'
  BY DEF Exchanged, Reversible, Expected, Discards, Disturb, WorkspaceTypeOK
<1> QED
  BY <1>1, <1>2, <1>3, <1>4, <1>5, <1>6, <1>7

LEMMA AppendCheckKeeps ==
  ASSUME NEW c \in Call, FilesInv, AppendCheck(c)
  PROVE  FilesInv'
<1> USE DEF FilesInv, AppendCheck, CallAt
<1>1. WorkspaceTypeOK'
  BY DEF WorkspaceTypeOK, Disturb
<1>2. Past'
  BY DEF Past, WorkspaceTypeOK
<1>3. NothingIsLost' /\ DeniedIsGone'
  BY DEF NothingIsLost, DeniedIsGone, WorkspaceTypeOK
<1>4. Ids'
  BY DEF Ids, WorkspaceTypeOK
<1>5. Stages'
  BY DEF Stages, WorkspaceTypeOK
<1>6. Private'
  BY DEF Private, WorkspaceTypeOK
<1>7. Exchanged'
  BY DEF Exchanged, Reversible, Expected, Discards, Disturb, WorkspaceTypeOK
<1> QED
  BY <1>1, <1>2, <1>3, <1>4, <1>5, <1>6, <1>7

LEMMA AppendOpenKeeps ==
  ASSUME NEW c \in Call, FilesInv, AppendOpen(c)
  PROVE  FilesInv'
<1> USE DEF FilesInv
<1>1. PICK v \in Ver :
        /\ \/ call' = [call EXCEPT ![c] = [@ EXCEPT !.at = "opened", !.old = v]]
           \/ call' = [call EXCEPT ![c] = [@ EXCEPT !.at = "opened", !.old = v, !.own = v]]
        /\ call[c].at = "checked" /\ lost' = lost /\ denied' = denied /\ effective' = effective
        /\ \/ /\ dir[call[c].path] # NoFile /\ v = dir[call[c].path].id
              /\ dir' = dir /\ fresh' = fresh /\ disturbed' = disturbed
           \/ /\ dir[call[c].path] = NoFile /\ v = fresh /\ fresh' = fresh + 1
              /\ dir' = [dir EXCEPT ![call[c].path] = New] /\ Disturb(c, {call[c].path})
  <2>1. call[c].path \in Name /\ fresh \in 1..(MaxVer + 1)
    BY DEF WorkspaceTypeOK
  <2>2. CASE dir[call[c].path] # NoFile
    <3>1. dir[call[c].path].id \in Ver
      BY <2>1, <2>2 DEF WorkspaceTypeOK
    <3> QED
      BY <2>2, <3>1 DEF AppendOpen
  <2>3. CASE dir[call[c].path] = NoFile
    <3>1. /\ call[c].at = "checked" /\ fresh \in Ver /\ lost' = lost /\ denied' = denied
          /\ effective' = effective
          /\ call' = [call EXCEPT ![c] = [@ EXCEPT !.at = "opened", !.old = fresh, !.own = fresh]]
          /\ dir' = [dir EXCEPT ![call[c].path] = New] /\ fresh' = fresh + 1
          /\ Disturb(c, {call[c].path})
      BY <2>1, <2>3 DEF AppendOpen
    <3> QED
      BY <2>3, <3>1
  <2> QED
    BY <2>2, <2>3
<1>2. call' \in [Call -> ChangeRecord]
  <2>1. call \in [Call -> ChangeRecord] /\ "opened" \in Stage
    BY DEF WorkspaceTypeOK, ChangeRecord
  <2>2. /\ [call EXCEPT ![c] = [@ EXCEPT !.at = "opened", !.old = v]] \in [Call -> ChangeRecord]
        /\ [call EXCEPT ![c] = [@ EXCEPT !.at = "opened", !.old = v, !.own = v]] \in [Call -> ChangeRecord]
    BY <2>1, StageIsTyped
  <2> QED
    BY <1>1, <2>2
<1>3. /\ call'[c].at = "opened" /\ call'[c].old = v /\ call'[c].own \in {call[c].own, v}
      /\ call'[c].kind = call[c].kind /\ call[c].kind = "append"
      /\ \A d \in Call : d # c => call'[d] = call[d]
  <2>1. call \in [Call -> ChangeRecord] /\ call[c].kind = "append"
    BY <1>1 DEF WorkspaceTypeOK, ChangeRecord, Stages
  <2>2. ASSUME call' = [call EXCEPT ![c] = [@ EXCEPT !.at = "opened", !.old = v]]
        PROVE  /\ call'[c].at = "opened" /\ call'[c].old = v /\ call'[c].own = call[c].own
               /\ call'[c].kind = call[c].kind /\ \A d \in Call : d # c => call'[d] = call[d]
    BY <2>1, <2>2 DEF ChangeRecord
  <2>3. ASSUME call' = [call EXCEPT ![c] = [@ EXCEPT !.at = "opened", !.old = v, !.own = v]]
        PROVE  /\ call'[c].at = "opened" /\ call'[c].old = v /\ call'[c].own = v
               /\ call'[c].kind = call[c].kind /\ \A d \in Call : d # c => call'[d] = call[d]
    BY <2>1, <2>3 DEF ChangeRecord
  <2> QED
    BY <1>1, <2>1, <2>2, <2>3, Zenon
<1>4. v < fresh' /\ fresh <= fresh' /\ fresh' \in 1..(MaxVer + 1) /\ fresh \in 1..(MaxVer + 1)
  BY <1>1 DEF Ids, WorkspaceTypeOK
<1>5. WorkspaceTypeOK'
  BY <1>1, <1>2, <1>4 DEF WorkspaceTypeOK, ChangeRecord, New, Disturb
<1>6. Past' /\ NothingIsLost' /\ DeniedIsGone'
  BY <1>1, <1>4 DEF Past, NothingIsLost, DeniedIsGone, New, WorkspaceTypeOK
<1>7. Ids'
  BY <1>1 DEF Ids, New, WorkspaceTypeOK
<1>8. Stages'
  <2>1. \A d \in Call : call[d].own < fresh' /\ (call[d].at = "opened" => call[d].old < fresh')
    BY <1>4 DEF Stages, WorkspaceTypeOK
  <2> QED
    BY <1>1, <1>3, <1>4, <2>1 DEF Stages
<1>9. Private'
  BY <1>1, <1>3 DEF Private, Ids, WorkspaceTypeOK
<1>10. Exchanged'
  <2>1. CASE dir' = dir /\ disturbed' = disturbed
    BY <1>3, <2>1 DEF Exchanged, Reversible, Expected, Discards
  <2>2. CASE /\ dir' = [dir EXCEPT ![call[c].path] = New]
             /\ Disturb(c, {call[c].path})
    <3>1. \A n \in Name \ ({call[c].path} \cup {c}) : dir'[n] = dir[n]
      BY <2>2 DEF WorkspaceTypeOK
    <3>2. \A d \in Call \ disturbed' : d # c => (Reversible(d) /\ Expected(d) /\ Discards(d))'
      BY <1>3, <2>2, <3>1, OthersKeep
    <3>3. (Reversible(c) /\ Expected(c) /\ Discards(c))'
      BY <1>3 DEF Reversible, Expected, Discards
    <3> QED
      BY <3>2, <3>3 DEF Exchanged
  <2> QED
    BY <1>1, <2>1, <2>2
<1> QED
  BY <1>5, <1>6, <1>7, <1>8, <1>9, <1>10

LEMMA AppendWriteKeeps ==
  ASSUME NEW c \in Call, FilesInv, AppendWrite(c)
  PROVE  FilesInv'
<1> USE DEF FilesInv, AppendWrite
<1>0. Reports(c, fresh) /\ EndCall(c) /\ fresh \in Ver /\ fresh' = fresh + 1
  BY DEF Reports, DenyLate, WorkspaceTypeOK
<1>1. /\ denied' \subseteq Ver /\ effective' \subseteq Ver /\ Past'
      /\ denied' \ effective' \subseteq denied \ effective
      /\ call' \in [Call -> ChangeRecord] /\ call' = [call EXCEPT ![c] = NoCall]
  <2>1. denied' \subseteq Ver /\ effective' \subseteq Ver
    BY <1>0, ReportIsTyped
  <2>2. Past'
    BY <1>0, ReportKeepsPast
  <2>3. denied' \ effective' \subseteq denied \ effective
    BY LateIsEffective
  <2>4. call' \in [Call -> ChangeRecord]
    BY <1>0, EndCallIsTyped DEF WorkspaceTypeOK, ChangeRecord
  <2> QED
    BY <1>0, <2>1, <2>2, <2>3, <2>4 DEF EndCall
<1>2. WorkspaceTypeOK'
  BY <1>1 DEF WorkspaceTypeOK, ChangeRecord, Disturb
<1>3. NothingIsLost' /\ DeniedIsGone'
  <2>1. \A v \in denied \ effective : v < fresh
    BY DEF Past
  <2> QED
    BY <1>1, <2>1 DEF NothingIsLost, DeniedIsGone, WorkspaceTypeOK
<1> USE <1>1 DEF NoCall
<1>4. Ids'
  BY DEF Ids, WorkspaceTypeOK
<1>5. Stages'
  BY DEF Stages, WorkspaceTypeOK
<1>6. Private'
  BY DEF Private, WorkspaceTypeOK
<1>7. Exchanged'
  <2>1. PICK opened : /\ opened = {n \in Name : dir[n] # NoFile /\ dir[n].id = call[c].old}
                      /\ Disturb(c, opened)
    OBVIOUS
  <2>2. \A n \in Name \ (opened \cup {c}) : dir'[n] = dir[n]
    BY <2>1
  <2>3. \A d \in Call : d # c => call'[d] = call[d]
    BY DEF WorkspaceTypeOK
  <2>4. \A d \in Call \ disturbed' : d # c => (Reversible(d) /\ Expected(d) /\ Discards(d))'
    BY <2>1, <2>2, <2>3, OthersKeep
  <2>5. call'[c].at = "idle"
    BY DEF WorkspaceTypeOK
  <2>6. (Reversible(c) /\ Expected(c) /\ Discards(c))'
    BY <2>5 DEF Reversible, Expected, Discards
  <2> QED
    BY <2>4, <2>6 DEF Exchanged
<1> QED
  BY <1>1, <1>2, <1>3, <1>4, <1>5, <1>6, <1>7

LEMMA WorkspaceCrashKeeps ==
  ASSUME FilesInv, WorkspaceCrash
  PROVE  FilesInv'
<1> USE DEF FilesInv, WorkspaceCrash, NoCall
<1>1. WorkspaceTypeOK'
  BY DEF WorkspaceTypeOK, Disturb
<1>2. Past'
  BY DEF Past, WorkspaceTypeOK
<1>3. NothingIsLost' /\ DeniedIsGone'
  BY DEF NothingIsLost, DeniedIsGone, WorkspaceTypeOK
<1>4. Ids'
  BY DEF Ids, WorkspaceTypeOK
<1>5. Stages'
  BY DEF Stages, WorkspaceTypeOK
<1>6. Private'
  BY DEF Private, WorkspaceTypeOK
<1>7. Exchanged'
  BY DEF Exchanged, Reversible, Expected, Discards, Disturb, WorkspaceTypeOK
<1> QED
  BY <1>1, <1>2, <1>3, <1>4, <1>5, <1>6, <1>7

LEMMA FilesInitially == WorkspaceInit => FilesInv
<1> SUFFICES ASSUME WorkspaceInit PROVE FilesInv
  OBVIOUS
<1> USE DEF WorkspaceInit
<1>1. call \in [Call -> ChangeRecord] /\ \A c \in Call : call[c].at = "idle" /\ call[c].own = 0
  BY NoChangeIsTyped DEF NoCall
<1>2. WorkspaceTypeOK
  BY <1>1 DEF WorkspaceTypeOK, ChangeRecord
<1>3. NothingIsLost /\ DeniedIsGone /\ Past /\ Ids
  BY DEF NothingIsLost, DeniedIsGone, Past, Ids
<1>4. Stages /\ Private /\ Exchanged
  BY <1>1 DEF Stages, Private, Exchanged, Reversible, Expected, Discards
<1> QED
  BY <1>2, <1>3, <1>4 DEF FilesInv

LEMMA FilesStutter == FilesInv /\ UNCHANGED wsVars => FilesInv'
<1> SUFFICES ASSUME FilesInv, UNCHANGED wsVars PROVE FilesInv'
  OBVIOUS
<1> USE DEF FilesInv, wsVars
<1>1. WorkspaceTypeOK'
  BY DEF WorkspaceTypeOK
<1>2. NothingIsLost' /\ DeniedIsGone' /\ Past' /\ Ids'
  BY DEF NothingIsLost, DeniedIsGone, Past, Ids
<1>3. Stages' /\ Private'
  BY DEF Stages, Private
<1>4. Exchanged'
  BY DEF Exchanged, Reversible, Expected, Discards
<1> QED
  BY <1>1, <1>2, <1>3, <1>4

LEMMA FilesStep == FilesInv /\ [WorkspaceNext]_wsVars => FilesInv'
<1> SUFFICES ASSUME FilesInv, WorkspaceNext PROVE FilesInv'
  BY FilesStutter
<1> HIDE DEF Kind
<1>1. ASSUME NEW c \in Call, Advance(c) PROVE FilesInv'
  BY <1>1, AbandonKeeps, Stage1Keeps, CheckKeeps, CreateCommitKeeps, CommitSwapKeeps, VerifyMatchesKeeps,
     VerifyFailsKeeps, CompleteKeeps, RestoreKeeps, DiscardKeeps, RestoreFailsKeeps, RemoveFailsKeeps,
     AppendCheckKeeps, AppendOpenKeeps, AppendWriteKeeps, Zenon DEF Advance
<1>2. CASE \E p \in Path : Edit(p) \/ Remove(p)
  BY <1>2, EditKeeps, RemoveKeeps, Zenon
<1>3. CASE \E c \in Call : (\E k \in Kind : BeginCall(c, k)) \/ Advance(c)
  BY <1>1, <1>3, BeginCallKeeps, Zenon
<1> QED
  BY <1>2, <1>3, WorkspaceCrashKeeps, Zenon DEF WorkspaceNext

\* The directory and the calls that change it stay as FilesInv says, beside other
\* programs that replace and remove the same files, after failures and crashes.
THEOREM FilesInvariant == WorkspaceSpec => []FilesInv
<1> QED
  BY FilesInitially, FilesStep, PTL DEF WorkspaceSpec

\* Changes that name the content they expect destroy nothing else, and leave nothing of
\* what they deny behind unless the error came when the change was complete
\* (secureAtomicWriteIfUnchanged, secureDelete, secureMove and the modes of fs_write):
\* for any number of names, calls and contents.
THEOREM ChangesAreSafe == WorkspaceSpec => []FilesHold
<1>1. FilesInv => FilesHold
  BY DEF FilesInv, FilesHold
<1> QED
  BY <1>1, FilesInvariant, PTL

HIDE DEF Name, Ver, File, Kind, Stage, Bringing, Swapped, Here, Has, Kept, Reported, Spare, Uses

-----------------------------------------------------------------------------
(* Installation: the inductive invariant.                                  *)

\* Commands that change the binary are alone until two of them were side by side.
OneChanges ==
  "binary" \notin overlap =>
    \A c, d \in Cli : cli[c].at \in Binary /\ cli[d].at \in Binary => c = d

\* What they bring, and the binary that is replaced, are releases.
Releases ==
  /\ \A f \in onDisk : f["dest"] # 0
  /\ \A c \in Cli :
       /\ cli[c].at \in Binary => cli[c].new \in 1..MaxRelease /\ cli[c].old \in 0..MaxRelease
       /\ cli[c].at \in {"write", "sync"} => cli[c].old # 0
       /\ cli[c].at = "read" => cli[c].next = 1

\* How far an update is shows in the files: it replaces what it has saved.
Progress ==
  "binary" \notin overlap =>
    \A c \in Cli :
      LET b == cli[c] IN
      /\ b.at = "write" => shown["dest"] = b.old
      /\ (b.at = "write" /\ b.next > 1) \/ (b.at = "sync" /\ b.next < 3) =>
           shown["backup"] = b.old /\ shown["dest"] = b.old
      /\ (b.at = "write" /\ b.next = 3) \/ (b.at = "sync" /\ b.next = 2) => shown["sum"] = b.old
      /\ b.at = "restore" => Verified(shown) /\ b.new = shown["backup"]

\* What a command brings is a key from when it has one.
KeysNamed == \A c \in Cli : cli[c].at \in Fresh \ {"setup"} => cli[c].new \in 1..MaxKey

\* Until a setup began beside them, commands that change the identity use key files
\* of their own, which are as each of them left or found its file.
OwnFiles ==
  "identity" \notin overlap =>
    \A c \in Cli :
      LET b == cli[c] IN
      b.at \in Fresh =>
        /\ b.path <= keys
        /\ b.at = "key" => keyFile[b.path] = 0
        /\ b.at \in {"config", "settle"} => keyFile[b.path] = b.new
        /\ \A d \in Cli : cli[d].at \in Fresh /\ cli[d].path = b.path => d = c

BinaryInv   == ReplacedIsRecoverable /\ NothingReplacedUnsaved /\ OneChanges /\ Releases /\ Progress
IdentityInv == ConfiguredKeyFits /\ KeysNamed /\ OwnFiles
InstallInv  == InstallationTypeOK /\ BinaryInv /\ IdentityInv

Place   == Binary \cup Fresh \cup {"idle", "connect", "rotate"}
Command == [at : Place, rotates : BOOLEAN, next : 1..3, new : 0..(MaxRelease + MaxKey),
            old : 0..(MaxRelease + MaxKey), path : KeyPath]
Is(r, at, rotates, next, new, old, path) ==
  /\ r \in Command /\ r.at = at /\ r.rotates = rotates /\ r.next = next /\ r.new = new /\ r.old = old
  /\ r.path = path
Install == [Slot -> 0..MaxRelease]

USE InstallationAssumption DEF Slot, KeyPath, Binary, Fresh, binaries, identities

-----------------------------------------------------------------------------
(* What every step is made of.                                             *)

\* The types, one variable at a time.
LEMMA InstallTypeIs ==
  InstallationTypeOK <=>
    /\ onDisk \subseteq Install /\ shown \in onDisk
    /\ configOnDisk \subseteq Config /\ config \in configOnDisk /\ keys \in 0..MaxKey
    /\ keyFile \in [KeyPath -> KeyPath] /\ keyOnDisk \in [KeyPath -> SUBSET KeyPath]
    /\ \A p \in KeyPath : keyFile[p] \in keyOnDisk[p]
    /\ gone \subseteq KeyPath /\ vanished \subseteq KeyPath
    /\ cli \in [Cli -> Command] /\ overlap \subseteq {"binary", "identity"}
  BY DEF InstallationTypeOK, Command, Place, Install

LEMMA InstallTypeIsNext ==
  InstallationTypeOK' <=>
    /\ onDisk' \subseteq Install /\ shown' \in onDisk'
    /\ configOnDisk' \subseteq Config /\ config' \in configOnDisk' /\ keys' \in 0..MaxKey
    /\ keyFile' \in [KeyPath -> KeyPath] /\ keyOnDisk' \in [KeyPath -> SUBSET KeyPath]
    /\ \A p \in KeyPath : keyFile'[p] \in keyOnDisk'[p]
    /\ gone' \subseteq KeyPath /\ vanished' \subseteq KeyPath
    /\ cli' \in [Cli -> Command] /\ overlap' \subseteq {"binary", "identity"}
  BY DEF InstallationTypeOK, Command, Place, Install

\* A command that is not there.
LEMMA QuietIsTyped ==
  /\ Quiet \in Command /\ Quiet.at = "idle" /\ Quiet.rotates = FALSE /\ Quiet.next = 1
  /\ Quiet.new = 0 /\ Quiet.old = 0 /\ Quiet.path = 0
  BY DEF Quiet, Command, Place

\* Releases and keys are numbers of both.
LEMMA InBounds ==
  /\ \A r \in 0..MaxRelease : r \in 0..(MaxRelease + MaxKey)
  /\ \A k \in KeyPath : k \in 0..(MaxRelease + MaxKey)
  OBVIOUS

\* One field of a command is replaced, several are, and a new key is.
LEMMA FieldIsTyped ==
  ASSUME NEW q \in Command
  PROVE  /\ \A a \in Place : Is([q EXCEPT !.at = a], a, q.rotates, q.next, q.new, q.old, q.path)
         /\ \A a \in 0..(MaxRelease + MaxKey) : Is([q EXCEPT !.new = a], q.at, q.rotates, q.next, a, q.old, q.path)
         /\ \A a \in 0..(MaxRelease + MaxKey) : Is([q EXCEPT !.old = a], q.at, q.rotates, q.next, q.new, a, q.path)
         /\ \A a \in 1..3 : Is([q EXCEPT !.next = a], q.at, q.rotates, a, q.new, q.old, q.path)
         /\ \A a \in KeyPath : Is([q EXCEPT !.path = a], q.at, q.rotates, q.next, q.new, q.old, a)
         /\ \A a \in BOOLEAN : Is([q EXCEPT !.rotates = a], q.at, a, q.next, q.new, q.old, q.path)
  BY DEF Command, Is

LEMMA TwoFieldsAreTyped ==
  ASSUME NEW q \in Command, NEW a \in Place
  PROVE  /\ \A v \in 0..(MaxRelease + MaxKey) :
              /\ Is([q EXCEPT !.at = a, !.new = v], a, q.rotates, q.next, v, q.old, q.path)
              /\ Is([q EXCEPT !.at = a, !.old = v], a, q.rotates, q.next, q.new, v, q.path)
         /\ \A n \in 1..3 : Is([q EXCEPT !.at = a, !.next = n], a, q.rotates, n, q.new, q.old, q.path)
<1> DEFINE r == [q EXCEPT !.at = a]
<1>1. Is(r, a, q.rotates, q.next, q.new, q.old, q.path)
  BY FieldIsTyped
<1> HIDE DEF r
<1>2. /\ r \in Command /\ r.at = a /\ r.rotates = q.rotates /\ r.next = q.next /\ r.new = q.new
      /\ r.old = q.old /\ r.path = q.path
  BY <1>1 DEF Is
<1>3. ASSUME NEW v \in 0..(MaxRelease + MaxKey)
      PROVE  /\ Is([r EXCEPT !.new = v], a, q.rotates, q.next, v, q.old, q.path)
             /\ Is([r EXCEPT !.old = v], a, q.rotates, q.next, q.new, v, q.path)
  <2>1. /\ Is([r EXCEPT !.new = v], r.at, r.rotates, r.next, v, r.old, r.path)
        /\ Is([r EXCEPT !.old = v], r.at, r.rotates, r.next, r.new, v, r.path)
    BY <1>2, FieldIsTyped, Zenon
  <2> QED
    BY <1>2, <2>1, Zenon
<1>4. ASSUME NEW n \in 1..3
      PROVE  Is([r EXCEPT !.next = n], a, q.rotates, n, q.new, q.old, q.path)
  <2>1. Is([r EXCEPT !.next = n], r.at, r.rotates, n, r.new, r.old, r.path)
    BY <1>2, FieldIsTyped, Zenon
  <2> QED
    BY <1>2, <2>1, Zenon
<1> QED
  BY <1>3, <1>4 DEF r

LEMMA NewKeyIsTyped ==
  ASSUME NEW q \in Command, NEW a \in Place, NEW b \in BOOLEAN, NEW v \in 0..(MaxRelease + MaxKey), NEW p \in KeyPath
  PROVE  Is([q EXCEPT !.at = a, !.rotates = b, !.new = v, !.path = p], a, b, q.next, v, q.old, p)
<1> DEFINE r1 == [q EXCEPT !.at = a]
           r2 == [r1 EXCEPT !.rotates = b]
           r3 == [r2 EXCEPT !.new = v]
           r4 == [r3 EXCEPT !.path = p]
<1>1. Is(r1, a, q.rotates, q.next, q.new, q.old, q.path)
  BY FieldIsTyped
<1> HIDE DEF r1
<1>2. Is(r2, a, b, q.next, q.new, q.old, q.path)
  <2>1. r1 \in Command /\ r1.at = a /\ r1.next = q.next /\ r1.new = q.new /\ r1.old = q.old /\ r1.path = q.path
    BY <1>1 DEF Is
  <2>2. Is(r2, r1.at, b, r1.next, r1.new, r1.old, r1.path)
    BY <2>1, FieldIsTyped, Zenon
  <2> QED
    BY <2>1, <2>2, Zenon
<1> HIDE DEF r2
<1>3. Is(r3, a, b, q.next, v, q.old, q.path)
  <2>1. r2 \in Command /\ r2.at = a /\ r2.next = q.next /\ r2.rotates = b /\ r2.old = q.old /\ r2.path = q.path
    BY <1>2 DEF Is
  <2>2. Is(r3, r2.at, r2.rotates, r2.next, v, r2.old, r2.path)
    BY <2>1, FieldIsTyped, Zenon
  <2> QED
    BY <2>1, <2>2, Zenon
<1> HIDE DEF r3
<1>4. Is(r4, a, b, q.next, v, q.old, p)
  <2>1. r3 \in Command /\ r3.at = a /\ r3.next = q.next /\ r3.rotates = b /\ r3.old = q.old /\ r3.new = v
    BY <1>3 DEF Is
  <2>2. Is(r4, r3.at, r3.rotates, r3.next, r3.new, r3.old, p)
    BY <2>1, FieldIsTyped, Zenon
  <2> QED
    BY <2>1, <2>2, Zenon
<1> QED
  BY <1>4 DEF r1, r2, r3, r4

\* A command becomes r, the others go on.
LEMMA OneMoves ==
  ASSUME cli \in [Cli -> Command], NEW c \in Cli, NEW r \in Command, cli' = [cli EXCEPT ![c] = r]
  PROVE  cli' \in [Cli -> Command] /\ cli'[c] = r /\ \A d \in Cli : d # c => cli'[d] = cli[d]
  OBVIOUS

\* A command that goes on as it is.
LEMMA OneReaches ==
  ASSUME cli \in [Cli -> Command], NEW c \in Cli, NEW at \in Place, Reaches(c, at)
  PROVE  /\ cli' \in [Cli -> Command] /\ \A d \in Cli : d # c => cli'[d] = cli[d]
         /\ Is(cli'[c], at, cli[c].rotates, cli[c].next, cli[c].new, cli[c].old, cli[c].path)
<1> DEFINE r == [cli[c] EXCEPT !.at = at]
<1>1. cli[c] \in Command /\ cli' = [cli EXCEPT ![c] = r]
  BY DEF Reaches
<1>2. Is(r, at, cli[c].rotates, cli[c].next, cli[c].new, cli[c].old, cli[c].path)
  BY <1>1, FieldIsTyped, Zenon
<1>3. r \in Command
  BY <1>2 DEF Is
<1> HIDE DEF r
<1>4. cli' \in [Cli -> Command] /\ cli'[c] = r /\ \A d \in Cli : d # c => cli'[d] = cli[d]
  BY <1>1, <1>3, OneMoves
<1> QED
  BY <1>2, <1>4, Zenon

\* Whoever is not about to change the binary disturbs nobody who is.
LEMMA BinaryStands ==
  ASSUME InstallationTypeOK, BinaryInv, UNCHANGED binaries, overlap \subseteq overlap',
         \A d \in Cli : cli'[d] = cli[d] \/ cli'[d].at \notin Binary
  PROVE  BinaryInv'
<1> USE DEF BinaryInv
<1>1. ReplacedIsRecoverable' /\ NothingReplacedUnsaved'
  BY DEF ReplacedIsRecoverable, NothingReplacedUnsaved, Verified
<1>2. OneChanges' /\ Releases'
  BY DEF OneChanges, Releases
<1>3. Progress'
  BY DEF Progress, Verified
<1> QED
  BY <1>1, <1>2, <1>3

\* The same of the identity.
LEMMA IdentityStands ==
  ASSUME InstallationTypeOK, IdentityInv, UNCHANGED <<configOnDisk, keyFile, keys, vanished>>, overlap \subseteq overlap',
         \A d \in Cli : cli'[d] = cli[d] \/ cli'[d].at \notin Fresh
  PROVE  IdentityInv'
<1> USE DEF IdentityInv
<1>1. ConfiguredKeyFits'
  BY DEF ConfiguredKeyFits
<1>2. KeysNamed'
  BY DEF KeysNamed
<1>3. OwnFiles'
  BY DEF OwnFiles
<1> QED
  BY <1>1, <1>2, <1>3

\* A command that ends.
LEMMA ExitStands ==
  ASSUME InstallInv, NEW c \in Cli, Exits(c)
  PROVE  /\ cli' \in [Cli -> Command]
         /\ \A d \in Cli : cli'[d] = cli[d] \/ cli'[d].at \notin Binary \cup Fresh
<1>1. cli \in [Cli -> Command]
  BY InstallTypeIs DEF InstallInv
<1>2. cli' = [cli EXCEPT ![c] = Quiet]
  BY DEF Exits
<1>3. cli' \in [Cli -> Command] /\ cli'[c] = Quiet /\ \A d \in Cli : d # c => cli'[d] = cli[d]
  BY <1>1, <1>2, QuietIsTyped, OneMoves
<1> QED
  BY <1>3, QuietIsTyped DEF Binary, Fresh

-----------------------------------------------------------------------------
(* update and rollback.                                                    *)

\* An update begins, alone or not.
LEMMA UpdateKeeps ==
  ASSUME NEW c \in Cli, NEW r \in 1..MaxRelease, InstallInv, Update(c, r)
  PROVE  InstallInv'
<1> USE DEF InstallInv
<1> DEFINE b == [Quiet EXCEPT !.at = "read", !.new = r]
<1>1. b \in Command /\ b.at = "read" /\ b.new = r /\ b.old = 0 /\ b.next = 1
  <2>1. "read" \in Place /\ r \in 0..(MaxRelease + MaxKey)
    BY DEF Place
  <2>2. Is(b, "read", Quiet.rotates, Quiet.next, r, Quiet.old, Quiet.path)
    BY <2>1, QuietIsTyped, TwoFieldsAreTyped, Zenon
  <2> QED
    BY <2>2, QuietIsTyped DEF Is
<1>2. cli' = [cli EXCEPT ![c] = b] /\ UNCHANGED <<binaries, identities, vanished>>
  BY DEF Update
<1> HIDE DEF b
<1>3. cli' \in [Cli -> Command] /\ cli'[c] = b /\ \A d \in Cli : d # c => cli'[d] = cli[d]
  BY <1>1, <1>2, OneMoves, InstallTypeIs
<1>4. overlap \subseteq overlap' /\ overlap' \subseteq {"binary", "identity"}
  BY InstallTypeIs DEF Update, Beside
<1>5. InstallationTypeOK'
  BY <1>2, <1>3, <1>4, InstallTypeIs, InstallTypeIsNext
<1>6. IdentityInv'
  BY <1>1, <1>2, <1>3, <1>4, IdentityStands
<1>7. OneChanges'
  BY <1>3, <1>4 DEF Update, Beside, BinaryInv, OneChanges
<1>8. ReplacedIsRecoverable' /\ NothingReplacedUnsaved'
  BY <1>2, <1>4 DEF BinaryInv, ReplacedIsRecoverable, NothingReplacedUnsaved, Verified
<1>9. Releases' /\ Progress'
  BY <1>1, <1>2, <1>3, <1>4 DEF BinaryInv, Releases, Progress, Verified
<1> QED
  BY <1>5, <1>6, <1>7, <1>8, <1>9 DEF BinaryInv

\* What is read is what is installed.
LEMMA ReadCurrentKeeps ==
  ASSUME NEW c \in Cli, InstallInv, ReadCurrent(c)
  PROVE  InstallInv'
<1> USE DEF InstallInv
<1> DEFINE b == [cli[c] EXCEPT !.at = "write", !.old = shown["dest"]]
<1>1. cli[c] \in Command /\ cli[c].at = "read" /\ shown["dest"] \in 1..MaxRelease
  BY InstallTypeIs DEF ReadCurrent, BinaryInv, Releases, Install
<1>2. b \in Command /\ b.at = "write" /\ b.new = cli[c].new /\ b.old = shown["dest"] /\ b.next = cli[c].next
  <2>1. "write" \in Place /\ shown["dest"] \in 0..(MaxRelease + MaxKey)
    BY <1>1 DEF Place
  <2>2. Is(b, "write", cli[c].rotates, cli[c].next, cli[c].new, shown["dest"], cli[c].path)
    BY <1>1, <2>1, TwoFieldsAreTyped, Zenon
  <2> QED
    BY <2>2 DEF Is
<1>3. cli' = [cli EXCEPT ![c] = b] /\ UNCHANGED <<binaries, identities, overlap, vanished>>
  BY DEF ReadCurrent
<1> HIDE DEF b
<1>4. cli' \in [Cli -> Command] /\ cli'[c] = b /\ \A d \in Cli : d # c => cli'[d] = cli[d]
  BY <1>2, <1>3, OneMoves, InstallTypeIs
<1>5. InstallationTypeOK'
  BY <1>3, <1>4, InstallTypeIs, InstallTypeIsNext
<1>6. IdentityInv'
  BY <1>2, <1>3, <1>4, IdentityStands
<1>7. OneChanges' /\ Releases'
  BY <1>1, <1>2, <1>3, <1>4 DEF BinaryInv, OneChanges, Releases
<1>8. ReplacedIsRecoverable' /\ NothingReplacedUnsaved'
  BY <1>3 DEF BinaryInv, ReplacedIsRecoverable, NothingReplacedUnsaved, Verified
<1>9. Progress'
  <2>1. cli[c].next = 1
    BY <1>1 DEF BinaryInv, Releases
  <2> QED
    BY <1>1, <1>2, <1>3, <1>4, <2>1 DEF BinaryInv, OneChanges, Progress, Verified
<1> QED
  BY <1>5, <1>6, <1>7, <1>8, <1>9 DEF BinaryInv

\* A file is renamed into place: the backup, then its checksum, then the binary.
LEMMA WriteNextKeeps ==
  ASSUME NEW c \in Cli, InstallInv, WriteNext(c)
  PROVE  InstallInv'
<1> USE DEF InstallInv
<1> DEFINE slot == InstallOrder[cli[c].next]
           b    == [cli[c] EXCEPT !.at = "sync"]
           v    == IF slot = "dest" THEN cli[c].new ELSE cli[c].old
<1>1. /\ cli[c] \in Command /\ cli[c].at = "write" /\ shown \in Install /\ shown["dest"] # 0
      /\ cli[c].new \in 1..MaxRelease /\ cli[c].old \in 1..MaxRelease /\ cli[c].next \in 1..3
  <2>1. cli[c] \in Command /\ cli[c].at = "write" /\ shown \in Install /\ shown \in onDisk
    BY InstallTypeIs DEF WriteNext
  <2>2. /\ cli[c].new \in 1..MaxRelease /\ cli[c].old \in 0..MaxRelease /\ cli[c].old # 0
        /\ shown["dest"] # 0
    BY <2>1 DEF BinaryInv, Releases
  <2>3. cli[c].next \in 1..3
    BY <2>1 DEF Command
  <2> QED
    BY <2>1, <2>2, <2>3
<1>2. b \in Command /\ b.at = "sync" /\ b.new = cli[c].new /\ b.old = cli[c].old /\ b.next = cli[c].next
  <2>1. "sync" \in Place
    BY DEF Place
  <2>2. Is(b, "sync", cli[c].rotates, cli[c].next, cli[c].new, cli[c].old, cli[c].path)
    BY <1>1, <2>1, FieldIsTyped, Zenon
  <2> QED
    BY <2>2 DEF Is
<1>3. /\ cli' = [cli EXCEPT ![c] = b] /\ UNCHANGED <<identities, overlap, vanished>>
      /\ shown' = [shown EXCEPT ![slot] = v] /\ onDisk' = onDisk \cup {shown'}
  <2>1. cli' = [cli EXCEPT ![c] = b]
    BY <1>1, InstallTypeIs DEF WriteNext, Reaches
  <2> QED
    BY <2>1 DEF WriteNext
<1>4. /\ cli[c].next = 1 => slot = "backup"
      /\ cli[c].next = 2 => slot = "sum"
      /\ cli[c].next = 3 => slot = "dest"
      /\ slot \in Slot
  BY <1>1 DEF InstallOrder
<1>5. v \in 1..MaxRelease /\ (slot = "dest" => v = cli[c].new) /\ (slot # "dest" => v = cli[c].old)
  BY <1>1
<1> HIDE DEF b, slot, v
<1>6. cli' \in [Cli -> Command] /\ cli'[c] = b /\ \A d \in Cli : d # c => cli'[d] = cli[d]
  BY <1>2, <1>3, OneMoves, InstallTypeIs
<1>7. shown' \in Install /\ shown'[slot] = v /\ \A s \in Slot : s # slot => shown'[s] = shown[s]
  BY <1>1, <1>3, <1>4, <1>5 DEF Install
<1>8. InstallationTypeOK'
  BY <1>3, <1>6, <1>7, InstallTypeIs, InstallTypeIsNext
<1>9. IdentityInv'
  BY <1>2, <1>3, <1>6, IdentityStands
<1>10. OneChanges'
  BY <1>1, <1>2, <1>3, <1>6 DEF BinaryInv, OneChanges
<1>11. Releases'
  <2>1. shown'["dest"] # 0
    BY <1>1, <1>4, <1>5, <1>7
  <2>2. \A f \in onDisk' : f["dest"] # 0
    BY <1>3, <2>1 DEF BinaryInv, Releases
  <2>3. \A d \in Cli : cli'[d].at = "read" => cli'[d].next = 1
    BY <1>2, <1>6 DEF BinaryInv, Releases
  <2> QED
    BY <1>1, <1>2, <1>6, <2>2, <2>3 DEF BinaryInv, Releases
<1>12. "binary" \notin overlap =>
         /\ cli[c].next = 1 => shown'["backup"] = cli[c].old /\ shown'["dest"] = cli[c].old
         /\ cli[c].next = 2 => /\ shown'["backup"] = cli[c].old /\ shown'["dest"] = cli[c].old
                               /\ shown'["sum"] = cli[c].old
         /\ cli[c].next = 3 => shown'["backup"] = cli[c].old /\ shown'["sum"] = cli[c].old
  <2> SUFFICES ASSUME "binary" \notin overlap
               PROVE  /\ cli[c].next = 1 => shown'["backup"] = cli[c].old /\ shown'["dest"] = cli[c].old
                      /\ cli[c].next = 2 => /\ shown'["backup"] = cli[c].old /\ shown'["dest"] = cli[c].old
                                            /\ shown'["sum"] = cli[c].old
                      /\ cli[c].next = 3 => shown'["backup"] = cli[c].old /\ shown'["sum"] = cli[c].old
    OBVIOUS
  <2>1. /\ shown["dest"] = cli[c].old
        /\ cli[c].next > 1 => shown["backup"] = cli[c].old
        /\ cli[c].next = 3 => shown["sum"] = cli[c].old
    BY <1>1 DEF BinaryInv, Progress
  <2> QED
    BY <2>1, <1>1, <1>4, <1>5, <1>7
<1>13. ReplacedIsRecoverable' /\ NothingReplacedUnsaved'
  <2>1. "binary" \notin overlap => Verified(shown)' \/ shown'["dest"] = shown'["backup"]
    BY <1>1, <1>12 DEF Verified
  <2>2. \A f \in onDisk' : f \in onDisk \/ f = shown'
    BY <1>3
  <2> QED
    BY <1>3, <2>1, <2>2 DEF BinaryInv, ReplacedIsRecoverable, NothingReplacedUnsaved, Verified
<1>14. Progress'
  BY <1>1, <1>2, <1>3, <1>6, <1>12 DEF BinaryInv, OneChanges, Progress, Verified
<1> QED
  BY <1>8, <1>9, <1>10, <1>11, <1>13, <1>14 DEF BinaryInv

\* The directory is synced: what is shown is what the disk holds.
LEMMA SyncNextKeeps ==
  ASSUME NEW c \in Cli, InstallInv, SyncNext(c)
  PROVE  InstallInv'
<1> USE DEF InstallInv
<1>1. /\ onDisk' = {shown} /\ UNCHANGED <<shown, identities, overlap, vanished>>
      /\ cli[c] \in Command /\ cli[c].at = "sync"
  BY InstallTypeIs DEF SyncNext
<1>2. /\ cli' \in [Cli -> Command] /\ \A d \in Cli : d # c => cli'[d] = cli[d]
      /\ \/ cli'[c].at = "idle"
         \/ /\ cli[c].next < 3 /\ cli'[c].at = "write" /\ cli'[c].next = cli[c].next + 1
            /\ cli'[c].new = cli[c].new /\ cli'[c].old = cli[c].old
  <2>1. CASE cli[c].next = 3
    <3>1. cli' = [cli EXCEPT ![c] = Quiet]
      BY <2>1 DEF SyncNext, Exits
    <3> QED
      BY <3>1, QuietIsTyped, OneMoves, InstallTypeIs
  <2>2. CASE cli[c].next # 3
    <3> DEFINE b == [cli[c] EXCEPT !.at = "write", !.next = cli[c].next + 1]
    <3>1. /\ b \in Command /\ b.at = "write" /\ b.next = cli[c].next + 1 /\ b.new = cli[c].new
          /\ b.old = cli[c].old /\ cli[c].next < 3
      <4>1. "write" \in Place /\ cli[c].next + 1 \in 1..3 /\ cli[c].next < 3
        BY <1>1, <2>2 DEF Place, Command
      <4>2. Is(b, "write", cli[c].rotates, cli[c].next + 1, cli[c].new, cli[c].old, cli[c].path)
        BY <1>1, <4>1, TwoFieldsAreTyped, Zenon
      <4> QED
        BY <4>1, <4>2 DEF Is
    <3>2. cli' = [cli EXCEPT ![c] = b]
      BY <2>2, Zenon DEF SyncNext
    <3> HIDE DEF b
    <3> QED
      BY <3>1, <3>2, OneMoves, InstallTypeIs
  <2> QED
    BY <2>1, <2>2
<1>3. InstallationTypeOK'
  BY <1>1, <1>2, InstallTypeIs, InstallTypeIsNext
<1>4. IdentityInv'
  BY <1>1, <1>2, IdentityStands
<1>5. OneChanges' /\ Releases'
  <2>1. BinaryInv /\ "write" \in Binary /\ cli[c].at \in Binary
    BY <1>1
  <2>2. OneChanges'
    BY <1>1, <1>2, <2>1 DEF BinaryInv, OneChanges
  <2>3. \A f \in onDisk' : f["dest"] # 0
    BY <1>1, <2>1, InstallTypeIs DEF BinaryInv, Releases
  <2>4. Releases'
    BY <1>1, <1>2, <2>1, <2>3 DEF BinaryInv, Releases
  <2> QED
    BY <2>2, <2>4
<1>6. ReplacedIsRecoverable' /\ NothingReplacedUnsaved'
  BY <1>1, InstallTypeIs DEF BinaryInv, ReplacedIsRecoverable, NothingReplacedUnsaved, Verified
<1>7. Progress'
  BY <1>1, <1>2 DEF BinaryInv, OneChanges, Progress, Verified, Command
<1> QED
  BY <1>3, <1>4, <1>5, <1>6, <1>7 DEF BinaryInv

\* A rollback begins with a backup that was verified.
LEMMA RollbackKeeps ==
  ASSUME NEW c \in Cli, InstallInv, Rollback(c)
  PROVE  InstallInv'
<1> USE DEF InstallInv
<1> DEFINE b == [Quiet EXCEPT !.at = "restore", !.new = shown["backup"]]
<1>1. Verified(shown) /\ shown \in Install /\ shown["backup"] \in 1..MaxRelease
  BY InstallTypeIs DEF Rollback, Verified, Install
<1>2. b \in Command /\ b.at = "restore" /\ b.new = shown["backup"] /\ b.old = 0
  <2>1. "restore" \in Place /\ shown["backup"] \in 0..(MaxRelease + MaxKey)
    BY <1>1 DEF Place
  <2>2. Is(b, "restore", Quiet.rotates, Quiet.next, shown["backup"], Quiet.old, Quiet.path)
    BY <2>1, QuietIsTyped, TwoFieldsAreTyped, Zenon
  <2> QED
    BY <2>2, QuietIsTyped DEF Is
<1>3. cli' = [cli EXCEPT ![c] = b] /\ UNCHANGED <<binaries, identities, vanished>>
  BY DEF Rollback
<1> HIDE DEF b
<1>4. cli' \in [Cli -> Command] /\ cli'[c] = b /\ \A d \in Cli : d # c => cli'[d] = cli[d]
  BY <1>2, <1>3, OneMoves, InstallTypeIs
<1>5. overlap \subseteq overlap' /\ overlap' \subseteq {"binary", "identity"}
  BY InstallTypeIs DEF Rollback, Beside
<1>6. InstallationTypeOK'
  BY <1>3, <1>4, <1>5, InstallTypeIs, InstallTypeIsNext
<1>7. IdentityInv'
  BY <1>2, <1>3, <1>4, <1>5, IdentityStands
<1>8. OneChanges'
  BY <1>4, <1>5 DEF Rollback, Beside, BinaryInv, OneChanges
<1>9. ReplacedIsRecoverable' /\ NothingReplacedUnsaved'
  BY <1>3, <1>5 DEF BinaryInv, ReplacedIsRecoverable, NothingReplacedUnsaved, Verified
<1>10. Releases' /\ Progress'
  BY <1>1, <1>2, <1>3, <1>4, <1>5 DEF BinaryInv, Releases, Progress, Verified
<1> QED
  BY <1>6, <1>7, <1>8, <1>9, <1>10 DEF BinaryInv

\* The backup is renamed into place, and stays.
LEMMA RestoreBackupKeeps ==
  ASSUME NEW c \in Cli, InstallInv, RestoreBackup(c)
  PROVE  InstallInv'
<1> USE DEF InstallInv
<1>1. /\ cli[c] \in Command /\ cli[c].at = "restore" /\ shown \in Install
      /\ cli[c].new \in 1..MaxRelease /\ cli[c].old \in 0..MaxRelease
  BY InstallTypeIs DEF RestoreBackup, BinaryInv, Releases
<1>2. /\ cli' \in [Cli -> Command] /\ \A d \in Cli : d # c => cli'[d] = cli[d]
      /\ cli'[c].at = "resync" /\ cli'[c].new = cli[c].new /\ cli'[c].old = cli[c].old
  <2>1. "resync" \in Place
    BY DEF Place
  <2>2. /\ cli' \in [Cli -> Command] /\ \A d \in Cli : d # c => cli'[d] = cli[d]
        /\ Is(cli'[c], "resync", cli[c].rotates, cli[c].next, cli[c].new, cli[c].old, cli[c].path)
    BY <2>1, OneReaches, InstallTypeIs, Zenon DEF RestoreBackup
  <2> QED
    BY <2>2 DEF Is
<1>3. /\ shown' = [shown EXCEPT !["dest"] = cli[c].new] /\ onDisk' = onDisk \cup {shown'}
      /\ UNCHANGED <<identities, overlap, vanished>>
  BY DEF RestoreBackup
<1>4. /\ shown' \in Install /\ shown'["dest"] = cli[c].new
      /\ shown'["backup"] = shown["backup"] /\ shown'["sum"] = shown["sum"]
  BY <1>1, <1>3 DEF Install
<1>5. InstallationTypeOK'
  BY <1>2, <1>3, <1>4, InstallTypeIs, InstallTypeIsNext
<1>6. IdentityInv'
  BY <1>2, <1>3, IdentityStands
<1>7. OneChanges' /\ Releases'
  <2>1. OneChanges'
    BY <1>1, <1>2, <1>3 DEF BinaryInv, OneChanges
  <2>2. \A f \in onDisk' : f["dest"] # 0
    <3>1. shown'["dest"] # 0 /\ \A f \in onDisk' : f \in onDisk \/ f = shown'
      BY <1>1, <1>3, <1>4
    <3> QED
      BY <3>1 DEF BinaryInv, Releases
  <2>3. Releases'
    BY <1>1, <1>2, <2>2 DEF BinaryInv, Releases
  <2> QED
    BY <2>1, <2>3
<1>8. "binary" \notin overlap => Verified(shown) /\ cli[c].new = shown["backup"]
  BY <1>1 DEF BinaryInv, Progress
<1>9. ReplacedIsRecoverable' /\ NothingReplacedUnsaved'
  BY <1>3, <1>4, <1>8 DEF BinaryInv, ReplacedIsRecoverable, NothingReplacedUnsaved, Verified
<1>10. Progress'
  BY <1>1, <1>2, <1>3 DEF BinaryInv, OneChanges, Progress, Verified
<1> QED
  BY <1>5, <1>6, <1>7, <1>9, <1>10 DEF BinaryInv

\* The rollback is done.
LEMMA RestoreSyncedKeeps ==
  ASSUME NEW c \in Cli, InstallInv, RestoreSynced(c)
  PROVE  InstallInv'
<1> USE DEF InstallInv
<1>1. onDisk' = {shown} /\ UNCHANGED <<shown, identities, overlap, vanished>>
  BY DEF RestoreSynced
<1>2. /\ cli' \in [Cli -> Command]
      /\ \A d \in Cli : cli'[d] = cli[d] \/ cli'[d].at \notin Binary \cup Fresh
  BY ExitStands DEF RestoreSynced
<1>3. InstallationTypeOK'
  BY <1>1, <1>2, InstallTypeIs, InstallTypeIsNext
<1>4. IdentityInv'
  BY <1>1, <1>2, IdentityStands
<1>5. OneChanges' /\ Releases' /\ Progress'
  <2>1. shown \in onDisk
    BY InstallTypeIs
  <2>2. OneChanges'
    BY <1>1, <1>2 DEF BinaryInv, OneChanges
  <2>3. Releases'
    BY <1>1, <1>2, <2>1 DEF BinaryInv, Releases
  <2>4. Progress'
    BY <1>1, <1>2 DEF BinaryInv, Progress, Verified
  <2> QED
    BY <2>2, <2>3, <2>4
<1>6. ReplacedIsRecoverable' /\ NothingReplacedUnsaved'
  BY <1>1, InstallTypeIs DEF BinaryInv, ReplacedIsRecoverable, NothingReplacedUnsaved, Verified
<1> QED
  BY <1>3, <1>4, <1>5, <1>6 DEF BinaryInv

-----------------------------------------------------------------------------
(* setup and connect.                                                      *)

\* A setup begins, alone or not.
LEMMA SetupKeeps ==
  ASSUME NEW c \in Cli, InstallInv, Setup(c)
  PROVE  InstallInv'
<1> USE DEF InstallInv
<1>1. PICK path \in 0..keys : cli' = [cli EXCEPT ![c] = [Quiet EXCEPT !.at = "setup", !.path = path]]
  BY DEF Setup
<1> DEFINE b == [Quiet EXCEPT !.at = "setup", !.path = path]
<1>2. b \in Command /\ b.at = "setup" /\ b.path = path
  <2>1. "setup" \in Place /\ path \in KeyPath
    BY InstallTypeIs DEF Place
  <2> QED
    BY <2>1, QuietIsTyped DEF Command
<1>3. cli' = [cli EXCEPT ![c] = b] /\ UNCHANGED <<binaries, identities, vanished>>
  BY <1>1 DEF Setup
<1> HIDE DEF b
<1>4. cli' \in [Cli -> Command] /\ cli'[c] = b /\ \A d \in Cli : d # c => cli'[d] = cli[d]
  BY <1>2, <1>3, OneMoves, InstallTypeIs
<1>5. overlap \subseteq overlap' /\ overlap' \subseteq {"binary", "identity"}
  BY InstallTypeIs DEF Setup, Beside
<1>6. InstallationTypeOK'
  BY <1>3, <1>4, <1>5, InstallTypeIs, InstallTypeIsNext
<1>7. BinaryInv'
  BY <1>2, <1>3, <1>4, <1>5, BinaryStands
<1>8. ConfiguredKeyFits' /\ KeysNamed'
  BY <1>2, <1>3, <1>4, <1>5 DEF IdentityInv, ConfiguredKeyFits, KeysNamed
<1>9. OwnFiles'
  <2>1. "identity" \notin overlap' => \A d \in Cli : d # c => cli[d].at \notin Fresh
    BY DEF Setup, Beside
  <2>2. path <= keys
    BY InstallTypeIs
  <2> QED
    BY <1>2, <1>3, <1>4, <1>5, <2>1, <2>2 DEF OwnFiles
<1> QED
  BY <1>6, <1>7, <1>8, <1>9 DEF IdentityInv

\* It finds a key in its file.
LEMMA LoadKeyKeeps ==
  ASSUME NEW c \in Cli, InstallInv, LoadKey(c)
  PROVE  InstallInv'
<1> USE DEF InstallInv
<1>1. PICK key : key = keyFile[cli[c].path]
  OBVIOUS
<1> DEFINE b == [cli[c] EXCEPT !.at = "config", !.new = key]
<1>2. cli[c] \in Command /\ cli[c].at = "setup" /\ key \in 1..MaxKey
  <2>1. cli[c] \in Command /\ cli[c].at = "setup" /\ key # 0
    BY <1>1, InstallTypeIs DEF LoadKey
  <2>2. cli[c].path \in KeyPath /\ keyFile \in [KeyPath -> KeyPath]
    BY <2>1, InstallTypeIs DEF Command
  <2>3. key \in KeyPath
    BY <1>1, <2>2
  <2> QED
    BY <2>1, <2>3
<1>3. b \in Command /\ b.at = "config" /\ b.new = key /\ b.path = cli[c].path
  <2>1. "config" \in Place /\ key \in 0..(MaxRelease + MaxKey)
    BY <1>2 DEF Place
  <2>2. Is(b, "config", cli[c].rotates, cli[c].next, key, cli[c].old, cli[c].path)
    BY <1>2, <2>1, TwoFieldsAreTyped, Zenon
  <2> QED
    BY <2>2 DEF Is
<1>4. cli' = [cli EXCEPT ![c] = b] /\ UNCHANGED <<binaries, identities, overlap, vanished>>
  BY <1>1 DEF LoadKey
<1> HIDE DEF b
<1>5. cli' \in [Cli -> Command] /\ cli'[c] = b /\ \A d \in Cli : d # c => cli'[d] = cli[d]
  BY <1>3, <1>4, OneMoves, InstallTypeIs
<1>6. InstallationTypeOK'
  BY <1>4, <1>5, InstallTypeIs, InstallTypeIsNext
<1>7. BinaryInv'
  BY <1>3, <1>4, <1>5, BinaryStands
<1>8. ConfiguredKeyFits' /\ KeysNamed'
  BY <1>2, <1>3, <1>4, <1>5 DEF IdentityInv, ConfiguredKeyFits, KeysNamed
<1>9. OwnFiles'
  BY <1>1, <1>2, <1>3, <1>4, <1>5 DEF IdentityInv, OwnFiles
<1> QED
  BY <1>6, <1>7, <1>8, <1>9 DEF IdentityInv

\* A new identity: its number is its own, and so is the file it will be saved in.
LEMMA GeneratesStands ==
  ASSUME NEW c \in Cli, NEW rotates \in BOOLEAN, NEW path \in KeyPath, InstallInv, Generates(c, rotates, path),
         path = keys + 1 \/ (cli[c].at = "setup" /\ path = cli[c].path)
  PROVE  InstallInv'
<1> USE DEF InstallInv
<1> DEFINE b == [Quiet EXCEPT !.at = "save", !.rotates = rotates, !.new = keys + 1, !.path = path]
<1>1. /\ keys \in 0..MaxKey /\ keys + 1 \in 1..MaxKey /\ keys' = keys + 1
      /\ UNCHANGED <<onDisk, shown, config, configOnDisk, keyFile, keyOnDisk, gone, overlap, vanished>>
  BY InstallTypeIs DEF Generates
<1>2. b \in Command /\ b.at = "save" /\ b.new = keys + 1 /\ b.path = path
  <2>1. "save" \in Place /\ keys + 1 \in 0..(MaxRelease + MaxKey)
    BY <1>1 DEF Place
  <2>2. Is(b, "save", rotates, Quiet.next, keys + 1, Quiet.old, path)
    BY <2>1, QuietIsTyped, NewKeyIsTyped, Zenon
  <2> QED
    BY <2>2 DEF Is
<1>3. cli' = [cli EXCEPT ![c] = b]
  BY DEF Generates
<1> HIDE DEF b
<1>4. cli' \in [Cli -> Command] /\ cli'[c] = b /\ \A d \in Cli : d # c => cli'[d] = cli[d]
  BY <1>2, <1>3, OneMoves, InstallTypeIs
<1>5. InstallationTypeOK'
  <2> HIDE DEF InstallInv
  <2>1. InstallationTypeOK /\ keys' \in 0..MaxKey
    BY <1>1 DEF InstallInv
  <2> QED
    BY <1>1, <1>4, <2>1, InstallTypeIs, InstallTypeIsNext
<1>6. BinaryInv'
  BY <1>1, <1>2, <1>4, BinaryStands
<1>7. ConfiguredKeyFits' /\ KeysNamed'
  BY <1>1, <1>2, <1>4 DEF IdentityInv, ConfiguredKeyFits, KeysNamed
<1>8. OwnFiles'
  <2> SUFFICES ASSUME "identity" \notin overlap PROVE OwnFiles'
    BY <1>1 DEF OwnFiles
  <2>1. \A d \in Cli : cli[d] \in Command /\ cli[d].path \in KeyPath
    BY InstallTypeIs DEF Command
  <2>2. path <= keys'
    BY <1>1, <2>1 DEF IdentityInv, OwnFiles
  <2>3. \A d \in Cli : d # c /\ cli[d].at \in Fresh => cli[d].path # path /\ cli[d].path <= keys'
    BY <1>1, <2>1 DEF IdentityInv, OwnFiles
  <2>4. \A d \in Cli : d # c => cli'[d].at = cli[d].at /\ cli'[d].path = cli[d].path /\ cli'[d].new = cli[d].new
    BY <1>4
  <2>5. cli'[c].at = "save" /\ cli'[c].path = path
    BY <1>2, <1>4
  <2> QED
    BY <1>1, <2>2, <2>3, <2>4, <2>5 DEF IdentityInv, OwnFiles
<1> QED
  BY <1>5, <1>6, <1>7, <1>8 DEF IdentityInv

LEMMA CreateKeyKeeps ==
  ASSUME NEW c \in Cli, InstallInv, CreateKey(c)
  PROVE  InstallInv'
<1>1. cli[c].path \in KeyPath /\ FALSE \in BOOLEAN
  BY InstallTypeIs DEF InstallInv, Command
<1> QED
  BY <1>1, GeneratesStands DEF CreateKey

\* A rotation begins.
LEMMA RotatesKeeps ==
  ASSUME NEW c \in Cli, InstallInv, Generates(c, TRUE, keys + 1)
  PROVE  InstallInv'
<1>1. keys + 1 \in KeyPath /\ TRUE \in BOOLEAN
  BY InstallTypeIs DEF InstallInv, Generates
<1> QED
  BY <1>1, GeneratesStands

\* A command goes on that is about to save a key.
LEMMA CheckKeyFreeKeeps ==
  ASSUME NEW c \in Cli, InstallInv, CheckKeyFree(c)
  PROVE  InstallInv'
<1> USE DEF InstallInv
<1>1. /\ cli[c].at = "save" /\ keyFile[cli[c].path] = 0
      /\ UNCHANGED <<binaries, identities, overlap, vanished>>
  BY DEF CheckKeyFree
<1>2. /\ cli' \in [Cli -> Command] /\ \A d \in Cli : d # c => cli'[d] = cli[d]
      /\ cli'[c].at = "key" /\ cli'[c].new = cli[c].new /\ cli'[c].path = cli[c].path
  <2>1. "key" \in Place
    BY DEF Place
  <2>2. /\ cli' \in [Cli -> Command] /\ \A d \in Cli : d # c => cli'[d] = cli[d]
        /\ Is(cli'[c], "key", cli[c].rotates, cli[c].next, cli[c].new, cli[c].old, cli[c].path)
    BY <2>1, OneReaches, InstallTypeIs, Zenon DEF CheckKeyFree
  <2> QED
    BY <2>2 DEF Is
<1>3. InstallationTypeOK'
  BY <1>1, <1>2, InstallTypeIs, InstallTypeIsNext
<1>4. BinaryInv'
  BY <1>1, <1>2, BinaryStands
<1>5. ConfiguredKeyFits' /\ KeysNamed'
  BY <1>1, <1>2 DEF IdentityInv, ConfiguredKeyFits, KeysNamed
<1>6. OwnFiles'
  BY <1>1, <1>2 DEF IdentityInv, OwnFiles
<1> QED
  BY <1>3, <1>4, <1>5, <1>6 DEF IdentityInv

\* One key file changes.
LEMMA KeyIsPut ==
  ASSUME InstallationTypeOK, NEW path \in KeyPath, NEW key \in KeyPath, PutsKey(path, key)
  PROVE  /\ keyFile' \in [KeyPath -> KeyPath] /\ keyFile'[path] = key
         /\ \A p \in KeyPath : p # path => keyFile'[p] = keyFile[p]
         /\ keyOnDisk' \in [KeyPath -> SUBSET KeyPath] /\ \A p \in KeyPath : keyFile'[p] \in keyOnDisk'[p]
<1> HIDE DEF KeyPath
<1>1. /\ keyFile \in [KeyPath -> KeyPath] /\ keyOnDisk \in [KeyPath -> SUBSET KeyPath]
      /\ \A p \in KeyPath : keyFile[p] \in keyOnDisk[p]
  BY InstallTypeIs
<1>2. keyFile' = [keyFile EXCEPT ![path] = key] /\ keyOnDisk' = [keyOnDisk EXCEPT ![path] = @ \cup {key}]
  BY DEF PutsKey
<1>3. /\ keyFile' \in [KeyPath -> KeyPath] /\ keyFile'[path] = key
      /\ \A p \in KeyPath : p # path => keyFile'[p] = keyFile[p]
  BY <1>1, <1>2
<1>4. /\ keyOnDisk' \in [KeyPath -> SUBSET KeyPath] /\ key \in keyOnDisk'[path]
      /\ \A p \in KeyPath : p # path => keyOnDisk'[p] = keyOnDisk[p]
  BY <1>1, <1>2
<1> QED
  BY <1>1, <1>3, <1>4

\* The key is saved: where none was, in a file no other command uses.
LEMMA SaveKeyKeeps ==
  ASSUME NEW c \in Cli, InstallInv, SaveKey(c)
  PROVE  InstallInv'
<1> USE DEF InstallInv
<1>1. PICK path, key : path = cli[c].path /\ key = cli[c].new
  OBVIOUS
<1>2. /\ cli[c].at = "key" /\ PutsKey(path, key)
      /\ UNCHANGED <<binaries, config, configOnDisk, keys, gone, overlap, vanished>>
  BY <1>1 DEF SaveKey
<1>3. path \in KeyPath /\ key \in 1..MaxKey /\ key \in KeyPath
  <2>1. cli[c] \in Command
    BY InstallTypeIs
  <2> QED
    BY <1>1, <1>2, <2>1 DEF IdentityInv, KeysNamed, Command
<1>4. /\ cli' \in [Cli -> Command] /\ \A d \in Cli : d # c => cli'[d] = cli[d]
      /\ cli'[c].at = "config" /\ cli'[c].new = key /\ cli'[c].path = path
  <2>1. "config" \in Place
    BY DEF Place
  <2>2. /\ cli' \in [Cli -> Command] /\ \A d \in Cli : d # c => cli'[d] = cli[d]
        /\ Is(cli'[c], "config", cli[c].rotates, cli[c].next, cli[c].new, cli[c].old, cli[c].path)
    BY <2>1, OneReaches, InstallTypeIs, Zenon DEF SaveKey
  <2> QED
    BY <1>1, <2>2 DEF Is
<1>5. /\ keyFile' \in [KeyPath -> KeyPath] /\ keyFile'[path] = key
      /\ \A p \in KeyPath : p # path => keyFile'[p] = keyFile[p]
      /\ keyOnDisk' \in [KeyPath -> SUBSET KeyPath] /\ \A p \in KeyPath : keyFile'[p] \in keyOnDisk'[p]
  BY <1>2, <1>3, KeyIsPut
<1>6. InstallationTypeOK'
  <2> HIDE DEF InstallInv
  <2>1. InstallationTypeOK /\ UNCHANGED <<onDisk, shown, config, configOnDisk, keys, gone, overlap, vanished>>
    BY <1>2 DEF InstallInv
  <2> QED
    BY <1>4, <1>5, <2>1, InstallTypeIs, InstallTypeIsNext
<1>7. BinaryInv'
  BY <1>2, <1>4, BinaryStands
<1>8. KeysNamed'
  BY <1>3, <1>4 DEF IdentityInv, KeysNamed
<1>9. /\ "identity" \notin overlap => keyFile[path] = 0
      /\ "identity" \notin overlap => \A d \in Cli : d # c /\ cli[d].at \in Fresh => cli[d].path # path
  BY <1>1, <1>2 DEF IdentityInv, OwnFiles
<1>10. OwnFiles'
  <2> SUFFICES ASSUME "identity" \notin overlap PROVE OwnFiles'
    BY <1>2 DEF OwnFiles
  <2>1. \A d \in Cli : d # c => cli'[d].at = cli[d].at /\ cli'[d].path = cli[d].path /\ cli'[d].new = cli[d].new
    BY <1>4
  <2>2. \A d \in Cli : cli[d].path \in KeyPath
    BY InstallTypeIs DEF Command
  <2>3. \A d \in Cli : d # c /\ cli[d].at \in Fresh => cli[d].path # path /\ keyFile'[cli[d].path] = keyFile[cli[d].path]
    BY <1>5, <1>9, <2>2
  <2>4. path <= keys
    BY <1>1, <1>2 DEF IdentityInv, OwnFiles
  <2>5. ASSUME NEW d \in Cli, d # c, cli'[d].at \in Fresh
        PROVE  /\ cli'[d].path <= keys
               /\ cli'[d].at = "key" => keyFile'[cli'[d].path] = 0
               /\ cli'[d].at \in {"config", "settle"} => keyFile'[cli'[d].path] = cli'[d].new
    BY <2>1, <2>3, <2>5 DEF IdentityInv, OwnFiles
  <2>6. ASSUME NEW d \in Cli, NEW e \in Cli, cli'[d].at \in Fresh, cli'[e].at \in Fresh, cli'[e].path = cli'[d].path
        PROVE  e = d
    BY <1>4, <2>1, <2>3, <2>6 DEF IdentityInv, OwnFiles
  <2>7. cli'[c].path <= keys /\ keyFile'[cli'[c].path] = cli'[c].new /\ cli'[c].at = "config"
    BY <1>4, <1>5, <2>4
  <2>8. ASSUME NEW d \in Cli, cli'[d].at \in Fresh
        PROVE  /\ cli'[d].path <= keys
               /\ cli'[d].at = "key" => keyFile'[cli'[d].path] = 0
               /\ cli'[d].at \in {"config", "settle"} => keyFile'[cli'[d].path] = cli'[d].new
    BY <2>5, <2>7, <2>8
  <2> QED
    BY <1>2, <2>6, <2>8 DEF OwnFiles
<1>11. ConfiguredKeyFits'
  <2> SUFFICES ASSUME "identity" \notin overlap, NEW f \in configOnDisk, f.id # 0, f.id \notin vanished
               PROVE  keyFile'[f.path] = f.id
    BY <1>2 DEF ConfiguredKeyFits
  <2>1. keyFile[f.path] = f.id
    BY DEF IdentityInv, ConfiguredKeyFits
  <2>2. f.path \in KeyPath /\ f.path # path
    BY <1>9, <2>1, InstallTypeIs DEF Config
  <2> QED
    BY <1>5, <2>1, <2>2
<1> QED
  BY <1>6, <1>7, <1>8, <1>10, <1>11 DEF IdentityInv

\* The configuration names the key that is in the file.
LEMMA SaveConfigKeeps ==
  ASSUME NEW c \in Cli, InstallInv, SaveConfig(c)
  PROVE  InstallInv'
<1> USE DEF InstallInv
<1>1. PICK f : f = [id |-> cli[c].new, path |-> cli[c].path]
  OBVIOUS
<1>2. /\ cli[c].at = "config" /\ config' = f /\ configOnDisk' = configOnDisk \cup {f}
      /\ UNCHANGED <<binaries, keyFile, keyOnDisk, keys, gone, overlap, vanished>>
  BY <1>1 DEF SaveConfig
<1>3. /\ cli' \in [Cli -> Command] /\ \A d \in Cli : d # c => cli'[d] = cli[d]
      /\ cli'[c].at = "settle" /\ cli'[c].new = cli[c].new /\ cli'[c].path = cli[c].path
  <2>1. "settle" \in Place
    BY DEF Place
  <2>2. /\ cli' \in [Cli -> Command] /\ \A d \in Cli : d # c => cli'[d] = cli[d]
        /\ Is(cli'[c], "settle", cli[c].rotates, cli[c].next, cli[c].new, cli[c].old, cli[c].path)
    BY <2>1, OneReaches, InstallTypeIs, Zenon DEF SaveConfig
  <2> QED
    BY <2>2 DEF Is
<1>4. f \in Config /\ f.id = cli[c].new /\ f.path = cli[c].path
  <2>1. cli[c].path \in KeyPath /\ cli[c].new \in KeyPath
    <3>1. cli[c] \in Command
      BY InstallTypeIs
    <3> QED
      BY <1>2, <3>1 DEF IdentityInv, KeysNamed, Command
  <2> QED
    BY <1>1, <2>1 DEF Config
<1>5. InstallationTypeOK'
  <2> HIDE DEF InstallInv
  <2>1. /\ InstallationTypeOK /\ UNCHANGED <<onDisk, shown, keyFile, keyOnDisk, keys, gone, overlap, vanished>>
    BY <1>2 DEF InstallInv
  <2>2. configOnDisk' \subseteq Config /\ config' \in configOnDisk'
    BY <1>2, <1>4, <2>1, InstallTypeIs
  <2> QED
    BY <1>3, <2>1, <2>2, InstallTypeIs, InstallTypeIsNext
<1>6. BinaryInv'
  BY <1>2, <1>3, BinaryStands
<1>7. KeysNamed' /\ OwnFiles'
  BY <1>2, <1>3 DEF IdentityInv, KeysNamed, OwnFiles
<1>8. ConfiguredKeyFits'
  BY <1>2, <1>4 DEF IdentityInv, OwnFiles, ConfiguredKeyFits
<1> QED
  BY <1>5, <1>6, <1>7, <1>8 DEF IdentityInv

LEMMA SyncConfigKeeps ==
  ASSUME NEW c \in Cli, InstallInv, SyncConfig(c)
  PROVE  InstallInv'
<1> USE DEF InstallInv
<1>1. /\ configOnDisk' = {config}
      /\ UNCHANGED <<binaries, config, keyFile, keyOnDisk, keys, gone, overlap, vanished>>
  BY DEF SyncConfig
<1>2. /\ cli' \in [Cli -> Command]
      /\ \A d \in Cli : cli'[d] = cli[d] \/ cli'[d].at \notin Binary \cup Fresh
  BY ExitStands DEF SyncConfig
<1>3. config \in configOnDisk
  BY InstallTypeIs
<1>4. InstallationTypeOK'
  <2> HIDE DEF InstallInv
  <2>1. InstallationTypeOK /\ UNCHANGED <<onDisk, shown, config, keyFile, keyOnDisk, keys, gone, overlap, vanished>>
    BY <1>1 DEF InstallInv
  <2> QED
    BY <1>1, <1>2, <1>3, <2>1, InstallTypeIs, InstallTypeIsNext
<1>5. BinaryInv'
  BY <1>1, <1>2, BinaryStands
<1>6. KeysNamed' /\ OwnFiles'
  BY <1>1, <1>2 DEF IdentityInv, KeysNamed, OwnFiles
<1>7. ConfiguredKeyFits'
  BY <1>1, <1>3 DEF IdentityInv, ConfiguredKeyFits
<1> QED
  BY <1>4, <1>5, <1>6, <1>7 DEF IdentityInv

\* A rotation that fails here removes its own key, from a file no other command
\* uses.
LEMMA RotationFailsKeeps ==
  ASSUME NEW c \in Cli, InstallInv, RotationFails(c)
  PROVE  InstallInv'
<1> USE DEF InstallInv
<1>1. PICK path, key : path = cli[c].path /\ key = cli[c].new
  OBVIOUS
<1>2. /\ cli[c].at \in {"config", "settle"} /\ PutsKey(path, 0) /\ vanished' = vanished \cup {key}
      /\ UNCHANGED <<binaries, config, configOnDisk, keys, gone, overlap>>
  BY <1>1 DEF RotationFails
<1>3. path \in KeyPath /\ key \in KeyPath /\ 0 \in KeyPath
  <2>1. cli[c] \in Command
    BY InstallTypeIs
  <2> QED
    BY <1>1, <1>2, <2>1 DEF IdentityInv, KeysNamed, Command
<1>4. /\ cli' \in [Cli -> Command]
      /\ \A d \in Cli : cli'[d] = cli[d] \/ cli'[d].at \notin Binary \cup Fresh
      /\ cli'[c].at \notin Fresh
  <2>1. cli' = [cli EXCEPT ![c] = Quiet] /\ cli \in [Cli -> Command]
    BY InstallTypeIs DEF RotationFails, Exits
  <2> QED
    BY <2>1, ExitStands, QuietIsTyped DEF RotationFails
<1>5. /\ keyFile' \in [KeyPath -> KeyPath] /\ keyFile'[path] = 0
      /\ \A p \in KeyPath : p # path => keyFile'[p] = keyFile[p]
      /\ keyOnDisk' \in [KeyPath -> SUBSET KeyPath] /\ \A p \in KeyPath : keyFile'[p] \in keyOnDisk'[p]
  BY <1>2, <1>3, KeyIsPut
<1>6. InstallationTypeOK'
  <2> HIDE DEF InstallInv
  <2>1. InstallationTypeOK /\ UNCHANGED <<onDisk, shown, config, configOnDisk, keys, gone, overlap>>
    BY <1>2 DEF InstallInv
  <2>2. vanished' \subseteq KeyPath
    <3>1. vanished \subseteq KeyPath
      BY <2>1, InstallTypeIs
    <3> HIDE DEF KeyPath
    <3> QED
      BY <1>2, <1>3, <3>1
  <2> QED
    BY <1>4, <1>5, <2>1, <2>2, InstallTypeIs, InstallTypeIsNext
<1>7. BinaryInv'
  BY <1>2, <1>4, BinaryStands
<1>8. KeysNamed'
  BY <1>4 DEF IdentityInv, KeysNamed
<1>9. "identity" \notin overlap =>
        keyFile[path] = key /\ \A d \in Cli : d # c /\ cli[d].at \in Fresh => cli[d].path # path
  BY <1>1, <1>2 DEF IdentityInv, OwnFiles
<1>10. OwnFiles'
  <2> SUFFICES ASSUME "identity" \notin overlap PROVE OwnFiles'
    BY <1>2 DEF OwnFiles
  <2>1. \A d \in Cli : cli[d].path \in KeyPath
    BY InstallTypeIs DEF Command
  <2>2. \A d \in Cli : cli'[d].at \in Fresh => d # c /\ cli'[d] = cli[d] /\ keyFile'[cli[d].path] = keyFile[cli[d].path]
    BY <1>4, <1>5, <1>9, <2>1
  <2> QED
    BY <1>2, <2>2 DEF IdentityInv, OwnFiles
<1>11. ConfiguredKeyFits'
  <2> SUFFICES ASSUME "identity" \notin overlap, NEW f \in configOnDisk, f.id # 0, f.id \notin vanished, f.id # key
               PROVE  keyFile'[f.path] = f.id
    BY <1>2 DEF ConfiguredKeyFits
  <2>1. keyFile[f.path] = f.id
    BY DEF IdentityInv, ConfiguredKeyFits
  <2>2. f.path \in KeyPath /\ f.path # path
    BY <1>9, <2>1, InstallTypeIs DEF Config
  <2> QED
    BY <1>5, <2>1, <2>2
<1> QED
  BY <1>6, <1>7, <1>8, <1>10, <1>11 DEF IdentityInv

\* connect uses the identity, or begins to replace the one whose key is missing.
LEMMA RunConnectKeeps ==
  ASSUME NEW c \in Cli, InstallInv, RunConnect(c)
  PROVE  InstallInv'
<1>1. CASE Generates(c, TRUE, keys + 1)
  BY <1>1, RotatesKeeps
<1>2. CASE /\ cli' = [cli EXCEPT ![c] = [Quiet EXCEPT !.at = "connect", !.old = config.id]]
           /\ UNCHANGED <<binaries, identities, overlap, vanished>>
  <2> USE DEF InstallInv
  <2> DEFINE b == [Quiet EXCEPT !.at = "connect", !.old = config.id]
  <2>1. b \in Command /\ b.at = "connect"
    <3>1. "connect" \in Place /\ config.id \in 0..(MaxRelease + MaxKey)
      <4>1. config \in Config
        BY InstallTypeIs
      <4>2. config.id \in KeyPath
        BY <4>1 DEF Config
      <4> QED
        BY <4>2, InBounds, Zenon DEF Place
    <3>2. Is(b, "connect", Quiet.rotates, Quiet.next, Quiet.new, config.id, Quiet.path)
      BY <3>1, QuietIsTyped, TwoFieldsAreTyped, Zenon
    <3> QED
      BY <3>2 DEF Is
  <2>2. cli' = [cli EXCEPT ![c] = b]
    BY <1>2
  <2> HIDE DEF b
  <2>3. cli' \in [Cli -> Command] /\ cli'[c] = b /\ \A d \in Cli : d # c => cli'[d] = cli[d]
    BY <2>1, <2>2, OneMoves, InstallTypeIs
  <2>4. \A d \in Cli : cli'[d] = cli[d] \/ cli'[d].at \notin Binary \cup Fresh
    BY <2>1, <2>3
  <2>5. InstallationTypeOK'
    BY <1>2, <2>3, InstallTypeIs, InstallTypeIsNext
  <2> QED
    BY <1>2, <2>4, <2>5, BinaryStands, IdentityStands
<1> QED
  BY <1>1, <1>2 DEF RunConnect

LEMMA RotateKeeps ==
  ASSUME NEW c \in Cli, InstallInv, Rotate(c)
  PROVE  InstallInv'
  BY RotatesKeeps DEF Rotate

\* The Relay refuses the identity.
LEMMA RefusedKeeps ==
  ASSUME NEW c \in Cli, InstallInv, Refused(c)
  PROVE  InstallInv'
<1> USE DEF InstallInv
<1>1. /\ cli' \in [Cli -> Command] /\ \A d \in Cli : d # c => cli'[d] = cli[d]
      /\ cli'[c].at = "rotate"
  <2>1. "rotate" \in Place
    BY DEF Place
  <2>2. /\ cli' \in [Cli -> Command] /\ \A d \in Cli : d # c => cli'[d] = cli[d]
        /\ Is(cli'[c], "rotate", cli[c].rotates, cli[c].next, cli[c].new, cli[c].old, cli[c].path)
    BY <2>1, OneReaches, InstallTypeIs, Zenon DEF Refused
  <2> QED
    BY <2>2 DEF Is
<1>2. UNCHANGED <<binaries, identities, overlap, vanished>>
  BY DEF Refused
<1>3. InstallationTypeOK'
  BY <1>1, <1>2, InstallTypeIs, InstallTypeIsNext
<1> QED
  BY <1>1, <1>2, <1>3, BinaryStands, IdentityStands

-----------------------------------------------------------------------------
(* The Relay, and what ends a command.                                     *)

LEMMA RevokeIdentityKeeps ==
  ASSUME NEW i \in 1..MaxKey, InstallInv, RevokeIdentity(i)
  PROVE  InstallInv'
<1> USE DEF InstallInv
<1>1. /\ UNCHANGED <<binaries, config, configOnDisk, keyFile, keyOnDisk, keys, cli, overlap, vanished>>
      /\ gone' = gone \cup {i}
  BY DEF RevokeIdentity
<1>2. InstallationTypeOK'
  <2>1. gone' \subseteq KeyPath
    <3>1. gone \subseteq KeyPath
      BY InstallTypeIs
    <3>2. i \in KeyPath
      OBVIOUS
    <3> HIDE DEF KeyPath
    <3> QED
      BY <1>1, <3>1, <3>2
  <2> QED
    BY <1>1, <2>1, InstallTypeIs, InstallTypeIsNext
<1> QED
  BY <1>1, <1>2, BinaryStands, IdentityStands

LEMMA CliEndsKeeps ==
  ASSUME NEW c \in Cli, InstallInv, CliEnds(c)
  PROVE  InstallInv'
<1> USE DEF InstallInv
<1>1. UNCHANGED <<binaries, identities, overlap, vanished>>
  BY DEF CliEnds
<1>2. /\ cli' \in [Cli -> Command]
      /\ \A d \in Cli : cli'[d] = cli[d] \/ cli'[d].at \notin Binary \cup Fresh
  BY ExitStands DEF CliEnds
<1>3. InstallationTypeOK'
  BY <1>1, <1>2, InstallTypeIs, InstallTypeIsNext
<1> QED
  BY <1>1, <1>2, <1>3, BinaryStands, IdentityStands

\* What the disk held is shown, and a key that is not there any more has vanished.
LEMMA PowerLossKeeps ==
  ASSUME InstallInv, PowerLoss
  PROVE  InstallInv'
<1> USE DEF InstallInv
<1>1. /\ shown' \in onDisk /\ onDisk' = {shown'} /\ config' \in configOnDisk /\ configOnDisk' = {config'}
      /\ keyFile' \in [KeyPath -> KeyPath] /\ keyOnDisk' = [p \in KeyPath |-> {keyFile'[p]}]
      /\ vanished' = vanished \cup ({keyFile[p] : p \in {q \in KeyPath : keyFile'[q] # keyFile[q]}} \ {0})
      /\ UNCHANGED <<keys, gone, overlap>>
  BY DEF PowerLoss
<1>2. cli' \in [Cli -> Command] /\ \A d \in Cli : cli'[d].at = "idle"
  <2>1. cli' = [c \in Cli |-> Quiet]
    BY DEF PowerLoss
  <2> QED
    BY <2>1, QuietIsTyped
<1>3. /\ vanished \subseteq vanished' /\ vanished' \subseteq KeyPath
      /\ \A p \in KeyPath : keyFile'[p] = keyFile[p] \/ keyFile[p] \in vanished' \cup {0}
  <2>1. keyFile \in [KeyPath -> KeyPath] /\ vanished \subseteq KeyPath
    BY InstallTypeIs
  <2> HIDE DEF KeyPath
  <2> QED
    BY <1>1, <2>1
<1>4. InstallationTypeOK'
  <2>1. keyOnDisk' \in [KeyPath -> SUBSET KeyPath] /\ \A p \in KeyPath : keyFile'[p] \in keyOnDisk'[p]
    <3> HIDE DEF KeyPath
    <3> QED
      BY <1>1
  <2> HIDE DEF InstallInv
  <2>2. InstallationTypeOK
    BY DEF InstallInv
  <2>3. configOnDisk' \subseteq Config /\ onDisk' \subseteq Install /\ keys \in 0..MaxKey /\ gone \subseteq KeyPath
        /\ overlap \subseteq {"binary", "identity"}
    BY <1>1, <2>2, InstallTypeIs
  <2> QED
    BY <1>1, <1>2, <1>3, <2>1, <2>3, InstallTypeIsNext
<1>5. BinaryInv'
  <2>1. ReplacedIsRecoverable' /\ NothingReplacedUnsaved'
    BY <1>1 DEF BinaryInv, ReplacedIsRecoverable, NothingReplacedUnsaved, Verified
  <2>2. OneChanges' /\ Releases' /\ Progress'
    BY <1>1, <1>2 DEF BinaryInv, OneChanges, Releases, Progress, Verified
  <2> QED
    BY <2>1, <2>2 DEF BinaryInv
<1>6. KeysNamed' /\ OwnFiles'
  BY <1>2 DEF KeysNamed, OwnFiles
<1>7. ConfiguredKeyFits'
  <2>1. config' \in configOnDisk /\ config'.path \in KeyPath
    BY <1>1, InstallTypeIs DEF Config
  <2>2. keyFile'[config'.path] = keyFile[config'.path] \/ keyFile[config'.path] \in vanished' \cup {0}
    BY <1>3, <2>1
  <2>3. "identity" \notin overlap /\ config'.id # 0 /\ config'.id \notin vanished =>
          keyFile[config'.path] = config'.id
    BY <2>1 DEF IdentityInv, ConfiguredKeyFits
  <2> QED
    BY <1>1, <1>3, <2>2, <2>3 DEF ConfiguredKeyFits
<1> QED
  BY <1>4, <1>5, <1>6, <1>7 DEF IdentityInv

-----------------------------------------------------------------------------
(* All together.                                                           *)

LEMMA InstallInitially == InstallationInit => InstallInv
<1> SUFFICES ASSUME InstallationInit PROVE InstallInv
  OBVIOUS
<1> USE DEF InstallationInit
<1>1. InstallationTypeOK
  <2>1. shown \in Install /\ onDisk = {shown}
    BY DEF Install
  <2>2. cli \in [Cli -> Command]
    BY QuietIsTyped
  <2>3. /\ config \in Config /\ configOnDisk = {config} /\ keyFile \in [KeyPath -> KeyPath]
        /\ keyOnDisk \in [KeyPath -> SUBSET KeyPath] /\ \A p \in KeyPath : keyFile[p] \in keyOnDisk[p]
    BY DEF Config
  <2> QED
    BY <2>1, <2>2, <2>3, InstallTypeIs
<1>2. \A c \in Cli : cli[c].at = "idle"
  BY QuietIsTyped
<1>3. BinaryInv
  BY <1>2 DEF BinaryInv, ReplacedIsRecoverable, NothingReplacedUnsaved, OneChanges, Releases, Progress, Verified
<1>4. IdentityInv
  BY <1>2 DEF IdentityInv, ConfiguredKeyFits, KeysNamed, OwnFiles
<1> QED
  BY <1>1, <1>3, <1>4 DEF InstallInv

LEMMA InstallStutters == InstallInv /\ UNCHANGED installVars => InstallInv'
<1> SUFFICES ASSUME InstallInv, UNCHANGED installVars PROVE InstallInv'
  OBVIOUS
<1> USE DEF InstallInv
<1>1. UNCHANGED <<onDisk, shown, config, configOnDisk, keyFile, keyOnDisk, keys, gone, vanished, cli, overlap>>
  BY DEF installVars
<1>2. InstallationTypeOK'
  BY <1>1, InstallTypeIs, InstallTypeIsNext
<1> QED
  BY <1>1, <1>2, BinaryStands, IdentityStands

LEMMA InstallStep == InstallInv /\ [InstallationNext]_installVars => InstallInv'
<1> SUFFICES ASSUME InstallInv, InstallationNext PROVE InstallInv'
  BY InstallStutters
<1>1. ASSUME NEW c \in Cli, CliStep(c) PROVE InstallInv'
  <2>1. CASE \/ (\E r \in 1..MaxRelease : Update(c, r)) \/ ReadCurrent(c) \/ WriteNext(c) \/ SyncNext(c)
             \/ Rollback(c) \/ RestoreBackup(c) \/ RestoreSynced(c)
    BY <2>1, UpdateKeeps, ReadCurrentKeeps, WriteNextKeeps, SyncNextKeeps, RollbackKeeps, RestoreBackupKeeps,
       RestoreSyncedKeeps, Zenon
  <2>2. CASE \/ Setup(c) \/ LoadKey(c) \/ CreateKey(c) \/ CheckKeyFree(c) \/ SaveKey(c)
             \/ SaveConfig(c) \/ SyncConfig(c) \/ RotationFails(c) \/ RunConnect(c) \/ Refused(c) \/ Rotate(c) \/ CliEnds(c)
    BY <2>2, SetupKeeps, LoadKeyKeeps, CreateKeyKeeps, CheckKeyFreeKeeps, SaveKeyKeeps, SaveConfigKeeps,
       SyncConfigKeeps, RotationFailsKeeps, RunConnectKeeps, RefusedKeeps, RotateKeeps, CliEndsKeeps, Zenon
  <2> QED
    BY <1>1, <2>1, <2>2, Zenon DEF CliStep
<1> QED
  BY <1>1, RevokeIdentityKeeps, PowerLossKeeps, Zenon DEF InstallationNext

\* What is installed, saved, configured and held by the key files stays as
\* InstallInv says, whatever commands do side by side, however they end, and
\* through losses of power.
THEOREM InstallInvariant == InstallationSpec => []InstallInv
<1> QED
  BY InstallInitially, InstallStep, PTL DEF InstallationSpec

\* An interrupted update can be rolled back (releaseinstall: InstallArchiveBinary,
\* RestoreVerifiedBackup), and the configuration names a key that is there, whichever
\* key files setups and rotations used (runAgentSetup, rotateConfiguredAgentIdentity),
\* unless a loss of power or a rotation that failed took it: for any number of
\* commands, releases and identities.
THEOREM InterruptedIsRepairable == InstallationSpec => []InstallHolds
<1>1. InstallInv => InstallHolds
  BY DEF InstallInv, BinaryInv, IdentityInv, InstallHolds
<1> QED
  BY <1>1, InstallInvariant, PTL

-----------------------------------------------------------------------------
(* UniqueUI: numbers, sets and lists of elements.                          *)

\* A set of numbers that is not empty has a least element.
LEMMA LeastElement == \A T \in SUBSET Nat : T # {} => \E x \in T : \A y \in T : x <= y
<1> SUFFICES ASSUME NEW T \in SUBSET Nat, T # {} PROVE \E x \in T : \A y \in T : x <= y
  OBVIOUS
<1>1. PICK R : R = OpToRel(<, Nat)
  BY Zenon
<1>2. IsWellFoundedOn(R, Nat)
  BY <1>1, NatLessThanWellFounded, Zenon
<1>3. PICK x \in T : \A y \in T : ~(<<y, x>> \in R)
  BY <1>2, WFMin
<1>4. \A y \in T : ~(y < x)
  BY <1>1, <1>3 DEF OpToRel
<1> QED
  BY <1>4

\* A set of elements is finite and no larger than the tree.
LEMMA ElementsAreFinite ==
  /\ IsFiniteSet(Element) /\ Cardinality(Element) = MaxNode
  /\ \A S \in SUBSET Element : IsFiniteSet(S) /\ Cardinality(S) \in Nat /\ Cardinality(S) <= MaxNode
<1>1. IsFiniteSet(Element) /\ Cardinality(Element) = MaxNode
  BY FS_Interval, MaxNodeAssumption DEF Element
<1> QED
  BY <1>1, FS_Subset, FS_CardinalityType

\* Elements are numbered from one.
LEMMA ElementsAreNumbers == Element \subseteq Nat /\ \A n \in Element : n \in Nat /\ n >= 1 /\ n <= MaxNode
<1> QED
  BY MaxNodeAssumption DEF Element

\* The place of an element among those of a set.
Rank(S, n) == Cardinality({m \in S : m < n})

\* A rank is below the size of the set, and ranks grow with the elements.
LEMMA RanksAre ==
  ASSUME NEW S \in SUBSET Element
  PROVE  /\ \A n \in S : Rank(S, n) \in 0..(Cardinality(S) - 1)
         /\ \A n, k \in S : n < k => Rank(S, n) < Rank(S, k)
<1>1. ASSUME NEW n \in S, NEW T \in SUBSET S, {m \in S : m < n} \cup {n} \subseteq T
      PROVE  Rank(S, n) \in Nat /\ Rank(S, n) < Cardinality(T) /\ Cardinality(T) \in Nat
  <2>1. PICK B : B = {m \in S : m < n}
    OBVIOUS
  <2>2. n \in Nat /\ n \notin B /\ B \subseteq Element /\ T \subseteq Element
    <3>1. n \in Nat
      BY ElementsAreNumbers
    <3>2. ~(n < n)
      BY <3>1
    <3>3. n \notin B
      BY <2>1, <3>2
    <3>4. B \subseteq S
      BY <2>1
    <3> QED
      BY <3>1, <3>3, <3>4
  <2>3. /\ IsFiniteSet(B) /\ Cardinality(B) \in Nat /\ Cardinality(T) \in Nat /\ IsFiniteSet(T)
        /\ Cardinality(B \cup {n}) \in Nat
    BY <2>2, ElementsAreFinite
  <2>4. Cardinality(B \cup {n}) = Cardinality(B) + 1
    BY <2>2, <2>3, FS_AddElement
  <2>5. Cardinality(B \cup {n}) <= Cardinality(T)
    BY <1>1, <2>1, <2>3, FS_Subset
  <2> QED
    BY <2>1, <2>3, <2>4, <2>5 DEF Rank
<1>2. ASSUME NEW n \in S PROVE Rank(S, n) \in 0..(Cardinality(S) - 1)
  BY <1>1, ElementsAreFinite
<1>3. ASSUME NEW n \in S, NEW k \in S, n < k PROVE Rank(S, n) < Rank(S, k)
  <2>1. {m \in S : m < n} \cup {n} \subseteq {m \in S : m < k}
    <3>1. n \in Nat /\ k \in Nat /\ \A m \in S : m \in Nat
      BY ElementsAreNumbers
    <3>2. \A m \in S : m < n => m < k
      BY <1>3, <3>1
    <3> QED
      BY <1>3, <3>2
  <2> QED
    BY <1>1, <2>1 DEF Rank
<1> QED
  BY <1>2, <1>3

\* Every place is taken.
LEMMA RanksFill ==
  ASSUME NEW S \in SUBSET Element, NEW i \in 1..Cardinality(S)
  PROVE  \E n \in S : Rank(S, n) = i - 1
<1> SUFFICES ASSUME \A n \in S : Rank(S, n) # i - 1 PROVE FALSE
  OBVIOUS
<1>1. PICK c : c = Cardinality(S)
  OBVIOUS
<1>2. c \in Nat /\ IsFiniteSet(S)
  BY <1>1, ElementsAreFinite
<1>3. PICK T : T = (0..(c - 1)) \ {i - 1}
  OBVIOUS
<1>4. IsFiniteSet(T) /\ Cardinality(T) < c
  <2>1. IsFiniteSet(0..(c - 1)) /\ Cardinality(0..(c - 1)) = c
    <3>1. IsFiniteSet(0..(c - 1)) /\ Cardinality(0..(c - 1)) = IF 0 > c - 1 THEN 0 ELSE c - 1 - 0 + 1
      BY <1>2, FS_Interval
    <3> QED
      BY <1>2, <3>1
  <2>2. IsFiniteSet(T) /\ Cardinality(T) = c - 1
    <3>1. PICK D, k : D = 0..(c - 1) /\ k = i - 1
      OBVIOUS
    <3>2. k \in D
      BY <1>1, <1>2, <3>1
    <3>3. IsFiniteSet(D) /\ Cardinality(D) = c
      BY <2>1, <3>1
    <3>4. /\ IsFiniteSet(D \ {k})
          /\ Cardinality(D \ {k}) = IF k \in D THEN Cardinality(D) - 1 ELSE Cardinality(D)
      BY <3>3, FS_RemoveElement
    <3> QED
      BY <1>3, <3>1, <3>2, <3>3, <3>4
  <2> QED
    BY <1>2, <2>2
<1>5. PICK f : f = [n \in S |-> Rank(S, n)]
  OBVIOUS
<1>6. f \in [S -> T]
  BY <1>1, <1>3, <1>5, RanksAre
<1>7. PICK x \in S, y \in S : x # y /\ f[x] = f[y]
  BY <1>1, <1>2, <1>4, <1>6, FS_PigeonHole
<1>8. Rank(S, x) = Rank(S, y) /\ Rank(S, x) \in Int
  BY <1>5, <1>7, RanksAre
<1>9. x < y \/ y < x
  BY <1>7 DEF Element
<1> QED
  BY <1>8, <1>9, RanksAre

OnceEach(t) == \A i, j \in 1..Len(t) : t[i] = t[j] => i = j
Items(t)    == {t[i] : i \in 1..Len(t)}

\* The children of an element are listed once each.
LEMMA ListedInOrder ==
  ASSUME NEW S \in SUBSET Element
  PROVE  InOrder(S) \in Seq(Element) /\ OnceEach(InOrder(S)) /\ Items(InOrder(S)) = S
<1>1. PICK c : c = Cardinality(S)
  OBVIOUS
<1>2. c \in Nat
  BY <1>1, ElementsAreFinite
<1>3. PICK s : s = InOrder(S)
  OBVIOUS
<1>4. \A i \in 1..c : s[i] \in S /\ Rank(S, s[i]) = i - 1
  <2> SUFFICES ASSUME NEW i \in 1..c PROVE s[i] \in S /\ Rank(S, s[i]) = i - 1
    OBVIOUS
  <2>1. \E n \in S : Cardinality({m \in S : m < n}) = i - 1
    BY <1>1, RanksFill DEF Rank
  <2>2. s[i] = CHOOSE n \in S : Cardinality({m \in S : m < n}) = i - 1
    BY <1>1, <1>3 DEF InOrder
  <2> QED
    BY <2>1, <2>2 DEF Rank
<1>6. s \in [1..c -> Element]
  BY <1>1, <1>3, <1>4 DEF InOrder
<1>7. s \in Seq(Element) /\ Len(s) = c
  BY <1>2, <1>6
<1>8. OnceEach(s)
  BY <1>2, <1>4, <1>7 DEF OnceEach
<1>9. ASSUME NEW n \in S PROVE n \in Items(s)
  <2>1. Rank(S, n) + 1 \in 1..c
    BY <1>1, <1>2, RanksAre
  <2>2. PICK i \in 1..c : i = Rank(S, n) + 1
    BY <2>1
  <2>3. s[i] \in S /\ Rank(S, s[i]) = Rank(S, n) /\ Rank(S, n) \in Int
    BY <1>1, <1>4, <2>2, RanksAre
  <2>4. s[i] = n
    <3>1. s[i] \in Nat /\ n \in Nat
      BY <2>3, ElementsAreNumbers
    <3>2. \A x, y \in S : x < y => Rank(S, x) < Rank(S, y)
      BY RanksAre
    <3>3. ~(s[i] < n) /\ ~(n < s[i])
      <4>1. PICK k, v, w : k = s[i] /\ v = Rank(S, s[i]) /\ w = Rank(S, n)
        OBVIOUS
      <4>2. k \in S /\ v = w /\ v \in Int
        BY <2>3, <4>1
      <4>3. (k < n => v < w) /\ (n < k => w < v)
        BY <3>2, <4>1, <4>2
      <4> QED
        BY <4>1, <4>2, <4>3
    <3> QED
      BY <3>1, <3>3
  <2> QED
    BY <1>7, <2>4 DEF Items
<1>10. Items(s) \subseteq S
  BY <1>4, <1>7 DEF Items
<1> QED
  BY <1>3, <1>7, <1>8, <1>9, <1>10

\* The first of a list that names each once is not in the rest.
LEMMA TailOnceEach ==
  ASSUME NEW t \in Seq(Element), t # <<>>, OnceEach(t)
  PROVE  /\ Head(t) \in Items(t) /\ Tail(t) \in Seq(Element) /\ OnceEach(Tail(t))
         /\ Items(Tail(t)) = Items(t) \ {Head(t)} /\ Head(t) \in Element
<1>1. Len(t) \in Nat /\ Len(t) >= 1 /\ Head(t) = t[1]
  BY EmptySeq, HeadTailProperties
<1>2. PICK u : u = Tail(t)
  OBVIOUS
<1>3. u \in Seq(Element) /\ Len(u) = Len(t) - 1 /\ \A i \in 1..Len(u) : u[i] = t[i + 1]
  BY <1>2, HeadTailProperties
<1>4. OnceEach(u)
  BY <1>1, <1>3 DEF OnceEach
<1>5. ASSUME NEW i \in 1..Len(t), t[i] # t[1] PROVE t[i] \in Items(u)
  <2>1. i - 1 \in 1..Len(u)
    BY <1>1, <1>3, <1>5
  <2>2. u[i - 1] = t[i]
    BY <1>3, <2>1
  <2> QED
    BY <2>1, <2>2 DEF Items
<1>6. ASSUME NEW i \in 1..Len(u) PROVE u[i] \in Items(t) \ {t[1]}
  <2>1. i + 1 \in 1..Len(t) /\ i + 1 # 1 /\ 1 \in 1..Len(t)
    BY <1>1, <1>3
  <2>2. u[i] = t[i + 1] /\ t[i + 1] # t[1]
    BY <1>3, <2>1 DEF OnceEach
  <2> QED
    BY <2>1, <2>2 DEF Items
<1>7. t[1] \in Items(t)
  BY <1>1 DEF Items
<1>8. Items(u) = Items(t) \ {t[1]}
  BY <1>5, <1>6 DEF Items
<1> QED
  BY <1>1, <1>2, <1>3, <1>4, <1>7, <1>8, HeadTailProperties

\* Lists with nothing in common make one that names each once.
LEMMA JoinedOnceEach ==
  ASSUME NEW s \in Seq(Element), NEW t \in Seq(Element), OnceEach(s), OnceEach(t),
         Items(s) \cap Items(t) = {}
  PROVE  s \o t \in Seq(Element) /\ OnceEach(s \o t) /\ Items(s \o t) = Items(s) \cup Items(t)
<1>1. PICK u : u = s \o t
  OBVIOUS
<1>2. PICK a \in Nat, b \in Nat : a = Len(s) /\ b = Len(t)
  BY LenProperties
<1>3. /\ u \in Seq(Element) /\ Len(u) = a + b
      /\ \A i \in 1..(a + b) : u[i] = IF i <= a THEN s[i] ELSE t[i - a]
  BY <1>1, <1>2, ConcatProperties
<1>4. \A i \in 1..a : s[i] \in Items(s) /\ i \in 1..(a + b) /\ u[i] = s[i]
  BY <1>2, <1>3 DEF Items
<1>5. ASSUME NEW i \in 1..b PROVE t[i] \in Items(t) /\ i + a \in 1..(a + b) /\ u[i + a] = t[i]
  <2>1. i + a \in 1..(a + b) /\ ~(i + a <= a) /\ i + a - a = i
    BY <1>2
  <2> QED
    BY <1>2, <1>3, <2>1 DEF Items
<1>6. \A i \in 1..(a + b) : \/ i \in 1..a /\ u[i] = s[i] /\ u[i] \in Items(s)
                            \/ i - a \in 1..b /\ u[i] = t[i - a] /\ u[i] \in Items(t)
  BY <1>2, <1>3 DEF Items
<1>7. OnceEach(u)
  <2> SUFFICES ASSUME NEW i \in 1..(a + b), NEW j \in 1..(a + b), u[i] = u[j] PROVE i = j
    BY <1>3 DEF OnceEach
  <2>1. CASE i \in 1..a /\ j \in 1..a
    BY <1>2, <1>4, <2>1 DEF OnceEach
  <2>2. CASE i - a \in 1..b /\ j - a \in 1..b
    <3>1. u[i] = t[i - a] /\ u[j] = t[j - a]
      <4>1. ~(i <= a) /\ ~(j <= a)
        BY <1>2, <2>2
      <4> QED
        BY <1>3, <4>1
    <3>2. i - a = j - a
      BY <1>2, <2>2, <3>1 DEF OnceEach
    <3> QED
      BY <3>2
  <2> QED
    BY <1>6, <2>1, <2>2
<1>8. Items(u) = Items(s) \cup Items(t)
  <2>1. Items(u) \subseteq Items(s) \cup Items(t)
    BY <1>3, <1>6 DEF Items
  <2>2. Items(s) \subseteq Items(u)
    BY <1>2, <1>3, <1>4 DEF Items
  <2>3. Items(t) \subseteq Items(u)
    <3> SUFFICES ASSUME NEW i \in 1..b PROVE t[i] \in Items(u)
      BY <1>2 DEF Items
    <3>1. i + a \in 1..Len(u) /\ u[i + a] = t[i]
      BY <1>3, <1>5
    <3> QED
      BY <3>1 DEF Items
  <2> QED
    BY <2>1, <2>2, <2>3
<1> QED
  BY <1>1, <1>3, <1>7, <1>8

\* Depths of the first k elements.
Depths(k, f) == \A n \in 1..k : f[n] = IF parentOf[n] = 0 THEN 0 ELSE f[parentOf[n]] + 1

\* Depth is what its recursive definition says: one more than that of the parent.
LEMMA DepthOf ==
  ASSUME parentOf \in Tree
  PROVE  /\ \A n \in Element : Depth[n] \in Nat
         /\ \A n \in Element : parentOf[n] # 0 => Depth[n] = Depth[parentOf[n]] + 1
<1>1. \A n \in Element : parentOf[n] \in Nat /\ parentOf[n] < n /\ n \in Nat
  BY MaxNodeAssumption DEF Tree, Element
<1>2. PICK T : T = {k \in 0..MaxNode : ~\E f \in [1..k -> Nat] : Depths(k, f)}
  OBVIOUS
<1>3. T = {}
  <2> SUFFICES ASSUME T # {} PROVE FALSE
    OBVIOUS
  <2>1. T \in SUBSET Nat
    BY <1>2
  <2>2. PICK k \in T : \A j \in T : k <= j
    BY <2>1, LeastElement
  <2>3. k \in 0..MaxNode /\ ~\E f \in [1..k -> Nat] : Depths(k, f)
    BY <1>2, <2>2
  <2>4. CASE k = 0
    <3>1. [n \in 1..0 |-> 0] \in [1..0 -> Nat] /\ Depths(0, [n \in 1..0 |-> 0])
      BY DEF Depths
    <3> QED
      BY <2>3, <2>4, <3>1
  <2>5. CASE k # 0
    <3>1. k \in Nat /\ k - 1 \in 0..MaxNode /\ k \in Element /\ k - 1 \notin T
      BY <2>2, <2>3, <2>5, MaxNodeAssumption DEF Element
    <3>2. PICK f \in [1..(k - 1) -> Nat] : Depths(k - 1, f)
      BY <1>2, <3>1
    <3>3. PICK g : g = [n \in 1..k |-> IF n < k THEN f[n]
                                       ELSE IF parentOf[k] = 0 THEN 0 ELSE f[parentOf[k]] + 1]
      OBVIOUS
    <3>4. \A n \in 1..k : n \in Element /\ (n = k \/ n \in 1..(k - 1))
      BY <2>3, <3>1, MaxNodeAssumption DEF Element
    <3>5. \A n \in 1..k : parentOf[n] = 0 \/ parentOf[n] \in 1..(k - 1)
      BY <1>1, <3>1, <3>4
    <3>6. g \in [1..k -> Nat]
      BY <3>1, <3>2, <3>3, <3>4, <3>5
    <3>7. \A n \in 1..(k - 1) : n \in 1..k /\ g[n] = f[n]
      BY <3>1, <3>3
    <3>8. \A n \in 1..k : g[n] = IF parentOf[n] = 0 THEN 0 ELSE g[parentOf[n]] + 1
      <4> SUFFICES ASSUME NEW n \in 1..k
                   PROVE  g[n] = IF parentOf[n] = 0 THEN 0 ELSE g[parentOf[n]] + 1
        OBVIOUS
      <4>1. parentOf[n] # 0 => g[parentOf[n]] = f[parentOf[n]]
        BY <3>5, <3>7
      <4>2. CASE n = k
        BY <3>1, <3>3, <4>1, <4>2
      <4>3. CASE n \in 1..(k - 1)
        BY <3>2, <3>7, <4>1, <4>3 DEF Depths
      <4> QED
        BY <3>4, <4>2, <4>3
    <3> QED
      BY <2>3, <3>6, <3>8 DEF Depths
  <2> QED
    BY <2>4, <2>5
<1>4. PICK f \in [1..MaxNode -> Nat] : Depths(MaxNode, f)
  <2>1. MaxNode \in 0..MaxNode
    BY MaxNodeAssumption
  <2>2. PICK k : k = MaxNode
    OBVIOUS
  <2>3. \E f \in [1..k -> Nat] : Depths(k, f)
    BY <1>2, <1>3, <2>1, <2>2
  <2> QED
    BY <2>2, <2>3
<1>5. f = [n \in Element |-> IF parentOf[n] = 0 THEN 0 ELSE f[parentOf[n]] + 1]
  BY <1>4 DEF Depths, Element
<1>6. Depth = [n \in Element |-> IF parentOf[n] = 0 THEN 0 ELSE Depth[parentOf[n]] + 1]
  BY <1>5, Zenon DEF Depth
<1>7. PICK d : d = Depth
  OBVIOUS
<1>8. \A n \in Element : d[n] = IF parentOf[n] = 0 THEN 0 ELSE d[parentOf[n]] + 1
  BY <1>6, <1>7, Zenon
<1>9. {n \in Element : d[n] \notin Nat} = {}
  <2> SUFFICES ASSUME {n \in Element : d[n] \notin Nat} # {} PROVE FALSE
    OBVIOUS
  <2>1. PICK n \in Element : d[n] \notin Nat /\ \A m \in Element : d[m] \notin Nat => n <= m
    BY LeastElement, ElementsAreNumbers
  <2>2. parentOf[n] # 0
    BY <1>8, <2>1
  <2>3. parentOf[n] \in Element /\ parentOf[n] < n /\ n \in Nat /\ parentOf[n] \in Nat
    BY <1>1, <2>1, <2>2, MaxNodeAssumption DEF Element
  <2>4. d[parentOf[n]] \in Nat
    BY <2>1, <2>3
  <2> QED
    BY <1>8, <2>1, <2>2, <2>4
<1> QED
  BY <1>7, <1>8, <1>9

\* Whether the tree fits the bounds never changes during a call.
LEMMA FitsStays ==
  ASSUME parentOf' = parentOf, bounds' = bounds
  PROVE  Fits' <=> Fits
<1>1. Depth' = Depth
  BY DEF Depth
<1> QED
  BY <1>1 DEF Fits

-----------------------------------------------------------------------------
(* UniqueUI: the inductive invariant.                                      *)

\* Elements whose turn comes before the walk ends.
Due(n) == parentOf[n] = 0 \/ parentOf[n] \in seen

\* What is visited and what is still to be visited never overlap, and both are
\* reached from above.
WalkInv ==
  /\ todo \in Seq(Element) /\ OnceEach(todo)
  /\ Items(todo) \cap seen = {}
  /\ visited = Cardinality(seen)
  /\ \A n \in seen \cup Items(todo) : Due(n)

\* A walk that nothing cuts, and that is shown every element as it is, leaves out no element.
Covers ==
  whole /\ Fits /\ walk = "walk" /\ ~Enough(found) =>
    \A n \in Element : Due(n) => n \in seen \cup Items(todo)

Whole == whole /\ Fits /\ walk \in {"judge", "act"} /\ deadline = "live" /\ ~Enough(found) => seen = Element

\* What was found is what matched among what was visited.
Honest ==
  /\ calm => found \subseteq matching
  /\ calm /\ whole => seen \cap matching \subseteq found

Answered ==
  /\ walk \in {"idle", "walk", "judge", "poll"} => status = "none"
  /\ walk = "act" => status = "ready" /\ ~cut /\ \E x \in Element : found = {x}
  /\ walk # "done" => acted = 0

SelectionInv ==
  /\ UniqueUITypeOK /\ WalkInv /\ Covers /\ Whole /\ Honest /\ Answered
  /\ SelectionIsExact /\ ActsOnFound

-----------------------------------------------------------------------------
(* UniqueUI: its steps.                                                    *)

\* Dropping what is still to be visited keeps the rest of the walk in order.
LEMMA Emptied ==
  ASSUME SelectionInv, asked' = asked, seen' = seen, visited' = visited,
         todo' = todo \/ todo' = <<>>
  PROVE  WalkInv' /\ (\A i \in 1..Len(todo') : todo'[i] \in Element) /\ (Fits' <=> Fits)
<1>1. /\ <<>> \in Seq(Element) /\ Len(<<>>) = 0 /\ OnceEach(<<>>) /\ Items(<<>>) = {}
  BY DEF OnceEach, Items
<1>2. parentOf' = parentOf /\ bounds' = bounds
  BY DEF asked
<1>3. ASSUME todo' = todo PROVE WalkInv'
  BY <1>2, <1>3 DEF SelectionInv, WalkInv, Due, OnceEach, Items
<1>4. ASSUME todo' = <<>> PROVE WalkInv'
  <2>1. OnceEach(todo)' /\ Items(todo)' = {}
    BY <1>1, <1>4 DEF OnceEach, Items
  <2> QED
    BY <1>1, <1>2, <1>4, <2>1 DEF SelectionInv, WalkInv, Due
<1>5. WalkInv'
  BY <1>3, <1>4
<1> QED
  BY <1>2, <1>5, FitsStays DEF WalkInv

\* An application changes an element: nothing is promised any more.
LEMMA ElementChangesKeeps ==
  ASSUME SelectionInv, NEW n \in Element, ElementChanges(n)
  PROVE  SelectionInv'
<1>1. /\ parentOf' = parentOf /\ bounds' = bounds /\ waits' = waits /\ deadline' = deadline
      /\ walk' = walk /\ todo' = todo /\ visited' = visited /\ found' = found /\ cut' = cut
      /\ status' = status /\ seen' = seen /\ acted' = acted
      /\ matching' \subseteq Element /\ calm' = FALSE /\ whole' = whole
  BY DEF ElementChanges, SelectionInv, UniqueUITypeOK
<1>2. Fits' <=> Fits
  BY <1>1, FitsStays
<1>3. UniqueUITypeOK'
  BY <1>1 DEF SelectionInv, UniqueUITypeOK
<1>4. WalkInv' /\ Answered' /\ ActsOnFound'
  BY <1>1 DEF SelectionInv, WalkInv, Answered, ActsOnFound, Due, OnceEach, Items
<1>5. Covers' /\ Whole'
  BY <1>1, <1>2 DEF SelectionInv, Covers, Whole, Due, Items, Enough
<1>6. Honest' /\ SelectionIsExact'
  BY <1>1 DEF Honest, SelectionIsExact
<1> QED
  BY <1>3, <1>4, <1>5, <1>6 DEF SelectionInv

\* The context ends.
LEMMA ContextEndsKeeps ==
  ASSUME SelectionInv, ContextEnds
  PROVE  SelectionInv'
<1>1. /\ parentOf' = parentOf /\ matching' = matching /\ bounds' = bounds /\ waits' = waits
      /\ walk' = walk /\ todo' = todo /\ visited' = visited /\ found' = found /\ cut' = cut
      /\ status' = status /\ seen' = seen /\ acted' = acted /\ calm' = calm
      /\ deadline' \in {"expired", "canceled"} /\ walk # "done" /\ whole' = whole
  BY DEF ContextEnds, asked
<1>2. Fits' <=> Fits
  BY <1>1, FitsStays
<1>3. UniqueUITypeOK'
  BY <1>1 DEF SelectionInv, UniqueUITypeOK
<1>4. WalkInv' /\ Answered' /\ ActsOnFound'
  BY <1>1 DEF SelectionInv, WalkInv, Answered, ActsOnFound, Due, OnceEach, Items
<1>5. Covers' /\ Whole'
  BY <1>1, <1>2 DEF SelectionInv, Covers, Whole, Due, Items, Enough
<1>6. Honest' /\ SelectionIsExact'
  BY <1>1, <1>2 DEF SelectionInv, Honest, SelectionIsExact, Answered
<1> QED
  BY <1>3, <1>4, <1>5, <1>6 DEF SelectionInv

\* A walk begins.
LEMMA StartWalkKeeps ==
  ASSUME SelectionInv, StartWalk
  PROVE  SelectionInv'
<1>1. /\ parentOf' = parentOf /\ matching' = matching /\ bounds' = bounds /\ waits' = waits
      /\ walk' = "walk" /\ visited' = 0 /\ found' = {} /\ cut' = FALSE /\ calm' = TRUE
      /\ status' = status /\ seen' = {} /\ acted' = acted /\ deadline' = deadline
      /\ status = "none" /\ acted = 0 /\ whole' = TRUE
  BY DEF StartWalk, asked, SelectionInv, Answered
<1>2. PICK B : B = Below[0]
  OBVIOUS
<1>3. B = {m \in Element : parentOf[m] = 0} /\ todo' = InOrder(B)
  BY <1>2, MaxNodeAssumption DEF Below, StartWalk
<1>4. todo' \in Seq(Element) /\ OnceEach(todo') /\ Items(todo') = B
  BY <1>3, ListedInOrder
<1>5. UniqueUITypeOK'
  <2>1. \A i \in 1..Len(todo') : todo'[i] \in Element
    BY <1>4
  <2>2. 0 \in 0..MaxNode
    BY MaxNodeAssumption
  <2> QED
    BY <1>1, <2>1, <2>2 DEF SelectionInv, UniqueUITypeOK, Status
<1>6. WalkInv'
  BY <1>1, <1>3, <1>4, FS_EmptySet DEF WalkInv, Due, OnceEach, Items
<1>7. Covers' /\ Whole'
  BY <1>1, <1>3, <1>4 DEF Covers, Whole, Due, Items
<1>8. Honest' /\ Answered' /\ SelectionIsExact' /\ ActsOnFound'
  BY <1>1 DEF Honest, Answered, SelectionIsExact, ActsOnFound
<1> QED
  BY <1>5, <1>6, <1>7, <1>8 DEF SelectionInv

\* An element that is visited was not visited before, and its children are new.
LEMMA ChildrenAreNew ==
  ASSUME SelectionInv, todo # <<>>
  PROVE  /\ Head(todo) \in Element /\ Head(todo) \notin seen /\ Due(Head(todo))
         /\ Below[Head(todo)] = {m \in Element : parentOf[m] = Head(todo)}
         /\ \A m \in Below[Head(todo)] : m \notin seen \cup Items(todo)
         /\ Tail(todo) \in Seq(Element) /\ OnceEach(Tail(todo))
         /\ Items(Tail(todo)) = Items(todo) \ {Head(todo)} /\ Head(todo) \in Items(todo)
<1>1. todo \in Seq(Element) /\ OnceEach(todo) /\ parentOf \in Tree
  BY DEF SelectionInv, WalkInv, UniqueUITypeOK
<1>2. PICK n : n = Head(todo)
  OBVIOUS
<1>3. /\ n \in Items(todo) /\ Tail(todo) \in Seq(Element) /\ OnceEach(Tail(todo))
      /\ Items(Tail(todo)) = Items(todo) \ {n} /\ n \in Element
  BY <1>1, <1>2, TailOnceEach
<1>4. n \notin seen /\ Due(n)
  BY <1>3 DEF SelectionInv, WalkInv
<1>5. Below[n] = {m \in Element : parentOf[m] = n} /\ n # 0
  BY <1>3, MaxNodeAssumption DEF Below, Element
<1>6. \A m \in Below[n] : m \notin seen \cup Items(todo)
  BY <1>4, <1>5 DEF SelectionInv, WalkInv, Due
<1> QED
  BY <1>2, <1>3, <1>4, <1>5, <1>6

\* An element is visited and its children put before the rest.
LEMMA VisitKeeps ==
  ASSUME SelectionInv, Visit
  PROVE  SelectionInv'
<1>1. /\ parentOf' = parentOf /\ matching' = matching /\ bounds' = bounds /\ waits' = waits
      /\ walk = "walk" /\ walk' = walk /\ calm' = calm /\ status' = status /\ acted' = acted
      /\ deadline' = deadline /\ visited' = visited + 1 /\ todo # <<>> /\ ~Enough(found)
  <2>1. \E n \in {Head(todo)}, hit \in BOOLEAN, kids \in {Below[Head(todo)], {}} : See(n, hit, kids)
    BY DEF Visit
  <2>2. visited' = visited + 1
    BY <2>1 DEF See
  <2> QED
    BY <2>2 DEF Visit, asked
<1>2. PICK n, rest : n = Head(todo) /\ rest = Tail(todo)
  OBVIOUS
<1>3. PICK B : B = Below[n]
  OBVIOUS
<1>4. /\ n \in Element /\ n \notin seen /\ Due(n)
      /\ B = {m \in Element : parentOf[m] = n} /\ \A m \in B : m \notin seen \cup Items(todo)
      /\ rest \in Seq(Element) /\ OnceEach(rest)
      /\ Items(rest) = Items(todo) \ {n} /\ n \in Items(todo)
  BY <1>1, <1>2, <1>3, ChildrenAreNew
<1>5. PICK hit \in BOOLEAN, told \in {B, {}} : (hit => n \in matching) /\ See(n, hit, told)
  BY <1>2, <1>3 DEF Visit
<1>9. PICK kids : kids = IF Depth[n] < bounds[1] THEN InOrder(told) ELSE <<>>
  OBVIOUS
<1>6. /\ kids \in Seq(Element) /\ OnceEach(kids)
      /\ Items(kids) = IF Depth[n] < bounds[1] THEN told ELSE {}
  <2>1. <<>> \in Seq(Element) /\ OnceEach(<<>>) /\ Items(<<>>) = {}
    BY DEF OnceEach, Items
  <2>2. /\ InOrder(told) \in Seq(Element) /\ OnceEach(InOrder(told))
        /\ Items(InOrder(told)) = told
    <3>1. told \subseteq Element
      BY <1>4, <1>5
    <3> QED
      BY <3>1, ListedInOrder
  <2> QED
    BY <1>9, <2>1, <2>2
<1>7. PICK next : next = kids \o rest
  OBVIOUS
<1>8. next \in Seq(Element) /\ OnceEach(next) /\ Items(next) = Items(kids) \cup Items(rest)
  BY <1>4, <1>6, <1>7, JoinedOnceEach
<1> DEFINE full == visited + 1 >= bounds[2]
<1>10. /\ seen' = seen \cup {n} /\ told \subseteq B
       /\ found' = (IF hit THEN found \cup {n} ELSE found)
       /\ hit => n \in matching
       /\ todo' = IF Enough(found') \/ full THEN <<>> ELSE next
  BY <1>2, <1>5, <1>7, <1>9 DEF See
<1>20. /\ cut' \in BOOLEAN /\ whole' \in BOOLEAN
       /\ whole' => whole /\ (n \in matching => hit) /\ told = B
  BY <1>3, <1>5 DEF See, SelectionInv, UniqueUITypeOK
<1>11. seen \subseteq Element /\ visited = Cardinality(seen) /\ visited \in Nat /\ found \subseteq Element
  BY MaxNodeAssumption DEF SelectionInv, WalkInv, UniqueUITypeOK
<1>12. seen' \subseteq Element /\ visited' = Cardinality(seen') /\ visited' \in 0..MaxNode
  <2>1. seen' \subseteq Element
    BY <1>4, <1>10, <1>11
  <2>2. IsFiniteSet(seen) /\ Cardinality(seen \cup {n}) = Cardinality(seen) + 1
    BY <1>4, <1>11, ElementsAreFinite, FS_AddElement
  <2>3. Cardinality(seen') \in Nat /\ Cardinality(seen') <= MaxNode
    BY <2>1, ElementsAreFinite
  <2> QED
    BY <1>1, <1>10, <1>11, <2>1, <2>2, <2>3, MaxNodeAssumption
<1>13. Items(<<>>) = {} /\ OnceEach(<<>>) /\ <<>> \in Seq(Element)
  BY DEF Items, OnceEach
<1>14. /\ todo' \in Seq(Element) /\ OnceEach(todo') /\ Items(todo') \subseteq B \cup Items(rest)
       /\ ~Enough(found') /\ ~full => Items(todo') = Items(kids) \cup Items(rest)
  <2>1. Items(kids) \subseteq B
    BY <1>6, <1>10
  <2> QED
    BY <1>8, <1>10, <1>13, <2>1
<1>15. WalkInv'
  <2>1. Items(todo') \cap seen' = {}
    BY <1>4, <1>10, <1>14 DEF SelectionInv, WalkInv
  <2>2. ASSUME NEW m \in seen' \cup Items(todo') PROVE Due(m)'
    <3>1. m \in B \/ m \in seen \cup Items(todo)
      BY <1>4, <1>10, <1>14
    <3>2. m \in B => parentOf[m] = n
      BY <1>4
    <3>3. m \in seen \cup Items(todo) => Due(m)
      BY DEF SelectionInv, WalkInv
    <3> QED
      BY <1>1, <1>10, <3>1, <3>2, <3>3 DEF Due
  <2>3. OnceEach(todo)' /\ Items(todo)' = Items(todo')
    BY <1>14 DEF OnceEach, Items
  <2> QED
    BY <1>12, <1>14, <2>1, <2>2, <2>3 DEF WalkInv
<1>16. UniqueUITypeOK'
  <2>1. \A i \in 1..Len(todo') : todo'[i] \in Element
    BY <1>14
  <2>2. found' \subseteq Element
    BY <1>4, <1>10, <1>11
  <2> QED
    BY <1>1, <1>12, <1>20, <2>1, <2>2 DEF SelectionInv, UniqueUITypeOK
<1>17. Covers'
  <2> SUFFICES ASSUME whole', Fits, ~Enough(found'), NEW m \in Element, Due(m)'
               PROVE  m \in seen' \cup Items(todo')
    <3>1. (Fits' <=> Fits) /\ (Enough(found)' <=> Enough(found'))
      BY <1>1, FitsStays DEF Enough
    <3>2. Items(todo)' = Items(todo')
      BY DEF Items
    <3> QED
      BY <3>1, <3>2 DEF Covers
  <2>1. CASE full
    <3>1. MaxNode <= Cardinality(seen')
      <4>1. bounds[2] \in Nat /\ MaxNode <= bounds[2]
        BY UiBoundsAssumption DEF Fits, SelectionInv, UniqueUITypeOK
      <4> QED
        BY <1>1, <1>11, <1>12, <2>1, <4>1, MaxNodeAssumption
    <3>2. Cardinality(seen') = MaxNode
      BY <1>12, <3>1, MaxNodeAssumption
    <3>3. seen' = Element
      BY <1>12, <3>2, ElementsAreFinite, FS_Subset
    <3> QED
      BY <3>3
  <2>2. CASE ~full
    <3>1. Due(m) => m \in seen' \cup Items(todo')
      <4>1. Due(m) => m \in seen \cup Items(todo)
        BY <1>1, <1>20 DEF SelectionInv, Covers
      <4> QED
        BY <1>4, <1>10, <1>14, <2>2, <4>1
    <3>2. ASSUME parentOf[m] = n PROVE m \in Items(kids)
      <4>1. Depth[n] \in Nat /\ Depth[m] = Depth[n] + 1
        <5>1. parentOf[m] # 0 /\ parentOf \in Tree
          BY <1>4, <3>2, ElementsAreNumbers DEF SelectionInv, UniqueUITypeOK
        <5> QED
          BY <1>4, <3>2, <5>1, DepthOf
      <4>2. Depth[m] <= bounds[1] /\ bounds[1] \in Nat
        BY UiBoundsAssumption DEF Fits, SelectionInv, UniqueUITypeOK
      <4>3. PICK d, b : d = Depth[n] /\ b = bounds[1]
        OBVIOUS
      <4>4. d \in Nat /\ b \in Nat /\ d + 1 <= b
        BY <4>1, <4>2, <4>3
      <4>5. d < b
        BY <4>4
      <4> QED
        BY <1>4, <1>6, <1>20, <3>2, <4>3, <4>5
    <3>3. Due(m) \/ parentOf[m] = n
      BY <1>1, <1>10 DEF Due
    <3> QED
      BY <1>14, <2>2, <3>1, <3>2, <3>3
  <2> QED
    BY <2>1, <2>2
<1>18. Whole' /\ Answered'
  BY <1>1 DEF SelectionInv, Whole, Answered
<1>19. Honest'
  BY <1>1, <1>4, <1>10, <1>20 DEF SelectionInv, Honest
<1>22. SelectionIsExact' /\ ActsOnFound'
  <2>1. acted = 0 /\ status = "none"
    BY <1>1 DEF SelectionInv, Answered
  <2> QED
    BY <1>1, <2>1 DEF SelectionIsExact, ActsOnFound
<1> QED
  BY <1>15, <1>16, <1>17, <1>18, <1>19, <1>22 DEF SelectionInv

\* An application is passed over: the walk was not shown all.
LEMMA PassOverKeeps ==
  ASSUME SelectionInv, PassOver
  PROVE  SelectionInv'
<1>1. /\ parentOf' = parentOf /\ matching' = matching /\ bounds' = bounds /\ waits' = waits
      /\ walk = "walk" /\ walk' = walk /\ calm' = calm /\ status' = status /\ acted' = acted
      /\ deadline' = deadline /\ visited' = visited /\ found' = found /\ cut' = cut
      /\ seen' = seen /\ todo # <<>> /\ todo' = Tail(todo) /\ whole' = FALSE
  BY DEF PassOver, asked
<1>2. PICK rest : rest = Tail(todo)
  OBVIOUS
<1>3. rest \in Seq(Element) /\ OnceEach(rest) /\ Items(rest) \subseteq Items(todo)
  BY <1>1, <1>2, ChildrenAreNew
<1>4. WalkInv'
  <2>1. OnceEach(todo)' /\ Items(todo)' = Items(rest)
    BY <1>1, <1>2, <1>3 DEF OnceEach, Items
  <2> QED
    BY <1>1, <1>2, <1>3, <2>1 DEF SelectionInv, WalkInv, Due
<1>5. UniqueUITypeOK'
  <2>1. \A i \in 1..Len(todo') : todo'[i] \in Element
    BY <1>1, <1>2, <1>3
  <2> QED
    BY <1>1, <2>1 DEF SelectionInv, UniqueUITypeOK
<1>6. Covers' /\ Whole' /\ Honest' /\ Answered' /\ SelectionIsExact' /\ ActsOnFound'
  BY <1>1 DEF SelectionInv, Covers, Whole, Honest, Answered, SelectionIsExact, ActsOnFound
<1> QED
  BY <1>4, <1>5, <1>6 DEF SelectionInv

\* A walk that was shown all, and has nothing left to visit, has visited every element.
LEMMA AllIsSeen ==
  ASSUME SelectionInv, whole, Fits, walk = "walk", todo = <<>>, ~Enough(found)
  PROVE  seen = Element
<1>1. Items(todo) = {}
  BY DEF Items
<1>2. \A n \in Element : Due(n) => n \in seen
  BY <1>1 DEF SelectionInv, Covers
<1>3. \A n \in Element : parentOf[n] \in Nat /\ parentOf[n] < n /\ n \in Nat /\ parentOf[n] <= MaxNode
  BY MaxNodeAssumption DEF SelectionInv, UniqueUITypeOK, Tree, Element
<1>4. Element \ seen = {}
  <2> SUFFICES ASSUME Element \ seen # {} PROVE FALSE
    OBVIOUS
  <2>1. PICK n \in Element \ seen : \A m \in Element \ seen : n <= m
    BY LeastElement, ElementsAreNumbers
  <2>2. parentOf[n] # 0 => parentOf[n] \in Element
    BY <1>3, <2>1, MaxNodeAssumption DEF Element
  <2>3. parentOf[n] # 0 => parentOf[n] \in seen
    BY <1>3, <2>1, <2>2
  <2> QED
    BY <1>2, <2>1, <2>3 DEF Due
<1> QED
  BY <1>4 DEF SelectionInv, UniqueUITypeOK

\* The walk ends.
LEMMA WalkEndsKeeps ==
  ASSUME SelectionInv, WalkEnds
  PROVE  SelectionInv'
<1>1. /\ parentOf' = parentOf /\ matching' = matching /\ bounds' = bounds /\ waits' = waits
      /\ deadline' = deadline /\ visited' = visited /\ found' = found /\ status' = status
      /\ seen' = seen /\ acted' = acted /\ calm' = calm /\ walk = "walk" /\ walk' = "judge"
      /\ todo' = <<>> /\ (todo = <<>> \/ deadline # "live") /\ cut' \in BOOLEAN
      /\ whole' = whole
  BY DEF WalkEnds, asked, SelectionInv, UniqueUITypeOK
<1>2. WalkInv' /\ (\A i \in 1..Len(todo') : todo'[i] \in Element) /\ (Fits' <=> Fits)
  BY <1>1, Emptied DEF asked
<1>3. UniqueUITypeOK'
  BY <1>1, <1>2 DEF SelectionInv, UniqueUITypeOK
<1>4. Whole'
  BY <1>1, <1>2, AllIsSeen DEF Whole, Enough
<1>5. Covers' /\ Honest' /\ Answered'
  BY <1>1 DEF SelectionInv, Covers, Honest, Answered
<1>6. SelectionIsExact' /\ ActsOnFound'
  BY <1>1 DEF SelectionInv, SelectionIsExact, ActsOnFound, Answered
<1> QED
  BY <1>2, <1>3, <1>4, <1>5, <1>6 DEF SelectionInv

\* Verdicts that leave the tree, the walk and what it found as they are.
LEMMA EndedKeeps ==
  ASSUME SelectionInv, asked' = asked, deadline' = deadline, visited' = visited, found' = found,
         cut' = cut, seen' = seen, calm' = calm, whole' = whole, todo' = todo \/ todo' = <<>>,
         walk' \in {"done", "act", "poll"}, status' \in Status, acted' \in 0..MaxNode,
         walk' = "done" \/ acted' = 0,
         walk' = "poll" => status' = "none",
         walk' = "act" => walk = "judge" /\ status' = "ready" /\ ~cut /\ ~Enough(found) /\ found # {},
         acted' # 0 => walk = "act" /\ deadline = "live" /\ acted' \in found,
         status' = "ambiguous" => Enough(found),
         status' = "not_found" => walk = "judge" /\ found = {}
  PROVE  SelectionInv'
<1>1. parentOf' = parentOf /\ matching' = matching /\ bounds' = bounds /\ waits' = waits
  BY DEF asked
<1>2. WalkInv' /\ (\A i \in 1..Len(todo') : todo'[i] \in Element) /\ (Fits' <=> Fits)
  BY Emptied
<1>3. UniqueUITypeOK'
  BY <1>1, <1>2 DEF SelectionInv, UniqueUITypeOK
<1>4. Covers' /\ Honest'
  BY <1>1 DEF SelectionInv, Covers, Honest
<1>5. Whole'
  BY <1>1, <1>2 DEF SelectionInv, Whole, Enough
<1>6. found \subseteq Element /\ IsFiniteSet(found) /\ Cardinality(found) \in Nat
  BY ElementsAreFinite DEF SelectionInv, UniqueUITypeOK
<1>7. ASSUME ~Enough(found), found # {} PROVE \E x \in Element : found = {x}
  <2>1. Cardinality(found) # 0
    BY <1>6, <1>7, FS_EmptySet
  <2>2. Cardinality(found) = 1
    BY <1>6, <1>7, <2>1 DEF Enough
  <2> QED
    BY <1>6, <2>2, FS_Singleton
<1>8. Answered'
  BY <1>7 DEF Answered
<1>9. ASSUME acted' # 0 PROVE found = {acted'} /\ ~cut /\ ~Enough(found)
  <2>1. PICK x \in Element : found = {x}
    BY <1>9 DEF SelectionInv, Answered
  <2>2. Cardinality(found) = 1
    BY <2>1, FS_Singleton
  <2> QED
    BY <1>9, <2>1, <2>2 DEF SelectionInv, Answered, Enough
<1>10. ActsOnFound'
  BY <1>9 DEF ActsOnFound
<1>11. SelectionIsExact'
  <2> SUFFICES ASSUME calm, whole, Fits
               PROVE  /\ acted' # 0 => matching = {acted'}
                      /\ status' = "ambiguous" => Cardinality(matching) > 1
                      /\ status' = "not_found" /\ deadline = "live" => matching = {}
    BY <1>1, <1>2 DEF SelectionIsExact
  <2>1. found \subseteq matching /\ seen \cap matching \subseteq found
    BY DEF SelectionInv, Honest
  <2>2. matching \subseteq Element
    BY DEF SelectionInv, UniqueUITypeOK
  <2>3. acted' # 0 => matching = {acted'}
    BY <1>9, <2>1, <2>2 DEF SelectionInv, Whole
  <2>4. ASSUME status' = "ambiguous" PROVE Cardinality(matching) > 1
    <3>1. /\ IsFiniteSet(matching) /\ Cardinality(matching) \in Nat
          /\ Cardinality(found) <= Cardinality(matching)
      BY <2>1, <2>2, ElementsAreFinite, FS_Subset
    <3> QED
      BY <1>6, <2>4, <3>1 DEF Enough
  <2>5. status' = "not_found" /\ deadline = "live" => matching = {}
    <3>1. found = {} => ~Enough(found)
      BY FS_EmptySet DEF Enough
    <3> QED
      BY <2>1, <2>2, <3>1 DEF SelectionInv, Whole
  <2> QED
    BY <2>3, <2>4, <2>5
<1> QED
  BY <1>2, <1>3, <1>4, <1>5, <1>8, <1>10, <1>11 DEF SelectionInv

\* The invariant of a semantic call holds in every state.
THEOREM SelectionInvariant == UniqueUISpec => []SelectionInv
<1>1. UniqueUIInit => SelectionInv
  <2> SUFFICES ASSUME UniqueUIInit PROVE SelectionInv
    OBVIOUS
  <2>1. Len(todo) = 0 /\ todo \in Seq(Element) /\ Items(todo) = {} /\ OnceEach(todo)
    BY DEF UniqueUIInit, Items, OnceEach
  <2>2. 0 \in 0..MaxNode
    BY MaxNodeAssumption
  <2>3. UniqueUITypeOK
    <3>1. \A i \in 1..Len(todo) : todo[i] \in Element
      BY <2>1
    <3>2. matching \subseteq Element
      BY DEF UniqueUIInit
    <3> QED
      BY <2>2, <3>1, <3>2 DEF UniqueUIInit, UniqueUITypeOK, Status
  <2>4. WalkInv
    BY <2>1, FS_EmptySet DEF UniqueUIInit, WalkInv
  <2> QED
    BY <2>3, <2>4 DEF UniqueUIInit, SelectionInv, Covers, Whole, Honest, Answered,
                      SelectionIsExact, ActsOnFound
<1>2. SelectionInv /\ [UniqueUINext]_uiVars => SelectionInv'
  <2> SUFFICES ASSUME SelectionInv, [UniqueUINext]_uiVars PROVE SelectionInv'
    OBVIOUS
  <2>1. /\ status \in Status /\ acted \in 0..MaxNode /\ 0 \in 0..MaxNode /\ found \subseteq Element
        /\ walk # "done" => acted = 0
        /\ walk \in {"idle", "walk", "judge", "poll"} => status = "none"
    BY MaxNodeAssumption DEF SelectionInv, UniqueUITypeOK, Answered
  <2>2. CASE WalkFails
    BY <2>1, <2>2, EndedKeeps DEF WalkFails, Status
  <2>3. CASE Judge
    BY <2>1, <2>3, EndedKeeps DEF Judge, Verdict, Status
  <2>4. CASE NoMatch
    BY <2>1, <2>4, EndedKeeps DEF NoMatch, Verdict, Status
  <2>5. CASE PollTimesOut
    BY <2>1, <2>5, EndedKeeps DEF PollTimesOut, Verdict, Status
  <2>6. CASE Act
    <3>1. PICK x \in Element : found = {x}
      BY <2>6 DEF Act, SelectionInv, Answered
    <3>2. acted' \in found
      BY <2>6, <3>1 DEF Act
    <3>3. acted' \in 0..MaxNode
      BY <2>1, <3>2, MaxNodeAssumption DEF Element
    <3> QED
      BY <2>1, <2>6, <3>2, <3>3, EndedKeeps DEF Act, Status
  <2>7. CASE ActFails
    BY <2>1, <2>7, EndedKeeps DEF ActFails, Status
  <2>8. CASE UNCHANGED uiVars
    <3>1. Fits' <=> Fits
      BY <2>8, FitsStays DEF uiVars
    <3>2. WalkInv' /\ UniqueUITypeOK' /\ Honest' /\ Answered' /\ ActsOnFound'
      BY <2>8 DEF uiVars, SelectionInv, WalkInv, UniqueUITypeOK, Honest, Answered, ActsOnFound,
                  Due, OnceEach, Items
    <3>3. Covers' /\ Whole' /\ SelectionIsExact'
      BY <2>8, <3>1 DEF uiVars, SelectionInv, Covers, Whole, SelectionIsExact, Due, Items, Enough
    <3> QED
      BY <3>2, <3>3 DEF SelectionInv
  <2> QED
    BY <2>2, <2>3, <2>4, <2>5, <2>6, <2>7, <2>8, ElementChangesKeeps, ContextEndsKeeps,
       StartWalkKeeps, VisitKeeps, PassOverKeeps, WalkEndsKeeps DEF UniqueUINext
<1> QED
  BY <1>1, <1>2, PTL DEF UniqueUISpec

\* Semantic calls act on the element their selector names, or not at all, as long as
\* nothing changes and every element is shown as it is (resolveUniqueUI and its callers).
THEOREM SelectionStaysExact == UniqueUISpec => []SelectionHolds
<1>1. SelectionInv => SelectionHolds
  BY DEF SelectionInv, SelectionHolds
<1> QED
  BY <1>1, SelectionInvariant, PTL
=============================================================================
