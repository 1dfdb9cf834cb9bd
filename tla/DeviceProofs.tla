---------------------------- MODULE DeviceProofs ----------------------------
(***************************************************************************)
(* Challenges that Agents answer with their device key, and the client      *)
(* registrations they guard (internal/oauthserver/server.go).  The Relay    *)
(* keeps no record of a challenge it issues: a MAC with a key of the        *)
(* process makes it good for what it is bound to until it expires.  It      *)
(* remembers the ones that were used, until they expire.                    *)
(*                                                                          *)
(* A registration and an Agent connection validate their challenge before   *)
(* they take the server mutex, an authorization while it holds it.          *)
(***************************************************************************)
EXTENDS Integers, FiniteSets

CONSTANTS
  Device,       \* device ids, each with one key
  Client,       \* ids of OAuth clients, random
  Challenge,    \* challenges, random
  Attempt,      \* requests that answer a challenge
  Lifetime,     \* ticks a challenge lives
  ClientHour,   \* ticks an unapproved client is kept
  MaxClients,   \* maxClients
  MaxConsumed,  \* the three limits on challenges remembered per device or client
  MaxTime,      \* bound: ticks of the clock
  NoDevice, NoClient, NoChallenge

ASSUME TimeAssumption == {Lifetime, ClientHour, MaxClients, MaxConsumed, MaxTime} \subseteq Nat \ {0}
ASSUME NoneAssumption ==
  NoDevice \notin Device /\ NoClient \notin Client /\ NoChallenge \notin Challenge

VARIABLES
  clock,
  key,        \* the process, whose start draws the MAC keys
  issue,      \* what a challenge was issued for
  consumed,   \* the challenges remembered as used, by kind and subject
  client,     \* the registered clients in memory,
  savedClient,\* and in the file
  retired,    \* retiredDevices, a revoked device for ever
  dcr,        \* dcrEnabled
  attempt,    \* the requests
  \* History; the code does not keep it.
  used,       \* challenges accepted while they lived
  reused,     \* one was accepted again while it lived
  known       \* clients that were approved, and not revoked since

registry  == <<client, savedClient, retired, known>>
proofs    == <<issue, consumed, used, reused>>
proofVars == <<clock, key, registry, proofs, dcr, attempt>>

Kind == {"registration", "authorization", "agent"}

Registered   == [device : Device \cup {NoDevice}, approved : BOOLEAN, at : 0..MaxTime]
Unregistered == [device |-> NoDevice, approved |-> FALSE, at |-> -1]
Issue        == [kind : Kind, of : Device \cup Client, expires : Nat, key : 0..MaxTime]
NotIssued    == [kind |-> "none", of |-> NoDevice, expires |-> 0, key |-> 0]
NoAttempt    == [at |-> "idle", challenge |-> NoChallenge]

DeviceProofsTypeOK ==
  /\ clock \in 0..MaxTime /\ key \in 0..MaxTime /\ dcr \in BOOLEAN /\ reused \in BOOLEAN
  /\ issue \in [Challenge -> Issue \cup {NotIssued}]
  /\ consumed \in [Kind -> [Device \cup Client -> SUBSET Challenge]]
  /\ \A k \in Kind, x \in Device \cup Client : Cardinality(consumed[k][x]) <= MaxConsumed
  /\ {client, savedClient} \subseteq [Client -> Registered \cup {Unregistered}]
  /\ Cardinality({c \in Client : client[c] # Unregistered}) <= MaxClients
  /\ retired \subseteq Device /\ known \subseteq Client
  /\ attempt \in [Attempt -> [at : {"idle", "validated"}, challenge : Challenge \cup {NoChallenge}]]
  /\ used \subseteq Challenge

DeviceProofsInit ==
  /\ clock = 0 /\ key = 0 /\ dcr = TRUE
  /\ issue = [c \in Challenge |-> NotIssued]
  /\ consumed = [k \in Kind |-> [x \in Device \cup Client |-> {}]]
  /\ client = [c \in Client |-> Unregistered] /\ savedClient = client
  /\ retired = {} /\ known = {}
  /\ attempt = [a \in Attempt |-> NoAttempt]
  /\ used = {} /\ reused = FALSE

-----------------------------------------------------------------------------
(* Challenges.                                                              *)

\* validate...Challenge: made by this process for this subject, and alive.
Good(c, k, x) ==
  /\ c # NoChallenge /\ issue[c].kind = k /\ issue[c].of = x
  /\ issue[c].expires > clock /\ issue[c].key = key

\* What is remembered and not yet forgotten.
Remembered(k, x) == {c \in consumed[k][x] : issue[c].expires > clock}

\* ...ChallengeAvailableLocked.
Available(c, k, x) ==
  c \notin Remembered(k, x) /\ Cardinality(Remembered(k, x)) < MaxConsumed

\* consume...ChallengeLocked; forgetting precedes it.
Consume(c, k, x) ==
  /\ Available(c, k, x)
  /\ consumed' = [consumed EXCEPT ![k][x] = Remembered(k, x) \cup {c}]
  /\ IF issue[c].expires > clock
       THEN used' = used \cup {c} /\ reused' = (reused \/ c \in used)
       ELSE UNCHANGED <<used, reused>>
  /\ UNCHANGED issue

Grant(c, k, x) ==
  /\ issue[c] = NotIssued
  /\ issue' = [issue EXCEPT ![c] = [kind |-> k, of |-> x, expires |-> clock + Lifetime, key |-> key]]
  /\ UNCHANGED <<clock, key, registry, consumed, used, reused, dcr, attempt>>

\* handleRegistrationChallenge.
IssueRegistration(c, d) == dcr /\ d \notin retired /\ Grant(c, "registration", d)

\* handleAuthorizationChallenge, for the client of a device.
IssueAuthorization(c, cl) ==
  /\ client[cl].device # NoDevice /\ client[cl].device \notin retired
  /\ Grant(c, "authorization", cl)

\* An approved client of the device holds its tokens.
HoldsToken(d) == d \notin retired /\ \E cl \in Client : client[cl].device = d /\ client[cl].approved

\* AgentChallengeHandler.
IssueAgent(c, d) == HoldsToken(d) /\ Grant(c, "agent", d)

-----------------------------------------------------------------------------
(* Registration.                                                            *)

\* handleRegister before the mutex; a client that is no Agent has no challenge.
BeginRegistration(a, c) ==
  /\ attempt[a] = NoAttempt /\ dcr
  /\ c # NoChallenge => \E d \in Device : Good(c, "registration", d)
  /\ attempt' = [attempt EXCEPT ![a] = [at |-> "validated", challenge |-> c]]
  /\ UNCHANGED <<clock, key, registry, proofs, dcr>>

\* cleanupLocked: an unapproved client is kept for an hour.
Kept(cs) ==
  [c \in Client |-> IF ~cs[c].approved /\ clock - cs[c].at > ClientHour THEN Unregistered ELSE cs[c]]

\* The oldest unapproved client makes room.
Replaceable(cs) ==
  {c \in Client :
     /\ cs[c] # Unregistered /\ ~cs[c].approved
     /\ \A o \in Client : cs[o] # Unregistered /\ ~cs[o].approved => cs[c].at <= cs[o].at}

Full(cs) == Cardinality({c \in Client : cs[c] # Unregistered}) >= MaxClients

\* Variant: who holds a challenge is registered, retired meanwhile or not.
NotRetiredAnyway(d) == TRUE

NotRetired(d) == d \notin retired

SaveClients(cs) ==
  \/ client' = cs /\ savedClient' = cs
  \/ UNCHANGED <<client, savedClient>>

\* handleRegister under the mutex.  A failed save restores the clients, the
\* challenge stays consumed.
FinishRegistration(a, cl, out) ==
  /\ attempt[a].at = "validated"
  /\ LET c  == attempt[a].challenge
         d  == IF c = NoChallenge THEN NoDevice ELSE issue[c].of
         cs == Kept(client) IN
     /\ cl # out /\ cs[cl] = Unregistered /\ cl \notin known
     /\ IF Full(cs) THEN out \in Replaceable(cs) ELSE out = NoClient
     /\ IF c = NoChallenge
          THEN UNCHANGED proofs
          ELSE issue[c].kind = "registration" /\ NotRetired(d) /\ Consume(c, "registration", d)
     /\ SaveClients([x \in Client |->
          IF x = cl THEN [device |-> d, approved |-> FALSE, at |-> clock]
          ELSE IF x = out THEN Unregistered ELSE cs[x]])
  /\ attempt' = [attempt EXCEPT ![a] = NoAttempt]
  /\ UNCHANGED <<clock, key, retired, known, dcr>>

\* Any refusal.
Refused(a) ==
  /\ attempt[a] # NoAttempt
  /\ attempt' = [attempt EXCEPT ![a] = NoAttempt]
  /\ UNCHANGED <<clock, key, registry, proofs, dcr>>

-----------------------------------------------------------------------------
(* Authorization and connection.                                            *)

\* The authorization challenge is validated and consumed under one lock.
AuthorizationProven(cl, c) == Good(c, "authorization", cl) /\ Consume(c, "authorization", cl)

\* handleAuthorizeGET of a client with a device, and the owner's approval.
AuthorizeDevice(cl, c) ==
  /\ client[cl].device # NoDevice /\ client[cl].device \notin retired
  /\ AuthorizationProven(cl, c)
  /\ SaveClients([client EXCEPT ![cl].approved = TRUE])
  /\ known' = IF client'[cl].approved THEN known \cup {cl} ELSE known
  /\ UNCHANGED <<clock, key, retired, dcr, attempt>>

\* The same for a client without one.
Approve(cl) ==
  /\ client[cl] # Unregistered /\ client[cl].device = NoDevice
  /\ SaveClients([client EXCEPT ![cl].approved = TRUE])
  /\ known' = IF client'[cl].approved THEN known \cup {cl} ELSE known
  /\ UNCHANGED <<clock, key, proofs, retired, dcr, attempt>>

\* verifyAgentDeviceProof before and after the signature is checked.
BeginConnection(a, c) ==
  /\ attempt[a] = NoAttempt
  /\ \E d \in Device : HoldsToken(d) /\ Good(c, "agent", d)
  /\ attempt' = [attempt EXCEPT ![a] = [at |-> "validated", challenge |-> c]]
  /\ UNCHANGED <<clock, key, registry, proofs, dcr>>

FinishConnection(a) ==
  /\ attempt[a].at = "validated"
  /\ LET c == attempt[a].challenge IN
     /\ c # NoChallenge /\ issue[c].kind = "agent"
     /\ HoldsToken(issue[c].of) /\ Consume(c, "agent", issue[c].of)
  /\ attempt' = [attempt EXCEPT ![a] = NoAttempt]
  /\ UNCHANGED <<clock, key, registry, dcr>>

-----------------------------------------------------------------------------
(* Administration, time and restarts.                                       *)

\* revoke-client, and revoke-device with the clients of the device.
RevokeClients(C, D) ==
  /\ \/ D = {} /\ Cardinality(C) = 1
     \/ Cardinality(D) = 1 /\ D \cap retired = {} /\ C = {c \in Client : client[c].device \in D}
  /\ client' = [c \in Client |-> IF c \in C THEN Unregistered ELSE client[c]]
  /\ savedClient' = client' /\ client' # client
  /\ retired' = retired \cup D /\ known' = known \ C
  /\ UNCHANGED <<clock, key, proofs, dcr, attempt>>

SetDCR(on) == dcr' = on /\ dcr # on /\ UNCHANGED <<clock, key, registry, proofs, attempt>>

PassTime == clock < MaxTime /\ clock' = clock + 1 /\ UNCHANGED <<key, registry, proofs, dcr, attempt>>

\* New process: new keys, nothing remembered; load cleans the clients up.
RestartProofs ==
  /\ key < MaxTime /\ key' = key + 1
  /\ consumed' = [k \in Kind |-> [x \in Device \cup Client |-> {}]]
  /\ client' = Kept(savedClient) /\ savedClient' = client'
  /\ attempt' = [a \in Attempt |-> NoAttempt]
  /\ UNCHANGED <<clock, retired, known, issue, used, reused, dcr>>

DeviceProofsNext ==
  \/ \E c \in Challenge : \/ \E d \in Device : IssueRegistration(c, d) \/ IssueAgent(c, d)
                          \/ \E cl \in Client : IssueAuthorization(c, cl) \/ AuthorizeDevice(cl, c)
  \/ \E a \in Attempt : \/ \E c \in Challenge \cup {NoChallenge} : BeginRegistration(a, c) \/ BeginConnection(a, c)
                        \/ \E cl \in Client, out \in Client \cup {NoClient} : FinishRegistration(a, cl, out)
                        \/ FinishConnection(a) \/ Refused(a)
  \/ \E cl \in Client : Approve(cl)
  \/ \E C \in SUBSET Client, D \in SUBSET Device : RevokeClients(C, D)
  \/ \E on \in BOOLEAN : SetDCR(on)
  \/ PassTime \/ RestartProofs

DeviceProofsSpec == DeviceProofsInit /\ [][DeviceProofsNext]_proofVars

-----------------------------------------------------------------------------
(* Correctness.                                                             *)

\* A challenge is accepted once while it lives, across restarts and failed
\* saves: the process either remembers that it was used, or is no longer the
\* one that issued it.
ChallengeUsedOnceAlive == ~reused

\* A retired device never has a client again: neither a registration under way
\* when it was retired nor a restart brings one back.
RetiredHasNoClient ==
  \A c \in Client : client[c].device \notin retired /\ savedClient[c].device \notin retired

\* An approved client goes only when it is revoked: not for a newer one when
\* the registry is full, not with age, not with a restart.
ApprovedStays == \A c \in known : client[c].approved /\ savedClient[c].approved

\* What device keys prove stays proved, and what was withdrawn stays withdrawn.
ProofsHold == DeviceProofsTypeOK /\ ChallengeUsedOnceAlive /\ RetiredHasNoClient /\ ApprovedStays
=============================================================================
