-------------------------- MODULE OAuthTokensProof --------------------------
(***************************************************************************)
(* Grants, codes and token families, for every set of accounts, devices,    *)
(* clients and requests and every number of rotations and password changes. *)
(* cleanupLocked hides much: what is wanted here is that a record which     *)
(* rests on nothing is never there to be cleaned up, and that a grant which *)
(* was ended has left no record of any kind.                                *)
(***************************************************************************)
EXTENDS OAuthTokens, TLAPS

\* A request that waits was made by a client and has not been granted; tokens were
\* issued for grants only; and what authorizes, or was revoked, had an owner.
GrantInv ==
  /\ pending \subseteq Grant /\ Authority \subseteq Grant /\ ended \subseteq Grant
  /\ \A g \in pending : /\ granted[g].user = None /\ granted[g].client \in Client
                        /\ granted[g].res \in Resource
  /\ \A g \in Authority \cup ended : granted[g].user # None
  /\ \A g \in Grant : IF granted[g].user = None
                      THEN pairs[g] = 0
                      ELSE granted[g].client \in Client /\ granted[g].res \in Resource
  /\ \A k \in access : k[2] <= pairs[k[1]]

TokensInv ==
  /\ RecordsIntact /\ GrantInv /\ SingleHead /\ EndedStaysEnded /\ RotationEnds /\ DeviceKeepsOwner

USE DeviceOfAssumption, SwitchAssumption, NoneAssumption, BoundAssumption

-----------------------------------------------------------------------------
(* Lemmas about records.                                                   *)

\* What a grant authorizes by: a code, or a token of its family.
LEMMA AuthorityIs ==
  ASSUME NEW g
  PROVE  g \in Authority <=> g \in codes \/ \E k \in access \cup refresh \cup refreshUsed : k[1] = g
BY DEF Authority

\* The same after a step.
LEMMA AuthorityIsNext ==
  ASSUME NEW g
  PROVE  g \in Authority' <=> g \in codes' \/ \E k \in access' \cup refresh' \cup refreshUsed' : k[1] = g
BY DEF Authority

\* cleanupLocked leaves records that rest on what they should, and no new ones.
LEMMA CleanUpLeaves ==
  ASSUME NEW coded, NEW acc, NEW ref, NEW used, CleanGrants(coded, acc, ref, used)
  PROVE  /\ \A g \in Authority' : Kept(g)
         /\ codes' \subseteq coded /\ access' \subseteq acc /\ refresh' \subseteq ref
         /\ refreshUsed' \subseteq used
BY AuthorityIsNext DEF CleanGrants

\* A family that has tokens has used its code up.
LEMMA FamilyHasNoCode ==
  ASSUME TokensInv, NEW k \in access \cup refresh \cup refreshUsed
  PROVE  k[1] \in Grant /\ k[1] \notin codes /\ k[1] \in Authority
<1>1. k \in Key
  BY DEF TokensInv, RecordsIntact, TokensTypeOK
<1>2. k[1] \in Grant /\ k[2] \in 1..MaxPair /\ pairs[k[1]] \in 0..MaxPair
  BY <1>1 DEF Key, TokensInv, RecordsIntact, TokensTypeOK
<1>3. k[2] <= pairs[k[1]]
  BY <1>2 DEF TokensInv, GrantInv, SingleHead
<1>4. k[1] \notin codes
  BY <1>2, <1>3 DEF TokensInv, SingleHead
<1> QED BY <1>2, <1>4, AuthorityIs

\* What authorizes has all that it rests on.
LEMMA AuthorityRests ==
  ASSUME TokensInv, NEW g \in Authority
  PROVE  /\ g \in Grant /\ Kept(g) /\ granted[g].user \in User /\ granted[g].client \in Client
         /\ granted[g].res \in Resource /\ granted[g].password = password[granted[g].user]
<1>1. g \in Grant /\ Kept(g) /\ granted[g].user # None
  BY DEF TokensInv, GrantInv, RecordsIntact
<1>2. granted[g].user \in User \cup {None}
  BY <1>1 DEF TokensInv, RecordsIntact, TokensTypeOK
<1> QED BY <1>1, <1>2 DEF TokensInv, GrantInv, RotationEnds

\* A step that issues nothing: records may go, and what is revoked has gone.
Shrinks ==
  /\ UNCHANGED grants /\ pending' \subseteq pending /\ codes' \subseteq codes
  /\ access' \subseteq access /\ refresh' \subseteq refresh /\ refreshUsed' \subseteq refreshUsed
  /\ ended \subseteq ended'
  /\ \A g \in ended' \ ended : g \in Grant /\ g \notin Authority' /\ granted[g].user # None

\* What such a step keeps, whatever else it changes.
LEMMA ShrinkingKeeps ==
  ASSUME TokensInv, Shrinks
  PROVE  Authority' \subseteq Authority /\ SingleHead' /\ EndedStaysEnded' /\ GrantInv'
<1>1. Authority' \subseteq Authority
  BY AuthorityIs, AuthorityIsNext DEF Shrinks
<1>2. SingleHead'
  BY DEF Shrinks, grants, TokensInv, SingleHead
<1>3. EndedStaysEnded'
  BY <1>1 DEF Shrinks, TokensInv, EndedStaysEnded
<1>4. GrantInv'
  BY <1>1 DEF Shrinks, grants, TokensInv, GrantInv
<1> QED BY <1>1, <1>2, <1>3, <1>4

\* The revocation of grants, with their codes.
LEMMA DropShrinks ==
  ASSUME TokensInv, NEW G \in SUBSET Grant, Drop(G),
         codes' \subseteq codes, codes' \cap G = {}, UNCHANGED grants, pending' \subseteq pending
  PROVE  Shrinks /\ Authority' \cap G = {}
<1>1. Authority' \cap G = {}
  BY AuthorityIsNext DEF Drop
<1> QED BY <1>1 DEF Drop, Shrinks

-----------------------------------------------------------------------------
(* What each kind of handler does to the records.                          *)

\* Handlers that clean up, with or without taking a record away, and the revocation
\* of a family.
LEMMA CleanersShrink ==
  ASSUME TokensInv, NEW asked \in SUBSET pending, NEW coded \in SUBSET codes,
         NEW acc \in SUBSET access, NEW ref \in SUBSET refresh, NEW used \in SUBSET refreshUsed,
         CleanUp(asked, coded, acc, ref, used), UNCHANGED grants, UNCHANGED ended
  PROVE  Shrinks /\ \A g \in Authority' : Kept(g)
<1>1. CleanGrants(coded, acc, ref, used)
  BY DEF CleanUp
<1> QED BY <1>1, CleanUpLeaves DEF CleanUp, Shrinks

\* What a step must show of the authority that it leaves.
Stands == /\ \A g \in Authority' : Kept(g)' /\ granted'[g].password = password'[granted'[g].user]
          /\ SingleHead' /\ EndedStaysEnded' /\ GrantInv' /\ DeviceKeepsOwner'

\* It stands when the records it leaves still rest on what they should.
LEMMA ShrinkingStands ==
  ASSUME TokensInv, Shrinks, DeviceKeepsOwner',
         \A g \in Authority' : Kept(g)' /\ password'[granted[g].user] = password[granted[g].user]
  PROVE  Stands
<1>1. UNCHANGED granted
  BY DEF Shrinks, grants
<1>2. \A g \in Authority' : granted[g].password = password[granted[g].user]
  BY ShrinkingKeeps DEF TokensInv, RotationEnds
<1> QED BY <1>1, <1>2, ShrinkingKeeps DEF Stands

\* Handlers that leave accounts and devices alone, and no approved client behind.
LEMMA QuietStands ==
  ASSUME TokensInv, UNCHANGED <<users, password, devices, grants>>, Shrinks,
         \A g \in Authority' : Kept(g),
         \/ UNCHANGED clients
         \/ \E c \in Client, s \in {"registered", "deleted"} :
              clients[c] # "approved" /\ clients' = [clients EXCEPT ![c] = s]
  PROVE  Stands
<1>1. DeviceKeepsOwner'
  BY DEF TokensInv, DeviceKeepsOwner, devices
<1>2. ASSUME NEW g \in Authority' PROVE Kept(g)'
  <2>1. Kept(g) /\ UNCHANGED <<users, owner, disabled, retired, granted>>
    BY <1>2 DEF devices, grants
  <2>2. granted[g].client \in Client /\ clients[granted[g].client] = "approved"
    BY <1>2, <2>1, ShrinkingKeeps DEF Kept, TokensInv, GrantInv
  <2>3. clients'[granted[g].client] = "approved"
    BY <2>2 DEF TokensInv, RecordsIntact, TokensTypeOK
  <2> QED BY <2>1, <2>3 DEF Kept, Intact
<1> QED BY <1>1, <1>2, ShrinkingStands

\* Authority stands on what it stood on: a step that changes nothing it rests on.
LEMMA StandsOnTheSame ==
  ASSUME TokensInv, Shrinks, UNCHANGED <<users, password, clients, devices>>
  PROVE  Stands
<1>1. \A g \in Authority' : Kept(g)
  BY ShrinkingKeeps DEF TokensInv, RecordsIntact
<1> QED BY <1>1, QuietStands DEF Shrinks

\* Registration, the endpoints that only take away, and the clean-up of any request.
LEMMA CleaningStands ==
  ASSUME TokensInv,
         \/ \E c \in Client : Register(c) \/ ForgetClient(c)
         \/ \E g \in Grant : Withdraw(g) \/ \E u \in User : Decide(g, u)
         \/ \E g \in Grant, u \in User, n \in 0..MaxRotation : CommitFails(g, u, n)
         \/ \E k \in Key : RotateRefused(k) \/ Replay(k) \/ Revoke(k)
         \/ ExpireOne \/ Restart
         \/ \E s \in Switch, on \in BOOLEAN : SetSwitch(s, on)
  PROVE  Stands
<1> USE DEF accounts, devices, grants
<1>1. ASSUME NEW c \in Client, Register(c) \/ ForgetClient(c) PROVE Stands
  <2>1. Shrinks /\ \A g \in Authority' : Kept(g)
    BY <1>1, CleanersShrink DEF Register, ForgetClient
  <2> QED BY <1>1, <2>1, QuietStands DEF Register, ForgetClient
<1>2. ASSUME UNCHANGED <<accounts, devices, codes, tokens, grants, ended>>, pending' \subseteq pending
      PROVE  Stands
  <2>1. Shrinks
    BY <1>2 DEF Shrinks, tokens
  <2> QED BY <1>2, <2>1, StandsOnTheSame
<1>3. ASSUME UNCHANGED <<accounts, devices, grants, ended>>,
             NEW asked \in SUBSET pending, NEW coded \in SUBSET codes, NEW acc \in SUBSET access,
             NEW ref \in SUBSET refresh, NEW used \in SUBSET refreshUsed,
             CleanUp(asked, coded, acc, ref, used)
      PROVE  Stands
  BY <1>3, CleanersShrink, StandsOnTheSame
<1>4. ASSUME NEW g \in Grant, Withdraw(g) PROVE Stands
  BY <1>2, <1>4 DEF Withdraw
<1>5. ASSUME NEW g \in Grant, NEW u \in User, Decide(g, u) PROVE Stands
  BY <1>2, <1>3, <1>5 DEF Decide
<1>6. ASSUME NEW g \in Grant, NEW u \in User, NEW n \in 0..MaxRotation, CommitFails(g, u, n) PROVE Stands
  BY <1>2, <1>6 DEF CommitFails
<1>7. ASSUME NEW k \in Key, RotateRefused(k) PROVE Stands
  BY <1>3, <1>7 DEF RotateRefused
<1>8. ASSUME NEW k \in Key, Replay(k) PROVE Stands
  <2> DEFINE family == {h \in Key : h[1] = k[1]}
  <2>1. CleanGrants(codes, access \ family, refresh \ family, refreshUsed \ family)
    BY <1>8 DEF Replay, CleanUp
  <2>2. k[1] \in Grant /\ k[1] \notin codes /\ k[1] \in Authority
    BY <1>8, FamilyHasNoCode DEF Replay
  <2>3. access \cup refresh \cup refreshUsed \subseteq Key
    BY DEF TokensInv, RecordsIntact, TokensTypeOK
  <2>4. k[1] \notin Authority'
    BY <2>1, <2>2, <2>3, CleanUpLeaves, AuthorityIsNext
  <2>5. granted[k[1]].user # None
    BY <2>2 DEF TokensInv, GrantInv
  <2>6. Shrinks
    BY <1>8, <2>1, <2>2, <2>4, <2>5, CleanUpLeaves DEF Shrinks, Replay, CleanUp
  <2> QED BY <1>8, <2>6, StandsOnTheSame DEF Replay
<1>9. ASSUME NEW k \in Key, Revoke(k) PROVE Stands
  <2>1. k[1] \in Grant /\ k[1] \notin codes
    BY <1>9, FamilyHasNoCode DEF Revoke
  <2>2. Shrinks
    BY <1>9, <2>1, DropShrinks DEF Revoke, asking
  <2> QED BY <1>9, <2>2, StandsOnTheSame DEF Revoke
<1>10. CASE ExpireOne
  <2>1. PICK asked, coded, acc, ref, used : Expire(asked, coded, acc, ref, used)
    BY <1>10 DEF ExpireOne
  <2> QED BY <1>3, <2>1 DEF Expire
<1>11. CASE Restart
  BY <1>3, <1>11 DEF Restart
<1>12. ASSUME NEW s \in Switch, NEW on \in BOOLEAN, SetSwitch(s, on) PROVE Stands
  BY <1>2, <1>12 DEF SetSwitch, asking
<1> QED BY <1>1, <1>4, <1>5, <1>6, <1>7, <1>8, <1>9, <1>10, <1>11, <1>12

-----------------------------------------------------------------------------
(* Administrators and owners.                                              *)

\* The revocation of the grants that rest on what is withdrawn: of a client, ...
LEMMA RevokeClientStands == ASSUME TokensInv, NEW c \in Client, RevokeClient(c) PROVE Stands
<1> USE DEF RevokeClient, OfClient
<1>1. Shrinks /\ Authority' \cap OfClient(c) = {}
  BY DropShrinks
<1>2. DeviceKeepsOwner'
  BY DEF TokensInv, DeviceKeepsOwner, devices
<1>3. ASSUME NEW g \in Authority'
      PROVE  Kept(g)' /\ password'[granted[g].user] = password[granted[g].user]
  <2>1. g \in Grant /\ Kept(g) /\ granted[g].client \in Client \ {c}
    BY <1>1, <1>3, ShrinkingKeeps DEF TokensInv, GrantInv, RecordsIntact
  <2>2. clients'[granted[g].client] = "approved"
    BY <2>1 DEF TokensInv, RecordsIntact, TokensTypeOK, Kept
  <2> QED BY <2>1, <2>2 DEF Kept, Intact, devices, grants
<1> QED BY <1>1, <1>2, <1>3, ShrinkingStands

\* ... of a device, until it is enabled again, ...
LEMMA DisableDeviceStands ==
  ASSUME TokensInv, NEW d \in Device, DisableDevice(d) \/ EnableDevice(d) PROVE Stands
<1>1. CASE DisableDevice(d)
  <2> USE <1>1 DEF DisableDevice, OfDevice
  <2>1. Shrinks /\ Authority' \cap OfDevice(d) = {}
    BY DropShrinks
  <2>2. DeviceKeepsOwner'
    BY DEF TokensInv, DeviceKeepsOwner
  <2>3. ASSUME NEW g \in Authority' PROVE Kept(g)'
    <3>1. Kept(g) /\ granted[g].res.device # d
      BY <2>1, <2>3, ShrinkingKeeps DEF TokensInv, GrantInv, RecordsIntact
    <3> QED BY <3>1 DEF Kept, Intact, accounts, grants
  <2> QED BY <2>1, <2>2, <2>3, ShrinkingStands DEF accounts
<1>2. CASE EnableDevice(d)
  <2> USE <1>2 DEF EnableDevice
  <2>1. Shrinks
    BY DEF Shrinks, asking, tokens
  <2>2. DeviceKeepsOwner'
    BY DEF TokensInv, DeviceKeepsOwner
  <2>3. ASSUME NEW g \in Authority' PROVE Kept(g)'
    <3>1. Kept(g)
      BY <2>1, <2>3, ShrinkingKeeps DEF TokensInv, RecordsIntact
    <3> QED BY <3>1 DEF Kept, Intact, accounts, grants
  <2> QED BY <2>1, <2>2, <2>3, ShrinkingStands DEF accounts
<1> QED BY <1>1, <1>2

\* ... of devices for good, with the clients that proved their keys, ...
LEMMA RetireStands ==
  ASSUME TokensInv, NEW D \in SUBSET Device, NEW U \in SUBSET User, Retire(D, U),
         \A u \in User \ U : users'[u] = users[u]
  PROVE  Stands
<1> DEFINE gone == {c \in Client : DeviceOf[c] \in D /\ clients[c] \in {"registered", "approved"}}
           on   == UNION ({OfDevice(d) : d \in D} \cup {OfClient(c) : c \in gone})
           all  == on \cup UNION {OfUser(u) : u \in U}
<1>1. Drop(all) /\ codes' = codes \ all /\ pending' = pending \ on /\ UNCHANGED grants
  BY DEF Retire
<1>2. all \in SUBSET Grant
  BY DEF OfDevice, OfClient, OfUser
<1>3. Shrinks /\ Authority' \cap all = {}
  <2> HIDE DEF all, on
  <2>1. codes' \subseteq codes /\ codes' \cap all = {} /\ pending' \subseteq pending
    BY <1>1
  <2> QED BY <1>1, <1>2, <2>1, DropShrinks
<1>4. /\ retired' = retired \cup D /\ disabled' = disabled \ D
      /\ owner' = [d \in Device |-> IF d \in D THEN None ELSE owner[d]]
      /\ clients' = [c \in Client |-> IF c \in gone THEN "deleted" ELSE clients[c]]
      /\ UNCHANGED <<password, claimed, granted>>
  BY DEF Retire, grants
<1>5. DeviceKeepsOwner'
  BY <1>4 DEF TokensInv, DeviceKeepsOwner
<1>6. ASSUME NEW g \in Authority' PROVE Kept(g)'
  <2>1. g \in Grant /\ g \notin all
    BY <1>2, <1>3, <1>6, ShrinkingKeeps DEF TokensInv, GrantInv
  <2>2. Kept(g) /\ granted[g].client \in Client /\ granted[g].res \in Resource /\ granted[g].user \in User
    BY <1>3, <1>6, ShrinkingKeeps, AuthorityRests
  <2> HIDE DEF gone
  <2>3. granted[g].res.device \notin D
    <3> SUFFICES ASSUME granted[g].res.device \in D PROVE g \in all
      BY <2>1
    <3>1. g \in OfDevice(granted[g].res.device)
      BY <2>1 DEF OfDevice
    <3> QED BY <3>1
  <2>4. granted[g].client \notin gone
    <3> SUFFICES ASSUME granted[g].client \in gone PROVE g \in all
      BY <2>1
    <3>1. g \in OfClient(granted[g].client)
      BY <2>1 DEF OfClient
    <3> QED BY <3>1
  <2>5. granted[g].user \notin U
    BY <2>1 DEF OfUser
  <2>6. clients'[granted[g].client] = "approved"
    BY <1>4, <2>2, <2>4 DEF Kept
  <2>7. users'[granted[g].user] = "active"
    BY <2>2, <2>5 DEF Kept, Intact
  <2>8. granted[g].res.device # None => granted[g].res.device \in Device
    BY <2>2 DEF Resource
  <2> QED BY <1>4, <2>2, <2>3, <2>6, <2>7, <2>8 DEF Kept, Intact
<1> QED BY <1>3, <1>4, <1>5, <1>6, ShrinkingStands

\* ... and of an account.
LEMMA UserStands ==
  ASSUME TokensInv, NEW u \in User, DisableUser(u) \/ EnableUser(u) \/ RotatePassword(u) PROVE Stands
<1>1. CASE EnableUser(u)
  <2>1. Shrinks
    BY <1>1 DEF EnableUser, Shrinks, asking, tokens
  <2>2. DeviceKeepsOwner' /\ UNCHANGED password
    BY <1>1 DEF EnableUser, TokensInv, DeviceKeepsOwner, devices
  <2>3. ASSUME NEW g \in Authority' PROVE Kept(g)'
    <3>1. Kept(g)
      BY <2>1, <2>3, ShrinkingKeeps DEF TokensInv, RecordsIntact
    <3>2. users'[granted[g].user] = "active"
      BY <1>1, <3>1 DEF EnableUser, Kept, Intact, TokensInv, RecordsIntact, TokensTypeOK
    <3> QED BY <1>1, <3>1, <3>2 DEF EnableUser, Kept, Intact, devices, grants
  <2> QED BY <2>1, <2>2, <2>3, ShrinkingStands
<1>2. CASE DisableUser(u) \/ RotatePassword(u)
  <2>1. RevokeUser(u) /\ UNCHANGED <<clients, devices, asking, grants>>
    BY <1>2 DEF DisableUser, RotatePassword
  <2>2. Shrinks /\ Authority' \cap OfUser(u) = {}
    BY <2>1, DropShrinks DEF RevokeUser, OfUser, asking
  <2>3. DeviceKeepsOwner'
    BY <2>1 DEF TokensInv, DeviceKeepsOwner, devices
  <2>4. ASSUME NEW g \in Authority'
        PROVE  Kept(g)' /\ password'[granted[g].user] = password[granted[g].user]
    <3>1. g \in Grant /\ Kept(g) /\ granted[g].user \in User \ {u}
      BY <2>2, <2>4, ShrinkingKeeps, AuthorityRests DEF OfUser
    <3>2. users'[granted[g].user] = users[granted[g].user] /\ password'[granted[g].user] = password[granted[g].user]
      BY <1>2, <3>1 DEF DisableUser, RotatePassword, TokensInv, RecordsIntact, TokensTypeOK
    <3> QED BY <2>1, <3>1, <3>2 DEF Kept, Intact, devices, grants
  <2> QED BY <2>2, <2>3, <2>4, ShrinkingStands
<1> QED BY <1>1, <1>2

-----------------------------------------------------------------------------
(* Handlers that add a record.                                             *)

\* A request that was not granted has no owner, has issued nothing, authorizes nothing
\* and was never revoked.
LEMMA UngrantedIsBare ==
  ASSUME TokensInv, NEW g \in Grant, granted[g].user = None
  PROVE  pairs[g] = 0 /\ g \notin Authority /\ g \notin ended
BY DEF TokensInv, GrantInv

\* What the handlers that change neither accounts, clients nor devices must show.
LEMMA Unmoved ==
  ASSUME TokensInv, UNCHANGED <<accounts, devices, granted>>, Authority' \subseteq Authority
  PROVE  /\ DeviceKeepsOwner'
         /\ \A g \in Authority' : Kept(g)' /\ granted'[g].password = password'[granted'[g].user]
<1>1. DeviceKeepsOwner'
  BY DEF TokensInv, DeviceKeepsOwner, devices
<1>2. ASSUME NEW g \in Authority'
      PROVE  Kept(g)' /\ granted'[g].password = password'[granted'[g].user]
  <2>1. Kept(g) /\ granted[g].password = password[granted[g].user]
    BY <1>2, AuthorityRests
  <2> QED BY <2>1 DEF Kept, Intact, accounts, devices
<1> QED BY <1>1, <1>2

\* A request.
LEMMA AuthorizeStands ==
  ASSUME TokensInv, NEW g \in Grant, NEW c \in Client, NEW r \in Resource, Authorize(g, c, r)
  PROVE  Stands
<1> USE DEF Authorize, accounts, devices
<1>1. granted[g].user = None
  BY DEF NoGrant
<1>2. pairs[g] = 0 /\ g \notin Authority /\ g \notin ended
  BY <1>1, UngrantedIsBare
<1>3. /\ \A h \in Grant \ {g} : granted'[h] = granted[h]
      /\ granted'[g].user = None /\ granted'[g].client = c /\ granted'[g].res = r
  BY <1>1 DEF TokensInv, RecordsIntact, TokensTypeOK
<1>4. /\ codes' \subseteq codes /\ access' \subseteq access /\ refresh' \subseteq refresh
      /\ refreshUsed' \subseteq refreshUsed
  BY CleanUpLeaves
<1>5. Authority' \subseteq Authority
  BY <1>4, AuthorityIs, AuthorityIsNext
<1>6. \A h \in Authority : h \in Grant \ {g}
  BY <1>2 DEF TokensInv, GrantInv
<1>7. ASSUME NEW h \in Authority'
      PROVE  Kept(h)' /\ granted'[h].password = password'[granted'[h].user]
  <2>1. Kept(h) /\ granted[h].password = password[granted[h].user] /\ granted'[h] = granted[h]
    BY <1>3, <1>5, <1>6, <1>7, AuthorityRests
  <2> QED BY <2>1 DEF Kept, Intact
<1>8. SingleHead' /\ EndedStaysEnded' /\ DeviceKeepsOwner'
  BY <1>4, <1>5 DEF TokensInv, SingleHead, EndedStaysEnded, DeviceKeepsOwner
<1>9. GrantInv'
  <2>1. pending' \subseteq pending \cup {g} /\ UNCHANGED <<pairs, ended>>
    OBVIOUS
  <2> HIDE DEF Authorize
  <2>2. pending' \subseteq Grant /\ Authority' \subseteq Grant /\ ended' \subseteq Grant
    BY <1>5, <2>1 DEF TokensInv, GrantInv
  <2>3. \A h \in pending' : /\ granted'[h].user = None /\ granted'[h].client \in Client
                            /\ granted'[h].res \in Resource
    BY <1>3, <2>1 DEF TokensInv, GrantInv
  <2>4. \A h \in Authority' \cup ended' : granted'[h].user # None
    BY <1>2, <1>3, <1>5, <2>1 DEF TokensInv, GrantInv
  <2>5. \A h \in Grant : IF granted'[h].user = None
                         THEN pairs'[h] = 0
                         ELSE granted'[h].client \in Client /\ granted'[h].res \in Resource
    BY <1>2, <1>3, <2>1 DEF TokensInv, GrantInv
  <2>6. \A k \in access' : k[2] <= pairs'[k[1]]
    BY <1>4, <2>1 DEF TokensInv, GrantInv
  <2> QED BY <2>2, <2>3, <2>4, <2>5, <2>6 DEF GrantInv
<1> QED BY <1>7, <1>8, <1>9 DEF Stands

\* The grant: its code, its client and, for an Agent, its device.
LEMMA CommitStands ==
  ASSUME TokensInv, NEW g \in Grant, NEW u \in User, NEW n \in 0..MaxRotation, Commit(g, u, n)
  PROVE  Stands
<1> USE DEF Commit
<1>1. granted[g].user = None /\ granted[g].client \in Client /\ granted[g].res \in Resource
  BY DEF TokensInv, GrantInv
<1>2. pairs[g] = 0 /\ g \notin Authority /\ g \notin ended
  BY <1>1, UngrantedIsBare
<1> DEFINE r == granted[g].res
           c == granted[g].client
<1>3. /\ \A h \in Grant \ {g} : granted'[h] = granted[h]
      /\ granted'[g].user = u /\ granted'[g].client = c /\ granted'[g].res = r
      /\ granted'[g].password = password[u]
  BY DEF TokensInv, RecordsIntact, TokensTypeOK
<1>4. UNCHANGED <<access, refresh, refreshUsed, pairs, ended>> /\ codes' = codes \cup {g}
  BY DEF tokens
<1>5. Authority' \subseteq Authority \cup {g}
  BY <1>4, AuthorityIs, AuthorityIsNext
<1>6. \A h \in Authority : h \in Grant \ {g}
  BY <1>2 DEF TokensInv, GrantInv
<1> HIDE DEF Commit
<1>7. /\ UNCHANGED <<users, password, disabled, retired>> /\ users[u] = "active"
      /\ r.device # None => r.device \in Device /\ r.device \notin retired \cup disabled
      /\ clients'[c] = "approved" /\ \A b \in Client \ {c} : clients'[b] = clients[b]
  BY <1>1 DEF Commit, MayGrant, Resource, TokensInv, RecordsIntact, TokensTypeOK
<1>8. /\ \A d \in Device : owner'[d] = owner[d] \/ (owner[d] = None /\ d = r.device /\ owner'[d] = u)
      /\ r.device # None => owner'[r.device] = u
      /\ \A d \in Device : \/ owner'[d] = owner[d] /\ claimed'[d] = claimed[d]
                           \/ /\ d = r.device /\ owner'[d] = u
                              /\ claimed'[d] = IF claimed[d] = None THEN u ELSE claimed[d]
  BY <1>1 DEF Commit, MayGrant, Claim, Resource, TokensInv, RecordsIntact, TokensTypeOK
<1>9. ASSUME NEW h \in Authority'
      PROVE  Kept(h)' /\ granted'[h].password = password'[granted'[h].user]
  <2>1. CASE h = g
    BY <1>3, <1>7, <1>8, <2>1 DEF Kept, Intact
  <2>2. CASE h # g
    <3>1. /\ h \in Authority /\ Kept(h) /\ granted[h].password = password[granted[h].user]
          /\ granted'[h] = granted[h] /\ granted[h].client \in Client
          /\ granted[h].res \in Resource /\ granted[h].user \in User
      BY <1>3, <1>5, <1>6, <1>9, <2>2, AuthorityRests
    <3>2. clients'[granted[h].client] = "approved"
      BY <1>7, <3>1 DEF Kept
    <3>3. granted[h].res.device # None => owner'[granted[h].res.device] = granted[h].user
      BY <1>8, <3>1 DEF Kept, Intact, Resource
    <3> QED BY <1>7, <3>1, <3>2, <3>3 DEF Kept, Intact
  <2> QED BY <2>1, <2>2
<1>10. DeviceKeepsOwner'
  <2> SUFFICES ASSUME NEW d \in Device
               PROVE  /\ owner'[d] \in {None, claimed'[d]}
                      /\ (owner'[d] = None /\ claimed'[d] # None) => d \in retired'
                      /\ d \in retired' => owner'[d] = None
    BY DEF DeviceKeepsOwner
  <2>1. /\ owner[d] \in {None, claimed[d]}
        /\ (owner[d] = None /\ claimed[d] # None) => d \in retired
        /\ d \in retired => owner[d] = None
    BY DEF TokensInv, DeviceKeepsOwner
  <2> QED BY <1>7, <1>8, <2>1
<1>11. SingleHead' /\ EndedStaysEnded'
  BY <1>2, <1>4, <1>5 DEF TokensInv, SingleHead, EndedStaysEnded
<1>12. GrantInv'
  <2>1. pending' = pending \ {g}
    BY DEF Commit
  <2>2. pending' \subseteq Grant /\ Authority' \subseteq Grant /\ ended' \subseteq Grant
    BY <1>4, <1>5, <2>1 DEF TokensInv, GrantInv
  <2>3. \A h \in pending' : /\ granted'[h].user = None /\ granted'[h].client \in Client
                            /\ granted'[h].res \in Resource
    BY <1>3, <2>1 DEF TokensInv, GrantInv
  <2>4. \A h \in Authority' \cup ended' : granted'[h].user # None
    BY <1>3, <1>4, <1>5 DEF TokensInv, GrantInv
  <2>5. \A h \in Grant : IF granted'[h].user = None
                         THEN pairs'[h] = 0
                         ELSE granted'[h].client \in Client /\ granted'[h].res \in Resource
    BY <1>1, <1>3, <1>4 DEF TokensInv, GrantInv
  <2>6. \A k \in access' : k[2] <= pairs'[k[1]]
    BY <1>4 DEF TokensInv, GrantInv
  <2> QED BY <2>2, <2>3, <2>4, <2>5, <2>6 DEF GrantInv
<1> QED BY <1>9, <1>10, <1>11, <1>12 DEF Stands

\* The first pair of a family, in the place of its code ...
LEMMA ExchangeStands ==
  ASSUME TokensInv, NEW g \in Grant, NEW bound \in BOOLEAN, ExchangeCode(g, bound) PROVE Stands
<1> USE DEF ExchangeCode
<1>1. UNCHANGED <<accounts, devices, granted, ended>> /\ g \in codes /\ g \in Authority
  BY AuthorityIs
<1>2. CASE UNCHANGED pairs /\ CleanUp(pending, codes \ {g}, access, refresh, refreshUsed)
  <2>1. Shrinks
    BY <1>1, <1>2, CleanersShrink DEF grants
  <2> QED BY <1>1, <2>1, StandsOnTheSame DEF accounts
<1>3. CASE IssuePair(g) /\ CleanUp(pending, codes \ {g}, access \cup {Pair(g)},
                                   refresh \cup {Pair(g)}, refreshUsed)
  <2> HIDE DEF ExchangeCode
  <2>1. pairs[g] = 0 /\ Pair(g) = <<g, 1>>
    BY <1>1 DEF TokensInv, SingleHead, Pair
  <2>2. pairs' = [pairs EXCEPT ![g] = 1] /\ pairs'[g] = 1
    BY <1>3, <2>1 DEF IssuePair, TokensInv, RecordsIntact, TokensTypeOK
  <2>3. /\ codes' \subseteq codes \ {g} /\ access' \subseteq access \cup {<<g, 1>>}
        /\ refresh' \subseteq refresh \cup {<<g, 1>>} /\ refreshUsed' \subseteq refreshUsed
        /\ pending' \subseteq pending
    BY <1>3, <2>1, CleanUpLeaves DEF CleanUp
  <2>4. \A k \in access \cup refresh \cup refreshUsed : k[1] # g /\ k[1] \in Grant
    BY <1>1, FamilyHasNoCode
  <2>5. Authority' \subseteq Authority
    BY <1>1, <2>3, AuthorityIs, AuthorityIsNext
  <2>6. SingleHead'
    BY <2>2, <2>3, <2>4 DEF TokensInv, RecordsIntact, TokensTypeOK, SingleHead
  <2>7. EndedStaysEnded'
    BY <1>1, <2>5 DEF TokensInv, EndedStaysEnded
  <2>8. GrantInv'
    <3>1. granted[g].user # None
      BY <1>1 DEF TokensInv, GrantInv
    <3>2. \A k \in access' : k[2] <= pairs'[k[1]]
      BY <2>2, <2>3, <2>4 DEF TokensInv, GrantInv
    <3>3. \A h \in Grant : granted[h].user = None => pairs'[h] = 0
      BY <2>2, <3>1 DEF TokensInv, GrantInv
    <3> QED BY <1>1, <2>3, <2>5, <3>2, <3>3 DEF TokensInv, GrantInv
  <2> QED BY <1>1, <2>5, <2>6, <2>7, <2>8, Unmoved DEF Stands
<1> QED BY <1>2, <1>3

\* ... and the next one, in the place of its live refresh token.
LEMMA RotateStands == ASSUME TokensInv, NEW k \in Key, Rotate(k) PROVE Stands
<1> DEFINE g == k[1]
<1>1. /\ UNCHANGED <<accounts, devices, granted, ended>> /\ k \in refresh
      /\ IssuePair(g) /\ CleanUp(pending, codes, access \cup {Pair(g)},
                                 (refresh \ {k}) \cup {Pair(g)}, refreshUsed \cup {k})
  BY DEF Rotate
<1>2. g \in Grant /\ g \notin codes /\ g \in Authority
  BY <1>1, FamilyHasNoCode
<1>3. pairs[g] \in Nat /\ k = <<g, pairs[g]>> /\ Pair(g) = <<g, pairs[g] + 1>>
  BY <1>1, <1>2 DEF Key, Pair, TokensInv, RecordsIntact, TokensTypeOK, SingleHead
<1>4. pairs'[g] = pairs[g] + 1 /\ \A h \in Grant \ {g} : pairs'[h] = pairs[h]
  BY <1>1, <1>2 DEF IssuePair, TokensInv, RecordsIntact, TokensTypeOK
<1>5. /\ codes' \subseteq codes /\ access' \subseteq access \cup {Pair(g)}
      /\ refresh' \subseteq (refresh \ {k}) \cup {Pair(g)} /\ refreshUsed' \subseteq refreshUsed \cup {k}
      /\ pending' \subseteq pending
  BY <1>1, CleanUpLeaves DEF CleanUp
<1>6. \A h \in access \cup refresh \cup refreshUsed : h = <<h[1], h[2]>> /\ h[1] \in Grant /\ h[2] \in Nat
  BY DEF Key, TokensInv, RecordsIntact, TokensTypeOK
<1>7. \A h \in refresh \ {k} : h[1] # g
  BY <1>3, <1>6 DEF TokensInv, SingleHead
<1>8. Authority' \subseteq Authority
  BY <1>1, <1>2, <1>3, <1>5, AuthorityIs, AuthorityIsNext
<1> HIDE DEF g
<1>9. SingleHead'
  <2>1. \A h \in codes' : pairs'[h] = 0
    BY <1>2, <1>4, <1>5 DEF TokensInv, SingleHead, GrantInv, RecordsIntact, TokensTypeOK
  <2>2. \A h \in refresh' : h[2] = pairs'[h[1]]
    BY <1>3, <1>4, <1>5, <1>6, <1>7 DEF TokensInv, SingleHead
  <2>3. ASSUME NEW h \in refreshUsed' PROVE h[2] < pairs'[h[1]]
    <3>1. CASE h = k
      BY <1>3, <1>4, <3>1
    <3>2. CASE h \in refreshUsed
      <4>1. h[2] < pairs[h[1]] /\ h[1] \in Grant /\ h[2] \in Nat
        BY <1>6, <3>2 DEF TokensInv, SingleHead
      <4> QED BY <1>3, <1>4, <4>1
    <3> QED BY <1>5, <2>3, <3>1, <3>2
  <2> QED BY <2>1, <2>2, <2>3 DEF SingleHead
<1>10. EndedStaysEnded'
  BY <1>1, <1>8 DEF TokensInv, EndedStaysEnded
<1>11. GrantInv'
  <2>1. granted[g].user # None
    BY <1>2 DEF TokensInv, GrantInv
  <2>2. ASSUME NEW h \in access' PROVE h[2] <= pairs'[h[1]]
    <3>1. CASE h = Pair(g)
      BY <1>3, <1>4, <3>1
    <3>2. CASE h \in access
      <4>1. h[2] <= pairs[h[1]] /\ h[1] \in Grant /\ h[2] \in Nat
        BY <1>6, <3>2 DEF TokensInv, GrantInv
      <4> QED BY <1>3, <1>4, <4>1
    <3> QED BY <1>5, <2>2, <3>1, <3>2
  <2>3. \A h \in Grant : granted[h].user = None => pairs'[h] = 0
    BY <1>4, <2>1 DEF TokensInv, GrantInv
  <2> QED BY <1>1, <1>5, <1>8, <2>2, <2>3 DEF TokensInv, GrantInv
<1> QED BY <1>1, <1>8, <1>9, <1>10, <1>11, Unmoved DEF Stands

-----------------------------------------------------------------------------
(* The invariant.                                                          *)

\* Every step leaves the authority that it should.
LEMMA StepStands == ASSUME TokensInv, [TokensNext]_tokensVars PROVE Stands
<1>1. CASE UNCHANGED tokensVars
  <2>1. Shrinks /\ UNCHANGED <<users, password, clients, devices>>
    BY <1>1 DEF tokensVars, Shrinks, accounts, asking, tokens, grants
  <2> QED BY <2>1, StandsOnTheSame
<1>2. CASE Ask
  BY <1>2, CleaningStands, AuthorizeStands, CommitStands DEF Ask
<1>3. CASE TokenEndpoint
  BY <1>3, CleaningStands, ExchangeStands, RotateStands DEF TokenEndpoint
<1>4. ASSUME NEW d \in Device, RevokeDevice(d) PROVE Stands
  BY <1>4, RetireStands DEF RevokeDevice
<1>5. ASSUME NEW u \in User, DeleteUser(u) PROVE Stands
  <2>1. \A v \in User \ {u} : users'[v] = users[v]
    BY <1>5 DEF DeleteUser, TokensInv, RecordsIntact, TokensTypeOK
  <2> QED BY <1>5, <2>1, RetireStands DEF DeleteUser
<1>6. CASE Administer
  BY <1>4, <1>5, <1>6, CleaningStands, RevokeClientStands, DisableDeviceStands, UserStands DEF Administer
<1>7. CASE Restart
  BY <1>7, CleaningStands
<1> QED BY <1>1, <1>2, <1>3, <1>6, <1>7 DEF TokensNext

\* Types, of the records that are left by a clean-up, ...
LEMMA CleanTypes ==
  ASSUME NEW asked \in SUBSET Grant, NEW coded \in SUBSET Grant, NEW acc \in SUBSET Key,
         NEW ref \in SUBSET Key, NEW used \in SUBSET Key, CleanUp(asked, coded, acc, ref, used)
  PROVE  {pending, codes}' \subseteq SUBSET Grant /\ {access, refresh, refreshUsed}' \subseteq SUBSET Key
BY DEF CleanUp, CleanGrants

\* ... of the handlers that ask, ...
LEMMA AskTypes == ASSUME TokensTypeOK, Ask PROVE TokensTypeOK'
<1> USE DEF TokensTypeOK, accounts, devices, asking, tokens, grants
<1>1. ASSUME NEW c \in Client, Register(c) \/ ForgetClient(c) PROVE TokensTypeOK'
  <2>1. {pending, codes}' \subseteq SUBSET Grant /\ {access, refresh, refreshUsed}' \subseteq SUBSET Key
    BY <1>1, CleanTypes DEF Register, ForgetClient
  <2>2. clients' \in [Client -> {"none", "registered", "approved", "deleted"}]
    BY <1>1 DEF Register, ForgetClient
  <2>3. UNCHANGED <<users, password, devices, off, posts, grants, ended>>
    BY <1>1 DEF Register, ForgetClient
  <2> QED BY <2>1, <2>2, <2>3
<1>2. ASSUME NEW g \in Grant, NEW c \in Client, NEW r \in Resource, Authorize(g, c, r)
      PROVE  TokensTypeOK'
  <2>1. {pending, codes}' \subseteq SUBSET Grant /\ {access, refresh, refreshUsed}' \subseteq SUBSET Key
    BY <1>2 DEF Authorize, CleanGrants
  <2>2. granted' \in [Grant -> [client : Client \cup {None}, res : Resource \cup {NoResource},
                                user : User \cup {None}, login : 0..MaxRotation,
                                password : 0..MaxRotation]]
    <3>1. granted' = [granted EXCEPT ![g] = [@ EXCEPT !.client = c, !.res = r]]
      BY <1>2 DEF Authorize
    <3>2. [granted[g] EXCEPT !.client = c, !.res = r] \in
            [client : Client \cup {None}, res : Resource \cup {NoResource}, user : User \cup {None},
             login : 0..MaxRotation, password : 0..MaxRotation]
      <4>1. granted[g] \in
              [client : Client \cup {None}, res : Resource \cup {NoResource}, user : User \cup {None},
               login : 0..MaxRotation, password : 0..MaxRotation]
        OBVIOUS
      <4> HIDE DEF TokensTypeOK
      <4> QED BY <4>1
    <3> QED BY <3>1, <3>2
  <2>3. UNCHANGED <<accounts, devices, off, posts, pairs, ended>>
    BY <1>2 DEF Authorize
  <2> QED BY <2>1, <2>2, <2>3
<1>3. ASSUME NEW g \in Grant, NEW u \in User, Decide(g, u) PROVE TokensTypeOK'
  <2>1. {pending, codes}' \subseteq SUBSET Grant /\ {access, refresh, refreshUsed}' \subseteq SUBSET Key
    BY <1>3, CleanTypes DEF Decide
  <2>2. posts' \subseteq Grant \X User \X (0..MaxRotation)
    BY <1>3 DEF Decide
  <2>3. UNCHANGED <<accounts, devices, off, grants, ended>>
    BY <1>3 DEF Decide
  <2> QED BY <2>1, <2>2, <2>3
<1>4. ASSUME NEW g \in Grant, NEW u \in User, NEW n \in 0..MaxRotation, Commit(g, u, n)
      PROVE  TokensTypeOK'
  <2>1. granted' \in [Grant -> [client : Client \cup {None}, res : Resource \cup {NoResource},
                                user : User \cup {None}, login : 0..MaxRotation,
                                password : 0..MaxRotation]]
    <3>1. granted' = [granted EXCEPT ![g] = [@ EXCEPT !.user = u, !.login = n, !.password = password[u]]]
      BY <1>4 DEF Commit
    <3>2. [granted[g] EXCEPT !.user = u, !.login = n, !.password = password[u]] \in
            [client : Client \cup {None}, res : Resource \cup {NoResource}, user : User \cup {None},
             login : 0..MaxRotation, password : 0..MaxRotation]
      <4>1. granted[g] \in
              [client : Client \cup {None}, res : Resource \cup {NoResource}, user : User \cup {None},
               login : 0..MaxRotation, password : 0..MaxRotation]
        OBVIOUS
      <4>2. password[u] \in 0..MaxRotation
        OBVIOUS
      <4> HIDE DEF TokensTypeOK
      <4> QED BY <4>1, <4>2
    <3> QED BY <3>1, <3>2
  <2>2. {owner, claimed}' \subseteq [Device -> User \cup {None}]
    <3> DEFINE r == granted[g].res
    <3>1. {owner, claimed} \subseteq [Device -> User \cup {None}] /\ Claim(u, r)
      BY <1>4 DEF Commit
    <3> HIDE DEF r, TokensTypeOK
    <3> QED BY <3>1 DEF Claim
  <2>3. clients' \in [Client -> {"none", "registered", "approved", "deleted"}]
    BY <1>4 DEF Commit
  <2>4. /\ {pending, codes}' \subseteq SUBSET Grant /\ posts' \subseteq posts
        /\ UNCHANGED <<users, password, disabled, retired, off, tokens, pairs, ended>>
    BY <1>4 DEF Commit
  <2> QED BY <2>1, <2>2, <2>3, <2>4
<1>5. ASSUME NEW g \in Grant, NEW u \in User, NEW n \in 0..MaxRotation, CommitFails(g, u, n)
      PROVE  TokensTypeOK'
  BY <1>5 DEF CommitFails
<1>6. ASSUME NEW g \in Grant, Withdraw(g) PROVE TokensTypeOK'
  BY <1>6 DEF Withdraw
<1> QED BY <1>1, <1>2, <1>3, <1>4, <1>5, <1>6 DEF Ask

\* ... of the token endpoint and of a restart, ...
LEMMA TokenTypes == ASSUME TokensTypeOK, TokenEndpoint \/ Restart PROVE TokensTypeOK'
<1> USE DEF TokensTypeOK, CleanUp, CleanGrants, accounts, devices, asking, tokens, grants
<1>1. ASSUME NEW g \in Grant, pairs[g] < MaxPair PROVE Pair(g) \in Key /\ pairs[g] + 1 \in 0..MaxPair
  BY <1>1 DEF Pair, Key
<1>2. ASSUME NEW g \in Grant, NEW bound \in BOOLEAN, ExchangeCode(g, bound) PROVE TokensTypeOK'
  BY <1>1, <1>2 DEF ExchangeCode, IssuePair
<1>3. ASSUME NEW k \in Key, Rotate(k) PROVE TokensTypeOK'
  <2>1. k[1] \in Grant
    BY DEF Key
  <2> QED BY <1>1, <1>3, <2>1 DEF Rotate, IssuePair
<1>4. ASSUME NEW k \in Key, RotateRefused(k) \/ Replay(k) \/ Revoke(k) PROVE TokensTypeOK'
  <2>1. k[1] \in Grant
    BY DEF Key
  <2>2. CASE RotateRefused(k)
    BY <2>2 DEF RotateRefused
  <2>3. CASE Replay(k)
    BY <2>1, <2>3 DEF Replay
  <2>4. CASE Revoke(k)
    BY <2>1, <2>4 DEF Revoke, Drop
  <2> QED BY <1>4, <2>2, <2>3, <2>4
<1>5. CASE ExpireOne
  <2>1. PICK asked, coded, acc, ref, used : Expire(asked, coded, acc, ref, used)
    BY <1>5 DEF ExpireOne
  <2> QED BY <2>1 DEF Expire
<1>6. CASE Restart
  BY <1>6 DEF Restart
<1> QED BY <1>2, <1>3, <1>4, <1>5, <1>6 DEF TokenEndpoint

\* ... and of the administration.
LEMMA AdministerTypes == ASSUME TokensTypeOK, Administer PROVE TokensTypeOK'
<1> USE DEF TokensTypeOK, Drop, accounts, devices, asking, tokens, grants
<1>1. ASSUME NEW c \in Client, RevokeClient(c) PROVE TokensTypeOK'
  BY <1>1 DEF RevokeClient, OfClient
<1>2. ASSUME NEW d \in Device, DisableDevice(d) \/ EnableDevice(d) PROVE TokensTypeOK'
  <2>1. CASE DisableDevice(d)
    BY <2>1 DEF DisableDevice, OfDevice
  <2>2. CASE EnableDevice(d)
    BY <2>2 DEF EnableDevice
  <2> QED BY <1>2, <2>1, <2>2
<1>3. ASSUME NEW D \in SUBSET Device, NEW U \in SUBSET User, Retire(D, U),
             users' \in [User -> {"active", "disabled", "deleted"}]
      PROVE  TokensTypeOK'
  <2> DEFINE gone == {c \in Client : DeviceOf[c] \in D /\ clients[c] \in {"registered", "approved"}}
             on   == UNION ({OfDevice(d) : d \in D} \cup {OfClient(c) : c \in gone})
             all  == on \cup UNION {OfUser(u) : u \in U}
  <2>1. /\ retired' = retired \cup D /\ disabled' = disabled \ D
        /\ owner' = [d \in Device |-> IF d \in D THEN None ELSE owner[d]]
        /\ clients' = [c \in Client |-> IF c \in gone THEN "deleted" ELSE clients[c]]
        /\ pending' = pending \ on /\ codes' = codes \ all
        /\ Drop(all)
        /\ UNCHANGED <<password, claimed, off, posts, grants>>
    BY <1>3 DEF Retire
  <2>2. all \subseteq Grant
    BY DEF OfDevice, OfClient, OfUser
  <2> HIDE DEF gone, on, all
  <2> QED BY <1>3, <2>1, <2>2
<1>4. ASSUME NEW d \in Device, RevokeDevice(d) PROVE TokensTypeOK'
  BY <1>3, <1>4 DEF RevokeDevice
<1>5. ASSUME NEW u \in User, DeleteUser(u) PROVE TokensTypeOK'
  <2>1. users' \in [User -> {"active", "disabled", "deleted"}]
    BY <1>5 DEF DeleteUser
  <2>2. Retire({d \in Device : owner[d] = u}, {u})
    BY <1>5 DEF DeleteUser
  <2>3. {d \in Device : owner[d] = u} \in SUBSET Device /\ {u} \in SUBSET User
    OBVIOUS
  <2> HIDE DEF TokensTypeOK
  <2> QED BY <1>3, <2>1, <2>2, <2>3
<1>6. ASSUME NEW u \in User, DisableUser(u) \/ EnableUser(u) \/ RotatePassword(u) PROVE TokensTypeOK'
  <2>1. CASE EnableUser(u)
    BY <2>1 DEF EnableUser
  <2>2. CASE DisableUser(u)
    BY <2>2 DEF DisableUser, RevokeUser, OfUser
  <2>3. CASE RotatePassword(u)
    BY <2>3 DEF RotatePassword, RevokeUser, OfUser
  <2> QED BY <1>6, <2>1, <2>2, <2>3
<1>7. ASSUME NEW s \in Switch, NEW on \in BOOLEAN, SetSwitch(s, on) PROVE TokensTypeOK'
  BY <1>7 DEF SetSwitch
<1> QED BY <1>1, <1>2, <1>4, <1>5, <1>6, <1>7 DEF Administer

\* The invariant holds in every state.
THEOREM TokensInvariant == TokensSpec => []TokensInv
<1>1. TokensInit => TokensInv
  <2> SUFFICES ASSUME TokensInit PROVE TokensInv
    OBVIOUS
  <2> USE DEF TokensInit
  <2>1. TokensTypeOK
    BY DEF TokensTypeOK, NoGrant, NoResource
  <2>2. Authority = {}
    BY DEF Authority
  <2> QED BY <2>1, <2>2 DEF TokensInv, RecordsIntact, GrantInv, SingleHead, EndedStaysEnded,
          RotationEnds, DeviceKeepsOwner, NoGrant
<1>2. TokensInv /\ [TokensNext]_tokensVars => TokensInv'
  <2> SUFFICES ASSUME TokensInv, [TokensNext]_tokensVars PROVE TokensInv'
    OBVIOUS
  <2>1. TokensTypeOK'
    <3>1. TokensTypeOK
      BY DEF TokensInv, RecordsIntact
    <3>2. CASE UNCHANGED tokensVars
      BY <3>1, <3>2 DEF TokensTypeOK, tokensVars, accounts, devices, asking, tokens, grants
    <3> QED BY <3>1, <3>2, AskTypes, TokenTypes, AdministerTypes DEF TokensNext
  <2>2. Stands
    BY StepStands
  <2> QED BY <2>1, <2>2 DEF Stands, TokensInv, RecordsIntact, RotationEnds
<1> QED BY <1>1, <1>2, PTL DEF TokensSpec

-----------------------------------------------------------------------------
\* cleanupLocked never finds a code or a token of a client, account or device that
\* was taken away: what withdraws authority removes its records itself.
THEOREM AuthorityIsIntact == TokensSpec => []RecordsIntact
BY TokensInvariant, PTL DEF TokensInv

\* Of a family of tokens only the last refresh token is live, and its code is used:
\* what issueTokensInFamilyLocked and exchangeRefresh add takes the place of one record.
THEOREM FamiliesHaveOneHead == TokensSpec => []SingleHead
BY TokensInvariant, PTL DEF TokensInv

\* A replayed refresh token, a revoked one and what an administrator withdraws never
\* authorize again, whatever is issued, restored or restarted after.
THEOREM RevocationIsFinal == TokensSpec => []EndedStaysEnded
BY TokensInvariant, PTL DEF TokensInv

\* No grant that was committed before a password change outlives it: rotation
\* revokes with the mutex that the commit takes.
THEOREM PasswordEndsGrants == TokensSpec => []RotationEnds
BY TokensInvariant, PTL DEF TokensInv

\* The first account that claims a device keeps it, until it is retired, and then
\* nobody owns it.
THEOREM FirstOwnerStays == TokensSpec => []DeviceKeepsOwner
BY TokensInvariant, PTL DEF TokensInv

\* A step that changes what a request was granted as takes one that waits, and only
\* Commit adds a code.
LEMMA StepDecidesOnce ==
  ASSUME TokensInv, [TokensNext]_tokensVars, NEW g \in Grant, granted[g].user # None
  PROVE  granted'[g] = granted[g] /\ (g \in codes' => g \in codes)
<1>1. g \notin pending /\ granted[g] # NoGrant
  BY DEF TokensInv, GrantInv, NoGrant
<1>2. ASSUME NEW h \in Grant, NEW c \in Client, NEW r \in Resource, Authorize(h, c, r)
      PROVE  granted'[g] = granted[g] /\ codes' \subseteq codes
  <2>1. h # g
    BY <1>1, <1>2 DEF Authorize
  <2> QED BY <1>2, <2>1 DEF Authorize, CleanGrants, TokensInv, RecordsIntact, TokensTypeOK
<1>3. ASSUME NEW h \in Grant, NEW u \in User, NEW n \in 0..MaxRotation, Commit(h, u, n)
      PROVE  granted'[g] = granted[g] /\ codes' \subseteq codes \cup {h} /\ h # g
  <2>1. h # g
    BY <1>1, <1>3 DEF Commit
  <2> QED BY <1>3, <2>1 DEF Commit, TokensInv, RecordsIntact, TokensTypeOK
<1>4. CASE Ask
  <2>1. ASSUME NEW c \in Client, Register(c) \/ ForgetClient(c)
        PROVE  UNCHANGED granted /\ codes' \subseteq codes
    BY <2>1 DEF Register, ForgetClient, CleanUp, CleanGrants, grants
  <2>2. ASSUME NEW h \in Grant, NEW u \in User, Withdraw(h) \/ Decide(h, u)
        PROVE  UNCHANGED granted /\ codes' \subseteq codes
    BY <2>2 DEF Withdraw, Decide, CleanUp, CleanGrants, grants
  <2>3. ASSUME NEW h \in Grant, NEW u \in User, NEW n \in 0..MaxRotation, CommitFails(h, u, n)
        PROVE  UNCHANGED granted /\ codes' \subseteq codes
    BY <2>3 DEF CommitFails, grants
  <2>4. ASSUME NEW h \in Grant, Withdraw(h) PROVE UNCHANGED granted /\ codes' \subseteq codes
    BY <2>4 DEF Withdraw, grants
  <2> QED BY <1>2, <1>3, <1>4, <2>1, <2>2, <2>3, <2>4 DEF Ask
<1>5. CASE TokenEndpoint
  <2>1. ASSUME NEW k \in Key, Rotate(k) \/ RotateRefused(k) \/ Replay(k) \/ Revoke(k)
        PROVE  UNCHANGED granted /\ codes' \subseteq codes
    BY <2>1 DEF Rotate, RotateRefused, Replay, Revoke, CleanUp, CleanGrants, grants
  <2>2. ASSUME NEW h \in Grant, NEW bound \in BOOLEAN, ExchangeCode(h, bound)
        PROVE  UNCHANGED granted /\ codes' \subseteq codes
    BY <2>2 DEF ExchangeCode, CleanUp, CleanGrants
  <2>3. CASE ExpireOne
    <3>1. PICK asked, coded, acc, ref, used : Expire(asked, coded, acc, ref, used)
      BY <2>3 DEF ExpireOne
    <3> QED BY <3>1 DEF Expire, CleanUp, CleanGrants, grants
  <2> QED BY <1>5, <2>1, <2>2, <2>3 DEF TokenEndpoint
<1>6. CASE Administer
  <2> USE DEF RevokeUser, grants
  <2>1. ASSUME NEW D, NEW U, Retire(D, U) PROVE UNCHANGED granted /\ codes' \subseteq codes
    BY <2>1 DEF Retire
  <2>2. ASSUME NEW c \in Client, RevokeClient(c) PROVE UNCHANGED granted /\ codes' \subseteq codes
    BY <2>2 DEF RevokeClient
  <2>3. ASSUME NEW d \in Device, DisableDevice(d) \/ EnableDevice(d) \/ RevokeDevice(d)
        PROVE  UNCHANGED granted /\ codes' \subseteq codes
    BY <2>1, <2>3 DEF DisableDevice, EnableDevice, RevokeDevice
  <2>4. ASSUME NEW u \in User, DisableUser(u) \/ EnableUser(u) \/ DeleteUser(u) \/ RotatePassword(u)
        PROVE  UNCHANGED granted /\ codes' \subseteq codes
    BY <2>1, <2>4 DEF DisableUser, EnableUser, DeleteUser, RotatePassword
  <2>5. ASSUME NEW s \in Switch, NEW on \in BOOLEAN, SetSwitch(s, on)
        PROVE  UNCHANGED granted /\ codes' \subseteq codes
    BY <2>5 DEF SetSwitch
  <2> QED BY <1>6, <2>2, <2>3, <2>4, <2>5 DEF Administer
<1>7. CASE Restart
  BY <1>7 DEF Restart, CleanUp, CleanGrants, grants
<1>8. CASE UNCHANGED tokensVars
  BY <1>8 DEF tokensVars, grants
<1> QED BY <1>4, <1>5, <1>6, <1>7, <1>8 DEF TokensNext

\* grantAuthorization consumes the request under the mutex that it looks it up with:
\* of the decisions that were under way, one commits, and nothing decides again.
THEOREM RequestIsDecidedOnce == TokensSpec => DecidedOnce
<1>1. TokensInv /\ [TokensNext]_tokensVars =>
        [\A g \in Grant : granted[g].user # None =>
           granted'[g] = granted[g] /\ (g \in codes' => g \in codes)]_tokensVars
  BY StepDecidesOnce
<1> QED BY <1>1, TokensInvariant, PTL DEF TokensSpec, DecidedOnce
=============================================================================
