---------------------------- MODULE OAuthTokens ----------------------------
(***************************************************************************)
(* Grants, codes and token families of the Relay's OAuth server            *)
(* (internal/oauthserver).  A grant is one authorization request: it waits *)
(* for the owner's decision, becomes a one-time code, then a family of     *)
(* rotating access and refresh tokens.  Users, clients, devices and the    *)
(* switches that its authority rests on change at any time.                *)
(*                                                                         *)
(* Each handler runs under the server mutex, and its save succeeds (what a *)
(* failed save does is AuthzStore's subject).  The decision on a request   *)
(* takes the mutex twice: to find who decides, and to commit.              *)
(***************************************************************************)
EXTENDS Integers, FiniteSets

CONSTANTS
  User,         \* accounts, none of them the acting administrator
  Device,       \* immutable device ids
  Client,       \* ids of OAuth clients, each registered once
  Grant,        \* ids of authorization requests
  DeviceOf,     \* the device whose key a client proved, or None
  Switch,       \* the global switches used: "all", "mcp", "agent"
  MaxPair,      \* bound: token pairs issued in one family
  MaxRotation,  \* bound: password changes of a user
  None

ASSUME DeviceOfAssumption == DeviceOf \in [Client -> Device \cup {None}]
ASSUME SwitchAssumption == Switch \subseteq {"all", "mcp", "agent"}
ASSUME NoneAssumption == None \notin User \cup Device \cup Client
ASSUME BoundAssumption == MaxPair \in Nat \ {0} /\ MaxRotation \in Nat

VARIABLES
  users,       \* "active", "disabled" or "deleted"
  password,    \* how often the user's password was changed
  clients,     \* "none", "registered", "approved" or "deleted"
  owner,       \* devices, with the owner of deviceRecords
  disabled,    \* disabledDevices
  retired,     \* retiredDevices
  off,         \* switches that deny: killSwitch, not mcpEnabled, not agentEnabled
  pending,     \* requests that wait for a decision
  posts,       \* decisions between finding the user and the commit
  codes,       \* grants whose authorization code was not used
  access,      \* keys of access tokens,
  refresh,     \* of refresh tokens, and
  refreshUsed, \* of refresh tokens that were rotated
  granted,     \* what a request asked for, and who granted it
  pairs,       \* the number of token pairs issued for a grant
  \* History; the code does not keep it.
  ended,       \* grants that were revoked
  claimed      \* the first owner of a device

accounts == <<users, password, clients>>
devices  == <<owner, disabled, retired, claimed>>
asking   == <<pending, posts>>
tokens   == <<access, refresh, refreshUsed>>
grants   == <<granted, pairs>>
tokensVars     == <<accounts, devices, off, asking, codes, tokens, grants, ended>>

Kind     == {"mcp", "agent"}
Resource == {r \in [kind : Kind, device : Device \cup {None}] :
               r.kind = "agent" => r.device # None}

\* A token is the n-th of its kind in the family of a grant.
Key == Grant \X (1..MaxPair)

NoResource == [kind |-> "none", device |-> None]
NoGrant == [client |-> None, res |-> NoResource, user |-> None, login |-> 0, password |-> 0]

TokensTypeOK ==
  /\ users \in [User -> {"active", "disabled", "deleted"}]
  /\ password \in [User -> 0..MaxRotation]
  /\ clients \in [Client -> {"none", "registered", "approved", "deleted"}]
  /\ {owner, claimed} \subseteq [Device -> User \cup {None}]
  /\ disabled \subseteq Device /\ retired \subseteq Device /\ off \subseteq Switch
  /\ {pending, codes, ended} \subseteq SUBSET Grant
  /\ posts \subseteq Grant \X User \X (0..MaxRotation)
  /\ {access, refresh, refreshUsed} \subseteq SUBSET Key
  /\ granted \in [Grant -> [client : Client \cup {None}, res : Resource \cup {NoResource},
                            user : User \cup {None}, login : 0..MaxRotation,
                            password : 0..MaxRotation]]
  /\ pairs \in [Grant -> 0..MaxPair]

TokensInit ==
  /\ users = [u \in User |-> "active"] /\ password = [u \in User |-> 0]
  /\ clients = [c \in Client |-> "none"]
  /\ owner = [d \in Device |-> None] /\ claimed = [d \in Device |-> None]
  /\ disabled = {} /\ retired = {} /\ off = {}
  /\ pending = {} /\ posts = {} /\ codes = {}
  /\ access = {} /\ refresh = {} /\ refreshUsed = {}
  /\ granted = [g \in Grant |-> NoGrant] /\ pairs = [g \in Grant |-> 0]
  /\ ended = {}

-----------------------------------------------------------------------------
(* What authority rests on.                                                *)

\* resourceOwnershipIntactLocked: nothing but a global switch may deny it.
Intact(u, r) ==
  /\ users[u] = "active"
  /\ r.device # None => r.device \notin disabled \cup retired /\ owner[r.device] = u

SwitchedOff(kind) == off \cap {"all", kind} # {}

\* resourceOwnedByUserLocked.
Usable(u, r) == Intact(u, r) /\ ~SwitchedOff(r.kind)

\* What cleanupLocked asks of a code or a token of grant g.
Kept(g) ==
  /\ clients[granted[g].client] = "approved"
  /\ Intact(granted[g].user, granted[g].res)

\* And of a request.
Askable(g) ==
  /\ clients[granted[g].client] # "deleted"
  /\ granted[g].res.device \notin disabled \cup retired

\* cleanupLocked of these codes and tokens, and of these requests.  A handler
\* that calls it looks only at what it leaves.
CleanGrants(coded, acc, ref, used) ==
  /\ codes' = {g \in coded : Kept(g)}
  /\ access' = {k \in acc : Kept(k[1])}
  /\ refresh' = {k \in ref : Kept(k[1])}
  /\ refreshUsed' = {k \in used : Kept(k[1])}

CleanUp(asked, coded, acc, ref, used) ==
  /\ pending' = {g \in asked : Askable(g)}
  /\ CleanGrants(coded, acc, ref, used)

\* Revocation of everything issued for the grants in G.
Drop(G) ==
  /\ access' = {k \in access : k[1] \notin G}
  /\ refresh' = {k \in refresh : k[1] \notin G}
  /\ refreshUsed' = {k \in refreshUsed : k[1] \notin G}
  /\ ended' = ended \cup {g \in G : granted[g].user # None}

-----------------------------------------------------------------------------
(* Clients and the authorization endpoint.                                 *)

\* handleRegister; the client may have proved a device key.
Register(c) ==
  /\ clients[c] = "none" /\ DeviceOf[c] \notin retired
  /\ clients' = [clients EXCEPT ![c] = "registered"]
  /\ CleanUp(pending, codes, access, refresh, refreshUsed)
  /\ UNCHANGED <<users, password, devices, off, posts, grants, ended>>

\* Within an hour a client must be approved; a full table drops it earlier.
ForgetClient(c) ==
  /\ clients[c] = "registered"
  /\ clients' = [clients EXCEPT ![c] = "deleted"]
  /\ CleanUp({g \in pending : granted[g].client # c}, codes, access, refresh, refreshUsed)
  /\ UNCHANGED <<users, password, devices, off, posts, grants, ended>>

\* A client bound to a device may ask for its Agent resource only, any other
\* client for MCP resources.
Authorize(g, c, r) ==
  /\ granted[g] = NoGrant /\ clients[c] \in {"registered", "approved"}
  /\ IF DeviceOf[c] = None THEN r.kind = "mcp"
                           ELSE r = [kind |-> "agent", device |-> DeviceOf[c]]
  /\ granted' = [granted EXCEPT ![g] = [@ EXCEPT !.client = c, !.res = r]]
  /\ pending' = {h \in pending : Askable(h)} \cup {g}
  /\ CleanGrants(codes, access, refresh, refreshUsed)
  /\ UNCHANGED <<accounts, devices, off, posts, pairs, ended>>

\* The request is denied, or fails five logins.
Withdraw(g) ==
  /\ g \in pending
  /\ pending' = pending \ {g}
  /\ UNCHANGED <<accounts, devices, off, posts, codes, tokens, grants, ended>>

\* handleAuthorizeDecisionPOST finds the user: by session, with a cleanup, or by a
\* login, whose session needs the password that was checked to be still in place.
Decide(g, u) ==
  /\ g \in pending /\ users[u] = "active"
  /\ posts' = posts \cup {<<g, u, password[u]>>}
  /\ CleanUp(pending, codes, access, refresh, refreshUsed) \/ UNCHANGED <<pending, codes, tokens>>
  /\ UNCHANGED <<accounts, devices, off, grants, ended>>

\* authorizeResourceLocked: an Agent may claim a device that has no owner.
MayGrant(u, r) ==
  /\ users[u] = "active" /\ ~SwitchedOff(r.kind)
  /\ r.device # None =>
       /\ r.device \notin retired \cup disabled
       /\ owner[r.device] = u \/ (r.kind = "agent" /\ owner[r.device] = None)

Claim(u, r) ==
  IF r.kind = "agent"
    THEN /\ owner' = [owner EXCEPT ![r.device] = u]
         /\ claimed' = [claimed EXCEPT ![r.device] = IF @ = None THEN u ELSE @]
    ELSE UNCHANGED <<owner, claimed>>

\* Variant: the request stays after it was granted.
CommitAgain(g, u, login) ==
  /\ <<g, u, login>> \in posts /\ g \in pending
  /\ posts' = posts \ {<<g, u, login>>}
  /\ clients[granted[g].client] # "deleted" /\ MayGrant(u, granted[g].res)
  /\ codes' = codes \cup {g}
  /\ clients' = [clients EXCEPT ![granted[g].client] = "approved"]
  /\ granted' = [granted EXCEPT ![g] = [@ EXCEPT !.user = u, !.login = login, !.password = password[u]]]
  /\ Claim(u, granted[g].res)
  /\ UNCHANGED <<users, password, disabled, retired, off, pending, tokens, pairs, ended>>

\* grantAuthorization, for the user found before.  Of that user it asks only
\* that the account is still active.
Commit(g, u, login) ==
  /\ <<g, u, login>> \in posts /\ g \in pending
  /\ posts' = posts \ {<<g, u, login>>}
  /\ clients[granted[g].client] # "deleted" /\ MayGrant(u, granted[g].res)
  /\ pending' = pending \ {g}
  /\ codes' = codes \cup {g}
  /\ clients' = [clients EXCEPT ![granted[g].client] = "approved"]
  /\ granted' = [granted EXCEPT ![g] = [@ EXCEPT !.user = u, !.login = login, !.password = password[u]]]
  /\ Claim(u, granted[g].res)
  /\ UNCHANGED <<users, password, disabled, retired, off, tokens, pairs, ended>>

\* The request has gone, its client was deleted, or the resource is refused.
CommitFails(g, u, login) ==
  /\ <<g, u, login>> \in posts
  /\ posts' = posts \ {<<g, u, login>>}
  /\ \/ g \notin pending /\ UNCHANGED pending
     \/ g \in pending /\ clients[granted[g].client] = "deleted" /\ pending' = pending \ {g}
     \/ /\ g \in pending /\ clients[granted[g].client] # "deleted"
        /\ ~MayGrant(u, granted[g].res)
        /\ UNCHANGED pending
  /\ UNCHANGED <<accounts, devices, off, codes, tokens, grants, ended>>

-----------------------------------------------------------------------------
(* The token endpoint.                                                     *)

\* The pair that issueTokensInFamilyLocked would add to a family.
Pair(g) == <<g, pairs[g] + 1>>

IssuePair(g) == pairs[g] < MaxPair /\ pairs' = [pairs EXCEPT ![g] = @ + 1]

\* Variant: the code goes only when its exchange fails.
ExchangeCodeKept(g, bound) ==
  /\ g \in codes /\ Kept(g)
  /\ IF bound /\ Usable(granted[g].user, granted[g].res)
       THEN IssuePair(g) /\ CleanUp(pending, codes, access \cup {Pair(g)},
                                refresh \cup {Pair(g)}, refreshUsed)
       ELSE UNCHANGED pairs /\ CleanUp(pending, codes \ {g}, access, refresh, refreshUsed)
  /\ UNCHANGED <<accounts, devices, off, posts, granted, ended>>

\* The code is used up before its binding to client, redirect URI, verifier
\* and resource is looked at (bound).
ExchangeCode(g, bound) ==
  /\ g \in codes /\ Kept(g)
  /\ IF bound /\ Usable(granted[g].user, granted[g].res)
       THEN IssuePair(g) /\ CleanUp(pending, codes \ {g}, access \cup {Pair(g)},
                                refresh \cup {Pair(g)}, refreshUsed)
       ELSE UNCHANGED pairs /\ CleanUp(pending, codes \ {g}, access, refresh, refreshUsed)
  /\ UNCHANGED <<accounts, devices, off, posts, granted, ended>>

\* exchangeRefresh: the live token is rotated ...
Rotate(k) ==
  LET g == k[1]
  IN  /\ k \in refresh /\ Kept(g) /\ Usable(granted[g].user, granted[g].res)
      /\ IssuePair(g)
      /\ CleanUp(pending, codes, access \cup {Pair(g)},
                 (refresh \ {k}) \cup {Pair(g)}, refreshUsed \cup {k})
      /\ UNCHANGED <<accounts, devices, off, posts, granted, ended>>

\* ... or, while a switch is off, dropped for good ...
RotateRefused(k) ==
  /\ k \in refresh /\ Kept(k[1]) /\ ~Usable(granted[k[1]].user, granted[k[1]].res)
  /\ CleanUp(pending, codes, access, refresh \ {k}, refreshUsed)
  /\ UNCHANGED <<accounts, devices, off, posts, grants, ended>>

\* Variant: only the tokens that were used go.
ReplayUsedOnly(k) ==
  /\ k \in refreshUsed /\ Kept(k[1])
  /\ CleanUp(pending, codes, access, refresh, refreshUsed \ {h \in Key : h[1] = k[1]})
  /\ ended' = ended \cup {k[1]}
  /\ UNCHANGED <<accounts, devices, off, posts, grants>>

\* ... and one that was rotated before ends its family.
Replay(k) ==
  /\ k \in refreshUsed /\ Kept(k[1])
  /\ LET family == {h \in Key : h[1] = k[1]}
     IN  CleanUp(pending, codes, access \ family, refresh \ family, refreshUsed \ family)
  /\ ended' = ended \cup {k[1]}
  /\ UNCHANGED <<accounts, devices, off, posts, grants>>

\* handleRevoke, revoke-token, revoke-family: by any token of the family.
Revoke(k) ==
  /\ k \in access \cup refresh \cup refreshUsed
  /\ Drop({k[1]})
  /\ UNCHANGED <<accounts, devices, off, asking, codes, grants>>

\* cleanupLocked in verifyAccessKey, on any request: something has expired.
Expire(asked, coded, acc, ref, used) ==
  /\ CleanUp(pending \ asked, codes \ coded, access \ acc, refresh \ ref, refreshUsed \ used)
  /\ UNCHANGED <<accounts, devices, off, posts, grants, ended>>

ExpireOne ==
  \/ \E g \in Grant : \/ g \in pending /\ Expire({g}, {}, {}, {}, {})
                      \/ g \in codes /\ Expire({}, {g}, {}, {}, {})
  \/ \E k \in Key : \/ k \in access /\ Expire({}, {}, {k}, {}, {})
                    \/ k \in refresh /\ Expire({}, {}, {}, {k}, {})
                    \/ k \in refreshUsed /\ Expire({}, {}, {}, {}, {k})
  \/ (\E g \in pending : ~Askable(g)) /\ Expire({}, {}, {}, {}, {})

-----------------------------------------------------------------------------
(* Administrators and owners withdraw authority, or give it back.          *)

OfClient(c) == {g \in Grant : granted[g].client = c}
OfDevice(d) == {g \in Grant : granted[g].res.device = d}
OfUser(u)   == {g \in Grant : granted[g].user = u}

RevokeClient(c) ==
  /\ clients[c] \in {"registered", "approved"}
  /\ clients' = [clients EXCEPT ![c] = "deleted"]
  /\ pending' = pending \ OfClient(c) /\ codes' = codes \ OfClient(c)
  /\ Drop(OfClient(c))
  /\ UNCHANGED <<users, password, devices, off, posts, grants>>

\* Variant: a disabled device keeps its tokens.
DisableDeviceOnly(d) ==
  /\ owner[d] # None
  /\ disabled' = disabled \cup {d}
  /\ UNCHANGED <<accounts, owner, retired, claimed, off, asking, codes, tokens, grants, ended>>

DisableDevice(d) ==
  /\ owner[d] # None
  /\ disabled' = disabled \cup {d}
  /\ pending' = pending \ OfDevice(d) /\ codes' = codes \ OfDevice(d)
  /\ Drop(OfDevice(d))
  /\ UNCHANGED <<accounts, owner, retired, claimed, off, posts, grants>>

EnableDevice(d) ==
  /\ owner[d] # None
  /\ disabled' = disabled \ {d}
  /\ UNCHANGED <<accounts, owner, retired, claimed, off, asking, codes, tokens, grants, ended>>

\* Retirement of the devices D and of the clients that proved their keys, with
\* all that hangs on either; of the account U as well, when it is deleted.
Retire(D, U) ==
  LET gone == {c \in Client : DeviceOf[c] \in D /\ clients[c] \in {"registered", "approved"}}
      on   == UNION ({OfDevice(d) : d \in D} \cup {OfClient(c) : c \in gone})
      all  == on \cup UNION {OfUser(u) : u \in U}
  IN  /\ retired' = retired \cup D /\ disabled' = disabled \ D
      /\ owner' = [d \in Device |-> IF d \in D THEN None ELSE owner[d]]
      /\ clients' = [c \in Client |-> IF c \in gone THEN "deleted" ELSE clients[c]]
      /\ pending' = pending \ on /\ codes' = codes \ all
      /\ Drop(all)
      /\ UNCHANGED <<password, claimed, off, posts, grants>>

RevokeDevice(d) ==
  /\ owner[d] # None
  /\ Retire({d}, {})
  /\ UNCHANGED users

\* revokeUserCredentialsLocked.  A request has no user before it is granted, so
\* none is withdrawn.
RevokeUser(u) == codes' = codes \ OfUser(u) /\ Drop(OfUser(u))

DisableUser(u) ==
  /\ users[u] # "deleted"
  /\ users' = [users EXCEPT ![u] = "disabled"]
  /\ RevokeUser(u)
  /\ UNCHANGED <<password, clients, devices, off, asking, grants>>

EnableUser(u) ==
  /\ users[u] # "deleted"
  /\ users' = [users EXCEPT ![u] = "active"]
  /\ UNCHANGED <<password, clients, devices, off, asking, codes, tokens, grants, ended>>

\* Variant: the devices of a deleted account are free again.
DeleteUserOnly(u) ==
  /\ users[u] # "deleted"
  /\ users' = [users EXCEPT ![u] = "deleted"]
  /\ owner' = [d \in Device |-> IF owner[d] = u THEN None ELSE owner[d]]
  /\ disabled' = {d \in disabled : owner[d] # u}
  /\ RevokeUser(u)
  /\ UNCHANGED <<password, clients, retired, claimed, off, asking, grants>>

DeleteUser(u) ==
  /\ users[u] # "deleted"
  /\ users' = [users EXCEPT ![u] = "deleted"]
  /\ Retire({d \in Device : owner[d] = u}, {u})

\* Variant: tokens go and codes stay.
RotatePasswordTokens(u) ==
  /\ users[u] = "active" /\ password[u] < MaxRotation
  /\ password' = [password EXCEPT ![u] = @ + 1]
  /\ Drop(OfUser(u) \ codes)
  /\ UNCHANGED <<users, clients, devices, off, asking, codes, grants>>

\* rotate-password, or changeOwnPassword of the user.
RotatePassword(u) ==
  /\ users[u] = "active" /\ password[u] < MaxRotation
  /\ password' = [password EXCEPT ![u] = @ + 1]
  /\ RevokeUser(u)
  /\ UNCHANGED <<users, clients, devices, off, asking, grants>>

\* set-kill-switch, set-mcp, set-agent: nothing is revoked.
SetSwitch(s, on) ==
  /\ off' = IF on THEN off \cup {s} ELSE off \ {s}
  /\ UNCHANGED <<accounts, devices, asking, codes, tokens, grants, ended>>

\* Requests and codes are not written to disk; load cleans up the rest.
Restart ==
  /\ posts' = {}
  /\ CleanUp({}, {}, access, refresh, refreshUsed)
  /\ UNCHANGED <<accounts, devices, off, grants, ended>>

-----------------------------------------------------------------------------
Ask ==
  \/ \E c \in Client : Register(c) \/ ForgetClient(c)
  \/ \E g \in Grant :
       \/ \E c \in Client, r \in Resource : Authorize(g, c, r)
       \/ Withdraw(g)
       \/ \E u \in User : Decide(g, u)
       \/ \E u \in User, n \in 0..MaxRotation : Commit(g, u, n) \/ CommitFails(g, u, n)

TokenEndpoint ==
  \/ \E g \in Grant, bound \in BOOLEAN : ExchangeCode(g, bound)
  \/ \E k \in Key : Rotate(k) \/ RotateRefused(k) \/ Replay(k) \/ Revoke(k)
  \/ ExpireOne

Administer ==
  \/ \E c \in Client : RevokeClient(c)
  \/ \E d \in Device : DisableDevice(d) \/ EnableDevice(d) \/ RevokeDevice(d)
  \/ \E u \in User : DisableUser(u) \/ EnableUser(u) \/ DeleteUser(u) \/ RotatePassword(u)
  \/ \E s \in Switch, on \in BOOLEAN : SetSwitch(s, on)

TokensNext == Ask \/ TokenEndpoint \/ Administer \/ Restart

TokensSpec == TokensInit /\ [][TokensNext]_tokensVars

-----------------------------------------------------------------------------
Authority == codes \cup {k[1] : k \in access \cup refresh \cup refreshUsed}

\* No code or token outlives what it rests on, its client, account or device:
\* giving any of these back never gives back what was granted before.
RecordsIntact == TokensTypeOK /\ \A g \in Authority : Kept(g)

\* A grant is a code or a family, and the one live refresh token of a family is
\* the last that was issued.
SingleHead ==
  /\ \A g \in codes : pairs[g] = 0
  /\ \A k \in refresh : k[2] = pairs[k[1]]
  /\ \A k \in refreshUsed : k[2] < pairs[k[1]]

\* What was revoked, by a replay, a token, an administrator or the owner, never
\* authorizes anything again.
EndedStaysEnded == Authority \cap ended = {}

\* A password change ends every grant committed before it.
RotationEnds == \A g \in Authority : granted[g].password = password[granted[g].user]

\* A device belongs to the account that claimed it first until it is retired, and
\* then to nobody, whatever requests were under way.
DeviceKeepsOwner ==
  \A d \in Device :
    /\ owner[d] \in {None, claimed[d]}
    /\ (owner[d] = None /\ claimed[d] # None) => d \in retired
    /\ d \in retired => owner[d] = None

\* A request is decided once: it is never granted to a second account, nor does
\* its code come back.
DecidedOnce ==
  [][\A g \in Grant : granted[g].user # None =>
       granted'[g] = granted[g] /\ (g \in codes' => g \in codes)]_tokensVars

\* What docs/account.md says of a password change, that it revokes the existing
\* credentials and browser sessions: the decision of a session found before the
\* change is still committed after it.
LoginIsCurrent == \A g \in Authority : granted[g].login = password[granted[g].user]
=============================================================================
