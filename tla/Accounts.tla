------------------------------ MODULE Accounts ------------------------------
(***************************************************************************)
(* Users, browser sessions, invites and the administrator's account actions *)
(* (internal/oauthserver: identity.go, account.go, invite.go, admin.go and  *)
(* the setup handler of web.go).                                            *)
(*                                                                          *)
(* A handler takes the server mutex several times: to find the user of its  *)
(* session, to look up and to re-check a verified password (which takes     *)
(* long, outside the mutex), to check that the session is fresh, and to     *)
(* apply and save.  Other handlers run between any two of them, and the     *)
(* save may fail or the process end.  Disk writes are AuthzStore's subject: *)
(* here a failed save leaves either version behind and latches `frozen'.    *)
(***************************************************************************)
EXTENDS Naturals, FiniteSets

CONSTANTS
  UserId,      \* random ids, each given to one account
  Name,        \* normalized user names
  NameOf,      \* the name the account with an id gets
  OwnerName,   \* OwnerUsername of the configuration
  Session,     \* handles of random session tokens
  Invite,      \* handles of random invite codes
  Visit,       \* requests in flight
  MaxHash,     \* bound: password hashes an account has in its life
  Nobody

ASSUME NameOfAssumption == NameOf \in [UserId -> Name] /\ OwnerName \in Name
ASSUME NobodyAssumption == Nobody \notin UserId \cup Session \cup Invite
ASSUME MaxHashAssumption == MaxHash \in Nat \ {0}

VARIABLES
  alive,      \* the Relay runs
  state,      \* its accounts in memory
  frozen,     \* persistenceFault
  ephemeral,  \* ephemeralSessions, which only a frozen process creates
  disk,       \* what the next process loads
  guardDirty, \* and whether it starts frozen
  visit,      \* the requests
  minted,     \* ids, handles and codes already generated
  \* History; the code does not keep it.
  ended,      \* logins whose session a saved action ended
  shown,      \* invites that were created with success
  spent       \* invites that expired, or that one tried to revoke, or whose
              \* account one tried to delete

stored       == <<disk, guardDirty>>
told         == <<ended, shown, spent>>
accountsVars == <<alive, state, frozen, ephemeral, stored, visit, minted, told>>

\* A hash is a version: rehashing salts, so no hash returns.  `invite' is a
\* history field: the invite the account was created with.
User   == [admin : BOOLEAN, disabled : BOOLEAN, hash : 1..MaxHash, invite : Invite \cup {Nobody}]
NoUser == [admin |-> FALSE, disabled |-> TRUE, hash |-> 0, invite |-> Nobody]

\* `hash' and `login' are history fields: the hash its login verified and the
\* handle that login created.
Browser   == [user : UserId, fresh : BOOLEAN, hash : 1..MaxHash, login : Session]
NoBrowser == [user |-> Nobody, fresh |-> FALSE, hash |-> 0, login |-> Nobody]

State == [users : [UserId -> User \cup {NoUser}], names : [Name -> UserId \cup {Nobody}],
          sessions : [Session -> Browser \cup {NoBrowser}], invites : SUBSET Invite,
          public : BOOLEAN, open : BOOLEAN]
Blank == [users |-> [u \in UserId |-> NoUser], names |-> [n \in Name |-> Nobody],
          sessions |-> [s \in Session |-> NoBrowser], invites |-> {},
          public |-> FALSE, open |-> FALSE]

\* `who' and `hash' are the user record its session led to, `seen' and
\* `seenHash' the one its password is verified against.
Visitor  == [at : {"acting", "verifying", "verified", "fresh"},
             who : UserId \cup {Nobody}, hash : 0..MaxHash, via : Session \cup {Nobody},
             seen : UserId \cup {Nobody}, seenHash : 0..MaxHash]
Idle     == [at |-> "idle", who |-> Nobody, hash |-> 0, via |-> Nobody,
             seen |-> Nobody, seenHash |-> 0]

AccountsTypeOK ==
  /\ alive \in BOOLEAN /\ frozen \in BOOLEAN /\ guardDirty \in BOOLEAN
  /\ {state, disk} \subseteq State
  /\ ephemeral \subseteq Session /\ minted \subseteq UserId \cup Session \cup Invite
  /\ visit \in [Visit -> Visitor \cup {Idle}]
  /\ ended \subseteq Session /\ shown \subseteq Invite /\ spent \subseteq Invite

\* A first start with a setup token: there is no state file yet.
AccountsInit ==
  /\ alive = TRUE /\ state = Blank /\ frozen = FALSE /\ ephemeral = {}
  /\ disk = Blank /\ guardDirty = FALSE
  /\ visit = [v \in Visit |-> Idle] /\ minted = {}
  /\ ended = {} /\ shown = {} /\ spent = {}

-----------------------------------------------------------------------------
(* The state and its saves.                                                 *)

Exists(m, u)   == u # Nobody /\ m.users[u] # NoUser
IsActive(m, u) == Exists(m, u) /\ ~m.users[u].disabled
Admins(m)      == {u \in UserId : IsActive(m, u) /\ m.users[u].admin}
Users(m)       == {u \in UserId : Exists(m, u)}
Live(m)        == {s \in Session : m.sessions[s] # NoBrowser}
Logins(m)      == {m.sessions[s].login : s \in Live(m)}

\* A record equals the one a request read before: the same live account with
\* the same password hash.
IsCurrent(u, h) == IsActive(state, u) /\ state.users[u].hash = h

WithUser(m, u, rec) == [m EXCEPT !.users[u] = rec, !.names[NameOf[u]] = u]
Without(m, S) ==
  [m EXCEPT !.sessions = [s \in Session |-> IF s \in S THEN NoBrowser ELSE @[s]]]
SessionsOf(m, u) == {s \in Session : m.sessions[s].user = u}

\* createUserLocked of a name that is free.
NewUser(m, u, admin, i) ==
  WithUser(m, u, [admin |-> admin, disabled |-> FALSE, hash |-> 1, invite |-> i])

\* createSession's record.
SignedIn(m, s, u) ==
  [m EXCEPT !.sessions[s] = [user |-> u, fresh |-> TRUE, hash |-> m.users[u].hash, login |-> s]]

\* A save that fails leaves the old or the new version for the next process.
Torn(m) ==
  /\ \/ disk' = disk /\ guardDirty' \in {guardDirty, TRUE}
     \/ disk' = m /\ guardDirty' \in BOOLEAN
  /\ frozen' = TRUE

Written(m) == disk' = m /\ guardDirty' = FALSE /\ UNCHANGED frozen

\* saveOrRollbackLocked; with `recovery', saveRecoveryOrRollbackLocked, which
\* alone may write in a frozen process.
SaveAccounts(m, recovery, offered) ==
  \/ /\ frozen => recovery
     /\ \/ /\ Written(m) /\ state' = m
           /\ ended' = ended \cup (Logins(state) \ Logins(m)) /\ shown' = shown \cup offered
        \/ Torn(m) /\ UNCHANGED <<state, ended, shown>>
  \/ frozen /\ ~recovery /\ UNCHANGED <<state, frozen, stored, ended, shown>>

Return(v) == visit' = [visit EXCEPT ![v] = Idle]

Mint(X) == X \cap minted = {} /\ minted' = minted \cup X

-----------------------------------------------------------------------------
(* Accounts from outside.                                                   *)

\* handleSetupPOST: the setup token is spent with the first account.
Setup(u, public, open) ==
  /\ alive /\ Users(state) = {} /\ Mint({u})
  /\ SaveAccounts([NewUser(state, u, TRUE, Nobody) EXCEPT !.public = public, !.open = public /\ open],
                  FALSE, {})
  /\ UNCHANGED <<alive, ephemeral, visit, spent>>

\* consumeInviteLocked: open registration needs no code and consumes none.
InviteAccepted(m, i) == IF m.open THEN i = Nobody ELSE i \in m.invites

Consumed(m, i) == [m EXCEPT !.invites = @ \ {i}]

\* registerAndGrantAuthorization, whose password was hashed before; the
\* account, the invite and the session are one save.
Register(u, i, s) ==
  /\ alive /\ state.public /\ Users(state) # {}
  /\ state.names[NameOf[u]] = Nobody
  /\ InviteAccepted(state, i)
  /\ Mint({u, s})
  /\ SaveAccounts(SignedIn(Consumed(NewUser(state, u, FALSE, i), i), s, u), FALSE, {})
  /\ UNCHANGED <<alive, ephemeral, visit, spent>>

-----------------------------------------------------------------------------
(* Passwords and sessions.                                                  *)

\* sessionUser.  It may save LastSeenAt, and ignores the error.
Enter(v, s) ==
  /\ alive /\ visit[v] = Idle
  /\ s \in Live(state) /\ (frozen => s \in ephemeral)
  /\ LET u == state.sessions[s].user IN
     /\ IsActive(state, u)
     /\ visit' = [visit EXCEPT ![v] = [Idle EXCEPT !.at = "acting", !.via = s, !.who = u,
                                                   !.hash = state.users[u].hash]]
  /\ \/ UNCHANGED <<frozen, stored>>
     \/ ~frozen /\ (Torn(state) \/ Written(state))
  /\ UNCHANGED <<alive, state, ephemeral, minted, told>>

\* authenticate up to the password slot: of a login, or of a request that has
\* a session and proves its password again.
Verify(v, n) ==
  /\ alive
  /\ \/ visit[v] = Idle
     \/ visit[v].at = "acting" /\ NameOf[visit[v].who] = n
  /\ LET u == state.names[n] IN
     /\ IsActive(state, u)
     /\ visit' = [visit EXCEPT ![v] = [@ EXCEPT !.at = "verifying", !.seen = u,
                                              !.seenHash = state.users[u].hash]]
  /\ UNCHANGED <<alive, state, frozen, ephemeral, stored, minted, told>>

\* The rest of authenticate, with the right password: the record must not have
\* changed meanwhile, and for a session must be the one it led to.
Verified(v) ==
  /\ alive /\ visit[v].at = "verifying"
  /\ IsCurrent(visit[v].seen, visit[v].seenHash)
  /\ visit[v].via # Nobody => visit[v].seen = visit[v].who
  /\ visit' = [visit EXCEPT ![v].at = "verified"]
  /\ UNCHANGED <<alive, state, frozen, ephemeral, stored, minted, told>>

\* A refused or abandoned request.
GiveUp(v) ==
  /\ alive /\ visit[v] # Idle
  /\ Return(v)
  /\ UNCHANGED <<alive, state, frozen, ephemeral, stored, minted, told>>

\* Variant: the account that was verified needs only to be there still.
SignInUnchecked(v, s) ==
  /\ alive /\ visit[v].at = "verified" /\ visit[v].via = Nobody
  /\ IsActive(state, visit[v].seen)
  /\ Mint({s}) /\ Return(v)
  /\ SaveAccounts([SignedIn(state, s, visit[v].seen) EXCEPT !.sessions[s].hash = visit[v].seenHash],
                  FALSE, {})
  /\ UNCHANGED <<alive, ephemeral, spent>>

\* createSession; a frozen process keeps the session to itself.
SignIn(v, s) ==
  /\ alive /\ visit[v].at = "verified" /\ visit[v].via = Nobody
  /\ IsCurrent(visit[v].seen, visit[v].seenHash)
  /\ Mint({s}) /\ Return(v)
  /\ LET m == SignedIn(state, s, visit[v].seen) IN
     IF frozen
       THEN state' = m /\ ephemeral' = ephemeral \cup {s} /\ UNCHANGED <<frozen, stored, ended, shown>>
       ELSE SaveAccounts(m, FALSE, {}) /\ UNCHANGED ephemeral
  /\ UNCHANGED <<alive, spent>>

\* clearSession: the error of the save is ignored.
SignOut(s) ==
  /\ alive /\ s \in Live(state)
  /\ LET m == Without(state, {s}) IN
     /\ state' = m
     /\ \/ ~frozen /\ Written(m) /\ ended' = ended \cup (Logins(state) \ Logins(m))
        \/ ~frozen /\ Torn(m) /\ UNCHANGED ended
        \/ frozen /\ UNCHANGED <<frozen, stored, ended>>
  /\ UNCHANGED <<alive, ephemeral, visit, minted, shown, spent>>

\* logout-session and logout-others of the account page.
EndSessions(v, S) ==
  /\ alive /\ visit[v].at = "acting" /\ ~frozen
  /\ IsCurrent(visit[v].who, visit[v].hash)
  /\ S \subseteq Live(state) \cap SessionsOf(state, visit[v].who)
  /\ Cardinality(S) = 1 \/ S = SessionsOf(state, visit[v].who) \ {visit[v].via}
  /\ SaveAccounts(Without(state, S), FALSE, {}) /\ Return(v)
  /\ UNCHANGED <<alive, ephemeral, minted, spent>>

\* A new password ends every session (revokeUserCredentialsLocked).
Rehashed(m, u) == Without([m EXCEPT !.users[u].hash = @ + 1], SessionsOf(m, u))

\* changeOwnPassword.
ChangePassword(v) ==
  /\ alive /\ visit[v].at = "verified" /\ visit[v].via # Nobody /\ ~frozen
  /\ visit[v].seenHash = visit[v].hash
  /\ IsCurrent(visit[v].who, visit[v].hash) /\ visit[v].hash < MaxHash
  /\ SaveAccounts(Rehashed(state, visit[v].who), FALSE, {}) /\ Return(v)
  /\ UNCHANGED <<alive, ephemeral, minted, spent>>

-----------------------------------------------------------------------------
(* Administrators.                                                          *)

\* Variant: the record the request read is trusted.
LiveAdminRead(v) == visit[v].who \in UserId /\ state.users[visit[v].who].admin

\* liveAdminLocked, of the record that sessionUser returned.
LiveAdmin(v) == visit[v].who \in Admins(state) /\ IsCurrent(visit[v].who, visit[v].hash)

\* handleAdminReauthPOST: the session moves to a new handle.
Reauthenticate(v, s) ==
  /\ alive /\ visit[v].at = "verified" /\ visit[v].via \in Live(state)
  /\ visit[v].seenHash = visit[v].hash /\ LiveAdmin(v)
  /\ Mint({s}) /\ Return(v)
  /\ LET old == visit[v].via
         m   == [Without(state, {old}) EXCEPT
                   !.sessions[s] = [state.sessions[old] EXCEPT !.fresh = TRUE]] IN
     IF frozen
       THEN state' = m /\ ephemeral' = ephemeral \cup {s} /\ UNCHANGED <<frozen, stored, ended, shown>>
       ELSE SaveAccounts(m, FALSE, {}) /\ UNCHANGED ephemeral
  /\ UNCHANGED <<alive, spent>>

\* adminSessionFresh.
CheckFresh(v) ==
  /\ alive /\ visit[v].at = "acting"
  /\ visit[v].via \in Live(state) /\ state.sessions[visit[v].via].fresh
  /\ state.sessions[visit[v].via].user \in Admins(state)
  /\ visit' = [visit EXCEPT ![v].at = "fresh"]
  /\ UNCHANGED <<alive, state, frozen, ephemeral, stored, minted, told>>

\* Variant: a frozen Relay applies whatever it is asked.
AllowedInRecovery(expands) == TRUE

\* persistenceRecoveryActionAllowed.
Allowed(expands) == frozen => ~expands

\* applyAdminAction around one change of the state.
Apply(v, stage, expands, m, offered) ==
  /\ alive /\ visit[v].at = stage /\ LiveAdmin(v) /\ Allowed(expands)
  /\ SaveAccounts(m, TRUE, offered) /\ Return(v)
  /\ UNCHANGED <<alive, ephemeral>>

SetUserDisabled(v, u, off) ==
  /\ Exists(state, u) /\ u # visit[v].who
  /\ LET m == [state EXCEPT !.users[u].disabled = off] IN
     Apply(v, IF off THEN "acting" ELSE "fresh", ~off,
           IF off THEN Without(m, SessionsOf(m, u)) ELSE m, {})
  /\ UNCHANGED <<minted, spent>>

Forgotten(m, u) ==
  Without([m EXCEPT !.users[u] = NoUser, !.names[NameOf[u]] = Nobody], SessionsOf(m, u))

\* delete-user.
DeleteUser(v, u) ==
  /\ Exists(state, u) /\ u # visit[v].who
  /\ Apply(v, "fresh", FALSE, Forgotten(state, u), {})
  /\ spent' = spent \cup ({state.users[u].invite} \ {Nobody})
  /\ UNCHANGED minted

\* create-user.
CreateUser(v, u) ==
  /\ state.names[NameOf[u]] = Nobody /\ Mint({u})
  /\ Apply(v, "fresh", TRUE, NewUser(state, u, FALSE, Nobody), {})
  /\ UNCHANGED spent

RotatePassword(v, u) ==
  /\ IsActive(state, u) /\ state.users[u].hash < MaxHash
  /\ Apply(v, "fresh", FALSE, Rehashed(state, u), {})
  /\ UNCHANGED <<minted, spent>>

\* logout-user, logout-all and logout-session.
Logout(v, S) ==
  /\ \/ \E u \in Users(state) : S = SessionsOf(state, u)
     \/ \E s \in Live(state) : S = {s}
  /\ Apply(v, "acting", FALSE, Without(state, S), {})
  /\ UNCHANGED <<minted, spent>>

\* handleAdminInvite.
CreateInvite(v, i) ==
  /\ state.public /\ Mint({i})
  /\ Apply(v, "fresh", TRUE, [state EXCEPT !.invites = @ \cup {i}], {i})
  /\ UNCHANGED spent

RevokeInvite(v, i) ==
  /\ i \in state.invites
  /\ Apply(v, "acting", FALSE, [state EXCEPT !.invites = @ \ {i}], {})
  /\ spent' = spent \cup {i}
  /\ UNCHANGED minted

\* set-registration.
SetRegistration(v, on) ==
  /\ state.public
  /\ Apply(v, IF on THEN "fresh" ELSE "acting", on, [state EXCEPT !.open = on], {})
  /\ UNCHANGED <<minted, spent>>

\* set-mode: registration closes with every change.
SetMode(v, public) ==
  /\ public # state.public
  /\ Apply(v, "fresh", public, [state EXCEPT !.public = public, !.open = FALSE], {})
  /\ UNCHANGED <<minted, spent>>

-----------------------------------------------------------------------------
(* Time and restarts.                                                       *)

\* What has expired is removed wherever it is read: cleanupLocked in memory,
\* load from the file.
Age(s) ==
  /\ alive /\ s \in Live(state)
  /\ \/ state' = Without(state, {s}) /\ disk' = Without(disk, {s})
     \/ /\ state' = [state EXCEPT !.sessions[s].fresh = FALSE]
        /\ disk' = IF s \in Live(disk) THEN [disk EXCEPT !.sessions[s].fresh = FALSE] ELSE disk
  /\ UNCHANGED <<alive, frozen, ephemeral, guardDirty, visit, minted, told>>

ExpireInvite(i) ==
  /\ alive /\ i \in state.invites
  /\ state' = [state EXCEPT !.invites = @ \ {i}] /\ disk' = [disk EXCEPT !.invites = @ \ {i}]
  /\ spent' = spent \cup {i}
  /\ UNCHANGED <<alive, frozen, ephemeral, guardDirty, visit, minted, ended, shown>>

Crash ==
  /\ alive /\ alive' = FALSE
  /\ state' = Blank /\ frozen' = FALSE /\ ephemeral' = {}
  /\ visit' = [v \in Visit |-> Idle]
  /\ UNCHANGED <<stored, minted, told>>

\* load: names are computed from the users, and on a private instance the
\* account with the configured owner name becomes an administrator.
Loaded(m) ==
  [m EXCEPT
     !.names = [n \in Name |->
                  IF \E u \in Users(m) : NameOf[u] = n
                    THEN CHOOSE u \in Users(m) : NameOf[u] = n ELSE Nobody],
     !.users = [u \in UserId |->
                  IF Exists(m, u) /\ NameOf[u] = OwnerName /\ ~m.public
                    THEN [@[u] EXCEPT !.admin = TRUE] ELSE @[u]]]

\* New: an instance that loads a clean state saves it again before it serves;
\* without users it has a setup token, and registration is closed.
Boot ==
  /\ ~alive
  /\ LET m == Loaded(disk) IN
     \/ alive' = TRUE /\ state' = m /\ frozen' = guardDirty
        /\ IF guardDirty THEN UNCHANGED stored ELSE disk' = m /\ UNCHANGED guardDirty
     \/ ~guardDirty /\ disk' \in {disk, m} /\ guardDirty' \in BOOLEAN
        /\ UNCHANGED <<alive, state, frozen>>
  /\ UNCHANGED <<ephemeral, visit, minted, told>>

AccountAction(v) ==
  \/ \E s \in Session : Enter(v, s) \/ SignIn(v, s) \/ Reauthenticate(v, s)
  \/ \E n \in Name : Verify(v, n)
  \/ Verified(v) \/ GiveUp(v) \/ ChangePassword(v)
  \/ \E S \in SUBSET Session : EndSessions(v, S)

AdminAction(v) ==
  \/ CheckFresh(v)
  \/ \E u \in UserId : \/ \E off \in BOOLEAN : SetUserDisabled(v, u, off)
                       \/ DeleteUser(v, u) \/ CreateUser(v, u) \/ RotatePassword(v, u)
  \/ \E S \in SUBSET Session : Logout(v, S)
  \/ \E i \in Invite : CreateInvite(v, i) \/ RevokeInvite(v, i)
  \/ \E on \in BOOLEAN : SetRegistration(v, on) \/ SetMode(v, on)

AccountsNext ==
  \/ \E u \in UserId, public, open \in BOOLEAN : Setup(u, public, open)
  \/ \E u \in UserId, i \in Invite \cup {Nobody}, s \in Session : Register(u, i, s)
  \/ \E v \in Visit : AccountAction(v) \/ AdminAction(v)
  \/ \E s \in Session : SignOut(s) \/ Age(s)
  \/ \E i \in Invite : ExpireInvite(i)
  \/ Crash \/ Boot

AccountsSpec == AccountsInit /\ [][AccountsNext]_accountsVars

-----------------------------------------------------------------------------
(* Correctness.                                                             *)

\* Every session, in memory and for the next process, belongs to an active
\* account and was opened with the password that account still has: a login
\* that was being verified while the password changed, or the account was
\* disabled or deleted, leaves none behind.
SessionsAreCurrent ==
  \A m \in {state, disk} : \A s \in Live(m) :
     LET b == m.sessions[s] IN IsActive(m, b.user) /\ m.users[b.user].hash = b.hash

\* A login whose end was saved does not come back: neither a rollback nor a
\* restart nor a re-authentication that was under way revives its session.
LogoutIsFinal == \A m \in {state, disk} : Logins(m) \cap ended = {}

\* Once set up, the Relay has an active administrator, whatever two of them
\* do to each other at the same time.
AnAdminRemains ==
  \A m \in {state, disk} : Users(m) # {} => Admins(m) # {}

\* An invite that was handed out is there, or made exactly one account, or was
\* withdrawn: a failed registration does not lose it, no second one gets it.
InviteMakesOneAccount ==
  alive => \A i \in Invite :
    LET used == {u \in Users(state) : state.users[u].invite = i} IN
    /\ Cardinality(used) + (IF i \in state.invites THEN 1 ELSE 0) <= 1
    /\ i \in shown => i \in state.invites \cup spent \/ used # {}

\* The name index and the accounts agree, so that a name leads to the one
\* account that has it, and the state that is saved can be loaded again.
NamesAgree ==
  /\ \A n \in Name, u \in UserId : state.names[n] = u <=> Exists(state, u) /\ NameOf[u] = n
  /\ \A u, w \in Users(disk) : NameOf[u] = NameOf[w] => u = w

\* A Relay whose state may not have reached the disk only gives up authority:
\* no account is added, enabled or promoted, no invite or open registration
\* appears (admin.go, persistenceRecoveryActionAllowed).
FrozenOnlyReduces ==
  [][frozen /\ frozen' /\ alive' =>
       /\ \A u \in UserId : IsActive(state', u) => IsActive(state, u)
       /\ Admins(state') \subseteq Admins(state)
       /\ state'.invites \subseteq state.invites
       /\ state'.open => state.open]_accountsVars

\* What a login leaves and a logout takes away, taken together.
SessionsHold == SessionsAreCurrent /\ LogoutIsFinal

\* The accounts are well formed, one of them can administer the rest, and each
\* came from one name and at most one invite.
AccountsAgree == AccountsTypeOK /\ AnAdminRemains /\ InviteMakesOneAccount /\ NamesAgree
=============================================================================
