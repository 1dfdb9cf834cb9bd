---------------------------- MODULE Credentials ----------------------------
(***************************************************************************)
(* The OAuth client of the workstation (internal/oauthclient): processes    *)
(* share one credential file and refresh, replace and delete its profiles   *)
(* under an advisory lock, while the Relay (internal/oauthserver) rotates,  *)
(* expires and revokes token families.  A request may fail before or after  *)
(* the Relay handled it, a refresh that a process no longer waits for may be *)
(* handled later, and a process may die between any two steps.              *)
(***************************************************************************)
EXTENDS Integers

CONSTANTS
  Proc,      \* processes that use the credential file
  Resource,  \* device resources, the keys of the file's profiles
  Family,    \* token families, one per authorization
  MaxGen,    \* bound: tokens issued in one family
  NoCred,    \* no credential
  NoProc     \* nobody

ASSUME MaxGenAssumption == MaxGen \in Nat \ {0}
ASSUME ResourceAssumption == Resource # {}

VARIABLES
  grant,     \* the Relay's families: head refresh token, live access, used refresh
  retired,   \* devices whose identity was permanently revoked
  old,       \* access tokens within a minute of their end
  late,      \* refreshes nobody waits for that the Relay may still handle
  file,      \* credentials.json
  flock,     \* who holds credentials.json.lock
  step,      \* per process, the operation it is in
  torn,      \* history: families with tokens that did not reach the file, or with
             \* a refresh that was handled late
  replayed,  \* history: families the Relay revoked for a replayed token
  intended   \* history: what the last change of each profile was meant to leave

history  == <<torn, replayed, intended>>
credVars == <<grant, retired, old, late, file, flock, step, history>>

Gen     == 1..MaxGen
Cred    == [fam : Family, gen : Gen]
Profile == [Resource -> Cred \cup {NoCred}]
Op      == {"token", "login", "logout", "forget"}
Place   == {"idle", "start", "use", "browser", "exchange", "enter", "save", "done"}

ASSUME NobodyAssumption == NoProc \notin Proc /\ NoCred \notin Cred

\* of = {}: not issued yet; head = 0: no refresh token.
NoGrant == [of |-> {}, head |-> 0, live |-> {}, used |-> {}]
Idle    == [at |-> "idle", op |-> "token", res |-> CHOOSE r \in Resource : TRUE,
            cred |-> NoCred, store |-> [r \in Resource |-> NoCred], ok |-> FALSE]

CredentialsTypeOK ==
  /\ \A f \in Family : /\ grant[f].of \subseteq Resource /\ grant[f].head \in 0..MaxGen
                       /\ grant[f].live \subseteq Gen /\ grant[f].used \subseteq Gen
  /\ old \subseteq Cred /\ retired \subseteq Resource /\ late \in [Cred -> Nat]
  /\ file \in Profile /\ intended \in Profile
  /\ flock \in Proc \cup {NoProc}
  /\ step \in [Proc -> [at : Place, op : Op, res : Resource, cred : Cred \cup {NoCred},
                        store : Profile, ok : BOOLEAN]]
  /\ torn \subseteq Family /\ replayed \subseteq Family

CredentialsInit ==
  /\ grant = [f \in Family |-> NoGrant] /\ retired = {} /\ old = {}
  /\ late = [c \in Cred |-> 0]
  /\ file = [r \in Resource |-> NoCred] /\ intended = file
  /\ flock = NoProc /\ step = [p \in Proc |-> Idle]
  /\ torn = {} /\ replayed = {}

-----------------------------------------------------------------------------
(* The Relay.                                                              *)

Live(c)    == c.gen \in grant[c.fam].live
Current(c) == c.gen = grant[c.fam].head
Used(c)    == c.gen \in grant[c.fam].used
Revoked(F) == [f \in Family |-> IF f \in F THEN [NoGrant EXCEPT !.of = grant[f].of] ELSE grant[f]]
Rotated(c) == [grant EXCEPT ![c.fam] = [of |-> grant[c.fam].of, head |-> c.gen + 1,
                                        live |-> grant[c.fam].live \cup {c.gen + 1},
                                        used |-> grant[c.fam].used \cup {c.gen}]]

\* exchangeRefresh refuses a token.  One that was used before ends its family; a
\* current one is dropped when its client, resource or owner is no longer right,
\* and access tokens are kept.
Declined(c) ==
  IF Used(c) THEN Revoked({c.fam})
  ELSE IF Current(c) THEN [grant EXCEPT ![c.fam].head = 0]
  ELSE grant

\* A minute before its end the client takes an access token for expired.
GrowOld(c) ==
  /\ Live(c) /\ c \notin old
  /\ old' = old \cup {c}
  /\ UNCHANGED <<grant, retired, late, file, flock, step, history>>

\* cleanupLocked drops an expired access token.
Expire(c) ==
  /\ Live(c) /\ c \in old
  /\ grant' = [grant EXCEPT ![c.fam].live = @ \ {c.gen}]
  /\ UNCHANGED <<retired, old, late, file, flock, step, history>>

\* A family is revoked on the web pages.
RevokeFamily(f) ==
  /\ grant[f].head # 0 \/ grant[f].live # {}
  /\ grant' = Revoked({f})
  /\ UNCHANGED <<retired, old, late, file, flock, step, history>>

\* A device identity is permanently revoked, and every family of it.
Retire(r) ==
  /\ r \notin retired
  /\ retired' = retired \cup {r}
  /\ grant' = Revoked({f \in Family : r \in grant[f].of})
  /\ UNCHANGED <<old, late, file, flock, step, history>>

\* A refresh is handled after its process gave it up: what it rotates to reaches
\* nobody, and by then the token may have been used.
HandleLate(c) ==
  /\ late[c] > 0 /\ late' = [late EXCEPT ![c] = @ - 1]
  /\ \/ /\ Current(c) /\ c.gen < MaxGen
        /\ grant' = Rotated(c) /\ torn' = torn \cup {c.fam} /\ UNCHANGED replayed
     \/ /\ grant' = Declined(c)
        /\ torn' = IF Used(c) THEN torn \cup {c.fam} ELSE torn
        /\ replayed' = IF Used(c) THEN replayed \cup {c.fam} ELSE replayed
  /\ UNCHANGED <<retired, old, file, flock, step, intended>>

-----------------------------------------------------------------------------
(* The operations of a process.  The lock is released with the last step     *)
(* taken under it, and when its holder dies.                                 *)

Go(p, place, cred) == step' = [step EXCEPT ![p] = [@ EXCEPT !.at = place, !.cred = cred]]
Release(p) == flock' = IF flock = p THEN NoProc ELSE flock
Finish(p, cred, ok) ==
  /\ step' = [step EXCEPT ![p] = [Idle EXCEPT !.at = "done", !.op = step[p].op, !.cred = cred, !.ok = ok]]
  /\ Release(p)
Fail(p) == Finish(p, NoCred, FALSE)

Begin(p, op, r) ==
  /\ step[p].at = "idle"
  /\ step' = [step EXCEPT ![p] =
       [Idle EXCEPT !.at = IF op = "login" THEN "browser" ELSE "start", !.op = op, !.res = r]]

\* withCredentialStoreLock and loadStore.  Nobody else changes the file while the
\* lock is held, so that it is read in the same step.  Token goes on with what
\* is stored, the others only to change it.
Locked(p, free) ==
  LET s == step[p] IN
  /\ s.at = "enter" \/ (s.at = "start" /\ s.op \in {"token", "forget"})
  /\ free /\ flock' = p
  /\ step' = [step EXCEPT ![p] = [@ EXCEPT !.store = file,
                                           !.at = IF s.op = "token" THEN "use" ELSE "save",
                                           !.cred = IF s.op = "token" THEN file[s.res] ELSE s.cred]]
  /\ UNCHANGED <<grant, retired, old, late, file, history>>

\* Variant: nobody waits for the lock.
LockAtOnce(p) == Locked(p, TRUE)

Lock(p) == Locked(p, flock = NoProc)

\* tokenLocked: the stored access token lasts for more than a minute.
UseStored(p) ==
  /\ step[p].at = "use" /\ step[p].cred # NoCred /\ step[p].cred \notin old
  /\ Finish(p, step[p].cred, TRUE)
  /\ UNCHANGED <<grant, retired, old, late, file, history>>

Refreshes(p) == step[p].at = "use" /\ step[p].cred \in old

\* The Relay rotates the refresh token; its answer may be lost.
RefreshGranted(p) ==
  LET c == step[p].cred IN
  /\ Refreshes(p) /\ Current(c) /\ c.gen < MaxGen
  /\ grant' = Rotated(c)
  /\ \/ Go(p, "save", [c EXCEPT !.gen = c.gen + 1]) /\ UNCHANGED <<flock, torn>>
     \/ Fail(p) /\ torn' = torn \cup {c.fam}
  /\ UNCHANGED <<retired, old, late, file, replayed, intended>>

\* The Relay refuses the refresh token; an answer that says so leads to the browser.
RefreshRefused(p) ==
  LET c == step[p].cred IN
  /\ Refreshes(p)
  /\ grant' = Declined(c)
  /\ replayed' = IF Used(c) THEN replayed \cup {c.fam} ELSE replayed
  /\ (Go(p, "browser", NoCred) /\ UNCHANGED flock) \/ Fail(p)
  /\ UNCHANGED <<retired, old, late, file, torn, intended>>

\* Nothing is stored for this device.
OpenBrowser(p) ==
  /\ step[p].at = "use" /\ step[p].cred = NoCred
  /\ Go(p, "browser", NoCred)
  /\ UNCHANGED <<grant, retired, old, late, file, flock, history>>

\* A refresh is never handled once nobody waits for it, or is handled late.
Abandons(p) ==
  \/ UNCHANGED late
  \/ Refreshes(p) /\ late' = [late EXCEPT ![step[p].cred] = @ + 1]

\* A request fails, or times out, that the Relay has not acted on so far.
GiveUp(p) ==
  /\ step[p].at \in {"browser", "exchange"} \/ Refreshes(p)
  /\ Fail(p) /\ Abandons(p)
  /\ UNCHANGED <<grant, retired, old, file, history>>

\* browserAuthorize up to the callback: a client is registered for the device and
\* the user approves.  A retired device gets 410.
Approve(p) ==
  /\ step[p].at = "browser" /\ step[p].res \notin retired
  /\ Go(p, "exchange", NoCred)
  /\ UNCHANGED <<grant, retired, old, late, file, flock, history>>

\* The user denies, or what comes back is not the callback of this attempt.
Deny(p) ==
  /\ step[p].at = "browser"
  /\ Fail(p)
  /\ UNCHANGED <<grant, retired, old, late, file, history>>

\* The code is exchanged.  When that answer is lost, or comes too late, nobody
\* knows the tokens.
Exchange(p) ==
  /\ step[p].at = "exchange" /\ step[p].res \notin retired
  /\ \E f \in Family :
       /\ grant[f].of = {}
       /\ grant' = [grant EXCEPT ![f] = [of |-> {step[p].res}, head |-> 1, live |-> {1}, used |-> {}]]
       /\ \/ /\ Go(p, IF step[p].op = "login" THEN "enter" ELSE "save", [fam |-> f, gen |-> 1])
             /\ UNCHANGED <<flock, torn>>
          \/ Fail(p) /\ torn' = torn \cup {f}
  /\ UNCHANGED <<retired, old, late, file, replayed, intended>>

\* Logout reads without the lock and posts the access token.  The Relay revokes
\* the family of a token it knows and answers 200 in every case.
Logout(p) ==
  LET c == file[step[p].res] IN
  /\ step[p].at = "start" /\ step[p].op = "logout"
  /\ \/ /\ c = NoCred
        /\ Go(p, "enter", c) /\ UNCHANGED grant
     \/ /\ c # NoCred
        /\ grant' = IF Live(c) THEN Revoked({c.fam}) ELSE grant
        /\ step' = [step EXCEPT ![p] = [@ EXCEPT !.at = "enter", !.cred = c, !.ok = TRUE]]
     \/ /\ c # NoCred
        /\ \/ grant' = IF Live(c) THEN Revoked({c.fam}) ELSE grant
           \/ UNCHANGED grant
        /\ Go(p, "enter", c)
  /\ UNCHANGED <<retired, old, late, file, flock, history>>

Obtains(p) == step[p].op \in {"token", "login"}
Wanted(p)  == IF Obtains(p) THEN step[p].cred ELSE NoCred
Changes(p) == Wanted(p) # step[p].store[step[p].res]

\* saveStore replaces the whole file by what was read and changed; syncing the
\* directory may fail after that.  Logout reports success, with the credential,
\* when it was removed and the revocation was answered.
Save(p) ==
  LET s == step[p] IN
  /\ s.at = "save"
  /\ file' = [s.store EXCEPT ![s.res] = Wanted(p)]
  /\ intended' = [intended EXCEPT ![s.res] = Wanted(p)]
  /\ \/ /\ s.op # "logout"
        /\ Finish(p, Wanted(p), TRUE)
     \/ /\ s.op = "logout"
        /\ Finish(p, IF s.ok /\ Changes(p) THEN s.cred ELSE NoCred, TRUE)
     \/ Changes(p) /\ Fail(p)
  /\ UNCHANGED <<grant, retired, old, late, torn, replayed>>

\* What was obtained and is not saved.
Lost(p) == IF step[p].at \in {"save", "enter"} /\ Obtains(p) THEN {step[p].cred.fam} ELSE {}

SaveFails(p) ==
  /\ step[p].at = "save" /\ Changes(p)
  /\ torn' = torn \cup Lost(p) /\ Fail(p)
  /\ UNCHANGED <<grant, retired, old, late, file, replayed, intended>>

\* The process dies.
Die(p) ==
  /\ torn' = torn \cup Lost(p)
  /\ Release(p) /\ Abandons(p)
  /\ step' = [step EXCEPT ![p] = Idle]
  /\ UNCHANGED <<grant, retired, old, file, replayed, intended>>

\* What a process does by itself once it has begun.
Work(p) ==
  \/ Lock(p) \/ UseStored(p) \/ RefreshGranted(p) \/ RefreshRefused(p)
  \/ OpenBrowser(p) \/ GiveUp(p) \/ Approve(p) \/ Deny(p) \/ Exchange(p)
  \/ Logout(p) \/ Save(p) \/ SaveFails(p)

\* A command of its own: login, logout, or another Agent.
Command(p) ==
  /\ \/ \E op \in Op, r \in Resource : Begin(p, op, r)
     \/ step[p].at = "done" /\ step' = [step EXCEPT ![p] = Idle]
  /\ UNCHANGED <<grant, retired, old, late, file, flock, history>>

RelayNext ==
  \/ \E c \in Cred : GrowOld(c) \/ Expire(c) \/ HandleLate(c)
  \/ \E f \in Family : RevokeFamily(f)
  \/ \E r \in Resource : Retire(r)

-----------------------------------------------------------------------------
\* The Relay never takes a refresh for a replay, which ends the family, unless a
\* rotation was lost on its way to the file, or a refresh was handled after its
\* process had given it up.
NoSelfReplay == replayed \subseteq torn

\* What is stored is the newest of its family and was never used, while nobody is
\* about to store a newer one and the Relay has not ended it.
StoredIsCurrent ==
  \A r \in Resource :
    LET c == file[r] IN
    c # NoCred /\ c.fam \notin torn =>
      \/ grant[c.fam].head \in {0, c.gen} /\ ~Used(c)
      \/ \E p \in Proc : step[p].at = "save" /\ step[p].op = "token" /\ step[p].cred.fam = c.fam

\* A change of one profile never undoes a change of another.
ProfilesAreKept == file = intended

\* Processes that share the credential file never end each other's sessions or
\* lose each other's logins: what is stored is current, complete and of use.
CredentialsHold == CredentialsTypeOK /\ NoSelfReplay /\ StoredIsCurrent /\ ProfilesAreKept

\* What docs/agent.md and the message of the logout command say: after a logout
\* that reports success the Relay honours no token of that family.
LogoutRevokes ==
  \A p \in Proc :
    LET s == step[p] IN
    s.at = "done" /\ s.op = "logout" /\ s.cred # NoCred
      => grant[s.cred.fam].head = 0 /\ grant[s.cred.fam].live = {}
=============================================================================
