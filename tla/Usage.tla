------------------------------- MODULE Usage -------------------------------
(***************************************************************************)
(* Traffic quotas of the Relay's accounts (internal/oauthserver/usage.go   *)
(* and the metered handler in server.go).  An account has a quota and a    *)
(* count of used bytes.  Grants and redemptions are saved at once and      *)
(* rolled back when the save fails; traffic only marks the state dirty,    *)
(* for the checkpoint loop or Close to save.  Metered requests of one      *)
(* account pass a gate, one at a time.  Requests that outlast the ten      *)
(* seconds of Shutdown, and the Agents' connections, run on after Close.   *)
(*                                                                         *)
(* Accounts themselves live in the authorization state, whose saves are    *)
(* AuthzStore's subject: here they are durable at once.                    *)
(***************************************************************************)
EXTENDS Integers, FiniteSets

CONSTANTS
  Account,     \* user ids
  Code,        \* activation codes, each random and created once
  Gift,        \* the administrator's grants of quota
  Request,     \* HTTP requests
  Default,     \* values of the default quota
  MaxUsed,     \* maxUsageQuotaBytes: a count stops there
  MaxRequest,  \* bound: bytes of one request and its response
  MaxFrame,    \* bound: bytes of one frame of an Agent
  NoOne

ASSUME DefaultAssumption == Default # {} /\ Default \subseteq Nat
ASSUME ByteAssumption == MaxUsed \in Nat /\ MaxRequest \in Nat /\ MaxFrame \in Nat
ASSUME PaymentAssumption == Code \cap Gift = {}
ASSUME NoOneAssumption == NoOne \notin Account \cup Request

VARIABLES
  account,   \* "absent", "active", "disabled" or "deleted"
  metering,  \* usageMeteringEnabled
  default,   \* usageDefaultQuotaBytes
  book,      \* usage and activationCodes in memory
  dirty,     \* usageDirty
  file,      \* usage-state.json as a reader finds it,
  durable,   \* and as a power loss may leave it
  up,        \* "up", "closing" from the last checkpoint to the exit, or "down"
  stage,     \* of a request: "idle", "waiting", "metered" or "unmetered"
  caller,    \* the account of a request
  gate,      \* the request that holds the gate of an account
  \* History; the code does not keep it.
  paid,      \* payments reported as done, with their account
  made       \* codes that were created: "no", "shown", or "lost" when the save failed

usageStore == <<book, dirty, file, durable>>
serving    == <<stage, caller, gate>>
usageVars  == <<account, metering, default, usageStore, up, serving, paid, made>>

Payment  == Code \cup Gift

\* A quota is the default it started from and the payments added to it.
Record   == [base : Default, paid : SUBSET Payment, used : 0..MaxUsed]
NoRecord == [base |-> 0, paid |-> {}, used |-> 0]
Book     == [of : [Account -> Record \cup {NoRecord}], codes : SUBSET Code]
Empty    == [of |-> [a \in Account |-> NoRecord], codes |-> {}]

UsageTypeOK ==
  /\ account \in [Account -> {"absent", "active", "disabled", "deleted"}]
  /\ metering \in BOOLEAN /\ default \in Default /\ dirty \in BOOLEAN
  /\ {book, file, durable} \subseteq Book
  /\ up \in {"up", "closing", "down"}
  /\ stage \in [Request -> {"idle", "waiting", "metered", "unmetered"}]
  /\ caller \in [Request -> Account \cup {NoOne}]
  /\ gate \in [Account -> Request \cup {NoOne}]
  /\ paid \subseteq Account \X Payment /\ made \in [Code -> {"no", "shown", "lost"}]

UsageInit ==
  /\ account = [a \in Account |-> "absent"]
  /\ metering = FALSE /\ default \in Default
  /\ book = Empty /\ file = Empty /\ durable = Empty /\ dirty = FALSE
  /\ up = "up"
  /\ stage = [r \in Request |-> "idle"] /\ caller = [r \in Request |-> NoOne]
  /\ gate = [a \in Account |-> NoOne]
  /\ paid = {} /\ made = [c \in Code |-> "no"]

-----------------------------------------------------------------------------
(* The book and its file.                                                  *)

Known(a) == account[a] \in {"active", "disabled"}

\* Handlers run, and frames of Agents are counted, until the process exits.
Serving == up \in {"up", "closing"}

\* ensureUsageRecordLocked for each of these accounts.
Ensured(b, A) ==
  [b EXCEPT !.of = [a \in Account |->
     IF a \in A /\ b.of[a] = NoRecord THEN [NoRecord EXCEPT !.base = default] ELSE b.of[a]]]

Quota(rec) == rec.base + Cardinality(rec.paid)
Remaining(rec) == IF rec.used < Quota(rec) THEN Quota(rec) - rec.used ELSE 0

\* writeUsageStateLocked: rename, then fsync of the directory.  The write may
\* fail before either; it has succeeded once both were done.
WriteDone(b)     == file' = b /\ durable' = b
WriteUnsynced(b) == file' = b /\ UNCHANGED durable
WriteLost        == UNCHANGED <<file, durable>>

\* Variant: a failed save reads the file again instead of the snapshot.
SaveOrReload(b, acks) ==
  \/ WriteDone(b) /\ book' = b /\ dirty' = FALSE /\ paid' = paid \cup acks
  \/ WriteLost /\ book' = file /\ UNCHANGED <<dirty, paid>>

\* saveUsageOrRollbackLocked, which reports these payments as done.
SaveOrRollback(b, acks) ==
  \/ WriteDone(b) /\ book' = b /\ dirty' = FALSE /\ paid' = paid \cup acks
  \/ /\ WriteUnsynced(b) \/ WriteLost
     /\ UNCHANGED <<book, dirty, paid>>

\* A change that waits for the checkpoint.
Note(b) == book' = b /\ dirty' = (dirty \/ b # book) /\ WriteLost

\* checkpointUsageLocked of the ticker.
Checkpoint ==
  /\ up = "up" /\ dirty
  /\ \/ WriteDone(book) /\ dirty' = FALSE
     \/ WriteUnsynced(book) /\ UNCHANGED dirty
  /\ UNCHANGED <<account, metering, default, book, up, serving, paid, made>>

-----------------------------------------------------------------------------
(* Accounts and settings.                                                  *)

\* createUserLocked, under the default in effect when the account is created.
CreateAccount(a) ==
  /\ Serving /\ account[a] = "absent"
  /\ account' = [account EXCEPT ![a] = "active"]
  /\ Note(IF metering THEN Ensured(book, {a}) ELSE book)
  /\ UNCHANGED <<metering, default, up, serving, paid, made>>

SetDisabled(a, off) ==
  /\ Serving /\ Known(a)
  /\ account' = [account EXCEPT ![a] = IF off THEN "disabled" ELSE "active"]
  /\ UNCHANGED <<metering, default, usageStore, up, serving, paid, made>>

\* delete-user; the record goes from the file with the next checkpoint.
DeleteAccount(a) ==
  /\ Serving /\ Known(a)
  /\ account' = [account EXCEPT ![a] = "deleted"]
  /\ book' = [book EXCEPT !.of[a] = NoRecord] /\ dirty' = TRUE /\ WriteLost
  /\ UNCHANGED <<metering, default, up, serving, paid, made>>

\* set-usage.
SetMetering(on) ==
  /\ Serving
  /\ metering' = on
  /\ Note(IF on THEN Ensured(book, {a \in Account : Known(a)}) ELSE book)
  /\ UNCHANGED <<account, default, up, serving, paid, made>>

\* handleAdminMonetization.
SetDefault(n) ==
  /\ Serving
  /\ default' = n
  /\ UNCHANGED <<account, metering, usageStore, up, serving, paid, made>>

\* The administrator's page lists every account, metered or not; the page of an
\* account, or an Agent's connection, looks at one whose session or token was
\* checked before, so that the account may be gone.
Look ==
  /\ Serving
  /\ \/ Note(Ensured(book, {a \in Account : Known(a)}))
     \/ metering /\ \E a \in Account : account[a] # "absent" /\ Note(Ensured(book, {a}))
  /\ UNCHANGED <<account, metering, default, up, serving, paid, made>>

-----------------------------------------------------------------------------
(* Payments.                                                               *)

\* grantQuotaLocked.
Granted(b, a, p) == [Ensured(b, {a}) EXCEPT !.of[a].paid = @ \cup {p}]

\* grant-quota.
GrantQuota(a, p) ==
  /\ Serving /\ account[a] = "active" /\ (\A x \in Account : p \notin book.of[x].paid)
  /\ SaveOrRollback(Granted(book, a, p), {<<a, p>>})
  /\ UNCHANGED <<account, metering, default, up, serving, made>>

\* handleAdminActivationCode: a code is shown when it was saved.
CreateCode(c) ==
  /\ Serving /\ made[c] = "no"
  /\ SaveOrRollback([book EXCEPT !.codes = @ \cup {c}], {})
  /\ made' = [made EXCEPT ![c] = IF c \in book'.codes THEN "shown" ELSE "lost"]
  /\ UNCHANGED <<account, metering, default, up, serving>>

\* Variant: the code stays.
RedeemKeepingCode(a, c) ==
  /\ Serving /\ account[a] = "active" /\ c \in book.codes /\ made[c] = "shown"
  /\ SaveOrRollback(Granted(book, a, c), {<<a, c>>})
  /\ UNCHANGED <<account, metering, default, up, serving, made>>

\* redeemActivationCodeLocked.
RedeemCode(a, c) ==
  /\ Serving /\ account[a] = "active" /\ c \in book.codes /\ made[c] = "shown"
  /\ SaveOrRollback([Granted(book, a, c) EXCEPT !.codes = @ \ {c}], {<<a, c>>})
  /\ UNCHANGED <<account, metering, default, up, serving, made>>

\* cleanupLocked.
ExpireCode(c) ==
  /\ Serving /\ c \in book.codes
  /\ book' = [book EXCEPT !.codes = @ \ {c}] /\ dirty' = TRUE /\ WriteLost
  /\ UNCHANGED <<account, metering, default, up, serving, paid, made>>

-----------------------------------------------------------------------------
(* Traffic.                                                                *)

\* acquireUsageRequest up to the gate.
Arrive(r, a) ==
  /\ Serving /\ stage[r] = "idle" /\ account[a] = "active"
  /\ stage' = [stage EXCEPT ![r] = IF metering THEN "waiting" ELSE "unmetered"]
  /\ caller' = [caller EXCEPT ![r] = a]
  /\ UNCHANGED <<account, metering, default, usageStore, up, gate, paid, made>>

\* The gate is free: look again, and admit the request while quota is left for
\* its declared length n.
Admit(r, n) ==
  LET a == caller[r]
      b == Ensured(book, {a})
  IN  /\ Serving /\ stage[r] = "waiting" /\ gate[a] = NoOne
      /\ account[a] = "active" /\ metering
      /\ Remaining(b.of[a]) > 0 /\ n <= Remaining(b.of[a])
      /\ Note(b)
      /\ stage' = [stage EXCEPT ![r] = "metered"]
      /\ gate' = [gate EXCEPT ![a] = r]
      /\ UNCHANGED <<account, metering, default, up, caller, paid, made>>

\* It was revoked meanwhile, metering was switched off, or the quota is used up
\* (402): the gate is free again.
Refuse(r, n) ==
  LET a == caller[r]
      b == Ensured(book, {a})
  IN  /\ Serving /\ stage[r] = "waiting" /\ gate[a] = NoOne
      /\ \/ stage' = [stage EXCEPT ![r] = "idle"] /\ UNCHANGED usageStore
         \/ /\ account[a] = "active" /\ ~metering
            /\ stage' = [stage EXCEPT ![r] = "unmetered"] /\ UNCHANGED usageStore
         \/ /\ account[a] = "active" /\ metering /\ n > Remaining(b.of[a])
            /\ Note(b)
            /\ stage' = [stage EXCEPT ![r] = "idle"]
      /\ UNCHANGED <<account, metering, default, up, caller, gate, paid, made>>

Capped(n) == IF n > MaxUsed THEN MaxUsed ELSE n

\* recordUsageBytesLocked.
Charged(a, n) ==
  IF metering /\ n > 0 /\ account[a] = "active"
    THEN Note([Ensured(book, {a}) EXCEPT !.of[a].used = Capped(@ + n)])
    ELSE UNCHANGED usageStore

\* The handler returns: recordUsageBytes, then the deferred release.
Finish(r, n) ==
  /\ Serving /\ stage[r] = "metered"
  /\ Charged(caller[r], n)
  /\ stage' = [stage EXCEPT ![r] = "idle"]
  /\ gate' = [gate EXCEPT ![caller[r]] = NoOne]
  /\ UNCHANGED <<account, metering, default, up, caller, paid, made>>

FinishUnmetered(r) ==
  /\ Serving /\ stage[r] = "unmetered"
  /\ stage' = [stage EXCEPT ![r] = "idle"]
  /\ UNCHANGED <<account, metering, default, usageStore, up, caller, gate, paid, made>>

\* RecordRelayTraffic, for a frame of the account's Agent.
RelayTraffic(a, n) ==
  /\ Serving /\ metering /\ account[a] = "active"
  /\ Charged(a, n)
  /\ UNCHANGED <<account, metering, default, up, serving, paid, made>>

-----------------------------------------------------------------------------
(* The end of the process, and the next one.                               *)

Gone ==
  /\ stage' = [r \in Request |-> "idle"] /\ caller' = [r \in Request |-> NoOne]
  /\ gate' = [a \in Account |-> NoOne]

\* Close: the loop has stopped, and a last checkpoint is made.  The error is only
\* returned.
Close ==
  /\ up = "up" /\ up' = "closing"
  /\ \/ dirty /\ WriteDone(book) /\ dirty' = FALSE
     \/ dirty /\ WriteUnsynced(book) /\ UNCHANGED dirty
     \/ WriteLost /\ UNCHANGED dirty
  /\ UNCHANGED <<account, metering, default, book, serving, paid, made>>

\* The process exits, whoever still runs.
Exit ==
  /\ up = "closing" /\ up' = "down" /\ Gone
  /\ UNCHANGED <<account, metering, default, usageStore, paid, made>>

\* The process dies, or the machine loses power and what was not synced with it.
Die ==
  /\ up' = "down" /\ Gone
  /\ file' \in {file, durable}
  /\ UNCHANGED <<account, metering, default, book, dirty, durable, paid, made>>

\* loadUsageLocked: records of accounts that are gone are pruned.
Load ==
  LET kept == [file EXCEPT !.of = [a \in Account |->
                 IF Known(a) THEN file.of[a] ELSE NoRecord]]
      b == IF metering THEN Ensured(kept, {a \in Account : Known(a)}) ELSE kept
  IN  /\ up = "down" /\ up' = "up"
      /\ book' = b /\ dirty' = (b # file) /\ WriteLost
      /\ UNCHANGED <<account, metering, default, serving, paid, made>>

-----------------------------------------------------------------------------
UsageNext ==
  \/ Checkpoint \/ Look \/ Close \/ Exit \/ Die \/ Load
  \/ \E on \in BOOLEAN : SetMetering(on)
  \/ \E n \in Default : SetDefault(n)
  \/ \E c \in Code : CreateCode(c) \/ ExpireCode(c)
  \/ \E a \in Account :
       \/ CreateAccount(a) \/ DeleteAccount(a)
       \/ \E off \in BOOLEAN : SetDisabled(a, off)
       \/ \E p \in Gift : GrantQuota(a, p)
       \/ \E c \in Code : RedeemCode(a, c)
       \/ \E n \in 1..MaxFrame : RelayTraffic(a, n)
       \/ \E r \in Request : Arrive(r, a)
  \/ \E r \in Request :
       \/ \E n \in 0..MaxRequest : Admit(r, n) \/ Refuse(r, n) \/ Finish(r, n)
       \/ FinishUnmetered(r)

UsageSpec == UsageInit /\ [][UsageNext]_usageVars

-----------------------------------------------------------------------------
Copies == {book, file, durable}

\* An activation code pays once: in memory, in the file and in what a power loss
\* may leave of it, a code is unused or was paid to one account, and a payment that
\* was reported is found in no second account that a restart may serve.
CodePaysOnce ==
  \A b \in Copies : \A c \in Code :
    /\ Cardinality({a \in Account : Known(a) /\ c \in b.of[a].paid}) <= 1
    /\ (\E a \in Account : c \in b.of[a].paid) => c \notin b.codes
    /\ \A t \in paid : t[2] = c => \A a \in Account \ {t[1]} : c \notin b.of[a].paid

\* Every payment that was reported as done is still there, after any number of
\* failed saves, crashes and power losses, as long as the account is.
PaymentsSurvive ==
  \A t \in paid : Known(t[1]) => \A b \in Copies : t[2] \in b.of[t[1]].paid

\* Requests of an account are metered one at a time, each admitted after the bytes
\* of the one before were counted, and no return path keeps the gate.
GateIsHeldByOne ==
  \A r \in Request :
    stage[r] = "metered" <=> (caller[r] # NoOne /\ gate[caller[r]] = r)

\* Traffic that a save reported as written is never lost: rollbacks, saves that
\* failed halfway, crashes and power losses leave at least as much in memory and in
\* the file as in what is durable.  What is not marked dirty is in the file, so that
\* an exit loses what was counted after the last checkpoint, and no more.
CheckpointedTrafficIsKept ==
  \A a \in Account : Known(a) =>
    /\ file.of[a].used >= durable.of[a].used /\ book.of[a].used >= durable.of[a].used
    /\ Serving /\ ~dirty => file.of[a].used = book.of[a].used

\* Traffic that was counted is forgotten only with the process that counted it, and
\* the quota of an account never shrinks under it.
CountsAreKept ==
  [][\A a \in Account :
       (Serving /\ Known(a) /\ account'[a] # "deleted" /\ Serving') =>
         /\ book'.of[a].used >= book.of[a].used
         /\ book.of[a].paid \subseteq book'.of[a].paid]_usageVars

\* Quota is paid once and kept, and traffic is counted in one place at a time
\* and kept from the checkpoint on.
UsageIsExact ==
  UsageTypeOK /\ CodePaysOnce /\ PaymentsSurvive /\ GateIsHeldByOne /\ CheckpointedTrafficIsKept
=============================================================================
