------------------------------ MODULE Limiter ------------------------------
(***************************************************************************)
(* Rate limits and password slots (internal/oauthserver/limits.go and the  *)
(* slots of identity.go).  A key is a bucket and an address; each has a     *)
(* fixed window that starts with its first request.  The table of windows   *)
(* is bounded.  A slot is held while a password is verified and while one   *)
(* of a registration is hashed; the other new passwords (of set-up, of a    *)
(* password change, of the administrator) are hashed without one.           *)
(***************************************************************************)
EXTENDS Integers, FiniteSets

CONSTANTS
  Key,         \* bucket and address of a request
  Limit,       \* the limit of a bucket
  Window,      \* its window, in ticks
  Hour,        \* windows older than this may leave the table
  MaxRates,    \* maxRateEntries
  Hasher,      \* requests that verify or set a password
  Slots,       \* passwordSlots
  MaxTick      \* bound: ticks of the clock

ASSUME LimitAssumption ==
  {Limit, Window, Hour, MaxRates, Slots, MaxTick} \subseteq Nat \ {0} /\ Window <= Hour

VARIABLES
  tick,
  rate,     \* the windows: when it started and its count
  hashing,  \* requests that verify or hash a password with a slot,
  queued,   \* that wait for one, at most two seconds,
  bare,     \* and that hash a new password without one
  passed    \* history: the requests of each key that passed, when and after how many

limiterVars == <<tick, rate, hashing, queued, bare, passed>>

NoRate == [started |-> -1, count |-> 0]
Rated  == {k \in Key : rate[k] # NoRate}

LimiterTypeOK ==
  /\ tick \in 0..MaxTick
  /\ rate \in [Key -> [started : 0..MaxTick, count : 0..Limit] \cup {NoRate}]
  /\ Cardinality(Rated) <= MaxRates
  /\ hashing \subseteq Hasher /\ queued \subseteq Hasher /\ bare \subseteq Hasher
  /\ passed \in [Key -> SUBSET ((0..MaxTick) \X Nat)]

LimiterInit ==
  /\ tick = 0 /\ rate = [k \in Key |-> NoRate]
  /\ hashing = {} /\ queued = {} /\ bare = {}
  /\ passed = [k \in Key |-> {}]

\* Variant: a full table starts again.
SweptAll == IF Cardinality(Rated) < MaxRates THEN rate ELSE [k \in Key |-> NoRate]

\* A full table is swept of its oldest windows.
Swept ==
  [k \in Key |-> IF Cardinality(Rated) >= MaxRates /\ k \in Rated /\ tick - rate[k].started >= Hour
                   THEN NoRate ELSE rate[k]]

\* The window of a key, a new one when it has none or it is over.
Current(table, k) ==
  IF table[k] = NoRate \/ tick - table[k].started >= Window
    THEN [started |-> tick, count |-> 0] ELSE table[k]

\* allowRate.  A table that stays full refuses every key, its own included.
AllowRate(k) ==
  /\ LET table == Swept
         full  == Cardinality({x \in Key : table[x] # NoRate}) >= MaxRates
         win   == Current(table, k) IN
     IF full THEN rate' = table /\ UNCHANGED passed
     ELSE IF win.count >= Limit THEN rate' = [table EXCEPT ![k] = win] /\ UNCHANGED passed
     ELSE /\ rate' = [table EXCEPT ![k] = [win EXCEPT !.count = win.count + 1]]
          /\ passed' = [passed EXCEPT ![k] = @ \cup {<<tick, Cardinality(@)>>}]
  /\ UNCHANGED <<tick, hashing, queued, bare>>

Unasked(h) == h \notin hashing \cup queued \cup bare

\* authenticate and prepareRegistration wait for a slot,
AskSlot(h) ==
  /\ Unasked(h)
  /\ queued' = queued \cup {h} /\ UNCHANGED <<tick, rate, hashing, bare, passed>>

\* which is a send to a channel with room,
TakeSlot(h) ==
  /\ h \in queued /\ Cardinality(hashing) < Slots
  /\ queued' = queued \ {h} /\ hashing' = hashing \cup {h}
  /\ UNCHANGED <<tick, rate, bare, passed>>

\* and are told that the Relay is busy after two seconds.
Busy(h) == h \in queued /\ queued' = queued \ {h} /\ UNCHANGED <<tick, rate, hashing, bare, passed>>

\* The deferred receive.  changeOwnPassword, told that the old password is right,
\* goes on to hash the new one.
GiveSlotBack(h) ==
  /\ h \in hashing
  /\ hashing' = hashing \ {h} /\ bare' \in {bare, bare \cup {h}}
  /\ UNCHANGED <<tick, rate, queued, passed>>

\* createUserLocked and rotate-password.
HashBare(h) ==
  /\ Unasked(h)
  /\ bare' = bare \cup {h} /\ UNCHANGED <<tick, rate, hashing, queued, passed>>

BareDone(h) ==
  /\ h \in bare
  /\ bare' = bare \ {h} /\ UNCHANGED <<tick, rate, hashing, queued, passed>>

LimiterTick == tick < MaxTick /\ tick' = tick + 1 /\ UNCHANGED <<rate, hashing, queued, bare, passed>>

LimiterNext ==
  \/ \E k \in Key : AllowRate(k)
  \/ \E h \in Hasher : AskSlot(h) \/ TakeSlot(h) \/ Busy(h) \/ GiveSlotBack(h) \/ HashBare(h) \/ BareDone(h)
  \/ LimiterTick

LimiterSpec == LimiterInit /\ [][LimiterNext]_limiterVars

-----------------------------------------------------------------------------
\* The requests of a key that passed from a tick on and before another.
Between(k, from, to) == {e \in passed[k] : from <= e[1] /\ e[1] < to}

\* A slot is back when its password was checked, so that a request that goes on to
\* hash holds none, and no more than Slots passwords are verified at a time.
SlotsHold == /\ Cardinality(hashing) <= Slots
             /\ hashing \cap bare = {} /\ queued \cap (hashing \cup bare) = {}

\* Whatever the times of its requests, and however often the table was full
\* meanwhile, a key passes at most twice its limit in any span of a window:
\* the windows are fixed, not sliding, and none is forgotten early.  Of the
\* passwords it bounds those that are verified or registered, not all hashing.
BurstIsBounded ==
  /\ LimiterTypeOK /\ SlotsHold
  /\ \A k \in Key : \A t \in 0..MaxTick : Cardinality(Between(k, t, t + Window)) <= 2 * Limit
=============================================================================
