----------------------------- MODULE AgentProof -----------------------------
(***************************************************************************)
(* The credential file and the connection loop, for any processes, devices, *)
(* families and rotations.  The Relay takes a refresh token for a replay,   *)
(* and ends the family, when it was rotated before; between the rotation    *)
(* and the change of the file the stored one is such a token.  That no      *)
(* other process presents it rests on the lock, which a login takes only    *)
(* after it has its tokens, and a logout after it has read the file.  A      *)
(* refresh that its process gave up may be handled at any time; its family   *)
(* then counts among the torn ones, of which less is known.                  *)
(***************************************************************************)
EXTENDS AgentLink, TLAPS

-----------------------------------------------------------------------------
(* Credentials: the inductive invariant.                                   *)

Doing  == [at : Place, op : Op, res : Resource, cred : Cred \cup {NoCred},
           store : Profile, ok : BOOLEAN]
Grants == [of : SUBSET Resource, head : 0..MaxGen, live : SUBSET Gen, used : SUBSET Gen]

\* While a family has a refresh token, that is its newest, and what was used is older.
Proper(g) ==
  /\ g.of = {} => g.head = 0
  /\ g.head # 0 => (\A n \in g.live : n <= g.head) /\ (\A n \in g.used : n < g.head)

Owned(c, r) == grant[c.fam].of = {r}
Issued(c)   == grant[c.fam].of # {} /\ (grant[c.fam].head = 0 \/ c.gen <= grant[c.fam].head)
Newest(c)   == grant[c.fam].head \in {0, c.gen} /\ c.gen \notin grant[c.fam].used

\* Or else something of its family was lost, or handled late.
Kept(c)     == c.fam \in torn \/ Newest(c)

\* An operation under the lock, one that has obtained what is not saved yet, and one
\* that is about to store a token it obtained.
Under(s)   == s.at = "save" \/ (s.op = "token" /\ s.at \in {"use", "browser", "exchange"})
Pending(s) == s.at \in {"enter", "save"} /\ s.op \in {"token", "login"}
Storing(s) == s.at = "save" /\ s.op = "token"

\* What an operation knows in its place.  A login holds no lock before it has its
\* credential, which is of a family that nobody has seen.
Sound(s) ==
  /\ s.at = "use" => s.op = "token" /\ s.cred = file[s.res]
  /\ s.at = "enter" => s.op # "token"
  /\ s.at \in {"browser", "exchange"} => s.op \in {"token", "login"}
  /\ Pending(s) => s.cred \in Cred /\ Owned(s.cred, s.res) /\ Issued(s.cred) /\ Kept(s.cred)
  /\ Pending(s) /\ s.op = "login" =>
       \A r \in Resource : file[r] # NoCred => file[r].fam # s.cred.fam
  /\ s.at = "done" /\ s.op = "token" /\ s.ok => s.cred \in Cred /\ Issued(s.cred)

Holding(p) == Under(step[p]) => flock = p /\ step[p].store = file

Apart(p, q) ==
  Pending(step[p]) /\ Pending(step[q]) /\ step[p].op = "login" =>
    step[p].cred.fam # step[q].cred.fam

Filed == \A r \in Resource : file[r] # NoCred => Owned(file[r], r) /\ Issued(file[r])

CredInv ==
  /\ CredentialsTypeOK
  /\ grant \in [Family -> Grants] /\ \A f \in Family : Proper(grant[f])
  /\ Filed
  /\ \A p \in Proc : Sound(step[p]) /\ Holding(p) /\ \A q \in Proc \ {p} : Apart(p, q)
  /\ NoSelfReplay /\ StoredIsCurrent /\ ProfilesAreKept

-----------------------------------------------------------------------------
(* What a step may do to the families of the Relay.                        *)

Later ==
  /\ grant' \in [Family -> Grants] /\ \A f \in Family : Proper(grant'[f])
  /\ \A f \in Family : grant[f].of # {} => grant'[f].of = grant[f].of
  /\ \A c \in Cred : Issued(c) => Issued(c)'

\* Families end, and nothing is issued.
Fades ==
  /\ grant' \in [Family -> Grants] /\ \A f \in Family : Proper(grant'[f])
  /\ \A f \in Family : /\ grant'[f].of = grant[f].of /\ grant'[f].head \in {0, grant[f].head}
                       /\ grant'[f].used \subseteq grant[f].used

LEMMA FadesIsLater ==
  ASSUME CredInv, Fades
  PROVE  Later /\ \A c \in Cred : Newest(c) => Newest(c)'
<1>1. \A c \in Cred : c.fam \in Family /\ c.gen \in Gen
  BY DEF Cred
<1>2. \A c \in Cred : Issued(c) => Issued(c)'
  BY <1>1 DEF Fades, Issued
<1>3. \A c \in Cred : Newest(c) => Newest(c)'
  BY <1>1 DEF Fades, Kept, Newest
<1> QED
  BY <1>2, <1>3 DEF Later, Fades

LEMMA SameFades == ASSUME CredInv, UNCHANGED grant PROVE Fades
<1> QED
  BY DEF Fades, CredInv

LEMMA RevokedFades == ASSUME CredInv, NEW F, grant' = Revoked(F) PROVE Fades
<1>1. \A f \in Family : grant[f] \in Grants
  BY DEF CredInv
<1>2. ASSUME NEW f \in Family
      PROVE  /\ grant'[f] \in Grants /\ Proper(grant'[f])
             /\ grant'[f].of = grant[f].of /\ grant'[f].head \in {0, grant[f].head}
             /\ grant'[f].used \subseteq grant[f].used
  <2>1. CASE f \in F
    <3>1. grant'[f] = [of |-> grant[f].of, head |-> 0, live |-> {}, used |-> {}]
      BY <2>1 DEF Revoked, NoGrant
    <3>2. grant[f].of \subseteq Resource
      BY <1>1 DEF Grants
    <3> QED
      BY <3>1, <3>2, MaxGenAssumption DEF Grants, Proper
  <2>2. CASE f \notin F
    <3>1. grant'[f] = grant[f]
      BY <2>2 DEF Revoked
    <3> QED
      BY <3>1, <1>1 DEF CredInv
  <2> QED
    BY <2>1, <2>2
<1>3. grant' \in [Family -> Grants]
  <2>1. grant' = [f \in Family |-> grant'[f]]
    BY DEF Revoked
  <2> QED
    BY <2>1, <1>2
<1> QED
  BY <1>2, <1>3 DEF Fades

\* One family of those that are known gives up an access token, or its refresh token.
LEMMA LessFades ==
  ASSUME CredInv, NEW f \in Family, NEW h \in Grants, grant' = [grant EXCEPT ![f] = h],
         h.of = grant[f].of, h.head \in {0, grant[f].head},
         h.live \subseteq grant[f].live, h.used \subseteq grant[f].used
  PROVE  Fades /\ \A g \in Family : grant'[g].live \subseteq grant[g].live
<1>1. grant \in [Family -> Grants] /\ \A g \in Family : Proper(grant[g])
  BY DEF CredInv
<1>2. grant'[f] = h /\ \A g \in Family \ {f} : grant'[g] = grant[g]
  BY <1>1
<1>3. grant' \in [Family -> Grants]
  BY <1>1
<1>4. Proper(h)
  <2>1. Proper(grant[f])
    BY <1>1
  <2> QED
    BY <2>1 DEF Proper
<1> QED
  BY <1>1, <1>2, <1>3, <1>4 DEF Fades

LEMMA ExpiredFades ==
  ASSUME CredInv, NEW c \in Cred, grant' = [grant EXCEPT ![c.fam].live = @ \ {c.gen}]
  PROVE  Fades /\ \A f \in Family : grant'[f].live \subseteq grant[f].live
<1>1. grant \in [Family -> Grants] /\ c.fam \in Family
  BY DEF CredInv, Cred
<1>2. PICK g : g = grant[c.fam]
  OBVIOUS
<1>3. PICK h : h = [g EXCEPT !.live = g.live \ {c.gen}]
  OBVIOUS
<1>4. g \in Grants /\ h \in Grants /\ h.of = g.of /\ h.head = g.head /\ h.used = g.used
      /\ h.live \subseteq g.live
  BY <1>1, <1>2, <1>3 DEF Grants
<1>5. grant' = [grant EXCEPT ![c.fam] = h]
  BY <1>1, <1>2, <1>3
<1> QED
  BY <1>1, <1>2, <1>4, <1>5, LessFades

LEMMA DeclinedFades ==
  ASSUME CredInv, NEW c \in Cred, grant' = Declined(c)
  PROVE  Fades /\ \A f \in Family : grant'[f].live \subseteq grant[f].live
<1>1. grant \in [Family -> Grants] /\ c.fam \in Family
  BY DEF CredInv, Cred
<1>2. CASE grant' = Revoked({c.fam})
  <2>1. \A f \in Family : grant'[f].live \subseteq grant[f].live
    BY <1>2 DEF Revoked, NoGrant
  <2> QED
    BY <1>2, <2>1, RevokedFades
<1>3. CASE grant' = [grant EXCEPT ![c.fam].head = 0]
  <2>1. PICK g : g = grant[c.fam]
    OBVIOUS
  <2>2. PICK h : h = [g EXCEPT !.head = 0]
    OBVIOUS
  <2>3. g \in Grants /\ h \in Grants /\ h.of = g.of /\ h.head = 0 /\ h.used = g.used /\ h.live = g.live
    BY <1>1, <2>1, <2>2, MaxGenAssumption DEF Grants
  <2>4. grant' = [grant EXCEPT ![c.fam] = h]
    BY <1>1, <1>3, <2>1, <2>2
  <2> QED
    BY <1>1, <2>1, <2>3, <2>4, LessFades
<1>4. CASE grant' = grant
  BY <1>4, SameFades
<1> QED
  BY <1>2, <1>3, <1>4 DEF Declined

-----------------------------------------------------------------------------
(* What a step of one process leaves to the others.                        *)

\* What an operation knows stays true while the file does not change.
LEMMA SoundStays ==
  ASSUME CredInv, Later, file' = file, NEW s \in Doing, Sound(s),
         Pending(s) => Kept(s.cred)'
  PROVE  Sound(s)'
<1>1. \A c \in Cred, r \in Resource : Owned(c, r) => Owned(c, r)'
  BY DEF Cred, Owned, Later
<1>2. s.res \in Resource
  BY DEF Doing
<1>3. \A c \in Cred : Issued(c) => Issued(c)'
  BY DEF Later
<1> QED
  BY <1>1, <1>2, <1>3 DEF Sound, Pending

Moves(p) ==
  /\ step' \in [Proc -> Doing] /\ \A q \in Proc \ {p} : step'[q] = step[q]
  /\ flock' \in Proc \cup {NoProc} /\ (flock' = flock \/ flock \in {p, NoProc})
  /\ file' = file /\ intended' = intended
  /\ old' \subseteq Cred /\ retired' \subseteq Resource /\ late' \in [Cred -> Nat]
  /\ torn \subseteq torn' /\ torn' \subseteq Family /\ replayed' \subseteq torn'

LEMMA OthersStay ==
  ASSUME CredInv, NEW p \in Proc, Moves(p), Later,
         \A q \in Proc \ {p} : Pending(step[q]) => Kept(step[q].cred)'
  PROVE  \A q \in Proc \ {p} : /\ (Sound(step[q]) /\ Holding(q))'
                               /\ \A x \in Proc \ {p, q} : Apart(q, x)'
<1>1. ASSUME NEW q \in Proc \ {p} PROVE (Sound(step[q]) /\ Holding(q))'
  <2>1. PICK s : s = step[q]
    OBVIOUS
  <2>2. step'[q] = s
    BY <2>1 DEF Moves
  <2>3. s \in Doing /\ Sound(s)
    BY <2>1 DEF CredInv, CredentialsTypeOK, Doing
  <2>8. Pending(s) => Kept(s.cred)'
    <3>1. Pending(s) => Kept(step[q].cred)'
      BY <2>1
    <3> QED
      BY <3>1, <2>2 DEF Kept, Newest
  <2>4. file' = file
    BY DEF Moves
  <2>5. Sound(s)'
    BY <2>3, <2>4, <2>8, SoundStays
  <2>6. Sound(step[q])'
    BY <2>2, <2>5 DEF Sound, Pending, Owned, Kept, Newest, Issued
  <2>7. Holding(q)'
    <3>1. Under(s) => flock = q /\ s.store = file
      BY <2>1 DEF CredInv, Holding
    <3> QED
      BY <3>1, <2>2, NobodyAssumption DEF Holding, Moves, Under
  <2> QED
    BY <2>6, <2>7
<1>2. ASSUME NEW q \in Proc \ {p}, NEW x \in Proc \ {p, q} PROVE Apart(q, x)'
  <2>1. step'[q] = step[q] /\ step'[x] = step[x]
    BY DEF Moves
  <2>2. Apart(q, x)
    BY DEF CredInv
  <2> QED
    BY <2>1, <2>2 DEF Apart, Pending
<1> QED
  BY <1>1, <1>2

LEMMA StepKeeps ==
  ASSUME CredInv, NEW p \in Proc, Moves(p), Later,
         \A q \in Proc \ {p} : Pending(step[q]) => Kept(step[q].cred)',
         \A r \in Resource : file[r] # NoCred /\ file[r].fam \notin torn' =>
           \/ Newest(file[r])'
           \/ \E q \in Proc : Storing(step'[q]) /\ step'[q].cred.fam = file[r].fam,
         (Sound(step[p]) /\ Holding(p))',
         \A q \in Proc \ {p} : (Apart(p, q) /\ Apart(q, p))'
  PROVE  CredInv'
<1>1. CredentialsTypeOK'
  <2>1. \A f \in Family : grant'[f] \in Grants
    BY DEF Later
  <2>2. file' \in Profile /\ intended' \in Profile /\ replayed' \subseteq Family
    BY DEF CredInv, CredentialsTypeOK, Moves
  <2> QED
    BY <2>1, <2>2 DEF CredentialsTypeOK, Moves, Grants, Doing
<1>2. Filed'
  <2>1. ASSUME NEW r \in Resource, file'[r] # NoCred PROVE (Owned(file[r], r) /\ Issued(file[r]))'
    <3>1. PICK c : c = file[r]
      OBVIOUS
    <3>2. c \in Cred /\ Owned(c, r) /\ Issued(c) /\ file'[r] = c
      BY <2>1, <3>1 DEF CredInv, CredentialsTypeOK, Profile, Filed, Moves
    <3>3. Issued(c)' /\ Owned(c, r)'
      BY <3>2 DEF Later, Owned, Cred
    <3> QED
      BY <3>2, <3>3 DEF Owned, Issued
  <2> QED
    BY <2>1 DEF Filed
<1>3. \A q \in Proc \ {p} : /\ (Sound(step[q]) /\ Holding(q))'
                            /\ \A x \in Proc \ {p, q} : Apart(q, x)'
  BY OthersStay
<1>4. \A q \in Proc : (Sound(step[q]) /\ Holding(q) /\ \A x \in Proc \ {q} : Apart(q, x))'
  BY <1>3
<1>5. StoredIsCurrent'
  <2>1. ASSUME NEW r \in Resource, file'[r] # NoCred, file'[r].fam \notin torn'
        PROVE  \/ grant'[file'[r].fam].head \in {0, file'[r].gen} /\ ~Used(file[r])'
               \/ \E q \in Proc : step'[q].at = "save" /\ step'[q].op = "token"
                                  /\ step'[q].cred.fam = file'[r].fam
    BY <2>1 DEF Moves, Newest, Storing, Used
  <2> QED
    BY <2>1 DEF StoredIsCurrent, Used
<1>6. NoSelfReplay' /\ ProfilesAreKept'
  BY DEF CredInv, NoSelfReplay, ProfilesAreKept, Moves
<1> QED
  BY <1>1, <1>2, <1>4, <1>5, <1>6 DEF CredInv, Later

\* A step that obtains nothing, and drops nothing without counting it as torn.
LEMMA QuietKeeps ==
  ASSUME CredInv, NEW p \in Proc, Moves(p), Fades, (Sound(step[p]) /\ Holding(p))',
         Pending(step'[p]) =>
           Pending(step[p]) /\ step'[p].op = step[p].op /\ step'[p].cred = step[p].cred,
         Storing(step[p]) =>
           \/ step[p].cred.fam \in torn'
           \/ Storing(step'[p]) /\ step'[p].cred = step[p].cred
  PROVE  CredInv'
<1>1. Later /\ \A c \in Cred : Newest(c) => Newest(c)'
  BY FadesIsLater
<1>2. ASSUME NEW q \in Proc \ {p}, Pending(step[q]) PROVE Kept(step[q].cred)'
  <2>1. PICK c : c = step[q].cred
    OBVIOUS
  <2>2. c \in Cred /\ Kept(c)
    BY <1>2, <2>1 DEF CredInv, Sound
  <2>3. Kept(c)' /\ step'[q].cred = c
    BY <1>1, <2>1, <2>2 DEF Moves, Kept
  <2> QED
    BY <2>3 DEF Kept, Newest
<1>3. ASSUME NEW r \in Resource, file[r] # NoCred, file[r].fam \notin torn'
      PROVE  \/ Newest(file[r])'
             \/ \E q \in Proc : Storing(step'[q]) /\ step'[q].cred.fam = file[r].fam
  <2>1. PICK c : c = file[r]
    OBVIOUS
  <2>2. c \in Cred /\ file'[r] = c /\ c.fam \notin torn
    BY <1>3, <2>1 DEF CredInv, CredentialsTypeOK, Profile, Moves
  <2>3. \/ Newest(c)
        \/ \E q \in Proc : Storing(step[q]) /\ step[q].cred.fam = c.fam
    BY <1>3, <2>1, <2>2 DEF CredInv, StoredIsCurrent, Used, Storing, Kept, Newest
  <2>4. CASE Newest(c)
    BY <1>1, <2>2, <2>4 DEF Kept, Newest
  <2>5. ASSUME NEW q \in Proc, Storing(step[q]), step[q].cred.fam = c.fam
        PROVE  Storing(step'[q]) /\ step'[q].cred.fam = c.fam
    <3>1. CASE q = p
      BY <1>3, <2>1, <2>5, <3>1
    <3>2. CASE q # p
      BY <2>5, <3>2 DEF Moves
    <3> QED
      BY <3>1, <3>2
  <2> QED
    BY <2>1, <2>3, <2>4, <2>5
<1>4. ASSUME NEW q \in Proc \ {p} PROVE (Apart(p, q) /\ Apart(q, p))'
  <2>1. step'[q] = step[q] /\ Apart(p, q) /\ Apart(q, p)
    BY DEF Moves, CredInv
  <2> QED
    BY <2>1 DEF Apart, Pending
<1> QED
  BY <1>1, <1>2, <1>3, <1>4, StepKeeps

-----------------------------------------------------------------------------
(* The operations of a process.                                            *)

LEMMA IdleIsTyped == Idle \in Doing
<1>1. (CHOOSE r \in Resource : TRUE) \in Resource
  BY ResourceAssumption
<1> QED
  BY <1>1 DEF Idle, Doing, Place, Op, Profile

\* Where a process is when it is done, failed, or begins anew.
Left(s) ==
  /\ s.at \in {"idle", "start", "browser", "done"}
  /\ s.at = "browser" => s.op = "login"
  /\ s.at = "done" /\ s.op = "token" /\ s.ok => s.cred \in Cred /\ Issued(s.cred)

LEMMA LeavesKeeps ==
  ASSUME CredInv, NEW p \in Proc, Moves(p), Fades, Left(step[p])',
         Storing(step[p]) => step[p].cred.fam \in torn'
  PROVE  CredInv'
<1>1. (Sound(step[p]) /\ Holding(p))' /\ ~Pending(step'[p])
  BY DEF Left, Sound, Holding, Under, Pending, Issued
<1> QED
  BY <1>1, QuietKeeps

LEMMA CredTypes ==
  ASSUME CredInv
  PROVE  /\ step \in [Proc -> Doing] /\ file \in Profile /\ intended = file
         /\ old \subseteq Cred /\ retired \subseteq Resource /\ late \in [Cred -> Nat]
         /\ flock \in Proc \cup {NoProc}
         /\ torn \subseteq Family /\ replayed \subseteq torn
         /\ grant \in [Family -> Grants]
<1> QED
  BY DEF CredInv, CredentialsTypeOK, Doing, NoSelfReplay, ProfilesAreKept

\* The last step of an operation, and of one that fails.
LEMMA FinishMoves ==
  ASSUME CredInv, NEW p \in Proc, NEW c \in Cred \cup {NoCred}, NEW ok \in BOOLEAN,
         Finish(p, c, ok), late' \in [Cred -> Nat], UNCHANGED <<retired, old, file, intended>>,
         torn \subseteq torn', torn' \subseteq Family, replayed' \subseteq torn',
         ok /\ step[p].op = "token" => c \in Cred /\ Issued(c)'
  PROVE  Moves(p) /\ Left(step[p])'
<1>1. step'[p] \in Doing /\ step'[p].at = "done" /\ step'[p].op = step[p].op
      /\ step'[p].cred = c /\ step'[p].ok = ok
  BY CredTypes, IdleIsTyped DEF Finish, Doing, Place
<1>2. step' \in [Proc -> Doing] /\ \A q \in Proc \ {p} : step'[q] = step[q]
  BY CredTypes, <1>1 DEF Finish
<1>3. flock' \in Proc \cup {NoProc} /\ (flock' = flock \/ flock \in {p, NoProc})
  BY CredTypes DEF Finish, Release
<1>4. Moves(p)
  BY CredTypes, <1>2, <1>3 DEF Moves
<1>5. Left(step[p])'
  BY <1>1 DEF Left, Issued
<1> QED
  BY <1>4, <1>5

LEMMA BeginKeeps ==
  ASSUME CredInv, NEW p \in Proc, NEW op \in Op, NEW r \in Resource, Begin(p, op, r),
         UNCHANGED <<grant, retired, old, late, file, flock, history>>
  PROVE  CredInv'
<1>1. step'[p] \in Doing /\ Left(step[p])'
  <2>1. PICK at : /\ at = (IF op = "login" THEN "browser" ELSE "start")
                  /\ step'[p] = [Idle EXCEPT !.at = at, !.op = op, !.res = r]
    BY CredTypes DEF Begin
  <2>2. at \in Place /\ at \in {"start", "browser"} /\ (at = "browser" => op = "login")
    BY <2>1 DEF Place
  <2>3. PICK d \in Doing : d = Idle
    BY IdleIsTyped
  <2>4. step'[p] \in Doing /\ step'[p].at = at /\ step'[p].op = op
    BY <2>1, <2>2, <2>3 DEF Doing
  <2> QED
    BY <2>2, <2>4 DEF Left
<1>2. Moves(p)
  BY <1>1, CredTypes DEF Begin, Moves, history
<1>3. ~Storing(step[p])
  BY DEF Begin, Storing
<1> QED
  BY <1>1, <1>2, <1>3, SameFades, LeavesKeeps

\* A process is between operations again, or begins one that needs the lock.
LEMMA RestsKeeps ==
  ASSUME CredInv, NEW p \in Proc, step[p].at = "done",
         NEW s \in Doing, s.at \in {"idle", "start"}, step' = [step EXCEPT ![p] = s],
         UNCHANGED <<grant, retired, old, late, file, flock, history>>
  PROVE  CredInv'
<1>1. step'[p] = s
  BY CredTypes
<1>2. Left(step[p])'
  BY <1>1 DEF Left
<1>3. Moves(p)
  BY <1>1, CredTypes DEF Moves, history
<1>4. ~Storing(step[p])
  BY DEF Storing
<1> QED
  BY <1>2, <1>3, <1>4, SameFades, LeavesKeeps

LEMMA CommandKeeps == ASSUME CredInv, NEW p \in Proc, Command(p) PROVE CredInv'
<1>1. CASE \E op \in Op, r \in Resource : Begin(p, op, r)
  BY <1>1, BeginKeeps DEF Command
<1>2. CASE step[p].at = "done" /\ step' = [step EXCEPT ![p] = Idle]
  <2>1. Idle.at = "idle"
    BY DEF Idle
  <2> QED
    BY <1>2, <2>1, IdleIsTyped, RestsKeeps DEF Command
<1> QED
  BY <1>1, <1>2 DEF Command

LEMMA AbandonsTypes == ASSUME CredInv, NEW p \in Proc, Abandons(p) PROVE late' \in [Cred -> Nat]
<1>1. CASE UNCHANGED late
  BY <1>1, CredTypes
<1>2. CASE Refreshes(p) /\ late' = [late EXCEPT ![step[p].cred] = @ + 1]
  BY <1>2, CredTypes DEF Refreshes
<1> QED
  BY <1>1, <1>2 DEF Abandons

LEMMA DieKeeps == ASSUME CredInv, NEW p \in Proc, Die(p) PROVE CredInv'
<1>1. step'[p] = Idle /\ Idle.at = "idle"
  BY CredTypes DEF Die, Idle
<1>2. Left(step[p])'
  BY <1>1 DEF Left
<1>3. Lost(p) \subseteq Family /\ (Storing(step[p]) => step[p].cred.fam \in Lost(p))
  BY DEF Lost, Obtains, Storing, CredInv, Sound, Pending, Cred
<1>4. Moves(p)
  <2>1. late' \in [Cred -> Nat]
    BY AbandonsTypes DEF Die
  <2> QED
    BY <1>1, <1>3, <2>1, CredTypes, IdleIsTyped DEF Die, Moves, Release
<1>5. UNCHANGED grant
  BY DEF Die
<1> QED
  BY <1>2, <1>3, <1>4, <1>5, SameFades, LeavesKeeps DEF Die

LEMMA LockKeeps == ASSUME CredInv, NEW p \in Proc, Lock(p) PROVE CredInv'
<1>1. PICK s : s = step[p]
  OBVIOUS
<1>2. s \in Doing /\ file \in Profile /\ s.res \in Resource
  BY <1>1, CredTypes DEF Doing
<1>3. PICK n : n = step'[p]
  OBVIOUS
<1>4. /\ n = [s EXCEPT !.store = file, !.at = IF s.op = "token" THEN "use" ELSE "save",
                       !.cred = IF s.op = "token" THEN file[s.res] ELSE s.cred]
      /\ flock = NoProc /\ flock' = p /\ (s.at = "enter" \/ (s.at = "start" /\ s.op \in {"token", "forget"}))
  BY <1>1, <1>3, CredTypes DEF Lock, Locked
<1>5. /\ n \in Doing /\ n.store = file /\ n.op = s.op /\ n.res = s.res
      /\ n.at = IF s.op = "token" THEN "use" ELSE "save"
      /\ n.cred = IF s.op = "token" THEN file[s.res] ELSE s.cred
  BY <1>2, <1>4 DEF Doing, Place, Profile
<1>6. UNCHANGED <<grant, retired, old, late, file, history>>
  BY DEF Lock, Locked
<1>7. Moves(p)
  BY <1>3, <1>4, <1>5, <1>6, CredTypes DEF Moves, Lock, Locked, history
<1>8. Pending(n) => Pending(s) /\ n.op = s.op /\ n.cred = s.cred
  BY <1>4, <1>5 DEF Pending, Op, Doing
<1>9. Sound(s)
  BY <1>1 DEF CredInv
<1>10. (Sound(step[p]) /\ Holding(p))'
  <2>1. ~Pending(n) \/ (s.op = "login" /\ Owned(s.cred, s.res)' /\ Issued(s.cred)' /\ Kept(s.cred)')
    BY <1>4, <1>5, <1>6, <1>8, <1>9 DEF Sound, Pending, Owned, Kept, Newest, Issued, history
  <2>2. Sound(step[p])'
    <3>1. CASE s.op = "token"
      <4>1. n.at = "use" /\ n.cred = file'[n.res] /\ n.op = "token"
        BY <1>5, <1>6, <3>1
      <4> QED
        BY <1>3, <4>1 DEF Sound, Pending
    <3>2. CASE s.op # "token"
      <4>1. n.at = "save" /\ n.op = s.op /\ n.cred = s.cred /\ n.res = s.res
        BY <1>5, <3>2
      <4>2. n.op = "login" => \A r \in Resource : file'[r] # NoCred => file'[r].fam # n.cred.fam
        BY <1>4, <1>6, <1>9, <3>2, <4>1 DEF Sound, Pending
      <4>3. Pending(n) => n.op = "login" /\ n.cred \in Cred
        BY <1>8, <1>9, <3>2, <4>1 DEF Sound, Pending
      <4> QED
        BY <1>3, <2>1, <4>1, <4>2, <4>3 DEF Sound, Pending, Owned, Kept, Newest, Issued
    <3> QED
      BY <3>1, <3>2
  <2>3. Holding(p)'
    BY <1>3, <1>4, <1>5, <1>6 DEF Holding
  <2> QED
    BY <2>2, <2>3
<1>11. ~Storing(s)
  BY <1>4 DEF Storing
<1> QED
  BY <1>1, <1>3, <1>6, <1>7, <1>8, <1>10, <1>11, SameFades, QuietKeeps

LEMMA UseStoredKeeps == ASSUME CredInv, NEW p \in Proc, UseStored(p) PROVE CredInv'
<1>1. PICK c : c = step[p].cred
  OBVIOUS
<1>2. c \in Cred /\ Issued(c) /\ ~Storing(step[p])
  BY <1>1, CredTypes DEF UseStored, CredInv, Sound, Filed, Doing, Storing
<1>3. Issued(c)' /\ UNCHANGED <<grant, retired, old, late, file, history>>
  BY <1>2 DEF UseStored, Issued
<1>4. Moves(p) /\ Left(step[p])'
  BY <1>1, <1>2, <1>3, CredTypes, FinishMoves DEF UseStored, history
<1> QED
  BY <1>2, <1>3, <1>4, SameFades, LeavesKeeps

\* A request that fails, or is denied.
LEMMA FailKeeps ==
  ASSUME CredInv, NEW p \in Proc, Fail(p), Fades, late' \in [Cred -> Nat], UNCHANGED <<retired, old, file, intended>>,
         torn \subseteq torn', torn' \subseteq Family, replayed' \subseteq torn',
         Storing(step[p]) => step[p].cred.fam \in torn'
  PROVE  CredInv'
<1>1. Moves(p) /\ Left(step[p])'
  BY FinishMoves DEF Fail
<1> QED
  BY <1>1, LeavesKeeps

\* A process goes on with its request, and has nothing yet.
LEMMA GoKeeps ==
  ASSUME CredInv, NEW p \in Proc, NEW place \in {"browser", "exchange", "enter"},
         NEW c \in Cred \cup {NoCred}, NEW ok \in BOOLEAN, Fades,
         step' = [step EXCEPT ![p] = [step[p] EXCEPT !.at = place, !.cred = c, !.ok = ok]],
         UNCHANGED <<retired, old, late, file, flock, torn, intended>>, replayed' \subseteq torn,
         ~Storing(step[p]),
         place = "enter" => step[p].op = "logout",
         place # "enter" => step[p].op = "login" \/ (step[p].op = "token" /\ Under(step[p]))
  PROVE  CredInv'
<1>1. PICK s : s = step[p]
  OBVIOUS
<1>2. PICK n : n = step'[p]
  OBVIOUS
<1>3. s \in Doing
  BY <1>1, CredTypes
<1>4. n = [s EXCEPT !.at = place, !.cred = c, !.ok = ok]
  BY <1>1, <1>2, CredTypes
<1>5. n \in Doing /\ n.op = s.op /\ n.at = place /\ n.store = s.store
  BY <1>3, <1>4 DEF Doing, Place
<1>6. Moves(p)
  BY <1>2, <1>5, CredTypes DEF Moves
<1>7. ~Pending(n)
  BY <1>1, <1>5 DEF Pending
<1>8. (Sound(step[p]) /\ Holding(p))'
  BY <1>1, <1>2, <1>5, <1>7 DEF Sound, Holding, Under, CredInv, Pending
<1> QED
  BY <1>2, <1>6, <1>7, <1>8, QuietKeeps

\* What Go does to the process, which may hold the permission to go on or not.
Goes(p, place, c) ==
  \E k \in BOOLEAN : step' = [step EXCEPT ![p] = [step[p] EXCEPT !.at = place, !.cred = c, !.ok = k]]

LEMMA GoOn ==
  ASSUME CredInv, NEW p \in Proc, NEW place, NEW c, Go(p, place, c)
  PROVE  Goes(p, place, c)
<1>1. step[p] \in Doing
  BY CredTypes
<1>2. step[p].ok \in BOOLEAN
  BY <1>1 DEF Doing
<1>3. [step[p] EXCEPT !.at = place, !.cred = c] = [step[p] EXCEPT !.at = place, !.cred = c, !.ok = step[p].ok]
  BY <1>1 DEF Doing
<1>4. step' = [step EXCEPT ![p] = [step[p] EXCEPT !.at = place, !.cred = c, !.ok = step[p].ok]]
  BY <1>3 DEF Go
<1> QED
  BY <1>2, <1>4, Zenon DEF Goes

LEMMA OpenBrowserKeeps == ASSUME CredInv, NEW p \in Proc, OpenBrowser(p) PROVE CredInv'
<1>1. ~Storing(step[p]) /\ Under(step[p]) /\ step[p].op = "token"
  BY DEF OpenBrowser, Storing, Under, CredInv, Sound
<1>2. Go(p, "browser", NoCred) /\ UNCHANGED <<grant, retired, old, late, file, flock, history>>
  BY DEF OpenBrowser
<1>3. PICK k \in BOOLEAN :
         step' = [step EXCEPT ![p] = [step[p] EXCEPT !.at = "browser", !.cred = NoCred, !.ok = k]]
  <2>1. Goes(p, "browser", NoCred)
    BY <1>2, GoOn, Zenon
  <2> QED BY <2>1, Zenon DEF Goes
<1> QED
  BY <1>1, <1>2, <1>3, SameFades, CredTypes, GoKeeps DEF history

LEMMA ApproveKeeps == ASSUME CredInv, NEW p \in Proc, Approve(p) PROVE CredInv'
<1>1. /\ ~Storing(step[p])
      /\ step[p].op = "login" \/ (step[p].op = "token" /\ Under(step[p]))
  BY DEF Approve, Storing, Under, CredInv, Sound
<1>2. Go(p, "exchange", NoCred) /\ UNCHANGED <<grant, retired, old, late, file, flock, history>>
  BY DEF Approve
<1>3. PICK k \in BOOLEAN :
         step' = [step EXCEPT ![p] = [step[p] EXCEPT !.at = "exchange", !.cred = NoCred, !.ok = k]]
  <2>1. Goes(p, "exchange", NoCred)
    BY <1>2, GoOn, Zenon
  <2> QED BY <2>1, Zenon DEF Goes
<1> QED
  BY <1>1, <1>2, <1>3, SameFades, CredTypes, GoKeeps DEF history

LEMMA GiveUpKeeps ==
  ASSUME CredInv, NEW p \in Proc, GiveUp(p) \/ Deny(p)
  PROVE  CredInv'
<1>1. Fail(p) /\ UNCHANGED <<grant, retired, old, file, history>> /\ ~Storing(step[p])
  BY DEF GiveUp, Deny, Refreshes, Storing
<1>2. late' \in [Cred -> Nat]
  BY AbandonsTypes, CredTypes DEF GiveUp, Deny
<1> QED
  BY <1>1, <1>2, SameFades, CredTypes, FailKeeps DEF history

LEMMA SaveFailsKeeps == ASSUME CredInv, NEW p \in Proc, SaveFails(p) PROVE CredInv'
<1>1. Lost(p) \subseteq Family /\ (Storing(step[p]) => step[p].cred.fam \in Lost(p))
  BY DEF Lost, Obtains, Storing, CredInv, Sound, Pending, Cred
<1> QED
  BY <1>1, SameFades, CredTypes, FailKeeps DEF SaveFails

\* A refresh token that is stored and not the newest was lost on the way to the file.
LEMMA StoredIsNewest ==
  ASSUME CredInv, NEW p \in Proc, step[p].at = "use", step[p].cred # NoCred,
         step[p].cred.fam \notin torn
  PROVE  Newest(step[p].cred)
<1>1. PICK r \in Resource : r = step[p].res
  BY CredTypes DEF Doing
<1>2. step[p].cred = file[r] /\ flock = p
  BY <1>1 DEF CredInv, Sound, Holding, Under
<1>3. ~\E q \in Proc : step[q].at = "save"
  <2> SUFFICES ASSUME NEW q \in Proc, step[q].at = "save" PROVE FALSE
    OBVIOUS
  <2>1. Holding(q)
    BY DEF CredInv
  <2> QED
    BY <1>2, <2>1 DEF Holding, Under
<1> QED
  BY <1>2, <1>3 DEF CredInv, StoredIsCurrent, Used, Kept, Newest

LEMMA RefreshRefusedKeeps == ASSUME CredInv, NEW p \in Proc, RefreshRefused(p) PROVE CredInv'
<1>1. PICK c : c = step[p].cred
  OBVIOUS
<1>2. step[p].at = "use" /\ c \in old /\ c \in Cred /\ c # NoCred
      /\ Under(step[p]) /\ ~Storing(step[p]) /\ step[p].op = "token"
  BY <1>1, CredTypes, NobodyAssumption DEF RefreshRefused, Refreshes, Under, Storing, CredInv, Sound
<1>3. c.fam \in Family /\ c.gen \in Gen
  BY <1>2 DEF Cred
<1>4. Used(c) => c.fam \in torn
  BY <1>1, <1>2, StoredIsNewest DEF Newest, Used
<1>5. replayed' \subseteq torn
  BY <1>1, <1>4, CredTypes DEF RefreshRefused
<1>6. Fades
  BY <1>1, <1>2, DeclinedFades DEF RefreshRefused
<1>7. UNCHANGED <<retired, old, late, file, torn, intended>>
  BY DEF RefreshRefused
<1>8. CASE Go(p, "browser", NoCred) /\ UNCHANGED flock
  <2>1. PICK k \in BOOLEAN :
           step' = [step EXCEPT ![p] = [step[p] EXCEPT !.at = "browser", !.cred = NoCred, !.ok = k]]
    <3>1. Goes(p, "browser", NoCred)
      BY <1>8, GoOn, Zenon
    <3> QED BY <3>1, Zenon DEF Goes
  <2> QED
    BY <1>2, <1>5, <1>6, <1>7, <1>8, <2>1, GoKeeps
<1>9. CASE Fail(p)
  BY <1>2, <1>5, <1>6, <1>7, <1>9, CredTypes, FailKeeps
<1> QED
  BY <1>8, <1>9 DEF RefreshRefused

LEMMA LogoutKeeps == ASSUME CredInv, NEW p \in Proc, Logout(p) PROVE CredInv'
<1>1. PICK c : c = file[step[p].res]
  OBVIOUS
<1>2. c \in Cred \cup {NoCred} /\ step[p].ok \in BOOLEAN
  BY <1>1, CredTypes DEF Doing, Profile
<1>3. step[p].op = "logout" /\ step[p].at = "start" /\ ~Storing(step[p])
  BY DEF Logout, Storing
<1>4. grant' = grant \/ grant' = Revoked({c.fam})
  BY <1>1 DEF Logout
<1>5. Fades
  BY <1>4, SameFades, RevokedFades
<1>6. PICK k \in BOOLEAN : step' = [step EXCEPT ![p] = [step[p] EXCEPT !.at = "enter", !.cred = c, !.ok = k]]
  <2>1. CASE Go(p, "enter", c)
    <3>1. Goes(p, "enter", c)
      BY <2>1, GoOn, Zenon
    <3> QED BY <3>1, Zenon DEF Goes
  <2>2. CASE step' = [step EXCEPT ![p] = [@ EXCEPT !.at = "enter", !.cred = c, !.ok = TRUE]]
    BY <2>2, CredTypes
  <2> QED
    BY <1>1, <2>1, <2>2 DEF Logout
<1>7. UNCHANGED <<retired, old, late, file, flock, torn, intended>> /\ replayed' \subseteq torn
  BY CredTypes DEF Logout, history
<1> QED
  BY <1>2, <1>3, <1>5, <1>6, <1>7, GoKeeps

\* The one that holds the lock is alone: nobody else is about to store anything.
LEMMA AloneUnder ==
  ASSUME CredInv, NEW p \in Proc, Under(step[p])
  PROVE  \A q \in Proc \ {p} : ~Under(step[q]) /\ (Pending(step[q]) => step[q].op = "login")
<1> SUFFICES ASSUME NEW q \in Proc \ {p}
             PROVE  ~Under(step[q]) /\ (Pending(step[q]) => step[q].op = "login")
  OBVIOUS
<1>1. flock = p
  BY DEF CredInv, Holding
<1>2. Holding(q) /\ Sound(step[q])
  BY DEF CredInv
<1> QED
  BY <1>1, <1>2 DEF Holding, Under, Pending, Sound

LEMMA RotatedLater ==
  ASSUME CredInv, NEW c \in Cred, Current(c), c.gen < MaxGen, grant' = Rotated(c)
  PROVE  /\ Later /\ Issued(c) /\ [c EXCEPT !.gen = c.gen + 1] \in Cred
         /\ grant'[c.fam].of = grant[c.fam].of /\ grant'[c.fam].head = c.gen + 1
         /\ c.gen + 1 \notin grant'[c.fam].used
         /\ grant'[c.fam].live = grant[c.fam].live \cup {c.gen + 1}
         /\ \A f \in Family \ {c.fam} : grant'[f] = grant[f]
<1>1. c.fam \in Family /\ c.gen \in Gen /\ c.gen + 1 \in Gen /\ c.gen \in 1..MaxGen
  BY MaxGenAssumption DEF Cred, Gen
<1>2. PICK g : g = grant[c.fam]
  OBVIOUS
<1>3. g \in Grants /\ Proper(g) /\ g.head = c.gen /\ g.of # {}
  BY <1>1, <1>2 DEF CredInv, Current, Proper, Gen
<1>4. PICK h : h = [of |-> g.of, head |-> c.gen + 1, live |-> g.live \cup {c.gen + 1},
                    used |-> g.used \cup {c.gen}]
  OBVIOUS
<1>5. h \in Grants /\ h.of = g.of /\ h.head = c.gen + 1
  BY <1>1, <1>3, <1>4, MaxGenAssumption DEF Grants, Gen
<1>6. Proper(h)
  <2>1. \A n \in g.live : n <= c.gen /\ n \in Gen
    BY <1>1, <1>3 DEF Proper, Grants, Gen
  <2>2. \A n \in g.used : n < c.gen /\ n \in Gen
    BY <1>1, <1>3 DEF Proper, Grants, Gen
  <2>3. \A n \in h.live : n <= c.gen + 1
    BY <1>1, <1>4, <2>1 DEF Gen
  <2>4. \A n \in h.used : n < c.gen + 1
    BY <1>1, <1>4, <2>2 DEF Gen
  <2> QED
    BY <1>3, <1>5, <2>3, <2>4 DEF Proper
<1>7. grant' = [grant EXCEPT ![c.fam] = h] /\ grant \in [Family -> Grants]
  BY <1>2, <1>4 DEF CredInv, Rotated
<1>8. grant'[c.fam] = h /\ \A f \in Family \ {c.fam} : grant'[f] = grant[f]
  BY <1>1, <1>7
<1>9. \A d \in Cred : Issued(d) => Issued(d)'
  <2> SUFFICES ASSUME NEW d \in Cred, Issued(d) PROVE Issued(d)'
    OBVIOUS
  <2>1. d.fam \in Family /\ d.gen \in 1..MaxGen
    BY DEF Cred, Gen
  <2>2. CASE d.fam = c.fam
    <3>1. d.gen <= c.gen + 1
      BY <1>1, <1>2, <1>3, <2>1, <2>2, MaxGenAssumption DEF Issued
    <3> QED
      BY <1>3, <1>5, <1>8, <2>2, <3>1 DEF Issued
  <2>3. CASE d.fam # c.fam
    BY <1>8, <2>1, <2>3 DEF Issued
  <2> QED
    BY <2>2, <2>3
<1>10. \A f \in Family : Proper(grant'[f]) /\ grant'[f].of = grant[f].of
  BY <1>2, <1>5, <1>6, <1>8 DEF CredInv
<1>11. grant' \in [Family -> Grants]
  BY <1>1, <1>5, <1>7
<1>12. [c EXCEPT !.gen = c.gen + 1] \in Cred
  BY <1>1 DEF Cred
<1>13. c.gen + 1 \notin h.used /\ h.live = g.live \cup {c.gen + 1}
  <2>1. \A n \in h.used : n < c.gen + 1
    BY <1>1, <1>5, <1>6 DEF Proper, Gen
  <2> QED
    BY <1>1, <1>4, <2>1 DEF Gen
<1>14. Issued(c)
  BY <1>1, <1>2, <1>3 DEF Issued, Gen
<1> QED
  BY <1>2, <1>4, <1>5, <1>8, <1>9, <1>10, <1>11, <1>12, <1>13, <1>14 DEF Later

LEMMA RefreshGrantedKeeps == ASSUME CredInv, NEW p \in Proc, RefreshGranted(p) PROVE CredInv'
<1>1. PICK s : s = step[p]
  OBVIOUS
<1>2. PICK c : c = s.cred
  OBVIOUS
<1>3. /\ s \in Doing /\ s.at = "use" /\ s.op = "token" /\ c \in Cred /\ c = file[s.res]
      /\ s.res \in Resource /\ Under(s) /\ c # NoCred
  <2>1. s \in Doing /\ old \subseteq Cred
    BY <1>1, CredTypes
  <2>2. s.at = "use" /\ c \in old
    BY <1>1, <1>2 DEF RefreshGranted, Refreshes
  <2>3. s.op = "token" /\ c = file[s.res]
    BY <1>1, <1>2, <2>2 DEF CredInv, Sound
  <2> QED
    BY <2>1, <2>2, <2>3, NobodyAssumption DEF Under, Doing
<1>4. Owned(c, s.res) /\ Issued(c) /\ Current(c) /\ c.gen < MaxGen
  BY <1>1, <1>2, <1>3 DEF CredInv, Filed, RefreshGranted
<1>5. grant' = Rotated(c)
  BY <1>1, <1>2 DEF RefreshGranted
<1>6. PICK d : d = [c EXCEPT !.gen = c.gen + 1]
  OBVIOUS
<1>7. /\ Later /\ d \in Cred /\ d.fam = c.fam /\ d.gen = c.gen + 1 /\ c.fam \in Family
      /\ grant'[c.fam].of = grant[c.fam].of /\ grant'[c.fam].head = c.gen + 1
      /\ c.gen + 1 \notin grant'[c.fam].used
      /\ \A f \in Family \ {c.fam} : grant'[f] = grant[f]
  BY <1>3, <1>4, <1>5, <1>6, RotatedLater DEF Cred
<1>8. \A q \in Proc \ {p} : ~Under(step[q]) /\ (Pending(step[q]) => step[q].op = "login")
  BY <1>1, <1>3, AloneUnder
<1>9. \A q \in Proc \ {p} : Pending(step[q]) => /\ step[q].cred \in Cred /\ step[q].cred.fam # c.fam
                                                /\ Kept(step[q].cred)
  <2> SUFFICES ASSUME NEW q \in Proc \ {p}, Pending(step[q])
               PROVE  /\ step[q].cred \in Cred /\ step[q].cred.fam # c.fam
                      /\ Kept(step[q].cred)
    OBVIOUS
  <2>1. Sound(step[q])
    BY DEF CredInv
  <2> QED
    BY <1>3, <1>8, <2>1 DEF Sound
<1>10. UNCHANGED <<retired, old, late, file, replayed, intended>>
  BY DEF RefreshGranted
<1>11. \A r \in Resource \ {s.res} : file[r] # NoCred =>
         /\ file[r] \in Cred /\ file[r].fam # c.fam
         /\ file[r].fam \in torn \/ Newest(file[r])
  <2> SUFFICES ASSUME NEW r \in Resource \ {s.res}, file[r] # NoCred
               PROVE  /\ file[r] \in Cred /\ file[r].fam # c.fam
                      /\ file[r].fam \in torn \/ Newest(file[r])
    OBVIOUS
  <2>1. file[r] \in Cred
    BY CredTypes DEF Profile
  <2>2. Owned(file[r], r)
    BY DEF CredInv, Filed
  <2>3. file[r].fam # c.fam
    BY <1>3, <1>4, <2>2 DEF Owned
  <2>4. ~\E q \in Proc : step[q].at = "save"
    BY <1>1, <1>3, <1>8 DEF Under
  <2> QED
    BY <2>1, <2>3, <2>4 DEF CredInv, StoredIsCurrent, Used, Kept, Newest
<1>12. \A r \in Resource \ {s.res} : file[r] # NoCred /\ file[r].fam \notin torn' => Newest(file[r])'
  <2> SUFFICES ASSUME NEW r \in Resource \ {s.res}, file[r] # NoCred, file[r].fam \notin torn'
               PROVE  Newest(file[r])'
    OBVIOUS
  <2>1. torn \subseteq torn'
    BY DEF RefreshGranted
  <2>2. file[r].fam \in Family \ {c.fam} /\ Newest(file[r])
    BY <1>11, <2>1 DEF Cred
  <2> QED
    BY <1>7, <1>10, <2>2 DEF Kept, Newest
<1>13. CASE Go(p, "save", d) /\ UNCHANGED <<flock, torn>>
  <2>1. PICK n : n = step'[p]
    OBVIOUS
  <2>2. n = [s EXCEPT !.at = "save", !.cred = d]
    BY <1>1, <1>13, <2>1, CredTypes DEF Go
  <2>3. n \in Doing /\ n.at = "save" /\ n.op = "token" /\ n.cred = d /\ n.res = s.res /\ n.store = s.store
    BY <1>3, <1>7, <2>2 DEF Doing, Place
  <2>4. step' \in [Proc -> Doing] /\ \A q \in Proc \ {p} : step'[q] = step[q]
    BY <1>13, <2>1, <2>3, CredTypes DEF Go
  <2>5. Moves(p)
    BY <1>10, <1>13, <2>4, CredTypes DEF Moves
  <2>6. \A q \in Proc \ {p} : Pending(step[q]) => Kept(step[q].cred)'
    <3> SUFFICES ASSUME NEW q \in Proc \ {p}, Pending(step[q]) PROVE Kept(step[q].cred)'
      OBVIOUS
    <3>1. step[q].cred.fam \in Family \ {c.fam} /\ Kept(step[q].cred) /\ step'[q] = step[q]
      BY <1>9, <2>4 DEF Cred
    <3>2. torn \subseteq torn'
      BY DEF RefreshGranted
    <3> QED
      BY <1>7, <3>1, <3>2 DEF Kept, Newest
  <2>7. Sound(step[p])'
    <3>1. Owned(d, s.res)' /\ Kept(d)' /\ Issued(d)'
      BY <1>4, <1>7 DEF Owned, Kept, Newest, Issued, Cred, Gen
    <3> QED
      BY <1>7, <2>1, <2>3, <3>1 DEF Sound, Pending, Owned, Kept, Newest, Issued
  <2>8. Holding(p)'
    BY <1>1, <1>3, <1>10, <1>13, <2>1, <2>3 DEF CredInv, Holding, Under
  <2>9. \A q \in Proc \ {p} : (Apart(p, q) /\ Apart(q, p))'
    BY <1>7, <1>9, <2>1, <2>3, <2>4 DEF Apart, Pending
  <2>10. Storing(step'[p]) /\ step'[p].cred.fam = file[s.res].fam
    BY <1>3, <1>7, <2>1, <2>3 DEF Storing
  <2> QED
    BY <1>7, <1>12, <2>5, <2>6, <2>7, <2>8, <2>9, <2>10, StepKeeps
<1>14. CASE Fail(p) /\ torn' = torn \cup {c.fam}
  <2>1. Moves(p) /\ Left(step[p])'
    BY <1>7, <1>10, <1>14, CredTypes, FinishMoves DEF Fail
  <2>2. \A q \in Proc \ {p} : step'[q] = step[q]
    BY <2>1 DEF Moves
  <2>3. \A q \in Proc \ {p} : Pending(step[q]) => Kept(step[q].cred)'
    <3> SUFFICES ASSUME NEW q \in Proc \ {p}, Pending(step[q]) PROVE Kept(step[q].cred)'
      OBVIOUS
    <3>1. step[q].cred.fam \in Family \ {c.fam} /\ Kept(step[q].cred) /\ step'[q] = step[q]
      BY <1>9, <2>2 DEF Cred
    <3>2. torn \subseteq torn'
      BY DEF RefreshGranted
    <3> QED
      BY <1>7, <3>1, <3>2 DEF Kept, Newest
  <2>4. (Sound(step[p]) /\ Holding(p))' /\ ~Pending(step'[p])
    BY <2>1 DEF Left, Sound, Holding, Under, Pending, Issued
  <2>5. \A q \in Proc \ {p} : (Apart(p, q) /\ Apart(q, p))'
    BY <2>4 DEF Apart, Pending
  <2>6. file[s.res].fam \in torn'
    BY <1>3, <1>14
  <2> QED
    BY <1>7, <1>12, <2>1, <2>3, <2>4, <2>5, <2>6, StepKeeps
<1> QED
  BY <1>1, <1>2, <1>6, <1>13, <1>14 DEF RefreshGranted

\* A family that was not issued yet is nobody's.
LEMMA IssuedLater ==
  ASSUME CredInv, NEW f \in Family, NEW r \in Resource, grant[f].of = {},
         grant' = [grant EXCEPT ![f] = [of |-> {r}, head |-> 1, live |-> {1}, used |-> {}]]
  PROVE  /\ Later /\ grant'[f].of = {r} /\ grant'[f].head = 1 /\ grant'[f].used = {}
         /\ \A g \in Family \ {f} : grant'[g] = grant[g]
<1>1. PICK h : h = [of |-> {r}, head |-> 1, live |-> {1}, used |-> {}]
  OBVIOUS
<1>2. h \in Grants /\ Proper(h) /\ h.of = {r} /\ h.head = 1 /\ h.used = {}
  BY <1>1, MaxGenAssumption DEF Grants, Gen, Proper
<1>3. grant \in [Family -> Grants] /\ grant' = [grant EXCEPT ![f] = h]
  BY <1>1 DEF CredInv
<1>4. grant'[f] = h /\ \A g \in Family \ {f} : grant'[g] = grant[g]
  BY <1>3
<1>5. \A c \in Cred : Issued(c) => Issued(c)'
  BY <1>4 DEF Issued, Cred
<1>6. grant' \in [Family -> Grants]
  BY <1>2, <1>3
<1>7. \A g \in Family : Proper(grant'[g]) /\ (grant[g].of # {} => grant'[g].of = grant[g].of)
  BY <1>2, <1>4 DEF CredInv
<1> QED
  BY <1>2, <1>4, <1>5, <1>6, <1>7 DEF Later

LEMMA ExchangeKeeps == ASSUME CredInv, NEW p \in Proc, Exchange(p) PROVE CredInv'
<1>1. PICK s : s = step[p]
  OBVIOUS
<1>2. PICK f \in Family :
        /\ grant[f].of = {}
        /\ grant' = [grant EXCEPT ![f] = [of |-> {s.res}, head |-> 1, live |-> {1}, used |-> {}]]
        /\ \/ /\ Go(p, IF s.op = "login" THEN "enter" ELSE "save", [fam |-> f, gen |-> 1])
              /\ UNCHANGED <<flock, torn>>
           \/ Fail(p) /\ torn' = torn \cup {f}
  BY <1>1 DEF Exchange
<1>3. s \in Doing /\ s.res \in Resource /\ s.at = "exchange" /\ s.op \in {"token", "login"}
  BY <1>1, CredTypes DEF Exchange, CredInv, Sound, Doing
<1>4. /\ Later /\ grant'[f].of = {s.res} /\ grant'[f].head = 1 /\ grant'[f].used = {}
      /\ \A g \in Family \ {f} : grant'[g] = grant[g]
  BY <1>2, <1>3, IssuedLater
<1>5. UNCHANGED <<retired, old, late, file, replayed, intended>>
  BY DEF Exchange
<1>6. PICK d : d = [fam |-> f, gen |-> 1]
  OBVIOUS
<1>7. d \in Cred /\ d.fam = f /\ d.gen = 1
  BY <1>6, MaxGenAssumption DEF Cred, Gen
<1>8. \A q \in Proc \ {p} : Pending(step[q]) => /\ step[q].cred \in Cred /\ step[q].cred.fam # f
                                                /\ Kept(step[q].cred)
  <2> SUFFICES ASSUME NEW q \in Proc \ {p}, Pending(step[q])
               PROVE  /\ step[q].cred \in Cred /\ step[q].cred.fam # f
                      /\ Kept(step[q].cred)
    OBVIOUS
  <2>1. Sound(step[q])
    BY DEF CredInv
  <2> QED
    BY <1>2, <2>1 DEF Sound, Owned
<1>9. \A r \in Resource : file[r] # NoCred => file[r] \in Cred /\ file[r].fam # f
  <2> SUFFICES ASSUME NEW r \in Resource, file[r] # NoCred
               PROVE  file[r] \in Cred /\ file[r].fam # f
    OBVIOUS
  <2>1. file[r] \in Cred
    BY CredTypes DEF Profile
  <2>2. Owned(file[r], r)
    BY DEF CredInv, Filed
  <2> QED
    BY <1>2, <2>1, <2>2 DEF Owned
<1>10. ASSUME \A q \in Proc \ {p} : step'[q] = step[q]
       PROVE  /\ \A q \in Proc \ {p} : Pending(step[q]) => Kept(step[q].cred)'
              /\ \A r \in Resource : file[r] # NoCred /\ file[r].fam \notin torn' =>
                   \/ Newest(file[r])'
                   \/ \E q \in Proc : Storing(step'[q]) /\ step'[q].cred.fam = file[r].fam
  <2>1. ASSUME NEW q \in Proc \ {p}, Pending(step[q]) PROVE Kept(step[q].cred)'
    <3>1. step[q].cred.fam \in Family \ {f} /\ Kept(step[q].cred) /\ step'[q] = step[q]
      BY <1>8, <1>10, <2>1 DEF Cred
    <3>2. torn \subseteq torn'
      BY <1>2
    <3> QED
      BY <1>4, <3>1, <3>2 DEF Kept, Newest
  <2>2. ASSUME NEW r \in Resource, file[r] # NoCred, file[r].fam \notin torn'
        PROVE  \/ Newest(file[r])'
               \/ \E q \in Proc : Storing(step'[q]) /\ step'[q].cred.fam = file[r].fam
    <3>1. torn \subseteq torn'
      BY <1>2
    <3>2. file[r].fam \in Family \ {f}
      BY <1>9, <2>2 DEF Cred
    <3>3. Newest(file[r]) \/ \E q \in Proc : Storing(step[q]) /\ step[q].cred.fam = file[r].fam
      BY <2>2, <3>1 DEF CredInv, StoredIsCurrent, Used, Kept, Newest, Storing
    <3>4. CASE Newest(file[r])
      BY <1>4, <1>5, <3>2, <3>4 DEF Kept, Newest
    <3>5. ASSUME NEW q \in Proc, Storing(step[q]), step[q].cred.fam = file[r].fam
          PROVE  Storing(step'[q]) /\ step'[q].cred.fam = file[r].fam
      <4>1. q # p
        BY <1>1, <1>3, <3>5 DEF Storing
      <4> QED
        BY <1>10, <3>5, <4>1
    <3> QED
      BY <3>3, <3>4, <3>5
  <2> QED
    BY <2>1, <2>2
<1>11. CASE Go(p, IF s.op = "login" THEN "enter" ELSE "save", d) /\ UNCHANGED <<flock, torn>>
  <2>1. PICK n : n = step'[p]
    OBVIOUS
  <2>2. n = [s EXCEPT !.at = IF s.op = "login" THEN "enter" ELSE "save", !.cred = d]
    BY <1>1, <1>11, <2>1, CredTypes DEF Go
  <2>3. /\ n \in Doing /\ n.op = s.op /\ n.cred = d /\ n.res = s.res /\ n.store = s.store
        /\ n.at = IF s.op = "login" THEN "enter" ELSE "save"
    BY <1>3, <1>7, <2>2 DEF Doing, Place
  <2>4. step' \in [Proc -> Doing] /\ \A q \in Proc \ {p} : step'[q] = step[q]
    BY <1>11, <2>1, <2>3, CredTypes DEF Go
  <2>5. Moves(p)
    BY <1>5, <1>11, <2>4, CredTypes DEF Moves
  <2>6. Sound(step[p])'
    <3>1. Owned(d, s.res)' /\ Kept(d)' /\ Issued(d)'
      BY <1>4, <1>7 DEF Owned, Kept, Newest, Issued, Cred, Gen
    <3>2. \A r \in Resource : file'[r] # NoCred => file'[r].fam # d.fam
      BY <1>5, <1>7, <1>9
    <3> QED
      BY <1>3, <1>7, <2>1, <2>3, <3>1, <3>2 DEF Sound, Pending, Owned, Kept, Newest, Issued
  <2>7. Holding(p)'
    BY <1>1, <1>3, <1>5, <1>11, <2>1, <2>3 DEF CredInv, Holding, Under
  <2>8. \A q \in Proc \ {p} : (Apart(p, q) /\ Apart(q, p))'
    BY <1>7, <1>8, <2>1, <2>3, <2>4 DEF Apart, Pending
  <2> QED
    BY <1>4, <1>10, <2>4, <2>5, <2>6, <2>7, <2>8, StepKeeps
<1>12. CASE Fail(p) /\ torn' = torn \cup {f}
  <2>1. Moves(p) /\ Left(step[p])'
    BY <1>5, <1>12, CredTypes, FinishMoves DEF Fail
  <2>2. \A q \in Proc \ {p} : step'[q] = step[q]
    BY <2>1 DEF Moves
  <2>3. (Sound(step[p]) /\ Holding(p))' /\ ~Pending(step'[p])
    BY <2>1 DEF Left, Sound, Holding, Under, Pending, Issued
  <2>4. \A q \in Proc \ {p} : (Apart(p, q) /\ Apart(q, p))'
    BY <2>3 DEF Apart, Pending
  <2> QED
    BY <1>4, <1>10, <2>1, <2>2, <2>3, <2>4, StepKeeps
<1> QED
  BY <1>2, <1>6, <1>11, <1>12

\* The file is replaced by what the holder of the lock read and changed.
LEMMA SaveKeeps == ASSUME CredInv, NEW p \in Proc, Save(p) PROVE CredInv'
<1>1. PICK s : s = step[p]
  OBVIOUS
<1>2. PICK w : w = Wanted(p)
  OBVIOUS
<1>3. s \in Doing /\ s.res \in Resource /\ s.at = "save" /\ Under(s) /\ Sound(s) /\ Holding(p)
  BY <1>1, CredTypes DEF Save, Under, CredInv, Doing
<1>4. flock = p /\ s.store = file
  BY <1>1, <1>3 DEF Holding
<1>5. /\ w = IF Pending(s) THEN s.cred ELSE NoCred
      /\ w \in Cred \cup {NoCred}
      /\ w # NoCred => /\ Pending(s) /\ w = s.cred /\ w \in Cred
                       /\ Owned(w, s.res) /\ Kept(w) /\ Issued(w)
  <2>1. w = IF Pending(s) THEN s.cred ELSE NoCred
    BY <1>1, <1>2, <1>3 DEF Wanted, Obtains, Pending
  <2>2. Pending(s) => s.cred \in Cred /\ Owned(s.cred, s.res) /\ Kept(s.cred) /\ Issued(s.cred)
    BY <1>3 DEF Sound
  <2> QED
    BY <2>1, <2>2
<1>6. file' = [file EXCEPT ![s.res] = w] /\ intended' = file'
  BY <1>1, <1>2, <1>4, CredTypes DEF Save
<1>7. UNCHANGED <<grant, retired, old, late, torn, replayed>>
  BY DEF Save
<1>8. /\ file' \in Profile /\ file'[s.res] = w
      /\ \A r \in Resource \ {s.res} : file'[r] = file[r]
  BY <1>3, <1>5, <1>6, CredTypes DEF Profile
<1>9. \A q \in Proc \ {p} : ~Under(step[q]) /\ (Pending(step[q]) => step[q].op = "login")
  BY <1>1, <1>3, AloneUnder
<1>10. /\ step'[p] \in Doing /\ step'[p].at = "done" /\ step'[p].op = s.op
       /\ s.op = "token" /\ step'[p].ok => step'[p].cred = w /\ w \in Cred
       /\ step' \in [Proc -> Doing] /\ \A q \in Proc \ {p} : step'[q] = step[q]
       /\ flock' = NoProc
  <2>1. PICK c, ok : Finish(p, c, ok) /\ c \in Cred \cup {NoCred} /\ ok \in BOOLEAN
                     /\ (s.op = "token" /\ ok => c = w)
    <3>1. CASE s.op # "logout" /\ Finish(p, w, TRUE)
      BY <1>5, <3>1
    <3>2. CASE s.op = "logout" /\ Finish(p, IF s.ok /\ Changes(p) THEN s.cred ELSE NoCred, TRUE)
      BY <1>3, <3>2 DEF Doing
    <3>3. CASE Fail(p)
      BY <3>3 DEF Fail
    <3> QED
      BY <1>1, <1>2, <3>1, <3>2, <3>3 DEF Save
  <2>2. step'[p] = [Idle EXCEPT !.at = "done", !.op = s.op, !.cred = c, !.ok = ok]
    BY <1>1, <2>1, CredTypes DEF Finish
  <2>3. /\ step'[p] \in Doing /\ step'[p].at = "done" /\ step'[p].op = s.op
        /\ step'[p].cred = c /\ step'[p].ok = ok
    BY <1>3, <2>1, <2>2, IdleIsTyped DEF Doing, Place
  <2>4. step' \in [Proc -> Doing] /\ \A q \in Proc \ {p} : step'[q] = step[q]
    BY <2>1, <2>3, CredTypes DEF Finish
  <2>5. s.op = "token" => w \in Cred
    BY <1>3, <1>5 DEF Pending, Sound
  <2> QED
    BY <1>4, <2>1, <2>3, <2>4, <2>5 DEF Finish, Release
<1>11. CredentialsTypeOK' /\ grant' \in [Family -> Grants] /\ \A f \in Family : Proper(grant'[f])
  <2>1. flock' \in Proc \cup {NoProc}
    BY <1>10
  <2> QED
    BY <1>6, <1>7, <1>8, <1>10, <2>1 DEF CredInv, CredentialsTypeOK, Doing
<1>12. Filed'
  <2>1. ASSUME NEW r \in Resource, file'[r] # NoCred PROVE (Owned(file[r], r) /\ Issued(file[r]))'
    <3>1. PICK c : c = file'[r]
      OBVIOUS
    <3>2. Owned(c, r) /\ Issued(c)
      BY <1>5, <1>8, <2>1, <3>1 DEF CredInv, Filed
    <3> QED
      BY <1>7, <3>1, <3>2 DEF Owned, Issued
  <2> QED
    BY <2>1 DEF Filed
<1>13. ASSUME NEW q \in Proc \ {p} PROVE (Sound(step[q]) /\ Holding(q))'
  <2>1. PICK x : x = step[q]
    OBVIOUS
  <2>2. step'[q] = x /\ Sound(x) /\ ~Under(x) /\ x \in Doing /\ (Pending(x) => x.op = "login")
    BY <1>9, <1>10, <2>1, CredTypes DEF CredInv
  <2>3. Pending(x) => \A r \in Resource : file'[r] # NoCred => file'[r].fam # x.cred.fam
    <3> SUFFICES ASSUME Pending(x), NEW r \in Resource, file'[r] # NoCred
                 PROVE  file'[r].fam # x.cred.fam
      OBVIOUS
    <3>1. CASE r = s.res
      <4>1. Apart(q, p)
        BY DEF CredInv
      <4> QED
        BY <1>1, <1>5, <1>8, <2>1, <2>2, <3>1, <4>1 DEF Apart
    <3>2. CASE r # s.res
      BY <1>8, <2>2, <3>2 DEF Sound
    <3> QED
      BY <3>1, <3>2
  <2>4. x.at # "use"
    BY <2>2 DEF Under, Sound
  <2>5. Sound(x)'
    BY <1>7, <2>2, <2>3, <2>4 DEF Sound, Pending, Owned, Kept, Newest, Issued
  <2>6. Sound(step[q])'
    BY <2>2, <2>5 DEF Sound, Pending, Owned, Kept, Newest, Issued
  <2>7. Holding(q)'
    BY <2>2 DEF Holding, Under
  <2> QED
    BY <2>6, <2>7
<1>14. (Sound(step[p]) /\ Holding(p))' /\ ~Pending(step'[p])
  <2>1. Holding(p)' /\ ~Pending(step'[p])
    BY <1>10 DEF Holding, Under, Pending
  <2>2. s.op = "token" /\ step'[p].ok => step'[p].cred \in Cred /\ Issued(step[p].cred)'
    <3> SUFFICES ASSUME s.op = "token", step'[p].ok
                 PROVE  step'[p].cred \in Cred /\ Issued(step[p].cred)'
      OBVIOUS
    <3>1. step'[p].cred = w /\ w \in Cred /\ Issued(w)
      BY <1>5, <1>10, NobodyAssumption
    <3> QED
      BY <1>7, <3>1 DEF Issued
  <2> QED
    BY <1>10, <2>1, <2>2 DEF Sound, Issued, Pending
<1>15. ASSUME NEW q \in Proc, NEW x \in Proc \ {q} PROVE Apart(q, x)'
  <2>1. CASE q = p \/ x = p
    BY <1>14, <2>1 DEF Apart
  <2>2. CASE q # p /\ x # p
    <3>1. step'[q] = step[q] /\ step'[x] = step[x] /\ Apart(q, x)
      BY <1>10, <2>2 DEF CredInv
    <3> QED
      BY <3>1 DEF Apart, Pending
  <2> QED
    BY <2>1, <2>2
<1>16. StoredIsCurrent'
  <2>1. ASSUME NEW r \in Resource, file'[r] # NoCred, file'[r].fam \notin torn
        PROVE  grant[file'[r].fam].head \in {0, file'[r].gen} /\ file'[r].gen \notin grant[file'[r].fam].used
    <3>1. CASE r = s.res
      BY <1>5, <1>8, <2>1, <3>1 DEF Kept, Newest
    <3>2. CASE r # s.res
      <4>1. file'[r] = file[r] /\ Owned(file[r], r)
        BY <1>8, <2>1, <3>2 DEF CredInv, Filed
      <4>2. ~\E q \in Proc : Storing(step[q]) /\ step[q].cred.fam = file[r].fam
        <5> SUFFICES ASSUME NEW q \in Proc, Storing(step[q]), step[q].cred.fam = file[r].fam
                     PROVE  FALSE
          OBVIOUS
        <5>1. q = p
          BY <1>9 DEF Storing, Under
        <5>2. Owned(s.cred, s.res)
          BY <1>1, <1>3, <5>1 DEF Sound, Pending, Storing
        <5> QED
          BY <1>1, <3>2, <4>1, <5>1, <5>2 DEF Owned
      <4> QED
        BY <2>1, <4>1, <4>2 DEF CredInv, StoredIsCurrent, Used, Storing
    <3> QED
      BY <3>1, <3>2
  <2> QED
    BY <1>7, <2>1 DEF StoredIsCurrent, Used
<1>17. NoSelfReplay' /\ ProfilesAreKept'
  BY <1>6, <1>7 DEF CredInv, NoSelfReplay, ProfilesAreKept
<1>18. \A q \in Proc : Sound(step[q])' /\ Holding(q)' /\ \A x \in Proc \ {q} : Apart(q, x)'
  BY <1>13, <1>14, <1>15
<1> QED
  BY <1>11, <1>12, <1>16, <1>17, <1>18 DEF CredInv

-----------------------------------------------------------------------------
(* Every step of the Relay and of a process.                               *)

\* The Relay acts by itself: nobody moves, and what was kept is.
LEMMA RelayStepKeeps ==
  ASSUME CredInv, Later, UNCHANGED <<file, flock, step, intended>>,
         old' \subseteq Cred, retired' \subseteq Resource, late' \in [Cred -> Nat],
         torn \subseteq torn', torn' \subseteq Family, replayed' \subseteq torn',
         \A c \in Cred : Kept(c) => Kept(c)'
  PROVE  CredInv'
<1>1. CredentialsTypeOK'
  BY CredTypes DEF CredInv, CredentialsTypeOK, Later, Grants
<1>2. ASSUME NEW r \in Resource, file[r] # NoCred
      PROVE  (Owned(file[r], r) /\ Issued(file[r]))' /\ (Kept(file[r]) => Kept(file[r])')
  <2>1. PICK c : c = file[r]
    OBVIOUS
  <2>2. c \in Cred /\ Owned(c, r) /\ Issued(c) /\ file'[r] = c
    BY <1>2, <2>1, CredTypes DEF CredInv, Filed, Profile
  <2>3. Issued(c)' /\ Owned(c, r)' /\ (Kept(c) => Kept(c)')
    BY <2>2 DEF Later, Owned, Cred
  <2> QED
    BY <2>1, <2>2, <2>3 DEF Owned, Issued, Kept, Newest
<1>3. ASSUME NEW q \in Proc PROVE (Sound(step[q]) /\ Holding(q) /\ \A x \in Proc \ {q} : Apart(q, x))'
  <2>1. PICK s : s = step[q]
    OBVIOUS
  <2>2. s \in Doing /\ Sound(s) /\ step'[q] = s
    BY <2>1, CredTypes DEF CredInv
  <2>3. Pending(s) => Kept(s.cred)'
    BY <2>2 DEF Sound
  <2>4. Sound(s)'
    BY <2>2, <2>3, SoundStays
  <2>5. Sound(step[q])'
    BY <2>2, <2>4 DEF Sound, Pending, Owned, Kept, Newest, Issued
  <2>6. Holding(q)' /\ \A x \in Proc \ {q} : Apart(q, x)'
    BY DEF CredInv, Holding, Under, Apart, Pending
  <2> QED
    BY <2>5, <2>6
<1>4. Filed'
  BY <1>2 DEF Filed
<1>5. StoredIsCurrent'
  <2>1. ASSUME NEW r \in Resource, file'[r] # NoCred, file'[r].fam \notin torn'
        PROVE  \/ grant'[file'[r].fam].head \in {0, file'[r].gen} /\ ~Used(file[r])'
               \/ \E q \in Proc : step'[q].at = "save" /\ step'[q].op = "token"
                                  /\ step'[q].cred.fam = file'[r].fam
    BY <1>2, <2>1 DEF CredInv, StoredIsCurrent, Used, Kept, Newest
  <2> QED
    BY <2>1 DEF StoredIsCurrent
<1>6. NoSelfReplay' /\ ProfilesAreKept'
  BY DEF CredInv, NoSelfReplay, ProfilesAreKept
<1> QED
  BY <1>1, <1>3, <1>4, <1>5, <1>6 DEF CredInv, Later

LEMMA HandleLateKeeps == ASSUME CredInv, NEW c \in Cred, HandleLate(c) PROVE CredInv'
<1>1. /\ UNCHANGED <<file, flock, step, intended>> /\ old' \subseteq Cred /\ retired' \subseteq Resource
      /\ late' \in [Cred -> Nat] /\ c.fam \in Family
  <2>1. late[c] \in Nat /\ late[c] > 0 /\ late' = [late EXCEPT ![c] = late[c] - 1]
    BY CredTypes DEF HandleLate
  <2>2. late' \in [Cred -> Nat]
    BY <2>1, CredTypes
  <2> QED
    BY <2>2, CredTypes DEF HandleLate, Cred
<1>2. CASE Current(c) /\ c.gen < MaxGen /\ grant' = Rotated(c) /\ torn' = torn \cup {c.fam} /\ UNCHANGED replayed
  <2>1. Later /\ \A f \in Family \ {c.fam} : grant'[f] = grant[f]
    BY <1>2, RotatedLater
  <2>2. \A d \in Cred : Kept(d) => Kept(d)'
    BY <1>2, <2>1 DEF Kept, Newest, Cred
  <2> QED
    BY <1>1, <1>2, <2>1, <2>2, CredTypes, RelayStepKeeps
<1>3. CASE /\ grant' = Declined(c)
           /\ torn' = IF Used(c) THEN torn \cup {c.fam} ELSE torn
           /\ replayed' = IF Used(c) THEN replayed \cup {c.fam} ELSE replayed
  <2>1. Later /\ \A d \in Cred : Newest(d) => Newest(d)'
    BY <1>3, DeclinedFades, FadesIsLater
  <2>2. torn \subseteq torn' /\ torn' \subseteq Family /\ replayed' \subseteq torn'
    BY <1>1, <1>3, CredTypes
  <2>3. \A d \in Cred : Kept(d) => Kept(d)'
    BY <2>1, <2>2 DEF Kept
  <2> QED
    BY <1>1, <2>1, <2>2, <2>3, RelayStepKeeps
<1> QED
  BY <1>2, <1>3 DEF HandleLate

LEMMA RelayKeeps == ASSUME CredInv, RelayNext PROVE CredInv'
<1> DEFINE Quiet == Fades /\ UNCHANGED <<late, file, flock, step, history>>
                    /\ old' \subseteq Cred /\ retired' \subseteq Resource
<1>1. ASSUME NEW c \in Cred, GrowOld(c) PROVE Quiet
  BY <1>1, SameFades, CredTypes DEF GrowOld
<1>2. ASSUME NEW c \in Cred, Expire(c) PROVE Quiet
  BY <1>2, ExpiredFades, CredTypes DEF Expire
<1>3. ASSUME NEW f \in Family, RevokeFamily(f) PROVE Quiet
  BY <1>3, RevokedFades, CredTypes DEF RevokeFamily
<1>4. ASSUME NEW r \in Resource, Retire(r) PROVE Quiet
  BY <1>4, RevokedFades, CredTypes DEF Retire
<1>5. ASSUME Quiet PROVE CredInv'
  <2>1. Later /\ \A c \in Cred : Newest(c) => Newest(c)'
    BY <1>5, FadesIsLater
  <2>2. \A c \in Cred : Kept(c) => Kept(c)'
    BY <1>5, <2>1 DEF Kept, history
  <2> QED
    BY <1>5, <2>1, <2>2, CredTypes, RelayStepKeeps DEF history
<1> QED
  BY <1>1, <1>2, <1>3, <1>4, <1>5, HandleLateKeeps DEF RelayNext

LEMMA WorkKeeps == ASSUME CredInv, NEW p \in Proc, Work(p) PROVE CredInv'
<1>1. CASE Lock(p) \/ UseStored(p) \/ RefreshGranted(p) \/ RefreshRefused(p)
  BY <1>1, LockKeeps, UseStoredKeeps, RefreshGrantedKeeps, RefreshRefusedKeeps
<1>2. CASE OpenBrowser(p) \/ GiveUp(p) \/ Approve(p) \/ Deny(p) \/ Exchange(p)
  BY <1>2, OpenBrowserKeeps, GiveUpKeeps, ApproveKeeps, ExchangeKeeps
<1>3. CASE Logout(p) \/ Save(p) \/ SaveFails(p)
  BY <1>3, LogoutKeeps, SaveKeeps, SaveFailsKeeps
<1> QED
  BY <1>1, <1>2, <1>3 DEF Work

LEMMA CredInitially == CredentialsInit => CredInv
<1> SUFFICES ASSUME CredentialsInit PROVE CredInv
  OBVIOUS
<1>1. NoGrant \in Grants /\ Proper(NoGrant)
  BY MaxGenAssumption DEF NoGrant, Grants, Proper
<1>2. grant \in [Family -> Grants] /\ \A f \in Family : grant[f] \in Grants /\ Proper(grant[f])
  BY <1>1 DEF CredentialsInit
<1>3. step \in [Proc -> Doing] /\ \A p \in Proc : step[p] = Idle
  BY IdleIsTyped DEF CredentialsInit
<1>4. file \in Profile /\ intended = file /\ \A r \in Resource : file[r] = NoCred
  BY DEF CredentialsInit, Profile
<1>5. CredentialsTypeOK
  BY <1>2, <1>3, <1>4 DEF CredentialsTypeOK, CredentialsInit, Doing, Grants
<1>6. \A p \in Proc : Sound(step[p]) /\ Holding(p) /\ \A q \in Proc \ {p} : Apart(p, q)
  <2>1. Idle.at = "idle"
    BY DEF Idle
  <2>2. \A p \in Proc : step[p].at = "idle"
    BY <1>3, <2>1
  <2> QED
    BY <2>2 DEF Sound, Holding, Under, Pending, Apart
<1>7. Filed /\ StoredIsCurrent /\ NoSelfReplay /\ ProfilesAreKept
  BY <1>4 DEF Filed, StoredIsCurrent, Used, NoSelfReplay, ProfilesAreKept, CredentialsInit
<1> QED
  BY <1>2, <1>5, <1>6, <1>7 DEF CredInv

-----------------------------------------------------------------------------
(* The connection loop.                                                    *)

\* Refused for good: issued, and the Relay no longer knows its access token.
Dead(c) == Issued(c) /\ ~Live(c)

\* What the loop knows in its place, and of what it saw refused.
LinkInv ==
  /\ LinkTypeOK
  /\ \A a \in Agent :
       /\ phase[a] = "token" => step[a].op = "token"
       /\ phase[a] \in {"challenge", "dial", "up"} => held[a] \in Cred /\ Issued(held[a])
       /\ \A c \in refused[a] : Dead(c)
  /\ RejectedWorkEnds /\ RefusedStaysOut

\* No step of the Relay revives an access token.
Buries == \A c \in Cred : (Issued(c) => Issued(c)') /\ (Dead(c) => Dead(c)')

AgentInv == CredInv /\ LinkInv

LEMMA FadesBuries ==
  ASSUME CredInv, Fades, \A f \in Family : grant'[f].live \subseteq grant[f].live
  PROVE  Buries
<1>1. \A c \in Cred : Issued(c) => Issued(c)'
  BY FadesIsLater DEF Later
<1> QED
  BY <1>1 DEF Buries, Dead, Live, Cred

LEMMA RevokedBuries == ASSUME CredInv, NEW F, grant' = Revoked(F) PROVE Buries
<1>1. \A f \in Family : grant'[f].live \subseteq grant[f].live
  BY DEF Revoked, NoGrant
<1> QED
  BY <1>1, RevokedFades, FadesBuries

LEMMA SameBuries == ASSUME CredInv, UNCHANGED grant PROVE Buries
<1> QED
  BY SameFades, FadesBuries

LEMMA RotatedBuries ==
  ASSUME CredInv, NEW c \in Cred, Current(c), c.gen < MaxGen, grant' = Rotated(c)
  PROVE  Buries
<1>1. /\ Later /\ Issued(c) /\ grant'[c.fam].live = grant[c.fam].live \cup {c.gen + 1}
      /\ \A f \in Family \ {c.fam} : grant'[f] = grant[f]
  BY RotatedLater
<1>2. ASSUME NEW d \in Cred, Dead(d) PROVE Dead(d)'
  <2>1. Issued(d)' /\ d.fam \in Family /\ d.gen \in Nat /\ c.gen \in 1..MaxGen
    BY <1>1, <1>2, MaxGenAssumption DEF Later, Dead, Cred, Gen
  <2>2. CASE d.fam = c.fam
    <3>1. d.gen <= c.gen
      BY <1>2, <2>1, <2>2 DEF Dead, Issued, Current
    <3> QED
      BY <1>1, <1>2, <2>1, <2>2, <3>1 DEF Dead, Live
  <2>3. CASE d.fam # c.fam
    BY <1>1, <1>2, <2>1, <2>3 DEF Dead, Live
  <2> QED
    BY <2>2, <2>3
<1> QED
  BY <1>1, <1>2 DEF Buries, Later

LEMMA DeclinedBuries == ASSUME CredInv, NEW c \in Cred, grant' = Declined(c) PROVE Buries
<1> QED
  BY DeclinedFades, FadesBuries

LEMMA RelayBuries == ASSUME CredInv, RelayNext PROVE Buries
<1>1. ASSUME NEW c \in Cred, GrowOld(c) PROVE Buries
  BY <1>1, SameBuries DEF GrowOld
<1>2. ASSUME NEW c \in Cred, Expire(c) PROVE Buries
  BY <1>2, ExpiredFades, FadesBuries DEF Expire
<1>3. ASSUME NEW f \in Family, RevokeFamily(f) PROVE Buries
  BY <1>3, RevokedBuries DEF RevokeFamily
<1>4. ASSUME NEW r \in Resource, Retire(r) PROVE Buries
  BY <1>4, RevokedBuries DEF Retire
<1>5. ASSUME NEW c \in Cred, HandleLate(c) PROVE Buries
  BY <1>5, RotatedBuries, DeclinedBuries DEF HandleLate
<1> QED
  BY <1>1, <1>2, <1>3, <1>4, <1>5 DEF RelayNext

LEMMA WorkBuries == ASSUME CredInv, NEW p \in Proc, Work(p) PROVE Buries
<1>1. CASE grant' = grant
  BY <1>1, SameBuries
<1>2. CASE \E F : grant' = Revoked(F)
  BY <1>2, RevokedBuries
<1>3. CASE RefreshGranted(p) \/ RefreshRefused(p)
  <2>1. PICK c : c = step[p].cred
    OBVIOUS
  <2>2. c \in Cred
    BY <1>3, <2>1, CredTypes DEF RefreshGranted, RefreshRefused, Refreshes
  <2> QED
    BY <1>3, <2>1, <2>2, RotatedBuries, DeclinedBuries DEF RefreshGranted, RefreshRefused
<1>4. CASE Exchange(p)
  <2>1. PICK r : r = step[p].res
    OBVIOUS
  <2>2. r \in Resource
    BY <2>1, CredTypes DEF Doing
  <2>3. PICK f \in Family :
          /\ grant[f].of = {}
          /\ grant' = [grant EXCEPT ![f] = [of |-> {r}, head |-> 1, live |-> {1}, used |-> {}]]
    BY <1>4, <2>1 DEF Exchange
  <2>4. Later /\ \A g \in Family \ {f} : grant'[g] = grant[g]
    BY <2>2, <2>3, IssuedLater
  <2>5. ASSUME NEW d \in Cred, Dead(d) PROVE Dead(d)'
    <3>1. Issued(d)' /\ d.fam \in Family \ {f}
      BY <2>3, <2>4, <2>5 DEF Later, Dead, Cred, Issued
    <3> QED
      BY <2>4, <2>5, <3>1 DEF Dead, Live
  <2> QED
    BY <2>4, <2>5 DEF Buries, Later
<1> QED
  BY <1>1, <1>2, <1>3, <1>4
  DEF Work, Lock, Locked, UseStored, OpenBrowser, GiveUp, Approve, Deny, Logout,
      Save, SaveFails

\* The loop of an Agent whose variables do not change.
LEMMA LoopStays ==
  ASSUME LinkInv, Buries, UNCHANGED linkVars,
         \A a \in Agent : phase[a] = "token" => step'[a].op = "token"
  PROVE  LinkInv'
<1>1. \A a \in Agent : held[a] \in Cred /\ Issued(held[a]) => Issued(held[a])'
  BY DEF Buries, linkVars, Issued
<1>2. \A a \in Agent : \A c \in refused[a] : Dead(c)'
  BY DEF LinkInv, Buries, LinkTypeOK
<1> QED
  BY <1>1, <1>2 DEF LinkInv, linkVars, LinkTypeOK, RejectedWorkEnds, RefusedStaysOut

\* No step of a request makes it one of another kind.
LEMMA WorkKeepsOp ==
  ASSUME CredInv, NEW p \in Proc, Work(p)
  PROVE  step'[p].op = step[p].op /\ \A q \in Proc \ {p} : step'[q] = step[q]
<1>1. step \in [Proc -> Doing] /\ step[p] \in Doing
  BY CredTypes
<1>2. \A c, ok : Finish(p, c, ok) =>
        step'[p].op = step[p].op /\ \A q \in Proc \ {p} : step'[q] = step[q]
  BY <1>1 DEF Finish, Idle
<1>3. \A place, c : Go(p, place, c) =>
        step'[p].op = step[p].op /\ \A q \in Proc \ {p} : step'[q] = step[q]
  BY <1>1 DEF Go, Doing
<1>4. CASE Lock(p)
  BY <1>1, <1>4 DEF Lock, Locked, Doing
<1>5. CASE Logout(p)
  <2>1. PICK c : c = file[step[p].res]
    OBVIOUS
  <2>2. \/ Go(p, "enter", c)
        \/ step' = [step EXCEPT ![p] = [@ EXCEPT !.at = "enter", !.cred = c, !.ok = TRUE]]
    BY <1>5, <2>1 DEF Logout
  <2>3. CASE step' = [step EXCEPT ![p] = [@ EXCEPT !.at = "enter", !.cred = c, !.ok = TRUE]]
    BY <1>1, <2>3 DEF Doing
  <2> QED
    BY <1>3, <2>2, <2>3
<1>6. CASE UseStored(p) \/ RefreshGranted(p) \/ RefreshRefused(p) \/ OpenBrowser(p) \/ GiveUp(p)
           \/ Approve(p) \/ Deny(p)
  BY <1>2, <1>3, <1>6
  DEF UseStored, RefreshGranted, RefreshRefused, OpenBrowser, GiveUp, Approve, Deny, Fail
<1>7. CASE Exchange(p)
  BY <1>2, <1>3, <1>7 DEF Exchange, Fail
<1>8. CASE Save(p) \/ SaveFails(p)
  BY <1>2, <1>8 DEF Save, SaveFails, Fail
<1> QED
  BY <1>4, <1>5, <1>6, <1>7, <1>8 DEF Work

\* One Agent moves on; the others and their operations are where they were.
LEMMA LoopMoves ==
  ASSUME LinkInv, Buries, NEW a \in Agent, LinkTypeOK',
         \A b \in Agent \ {a} : /\ phase'[b] = phase[b] /\ held'[b] = held[b]
                                /\ jobs'[b] = jobs[b] /\ refused'[b] = refused[b]
                                /\ step'[b].op = step[b].op,
         phase'[a] = "token" => step'[a].op = "token",
         phase'[a] \in {"challenge", "dial", "up"} => held'[a] \in Cred /\ Issued(held[a])',
         \A c \in refused'[a] : Dead(c)',
         jobs'[a] \cap refused'[a] = {},
         phase'[a] \in {"dial", "up"} => held'[a] \notin refused'[a]
  PROVE  LinkInv'
<1>1. ASSUME NEW b \in Agent \ {a}
      PROVE  /\ phase'[b] = "token" => step'[b].op = "token"
             /\ phase'[b] \in {"challenge", "dial", "up"} => held'[b] \in Cred /\ Issued(held[b])'
             /\ \A c \in refused'[b] : Dead(c)'
             /\ jobs'[b] \cap refused'[b] = {}
             /\ phase'[b] \in {"dial", "up"} => held'[b] \notin refused'[b]
  <2>1. PICK h : h = held[b]
    OBVIOUS
  <2>2. phase[b] \in {"challenge", "dial", "up"} => h \in Cred /\ Issued(h)'
    BY <2>1 DEF LinkInv, Buries
  <2>3. Issued(h)' => Issued(held[b])'
    BY <2>1 DEF Issued
  <2>4. \A c \in refused[b] : Dead(c)'
    BY DEF LinkInv, Buries, LinkTypeOK
  <2> QED
    BY <2>1, <2>2, <2>3, <2>4 DEF LinkInv, RejectedWorkEnds, RefusedStaysOut
<1> QED
  BY <1>1 DEF LinkInv, RejectedWorkEnds, RefusedStaysOut

\* What the loop has been told is true after any step.
LEMMA LoopRemembers ==
  ASSUME LinkInv, Buries, NEW a \in Agent, held'[a] = held[a]
  PROVE  /\ phase[a] \in {"challenge", "dial", "up"} => held'[a] \in Cred /\ Issued(held[a])'
         /\ \A c \in refused[a] : c \in Cred /\ Dead(c)'
<1>1. PICK h : h = held[a]
  OBVIOUS
<1>2. phase[a] \in {"challenge", "dial", "up"} => h \in Cred /\ Issued(h)'
  BY <1>1 DEF LinkInv, Buries
<1> QED
  BY <1>1, <1>2 DEF LinkInv, Buries, LinkTypeOK, Issued

\* The loop takes its next operation from the start.
LEMMA BeginIs ==
  ASSUME CredInv, NEW p \in Proc, NEW op \in Op, NEW r \in Resource, Begin(p, op, r)
  PROVE  step'[p].op = op /\ \A q \in Proc \ {p} : step'[q] = step[q]
<1> QED
  BY CredTypes DEF Begin, Idle

LEMMA LoopTypes ==
  ASSUME LinkInv
  PROVE  /\ phase \in [Agent -> Phase] /\ held \in [Agent -> Cred \cup {NoCred}]
         /\ jobs \in [Agent -> SUBSET Cred] /\ orphans \in [Agent -> SUBSET Cred]
         /\ refused \in [Agent -> SUBSET Cred]
         /\ Agent \subseteq Proc /\ DeviceOf \in [Agent -> Resource]
         /\ \A a \in Agent : jobs[a] \cap refused[a] = {}
         /\ \A a \in Agent : phase[a] \in {"dial", "up"} => held[a] \notin refused[a]
<1> QED
  BY AgentAssumption DEF LinkInv, LinkTypeOK, RejectedWorkEnds, RefusedStaysOut

LEMMA AsksKeeps ==
  ASSUME AgentInv, NEW a \in Agent, Connect(a) \/ Again(a)
  PROVE  AgentInv'
<1>1. /\ Begin(a, "token", DeviceOf[a]) /\ phase' = [phase EXCEPT ![a] = "token"]
      /\ UNCHANGED <<held, jobs, orphans, refused, flock, grant, retired, old, late, file, history>>
  BY DEF Connect, Again, At, CredUnchanged
<1>2. a \in Proc /\ DeviceOf[a] \in Resource /\ "token" \in Op
  BY LoopTypes DEF AgentInv, Op
<1>3. CredInv' /\ Buries
  BY <1>1, <1>2, BeginKeeps, SameBuries DEF AgentInv
<1>4. step'[a].op = "token" /\ \A q \in Proc \ {a} : step'[q] = step[q]
  BY <1>1, <1>2, BeginIs DEF AgentInv
<1>5. LinkTypeOK' /\ phase'[a] = "token" /\ \A b \in Agent \ {a} : phase'[b] = phase[b]
  BY <1>1, LoopTypes DEF LinkTypeOK, Phase, AgentInv
<1>6. \A c \in refused'[a] : Dead(c)'
  BY <1>1, <1>3, LoopRemembers DEF AgentInv
<1> QED
  BY <1>1, <1>2, <1>3, <1>4, <1>5, <1>6, LoopTypes, LoopMoves DEF AgentInv

LEMMA ObtainedKeeps == ASSUME AgentInv, NEW a \in Agent, Obtained(a) PROVE AgentInv'
<1>1. PICK s : s = step[a]
  OBVIOUS
<1>2. /\ phase[a] = "token" /\ s.at = "done" /\ held' = [held EXCEPT ![a] = s.cred]
      /\ phase' = [phase EXCEPT ![a] = IF s.ok THEN "challenge" ELSE "wait"]
      /\ step' = [step EXCEPT ![a] = Idle]
      /\ UNCHANGED <<jobs, orphans, refused, flock, grant, retired, old, late, file, history>>
  BY <1>1 DEF Obtained, At, CredUnchanged
<1>3. a \in Proc /\ s \in Doing /\ s.op = "token" /\ Sound(s)
  BY <1>1, <1>2, LoopTypes, CredTypes DEF AgentInv, LinkInv, CredInv
<1>4. s.ok => s.cred \in Cred /\ Issued(s.cred)
  BY <1>2, <1>3 DEF Sound
<1>5. Idle.at = "idle"
  BY DEF Idle
<1>6. CredInv' /\ Buries
  BY <1>1, <1>2, <1>3, <1>5, IdleIsTyped, RestsKeeps, SameBuries DEF AgentInv
<1>7. LinkTypeOK' /\ held'[a] = s.cred /\ phase'[a] = (IF s.ok THEN "challenge" ELSE "wait")
  BY <1>2, <1>3, LoopTypes DEF LinkTypeOK, Phase, AgentInv, Doing
<1>8. \A b \in Agent \ {a} : phase'[b] = phase[b] /\ held'[b] = held[b] /\ step'[b] = step[b]
  BY <1>2, LoopTypes, CredTypes DEF AgentInv
<1>9. \A c \in refused'[a] : Dead(c)'
  BY <1>2, <1>6 DEF AgentInv, LinkInv, LinkTypeOK, Buries
<1>10. phase'[a] \in {"challenge", "dial", "up"} => held'[a] \in Cred /\ Issued(held[a])'
  BY <1>2, <1>4, <1>7 DEF Issued
<1> QED
  BY <1>2, <1>6, <1>7, <1>8, <1>9, <1>10, LoopTypes, LoopMoves DEF AgentInv

\* Where nothing of the credentials changes.
LEMMA CredStutter == ASSUME CredInv, UNCHANGED credVars PROVE CredInv'
<1>1. UNCHANGED <<grant, retired, old, late, file, flock, step, torn, replayed, intended>>
  BY DEF credVars, history
<1>2. (CredentialsTypeOK /\ ProfilesAreKept /\ NoSelfReplay)'
  BY <1>1 DEF CredInv, CredentialsTypeOK, ProfilesAreKept, NoSelfReplay
<1>3. (grant \in [Family -> Grants] /\ \A f \in Family : Proper(grant[f]))'
  BY <1>1 DEF CredInv
<1>4. Filed' /\ StoredIsCurrent'
  BY <1>1 DEF CredInv, Filed, StoredIsCurrent, Used, Owned, Issued, Kept, Newest
<1>5. \A p \in Proc : Sound(step[p])'
  BY <1>1 DEF CredInv, Sound, Pending, Owned, Issued, Kept, Newest
<1>6. \A p \in Proc : Holding(p)' /\ \A q \in Proc \ {p} : Apart(p, q)'
  BY <1>1 DEF CredInv, Holding, Apart, Under, Pending
<1> QED
  BY <1>2, <1>3, <1>4, <1>5, <1>6 DEF CredInv

\* The loop goes on with what it holds.
LEMMA GoesOnKeeps ==
  ASSUME AgentInv, NEW a \in Agent, UNCHANGED <<held, refused>>, UNCHANGED credVars,
         NEW at \in Phase \ {"token"}, phase' = [phase EXCEPT ![a] = at],
         NEW left \in SUBSET Cred, jobs' = [jobs EXCEPT ![a] = left], orphans' \in [Agent -> SUBSET Cred],
         at \in {"challenge", "dial", "up"} => phase[a] \in {"challenge", "dial", "up"},
         left \cap refused[a] = {}, at \in {"dial", "up"} => held[a] \notin refused[a]
  PROVE  AgentInv'
<1>1. CredInv'
  BY CredStutter DEF AgentInv
<1>2. Buries
  BY SameBuries DEF AgentInv, credVars
<1>3. LinkTypeOK' /\ phase'[a] = at /\ jobs'[a] = left
  BY LoopTypes DEF LinkTypeOK, AgentInv
<1>4. \A b \in Agent \ {a} : phase'[b] = phase[b] /\ jobs'[b] = jobs[b]
  BY LoopTypes DEF AgentInv
<1>5. step' = step /\ held' = held /\ refused' = refused
  BY DEF credVars
<1>6. \A c \in refused'[a] : Dead(c)'
  BY <1>2, <1>5, LoopRemembers DEF AgentInv
<1>7. phase'[a] \in {"challenge", "dial", "up"} => held'[a] \in Cred /\ Issued(held[a])'
  BY <1>2, <1>3, <1>5, LoopRemembers DEF AgentInv
<1> QED
  BY <1>1, <1>2, <1>3, <1>4, <1>5, <1>6, <1>7, LoopMoves DEF AgentInv

\* A token that the Relay knows was not refused.
LEMMA LiveIsAccepted ==
  ASSUME AgentInv, NEW a \in Agent, Live(held[a])
  PROVE  held[a] \notin refused[a]
<1> QED
  BY DEF AgentInv, LinkInv, Dead

LEMMA ConnectionKeeps ==
  ASSUME AgentInv, NEW a \in Agent,
         \/ Challenged(a) \/ Gone(a) \/ Dialed(a) \/ StartJob(a) \/ Disconnected(a)
         \/ \E c \in Cred : JobsEnd(a, c)
  PROVE  AgentInv'
<1>1. /\ jobs[a] \in SUBSET Cred /\ jobs[a] \cap refused[a] = {} /\ jobs = [jobs EXCEPT ![a] = jobs[a]]
      /\ phase = [phase EXCEPT ![a] = phase[a]] /\ orphans \in [Agent -> SUBSET Cred]
  BY LoopTypes DEF AgentInv
<1>2. PICK j : j = jobs[a]
  OBVIOUS
<1>3. CASE Challenged(a) \/ Dialed(a) \/ Disconnected(a)
  <2>1. PICK at \in {"dial", "up", "wait"} :
          /\ phase' = [phase EXCEPT ![a] = at] /\ phase[a] \in {"challenge", "dial", "up"}
          /\ at \in {"dial", "up"} => Live(held[a])
    BY <1>3 DEF Challenged, Dialed, Disconnected, At
  <2>2. UNCHANGED <<held, jobs, orphans, refused>> /\ UNCHANGED credVars
    BY <1>3 DEF Challenged, Dialed, Disconnected
  <2>3. at \in {"dial", "up"} => held[a] \notin refused[a]
    BY <2>1, LiveIsAccepted
  <2> QED
    BY <1>1, <1>2, <2>1, <2>2, <2>3, GoesOnKeeps DEF Phase
<1>4. CASE Gone(a)
  <2>1. /\ phase' = [phase EXCEPT ![a] = "off"] /\ jobs' = [jobs EXCEPT ![a] = {}]
        /\ UNCHANGED <<held, orphans, refused>> /\ UNCHANGED credVars
    BY <1>4 DEF Gone, At
  <2>2. orphans' \in [Agent -> SUBSET Cred] /\ {} \in SUBSET Cred /\ {} \cap refused[a] = {}
    BY <1>1, <2>1
  <2>3. "off" \in Phase \ {"token"} /\ "off" \notin {"challenge", "dial", "up"}
    BY DEF Phase
  <2> QED
    BY ONLY AgentInv, a \in Agent, <2>1, <2>2, <2>3, GoesOnKeeps
<1>5. CASE StartJob(a)
  <2>1. PICK h : h = held[a]
    OBVIOUS
  <2>2. h \in Cred /\ phase[a] = "up" /\ h \notin refused[a]
    BY <1>5, <2>1, LoopTypes DEF StartJob, AgentInv, LinkInv
  <2>3. j \cup {h} \in SUBSET Cred /\ (j \cup {h}) \cap refused[a] = {}
    BY <1>1, <1>2, <2>2
  <2>4. /\ jobs' = [jobs EXCEPT ![a] = j \cup {h}] /\ phase' = [phase EXCEPT ![a] = "up"]
        /\ UNCHANGED <<held, orphans, refused>> /\ UNCHANGED credVars
    BY <1>1, <1>2, <1>5, <2>1, <2>2 DEF StartJob
  <2> QED
    BY <1>1, <2>1, <2>2, <2>3, <2>4, GoesOnKeeps DEF Phase
<1>6. CASE \E c \in Cred : JobsEnd(a, c)
  <2>1. PICK c \in Cred : JobsEnd(a, c)
    BY <1>6
  <2>2. PICK left \in SUBSET Cred : left \subseteq j /\ jobs' = [jobs EXCEPT ![a] = left]
    <3>1. CASE jobs' = [jobs EXCEPT ![a] = @ \ {c}]
      BY <1>1, <1>2, <3>1
    <3>2. CASE UNCHANGED jobs
      BY <1>1, <1>2, <3>2
    <3> QED
      BY <2>1, <3>1, <3>2 DEF JobsEnd
  <2>3. UNCHANGED <<phase, held, refused>> /\ UNCHANGED credVars /\ orphans' \in [Agent -> SUBSET Cred]
    BY <1>1, <2>1 DEF JobsEnd
  <2>4. LinkTypeOK' /\ jobs'[a] = left /\ \A b \in Agent \ {a} : jobs'[b] = jobs[b]
    BY <2>2, <2>3, LoopTypes DEF LinkTypeOK, AgentInv
  <2>5. CredInv' /\ Buries /\ step' = step
    BY <2>3, CredStutter, SameBuries DEF AgentInv, credVars
  <2>6. \A x \in refused'[a] : Dead(x)'
    BY <2>3, <2>5, LoopRemembers DEF AgentInv
  <2>7. phase'[a] \in {"challenge", "dial", "up"} => held'[a] \in Cred /\ Issued(held[a])'
    BY <2>3, <2>5, LoopRemembers DEF AgentInv
  <2>8. jobs'[a] \cap refused'[a] = {} /\ (phase'[a] \in {"dial", "up"} => held'[a] \notin refused'[a])
    BY <1>1, <1>2, <2>2, <2>3, <2>4, LoopTypes DEF AgentInv
  <2>9. phase'[a] = "token" => step'[a].op = "token"
    BY <2>3, <2>5 DEF AgentInv, LinkInv
  <2> QED
    BY <2>3, <2>4, <2>5, <2>6, <2>7, <2>8, <2>9, LoopMoves DEF AgentInv
<1> QED
  BY <1>3, <1>4, <1>5, <1>6

LEMMA RejectedKeeps == ASSUME AgentInv, NEW a \in Agent, Rejected(a) PROVE AgentInv'
<1>1. PICK h : h = held[a]
  OBVIOUS
<1>2. /\ phase[a] = "challenge" /\ ~Live(h) /\ Begin(a, "forget", DeviceOf[a])
      /\ jobs' = [jobs EXCEPT ![a] = {}] /\ refused' = [refused EXCEPT ![a] = refused[a] \cup {h}]
      /\ phase' = [phase EXCEPT ![a] = "forget"]
      /\ UNCHANGED <<held, orphans, flock, grant, retired, old, late, file, history>>
  BY <1>1 DEF Rejected, RejectedLeaving, At, CredUnchanged
<1>3. a \in Proc /\ DeviceOf[a] \in Resource /\ "forget" \in Op
  BY LoopTypes DEF AgentInv, Op
<1>4. CredInv' /\ Buries
  BY <1>2, <1>3, BeginKeeps, SameBuries DEF AgentInv
<1>5. h \in Cred /\ Dead(h)
  BY <1>1, <1>2 DEF AgentInv, LinkInv, Dead
<1>6. /\ LinkTypeOK' /\ phase'[a] = "forget" /\ jobs'[a] = {} /\ refused'[a] = refused[a] \cup {h}
      /\ \A b \in Agent \ {a} : /\ phase'[b] = phase[b] /\ jobs'[b] = jobs[b]
                                /\ refused'[b] = refused[b]
  BY <1>2, <1>5, LoopTypes DEF LinkTypeOK, Phase, AgentInv
<1>7. \A q \in Proc \ {a} : step'[q] = step[q]
  BY <1>2, <1>3, BeginIs DEF AgentInv
<1>8. \A c \in refused'[a] : Dead(c)'
  BY <1>2, <1>4, <1>5, <1>6, LoopRemembers DEF AgentInv, Buries
<1> QED
  BY <1>2, <1>4, <1>6, <1>7, <1>8, LoopTypes, LoopMoves DEF AgentInv

LEMMA ForgottenKeeps == ASSUME AgentInv, NEW a \in Agent, Forgotten(a) PROVE AgentInv'
<1>1. PICK k : k = step[a].ok
  OBVIOUS
<1>2. PICK s : s = IF k THEN [Idle EXCEPT !.at = "start", !.op = "token", !.res = DeviceOf[a]] ELSE Idle
  OBVIOUS
<1>3. a \in Proc /\ DeviceOf[a] \in Resource
  BY LoopTypes DEF AgentInv
<1>4. s \in Doing /\ s.at \in {"idle", "start"} /\ (k => s.op = "token")
  BY <1>2, <1>3, IdleIsTyped DEF Doing, Place, Op, Idle
<1>5. /\ step[a].at = "done" /\ step' = [step EXCEPT ![a] = s]
      /\ phase' = [phase EXCEPT ![a] = IF k THEN "token" ELSE "wait"]
      /\ UNCHANGED <<held, jobs, orphans, refused, flock, grant, retired, old, late, file, history>>
  BY <1>1, <1>2 DEF Forgotten, At, CredUnchanged
<1>6. CredInv' /\ Buries
  BY <1>3, <1>4, <1>5, RestsKeeps, SameBuries DEF AgentInv
<1>7. /\ LinkTypeOK' /\ phase'[a] = (IF k THEN "token" ELSE "wait") /\ step'[a] = s
      /\ \A b \in Agent \ {a} : phase'[b] = phase[b] /\ step'[b] = step[b]
  BY <1>3, <1>5, LoopTypes, CredTypes DEF LinkTypeOK, Phase, AgentInv
<1>8. \A c \in refused'[a] : Dead(c)'
  BY <1>5, <1>6, LoopRemembers DEF AgentInv
<1> QED
  BY <1>4, <1>5, <1>6, <1>7, <1>8, LoopTypes, LoopMoves DEF AgentInv

LEMMA StopKeeps == ASSUME AgentInv, NEW a \in Agent, Stop(a) \/ Crash(a) PROVE AgentInv'
<1>1. a \in Proc /\ Die(a) /\ RunEnds(a) /\ refused' = refused
  BY LoopTypes DEF AgentInv, Stop, Crash, RunEnds
<1>2. UNCHANGED grant /\ \A q \in Proc \ {a} : step'[q] = step[q]
  BY <1>1, CredTypes DEF Die, AgentInv
<1>3. CredInv' /\ Buries
  BY <1>1, <1>2, DieKeeps, SameBuries DEF AgentInv
<1>4. orphans' \in [Agent -> SUBSET Cred] /\ jobs' = [jobs EXCEPT ![a] = {}]
  BY LoopTypes DEF AgentInv, Stop, Crash
<1>5. /\ LinkTypeOK' /\ phase'[a] = "off" /\ jobs'[a] = {}
      /\ \A b \in Agent \ {a} : /\ phase'[b] = phase[b] /\ held'[b] = held[b]
                                /\ jobs'[b] = jobs[b]
  BY <1>1, <1>4, LoopTypes DEF LinkTypeOK, Phase, AgentInv, RunEnds, At
<1>6. \A c \in refused'[a] : Dead(c)'
  BY <1>1, <1>3 DEF AgentInv, LinkInv, LinkTypeOK, Buries
<1> QED
  BY <1>1, <1>2, <1>3, <1>5, <1>6, LoopTypes, LoopMoves DEF AgentInv

-----------------------------------------------------------------------------
\* The invariant of the credential file, the Relay's families and the loop holds in
\* every state.
THEOREM AgentInvariant == LinkSpec => []AgentInv
<1>1. CredentialsInit /\ LinkInit => AgentInv
  <2> SUFFICES ASSUME CredentialsInit, LinkInit PROVE AgentInv
    OBVIOUS
  <2>1. CredInv
    BY CredInitially
  <2>2. LinkInv
    BY DEF LinkInit, LinkInv, LinkTypeOK, Phase, RejectedWorkEnds, RefusedStaysOut
  <2> QED
    BY <2>1, <2>2 DEF AgentInv
<1>2. AgentInv /\ [LinkNext]_<<credVars, linkVars>> => AgentInv'
  <2> SUFFICES ASSUME AgentInv, [LinkNext]_<<credVars, linkVars>> PROVE AgentInv'
    OBVIOUS
  <2>1. CASE \E a \in Agent : Loop(a)
    BY <2>1, AsksKeeps, ObtainedKeeps, ConnectionKeeps, RejectedKeeps, ForgottenKeeps, StopKeeps
    DEF Loop
  <2>2. CASE RelayNext /\ UNCHANGED linkVars
    <3>1. CredInv' /\ Buries
      BY <2>2, RelayKeeps, RelayBuries DEF AgentInv
    <3>2. step' = step
      BY <2>2 DEF RelayNext, GrowOld, Expire, RevokeFamily, Retire, HandleLate
    <3> QED
      BY <2>2, <3>1, <3>2, LoopStays DEF AgentInv, LinkInv
  <2>3. CASE (\E p \in Proc : Work(p)) /\ UNCHANGED linkVars
    <3>1. PICK p \in Proc : Work(p)
      BY <2>3
    <3>2. CredInv' /\ Buries
      BY <3>1, WorkKeeps, WorkBuries DEF AgentInv
    <3>3. \A q \in Proc : step'[q].op = step[q].op
      BY <3>1, WorkKeepsOp DEF AgentInv
    <3> QED
      BY <2>3, <3>2, <3>3, AgentAssumption, LoopStays DEF AgentInv, LinkInv
  <2>4. CASE (\E p \in Proc \ Agent : Command(p) \/ Die(p)) /\ UNCHANGED linkVars
    <3>1. PICK p \in Proc \ Agent : Command(p) \/ Die(p)
      BY <2>4
    <3>2. CredInv' /\ UNCHANGED grant
      BY <3>1, CommandKeeps, DieKeeps DEF AgentInv, Command, Die
    <3>3. \A q \in Proc \ {p} : step'[q] = step[q]
      BY <3>1, CredTypes DEF AgentInv, Command, Die, Begin
    <3> QED
      BY <2>4, <3>2, <3>3, AgentAssumption, SameBuries, LoopStays DEF AgentInv, LinkInv
  <2>5. CASE UNCHANGED <<credVars, linkVars>>
    <3>1. CredInv'
      BY <2>5, CredStutter DEF AgentInv
    <3>2. Buries
      BY <2>5, SameBuries DEF AgentInv, credVars
    <3> QED
      BY <2>5, <3>1, <3>2, LoopStays DEF AgentInv, LinkInv, credVars
  <2> QED
    BY <2>1, <2>2, <2>3, <2>4, <2>5 DEF LinkNext
<1> QED
  BY <1>1, <1>2, PTL DEF LinkSpec

\* Processes that share the credential file never end each other's sessions or lose
\* each other's logins (withCredentialStoreLock, tokenLocked, browserAuthorize, Logout):
\* a replay is seen only where a rotation was lost or a refresh was handled late.
THEOREM CredentialsStayUsable == LinkSpec => []CredentialsHold
<1>1. AgentInv => CredentialsHold
  BY DEF AgentInv, CredInv, CredentialsHold
<1> QED
  BY <1>1, AgentInvariant, PTL

\* What an Agent lets go on across connections was authorized by a credential the
\* Relay has not refused to it (Run and EndRemoteSession), over any crashes and
\* restarts; the commands a crash left behind are not among its tasks.
THEOREM RejectedWorkStaysEnded == LinkSpec => []LinkHolds
<1>1. AgentInv => LinkHolds
  BY DEF AgentInv, LinkInv, LinkHolds
<1> QED
  BY <1>1, AgentInvariant, PTL
=============================================================================
