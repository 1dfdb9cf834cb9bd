---------------------------- MODULE AccountsProof ----------------------------
(***************************************************************************)
(* Users, sessions and invites, for every set of accounts, names, sessions, *)
(* invites and requests and every number of passwords.  A save may leave    *)
(* either version for the next process, so that all which must hold of the  *)
(* state in memory is shown of each version a step hands to the disk.       *)
(***************************************************************************)
EXTENDS Accounts, FiniteSetTheorems, TLAPS

\* The accounts and invites of a version, of which the ids in `made' were generated.
People(m, made) ==
  /\ Users(m) \cup m.invites \subseteq made
  /\ \A u \in Users(m) : m.users[u].invite \in made \cup {Nobody}
  /\ \A u, w \in Users(m) : NameOf[u] = NameOf[w] => u = w
  /\ Users(m) # {} => Admins(m) # {}
  /\ \A i \in Invite, u, w \in Users(m) :
       m.users[u].invite = i => i \notin m.invites /\ (m.users[w].invite = i => u = w)

\* Its sessions, when the logins in `over' were ended.
Guests(m, made, over) ==
  \A s \in Live(m) :
    LET b == m.sessions[s] IN
    /\ s \in made /\ b.login \in made \ over
    /\ IsActive(m, b.user) /\ m.users[b.user].hash = b.hash

Sound(m, made, over) == m \in State /\ People(m, made) /\ Guests(m, made, over)

\* The names lead to the accounts that have them.
Indexed(m) == \A n \in Name, u \in UserId : m.names[n] = u <=> Exists(m, u) /\ NameOf[u] = n

\* The invites in `out' that are not gone are there, or made an account.
Accounted(m, out, gone) ==
  \A i \in out : i \in m.invites \cup gone \/ \E u \in Users(m) : m.users[u].invite = i

AccountsInv ==
  /\ AccountsTypeOK
  /\ Sound(state, minted, ended) /\ Sound(disk, minted, ended) /\ Indexed(state)
  /\ ended \subseteq minted
  /\ Accounted(disk, shown, spent)
  /\ IF alive THEN Accounted(state, shown, spent) ELSE ~frozen

USE NameOfAssumption, NobodyAssumption, MaxHashAssumption

-----------------------------------------------------------------------------
(* Lemmas about versions of the accounts.                                   *)

\* What a version consists of.
LEMMA StateFields ==
  ASSUME NEW m \in State
  PROVE  /\ m.users \in [UserId -> User \cup {NoUser}]
         /\ m.names \in [Name -> UserId \cup {Nobody}]
         /\ m.sessions \in [Session -> Browser \cup {NoBrowser}]
         /\ m.invites \in SUBSET Invite /\ m.public \in BOOLEAN /\ m.open \in BOOLEAN
BY DEF State

\* An account that exists is a user record, and a session that lives is one of an id.
LEMMA RecordsAre ==
  ASSUME NEW m \in State
  PROVE  /\ \A u \in UserId : Exists(m, u) <=> m.users[u] \in User
         /\ \A u \in UserId : Exists(m, u) <=> m.users[u] # NoUser
         /\ \A u : Exists(m, u) /\ u \in UserId <=> u \in Users(m)
         /\ \A s \in Session : s \in Live(m) <=> m.sessions[s] \in Browser
         /\ \A u \in UserId : u \in Admins(m) <=> m.users[u] \in User /\ ~m.users[u].disabled /\ m.users[u].admin
<1>1. \A r \in User : r.hash \in 1..MaxHash
  BY DEF User
<1>2. NoUser \notin User
  BY <1>1 DEF NoUser
<1>3. \A b \in Browser : b.user \in UserId
  BY DEF Browser
<1>4. NoBrowser \notin Browser
  BY <1>3 DEF NoBrowser
<1>5. \A u \in UserId : u # Nobody
  OBVIOUS
<1>6. \A u \in UserId : Exists(m, u) <=> m.users[u] \in User
  BY <1>2, <1>5, StateFields DEF Exists
<1>7. \A s \in Session : s \in Live(m) <=> m.sessions[s] \in Browser
  BY <1>4, StateFields DEF Live
<1> QED BY <1>5, <1>6, <1>7 DEF Exists, Users, Admins, IsActive

\* Accounts that lose nothing but rights, and invites that go.
LEMMA PeopleKept ==
  ASSUME NEW m \in State, NEW r \in State, NEW made, People(m, made), r.invites \subseteq m.invites,
         \A u \in UserId : Exists(r, u) => Exists(m, u) /\ r.users[u].invite = m.users[u].invite,
         Users(r) # {} => Admins(r) # {}
  PROVE  People(r, made)
<1>1. \A u \in Users(r) : u \in Users(m) /\ r.users[u].invite = m.users[u].invite
  BY RecordsAre
<1> QED BY <1>1 DEF People

\* Each session is one that was there, of an account which is what it was.
LEMMA GuestsKept ==
  ASSUME NEW m \in State, NEW r \in State, NEW made, NEW over, Guests(m, made, over),
         \A s \in Live(r) :
           /\ s \in made
           /\ \E t \in Live(m) :
                /\ r.sessions[s].user = m.sessions[t].user /\ r.sessions[s].hash = m.sessions[t].hash
                /\ r.sessions[s].login = m.sessions[t].login
                /\ IsActive(r, m.sessions[t].user)
                /\ r.users[m.sessions[t].user].hash = m.users[m.sessions[t].user].hash
  PROVE  Guests(r, made, over)
BY DEF Guests

\* ... and when those sessions are the same ones.
LEMMA GuestsStay ==
  ASSUME NEW m \in State, NEW r \in State, NEW made, NEW over, Guests(m, made, over),
         \A s \in Live(r) :
           /\ s \in Live(m) /\ r.sessions[s] = m.sessions[s]
           /\ LET w == m.sessions[s].user IN IsActive(r, w) /\ r.users[w].hash = m.users[w].hash
  PROVE  Guests(r, made, over)
BY DEF Guests

\* Versions with the same users have the same accounts.
LEMMA SameUsers ==
  ASSUME NEW m, NEW r, r.users = m.users
  PROVE  /\ \A u : Exists(r, u) <=> Exists(m, u)
         /\ \A u : IsActive(r, u) <=> IsActive(m, u)
         /\ Users(r) = Users(m) /\ Admins(r) = Admins(m)
BY DEF Exists, IsActive, Users, Admins

\* Ending sessions changes nothing else.
LEMMA WithoutIs ==
  ASSUME NEW m \in State, NEW S
  PROVE  /\ Without(m, S) \in State
         /\ Without(m, S).users = m.users /\ Without(m, S).names = m.names
         /\ Without(m, S).invites = m.invites
         /\ Without(m, S).public = m.public /\ Without(m, S).open = m.open
         /\ \A s \in Session : Without(m, S).sessions[s] = IF s \in S THEN NoBrowser ELSE m.sessions[s]
         /\ Live(Without(m, S)) = Live(m) \ S
<1> DEFINE sess == [s \in Session |-> IF s \in S THEN NoBrowser ELSE m.sessions[s]]
           r    == [m EXCEPT !.sessions = sess]
<1>1. sess \in [Session -> Browser \cup {NoBrowser}] /\ \A s \in Session : sess[s] = IF s \in S THEN NoBrowser ELSE m.sessions[s]
  BY StateFields
<1> HIDE DEF sess
<1>2. /\ r \in State /\ r.users = m.users /\ r.names = m.names /\ r.invites = m.invites
      /\ r.public = m.public /\ r.open = m.open /\ r.sessions = sess
  BY <1>1 DEF State
<1>3. Without(m, S) = r
  BY DEF Without, sess
<1> HIDE DEF r
<1> QED BY <1>1, <1>2, <1>3 DEF Live

LEMMA WithoutSound ==
  ASSUME NEW m, NEW S, NEW made, NEW over, Sound(m, made, over)
  PROVE  Sound(Without(m, S), made, over)
<1> DEFINE r == Without(m, S)
<1>1. m \in State /\ r \in State /\ r.users = m.users /\ r.invites = m.invites
      /\ \A s \in Live(r) : s \in Live(m) /\ r.sessions[s] = m.sessions[s]
  BY WithoutIs DEF Sound, Live
<1>2. People(r, made)
  BY <1>1, PeopleKept, SameUsers DEF Sound, People
<1>3. Guests(r, made, over)
  <2>1. Guests(m, made, over)
    BY DEF Sound
  <2>2. \A w : IsActive(m, w) => IsActive(r, w) /\ r.users[w].hash = m.users[w].hash
    BY <1>1, SameUsers
  <2>3. \A s \in Live(m) : IsActive(m, m.sessions[s].user)
    BY <2>1 DEF Guests
  <2> HIDE DEF r
  <2> QED BY <1>1, <2>1, <2>2, <2>3, GuestsStay
<1> QED BY <1>1, <1>2, <1>3 DEF Sound

\* A version that differs in its registration, or has fewer invites.
LEMMA ReregisteredSound ==
  ASSUME NEW m, NEW r \in State, NEW made, NEW over, Sound(m, made, over),
         r.users = m.users, r.sessions = m.sessions, r.invites \subseteq m.invites
  PROVE  Sound(r, made, over)
<1>1. m \in State /\ Live(r) = Live(m)
  BY DEF Sound, Live
<1>2. People(r, made)
  BY <1>1, PeopleKept, SameUsers DEF Sound, People
<1>3. Guests(r, made, over)
  BY <1>1, GuestsKept, SameUsers DEF Sound, Guests
<1> QED BY <1>2, <1>3 DEF Sound

\* What was sound stays so while more ids are generated and other logins end.
LEMMA SoundLater ==
  ASSUME NEW m, NEW made, NEW more, NEW over, NEW beyond, Sound(m, made, over),
         made \subseteq more, Logins(m) \cap beyond = {}
  PROVE  Sound(m, more, beyond)
BY DEF Sound, People, Guests, Logins

\* The rest of what a version says may be counted on, as its accounts stay.
LEMMA AccountedLater ==
  ASSUME NEW m, NEW r, NEW out, NEW gone, NEW more, Accounted(m, out, gone), gone \subseteq more,
         m.invites \subseteq r.invites \cup more,
         \A u \in Users(m) : \/ u \in Users(r) /\ r.users[u].invite = m.users[u].invite
                             \/ m.users[u].invite \in more
  PROVE  Accounted(r, out, more)
BY DEF Accounted

\* All that is said of a version that a request may save.
Good(m, made, over, out, gone) ==
  Sound(m, made, over) /\ Indexed(m) /\ Accounted(m, out, gone)

LEMMA WithoutGood ==
  ASSUME NEW m, NEW S, NEW made, NEW over, NEW out, NEW gone, Good(m, made, over, out, gone)
  PROVE  Good(Without(m, S), made, over, out, gone) /\ Logins(Without(m, S)) \subseteq Logins(m)
<1>1. m \in State
  BY DEF Good, Sound
<1>2. Sound(Without(m, S), made, over)
  BY WithoutSound DEF Good
<1>3. Indexed(Without(m, S)) /\ Accounted(Without(m, S), out, gone)
  BY <1>1, WithoutIs, SameUsers DEF Good, Indexed, Accounted
<1>4. Logins(Without(m, S)) \subseteq Logins(m)
  BY <1>1, WithoutIs DEF Logins, Live
<1> QED BY <1>2, <1>3, <1>4 DEF Good

\* Changing the record of one account.
LEMMA UserChanged ==
  ASSUME NEW m \in State, NEW u \in UserId, NEW rec \in User \cup {NoUser}
  PROVE  LET r == [m EXCEPT !.users = [@ EXCEPT ![u] = rec]] IN
         /\ r \in State /\ r.names = m.names /\ r.sessions = m.sessions /\ r.invites = m.invites
         /\ r.public = m.public /\ r.open = m.open
         /\ \A w \in UserId : r.users[w] = IF w = u THEN rec ELSE m.users[w]
<1> DEFINE f == [m.users EXCEPT ![u] = rec]
<1>1. f \in [UserId -> User \cup {NoUser}] /\ \A w \in UserId : f[w] = IF w = u THEN rec ELSE m.users[w]
  BY StateFields
<1> HIDE DEF f
<1>2. LET r == [m EXCEPT !.users = f] IN
      /\ r \in State /\ r.names = m.names /\ r.sessions = m.sessions /\ r.invites = m.invites
      /\ r.public = m.public /\ r.open = m.open /\ r.users = f
  BY <1>1 DEF State
<1> QED BY <1>1, <1>2 DEF f

\* An account that stays, with no session but those its new record fits, while an
\* administrator remains.
LEMMA ChangedGood ==
  ASSUME NEW m, NEW u \in UserId, NEW rec \in User, NEW r \in State,
         NEW made, NEW over, NEW out, NEW gone, Good(m, made, over, out, gone),
         Exists(m, u), rec.invite = m.users[u].invite,
         \A w \in UserId : r.users[w] = IF w = u THEN rec ELSE m.users[w],
         r.names = m.names, r.invites = m.invites,
         \A s \in Live(r) :
           /\ s \in Live(m) /\ r.sessions[s] = m.sessions[s]
           /\ m.sessions[s].user = u => rec.hash = m.users[u].hash /\ ~rec.disabled,
         Admins(r) # {}
  PROVE  Good(r, made, over, out, gone)
<1>1. m \in State /\ m.users[u] \in User
  BY RecordsAre DEF Good, Sound
<1>2. \A w \in UserId : /\ Exists(r, w) <=> Exists(m, w)
                        /\ r.users[w].invite = m.users[w].invite
  BY <1>1, RecordsAre
<1>3. Users(r) = Users(m)
  BY <1>2 DEF Users
<1>4. People(r, made)
  BY <1>1, <1>2, PeopleKept DEF Good, Sound
<1>5. ASSUME NEW s \in Live(m), m.sessions[s].user = u => rec.hash = m.users[u].hash /\ ~rec.disabled
      PROVE  LET w == m.sessions[s].user IN IsActive(r, w) /\ r.users[w].hash = m.users[w].hash
  <2>1. m.sessions[s].user \in UserId
    BY <1>1, RecordsAre DEF Live, Browser
  <2>2. IsActive(m, m.sessions[s].user)
    BY DEF Good, Sound, Guests
  <2> QED BY <1>2, <1>5, <2>1, <2>2 DEF IsActive
<1>6. Guests(r, made, over)
  <2>1. Guests(m, made, over)
    BY DEF Good, Sound
  <2> QED BY <1>1, <1>5, <2>1, GuestsStay
<1>7. Indexed(r) /\ Accounted(r, out, gone)
  BY <1>2, <1>3 DEF Good, Indexed, Accounted, Users
<1> QED BY <1>4, <1>6, <1>7 DEF Good, Sound

\* A version with no authority beyond another's.
Less(m, r) ==
  /\ \A u \in UserId : IsActive(r, u) => IsActive(m, u)
  /\ Admins(r) \subseteq Admins(m)
  /\ r.invites \subseteq m.invites
  /\ r.open => m.open

\* An account that is no more active than it was, and not promoted.
LEMMA ChangedLess ==
  ASSUME NEW m \in State, NEW r \in State, NEW u \in UserId, NEW rec,
         \A w \in UserId : r.users[w] = IF w = u THEN rec ELSE m.users[w],
         r.invites = m.invites, r.open = m.open,
         \/ rec = NoUser
         \/ rec \in User /\ Exists(m, u) /\ (rec.disabled \/ ~m.users[u].disabled)
            /\ rec.admin = m.users[u].admin
  PROVE  Less(m, r)
<1>1. \A w \in UserId \ {u} : (IsActive(r, w) <=> IsActive(m, w)) /\ r.users[w] = m.users[w]
  BY DEF IsActive, Exists
<1>2. IsActive(r, u) => IsActive(m, u) /\ r.users[u].admin = m.users[u].admin
  BY DEF IsActive, Exists
<1> QED BY <1>1, <1>2 DEF Less, Admins

\* Ending sessions gives no authority.
LEMMA SameLess ==
  ASSUME NEW m, NEW r, r.users = m.users, r.invites \subseteq m.invites, r.open => m.open
  PROVE  Less(m, r)
BY SameUsers DEF Less

-----------------------------------------------------------------------------
(* Lemmas about the changes that requests make.                             *)

\* Disabling an account ends its sessions; somebody else administers.
LEMMA DisabledGood ==
  ASSUME NEW m, NEW u \in UserId, NEW off \in BOOLEAN, NEW a \in Admins(m), a # u,
         NEW made, NEW over, NEW out, NEW gone, Good(m, made, over, out, gone), Exists(m, u)
  PROVE  LET q == [m EXCEPT !.users[u].disabled = off] IN
         /\ Good(IF off THEN Without(q, SessionsOf(q, u)) ELSE q, made, over, out, gone)
         /\ off => Less(m, Without(q, SessionsOf(q, u)))
<1> DEFINE rec == [m.users[u] EXCEPT !.disabled = off]
           q   == [m EXCEPT !.users = [@ EXCEPT ![u] = rec]]
           r   == IF off THEN Without(q, SessionsOf(q, u)) ELSE q
<1>1. m \in State /\ m.users[u] \in User
  BY RecordsAre DEF Good, Sound
<1>2. rec \in User /\ rec.invite = m.users[u].invite /\ rec.hash = m.users[u].hash
      /\ rec.disabled = off /\ rec.admin = m.users[u].admin
  BY <1>1 DEF User
<1>3. q = [m EXCEPT !.users[u].disabled = off]
  OBVIOUS
<1> HIDE DEF rec
<1>4. /\ q \in State /\ q.names = m.names /\ q.sessions = m.sessions /\ q.invites = m.invites
      /\ q.open = m.open
      /\ \A w \in UserId : q.users[w] = IF w = u THEN rec ELSE m.users[w]
  BY <1>1, <1>2, UserChanged
<1> HIDE DEF q
<1>5. \A s \in Session : s \in SessionsOf(q, u) <=> m.sessions[s].user = u
  BY <1>4 DEF SessionsOf
<1>6. /\ r \in State /\ r.names = m.names /\ r.invites = m.invites /\ r.open = m.open
      /\ \A w \in UserId : r.users[w] = IF w = u THEN rec ELSE m.users[w]
  BY <1>4, WithoutIs
<1>7. ASSUME NEW s \in Live(r)
      PROVE  /\ s \in Live(m) /\ r.sessions[s] = m.sessions[s]
             /\ m.sessions[s].user = u => ~off
  BY <1>4, <1>5, WithoutIs DEF Live
<1>8. a \in Admins(r)
  BY <1>1, <1>6, RecordsAre DEF Admins
<1> HIDE DEF r
<1>9. Good(r, made, over, out, gone)
  BY <1>1, <1>2, <1>6, <1>7, <1>8, ChangedGood
<1>10. ASSUME off PROVE Less(m, r)
  <2>1. rec.disabled
    BY Zenon, <1>2, <1>10
  <2> QED BY <1>1, <1>2, <1>6, <2>1, ChangedLess
<1> QED BY <1>3, <1>9, <1>10 DEF r

\* A new password ends the sessions of its account.
LEMMA RehashedGood ==
  ASSUME NEW m, NEW u \in UserId, NEW made, NEW over, NEW out, NEW gone,
         Good(m, made, over, out, gone), Exists(m, u), m.users[u].hash < MaxHash
  PROVE  Good(Rehashed(m, u), made, over, out, gone) /\ Less(m, Rehashed(m, u))
<1> DEFINE rec == [m.users[u] EXCEPT !.hash = @ + 1]
           q   == [m EXCEPT !.users = [@ EXCEPT ![u] = rec]]
           r   == Without(q, SessionsOf(q, u))
<1>1. m \in State /\ m.users[u] \in User
  BY RecordsAre DEF Good, Sound
<1>2. rec \in User /\ rec.invite = m.users[u].invite
      /\ rec.disabled = m.users[u].disabled /\ rec.admin = m.users[u].admin
  BY <1>1 DEF User
<1>3. q = [m EXCEPT !.users[u].hash = @ + 1]
  OBVIOUS
<1> HIDE DEF rec
<1>4. /\ q \in State /\ q.names = m.names /\ q.sessions = m.sessions /\ q.invites = m.invites
      /\ q.open = m.open
      /\ \A w \in UserId : q.users[w] = IF w = u THEN rec ELSE m.users[w]
  BY <1>1, <1>2, UserChanged
<1> HIDE DEF q
<1>5. r = Rehashed(m, u)
  BY <1>3, <1>4 DEF Rehashed, SessionsOf
<1>6. /\ r \in State /\ r.names = m.names /\ r.invites = m.invites /\ r.open = m.open
      /\ \A w \in UserId : r.users[w] = IF w = u THEN rec ELSE m.users[w]
  BY <1>4, WithoutIs
<1>7. ASSUME NEW s \in Live(r)
      PROVE  s \in Live(m) /\ r.sessions[s] = m.sessions[s] /\ m.sessions[s].user # u
  BY <1>4, WithoutIs DEF Live, SessionsOf
<1>8. Admins(r) # {}
  <2>1. PICK a \in UserId : a \in Admins(m)
    BY <1>1, RecordsAre DEF Good, Sound, People, Admins
  <2> QED BY <1>1, <1>2, <1>6, <2>1, RecordsAre
<1> HIDE DEF r
<1>9. Good(r, made, over, out, gone)
  BY <1>2, <1>6, <1>7, <1>8, ChangedGood
<1>10. Less(m, r)
  BY <1>1, <1>2, <1>6, ChangedLess
<1> QED BY <1>5, <1>9, <1>10

\* A deleted account leaves neither a session nor its name behind, and the invite it
\* was made with is spent.
LEMMA ForgottenGood ==
  ASSUME NEW m, NEW u \in UserId, NEW a \in Admins(m), a # u,
         NEW made, NEW over, NEW out \in SUBSET Invite, NEW gone,
         Good(m, made, over, out, gone), Exists(m, u)
  PROVE  /\ Good(Forgotten(m, u), made, over, out, gone \cup ({m.users[u].invite} \ {Nobody}))
         /\ Less(m, Forgotten(m, u))
<1> DEFINE q == [m EXCEPT !.users = [@ EXCEPT ![u] = NoUser]]
           f == [m.names EXCEPT ![NameOf[u]] = Nobody]
           x == [q EXCEPT !.names = f]
           r == Without(x, SessionsOf(x, u))
           left == gone \cup ({m.users[u].invite} \ {Nobody})
<1>1. m \in State /\ m.users[u] \in User
  BY RecordsAre DEF Good, Sound
<1>2. /\ q \in State /\ q.names = m.names /\ q.sessions = m.sessions /\ q.invites = m.invites
      /\ q.open = m.open
      /\ \A w \in UserId : q.users[w] = IF w = u THEN NoUser ELSE m.users[w]
  BY <1>1, UserChanged
<1>3. x = [m EXCEPT !.users[u] = NoUser, !.names[NameOf[u]] = Nobody]
  BY <1>1 DEF State
<1>4. f \in [Name -> UserId \cup {Nobody}]
      /\ \A n \in Name : f[n] = IF n = NameOf[u] THEN Nobody ELSE m.names[n]
  BY <1>1, StateFields
<1> HIDE DEF q, f
<1>5. x \in State /\ x.users = q.users /\ x.sessions = m.sessions /\ x.invites = m.invites /\ x.names = f
      /\ x.open = m.open
  BY <1>2, <1>4 DEF State
<1> HIDE DEF x
<1>6. r = Forgotten(m, u)
  BY <1>3, <1>5 DEF Forgotten, SessionsOf
<1>7. /\ r \in State /\ r.names = f /\ r.invites = m.invites /\ r.open = m.open
      /\ \A w \in UserId : r.users[w] = IF w = u THEN NoUser ELSE m.users[w]
  BY <1>2, <1>5, WithoutIs
<1>8. ASSUME NEW s \in Live(r)
      PROVE  s \in Live(m) /\ r.sessions[s] = m.sessions[s] /\ m.sessions[s].user # u
  BY <1>5, WithoutIs DEF Live, SessionsOf
<1> HIDE DEF r
<1>9. \A w \in UserId : Exists(r, w) <=> Exists(m, w) /\ w # u
  BY <1>1, <1>7, RecordsAre
<1>10. a \in UserId /\ a \in Admins(r)
  BY <1>1, <1>7, RecordsAre DEF Admins
<1>11. People(r, made)
  BY <1>1, <1>7, <1>9, <1>10, PeopleKept DEF Good, Sound
<1>12. ASSUME NEW s \in Live(r)
       PROVE  LET w == m.sessions[s].user IN IsActive(r, w) /\ r.users[w].hash = m.users[w].hash
  <2>1. m.sessions[s].user \in UserId /\ m.sessions[s].user # u
    BY <1>1, <1>8, RecordsAre DEF Live, Browser
  <2>2. IsActive(m, m.sessions[s].user)
    BY <1>8 DEF Good, Sound, Guests
  <2> QED BY <1>7, <1>9, <2>1, <2>2 DEF IsActive
<1>13. Guests(r, made, over)
  BY <1>1, <1>7, <1>8, <1>12, GuestsKept DEF Good, Sound, Guests
<1>14. Indexed(r)
  <2> SUFFICES ASSUME NEW n \in Name, NEW w \in UserId
               PROVE  r.names[n] = w <=> Exists(r, w) /\ NameOf[w] = n
    BY DEF Indexed
  <2>1. m.names[n] = w <=> Exists(m, w) /\ NameOf[w] = n
    BY DEF Good, Indexed
  <2>2. m.names[NameOf[u]] = u
    BY DEF Good, Indexed
  <2> QED BY <1>4, <1>7, <1>9, <2>1, <2>2
<1>15. Accounted(r, out, left)
  <2>1. \A w \in Users(m) \ {u} : w \in Users(r) /\ r.users[w].invite = m.users[w].invite
    BY <1>7, <1>9 DEF Users
  <2> SUFFICES ASSUME NEW i \in out, i \notin r.invites \cup left
               PROVE  \E w \in Users(r) : r.users[w].invite = i
    BY DEF Accounted
  <2>2. PICK w \in Users(m) : m.users[w].invite = i
    BY <1>7 DEF Good, Accounted
  <2>3. i # Nobody
    OBVIOUS
  <2> QED BY <2>1, <2>2, <2>3
<1>16. Less(m, r)
  BY <1>1, <1>7, ChangedLess
<1> QED BY <1>6, <1>7, <1>16, <1>11, <1>13, <1>14, <1>15 DEF Good, Sound

\* A new account has a name that was free and an id that was not used; the invite it
\* was made with goes.
LEMMA NewUserGood ==
  ASSUME NEW m, NEW u \in UserId, NEW admin \in BOOLEAN, NEW i \in Invite \cup {Nobody}, NEW r \in State,
         NEW made, NEW over, NEW out \in SUBSET Invite, NEW gone, Good(m, made, over, out, gone),
         u \notin made, m.names[NameOf[u]] = Nobody, Users(m) # {} \/ admin,
         i = Nobody \/ i \in m.invites,
         r.users = NewUser(m, u, admin, i).users, r.names = NewUser(m, u, admin, i).names,
         r.sessions = m.sessions, r.invites = m.invites \ {i}
  PROVE  Good(r, made \cup {u}, over, out, gone) /\ Exists(r, u) /\ IsActive(r, u)
<1> DEFINE rec == [admin |-> admin, disabled |-> FALSE, hash |-> 1, invite |-> i]
           f   == [m.users EXCEPT ![u] = rec]
           g   == [m.names EXCEPT ![NameOf[u]] = u]
<1>1. m \in State
  BY DEF Good, Sound
<1>2. rec \in User
  BY DEF User
<1>3. f \in [UserId -> User \cup {NoUser}] /\ \A w \in UserId : f[w] = IF w = u THEN rec ELSE m.users[w]
  BY <1>1, <1>2, StateFields
<1>4. g \in [Name -> UserId \cup {Nobody}]
      /\ \A n \in Name : g[n] = IF n = NameOf[u] THEN u ELSE m.names[n]
  BY <1>1, StateFields
<1>5. r.users = f /\ r.names = g
  BY <1>1 DEF NewUser, WithUser, State
<1> HIDE DEF f, g
<1>6. ~Exists(m, u)
  BY <1>1, RecordsAre DEF Good, Sound, People
<1>7. rec.admin = admin /\ rec.disabled = FALSE /\ rec.invite = i /\ rec.hash = 1
  OBVIOUS
<1> HIDE DEF rec
<1>8. \A w \in UserId : /\ Exists(r, w) <=> Exists(m, w) \/ w = u
                        /\ w \in Users(r) <=> w \in Users(m) \/ w = u
  BY <1>1, <1>2, <1>3, <1>5, RecordsAre
<1>9. Exists(r, u) /\ IsActive(r, u)
  BY <1>2, <1>3, <1>5, <1>7, <1>8 DEF IsActive
<1>10. \A w \in Users(m) : w # u /\ r.users[w] = m.users[w]
  BY <1>3, <1>5, <1>6 DEF Users
<1>11. \A w \in Users(m) : NameOf[w] # NameOf[u]
  BY <1>6 DEF Users, Good, Indexed
<1>12. Admins(r) # {}
  <2>1. CASE admin
    <3>1. r.users[u] = rec
      BY <1>3, <1>5
    <3>2. u \in Admins(r)
      BY <1>7, <1>9, <2>1, <3>1 DEF Admins
    <3> QED BY <3>2
  <2>2. CASE Users(m) # {}
    <3>1. PICK a \in UserId : a \in Admins(m)
      BY <1>1, <2>2, RecordsAre DEF Good, Sound, People, Admins
    <3> QED BY <1>1, <1>3, <1>5, <1>6, <3>1, RecordsAre
  <2> QED BY <2>1, <2>2
<1>13. People(r, made \cup {u})
  <2>1. \A w \in Users(r) : w \in Users(m) \/ w = u
    BY <1>8 DEF Users
  <2>2. r.users[u].invite = i
    BY <1>3, <1>5, <1>7
  <2>3. i \in made \cup {Nobody}
    BY DEF Good, Sound, People
  <2>4. Users(r) \cup r.invites \subseteq made \cup {u}
    BY <2>1 DEF Good, Sound, People
  <2>5. \A w \in Users(r) : r.users[w].invite \in made \cup {u, Nobody}
    BY <1>10, <2>1, <2>2, <2>3 DEF Good, Sound, People
  <2>6. \A w, v \in Users(r) : NameOf[w] = NameOf[v] => w = v
    BY <1>11, <2>1 DEF Good, Sound, People
  <2>7. \A j \in Invite, w, v \in Users(r) :
          r.users[w].invite = j => j \notin r.invites /\ (r.users[v].invite = j => w = v)
    BY <1>10, <2>1, <2>2 DEF Good, Sound, People
  <2> QED BY <1>12, <2>4, <2>5, <2>6, <2>7 DEF People
<1>14. ASSUME NEW s \in Live(m)
       PROVE  LET w == m.sessions[s].user IN IsActive(r, w) /\ r.users[w].hash = m.users[w].hash
  <2>1. m.sessions[s].user \in UserId /\ IsActive(m, m.sessions[s].user)
    BY <1>1, RecordsAre DEF Live, Browser, Good, Sound, Guests
  <2>2. m.sessions[s].user \in Users(m)
    BY <2>1 DEF IsActive, Users
  <2> QED BY <1>8, <1>10, <2>1, <2>2 DEF IsActive
<1>15. Guests(r, made \cup {u}, over)
  <2>1. Guests(m, made \cup {u}, over)
    BY DEF Good, Sound, Guests
  <2>2. Live(r) = Live(m)
    BY DEF Live
  <2> QED BY <1>1, <1>14, <2>1, <2>2, GuestsStay
<1>16. Indexed(r)
  <2> SUFFICES ASSUME NEW n \in Name, NEW w \in UserId
               PROVE  r.names[n] = w <=> Exists(r, w) /\ NameOf[w] = n
    BY DEF Indexed
  <2>1. m.names[n] = w <=> Exists(m, w) /\ NameOf[w] = n
    BY DEF Good, Indexed
  <2> QED BY <1>4, <1>5, <1>6, <1>8, <1>11, <2>1
<1>17. Accounted(r, out, gone)
  <2> SUFFICES ASSUME NEW j \in out, j \notin r.invites \cup gone
               PROVE  \E w \in Users(r) : r.users[w].invite = j
    BY DEF Accounted
  <2>1. CASE j = i
    BY <1>3, <1>5, <1>7, <1>8, <2>1
  <2>2. CASE j # i
    <3>1. PICK w \in Users(m) : m.users[w].invite = j
      BY <2>2 DEF Good, Accounted
    <3> QED BY <1>8, <1>10, <3>1 DEF Users
  <2> QED BY <2>1, <2>2
<1> QED BY <1>9, <1>13, <1>15, <1>16, <1>17 DEF Good, Sound

\* A version with all that m has beside its users.
BesideUsers(q, m) ==
  /\ q \in State /\ q.sessions = m.sessions /\ q.invites = m.invites
  /\ q.public = m.public /\ q.open = m.open

\* What createUserLocked adds, before it is judged.
LEMMA NewUserIs ==
  ASSUME NEW m \in State, NEW u \in UserId, NEW admin \in BOOLEAN, NEW i \in Invite \cup {Nobody}
  PROVE  BesideUsers(NewUser(m, u, admin, i), m)
<1> DEFINE rec == [admin |-> admin, disabled |-> FALSE, hash |-> 1, invite |-> i]
           f   == [m.users EXCEPT ![u] = rec]
           g   == [m.names EXCEPT ![NameOf[u]] = u]
           q   == [m EXCEPT !.users = f, !.names = g]
<1>1. rec \in User
  BY DEF User
<1>2. q = NewUser(m, u, admin, i)
  BY DEF NewUser, WithUser
<1> HIDE DEF rec
<1>3. f \in [UserId -> User \cup {NoUser}] /\ g \in [Name -> UserId \cup {Nobody}]
  BY <1>1, StateFields
<1> HIDE DEF f, g
<1>4. /\ q \in State /\ q.sessions = m.sessions /\ q.invites = m.invites
      /\ q.public = m.public /\ q.open = m.open
  BY <1>3 DEF State
<1> QED BY <1>2, <1>4 DEF BesideUsers

\* Replacing the sessions of a version.
LEMMA SessionsChanged ==
  ASSUME NEW m \in State, NEW f \in [Session -> Browser \cup {NoBrowser}]
  PROVE  LET r == [m EXCEPT !.sessions = f] IN
         /\ r \in State /\ r.users = m.users /\ r.names = m.names /\ r.invites = m.invites
         /\ r.sessions = f
BY DEF State

\* A login leaves a session of the password that the account has.
LEMMA SignedInGood ==
  ASSUME NEW m, NEW s \in Session, NEW u \in UserId, NEW made, NEW over, NEW out, NEW gone,
         Good(m, made, over, out, gone), IsActive(m, u), s \notin over
  PROVE  /\ Good(SignedIn(m, s, u), made \cup {s}, over, out, gone)
         /\ Logins(SignedIn(m, s, u)) \subseteq Logins(m) \cup {s}
<1> DEFINE b == [user |-> u, fresh |-> TRUE, hash |-> m.users[u].hash, login |-> s]
           f == [m.sessions EXCEPT ![s] = b]
           r == [m EXCEPT !.sessions = f]
<1>1. m \in State /\ m.users[u] \in User
  BY RecordsAre DEF Good, Sound, IsActive
<1>2. b \in Browser /\ b.user = u /\ b.hash = m.users[u].hash /\ b.login = s
  BY <1>1 DEF Browser, User
<1>3. r = SignedIn(m, s, u)
  BY DEF SignedIn
<1> HIDE DEF b
<1>4. f \in [Session -> Browser \cup {NoBrowser}]
      /\ \A t \in Session : f[t] = IF t = s THEN b ELSE m.sessions[t]
  BY <1>1, <1>2, StateFields
<1> HIDE DEF f
<1>5. r \in State /\ r.users = m.users /\ r.names = m.names /\ r.invites = m.invites /\ r.sessions = f
  BY <1>1, <1>4, SessionsChanged
<1> HIDE DEF r
<1>6. ASSUME NEW t \in Live(r), t # s
      PROVE  t \in Live(m) /\ r.sessions[t] = m.sessions[t]
  BY <1>4, <1>5, <1>6 DEF Live
<1>7. People(r, made \cup {s})
  BY <1>5, SameUsers DEF Good, Sound, People
<1>8. Guests(r, made \cup {s}, over)
  <2> SUFFICES ASSUME NEW t \in Live(r)
               PROVE  LET c == r.sessions[t] IN
                      /\ t \in made \cup {s} /\ c.login \in (made \cup {s}) \ over
                      /\ IsActive(r, c.user) /\ r.users[c.user].hash = c.hash
    BY DEF Guests
  <2>1. CASE t = s
    BY <1>2, <1>4, <1>5, <2>1, SameUsers
  <2>2. CASE t # s
    BY <1>5, <1>6, <2>2, SameUsers DEF Good, Sound, Guests
  <2> QED BY <2>1, <2>2
<1>9. Indexed(r) /\ Accounted(r, out, gone)
  BY <1>5, SameUsers DEF Good, Indexed, Accounted
<1>10. Logins(r) \subseteq Logins(m) \cup {s}
  <2> SUFFICES ASSUME NEW t \in Live(r) PROVE r.sessions[t].login \in Logins(m) \cup {s}
    BY DEF Logins
  <2>1. CASE t = s
    BY <1>2, <1>4, <1>5, <2>1
  <2>2. CASE t # s
    BY <1>6, <2>2 DEF Logins
  <2> QED BY <2>1, <2>2
<1> QED BY <1>3, <1>5, <1>7, <1>8, <1>9, <1>10 DEF Good, Sound

\* A session that moves to a new handle is the same login.
LEMMA MovedGood ==
  ASSUME NEW m, NEW s \in Session, NEW old \in Live(m), NEW made, NEW over, NEW out, NEW gone,
         Good(m, made, over, out, gone)
  PROVE  LET r == [Without(m, {old}) EXCEPT !.sessions[s] = [m.sessions[old] EXCEPT !.fresh = TRUE]]
         IN  Good(r, made \cup {s}, over, out, gone)
<1> DEFINE b == [m.sessions[old] EXCEPT !.fresh = TRUE]
           x == Without(m, {old})
           f == [x.sessions EXCEPT ![s] = b]
           r == [x EXCEPT !.sessions = f]
<1>1. m \in State /\ old \in Session /\ m.sessions[old] \in Browser
  BY RecordsAre DEF Good, Sound, Live
<1>2. b \in Browser /\ b.user = m.sessions[old].user /\ b.hash = m.sessions[old].hash
      /\ b.login = m.sessions[old].login
  BY <1>1 DEF Browser
<1>3. r = [Without(m, {old}) EXCEPT !.sessions[s] = [m.sessions[old] EXCEPT !.fresh = TRUE]]
  OBVIOUS
<1>4. Good(x, made, over, out, gone) /\ x \in State /\ x.users = m.users
      /\ \A t \in Live(x) : t \in Live(m) /\ x.sessions[t] = m.sessions[t]
  BY <1>1, WithoutGood, WithoutIs DEF Live
<1> HIDE DEF b, x
<1>5. f \in [Session -> Browser \cup {NoBrowser}]
      /\ \A t \in Session : f[t] = IF t = s THEN b ELSE x.sessions[t]
  BY <1>2, <1>4, StateFields
<1> HIDE DEF f
<1>6. r \in State /\ r.users = x.users /\ r.names = x.names /\ r.invites = x.invites /\ r.sessions = f
  BY <1>4, <1>5, SessionsChanged
<1> HIDE DEF r
<1>7. People(r, made \cup {s})
  BY <1>4, <1>6, SameUsers DEF Good, Sound, People
<1>8. Guests(r, made \cup {s}, over)
  <2> SUFFICES ASSUME NEW t \in Live(r)
               PROVE  LET c == r.sessions[t] IN
                      /\ t \in made \cup {s} /\ c.login \in (made \cup {s}) \ over
                      /\ IsActive(r, c.user) /\ r.users[c.user].hash = c.hash
    BY DEF Guests
  <2>1. CASE t = s
    <3>1. Guests(m, made, over) /\ r.users = m.users /\ r.sessions[t] = b
      BY <1>4, <1>5, <1>6, <2>1 DEF Good, Sound
    <3> QED BY <1>2, <2>1, <3>1, SameUsers DEF Guests
  <2>2. CASE t # s
    <3>1. t \in Live(x) /\ r.sessions[t] = x.sessions[t]
      BY <1>5, <1>6, <2>2 DEF Live
    <3> QED BY <1>4, <1>6, <3>1, SameUsers DEF Good, Sound, Guests
  <2> QED BY <2>1, <2>2
<1>9. Indexed(r) /\ Accounted(r, out, gone)
  BY <1>4, <1>6, SameUsers DEF Good, Indexed, Accounted
<1> QED BY <1>3, <1>6, <1>7, <1>8, <1>9 DEF Good, Sound

\* A version with another registration; the invites that are missing are gone.
LEMMA ReregisteredGood ==
  ASSUME NEW m, NEW r \in State, NEW made, NEW over, NEW out, NEW gone, NEW more,
         Good(m, made, over, out, gone), r.users = m.users, r.names = m.names, r.sessions = m.sessions,
         r.invites \subseteq m.invites, gone \subseteq more, m.invites \subseteq r.invites \cup more
  PROVE  Good(r, made, over, out, more)
<1>1. Sound(r, made, over)
  BY ReregisteredSound DEF Good
<1>2. Indexed(r)
  BY SameUsers DEF Good, Indexed
<1>3. Accounted(r, out, more)
  BY SameUsers, AccountedLater DEF Good
<1> QED BY <1>1, <1>2, <1>3 DEF Good

\* An invite that is handed out is new, so no account was made with it.
LEMMA InvitedGood ==
  ASSUME NEW m, NEW i \in Invite, NEW made, NEW over, NEW out, NEW gone,
         Good(m, made, over, out, gone), i \notin made
  PROVE  Good([m EXCEPT !.invites = @ \cup {i}], made \cup {i}, over, out \cup {i}, gone)
<1> DEFINE r == [m EXCEPT !.invites = @ \cup {i}]
<1>1. m \in State
  BY DEF Good, Sound
<1>2. r \in State /\ r.users = m.users /\ r.names = m.names /\ r.sessions = m.sessions
      /\ r.invites = m.invites \cup {i}
  BY <1>1 DEF State
<1> HIDE DEF r
<1>3. People(r, made \cup {i})
  <2>1. \A u \in Users(m) : m.users[u].invite # i
    BY DEF Good, Sound, People
  <2> QED BY <1>2, <2>1, SameUsers DEF Good, Sound, People
<1>4. Guests(r, made \cup {i}, over)
  BY <1>2, SameUsers DEF Good, Sound, Guests, Live
<1>5. Indexed(r) /\ Accounted(r, out \cup {i}, gone)
  BY <1>2, SameUsers DEF Good, Indexed, Accounted
<1> QED BY <1>2, <1>3, <1>4, <1>5 DEF Good, Sound, r

\* A session that is no longer fresh.
LEMMA TiredIs ==
  ASSUME NEW m \in State, NEW s \in Live(m)
  PROVE  LET r == [m EXCEPT !.sessions[s].fresh = FALSE] IN
         /\ r \in State /\ r.users = m.users /\ r.names = m.names /\ r.invites = m.invites
         /\ Live(r) = Live(m)
         /\ \A t \in Live(m) : /\ r.sessions[t].user = m.sessions[t].user
                               /\ r.sessions[t].hash = m.sessions[t].hash
                               /\ r.sessions[t].login = m.sessions[t].login
<1> DEFINE b == [m.sessions[s] EXCEPT !.fresh = FALSE]
           f == [m.sessions EXCEPT ![s] = b]
           r == [m EXCEPT !.sessions = f]
<1>1. s \in Session /\ m.sessions[s] \in Browser
  BY RecordsAre DEF Live
<1>2. b \in Browser /\ b.user = m.sessions[s].user /\ b.hash = m.sessions[s].hash
      /\ b.login = m.sessions[s].login
  BY <1>1 DEF Browser
<1>3. r = [m EXCEPT !.sessions[s].fresh = FALSE]
  OBVIOUS
<1> HIDE DEF b
<1>4. f \in [Session -> Browser \cup {NoBrowser}]
      /\ \A t \in Session : f[t] = IF t = s THEN b ELSE m.sessions[t]
  BY <1>2, StateFields
<1> HIDE DEF f
<1>5. r \in State /\ r.users = m.users /\ r.names = m.names /\ r.invites = m.invites /\ r.sessions = f
  BY <1>4, SessionsChanged
<1> HIDE DEF r
<1>6. \A t \in Session : t \in Live(r) <=> t \in Live(m)
  BY <1>1, <1>2, <1>4, <1>5, RecordsAre
<1>7. Live(r) = Live(m)
  BY <1>6 DEF Live
<1>8. \A t \in Live(m) : /\ r.sessions[t].user = m.sessions[t].user
                         /\ r.sessions[t].hash = m.sessions[t].hash
                         /\ r.sessions[t].login = m.sessions[t].login
  BY <1>2, <1>4, <1>5 DEF Live
<1> QED BY <1>3, <1>5, <1>7, <1>8

LEMMA TiredSound ==
  ASSUME NEW m, NEW s \in Live(m), NEW made, NEW over, Sound(m, made, over)
  PROVE  Sound([m EXCEPT !.sessions[s].fresh = FALSE], made, over)
<1> DEFINE r == [m EXCEPT !.sessions[s].fresh = FALSE]
<1>1. m \in State
  BY DEF Sound
<1>2. /\ r \in State /\ r.users = m.users /\ r.invites = m.invites /\ Live(r) = Live(m)
      /\ \A t \in Live(m) : /\ r.sessions[t].user = m.sessions[t].user
                            /\ r.sessions[t].hash = m.sessions[t].hash
                            /\ r.sessions[t].login = m.sessions[t].login
  BY <1>1, TiredIs
<1> HIDE DEF r
<1>3. People(r, made)
  BY <1>2, SameUsers DEF Sound, People
<1>4. Guests(r, made, over)
  BY <1>2, SameUsers DEF Sound, Guests
<1> QED BY <1>2, <1>3, <1>4 DEF Sound, r

\* The state before the first account.
LEMMA BlankSound == Sound(Blank, {}, {}) /\ Indexed(Blank)
<1>1. /\ Blank \in State /\ Blank.invites = {}
      /\ \A u \in UserId : Blank.users[u] = NoUser
      /\ \A s \in Session : Blank.sessions[s] = NoBrowser
      /\ \A n \in Name : Blank.names[n] = Nobody
  BY DEF Blank, State
<1>2. Users(Blank) = {} /\ Live(Blank) = {} /\ \A u \in UserId : ~Exists(Blank, u)
  BY <1>1 DEF Users, Live, Exists
<1> HIDE DEF Blank
<1> QED BY <1>1, <1>2 DEF Sound, People, Guests, Indexed

\* What load makes of a version: the names are those of its accounts, and one account
\* at most becomes an administrator.
LEMMA LoadedGood ==
  ASSUME NEW m, NEW made, NEW over, NEW out, NEW gone, Sound(m, made, over), Accounted(m, out, gone)
  PROVE  Good(Loaded(m), made, over, out, gone)
<1> DEFINE f == [u \in UserId |->
                   IF Exists(m, u) /\ NameOf[u] = OwnerName /\ ~m.public
                     THEN [m.users[u] EXCEPT !.admin = TRUE] ELSE m.users[u]]
           g == [n \in Name |->
                   IF \E u \in Users(m) : NameOf[u] = n
                     THEN CHOOSE u \in Users(m) : NameOf[u] = n ELSE Nobody]
           r == [m EXCEPT !.names = g, !.users = f]
<1>1. m \in State
  BY DEF Sound
<1>2. r = Loaded(m)
  BY <1>1 DEF Loaded, State
<1>3. ASSUME NEW u \in UserId
      PROVE  /\ f[u] \in User \cup {NoUser}
             /\ Exists(m, u) => /\ f[u] \in User /\ f[u].invite = m.users[u].invite
                                /\ f[u].hash = m.users[u].hash /\ f[u].disabled = m.users[u].disabled
                                /\ f[u].admin = m.users[u].admin \/ f[u].admin = TRUE
             /\ ~Exists(m, u) => f[u] = NoUser
  <2>1. CASE ~Exists(m, u)
    BY <1>1, <2>1, RecordsAre
  <2>2. CASE Exists(m, u)
    <3>1. m.users[u] \in User
      BY <1>1, <2>2, RecordsAre
    <3> QED BY <2>2, <3>1 DEF User
  <2> QED BY <2>1, <2>2
<1>4. f \in [UserId -> User \cup {NoUser}]
  BY <1>3
<1>5. ASSUME NEW n \in Name, NEW u \in UserId
      PROVE  g[n] = u <=> Exists(m, u) /\ NameOf[u] = n
  <2>1. \A w, v \in Users(m) : NameOf[w] = NameOf[v] => w = v
    BY DEF Sound, People
  <2>2. CASE \E w \in Users(m) : NameOf[w] = n
    <3>1. g[n] \in Users(m) /\ NameOf[g[n]] = n
      BY <2>2
    <3> HIDE DEF g
    <3> QED BY <2>1, <3>1 DEF Users
  <2>3. CASE ~\E w \in Users(m) : NameOf[w] = n
    BY <2>3 DEF Users
  <2> QED BY <2>2, <2>3
<1>6. g \in [Name -> UserId \cup {Nobody}]
  BY DEF Users
<1> HIDE DEF f, g
<1>7. /\ r \in State /\ r.users = f /\ r.names = g
      /\ r.sessions = m.sessions /\ r.invites = m.invites
  BY <1>1, <1>4, <1>6 DEF State
<1> HIDE DEF r
<1>8. \A u \in UserId : (Exists(r, u) <=> Exists(m, u)) /\ (IsActive(r, u) <=> IsActive(m, u))
  <2>1. \A u \in UserId : Exists(r, u) <=> Exists(m, u)
    <3> SUFFICES ASSUME NEW u \in UserId PROVE Exists(r, u) <=> Exists(m, u)
      OBVIOUS
    <3>1. (Exists(m, u) => f[u] \in User) /\ (~Exists(m, u) => f[u] = NoUser)
      BY Zenon, <1>3
    <3>2. (Exists(r, u) <=> f[u] \in User) /\ (Exists(r, u) <=> f[u] # NoUser)
      BY Zenon, <1>7, RecordsAre
    <3> QED BY Zenon, <3>1, <3>2
  <2> QED BY <1>3, <1>7, <2>1 DEF IsActive
<1>9. Users(r) = Users(m)
  BY <1>8 DEF Users
<1>10. Users(r) # {} => Admins(r) # {}
  <2> SUFFICES ASSUME Users(r) # {} PROVE Admins(r) # {}
    OBVIOUS
  <2>1. PICK a \in UserId : a \in Admins(m)
    BY <1>9 DEF Sound, People, Admins
  <2>2. Exists(m, a) /\ m.users[a].admin = TRUE /\ IsActive(m, a)
    BY <1>1, <2>1, RecordsAre DEF Admins, IsActive, User
  <2>3. f[a].admin = m.users[a].admin \/ f[a].admin = TRUE
    BY Zenon, <1>3, <2>2
  <2>4. r.users[a].admin = TRUE
    BY Zenon, <1>7, <2>2, <2>3
  <2>5. IsActive(r, a) /\ r.users[a].admin
    BY Zenon, <1>8, <2>2, <2>4
  <2>6. a \in Admins(r)
    BY Zenon, <2>5 DEF Admins
  <2> QED BY <2>6
<1>11. People(r, made)
  <2>1. \A u \in UserId : Exists(r, u) => Exists(m, u) /\ r.users[u].invite = m.users[u].invite
    BY Zenon, <1>3, <1>7, <1>8
  <2> QED BY <1>1, <1>7, <1>10, <2>1, PeopleKept DEF Sound
<1>12. ASSUME NEW s \in Live(m)
       PROVE  LET w == m.sessions[s].user IN IsActive(r, w) /\ r.users[w].hash = m.users[w].hash
  <2>1. m.sessions[s].user \in UserId /\ IsActive(m, m.sessions[s].user)
    BY <1>1, RecordsAre DEF Live, Browser, Sound, Guests
  <2> QED BY <1>3, <1>7, <1>8, <2>1 DEF IsActive
<1>13. Guests(r, made, over)
  <2>1. Live(r) = Live(m)
    BY <1>7 DEF Live
  <2>2. Guests(m, made, over)
    BY DEF Sound
  <2> QED BY <1>1, <1>7, <1>12, <2>1, <2>2, GuestsStay
<1>14. Indexed(r)
  BY <1>5, <1>7, <1>8 DEF Indexed
<1>15. Accounted(r, out, gone)
  <2>1. \A u \in Users(m) : u \in Users(r) /\ r.users[u].invite = m.users[u].invite
    BY <1>3, <1>7, <1>9 DEF Users
  <2> QED BY <1>7, <2>1, AccountedLater
<1> QED BY <1>2, <1>7, <1>11, <1>13, <1>14, <1>15 DEF Good, Sound

LEMMA GoodLater ==
  ASSUME NEW m, NEW made, NEW more, NEW over, NEW out, NEW gone, NEW further,
         Good(m, made, over, out, gone), made \subseteq more, gone \subseteq further
  PROVE  Good(m, more, over, out, further)
BY DEF Good, Sound, People, Guests, Accounted

-----------------------------------------------------------------------------
(* Steps.                                                                   *)

\* The variables beside the versions keep their types.
RestOK ==
  /\ alive \in BOOLEAN /\ frozen \in BOOLEAN /\ guardDirty \in BOOLEAN
  /\ ephemeral \subseteq Session /\ minted \subseteq UserId \cup Session \cup Invite
  /\ visit \in [Visit -> Visitor \cup {Idle}]
  /\ ended \subseteq Session /\ shown \subseteq Invite /\ spent \subseteq Invite

LEMMA InvIs ==
  AccountsInv <=>
    /\ RestOK /\ ended \subseteq minted
    /\ Sound(state, minted, ended) /\ Indexed(state)
    /\ Sound(disk, minted, ended) /\ Accounted(disk, shown, spent)
    /\ IF alive THEN Good(state, minted, ended, shown, spent) ELSE ~frozen
BY Zenon DEF AccountsInv, AccountsTypeOK, RestOK, Good, Sound

LEMMA InvIsNext ==
  AccountsInv' <=>
    /\ RestOK' /\ ended' \subseteq minted'
    /\ Sound(state', minted', ended') /\ Indexed(state')
    /\ Sound(disk', minted', ended') /\ Accounted(disk', shown', spent')
    /\ IF alive' THEN Good(state', minted', ended', shown', spent') ELSE ~frozen'
BY Zenon DEF AccountsInv, AccountsTypeOK, RestOK, Good, Sound

\* What a handler leaves for SaveAccounts.
Prepared(m, offered) ==
  /\ alive /\ alive'
  /\ minted \subseteq minted' /\ minted' \subseteq UserId \cup Session \cup Invite
  /\ spent \subseteq spent' /\ spent' \subseteq Invite
  /\ ephemeral' \subseteq Session /\ visit' \in [Visit -> Visitor \cup {Idle}]
  /\ offered \subseteq Invite
  /\ Good(m, minted', ended, shown \cup offered, spent')

\* However a save ends, what is in memory and what the next process finds are good.
LEMMA SaveStands ==
  ASSUME AccountsInv, NEW m, NEW recovery, NEW offered,
         Prepared(m, offered), SaveAccounts(m, recovery, offered)
  PROVE  AccountsInv'
<1>1. /\ RestOK /\ ended \subseteq minted /\ alive
      /\ Sound(state, minted, ended) /\ Sound(disk, minted, ended) /\ Accounted(disk, shown, spent)
      /\ Good(state, minted, ended, shown, spent)
  BY InvIs DEF Prepared
<1>2. Good(state, minted', ended, shown, spent') /\ Sound(disk, minted', ended)
      /\ Accounted(disk, shown, spent')
  <2>1. Good(state, minted', ended, shown, spent')
    BY <1>1, GoodLater DEF Prepared
  <2>2. Sound(disk, minted', ended)
    BY <1>1 DEF Prepared, Sound, People, Guests
  <2>3. Accounted(disk, shown, spent')
    BY <1>1 DEF Prepared, Accounted
  <2> QED BY <2>1, <2>2, <2>3
<1>3. Good(m, minted', ended, shown, spent')
  BY DEF Prepared, Good, Accounted
<1>4. CASE /\ Written(m) /\ state' = m
           /\ ended' = ended \cup (Logins(state) \ Logins(m)) /\ shown' = shown \cup offered
  <2>1. ended' \subseteq minted' /\ ended' \subseteq Session /\ Logins(m) \cap ended' = {}
    <3>1. \A s \in Live(state) : state.sessions[s].login \in minted /\ state.sessions[s].login \in Session
      <4>1. \A s \in Live(state) : state.sessions[s] \in Browser
        BY <1>1, RecordsAre DEF Sound, Live
      <4> QED BY <1>1, <4>1 DEF Sound, Guests, Browser
    <3>2. \A s \in Live(m) : m.sessions[s].login \notin ended
      BY DEF Prepared, Good, Sound, Guests
    <3> QED BY <1>1, <1>4, <3>1, <3>2 DEF Logins, Prepared, RestOK
  <2>2. Sound(m, minted', ended')
    BY <2>1, SoundLater DEF Prepared, Good
  <2>3. Good(m, minted', ended', shown', spent')
    BY <1>4, <2>2 DEF Prepared, Good
  <2>4. RestOK'
    BY <1>1, <1>4, <2>1 DEF RestOK, Prepared, Written
  <2> QED BY <1>4, <2>1, <2>2, <2>3, <2>4, InvIsNext DEF Written, Good, Prepared
<1>5. CASE Torn(m) /\ UNCHANGED <<state, ended, shown>>
  <2>1. RestOK'
    BY <1>1, <1>5 DEF RestOK, Prepared, Torn
  <2>2. Sound(disk', minted', ended) /\ Accounted(disk', shown, spent')
    BY <1>2, <1>3, <1>5 DEF Torn, Good
  <2> QED BY <1>1, <1>2, <1>5, <2>1, <2>2, InvIsNext DEF Good, Prepared
<1>6. CASE UNCHANGED <<state, frozen, stored, ended, shown>>
  <2>1. RestOK'
    BY <1>1, <1>6 DEF RestOK, Prepared, stored
  <2> QED BY <1>1, <1>2, <1>6, <2>1, InvIsNext DEF Good, Prepared, stored
<1> QED BY <1>4, <1>5, <1>6 DEF SaveAccounts

LEMMA ReturnOK ==
  ASSUME NEW v \in Visit, AccountsInv, Return(v)
  PROVE  visit' \in [Visit -> Visitor \cup {Idle}]
BY DEF Return, AccountsInv, AccountsTypeOK

\* While the Relay runs, what it holds is good.
LEMMA StateIsGood ==
  ASSUME AccountsInv, alive
  PROVE  /\ Good(state, minted, ended, shown, spent) /\ state \in State /\ RestOK
         /\ ended \subseteq minted
BY InvIs DEF Good, Sound

\* A handler that touches neither its request nor an invite.
LEMMA PreparedPlainly ==
  ASSUME AccountsInv, alive, NEW m, UNCHANGED <<alive, ephemeral, spent>>,
         minted \subseteq minted', minted' \subseteq UserId \cup Session \cup Invite,
         visit' \in [Visit -> Visitor \cup {Idle}], Good(m, minted', ended, shown, spent)
  PROVE  Prepared(m, {})
BY StateIsGood DEF Prepared, RestOK

LEMMA SetupStands ==
  ASSUME AccountsInv, NEW u \in UserId, NEW public \in BOOLEAN, NEW open \in BOOLEAN,
         Setup(u, public, open)
  PROVE  AccountsInv'
<1> DEFINE q == NewUser(state, u, TRUE, Nobody)
           m == [q EXCEPT !.public = public, !.open = public /\ open]
<1>1. /\ alive /\ Users(state) = {} /\ u \notin minted /\ minted' = minted \cup {u}
      /\ SaveAccounts(m, FALSE, {}) /\ UNCHANGED <<alive, ephemeral, visit, spent>>
  BY DEF Setup, Mint
<1>2. Good(state, minted, ended, shown, spent) /\ state \in State /\ RestOK
  BY <1>1, StateIsGood
<1>3. q \in State /\ q.sessions = state.sessions /\ q.invites = state.invites
  <2>1. TRUE \in BOOLEAN /\ Nobody \in Invite \cup {Nobody}
    OBVIOUS
  <2>2. BesideUsers(q, state)
    BY Zenon, <1>2, <2>1, NewUserIs
  <2> HIDE DEF q
  <2> QED BY <2>2 DEF BesideUsers
<1>4. (public /\ open) \in BOOLEAN
  OBVIOUS
<1>5. /\ m \in State /\ m.users = q.users /\ m.names = q.names
      /\ m.sessions = q.sessions /\ m.invites = q.invites
  BY <1>3, <1>4 DEF State
<1>6. state.names[NameOf[u]] = Nobody
  BY <1>1, <1>2, StateFields DEF Good, Indexed, Users
<1>7. state.invites = state.invites \ {Nobody} /\ shown \in SUBSET Invite
  BY <1>2, StateFields DEF RestOK
<1>8. Good(m, minted', ended, shown, spent)
  <2>1. Good(m, minted \cup {u}, ended, shown, spent)
    <3>1. m.sessions = state.sessions /\ m.invites = state.invites \ {Nobody}
      BY <1>3, <1>5, <1>7
    <3>2. TRUE \in BOOLEAN /\ Nobody \in Invite \cup {Nobody}
      OBVIOUS
    <3> QED BY Zenon, <1>1, <1>2, <1>5, <1>6, <1>7, <3>1, <3>2, NewUserGood
  <2> QED BY Zenon, <1>1, <2>1
<1> HIDE DEF m, q
<1>9. Prepared(m, {})
  BY <1>1, <1>2, <1>8, PreparedPlainly DEF RestOK
<1> QED BY Zenon, <1>1, <1>9, SaveStands

LEMMA RegisterStands ==
  ASSUME AccountsInv, NEW u \in UserId, NEW i \in Invite \cup {Nobody}, NEW s \in Session,
         Register(u, i, s)
  PROVE  AccountsInv'
<1> DEFINE q == NewUser(state, u, FALSE, i)
           r == Consumed(q, i)
           m == SignedIn(r, s, u)
<1>1. /\ alive /\ Users(state) # {} /\ {u, s} \cap minted = {} /\ minted' = minted \cup {u, s}
      /\ state.names[NameOf[u]] = Nobody /\ (i = Nobody \/ i \in state.invites)
      /\ SaveAccounts(m, FALSE, {}) /\ UNCHANGED <<alive, ephemeral, visit, spent>>
  BY DEF Register, Mint, InviteAccepted
<1>2. Good(state, minted, ended, shown, spent) /\ state \in State /\ RestOK /\ ended \subseteq minted
  BY <1>1, StateIsGood
<1>3. q \in State /\ q.sessions = state.sessions /\ q.invites = state.invites
  <2>1. BesideUsers(q, state)
    BY <1>2, NewUserIs
  <2> HIDE DEF q
  <2> QED BY <2>1 DEF BesideUsers
<1>4. /\ r \in State /\ r.users = q.users /\ r.names = q.names
      /\ r.sessions = state.sessions /\ r.invites = state.invites \ {i}
  BY <1>3 DEF State, Consumed
<1> HIDE DEF r
<1>5. Good(r, minted \cup {u}, ended, shown, spent) /\ IsActive(r, u)
  <2>1. FALSE \in BOOLEAN /\ shown \in SUBSET Invite /\ u \notin minted
    BY <1>1, <1>2 DEF RestOK
  <2> QED BY Zenon, <1>1, <1>2, <1>4, <2>1, NewUserGood
<1>6. Good(m, (minted \cup {u}) \cup {s}, ended, shown, spent)
  <2>1. s \notin ended
    BY <1>1, <1>2
  <2> QED BY <1>5, <2>1, SignedInGood, Zenon
<1> HIDE DEF m, q
<1>7. Prepared(m, {})
  <2>1. (minted \cup {u}) \cup {s} = minted'
    BY <1>1
  <2> QED BY <1>1, <1>2, <1>6, <2>1, PreparedPlainly DEF RestOK
<1> QED BY Zenon, <1>1, <1>7, SaveStands

\* What clearSession and a frozen process keep in memory, saved or not.
LEMMA HeldStands ==
  ASSUME AccountsInv, NEW m, Prepared(m, {}), state' = m, shown' = shown,
         \/ ended' = ended /\ (Torn(m) \/ UNCHANGED <<frozen, stored>>)
         \/ Written(m) /\ ended' = ended \cup (Logins(state) \ Logins(m))
  PROVE  AccountsInv'
<1>1. /\ RestOK /\ ended \subseteq minted /\ alive
      /\ Sound(disk, minted, ended) /\ Accounted(disk, shown, spent)
  BY InvIs DEF Prepared
<1>2. Sound(disk, minted', ended) /\ Accounted(disk, shown, spent')
  <2>1. Sound(disk, minted', ended)
    BY <1>1 DEF Prepared, Sound, People, Guests
  <2>2. Accounted(disk, shown, spent')
    BY <1>1 DEF Prepared, Accounted
  <2> QED BY <2>1, <2>2
<1>3. Good(m, minted', ended, shown, spent')
  BY DEF Prepared, Good, Accounted
<1>4. CASE ended' = ended /\ (Torn(m) \/ UNCHANGED <<frozen, stored>>)
  <2>1. RestOK'
    BY <1>1, <1>4 DEF RestOK, Prepared, Torn, stored
  <2>2. Sound(disk', minted', ended) /\ Accounted(disk', shown, spent')
    BY <1>2, <1>3, <1>4 DEF Torn, Good, stored
  <2> QED BY <1>1, <1>3, <1>4, <2>1, <2>2, InvIsNext DEF Good, Prepared
<1>5. CASE Written(m) /\ ended' = ended \cup (Logins(state) \ Logins(m))
  <2>1. SaveAccounts(m, TRUE, {})
    BY <1>5 DEF SaveAccounts
  <2> QED BY Zenon, <2>1, SaveStands
<1> QED BY <1>4, <1>5

LEMMA SignInStands ==
  ASSUME AccountsInv, NEW v \in Visit, NEW s \in Session, SignIn(v, s)
  PROVE  AccountsInv'
<1> DEFINE u == visit[v].seen
           m == SignedIn(state, s, u)
<1>1. /\ alive /\ IsActive(state, u) /\ s \notin minted /\ minted' = minted \cup {s}
      /\ Return(v) /\ UNCHANGED <<alive, spent>>
      /\ \/ /\ frozen /\ state' = m /\ ephemeral' = ephemeral \cup {s}
            /\ UNCHANGED <<frozen, stored, ended, shown>>
         \/ SaveAccounts(m, FALSE, {}) /\ UNCHANGED ephemeral
  BY DEF SignIn, IsCurrent, Mint
<1>2. Good(state, minted, ended, shown, spent) /\ RestOK /\ ended \subseteq minted
  BY <1>1, StateIsGood
<1>3. u \in UserId
  <2>1. u \in UserId \cup {Nobody}
    BY <1>2 DEF RestOK, Visitor, Idle
  <2> QED BY <1>1, <2>1 DEF IsActive, Exists
<1> HIDE DEF u
<1>4. Good(m, minted', ended, shown, spent)
  BY <1>1, <1>2, <1>3, SignedInGood
<1> HIDE DEF m
<1>5. Prepared(m, {})
  BY <1>1, <1>2, <1>4, ReturnOK DEF Prepared, RestOK
<1>6. CASE state' = m /\ UNCHANGED <<frozen, stored, ended, shown>>
  BY <1>5, <1>6, HeldStands
<1>7. CASE SaveAccounts(m, FALSE, {})
  BY Zenon, <1>5, <1>7, SaveStands
<1> QED BY <1>1, <1>6, <1>7

LEMMA ReauthenticateStands ==
  ASSUME AccountsInv, NEW v \in Visit, NEW s \in Session, Reauthenticate(v, s)
  PROVE  AccountsInv'
<1> DEFINE old == visit[v].via
           m == [Without(state, {old}) EXCEPT !.sessions[s] = [state.sessions[old] EXCEPT !.fresh = TRUE]]
<1>1. /\ alive /\ old \in Live(state) /\ s \notin minted /\ minted' = minted \cup {s}
      /\ Return(v) /\ UNCHANGED <<alive, spent>>
      /\ \/ /\ frozen /\ state' = m /\ ephemeral' = ephemeral \cup {s}
            /\ UNCHANGED <<frozen, stored, ended, shown>>
         \/ SaveAccounts(m, FALSE, {}) /\ UNCHANGED ephemeral
  BY DEF Reauthenticate, Mint
<1>2. Good(state, minted, ended, shown, spent) /\ RestOK
  BY <1>1, StateIsGood
<1> HIDE DEF old
<1>3. Good(m, minted', ended, shown, spent)
  BY <1>1, <1>2, MovedGood
<1> HIDE DEF m
<1>4. Prepared(m, {})
  BY <1>1, <1>2, <1>3, ReturnOK DEF Prepared, RestOK
<1>5. CASE state' = m /\ UNCHANGED <<frozen, stored, ended, shown>>
  BY <1>4, <1>5, HeldStands
<1>6. CASE SaveAccounts(m, FALSE, {})
  BY Zenon, <1>4, <1>6, SaveStands
<1> QED BY <1>1, <1>5, <1>6

LEMMA SignOutStands ==
  ASSUME AccountsInv, NEW s \in Session, SignOut(s)
  PROVE  AccountsInv'
<1> DEFINE m == Without(state, {s})
<1>1. /\ alive /\ state' = m /\ UNCHANGED <<alive, ephemeral, visit, minted, shown, spent>>
      /\ \/ ended' = ended /\ (Torn(m) \/ UNCHANGED <<frozen, stored>>)
         \/ Written(m) /\ ended' = ended \cup (Logins(state) \ Logins(m))
  BY DEF SignOut
<1>2. Good(state, minted, ended, shown, spent) /\ RestOK
  BY <1>1, StateIsGood
<1>3. Good(m, minted', ended, shown, spent)
  BY <1>1, <1>2, WithoutGood
<1> HIDE DEF m
<1>4. Prepared(m, {})
  BY <1>1, <1>2, <1>3, PreparedPlainly DEF RestOK
<1> QED BY <1>1, <1>4, HeldStands

LEMMA EndSessionsStands ==
  ASSUME AccountsInv, NEW v \in Visit, NEW S \in SUBSET Session, EndSessions(v, S)
  PROVE  AccountsInv'
<1> DEFINE m == Without(state, S)
<1>1. /\ alive /\ SaveAccounts(m, FALSE, {}) /\ Return(v)
      /\ UNCHANGED <<alive, ephemeral, minted, spent>>
  BY DEF EndSessions
<1>2. Good(state, minted, ended, shown, spent) /\ RestOK
  BY <1>1, StateIsGood
<1>3. Good(m, minted', ended, shown, spent)
  BY <1>1, <1>2, WithoutGood
<1> HIDE DEF m
<1>4. Prepared(m, {})
  BY <1>1, <1>2, <1>3, ReturnOK, PreparedPlainly DEF RestOK
<1> QED BY Zenon, <1>1, <1>4, SaveStands

LEMMA ChangePasswordStands ==
  ASSUME AccountsInv, NEW v \in Visit, ChangePassword(v)
  PROVE  AccountsInv'
<1> DEFINE u == visit[v].who
           m == Rehashed(state, u)
<1>1. /\ alive /\ SaveAccounts(m, FALSE, {}) /\ Return(v)
      /\ IsActive(state, u) /\ state.users[u].hash < MaxHash
      /\ UNCHANGED <<alive, ephemeral, minted, spent>>
  BY DEF ChangePassword, IsCurrent
<1>2. Good(state, minted, ended, shown, spent) /\ RestOK
  BY <1>1, StateIsGood
<1>3. u \in UserId /\ Exists(state, u)
  <2>1. u \in UserId \cup {Nobody}
    BY <1>2 DEF RestOK, Visitor, Idle
  <2> QED BY <1>1, <2>1 DEF IsActive, Exists
<1> HIDE DEF u
<1>4. Good(m, minted', ended, shown, spent)
  BY <1>1, <1>2, <1>3, RehashedGood
<1> HIDE DEF m
<1>5. Prepared(m, {})
  BY <1>1, <1>2, <1>4, ReturnOK, PreparedPlainly DEF RestOK
<1> QED BY Zenon, <1>1, <1>5, SaveStands

\* applyAdminAction leaves the administrator who asked in charge, so that any change
\* it applies to a good version need only keep it good.
LEMMA ApplyStands ==
  ASSUME AccountsInv, NEW v \in Visit, NEW stage, NEW expands, NEW m, NEW offered \in SUBSET Invite,
         Apply(v, stage, expands, m, offered),
         minted \subseteq minted', minted' \subseteq UserId \cup Session \cup Invite,
         spent \subseteq spent', spent' \subseteq Invite,
         Good(m, minted', ended, shown \cup offered, spent')
  PROVE  AccountsInv'
<1>1. alive /\ SaveAccounts(m, TRUE, offered) /\ Return(v) /\ UNCHANGED <<alive, ephemeral>>
  BY DEF Apply
<1>2. RestOK
  BY <1>1, StateIsGood
<1>3. Prepared(m, offered)
  BY <1>1, <1>2, ReturnOK DEF Prepared, RestOK
<1> QED BY Zenon, <1>1, <1>3, SaveStands

LEMMA SetUserDisabledStands ==
  ASSUME AccountsInv, NEW v \in Visit, NEW u \in UserId, NEW off \in BOOLEAN, SetUserDisabled(v, u, off)
  PROVE  AccountsInv'
<1> DEFINE q == [state EXCEPT !.users[u].disabled = off]
           m == IF off THEN Without(q, SessionsOf(q, u)) ELSE q
<1>1. /\ Exists(state, u) /\ u # visit[v].who /\ visit[v].who \in Admins(state) /\ alive
      /\ UNCHANGED <<minted, spent>>
      /\ Apply(v, IF off THEN "acting" ELSE "fresh", ~off, m, {})
  BY DEF SetUserDisabled, Apply, LiveAdmin
<1>2. Good(state, minted, ended, shown, spent) /\ RestOK
  BY <1>1, StateIsGood
<1>3. Good(m, minted', ended, shown, spent)
  BY <1>1, <1>2, DisabledGood
<1> HIDE DEF m
<1>4. /\ shown \cup {} = shown /\ minted \subseteq minted' /\ minted' \subseteq UserId \cup Session \cup Invite
      /\ spent \subseteq spent' /\ spent' \subseteq Invite /\ spent' = spent /\ {} \in SUBSET Invite
  BY <1>1, <1>2 DEF RestOK
<1> QED BY Zenon, <1>1, <1>3, <1>4, ApplyStands

LEMMA DeleteUserStands ==
  ASSUME AccountsInv, NEW v \in Visit, NEW u \in UserId, DeleteUser(v, u)
  PROVE  AccountsInv'
<1> DEFINE m == Forgotten(state, u)
<1>1. /\ Exists(state, u) /\ u # visit[v].who /\ visit[v].who \in Admins(state) /\ alive
      /\ UNCHANGED minted /\ spent' = spent \cup ({state.users[u].invite} \ {Nobody})
      /\ Apply(v, "fresh", FALSE, m, {})
  BY DEF DeleteUser, Apply, LiveAdmin
<1>2. Good(state, minted, ended, shown, spent) /\ RestOK /\ state \in State
  BY <1>1, StateIsGood
<1>3. Good(m, minted', ended, shown, spent')
  BY <1>1, <1>2, ForgottenGood DEF RestOK
<1>4. state.users[u].invite \in Invite \cup {Nobody}
  BY <1>1, <1>2, RecordsAre DEF User
<1> HIDE DEF m
<1>5. /\ shown \cup {} = shown /\ minted \subseteq minted' /\ minted' \subseteq UserId \cup Session \cup Invite
      /\ spent \subseteq spent' /\ spent' \subseteq Invite /\ {} \in SUBSET Invite
  BY <1>1, <1>2, <1>4 DEF RestOK
<1> QED BY Zenon, <1>1, <1>3, <1>5, ApplyStands

LEMMA CreateUserStands ==
  ASSUME AccountsInv, NEW v \in Visit, NEW u \in UserId, CreateUser(v, u)
  PROVE  AccountsInv'
<1> DEFINE m == NewUser(state, u, FALSE, Nobody)
<1>1. /\ state.names[NameOf[u]] = Nobody /\ u \notin minted /\ minted' = minted \cup {u} /\ alive
      /\ visit[v].who \in Admins(state) /\ UNCHANGED spent
      /\ Apply(v, "fresh", TRUE, m, {})
  BY DEF CreateUser, Apply, LiveAdmin, Mint
<1>2. Good(state, minted, ended, shown, spent) /\ RestOK /\ state \in State
  BY <1>1, StateIsGood
<1>3. /\ Users(state) # {} /\ state.invites = state.invites \ {Nobody} /\ shown \in SUBSET Invite
      /\ FALSE \in BOOLEAN /\ Nobody \in Invite \cup {Nobody}
  BY <1>1, <1>2, StateFields DEF Admins, IsActive, Users, RestOK
<1>4. m \in State /\ m.sessions = state.sessions /\ m.invites = state.invites
  <2>1. BesideUsers(m, state)
    BY Zenon, <1>2, <1>3, NewUserIs
  <2> HIDE DEF m
  <2> QED BY <2>1 DEF BesideUsers
<1>5. Good(m, minted \cup {u}, ended, shown, spent)
  <2>1. m.users = m.users /\ m.names = m.names /\ m.invites = state.invites \ {Nobody}
    BY <1>3, <1>4
  <2> QED BY Zenon, <1>1, <1>2, <1>3, <1>4, <2>1, NewUserGood
<1> HIDE DEF m
<1>6. /\ shown \cup {} = shown /\ minted \subseteq minted' /\ minted' \subseteq UserId \cup Session \cup Invite
      /\ spent \subseteq spent' /\ spent' \subseteq Invite /\ spent' = spent /\ {} \in SUBSET Invite
  BY <1>1, <1>2 DEF RestOK
<1> QED BY Zenon, <1>1, <1>5, <1>6, ApplyStands

LEMMA RotatePasswordStands ==
  ASSUME AccountsInv, NEW v \in Visit, NEW u \in UserId, RotatePassword(v, u)
  PROVE  AccountsInv'
<1> DEFINE m == Rehashed(state, u)
<1>1. /\ Exists(state, u) /\ state.users[u].hash < MaxHash /\ alive
      /\ UNCHANGED <<minted, spent>> /\ Apply(v, "fresh", FALSE, m, {})
  BY DEF RotatePassword, Apply, IsActive
<1>2. Good(state, minted, ended, shown, spent) /\ RestOK
  BY <1>1, StateIsGood
<1>3. Good(m, minted', ended, shown, spent)
  BY <1>1, <1>2, RehashedGood
<1> HIDE DEF m
<1>4. /\ shown \cup {} = shown /\ minted \subseteq minted' /\ minted' \subseteq UserId \cup Session \cup Invite
      /\ spent \subseteq spent' /\ spent' \subseteq Invite /\ spent' = spent /\ {} \in SUBSET Invite
  BY <1>1, <1>2 DEF RestOK
<1> QED BY Zenon, <1>1, <1>3, <1>4, ApplyStands

LEMMA LogoutStands ==
  ASSUME AccountsInv, NEW v \in Visit, NEW S \in SUBSET Session, Logout(v, S)
  PROVE  AccountsInv'
<1> DEFINE m == Without(state, S)
<1>1. alive /\ UNCHANGED <<minted, spent>> /\ Apply(v, "acting", FALSE, m, {})
  BY DEF Logout, Apply
<1>2. Good(state, minted, ended, shown, spent) /\ RestOK
  BY <1>1, StateIsGood
<1>3. Good(m, minted', ended, shown, spent)
  BY <1>1, <1>2, WithoutGood
<1> HIDE DEF m
<1>4. /\ shown \cup {} = shown /\ minted \subseteq minted' /\ minted' \subseteq UserId \cup Session \cup Invite
      /\ spent \subseteq spent' /\ spent' \subseteq Invite /\ spent' = spent /\ {} \in SUBSET Invite
  BY <1>1, <1>2 DEF RestOK
<1> QED BY Zenon, <1>1, <1>3, <1>4, ApplyStands

LEMMA CreateInviteStands ==
  ASSUME AccountsInv, NEW v \in Visit, NEW i \in Invite, CreateInvite(v, i)
  PROVE  AccountsInv'
<1> DEFINE m == [state EXCEPT !.invites = @ \cup {i}]
<1>1. /\ alive /\ i \notin minted /\ minted' = minted \cup {i} /\ UNCHANGED spent
      /\ Apply(v, "fresh", TRUE, m, {i})
  BY DEF CreateInvite, Apply, Mint
<1>2. Good(state, minted, ended, shown, spent) /\ RestOK
  BY <1>1, StateIsGood
<1>3. Good(m, minted', ended, shown \cup {i}, spent)
  BY <1>1, <1>2, InvitedGood
<1> HIDE DEF m
<1>4. /\ minted \subseteq minted' /\ minted' \subseteq UserId \cup Session \cup Invite
      /\ spent \subseteq spent' /\ spent' \subseteq Invite /\ spent' = spent /\ {i} \in SUBSET Invite
  BY <1>1, <1>2 DEF RestOK
<1> QED BY Zenon, <1>1, <1>3, <1>4, ApplyStands

LEMMA RevokeInviteStands ==
  ASSUME AccountsInv, NEW v \in Visit, NEW i \in Invite, RevokeInvite(v, i)
  PROVE  AccountsInv'
<1> DEFINE m == [state EXCEPT !.invites = @ \ {i}]
<1>1. /\ alive /\ UNCHANGED minted /\ spent' = spent \cup {i} /\ Apply(v, "acting", FALSE, m, {})
  BY DEF RevokeInvite, Apply
<1>2. Good(state, minted, ended, shown, spent) /\ RestOK /\ state \in State
  BY <1>1, StateIsGood
<1>3. /\ m \in State /\ m.users = state.users /\ m.names = state.names /\ m.sessions = state.sessions
      /\ m.invites = state.invites \ {i}
  BY <1>2 DEF State
<1> HIDE DEF m
<1>4. Good(m, minted', ended, shown, spent')
  BY <1>1, <1>2, <1>3, ReregisteredGood
<1>5. /\ shown \cup {} = shown /\ minted \subseteq minted' /\ minted' \subseteq UserId \cup Session \cup Invite
      /\ spent \subseteq spent' /\ spent' \subseteq Invite /\ {} \in SUBSET Invite
  BY <1>1, <1>2 DEF RestOK
<1> QED BY Zenon, <1>1, <1>4, <1>5, ApplyStands

LEMMA SetRegistrationStands ==
  ASSUME AccountsInv, NEW v \in Visit, NEW on \in BOOLEAN, SetRegistration(v, on)
  PROVE  AccountsInv'
<1> DEFINE m == [state EXCEPT !.open = on]
<1>1. /\ alive /\ UNCHANGED <<minted, spent>> /\ Apply(v, IF on THEN "fresh" ELSE "acting", on, m, {})
  BY DEF SetRegistration, Apply
<1>2. Good(state, minted, ended, shown, spent) /\ RestOK /\ state \in State
  BY <1>1, StateIsGood
<1>3. /\ m \in State /\ m.users = state.users /\ m.names = state.names /\ m.sessions = state.sessions
      /\ m.invites = state.invites
  BY <1>2 DEF State
<1> HIDE DEF m
<1>4. Good(m, minted', ended, shown, spent')
  BY <1>1, <1>2, <1>3, ReregisteredGood
<1>5. /\ shown \cup {} = shown /\ minted \subseteq minted' /\ minted' \subseteq UserId \cup Session \cup Invite
      /\ spent \subseteq spent' /\ spent' \subseteq Invite /\ {} \in SUBSET Invite
  BY <1>1, <1>2 DEF RestOK
<1> QED BY Zenon, <1>1, <1>4, <1>5, ApplyStands

LEMMA SetModeStands ==
  ASSUME AccountsInv, NEW v \in Visit, NEW public \in BOOLEAN, SetMode(v, public)
  PROVE  AccountsInv'
<1> DEFINE m == [state EXCEPT !.public = public, !.open = FALSE]
<1>1. /\ alive /\ UNCHANGED <<minted, spent>> /\ Apply(v, "fresh", public, m, {})
  BY DEF SetMode, Apply
<1>2. Good(state, minted, ended, shown, spent) /\ RestOK /\ state \in State
  BY <1>1, StateIsGood
<1>3. /\ m \in State /\ m.users = state.users /\ m.names = state.names /\ m.sessions = state.sessions
      /\ m.invites = state.invites
  BY <1>2 DEF State
<1> HIDE DEF m
<1>4. Good(m, minted', ended, shown, spent')
  BY <1>1, <1>2, <1>3, ReregisteredGood
<1>5. /\ shown \cup {} = shown /\ minted \subseteq minted' /\ minted' \subseteq UserId \cup Session \cup Invite
      /\ spent \subseteq spent' /\ spent' \subseteq Invite /\ {} \in SUBSET Invite
  BY <1>1, <1>2 DEF RestOK
<1> QED BY Zenon, <1>1, <1>4, <1>5, ApplyStands

\* A step that moves a request and changes nothing else.
LEMMA VisitStands ==
  ASSUME AccountsInv, UNCHANGED <<alive, state, frozen, ephemeral, stored, minted, told>>,
         visit' \in [Visit -> Visitor \cup {Idle}]
  PROVE  AccountsInv'
<1>1. RestOK /\ RestOK'
  BY InvIs DEF RestOK, stored, told
<1> QED BY <1>1, InvIs, InvIsNext DEF stored, told

LEMMA EnterStands ==
  ASSUME AccountsInv, NEW v \in Visit, NEW s \in Session, Enter(v, s)
  PROVE  AccountsInv'
<1> DEFINE u == state.sessions[s].user
<1>1. /\ alive /\ s \in Live(state) /\ IsActive(state, u)
      /\ visit' = [visit EXCEPT ![v] = [Idle EXCEPT !.at = "acting", !.via = s, !.who = u,
                                                    !.hash = state.users[u].hash]]
      /\ UNCHANGED <<alive, state, ephemeral, minted, told>>
  BY DEF Enter
<1>2. UNCHANGED <<frozen, stored>> \/ Torn(state) \/ Written(state)
  BY DEF Enter
<1>3. Good(state, minted, ended, shown, spent) /\ RestOK /\ state \in State
  BY <1>1, StateIsGood
<1>4. visit' \in [Visit -> Visitor \cup {Idle}]
  <2>1. u \in UserId
    BY <1>1, <1>3, RecordsAre DEF Live, Browser
  <2>2. state.users[u].hash \in 0..MaxHash
    BY <1>1, <1>3, <2>1, RecordsAre DEF IsActive, User
  <2> HIDE DEF u
  <2> DEFINE rec == [Idle EXCEPT !.at = "acting", !.via = s, !.who = u, !.hash = state.users[u].hash]
  <2>3. rec \in Visitor
    <3> DEFINE h == state.users[u].hash
               x == [Idle EXCEPT !.at = "acting"]
               y == [x EXCEPT !.via = s]
               z == [y EXCEPT !.who = u]
    <3>1. rec = [z EXCEPT !.hash = h]
      OBVIOUS
    <3>2. x \in Visitor
      BY DEF Idle, Visitor
    <3> HIDE DEF h, x, rec
    <3>3. y \in Visitor
      BY <3>2 DEF Visitor
    <3> HIDE DEF y
    <3>4. z \in Visitor
      BY <2>1, <3>3 DEF Visitor
    <3> HIDE DEF z
    <3> QED BY <2>2, <3>1, <3>4 DEF Visitor, h
  <2>4. visit' = [visit EXCEPT ![v] = rec]
    BY <1>1
  <2> HIDE DEF rec
  <2> QED BY <1>3, <2>3, <2>4 DEF RestOK
<1>5. Prepared(state, {})
  BY <1>1, <1>3, <1>4, PreparedPlainly DEF told, RestOK
<1>6. CASE UNCHANGED <<frozen, stored>>
  BY <1>1, <1>4, <1>6, VisitStands
<1>7. CASE Torn(state)
  BY <1>1, <1>5, <1>7, HeldStands DEF told
<1>8. CASE Written(state)
  BY <1>1, <1>5, <1>8, HeldStands DEF told
<1> QED BY <1>2, <1>6, <1>7, <1>8

LEMMA VisitorStands ==
  ASSUME AccountsInv, NEW v \in Visit,
         (\E n \in Name : Verify(v, n)) \/ Verified(v) \/ GiveUp(v) \/ CheckFresh(v)
  PROVE  AccountsInv'
<1>1. alive /\ UNCHANGED <<alive, state, frozen, ephemeral, stored, minted, told>>
  BY DEF Verify, Verified, GiveUp, CheckFresh
<1>2. RestOK /\ state \in State
  BY <1>1, StateIsGood
<1>3. visit' \in [Visit -> Visitor \cup {Idle}]
  <2>1. visit[v] \in Visitor \cup {Idle}
    BY <1>2 DEF RestOK
  <2>2. ASSUME NEW n \in Name, Verify(v, n) PROVE visit' \in [Visit -> Visitor \cup {Idle}]
    <3> DEFINE u == state.names[n]
    <3>1. /\ IsActive(state, u)
          /\ visit' = [visit EXCEPT ![v] = [visit[v] EXCEPT !.at = "verifying", !.seen = u,
                                                           !.seenHash = state.users[u].hash]]
      BY <2>2 DEF Verify
    <3>2. u \in UserId
      BY <1>2, <3>1, StateFields DEF IsActive, Exists
    <3>3. state.users[u].hash \in 0..MaxHash
      BY <1>2, <3>1, <3>2, RecordsAre DEF IsActive, User
    <3> HIDE DEF u
    <3> DEFINE rec == [visit[v] EXCEPT !.at = "verifying", !.seen = u, !.seenHash = state.users[u].hash]
    <3>4. rec \in Visitor
      <4> DEFINE h == state.users[u].hash
                 x == [visit[v] EXCEPT !.at = "verifying"]
      <4>1. rec = [x EXCEPT !.seen = u, !.seenHash = h]
        OBVIOUS
      <4>2. x \in Visitor
        BY <2>1 DEF Idle, Visitor
      <4> HIDE DEF h, x, rec
      <4> QED BY <3>2, <3>3, <4>1, <4>2 DEF Visitor, h
    <3>5. visit' = [visit EXCEPT ![v] = rec]
      BY <3>1
    <3> HIDE DEF rec
    <3> QED BY <1>2, <3>4, <3>5 DEF RestOK
  <2>3. CASE Verified(v)
    <3>1. [visit[v] EXCEPT !.at = "verified"] \in Visitor
      BY <2>1, <2>3 DEF Idle, Visitor, Verified
    <3> QED BY <1>2, <2>3, <3>1 DEF RestOK, Verified
  <2>4. CASE GiveUp(v)
    BY <2>4, ReturnOK DEF GiveUp
  <2>5. CASE CheckFresh(v)
    <3>1. [visit[v] EXCEPT !.at = "fresh"] \in Visitor
      BY <2>1, <2>5 DEF Idle, Visitor, CheckFresh
    <3> QED BY <1>2, <2>5, <3>1 DEF RestOK, CheckFresh
  <2> QED BY <2>2, <2>3, <2>4, <2>5
<1> QED BY <1>1, <1>3, VisitStands

LEMMA LivingStands ==
  ASSUME RestOK', alive', ended' \subseteq minted', Good(state', minted', ended', shown', spent'),
         Sound(disk', minted', ended'), Accounted(disk', shown', spent')
  PROVE  AccountsInv'
BY InvIsNext DEF Good

LEMMA AgeStands ==
  ASSUME AccountsInv, NEW s \in Session, Age(s)
  PROVE  AccountsInv'
<1>1. /\ alive /\ s \in Live(state)
      /\ UNCHANGED <<alive, frozen, ephemeral, guardDirty, visit, minted, told>>
  BY DEF Age
<1>2. /\ RestOK /\ ended \subseteq minted /\ state \in State /\ disk \in State
      /\ Good(state, minted, ended, shown, spent)
      /\ Sound(disk, minted, ended) /\ Accounted(disk, shown, spent)
  BY <1>1, InvIs DEF Sound
<1>3. RestOK'
  BY <1>1, <1>2 DEF RestOK, told
<1>4. CASE state' = Without(state, {s}) /\ disk' = Without(disk, {s})
  <2>1. Good(state', minted, ended, shown, spent)
    BY <1>2, <1>4, WithoutGood
  <2>2. Sound(disk', minted, ended)
    BY <1>2, <1>4, WithoutSound
  <2>3. Accounted(disk', shown, spent)
    <3>1. disk'.users = disk.users /\ disk'.invites = disk.invites
      BY <1>2, <1>4, WithoutIs
    <3>2. Users(disk') = Users(disk)
      BY <3>1, SameUsers
    <3> QED BY <1>2, <3>1, <3>2, AccountedLater
  <2>4. alive' /\ ended' = ended /\ minted' = minted /\ shown' = shown /\ spent' = spent
    BY <1>1 DEF told
  <2>5. /\ Good(state', minted', ended', shown', spent') /\ Sound(disk', minted', ended')
        /\ Accounted(disk', shown', spent') /\ ended' \subseteq minted'
    BY <1>2, <2>1, <2>2, <2>3, <2>4
  <2> QED BY <1>3, <2>4, <2>5, LivingStands
<1>5. CASE /\ state' = [state EXCEPT !.sessions[s].fresh = FALSE]
           /\ disk' = IF s \in Live(disk) THEN [disk EXCEPT !.sessions[s].fresh = FALSE] ELSE disk
  <2>1. Sound(state', minted, ended) /\ Sound(disk', minted, ended)
    BY <1>1, <1>2, <1>5, TiredSound DEF Good
  <2>2. /\ state'.users = state.users /\ state'.names = state.names /\ state'.invites = state.invites
        /\ disk'.users = disk.users /\ disk'.invites = disk.invites
    BY <1>1, <1>2, <1>5, TiredIs
  <2>3. Indexed(state') /\ Accounted(state', shown, spent) /\ Accounted(disk', shown, spent)
    BY <1>2, <2>2, SameUsers DEF Good, Indexed, Accounted
  <2> QED BY <1>1, <1>2, <1>3, <2>1, <2>3, InvIsNext DEF Good, told
<1> QED BY <1>4, <1>5 DEF Age

LEMMA ExpireInviteStands ==
  ASSUME AccountsInv, NEW i \in Invite, ExpireInvite(i)
  PROVE  AccountsInv'
<1>1. /\ alive /\ spent' = spent \cup {i}
      /\ state' = [state EXCEPT !.invites = @ \ {i}] /\ disk' = [disk EXCEPT !.invites = @ \ {i}]
      /\ UNCHANGED <<alive, frozen, ephemeral, guardDirty, visit, minted, ended, shown>>
  BY DEF ExpireInvite
<1>2. /\ RestOK /\ ended \subseteq minted /\ state \in State /\ disk \in State
      /\ Good(state, minted, ended, shown, spent)
      /\ Sound(disk, minted, ended) /\ Accounted(disk, shown, spent)
  BY <1>1, InvIs DEF Sound
<1>3. RestOK'
  BY <1>1, <1>2 DEF RestOK
<1>4. /\ state' \in State /\ state'.users = state.users /\ state'.names = state.names
      /\ state'.sessions = state.sessions /\ state'.invites = state.invites \ {i}
      /\ disk' \in State /\ disk'.users = disk.users /\ disk'.sessions = disk.sessions
      /\ disk'.invites = disk.invites \ {i}
  BY <1>1, <1>2 DEF State
<1>5. Good(state', minted, ended, shown, spent')
  BY <1>1, <1>2, <1>4, ReregisteredGood
<1>6. Sound(disk', minted, ended)
  BY <1>2, <1>4, ReregisteredSound
<1>7. Accounted(disk', shown, spent')
  <2>1. Users(disk') = Users(disk)
    BY <1>4, SameUsers
  <2> QED BY <1>1, <1>2, <1>4, <2>1, AccountedLater
<1>8. alive' /\ ended' = ended /\ minted' = minted /\ shown' = shown
  BY <1>1
<1>9. /\ Good(state', minted', ended', shown', spent') /\ Sound(disk', minted', ended')
      /\ Accounted(disk', shown', spent') /\ ended' \subseteq minted'
  BY <1>2, <1>5, <1>6, <1>7, <1>8
<1> QED BY <1>3, <1>8, <1>9, LivingStands

LEMMA CrashStands ==
  ASSUME AccountsInv, Crash
  PROVE  AccountsInv'
<1>1. /\ ~alive' /\ ~frozen' /\ alive' = FALSE /\ frozen' = FALSE /\ state' = Blank /\ ephemeral' = {}
      /\ visit' = [v \in Visit |-> Idle] /\ UNCHANGED <<stored, minted, told>>
  BY DEF Crash
<1>2. /\ RestOK /\ ended \subseteq minted
      /\ Sound(disk, minted, ended) /\ Accounted(disk, shown, spent)
  BY InvIs
<1>3. RestOK'
  BY <1>1, <1>2 DEF RestOK, stored, told
<1>4. Sound(Blank, minted, ended) /\ Indexed(Blank)
  <2>1. Live(Blank) = {}
    BY DEF Blank, Live
  <2>2. Logins(Blank) = {}
    BY <2>1 DEF Logins
  <2> QED BY <2>2, BlankSound, SoundLater
<1> QED BY <1>1, <1>2, <1>3, <1>4, InvIsNext DEF stored, told

LEMMA BootStands ==
  ASSUME AccountsInv, Boot
  PROVE  AccountsInv'
<1> DEFINE m == Loaded(disk)
<1>1. ~alive /\ UNCHANGED <<ephemeral, visit, minted, told>>
  BY DEF Boot
<1>2. /\ RestOK /\ ended \subseteq minted /\ ~frozen /\ Sound(state, minted, ended) /\ Indexed(state)
      /\ Sound(disk, minted, ended) /\ Accounted(disk, shown, spent)
  BY <1>1, InvIs
<1>3. Good(m, minted, ended, shown, spent)
  BY <1>2, LoadedGood
<1>4. CASE /\ alive' = TRUE /\ state' = m /\ frozen' = guardDirty
           /\ IF guardDirty THEN UNCHANGED stored ELSE disk' = m /\ UNCHANGED guardDirty
  <2> HIDE DEF m
  <2>1. disk' \in {disk, m} /\ guardDirty' = guardDirty /\ alive'
    BY <1>4 DEF stored
  <2>2. RestOK'
    BY <1>1, <1>2, <1>4, <2>1 DEF RestOK, told
  <2>3. Sound(disk', minted, ended) /\ Accounted(disk', shown, spent)
    BY <1>2, <1>3, <2>1 DEF Good
  <2> QED BY <1>1, <1>2, <1>3, <1>4, <2>1, <2>2, <2>3, InvIsNext DEF Good, told
<1>5. CASE disk' \in {disk, m} /\ guardDirty' \in BOOLEAN /\ UNCHANGED <<alive, state, frozen>>
  <2> HIDE DEF m
  <2>1. RestOK'
    BY <1>1, <1>2, <1>5 DEF RestOK, told
  <2>2. Sound(disk', minted, ended) /\ Accounted(disk', shown, spent)
    BY <1>2, <1>3, <1>5 DEF Good
  <2> QED BY <1>1, <1>2, <1>5, <2>1, <2>2, InvIsNext DEF Good, told
<1> QED BY <1>4, <1>5 DEF Boot

\* A step of a request.
LEMMA RequestStands ==
  ASSUME AccountsInv, NEW v \in Visit, AccountAction(v) \/ AdminAction(v)
  PROVE  AccountsInv'
<1>1. CASE AccountAction(v)
  BY <1>1, EnterStands, SignInStands, ReauthenticateStands, VisitorStands, ChangePasswordStands,
     EndSessionsStands DEF AccountAction
<1>2. CASE AdminAction(v)
  <2>1. CASE CheckFresh(v)
    BY <2>1, VisitorStands
  <2>2. CASE \E u \in UserId : \/ \E off \in BOOLEAN : SetUserDisabled(v, u, off)
                               \/ DeleteUser(v, u) \/ CreateUser(v, u) \/ RotatePassword(v, u)
    <3>1. PICK u \in UserId : \/ \E off \in BOOLEAN : SetUserDisabled(v, u, off)
                               \/ DeleteUser(v, u) \/ CreateUser(v, u) \/ RotatePassword(v, u)
      BY <2>2, Zenon
    <3>2. CASE \E off \in BOOLEAN : SetUserDisabled(v, u, off)
      BY <3>2, SetUserDisabledStands, Zenon
    <3>3. CASE DeleteUser(v, u)
      BY <3>3, DeleteUserStands, Zenon
    <3>4. CASE CreateUser(v, u)
      BY <3>4, CreateUserStands, Zenon
    <3>5. CASE RotatePassword(v, u)
      BY <3>5, RotatePasswordStands, Zenon
    <3> QED BY <3>1, <3>2, <3>3, <3>4, <3>5
  <2>3. CASE \E S \in SUBSET Session : Logout(v, S)
    BY <2>3, LogoutStands
  <2>4. CASE \E i \in Invite : CreateInvite(v, i) \/ RevokeInvite(v, i)
    BY <2>4, CreateInviteStands, RevokeInviteStands
  <2>5. CASE \E on \in BOOLEAN : SetRegistration(v, on) \/ SetMode(v, on)
    BY Zenon, <2>5, SetRegistrationStands, SetModeStands
  <2> QED BY Zenon, <1>2, <2>1, <2>2, <2>3, <2>4, <2>5 DEF AdminAction
<1> QED BY <1>1, <1>2

-----------------------------------------------------------------------------
(* Theorems.                                                                *)

\* Both versions of the state, in memory and for the next process, stay sound
\* through every handler, failed save and restart.
THEOREM AccountsInvariant == AccountsSpec => []AccountsInv
<1>1. AccountsInit => AccountsInv
  <2> SUFFICES ASSUME AccountsInit PROVE AccountsInv
    OBVIOUS
  <2>1. RestOK /\ ended = {} /\ minted = {} /\ shown = {} /\ state = Blank /\ disk = Blank
    BY DEF AccountsInit, RestOK
  <2>2. Accounted(Blank, {}, spent)
    BY DEF Accounted
  <2> QED BY <2>1, <2>2, BlankSound, InvIs DEF Good, AccountsInit
<1>2. AccountsInv /\ [AccountsNext]_accountsVars => AccountsInv'
  <2> SUFFICES ASSUME AccountsInv, [AccountsNext]_accountsVars PROVE AccountsInv'
    OBVIOUS
  <2>1. CASE \E u \in UserId, public, open \in BOOLEAN : Setup(u, public, open)
    BY Zenon, <2>1, SetupStands
  <2>2. CASE \E u \in UserId, i \in Invite \cup {Nobody}, s \in Session : Register(u, i, s)
    BY Zenon, <2>2, RegisterStands
  <2>3. CASE \E v \in Visit : AccountAction(v) \/ AdminAction(v)
    BY Zenon, <2>3, RequestStands
  <2>4. CASE \E s \in Session : SignOut(s) \/ Age(s)
    BY Zenon, <2>4, SignOutStands, AgeStands
  <2>5. CASE \E i \in Invite : ExpireInvite(i)
    BY Zenon, <2>5, ExpireInviteStands
  <2>6. CASE Crash \/ Boot
    BY Zenon, <2>6, CrashStands, BootStands
  <2>7. CASE UNCHANGED accountsVars
    <3>1. visit' \in [Visit -> Visitor \cup {Idle}]
      BY <2>7 DEF AccountsInv, AccountsTypeOK, accountsVars
    <3> QED BY <2>7, <3>1, VisitStands DEF accountsVars
  <2> QED BY Zenon, <2>1, <2>2, <2>3, <2>4, <2>5, <2>6, <2>7 DEF AccountsNext
<1> QED BY <1>1, <1>2, PTL DEF AccountsSpec

\* No request leaves a session behind whose account is gone or has another password,
\* and no rollback or restart brings a login back that was ended.
THEOREM SessionsStayCurrent == AccountsSpec => []SessionsHold
<1>1. AccountsInv => SessionsHold
  <2> SUFFICES ASSUME AccountsInv, NEW m \in {state, disk}
               PROVE  /\ \A s \in Live(m) : LET b == m.sessions[s] IN
                            IsActive(m, b.user) /\ m.users[b.user].hash = b.hash
                      /\ Logins(m) \cap ended = {}
    BY DEF SessionsHold, SessionsAreCurrent, LogoutIsFinal
  <2>1. Guests(m, minted, ended)
    BY DEF AccountsInv, Sound
  <2> QED BY <2>1 DEF Guests, Logins
<1> QED BY <1>1, AccountsInvariant, PTL

\* An administrator remains, an invite makes one account, and names lead to the
\* accounts that have them, whatever requests and failed saves came in between.
THEOREM AccountsStayWhole == AccountsSpec => []AccountsAgree
<1>1. AccountsInv => AccountsAgree
  <2> SUFFICES ASSUME AccountsInv PROVE AccountsAgree
    OBVIOUS
  <2>1. AccountsTypeOK /\ Indexed(state) /\ People(state, minted) /\ People(disk, minted)
    BY Zenon DEF AccountsInv, Sound
  <2>2. AnAdminRemains
    BY <2>1 DEF AnAdminRemains, People
  <2>3. NamesAgree
    BY <2>1 DEF NamesAgree, Indexed, People
  <2>4. ASSUME alive, NEW i \in Invite
        PROVE  LET used == {u \in Users(state) : state.users[u].invite = i} IN
               /\ Cardinality(used) + (IF i \in state.invites THEN 1 ELSE 0) <= 1
               /\ i \in shown => i \in state.invites \cup spent \/ used # {}
    <3> DEFINE used == {u \in Users(state) : state.users[u].invite = i}
    <3>1. i \in shown => i \in state.invites \cup spent \/ used # {}
      BY <2>4, InvIs DEF Good, Accounted
    <3>2. CASE used = {}
      <4>1. Cardinality(used) = 0
        BY <3>2, FS_EmptySet
      <4> HIDE DEF used
      <4>2. Cardinality(used) + (IF i \in state.invites THEN 1 ELSE 0) <= 1
        BY <4>1
      <4> QED BY <3>1, <4>2 DEF used
    <3>3. CASE used # {}
      <4>1. PICK u \in used : used = {u}
        BY <2>1, <3>3 DEF People
      <4>2. i \notin state.invites
        BY <2>1, <4>1 DEF People
      <4>3. Cardinality(used) = 1
        BY <4>1, FS_Singleton
      <4> HIDE DEF used
      <4>4. Cardinality(used) + (IF i \in state.invites THEN 1 ELSE 0) <= 1
        BY <4>2, <4>3
      <4> QED BY <3>1, <4>4 DEF used
    <3> QED BY <3>2, <3>3
  <2>5. InviteMakesOneAccount
    BY <2>4 DEF InviteMakesOneAccount
  <2> QED BY Zenon, <2>1, <2>2, <2>3, <2>5 DEF AccountsAgree
<1> QED BY <1>1, AccountsInvariant, PTL

\* In a frozen process a plain save changes nothing, and a recovery save applies its
\* version or nothing.
LEMMA FrozenSave ==
  ASSUME frozen, NEW m, NEW offered
  PROVE  /\ SaveAccounts(m, FALSE, offered) => state' = state
         /\ SaveAccounts(m, TRUE, offered) => state' = m \/ state' = state
BY DEF SaveAccounts

LEMMA FrozenApply ==
  ASSUME AccountsInv, frozen, NEW v, NEW stage, NEW expands, NEW m, NEW offered,
         Apply(v, stage, expands, m, offered), expands \/ Less(state, m)
  PROVE  Less(state, state')
<1>1. Less(state, state)
  BY SameLess
<1>2. Less(state, m)
  BY Zenon DEF Apply, Allowed
<1>3. state' = m \/ state' = state
  BY Zenon, FrozenSave DEF Apply
<1> QED BY <1>1, <1>2, <1>3

LEMMA FrozenAdmin ==
  ASSUME AccountsInv, frozen, NEW v \in Visit, AdminAction(v)
  PROVE  Less(state, state')
<1>1. alive /\ state \in State /\ Good(state, minted, ended, shown, spent) /\ RestOK
  <2>1. alive
    BY InvIs
  <2> QED BY <2>1, StateIsGood
<1>2. CASE CheckFresh(v)
  BY <1>2, SameLess DEF CheckFresh
<1>3. ASSUME NEW u \in UserId, NEW off \in BOOLEAN, SetUserDisabled(v, u, off)
      PROVE  Less(state, state')
  <2> DEFINE q == [state EXCEPT !.users[u].disabled = off]
             m == IF off THEN Without(q, SessionsOf(q, u)) ELSE q
  <2>1. /\ Exists(state, u) /\ u # visit[v].who /\ visit[v].who \in Admins(state)
        /\ Apply(v, IF off THEN "acting" ELSE "fresh", ~off, m, {})
    BY <1>3 DEF SetUserDisabled, Apply, LiveAdmin
  <2>2. off => Less(state, Without(q, SessionsOf(q, u)))
    BY <1>1, <2>1, DisabledGood
  <2>3. ~off \/ Less(state, m)
    BY <2>2
  <2> HIDE DEF m
  <2> QED BY Zenon, <2>1, <2>3, FrozenApply
<1>4. ASSUME NEW u \in UserId, DeleteUser(v, u)
      PROVE  Less(state, state')
  <2>1. /\ Exists(state, u) /\ u # visit[v].who /\ visit[v].who \in Admins(state)
        /\ Apply(v, "fresh", FALSE, Forgotten(state, u), {})
    BY <1>4 DEF DeleteUser, Apply, LiveAdmin
  <2>2. Less(state, Forgotten(state, u))
    BY <1>1, <2>1, ForgottenGood DEF RestOK
  <2> QED BY Zenon, <2>1, <2>2, FrozenApply
<1>5. ASSUME NEW u \in UserId, CreateUser(v, u)
      PROVE  Less(state, state')
  BY Zenon, <1>5, FrozenApply DEF CreateUser
<1>6. ASSUME NEW u \in UserId, RotatePassword(v, u)
      PROVE  Less(state, state')
  <2>1. /\ Exists(state, u) /\ state.users[u].hash < MaxHash
        /\ Apply(v, "fresh", FALSE, Rehashed(state, u), {})
    BY <1>6 DEF RotatePassword, IsActive
  <2>2. Less(state, Rehashed(state, u))
    BY <1>1, <2>1, RehashedGood
  <2> QED BY Zenon, <2>1, <2>2, FrozenApply
<1>7. ASSUME NEW S \in SUBSET Session, Logout(v, S)
      PROVE  Less(state, state')
  <2>1. Less(state, Without(state, S))
    BY <1>1, WithoutIs, SameLess
  <2> QED BY Zenon, <1>7, <2>1, FrozenApply DEF Logout
<1>8. ASSUME NEW i \in Invite, CreateInvite(v, i)
      PROVE  Less(state, state')
  BY Zenon, <1>8, FrozenApply DEF CreateInvite
<1>9. ASSUME NEW i \in Invite, RevokeInvite(v, i)
      PROVE  Less(state, state')
  <2> DEFINE m == [state EXCEPT !.invites = @ \ {i}]
  <2>1. m.users = state.users /\ m.invites = state.invites \ {i} /\ m.open = state.open
    BY <1>1 DEF State
  <2>2. Less(state, m)
    BY <2>1, SameLess
  <2> QED BY Zenon, <1>9, <2>2, FrozenApply DEF RevokeInvite
<1>10. ASSUME NEW on \in BOOLEAN, SetRegistration(v, on)
       PROVE  Less(state, state')
  <2> DEFINE m == [state EXCEPT !.open = on]
  <2>1. m.users = state.users /\ m.invites = state.invites /\ m.open = on
    BY <1>1 DEF State
  <2>2. on \/ Less(state, m)
    BY <2>1, SameLess
  <2>3. Apply(v, IF on THEN "fresh" ELSE "acting", on, m, {})
    BY Zenon, <1>10 DEF SetRegistration
  <2> HIDE DEF m
  <2> QED BY Zenon, <2>2, <2>3, FrozenApply
<1>11. ASSUME NEW on \in BOOLEAN, SetMode(v, on)
       PROVE  Less(state, state')
  <2> DEFINE m == [state EXCEPT !.public = on, !.open = FALSE]
  <2>1. m.users = state.users /\ m.invites = state.invites /\ m.open = FALSE
    BY <1>1 DEF State
  <2>2. Less(state, m)
    BY <2>1, SameLess
  <2>3. Apply(v, "fresh", on, m, {})
    BY Zenon, <1>11 DEF SetMode
  <2> HIDE DEF m
  <2> QED BY Zenon, <2>2, <2>3, FrozenApply
<1> QED BY Zenon, <1>2, <1>3, <1>4, <1>5, <1>6, <1>7, <1>8, <1>9, <1>10, <1>11 DEF AdminAction

LEMMA FrozenRequest ==
  ASSUME AccountsInv, frozen, NEW v \in Visit, AccountAction(v)
  PROVE  Less(state, state')
<1>1. state \in State
  BY InvIs DEF Sound
<1>2. Less(state, state)
  BY SameLess
<1>3. ASSUME NEW s \in Session, Enter(v, s) PROVE state' = state
  BY <1>3 DEF Enter
<1>4. ASSUME NEW s \in Session, SignIn(v, s) PROVE Less(state, state')
  <2> DEFINE u == visit[v].seen
             f == [state.sessions EXCEPT ![s] = [user |-> u, fresh |-> TRUE, hash |-> state.users[u].hash, login |-> s]]
  <2>1. state' = [state EXCEPT !.sessions = f]
    BY <1>4 DEF SignIn, SignedIn
  <2> HIDE DEF f
  <2>2. state'.users = state.users /\ state'.invites = state.invites /\ state'.open = state.open
    BY <1>1, <2>1 DEF State
  <2> QED BY <2>2, SameLess
<1>5. ASSUME NEW s \in Session, Reauthenticate(v, s) PROVE Less(state, state')
  <2> DEFINE old == visit[v].via
             x == Without(state, {old})
             f == [x.sessions EXCEPT ![s] = [state.sessions[old] EXCEPT !.fresh = TRUE]]
  <2>1. state' = [x EXCEPT !.sessions = f]
    BY <1>5 DEF Reauthenticate
  <2>2. x \in State /\ x.users = state.users /\ x.invites = state.invites /\ x.open = state.open
    BY <1>1, WithoutIs
  <2> HIDE DEF f, x
  <2>3. state'.users = state.users /\ state'.invites = state.invites /\ state'.open = state.open
    BY <2>1, <2>2 DEF State
  <2> QED BY <2>3, SameLess
<1>6. ASSUME \/ \E n \in Name : Verify(v, n)
             \/ Verified(v) \/ GiveUp(v)
      PROVE state' = state
  BY <1>6 DEF Verify, Verified, GiveUp
<1>7. ASSUME ChangePassword(v) \/ \E S \in SUBSET Session : EndSessions(v, S)
      PROVE  FALSE
  BY <1>7 DEF ChangePassword, EndSessions
<1> QED BY Zenon, <1>2, <1>3, <1>4, <1>5, <1>6, <1>7 DEF AccountAction

\* A Relay that may have failed to write its state only gives up authority until it
\* is started again.
THEOREM DoubtOnlyReduces == AccountsSpec => FrozenOnlyReduces
<1> DEFINE Reduces ==
      frozen /\ frozen' /\ alive' =>
        /\ \A u \in UserId : IsActive(state', u) => IsActive(state, u)
        /\ Admins(state') \subseteq Admins(state)
        /\ state'.invites \subseteq state.invites
        /\ state'.open => state.open
<1>1. AccountsInv /\ [AccountsNext]_accountsVars => [Reduces]_accountsVars
  <2> SUFFICES ASSUME AccountsInv, AccountsNext, frozen, frozen', alive' PROVE Less(state, state')
    BY DEF Less
  <2>1. state \in State /\ alive
    BY InvIs DEF Sound
  <2>2. Less(state, state)
    BY SameLess
  <2>3. ASSUME NEW u \in UserId, NEW public \in BOOLEAN, NEW open \in BOOLEAN, Setup(u, public, open)
        PROVE  state' = state
    BY Zenon, <2>3, FrozenSave DEF Setup
  <2>4. ASSUME NEW u \in UserId, NEW i \in Invite \cup {Nobody}, NEW s \in Session, Register(u, i, s)
        PROVE  state' = state
    BY Zenon, <2>4, FrozenSave DEF Register
  <2>5. ASSUME NEW v \in Visit, AccountAction(v) \/ AdminAction(v) PROVE Less(state, state')
    BY <2>5, FrozenRequest, FrozenAdmin
  <2>6. ASSUME NEW s \in Session, SignOut(s) PROVE Less(state, state')
    BY <2>1, <2>6, WithoutIs, SameLess DEF SignOut
  <2>7. ASSUME NEW s \in Session, Age(s) PROVE Less(state, state')
    <3>1. CASE state' = Without(state, {s})
      BY <2>1, <3>1, WithoutIs, SameLess
    <3>2. CASE state' = [state EXCEPT !.sessions[s].fresh = FALSE]
      <4> DEFINE f == [state.sessions EXCEPT ![s] = [@ EXCEPT !.fresh = FALSE]]
      <4>1. state' = [state EXCEPT !.sessions = f]
        BY <3>2
      <4> HIDE DEF f
      <4>2. state'.users = state.users /\ state'.invites = state.invites /\ state'.open = state.open
        BY <2>1, <4>1 DEF State
      <4> QED BY <4>2, SameLess
    <3> QED BY <2>7, <3>1, <3>2 DEF Age
  <2>8. ASSUME NEW i \in Invite, ExpireInvite(i) PROVE Less(state, state')
    <3>1. state'.users = state.users /\ state'.invites = state.invites \ {i} /\ state'.open = state.open
      BY <2>1, <2>8 DEF ExpireInvite, State
    <3> QED BY <3>1, SameLess
  <2>9. ~Crash /\ ~Boot
    BY <2>1 DEF Crash, Boot
  <2> QED BY Zenon, <2>2, <2>3, <2>4, <2>5, <2>6, <2>7, <2>8, <2>9 DEF AccountsNext
<1> QED BY <1>1, AccountsInvariant, PTL DEF AccountsSpec, FrozenOnlyReduces

=============================================================================
