----------------------------- MODULE RelayProof -----------------------------
(***************************************************************************)
(* Three parts of the Relay beside accounts and tokens: first the quotas,   *)
(* for every set of accounts, codes and requests, then the challenges of    *)
(* device keys, for every set of them and every lifetime, and last the rate *)
(* windows and password slots, for every limit and length of a window.      *)
(*                                                                          *)
(* What is counted and paid is in three places: the book in memory, the     *)
(* file, and what a power loss may leave of it.  A failed save rolls the    *)
(* book back and may leave the file ahead of it, so each place is shown to  *)
(* be right for itself.                                                     *)
(***************************************************************************)
EXTENDS Usage, DeviceProofs, Limiter, FiniteSetTheorems, TLAPS

USE DefaultAssumption, ByteAssumption, PaymentAssumption, NoOneAssumption DEF Serving

PaidIn(b, a) == b.of[a].paid
UsedIn(b, a) == b.of[a].used
Exists(s)    == s \in {"active", "disabled"}

\* In one copy: a code is unused or was paid to one account, and only codes that were
\* shown were paid.
CopyInv(b, how) ==
  /\ \A c \in Code, a \in Account : c \in PaidIn(b, a) =>
       /\ c \notin b.codes /\ how[c] = "shown"
       /\ \A x \in Account \ {a} : c \notin PaidIn(b, x)
  /\ \A c \in b.codes : how[c] # "no"

\* A payment that was reported is there, and a code of it in no other place.
PaidInv(b, t, state) ==
  /\ state[t[1]] # "absent" /\ (Exists(state[t[1]]) => t[2] \in PaidIn(b, t[1]))
  /\ t[2] \in Code => t[2] \notin b.codes /\ \A x \in Account \ {t[1]} : t[2] \notin PaidIn(b, x)

CopiesInv ==
  /\ \A t \in paid : t[2] \in Code => made[t[2]] = "shown"
  /\ \A b \in Copies : CopyInv(b, made) /\ \A t \in paid : PaidInv(b, t, account)

\* What is durable was counted in the file and in the book, and the file has counted
\* what the book has, unless a checkpoint will be made.
FileInv ==
  /\ \A a \in Account : account[a] # "deleted" =>
       UsedIn(file, a) >= UsedIn(durable, a) /\ UsedIn(book, a) >= UsedIn(durable, a)
  /\ Serving /\ ~dirty =>
       \A a \in Account : account[a] # "deleted" => UsedIn(file, a) = UsedIn(book, a)
  /\ \A a \in Account : account[a] = "absent" =>
       UsedIn(book, a) = 0 /\ UsedIn(file, a) = 0 /\ UsedIn(durable, a) = 0

\* The account of a request is known as long as it waits, and a gate is held by a
\* request of its account.
GateInv ==
  /\ \A r \in Request : stage[r] \in {"waiting", "metered"} => caller[r] \in Account
  /\ \A r \in Request : stage[r] = "metered" => gate[caller[r]] = r
  /\ \A a \in Account, r \in Request : gate[a] = r => stage[r] = "metered" /\ caller[r] = a

UsageInv == UsageTypeOK /\ GateInv /\ FileInv /\ CopiesInv

-----------------------------------------------------------------------------
(* Lemmas about the book.                                                  *)

\* What a book is made of.
LEMMA BookIs ==
  ASSUME NEW b \in Book, NEW a \in Account
  PROVE  /\ b = [of |-> b.of, codes |-> b.codes] /\ b.of \in [Account -> Record \cup {NoRecord}]
         /\ b.codes \subseteq Code
         /\ PaidIn(b, a) \subseteq Payment /\ UsedIn(b, a) \in 0..MaxUsed
BY DEF Book, Record, NoRecord, PaidIn, UsedIn

\* A record that starts counts from nothing.
LEMMA EnsuredIs ==
  ASSUME NEW b \in Book, NEW A \in SUBSET Account, default \in Default
  PROVE  /\ Ensured(b, A) \in Book /\ Ensured(b, A).codes = b.codes
         /\ \A a \in A : Ensured(b, A).of[a] \in Record
         /\ \A a \in Account : /\ PaidIn(Ensured(b, A), a) = PaidIn(b, a)
                               /\ UsedIn(Ensured(b, A), a) = UsedIn(b, a)
<1> DEFINE new == [NoRecord EXCEPT !.base = default]
           f   == [a \in Account |-> IF a \in A /\ b.of[a] = NoRecord THEN new ELSE b.of[a]]
<1>0. new = [base |-> default, paid |-> {}, used |-> 0]
  BY DEF NoRecord
<1> HIDE DEF new
<1>1. new = [base |-> default, paid |-> {}, used |-> 0] /\ new \in Record
  <2>1. 0 \in 0..MaxUsed
    BY ByteAssumption
  <2> QED BY <1>0, <2>1 DEF Record
<1>2. b = [of |-> b.of, codes |-> b.codes] /\ b.of \in [Account -> Record \cup {NoRecord}] /\ b.codes \subseteq Code
  BY DEF Book
<1>3. Ensured(b, A) = [of |-> f, codes |-> b.codes]
  BY <1>2 DEF Ensured, new
<1>4. f \in [Account -> Record \cup {NoRecord}] /\ \A a \in A : f[a] \in Record
  BY <1>1, <1>2
<1>5. \A a \in Account : f[a].paid = b.of[a].paid /\ f[a].used = b.of[a].used
  BY <1>1 DEF NoRecord
<1> HIDE DEF f
<1> QED BY <1>2, <1>3, <1>4, <1>5 DEF Book, PaidIn, UsedIn

\* A payment is added to one account.
LEMMA GrantedIs ==
  ASSUME NEW b \in Book, NEW a \in Account, NEW p \in Payment, default \in Default
  PROVE  /\ Granted(b, a, p) \in Book /\ Granted(b, a, p).codes = b.codes
         /\ PaidIn(Granted(b, a, p), a) = PaidIn(b, a) \cup {p}
         /\ \A x \in Account \ {a} : PaidIn(Granted(b, a, p), x) = PaidIn(b, x)
         /\ \A x \in Account : UsedIn(Granted(b, a, p), x) = UsedIn(b, x)
<1> DEFINE e   == Ensured(b, {a})
           rec == [base |-> e.of[a].base, paid |-> e.of[a].paid \cup {p}, used |-> e.of[a].used]
           f   == [e.of EXCEPT ![a] = rec]
<1>1. /\ e \in Book /\ e.codes = b.codes /\ e.of[a] \in Record
      /\ \A x \in Account : PaidIn(e, x) = PaidIn(b, x) /\ UsedIn(e, x) = UsedIn(b, x)
  BY EnsuredIs
<1>2. Granted(b, a, p) = [e EXCEPT !.of = [e.of EXCEPT ![a] = [e.of[a] EXCEPT !.paid = e.of[a].paid \cup {p}]]]
  BY DEF Granted
<1> HIDE DEF e
<1>3. e = [of |-> e.of, codes |-> e.codes] /\ e.of \in [Account -> Record \cup {NoRecord}] /\ e.codes \subseteq Code
  BY <1>1 DEF Book
<1>4. [e.of[a] EXCEPT !.paid = e.of[a].paid \cup {p}] = rec /\ rec \in Record
  <2>1. e.of[a] = [base |-> e.of[a].base, paid |-> e.of[a].paid, used |-> e.of[a].used]
    BY <1>1 DEF Record
  <2>2. e.of[a].base \in Default /\ e.of[a].paid \cup {p} \in SUBSET Payment /\ e.of[a].used \in 0..MaxUsed
    BY <1>1 DEF Record
  <2> QED BY <2>1, <2>2 DEF Record
<1>5. Granted(b, a, p) = [of |-> f, codes |-> e.codes]
  BY <1>2, <1>3, <1>4
<1>6. /\ f \in [Account -> Record \cup {NoRecord}]
      /\ f[a].paid = e.of[a].paid \cup {p} /\ f[a].used = e.of[a].used
      /\ \A x \in Account \ {a} : f[x] = e.of[x]
  BY <1>3, <1>4
<1> HIDE DEF f
<1> QED BY <1>1, <1>3, <1>5, <1>6 DEF Book, PaidIn, UsedIn

\* Bytes are added to one account, as many as can be counted.
LEMMA ChargedIs ==
  ASSUME NEW b \in Book, NEW a \in Account, NEW n \in Nat, default \in Default
  PROVE  LET new == [Ensured(b, {a}) EXCEPT !.of[a].used = Capped(@ + n)]
         IN  /\ new \in Book /\ new.codes = b.codes
             /\ \A x \in Account : PaidIn(new, x) = PaidIn(b, x) /\ UsedIn(new, x) >= UsedIn(b, x)
             /\ \A x \in Account \ {a} : UsedIn(new, x) = UsedIn(b, x)
<1> DEFINE e   == Ensured(b, {a})
           rec == [base |-> e.of[a].base, paid |-> e.of[a].paid, used |-> Capped(e.of[a].used + n)]
           f   == [e.of EXCEPT ![a] = rec]
           new == [e EXCEPT !.of[a].used = Capped(@ + n)]
<1>1. /\ e \in Book /\ e.codes = b.codes /\ e.of[a] \in Record
      /\ \A x \in Account : PaidIn(e, x) = PaidIn(b, x) /\ UsedIn(e, x) = UsedIn(b, x)
  BY EnsuredIs
<1> HIDE DEF e
<1>2. new = [e EXCEPT !.of = [e.of EXCEPT ![a] = [e.of[a] EXCEPT !.used = Capped(e.of[a].used + n)]]]
  OBVIOUS
<1>3. e = [of |-> e.of, codes |-> e.codes] /\ e.of \in [Account -> Record \cup {NoRecord}] /\ e.codes \subseteq Code
  BY <1>1 DEF Book
<1>4. [e.of[a] EXCEPT !.used = Capped(e.of[a].used + n)] = rec
  BY <1>1 DEF Record
<1>5. Capped(e.of[a].used + n) \in 0..MaxUsed /\ Capped(e.of[a].used + n) >= e.of[a].used
  BY <1>1 DEF Record, Capped
<1>6. rec \in Record
  BY <1>1, <1>5 DEF Record
<1>7. new = [of |-> f, codes |-> e.codes]
  BY <1>2, <1>3, <1>4
<1>8. /\ f \in [Account -> Record \cup {NoRecord}]
      /\ f[a].paid = e.of[a].paid /\ f[a].used >= e.of[a].used
      /\ \A x \in Account \ {a} : f[x] = e.of[x]
  BY <1>3, <1>5, <1>6
<1>9. \A x \in Account : e.of[x].used \in 0..MaxUsed
  BY <1>3 DEF Record, NoRecord
<1> HIDE DEF f, new
<1>10. \A x \in Account : f[x].paid = e.of[x].paid /\ f[x].used >= e.of[x].used
  BY <1>8, <1>9
<1> QED BY <1>1, <1>3, <1>7, <1>8, <1>10 DEF Book, PaidIn, UsedIn, new, e

-----------------------------------------------------------------------------
(* What a step makes of the copies.                                        *)

\* One copy is made from another: no code appears, and no account loses or gains a
\* payment, unless it is gone.
Follows(b2, b, state) ==
  /\ b2.codes \subseteq b.codes
  /\ \A a \in Account : /\ PaidIn(b2, a) \subseteq PaidIn(b, a)
                        /\ Exists(state[a]) => PaidIn(b2, a) = PaidIn(b, a)

AccountsMove ==
  \A a \in Account : account[a] # "absent" =>
    account'[a] # "absent" /\ (Exists(account'[a]) => Exists(account[a]))

\* A step whose copies each follow one that was there, and that pays nothing.
LEMMA CopiesFollow ==
  ASSUME UsageTypeOK, CopiesInv, UNCHANGED <<made, paid>>, AccountsMove,
         \A b2 \in Copies' : \E b \in Copies : Follows(b2, b, account')
  PROVE  CopiesInv'
<1>1. paid \subseteq Account \X Payment
  BY DEF UsageTypeOK
<1>2. ASSUME NEW b2 \in Copies'
      PROVE  CopyInv(b2, made) /\ \A t \in paid : PaidInv(b2, t, account')
  <2>1. PICK b \in Copies : Follows(b2, b, account')
    OBVIOUS
  <2>2. CopyInv(b, made) /\ \A t \in paid : PaidInv(b, t, account)
    BY DEF CopiesInv
  <2>3. CopyInv(b2, made)
    BY <2>1, <2>2 DEF CopyInv, Follows
  <2>4. ASSUME NEW t \in paid PROVE PaidInv(b2, t, account')
    <3>1. t[1] \in Account /\ PaidInv(b, t, account)
      BY <1>1, <2>2
    <3> QED BY <2>1, <3>1 DEF PaidInv, Follows, AccountsMove
  <2> QED BY <2>3, <2>4
<1> QED BY <1>2 DEF CopiesInv

\* A step that changes the counts in memory only, and notes that it did.
Noted ==
  /\ UNCHANGED <<file, durable>> /\ book' \in Book /\ dirty' \in BOOLEAN
  /\ book'.codes = book.codes
  /\ \A a \in Account : PaidIn(book', a) = PaidIn(book, a) /\ UsedIn(book', a) >= UsedIn(book, a)
  /\ ~dirty' => ~dirty /\ \A a \in Account : UsedIn(book', a) = UsedIn(book, a)
  /\ \A a \in Account : account[a] = "absent" => UsedIn(book', a) = UsedIn(book, a)

\* A change of the book that waits for the checkpoint: ...
LEMMA NoteIs ==
  ASSUME UsageTypeOK, NEW b \in Book, Note(b), b.codes = book.codes,
         \A a \in Account : PaidIn(b, a) = PaidIn(book, a) /\ UsedIn(b, a) >= UsedIn(book, a),
         \A a \in Account : account[a] = "absent" => UsedIn(b, a) = UsedIn(book, a)
  PROVE  Noted
<1>1. book' = b /\ UNCHANGED <<file, durable>>
  BY DEF Note, WriteLost
<1>2. dirty' = (dirty \/ b # book)
  BY DEF Note
<1>3. dirty' \in BOOLEAN /\ (~dirty' => ~dirty /\ b = book)
  BY <1>2
<1> QED BY <1>1, <1>3 DEF Noted

\* ... of accounts that get a record, ...
LEMMA EnsuringIsNoted ==
  ASSUME UsageTypeOK, NEW A \in SUBSET Account, Note(Ensured(book, A)) PROVE Noted
<1>1. book \in Book /\ default \in Default
  BY DEF UsageTypeOK
<1>2. \A a \in Account : UsedIn(book, a) \in 0..MaxUsed
  BY <1>1, BookIs
<1>3. /\ Ensured(book, A) \in Book /\ Ensured(book, A).codes = book.codes
      /\ \A a \in Account : /\ PaidIn(Ensured(book, A), a) = PaidIn(book, a)
                            /\ UsedIn(Ensured(book, A), a) = UsedIn(book, a)
  BY <1>1, EnsuredIs
<1>4. \A a \in Account : UsedIn(Ensured(book, A), a) >= UsedIn(book, a)
  BY <1>2, <1>3
<1> QED BY <1>3, <1>4, NoteIs

\* ... of none, ...
LEMMA RestIsNoted == ASSUME UsageTypeOK, UNCHANGED <<book, dirty, file, durable>> PROVE Noted
<1>1. book \in Book /\ dirty' \in BOOLEAN
  BY DEF UsageTypeOK
<1>2. \A a \in Account : UsedIn(book, a) \in 0..MaxUsed
  BY <1>1, BookIs
<1> QED BY <1>1, <1>2 DEF Noted

\* ... noted all the same, ...
LEMMA NothingIsNoted == ASSUME UsageTypeOK, Note(book) PROVE Noted
<1>1. book \in Book
  BY DEF UsageTypeOK
<1>2. \A a \in Account : UsedIn(book, a) \in 0..MaxUsed
  BY <1>1, BookIs
<1> QED BY <1>1, <1>2, NoteIs

\* ... and of bytes that are counted.
LEMMA ChargeIsNoted ==
  ASSUME UsageTypeOK, NEW a \in Account, NEW n \in Nat, Charged(a, n) PROVE Noted
<1> DEFINE new == [Ensured(book, {a}) EXCEPT !.of[a].used = Capped(@ + n)]
<1>1. CASE Note(new) /\ account[a] = "active"
  <2>1. book \in Book /\ default \in Default
    BY DEF UsageTypeOK
  <2>2. /\ new \in Book /\ new.codes = book.codes
        /\ \A x \in Account : PaidIn(new, x) = PaidIn(book, x) /\ UsedIn(new, x) >= UsedIn(book, x)
    BY ONLY <2>1, ChargedIs
  <2>4. \A x \in Account \ {a} : UsedIn(new, x) = UsedIn(book, x)
    BY ONLY <2>1, ChargedIs
  <2> HIDE DEF new
  <2>3. \A x \in Account : account[x] = "absent" => UsedIn(new, x) = UsedIn(book, x)
    BY <1>1, <2>4
  <2> QED BY <1>1, <2>2, <2>3, NoteIs
<1>2. CASE UNCHANGED usageStore
  BY <1>2, RestIsNoted DEF usageStore
<1> QED BY <1>1, <1>2 DEF Charged

\* What such a step must show.
BooksStand == {book, file, durable}' \subseteq Book /\ dirty' \in BOOLEAN /\ CopiesInv' /\ FileInv'

\* Such a step keeps the copies right and the file behind a set dirty flag.
LEMMA NotedStands ==
  ASSUME UsageInv, Noted, UNCHANGED <<up, made, paid>>, AccountsMove,
         \A a \in Account : account[a] = "deleted" => account'[a] = "deleted"
  PROVE  BooksStand
<1>1. {book, file, durable}' \subseteq Book /\ dirty' \in BOOLEAN
  BY DEF Noted, UsageInv, UsageTypeOK
<1>2. FileInv'
  <2>1. ASSUME NEW a \in Account
        PROVE  /\ UsedIn(book, a) \in Int /\ UsedIn(book', a) \in Int
               /\ UsedIn(durable, a) \in Int /\ UsedIn(file, a) \in Int
    BY <1>1, BookIs DEF UsageInv, UsageTypeOK
  <2>2. \A a \in Account : (account'[a] = "absent" => account[a] = "absent")
                         /\ (account'[a] # "deleted" => account[a] # "deleted")
    BY DEF AccountsMove
  <2>3. FileInv /\ Noted /\ UNCHANGED <<up, file, durable>>
    BY DEF UsageInv, Noted
  <2>4. ASSUME NEW a \in Account, account'[a] # "deleted"
        PROVE  /\ UsedIn(file', a) >= UsedIn(durable', a) /\ UsedIn(book', a) >= UsedIn(durable', a)
               /\ Serving' /\ ~dirty' => UsedIn(file', a) = UsedIn(book', a)
    <3>1. /\ UsedIn(file, a) >= UsedIn(durable, a) /\ UsedIn(book, a) >= UsedIn(durable, a)
          /\ Serving /\ ~dirty => UsedIn(file, a) = UsedIn(book, a)
      BY <2>2, <2>3, <2>4 DEF FileInv
    <3>2. /\ UsedIn(book', a) >= UsedIn(book, a) /\ (~dirty' => ~dirty /\ UsedIn(book', a) = UsedIn(book, a))
      BY <2>3 DEF Noted
    <3> QED BY <2>1, <2>3, <3>1, <3>2
  <2>5. ASSUME NEW a \in Account, account'[a] = "absent"
        PROVE  UsedIn(book', a) = 0 /\ UsedIn(file', a) = 0 /\ UsedIn(durable', a) = 0
    <3>0. account[a] = "absent"
      BY ONLY <2>2, <2>5
    <3>1. UsedIn(book, a) = 0 /\ UsedIn(file, a) = 0 /\ UsedIn(durable, a) = 0
      BY ONLY <2>3, <2>5, <3>0 DEF FileInv
    <3>2. UsedIn(book', a) = UsedIn(book, a)
      BY <2>3, <3>0 DEF Noted
    <3> QED BY <2>3, <3>1, <3>2
  <2> QED BY <2>4, <2>5 DEF FileInv
<1>3. CopiesInv'
  <2>1. \A b2 \in Copies' : \E b \in Copies : Follows(b2, b, account')
    BY DEF Copies, Follows, Noted
  <2> QED BY <2>1, CopiesFollow DEF UsageInv
<1> QED BY <1>1, <1>2, <1>3 DEF BooksStand

-----------------------------------------------------------------------------
(* The handlers.                                                           *)

\* A save that is done leaves one book everywhere.
LEMMA SavedStands ==
  ASSUME NEW b \in Book, file' = b, durable' = b, book' = b,
         \A a \in Account : account'[a] = "absent" => UsedIn(b, a) = 0
  PROVE  FileInv'
<1>1. \A a \in Account : UsedIn(b, a) \in Int
  BY BookIs
<1> QED BY <1>1 DEF FileInv

\* Handlers that count or look: accounts, settings and requests.
Counts ==
  \/ Look \/ \E on \in BOOLEAN : SetMetering(on)
  \/ \E n \in Default : SetDefault(n)
  \/ \E a \in Account : \/ CreateAccount(a) \/ \E off \in BOOLEAN : SetDisabled(a, off)
                        \/ \E n \in 1..MaxFrame : RelayTraffic(a, n)
                        \/ \E r \in Request : Arrive(r, a)
  \/ \E r \in Request : \/ \E n \in 0..MaxRequest : Admit(r, n) \/ Refuse(r, n) \/ Finish(r, n)
                        \/ FinishUnmetered(r)

\* They change the book in memory only and leave every account that is gone gone.
LEMMA CountsAreNoted ==
  ASSUME UsageInv, Counts
  PROVE  /\ Noted /\ AccountsMove /\ Serving /\ UNCHANGED <<up, made, paid>>
         /\ \A a \in Account : account[a] = "deleted" => account'[a] = "deleted"
<1> DEFINE Goal == /\ Noted /\ AccountsMove /\ Serving /\ UNCHANGED <<up, made, paid>>
                   /\ \A a \in Account : account[a] = "deleted" => account'[a] = "deleted"
<1>1. UsageTypeOK /\ GateInv
  BY DEF UsageInv
<1>2. ASSUME UNCHANGED account
      PROVE  AccountsMove /\ \A a \in Account : account[a] = "deleted" => account'[a] = "deleted"
  BY <1>2 DEF AccountsMove
<1>3. CASE Look
  <2>1. Noted
    BY <1>1, <1>3, EnsuringIsNoted DEF Look
  <2> QED BY <1>2, <1>3, <2>1 DEF Look
<1>4. ASSUME NEW on \in BOOLEAN, SetMetering(on) PROVE Goal
  <2>1. Noted
    BY <1>1, <1>4, EnsuringIsNoted, NothingIsNoted DEF SetMetering
  <2> QED BY <1>2, <1>4, <2>1 DEF SetMetering
<1>5. ASSUME NEW n \in Default, SetDefault(n) PROVE Goal
  <2>1. Noted
    BY <1>1, <1>5, RestIsNoted DEF SetDefault, usageStore
  <2> QED BY <1>2, <1>5, <2>1 DEF SetDefault
<1>6. ASSUME NEW a \in Account, CreateAccount(a) PROVE Goal
  <2>1. Noted
    <3>1. CASE metering
      BY <1>1, <1>6, <3>1, EnsuringIsNoted DEF CreateAccount
    <3>2. CASE ~metering
      BY <1>1, <1>6, <3>2, NothingIsNoted DEF CreateAccount
    <3> QED BY <3>1, <3>2
  <2>2. AccountsMove /\ \A x \in Account : account[x] = "deleted" => account'[x] = "deleted"
    BY <1>1, <1>6 DEF CreateAccount, AccountsMove, UsageTypeOK, Exists
  <2> QED BY <1>6, <2>1, <2>2 DEF CreateAccount
<1>7. ASSUME NEW a \in Account, NEW off \in BOOLEAN, SetDisabled(a, off) PROVE Goal
  <2>1. Noted
    BY <1>1, <1>7, RestIsNoted DEF SetDisabled, usageStore
  <2>2. AccountsMove /\ \A x \in Account : account[x] = "deleted" => account'[x] = "deleted"
    BY <1>1, <1>7 DEF SetDisabled, AccountsMove, UsageTypeOK, Exists, Known
  <2> QED BY <1>7, <2>1, <2>2 DEF SetDisabled
<1>8. ASSUME NEW a \in Account, NEW n \in 1..MaxFrame, RelayTraffic(a, n) PROVE Goal
  <2>1. Noted
    BY <1>1, <1>8, ChargeIsNoted DEF RelayTraffic
  <2> QED BY <1>2, <1>8, <2>1 DEF RelayTraffic
<1>9. ASSUME NEW a \in Account, NEW r \in Request, Arrive(r, a) PROVE Goal
  <2>1. Noted
    BY <1>1, <1>9, RestIsNoted DEF Arrive, usageStore
  <2> QED BY <1>2, <1>9, <2>1 DEF Arrive
<1>10. ASSUME NEW r \in Request, NEW n \in 0..MaxRequest, Admit(r, n) \/ Refuse(r, n) \/ Finish(r, n)
       PROVE  Goal
  <2>1. caller[r] \in Account
    BY <1>1, <1>10 DEF GateInv, Admit, Refuse, Finish
  <2>2. Noted
    <3>1. CASE Admit(r, n)
      BY <1>1, <2>1, <3>1, EnsuringIsNoted DEF Admit
    <3>2. CASE Refuse(r, n)
      BY <1>1, <2>1, <3>2, EnsuringIsNoted, RestIsNoted DEF Refuse, usageStore
    <3>3. CASE Finish(r, n)
      BY <1>1, <2>1, <3>3, ChargeIsNoted DEF Finish
    <3> QED BY <1>10, <3>1, <3>2, <3>3
  <2>3. Serving /\ UNCHANGED <<account, up, made, paid>>
    BY <1>10 DEF Admit, Refuse, Finish
  <2> QED BY <1>2, <2>2, <2>3
<1>11. ASSUME NEW r \in Request, FinishUnmetered(r) PROVE Goal
  <2>1. Noted
    BY <1>1, <1>11, RestIsNoted DEF FinishUnmetered, usageStore
  <2> QED BY <1>2, <1>11, <2>1 DEF FinishUnmetered
<1> QED BY <1>3, <1>4, <1>5, <1>6, <1>7, <1>8, <1>9, <1>10, <1>11 DEF Counts

\* Payments: a save that fails leaves the book as it was, one that is done leaves one
\* book everywhere.
LEMMA GrantStands ==
  ASSUME UsageInv, NEW a \in Account, NEW p \in Gift, GrantQuota(a, p) PROVE BooksStand
<1>1. book \in Book /\ default \in Default /\ p \in Payment /\ p \notin Code
  BY DEF UsageInv, UsageTypeOK, Payment
<1> DEFINE b == Granted(book, a, p)
<1>2. /\ b \in Book /\ b.codes = book.codes
      /\ PaidIn(b, a) = PaidIn(book, a) \cup {p}
      /\ \A x \in Account \ {a} : PaidIn(b, x) = PaidIn(book, x)
      /\ \A x \in Account : UsedIn(b, x) = UsedIn(book, x)
  BY <1>1, GrantedIs
<1>3. account[a] = "active" /\ Serving /\ UNCHANGED <<account, up, made>>
  BY DEF GrantQuota
<1> HIDE DEF b
<1>4. CopyInv(b, made) /\ \A t \in paid : PaidInv(b, t, account)
  <2>1. CopyInv(book, made) /\ \A t \in paid : PaidInv(book, t, account) /\ t[1] \in Account
    BY DEF UsageInv, UsageTypeOK, CopiesInv, Copies
  <2>2. CopyInv(b, made)
    BY <1>1, <1>2, <2>1 DEF CopyInv
  <2>3. \A t \in paid : PaidInv(b, t, account)
    BY <1>1, <1>2, <2>1 DEF PaidInv
  <2> QED BY <2>2, <2>3
<1>5. CASE file' = b /\ durable' = b /\ book' = b /\ dirty' = FALSE /\ paid' = paid \cup {<<a, p>>}
  <2>1. PaidInv(b, <<a, p>>, account)
    BY <1>1, <1>2, <1>3 DEF PaidInv
  <2>2. CopiesInv'
    BY <1>1, <1>3, <1>4, <1>5, <2>1 DEF CopiesInv, Copies, UsageInv
  <2>3. FileInv'
    <3>1. \A x \in Account : account'[x] = "absent" => UsedIn(b, x) = 0
      BY <1>2, <1>3 DEF UsageInv, FileInv
    <3>2. b \in Book
      BY <1>2
    <3> QED BY <1>5, <3>1, <3>2, SavedStands
  <2> QED BY <1>2, <1>5, <2>2, <2>3 DEF BooksStand
<1>6. CASE file' \in {file, b} /\ UNCHANGED <<durable, book, dirty, paid>>
  <2>1. CopiesInv'
    BY <1>3, <1>4, <1>6 DEF CopiesInv, Copies, UsageInv
  <2>2. FileInv'
    BY <1>2, <1>3, <1>6 DEF FileInv, UsageInv
  <2> QED BY <1>2, <1>6, <2>1, <2>2 DEF BooksStand, UsageInv, UsageTypeOK
<1> QED BY <1>5, <1>6 DEF GrantQuota, SaveOrRollback, WriteDone, WriteUnsynced, WriteLost, b

\* The same of an activation code, which goes with it.
LEMMA RedeemStands ==
  ASSUME UsageInv, NEW a \in Account, NEW c \in Code, RedeemCode(a, c) PROVE BooksStand
<1>1. book \in Book /\ default \in Default /\ c \in Payment
  BY DEF UsageInv, UsageTypeOK, Payment
<1> DEFINE g == Granted(book, a, c)
           b == [g EXCEPT !.codes = @ \ {c}]
<1>2. /\ g \in Book /\ g.codes = book.codes
      /\ PaidIn(g, a) = PaidIn(book, a) \cup {c}
      /\ \A x \in Account \ {a} : PaidIn(g, x) = PaidIn(book, x)
      /\ \A x \in Account : UsedIn(g, x) = UsedIn(book, x)
  BY <1>1, GrantedIs
<1>3. /\ account[a] = "active" /\ Serving /\ UNCHANGED <<account, up, made>>
      /\ c \in book.codes /\ made[c] = "shown"
  BY DEF RedeemCode
<1> HIDE DEF g
<1>4. b \in Book /\ b.codes = book.codes \ {c} /\ b.of = g.of
  BY <1>2 DEF Book
<1>5. /\ PaidIn(b, a) = PaidIn(book, a) \cup {c}
      /\ \A x \in Account \ {a} : PaidIn(b, x) = PaidIn(book, x)
      /\ \A x \in Account : UsedIn(b, x) = UsedIn(book, x)
  BY <1>2, <1>4 DEF PaidIn, UsedIn
<1> HIDE DEF b
<1>6. CopyInv(b, made) /\ \A t \in paid : PaidInv(b, t, account) /\ t[2] # c
  <2>1. CopyInv(book, made) /\ \A t \in paid : PaidInv(book, t, account) /\ t[1] \in Account
    BY DEF UsageInv, UsageTypeOK, CopiesInv, Copies
  <2>2. CopyInv(b, made)
    BY <1>3, <1>4, <1>5, <2>1 DEF CopyInv
  <2>3. \A t \in paid : PaidInv(b, t, account) /\ t[2] # c
    BY <1>3, <1>4, <1>5, <2>1 DEF PaidInv
  <2> QED BY <2>2, <2>3
<1>7. CASE file' = b /\ durable' = b /\ book' = b /\ dirty' = FALSE /\ paid' = paid \cup {<<a, c>>}
  <2>1. PaidInv(b, <<a, c>>, account)
    <3>1. \A x \in Account : c \notin PaidIn(book, x)
      BY <1>3 DEF UsageInv, CopiesInv, Copies, CopyInv
    <3> QED BY <1>3, <1>4, <1>5, <3>1 DEF PaidInv
  <2>2. CopiesInv'
    BY <1>3, <1>6, <1>7, <2>1 DEF CopiesInv, Copies, UsageInv
  <2>3. FileInv'
    <3>1. \A x \in Account : account'[x] = "absent" => UsedIn(b, x) = 0
      BY <1>3, <1>5 DEF UsageInv, FileInv
    <3>2. b \in Book
      BY <1>2, <1>4
    <3> QED BY <1>7, <3>1, <3>2, SavedStands
  <2> QED BY <1>4, <1>7, <2>2, <2>3 DEF BooksStand
<1>8. CASE file' \in {file, b} /\ UNCHANGED <<durable, book, dirty, paid>>
  <2>1. CopiesInv'
    BY <1>3, <1>6, <1>8 DEF CopiesInv, Copies, UsageInv
  <2>2. FileInv'
    BY <1>3, <1>5, <1>8 DEF FileInv, UsageInv
  <2> QED BY <1>4, <1>8, <2>1, <2>2 DEF BooksStand, UsageInv, UsageTypeOK
<1> QED BY <1>7, <1>8 DEF RedeemCode, SaveOrRollback, WriteDone, WriteUnsynced, WriteLost, b, g

\* A code that is created was never paid.
LEMMA CreateCodeStands ==
  ASSUME UsageInv, NEW c \in Code, CreateCode(c) PROVE BooksStand /\ made' \in [Code -> {"no", "shown", "lost"}]
<1> DEFINE b == [book EXCEPT !.codes = @ \cup {c}]
<1>1. b \in Book /\ b.codes = book.codes \cup {c} /\ b.of = book.of
  BY DEF UsageInv, UsageTypeOK, Book
<1>2. \A x \in Account : PaidIn(b, x) = PaidIn(book, x) /\ UsedIn(b, x) = UsedIn(book, x)
  BY <1>1 DEF PaidIn, UsedIn
<1>3. /\ made[c] = "no" /\ made' \in [Code -> {"no", "shown", "lost"}] /\ made'[c] \in {"shown", "lost"}
      /\ \A x \in Code \ {c} : made'[x] = made[x]
      /\ Serving /\ UNCHANGED <<account, up>>
  BY DEF CreateCode, UsageInv, UsageTypeOK
<1> HIDE DEF b
<1>4. /\ UNCHANGED paid /\ book' \in {book, b} /\ file' \in {file, b} /\ durable' \in {durable, b}
      /\ \/ file' = b /\ book' = b /\ dirty' = FALSE
         \/ UNCHANGED <<book, dirty>>
  BY DEF CreateCode, SaveOrRollback, WriteDone, WriteUnsynced, WriteLost, b
<1>5. ASSUME NEW x \in {book, file, durable, b}
      PROVE  CopyInv(x, made') /\ \A t \in paid : PaidInv(x, t, account)
  <2>1. \A t \in paid : t[1] \in Account /\ t[2] # c
    BY <1>3 DEF UsageInv, UsageTypeOK, CopiesInv
  <2>2. CASE x \in {book, file, durable}
    <3>1. CopyInv(x, made) /\ \A t \in paid : PaidInv(x, t, account)
      BY <2>2 DEF UsageInv, CopiesInv, Copies
    <3>2. x.codes \subseteq Code
      BY <2>2 DEF UsageInv, UsageTypeOK, Book
    <3> QED BY <1>3, <3>1, <3>2 DEF CopyInv
  <2>3. CASE x = b
    <3>1. CopyInv(book, made) /\ \A t \in paid : PaidInv(book, t, account)
      BY DEF UsageInv, CopiesInv, Copies
    <3>2. \A y \in Account : c \notin PaidIn(book, y)
      BY <1>3, <3>1 DEF CopyInv
    <3>3. book.codes \subseteq Code
      BY DEF UsageInv, UsageTypeOK, Book
    <3>4. CopyInv(b, made')
      BY <1>1, <1>2, <1>3, <3>1, <3>2, <3>3 DEF CopyInv
    <3>5. \A t \in paid : PaidInv(b, t, account)
      BY <1>1, <1>2, <2>1, <3>1 DEF PaidInv
    <3> QED BY <2>3, <3>4, <3>5
  <2> QED BY <2>2, <2>3
<1>6. CopiesInv'
  <2>1. \A t \in paid : t[2] \in Code => made'[t[2]] = "shown"
    BY <1>3 DEF UsageInv, CopiesInv
  <2> QED BY <1>3, <1>4, <1>5, <2>1 DEF CopiesInv, Copies
<1>7. FileInv'
  <2>1. \A x \in Account : UsedIn(b, x) = UsedIn(book, x) /\ UsedIn(book, x) \in Int
    BY <1>2, BookIs DEF UsageInv, UsageTypeOK
  <2>2. CASE file' = b /\ durable' = b /\ book' = b
    <3>1. \A x \in Account : account'[x] = "absent" => UsedIn(b, x) = 0
      BY <1>3, <2>1 DEF UsageInv, FileInv
    <3> QED BY <1>1, <2>2, <3>1, SavedStands
  <2>3. CASE file' \in {file, b} /\ UNCHANGED <<durable, book, dirty>>
    BY <1>3, <2>1, <2>3 DEF UsageInv, FileInv
  <2>4. \/ file' = b /\ durable' = b /\ book' = b
        \/ file' \in {file, b} /\ UNCHANGED <<durable, book, dirty>>
    BY DEF CreateCode, SaveOrRollback, WriteDone, WriteUnsynced, WriteLost, b
  <2> QED BY <2>2, <2>3, <2>4
<1>8. {book, file, durable}' \subseteq Book /\ dirty' \in BOOLEAN
  <2>1. {book, file, durable} \subseteq Book /\ dirty \in BOOLEAN
    BY DEF UsageInv, UsageTypeOK
  <2> QED BY <1>1, <1>4, <2>1
<1> QED BY <1>3, <1>6, <1>7, <1>8 DEF BooksStand

\* What is forgotten, of an account that is deleted or a code that has expired, ...
LEMMA ForgetStands ==
  ASSUME UsageInv, (\E a \in Account : DeleteAccount(a)) \/ (\E c \in Code : ExpireCode(c))
  PROVE  BooksStand
<1>1. UsageTypeOK /\ book \in Book /\ book = [of |-> book.of, codes |-> book.codes]
  BY DEF UsageInv, UsageTypeOK, Book
<1>2. ASSUME UNCHANGED <<made, paid, file, durable, up>>, Serving, AccountsMove, dirty' = TRUE,
             book' \in Book, Follows(book', book, account'),
             \A a \in Account : account'[a] # "deleted" =>
               account'[a] = account[a] /\ UsedIn(book', a) = UsedIn(book, a)
      PROVE  BooksStand
  <2>1. \A b \in Copies : Follows(b, b, account')
    BY DEF Follows
  <2>2. CopiesInv'
    BY <1>1, <1>2, <2>1, CopiesFollow DEF Copies, UsageInv
  <2>3. FileInv'
    BY <1>2 DEF FileInv, UsageInv
  <2> QED BY <1>1, <1>2, <2>2, <2>3 DEF BooksStand, UsageTypeOK
<1>3. ASSUME NEW a \in Account, DeleteAccount(a) PROVE BooksStand
  <2>1. /\ book' = [of |-> [book.of EXCEPT ![a] = NoRecord], codes |-> book.codes]
        /\ book.of \in [Account -> Record \cup {NoRecord}] /\ book.codes \subseteq Code
    BY <1>1, <1>3 DEF DeleteAccount, Book
  <2>2. book' \in Book
    BY <2>1 DEF Book
  <2>3. account'[a] = "deleted" /\ \A x \in Account \ {a} : account'[x] = account[x]
    BY <1>1, <1>3 DEF DeleteAccount, UsageTypeOK
  <2>4. /\ book'.codes = book.codes /\ PaidIn(book', a) = {}
        /\ \A x \in Account \ {a} : PaidIn(book', x) = PaidIn(book, x)
    BY <2>1 DEF PaidIn, NoRecord
  <2>5. Follows(book', book, account')
    BY <2>3, <2>4 DEF Follows, Exists
  <2>6. AccountsMove
    BY <2>3 DEF AccountsMove, Exists
  <2>7. \A x \in Account : account'[x] # "deleted" =>
          account'[x] = account[x] /\ UsedIn(book', x) = UsedIn(book, x)
    BY <2>1, <2>3 DEF UsedIn
  <2> QED BY <1>2, <1>3, <2>2, <2>5, <2>6, <2>7 DEF DeleteAccount, WriteLost
<1>4. ASSUME NEW c \in Code, ExpireCode(c) PROVE BooksStand
  <2>1. book' = [of |-> book.of, codes |-> book.codes \ {c}]
    BY <1>1, <1>4 DEF ExpireCode
  <2>2. book' \in Book
    BY <1>1, <2>1 DEF Book
  <2>3. Follows(book', book, account') /\ AccountsMove
    BY <1>4, <2>1 DEF Follows, PaidIn, ExpireCode, AccountsMove
  <2>4. \A x \in Account : account'[x] = account[x] /\ UsedIn(book', x) = UsedIn(book, x)
    BY <1>4, <2>1 DEF UsedIn, ExpireCode
  <2> QED BY <1>2, <1>4, <2>2, <2>3, <2>4 DEF ExpireCode, WriteLost
<1> QED BY <1>3, <1>4

\* ... a checkpoint and the end of the process, which leave a file that was there or
\* the book, ...
LEMMA EndStands == ASSUME UsageInv, Checkpoint \/ Close \/ Exit \/ Die PROVE BooksStand
<1>1. UsageTypeOK /\ UNCHANGED <<account, book, made, paid>>
  BY DEF UsageInv, Checkpoint, Close, Exit, Die, usageStore
<1>2. file' \in Copies /\ durable' \in Copies
  BY DEF Copies, Checkpoint, Close, Exit, Die, WriteDone, WriteUnsynced, WriteLost, usageStore
<1>3. CopiesInv'
  <2>1. AccountsMove /\ \A b \in Copies : Follows(b, b, account')
    BY <1>1 DEF AccountsMove, Follows
  <2> QED BY <1>1, <1>2, <2>1, CopiesFollow DEF Copies, UsageInv
<1>4. FileInv'
  <2>0. \A a \in Account : /\ UsedIn(book, a) \in Int /\ UsedIn(durable, a) \in Int
                          /\ UsedIn(file, a) \in Int
    BY <1>1, BookIs DEF UsageTypeOK
  <2>1. CASE WriteDone(book)
    <3>1. \A a \in Account : account'[a] = "absent" => UsedIn(book, a) = 0
      BY <1>1 DEF UsageInv, FileInv
    <3>2. book \in Book /\ book' = book
      BY <1>1 DEF UsageTypeOK
    <3> QED BY <2>1, <3>1, <3>2, SavedStands DEF WriteDone
  <2>2. CASE WriteUnsynced(book) /\ UNCHANGED dirty
    BY <1>1, <2>0, <2>2 DEF UsageInv, FileInv, WriteUnsynced
  <2>4. CASE Close /\ WriteLost /\ UNCHANGED dirty
    BY <1>1, <2>4 DEF UsageInv, FileInv, Close, WriteLost
  <2>3. CASE Exit \/ Die
    BY <1>1, <2>0, <2>3 DEF UsageInv, Die, Exit, FileInv, usageStore
  <2> QED BY <2>1, <2>2, <2>3, <2>4 DEF Checkpoint, Close
<1>5. dirty' \in BOOLEAN
  BY <1>1 DEF UsageTypeOK, Checkpoint, Close, Exit, Die, usageStore
<1> QED BY <1>1, <1>2, <1>3, <1>4, <1>5 DEF BooksStand, Copies, UsageTypeOK

\* ... and what the next one makes of that file.
LEMMA LoadStands == ASSUME UsageInv, Load PROVE BooksStand
<1> DEFINE f    == [a \in Account |-> IF Known(a) THEN file.of[a] ELSE NoRecord]
           kept == [file EXCEPT !.of = f]
           b    == IF metering THEN Ensured(kept, {a \in Account : Known(a)}) ELSE kept
<1>1. /\ UsageTypeOK /\ file \in Book /\ default \in Default
      /\ file.of \in [Account -> Record \cup {NoRecord}] /\ file.codes \subseteq Code
      /\ file = [of |-> file.of, codes |-> file.codes]
  BY DEF UsageInv, UsageTypeOK, Book
<1>2. UNCHANGED <<account, file, durable, made, paid>> /\ book' = b /\ dirty' = (b # file) /\ up' = "up"
  BY DEF Load, WriteLost
<1>3. f \in [Account -> Record \cup {NoRecord}] /\ kept = [of |-> f, codes |-> file.codes]
  BY <1>1
<1>4. /\ kept \in Book /\ kept.codes = file.codes
      /\ \A a \in Account : /\ PaidIn(kept, a) = IF Known(a) THEN PaidIn(file, a) ELSE {}
                           /\ UsedIn(kept, a) = IF Known(a) THEN UsedIn(file, a) ELSE 0
  <2> HIDE DEF kept
  <2>1. kept \in Book /\ kept.codes = file.codes /\ kept.of = f
    BY <1>1, <1>3 DEF Book
  <2> QED BY <2>1 DEF PaidIn, UsedIn, NoRecord
<1> HIDE DEF kept
<1>5. /\ b \in Book /\ b.codes = kept.codes
      /\ \A a \in Account : PaidIn(b, a) = PaidIn(kept, a) /\ UsedIn(b, a) = UsedIn(kept, a)
  BY <1>1, <1>4, EnsuredIs
<1> HIDE DEF b
<1>6. Follows(b, file, account)
  BY <1>4, <1>5 DEF Follows, Known, Exists
<1>7. CopiesInv'
  <2>1. AccountsMove /\ \A x \in Copies : Follows(x, x, account')
    BY <1>2 DEF AccountsMove, Follows
  <2>2. \A x \in Copies' : \E y \in Copies : Follows(x, y, account')
    BY <1>2, <1>6, <2>1 DEF Copies
  <2> QED BY <1>1, <1>2, <2>1, <2>2, CopiesFollow DEF UsageInv
<1>8. FileInv'
  <2>1. \A a \in Account : /\ UsedIn(file, a) \in Int /\ UsedIn(durable, a) \in Int
                          /\ UsedIn(b, a) = IF Known(a) THEN UsedIn(file, a) ELSE 0
    BY <1>1, <1>4, <1>5, BookIs DEF UsageTypeOK
  <2>2. \A a \in Account : account[a] \in {"absent", "active", "disabled", "deleted"}
    BY <1>1 DEF UsageTypeOK
  <2>3. ASSUME NEW a \in Account, account[a] # "deleted"
        PROVE  UsedIn(b, a) = UsedIn(file, a)
    BY <2>1, <2>2, <2>3 DEF UsageInv, FileInv, Known
  <2> QED BY <1>2, <2>1, <2>3 DEF UsageInv, FileInv
<1>9. dirty' \in BOOLEAN
  BY <1>2
<1> QED BY <1>1, <1>2, <1>5, <1>7, <1>8, <1>9 DEF BooksStand, UsageTypeOK

-----------------------------------------------------------------------------
(* The gates, and the types.                                               *)

\* A gate is taken by a request that waits and given back by the one that holds it.
LEMMA GatesHold == ASSUME UsageInv, [UsageNext]_usageVars PROVE GateInv'
<1>1. UsageTypeOK /\ GateInv
  BY DEF UsageInv
<1>2. CASE UNCHANGED serving
  BY <1>1, <1>2 DEF serving, GateInv
<1>3. ASSUME NEW a \in Account, NEW r \in Request, Arrive(r, a) PROVE GateInv'
  BY <1>1, <1>3 DEF Arrive, GateInv, UsageTypeOK
<1>4. ASSUME NEW r \in Request, NEW n \in 0..MaxRequest, Admit(r, n) PROVE GateInv'
  BY <1>1, <1>4 DEF Admit, GateInv, UsageTypeOK
<1>5. ASSUME NEW r \in Request, NEW n \in 0..MaxRequest, Refuse(r, n) PROVE GateInv'
  BY <1>1, <1>5 DEF Refuse, GateInv, UsageTypeOK
<1>6. ASSUME NEW r \in Request, NEW n \in 0..MaxRequest, Finish(r, n) PROVE GateInv'
  BY <1>1, <1>6 DEF Finish, GateInv, UsageTypeOK
<1>7. ASSUME NEW r \in Request, FinishUnmetered(r) PROVE GateInv'
  BY <1>1, <1>7 DEF FinishUnmetered, GateInv, UsageTypeOK
<1>8. CASE Exit \/ Die
  <2>1. Gone
    BY <1>8 DEF Exit, Die
  <2> QED BY <2>1 DEF Gone, GateInv
<1>9. \/ UNCHANGED serving \/ Exit \/ Die
      \/ \E a \in Account, r \in Request : Arrive(r, a)
      \/ \E r \in Request : \/ \E n \in 0..MaxRequest : Admit(r, n) \/ Refuse(r, n) \/ Finish(r, n)
                            \/ FinishUnmetered(r)
  BY Zenon DEF UsageNext, usageVars, Checkpoint, Close, Look, Load, SetMetering, SetDefault, CreateCode,
     ExpireCode, CreateAccount, DeleteAccount, SetDisabled, GrantQuota, RedeemCode, RelayTraffic
<1> QED BY <1>2, <1>3, <1>4, <1>5, <1>6, <1>7, <1>8, <1>9

\* Types of what is not in the books.
Beside ==
  /\ account \in [Account -> {"absent", "active", "disabled", "deleted"}]
  /\ metering \in BOOLEAN /\ default \in Default /\ up \in {"up", "closing", "down"}
  /\ stage \in [Request -> {"idle", "waiting", "metered", "unmetered"}]
  /\ caller \in [Request -> Account \cup {NoOne}]
  /\ gate \in [Account -> Request \cup {NoOne}]
  /\ paid \subseteq Account \X Payment /\ made \in [Code -> {"no", "shown", "lost"}]

\* What is not a payment, a code or an end.
LEMMA CountsBeside == ASSUME UsageInv, Counts PROVE Beside'
<1> USE DEF Beside
<1>1. UsageTypeOK
  BY DEF UsageInv
<1>2. Beside
  BY <1>1 DEF UsageTypeOK
<1>3. CASE Look
  BY <1>2, <1>3 DEF Look, serving
<1>4. ASSUME NEW on \in BOOLEAN, SetMetering(on) PROVE Beside'
  BY <1>2, <1>4 DEF SetMetering, serving
<1>5. ASSUME NEW n \in Default, SetDefault(n) PROVE Beside'
  BY <1>2, <1>5 DEF SetDefault, serving
<1>6. ASSUME NEW a \in Account, CreateAccount(a) PROVE Beside'
  BY <1>2, <1>6 DEF CreateAccount, serving
<1>7. ASSUME NEW a \in Account, NEW off \in BOOLEAN, SetDisabled(a, off) PROVE Beside'
  BY <1>2, <1>7 DEF SetDisabled, serving
<1>8. ASSUME NEW a \in Account, NEW n \in 1..MaxFrame, RelayTraffic(a, n) PROVE Beside'
  BY <1>2, <1>8 DEF RelayTraffic, serving
<1>9. ASSUME NEW a \in Account, NEW r \in Request, Arrive(r, a) PROVE Beside'
  BY <1>2, <1>9 DEF Arrive
<1>10. ASSUME NEW r \in Request, NEW n \in 0..MaxRequest, Admit(r, n) PROVE Beside'
  BY <1>2, <1>10 DEF Admit
<1>11. ASSUME NEW r \in Request, NEW n \in 0..MaxRequest, Refuse(r, n) PROVE Beside'
  BY <1>2, <1>11 DEF Refuse
<1>12. ASSUME NEW r \in Request, NEW n \in 0..MaxRequest, Finish(r, n) PROVE Beside'
  BY <1>2, <1>12 DEF Finish
<1>13. ASSUME NEW r \in Request, FinishUnmetered(r) PROVE Beside'
  BY <1>2, <1>13 DEF FinishUnmetered
<1> QED BY <1>3, <1>4, <1>5, <1>6, <1>7, <1>8, <1>9, <1>10, <1>11, <1>12, <1>13 DEF Counts

Pays ==
  \/ \E c \in Code : CreateCode(c) \/ \E a \in Account : RedeemCode(a, c)
  \/ \E a \in Account, p \in Gift : GrantQuota(a, p)

Forgets == (\E a \in Account : DeleteAccount(a)) \/ (\E c \in Code : ExpireCode(c))

\* The other handlers: payments, codes and ends.
LEMMA OthersBeside ==
  ASSUME UsageInv, Pays \/ Forgets \/ Checkpoint \/ Close \/ Exit \/ Die \/ Load PROVE Beside'
<1> USE DEF Beside, serving
<1>1. UsageTypeOK
  BY DEF UsageInv
<1>2. Beside
  BY <1>1 DEF UsageTypeOK
<1>3. ASSUME NEW c \in Code, CreateCode(c) PROVE Beside'
  <2>1. made' \in [Code -> {"no", "shown", "lost"}]
    BY <1>3, CreateCodeStands
  <2>2. UNCHANGED paid
    BY <1>3 DEF CreateCode, SaveOrRollback
  <2> QED BY <1>2, <1>3, <2>1, <2>2 DEF CreateCode
<1>4. ASSUME NEW c \in Code, NEW a \in Account, RedeemCode(a, c) PROVE Beside'
  <2>1. paid' \subseteq paid \cup {<<a, c>>}
    BY <1>4 DEF RedeemCode, SaveOrRollback
  <2> QED BY <1>2, <1>4, <2>1 DEF RedeemCode, Payment
<1>5. ASSUME NEW a \in Account, NEW p \in Gift, GrantQuota(a, p) PROVE Beside'
  <2>1. paid' \subseteq paid \cup {<<a, p>>}
    BY <1>5 DEF GrantQuota, SaveOrRollback
  <2> QED BY <1>2, <1>5, <2>1 DEF GrantQuota, Payment
<1>6. CASE Forgets
  BY <1>2, <1>6 DEF Forgets, DeleteAccount, ExpireCode
<1>7. CASE Checkpoint \/ Close \/ Load
  BY <1>2, <1>7 DEF Checkpoint, Close, Load
<1>8. CASE Exit \/ Die
  BY <1>2, <1>8 DEF Exit, Die, Gone
<1> QED BY <1>3, <1>4, <1>5, <1>6, <1>7, <1>8 DEF Pays

-----------------------------------------------------------------------------
\* The invariant holds in every state.
THEOREM UsageInvariant == UsageSpec => []UsageInv
<1>1. UsageInit => UsageInv
  <2> SUFFICES ASSUME UsageInit PROVE UsageInv
    OBVIOUS
  <2>1. Empty \in Book /\ Empty.codes = {} /\ \A a \in Account : PaidIn(Empty, a) = {}
    BY DEF Empty, Book, NoRecord, PaidIn
  <2>2. UsageTypeOK
    BY <2>1 DEF UsageInit, UsageTypeOK
  <2>3. GateInv
    BY DEF UsageInit, GateInv
  <2>4. FileInv
    <3>1. \A a \in Account : UsedIn(Empty, a) = 0
      BY DEF Empty, NoRecord, UsedIn
    <3> QED BY <3>1 DEF UsageInit, FileInv
  <2>5. CopiesInv
    BY <2>1 DEF UsageInit, CopiesInv, Copies, CopyInv
  <2> QED BY <2>2, <2>3, <2>4, <2>5 DEF UsageInv
<1>2. UsageInv /\ [UsageNext]_usageVars => UsageInv'
  <2> SUFFICES ASSUME UsageInv, [UsageNext]_usageVars PROVE UsageInv'
    OBVIOUS
  <2>1. GateInv'
    BY GatesHold
  <2>2. UsageNext => Counts \/ Pays \/ Forgets \/ Checkpoint \/ Close \/ Exit \/ Die \/ Load
    BY DEF UsageNext, Counts, Pays, Forgets
  <2>3. CASE UNCHANGED usageVars
    BY <2>3 DEF usageVars, usageStore, serving, UsageInv, UsageTypeOK, GateInv, FileInv, CopiesInv,
       Copies, PaidInv, CopyInv
  <2>4. CASE Counts \/ Pays \/ Forgets \/ Checkpoint \/ Close \/ Exit \/ Die \/ Load
    <3>1. BooksStand
      BY <2>4, CountsAreNoted, NotedStands, GrantStands, RedeemStands, CreateCodeStands, ForgetStands,
         EndStands, LoadStands DEF Pays, Forgets
    <3>2. Beside'
      BY <2>4, CountsBeside, OthersBeside
    <3> QED BY <2>1, <3>1, <3>2 DEF BooksStand, Beside, UsageInv, UsageTypeOK
  <2> QED BY <2>2, <2>3, <2>4
<1> QED BY <1>1, <1>2, PTL DEF UsageSpec

\* In each copy one account at most has a code, so that a set of those has one element.
LEMMA CodeIsPaidToOne ==
  ASSUME UsageInv, NEW b \in Copies, NEW c \in Code
  PROVE  Cardinality({a \in Account : Known(a) /\ c \in b.of[a].paid}) <= 1
<1> DEFINE S == {a \in Account : Known(a) /\ c \in b.of[a].paid}
<1>1. CASE S = {}
  <2>1. Cardinality(S) = 0
    BY <1>1, FS_EmptySet
  <2> QED BY <2>1
<1>2. CASE S # {}
  <2>1. PICK a \in Account : a \in S
    BY <1>2
  <2>2. S = {a}
    BY <2>1 DEF UsageInv, CopiesInv, CopyInv, PaidIn
  <2>3. Cardinality(S) = 1
    BY <2>2, FS_Singleton
  <2> QED BY <2>3
<1> QED BY <1>1, <1>2

\* Redeeming rolls the book back when its save fails, though the file may have it: in
\* each copy the code is still used up by one account, what was reported is in all of
\* them, and no rollback, crash or power loss takes back traffic that was saved.
THEOREM UsageStaysExact == UsageSpec => []UsageIsExact
<1>1. UsageInv => UsageIsExact
  <2> SUFFICES ASSUME UsageInv PROVE UsageIsExact
    OBVIOUS
  <2>1. CodePaysOnce
    <3>1. ASSUME NEW b \in Copies, NEW c \in Code
          PROVE  /\ (\E a \in Account : c \in b.of[a].paid) => c \notin b.codes
                 /\ \A t \in paid : t[2] = c => \A a \in Account \ {t[1]} : c \notin b.of[a].paid
      BY DEF UsageInv, CopiesInv, CopyInv, PaidInv, PaidIn
    <3> QED BY <3>1, CodeIsPaidToOne DEF CodePaysOnce
  <2>2. PaymentsSurvive
    BY DEF PaymentsSurvive, UsageInv, CopiesInv, PaidInv, PaidIn, Known, Exists
  <2>3. GateIsHeldByOne
    BY DEF GateIsHeldByOne, UsageInv, GateInv, UsageTypeOK
  <2>4. CheckpointedTrafficIsKept
    BY DEF CheckpointedTrafficIsKept, UsageInv, FileInv, UsedIn, Known
  <2> QED BY <2>1, <2>2, <2>3, <2>4 DEF UsageIsExact, UsageInv
<1> QED BY <1>1, UsageInvariant, PTL

\* recordUsageBytes and the grants only add, and no other handler takes away from an
\* account while the process lives.
THEOREM TrafficOnlyGrows == UsageSpec => CountsAreKept
<1> DEFINE Grows ==
      \A a \in Account :
        (Serving /\ Known(a) /\ account'[a] # "deleted" /\ Serving') =>
          /\ book'.of[a].used >= book.of[a].used
          /\ book.of[a].paid \subseteq book'.of[a].paid
<1>1. UsageInv /\ [UsageNext]_usageVars => [Grows]_usageVars
  <2> SUFFICES ASSUME UsageInv, UsageNext PROVE Grows
    OBVIOUS
  <2>1. book \in Book /\ default \in Default /\ UsageTypeOK
    BY DEF UsageInv, UsageTypeOK
  <2>2. \A a \in Account : UsedIn(book, a) \in 0..MaxUsed
    BY <2>1, BookIs
  <2>3. ASSUME \A a \in Account : /\ UsedIn(book', a) >= UsedIn(book, a)
                                  /\ PaidIn(book, a) \subseteq PaidIn(book', a)
        PROVE  Grows
    BY <2>3 DEF UsedIn, PaidIn
  <2>4. ASSUME UNCHANGED book PROVE Grows
    BY <2>2, <2>3, <2>4
  <2>5. CASE Counts
    BY <2>3, <2>5, CountsAreNoted DEF Noted
  <2>6. ASSUME NEW a \in Account, NEW p \in Payment, book' = Granted(book, a, p) PROVE Grows
    BY <2>1, <2>2, <2>3, <2>6, GrantedIs
  <2>7. ASSUME NEW a \in Account, NEW p \in Gift, GrantQuota(a, p) PROVE Grows
    BY <2>4, <2>6, <2>7 DEF GrantQuota, SaveOrRollback, Payment
  <2>8. ASSUME NEW a \in Account, NEW c \in Code, RedeemCode(a, c) PROVE Grows
    <3> DEFINE g == Granted(book, a, c)
    <3>1. /\ g \in Book
          /\ \A x \in Account : /\ UsedIn(g, x) = UsedIn(book, x)
                                /\ PaidIn(book, x) \subseteq PaidIn(g, x)
      BY <2>1, GrantedIs DEF Payment
    <3>2. UNCHANGED book \/ book' = [g EXCEPT !.codes = @ \ {c}]
      BY <2>8 DEF RedeemCode, SaveOrRollback
    <3> HIDE DEF g
    <3>3. CASE book' = [g EXCEPT !.codes = @ \ {c}]
      <4>1. book'.of = g.of
        BY <3>1, <3>3 DEF Book
      <4> QED BY <2>2, <2>3, <3>1, <4>1 DEF UsedIn, PaidIn
    <3> QED BY <2>4, <3>2, <3>3
  <2>9. ASSUME NEW c \in Code, CreateCode(c) \/ ExpireCode(c) PROVE Grows
    <3>1. book'.of = book.of
      BY <2>1, <2>9 DEF CreateCode, ExpireCode, SaveOrRollback, Book
    <3> QED BY <2>2, <2>3, <3>1 DEF UsedIn, PaidIn
  <2>10. ASSUME NEW a \in Account, DeleteAccount(a) PROVE Grows
    <3>1. account'[a] = "deleted" /\ \A x \in Account \ {a} : book'.of[x] = book.of[x]
      BY <2>1, <2>10 DEF DeleteAccount, UsageTypeOK, Book
    <3> QED BY <2>2, <3>1 DEF UsedIn
  <2>11. CASE Checkpoint \/ Close \/ Exit \/ Die
    BY <2>4, <2>11 DEF Checkpoint, Close, Exit, Die, usageStore
  <2>12. CASE Load
    BY <2>12 DEF Load
  <2> QED BY <2>5, <2>7, <2>8, <2>9, <2>10, <2>11, <2>12 DEF UsageNext, Counts
<1> QED BY <1>1, UsageInvariant, PTL DEF UsageSpec, CountsAreKept

-----------------------------------------------------------------------------
(* Challenges and the clients they guard.                                  *)

Present == {c \in Client : client[c] # Unregistered}

\* A challenge was issued by this process or an earlier one, for a device or a client.
IssueInv ==
  \A c \in Challenge :
    /\ issue[c].kind \in {"registration", "agent"} => issue[c].of \in Device
    /\ issue[c] # NotIssued => issue[c].key <= key

\* One that was used is remembered as long as it could be used again.
UsedInv ==
  \A c \in used : /\ issue[c] # NotIssued
                  /\ issue[c].expires > clock /\ issue[c].key = key =>
                       c \in consumed[issue[c].kind][issue[c].of]

\* A request answers a challenge of this process.
AttemptInv ==
  \A a \in Attempt : attempt[a].challenge # NoChallenge =>
    issue[attempt[a].challenge] # NotIssued /\ issue[attempt[a].challenge].key = key

\* What is counted is finite.
FiniteInv ==
  /\ IsFiniteSet(Present)
  /\ \A k \in Kind, x \in Device \cup Client : IsFiniteSet(consumed[k][x])

ProofsInv ==
  /\ DeviceProofsTypeOK /\ IssueInv /\ UsedInv /\ AttemptInv /\ FiniteInv
  /\ savedClient = client /\ ~reused
  /\ \A c \in Client : client[c].device \notin retired
  /\ \A c \in known : client[c].approved

USE TimeAssumption, NoneAssumption

\* A challenge in the hands of a request was issued by this process for a subject.
LEMMA IssuedIs ==
  ASSUME DeviceProofsTypeOK, IssueInv, NEW c \in Challenge, issue[c] # NotIssued
  PROVE  /\ issue[c].kind \in Kind /\ issue[c].of \in Device \cup Client /\ issue[c].expires \in Nat
         /\ issue[c].key \in 0..MaxTime
         /\ issue[c].kind \in {"registration", "agent"} => issue[c].of \in Device
BY DEF DeviceProofsTypeOK, IssueInv, Issue

\* What is consumed was not used before, and is remembered.
LEMMA ConsumeKeeps ==
  ASSUME ProofsInv, NEW c \in Challenge, issue[c] # NotIssued, issue[c].key = key,
         Consume(c, issue[c].kind, issue[c].of), UNCHANGED <<clock, key>>
  PROVE  /\ UNCHANGED issue /\ ~reused' /\ used' \subseteq Challenge /\ UsedInv'
         /\ consumed' \in [Kind -> [Device \cup Client -> SUBSET Challenge]]
         /\ \A k \in Kind, x \in Device \cup Client :
              Cardinality(consumed'[k][x]) <= MaxConsumed /\ IsFiniteSet(consumed'[k][x])
<1> DEFINE k == issue[c].kind
           x == issue[c].of
           R == Remembered(k, x)
           N == R \cup {c}
<1>1. k \in Kind /\ x \in Device \cup Client /\ issue[c].expires \in Nat
  BY IssuedIs DEF ProofsInv
<1>2. /\ consumed \in [Kind -> [Device \cup Client -> SUBSET Challenge]] /\ clock \in Nat
      /\ used \subseteq Challenge /\ MaxConsumed \in Nat
      /\ \A j \in Kind, y \in Device \cup Client :
           Cardinality(consumed[j][y]) <= MaxConsumed /\ IsFiniteSet(consumed[j][y])
  <2>1. DeviceProofsTypeOK /\ FiniteInv
    BY DEF ProofsInv
  <2>2. consumed \in [Kind -> [Device \cup Client -> SUBSET Challenge]] /\ clock \in 0..MaxTime /\ used \subseteq Challenge
    BY <2>1, Zenon DEF DeviceProofsTypeOK
  <2>3. \A j \in Kind, y \in Device \cup Client : Cardinality(consumed[j][y]) <= MaxConsumed
    BY <2>1, Zenon DEF DeviceProofsTypeOK
  <2>4. MaxConsumed \in Nat /\ clock \in Nat
    BY <2>2
  <2> QED BY <2>1, <2>2, <2>3, <2>4, Zenon DEF FiniteInv
<1>3. UNCHANGED issue /\ c \notin R /\ Cardinality(R) < MaxConsumed
  BY DEF Consume, Available
<1>4. R \subseteq consumed[k][x] /\ IsFiniteSet(R)
  <2>1. R \subseteq consumed[k][x]
    BY DEF Remembered
  <2> QED BY <1>1, <1>2, <2>1, FS_Subset
<1>5. IsFiniteSet(N) /\ Cardinality(N) <= MaxConsumed /\ N \subseteq Challenge
  <2>1. IsFiniteSet(N) /\ Cardinality(N) = Cardinality(R) + 1
    BY <1>3, <1>4, FS_AddElement
  <2>2. Cardinality(R) \in Nat
    BY <1>4, FS_CardinalityType
  <2>3. consumed[k][x] \subseteq Challenge
    BY <1>1, <1>2
  <2> HIDE DEF R
  <2> QED BY <1>2, <1>3, <1>4, <2>1, <2>2, <2>3
<1>6. consumed' = [consumed EXCEPT ![k] = [consumed[k] EXCEPT ![x] = N]]
  BY DEF Consume
<1>7. \A d \in R : issue[d].expires > clock
  BY DEF Remembered
<1>8. \A d \in consumed[k][x] : issue[d].expires > clock => d \in R
  BY DEF Remembered
<1> HIDE DEF N, R, k, x
<1>9. /\ consumed'[k][x] = N
      /\ \A j \in Kind, y \in Device \cup Client : j # k \/ y # x => consumed'[j][y] = consumed[j][y]
      /\ consumed' \in [Kind -> [Device \cup Client -> SUBSET Challenge]]
  BY <1>1, <1>2, <1>5, <1>6
<1>10. \A j \in Kind, y \in Device \cup Client :
         Cardinality(consumed'[j][y]) <= MaxConsumed /\ IsFiniteSet(consumed'[j][y])
  BY <1>2, <1>5, <1>9
<1>11. issue[c].expires > clock => c \notin used
  BY <1>3, <1>8 DEF ProofsInv, UsedInv, k, x
<1>12. ~reused' /\ used' \subseteq used \cup {c}
  BY <1>11 DEF Consume, ProofsInv
<1>13. UsedInv'
  <2> SUFFICES ASSUME NEW d \in used \cup {c}, issue[d].expires > clock, issue[d].key = key
               PROVE  issue[d] # NotIssued /\ d \in consumed'[issue[d].kind][issue[d].of]
    <3>1. \A d \in used \cup {c} : issue[d] # NotIssued
      BY DEF ProofsInv, UsedInv
    <3> QED BY <1>3, <1>12, <3>1 DEF UsedInv
  <2>1. CASE d = c
    BY <1>9, <2>1 DEF N, k, x
  <2>2. CASE d \in used
    <3>1. /\ issue[d] # NotIssued /\ d \in Challenge
          /\ d \in consumed[issue[d].kind][issue[d].of]
      BY <1>2, <2>2 DEF ProofsInv, UsedInv
    <3>2. issue[d].kind \in Kind /\ issue[d].of \in Device \cup Client
      BY <3>1, IssuedIs DEF ProofsInv
    <3>3. CASE issue[d].kind = k /\ issue[d].of = x
      BY <1>8, <1>9, <3>1, <3>3 DEF N
    <3> QED BY <1>9, <3>1, <3>2, <3>3
  <2> QED BY <2>1, <2>2
<1> QED BY <1>2, <1>3, <1>9, <1>10, <1>12, <1>13

\* What a step must show of the challenges, ...
ChallengesHold ==
  /\ clock' \in 0..MaxTime /\ key' \in 0..MaxTime
  /\ issue' \in [Challenge -> Issue \cup {NotIssued}]
  /\ consumed' \in [Kind -> [Device \cup Client -> SUBSET Challenge]]
  /\ \A k \in Kind, x \in Device \cup Client :
       Cardinality(consumed'[k][x]) <= MaxConsumed /\ IsFiniteSet(consumed'[k][x])
  /\ used' \subseteq Challenge /\ IssueInv' /\ UsedInv' /\ reused' = FALSE
  /\ attempt' \in [Attempt -> [at : {"idle", "validated"}, challenge : Challenge \cup {NoChallenge}]]
  /\ AttemptInv'

\* ... and of the clients.
ClientsHold ==
  /\ client' \in [Client -> Registered \cup {Unregistered}] /\ savedClient' = client'
  /\ IsFiniteSet(Present') /\ Cardinality(Present') <= MaxClients
  /\ retired' \subseteq Device /\ known' \subseteq Client
  /\ \A c \in Client : client'[c].device \notin retired'
  /\ \A c \in known' : client'[c].approved = TRUE

\* The parts of the invariant that say what a variable is.
LEMMA ProofTypes ==
  ASSUME ProofsInv
  PROVE  /\ clock \in 0..MaxTime /\ key \in 0..MaxTime /\ used \subseteq Challenge
         /\ issue \in [Challenge -> Issue \cup {NotIssued}]
         /\ consumed \in [Kind -> [Device \cup Client -> SUBSET Challenge]]
         /\ \A k \in Kind, x \in Device \cup Client :
              Cardinality(consumed[k][x]) <= MaxConsumed /\ IsFiniteSet(consumed[k][x])
         /\ attempt \in [Attempt -> [at : {"idle", "validated"}, challenge : Challenge \cup {NoChallenge}]]
         /\ client \in [Client -> Registered \cup {Unregistered}] /\ savedClient = client
         /\ IsFiniteSet(Present) /\ Cardinality(Present) <= MaxClients
         /\ retired \subseteq Device /\ known \subseteq Client
BY Zenon DEF ProofsInv, DeviceProofsTypeOK, FiniteInv, Present

\* Steps that leave a part alone.
LEMMA ChallengesRest ==
  ASSUME ProofsInv, UNCHANGED <<clock, key, proofs>>,
         \A a \in Attempt : attempt'[a] \in {attempt[a], NoAttempt},
         attempt' = [a \in Attempt |-> attempt'[a]]
  PROVE  ChallengesHold
<1>1. UNCHANGED <<clock, key, issue, consumed, used, reused>>
  BY DEF proofs
<1>2. IssueInv' /\ UsedInv'
  BY <1>1 DEF ProofsInv, IssueInv, UsedInv
<1>3. AttemptInv'
  BY <1>1 DEF ProofsInv, AttemptInv, NoAttempt
<1>4. reused' = FALSE
  BY <1>1, Zenon DEF ProofsInv, DeviceProofsTypeOK
<1>5. attempt' \in [Attempt -> [at : {"idle", "validated"}, challenge : Challenge \cup {NoChallenge}]]
  <2>1. \A a \in Attempt : attempt'[a] \in [at : {"idle", "validated"}, challenge : Challenge \cup {NoChallenge}]
    BY ProofTypes DEF NoAttempt
  <2> QED BY <2>1
<1> QED BY <1>1, <1>2, <1>3, <1>4, <1>5, ProofTypes, Zenon DEF ChallengesHold

\* A client that was approved and not revoked.
LEMMA KnownIs ==
  ASSUME ProofsInv
  PROVE  /\ \A c \in Client : client[c].approved \in BOOLEAN
         /\ \A c \in known : c \in Client /\ client[c].approved = TRUE
<1>1. ASSUME NEW c \in Client PROVE client[c].approved \in BOOLEAN
  <2>1. CASE client[c] \in Registered
    BY <2>1 DEF Registered
  <2>2. CASE client[c] = Unregistered
    BY <2>2 DEF Unregistered
  <2> QED BY <2>1, <2>2, ProofTypes
<1>2. \A c \in known : c \in Client /\ client[c].approved
  BY ProofTypes DEF ProofsInv
<1> QED BY <1>1, <1>2

\* The same for the clients.
LEMMA ClientsRest ==
  ASSUME ProofsInv, UNCHANGED registry PROVE ClientsHold
<1>1. UNCHANGED <<client, savedClient, retired, known>> /\ Present' = Present
  BY DEF registry, Present
<1> QED BY <1>1, KnownIs, ProofTypes, Zenon DEF ClientsHold, ProofsInv

\* cleanupLocked keeps what was approved.
LEMMA KeptIs ==
  ASSUME NEW cs \in [Client -> Registered \cup {Unregistered}]
  PROVE  /\ Kept(cs) \in [Client -> Registered \cup {Unregistered}]
         /\ \A c \in Client : /\ Kept(cs)[c] \in {cs[c], Unregistered}
                              /\ cs[c].approved = TRUE => Kept(cs)[c] = cs[c]
BY DEF Kept

\* A client is approved, or its save failed.
LEMMA ApprovalHolds ==
  ASSUME ProofsInv, NEW cl \in Client, client[cl] # Unregistered, UNCHANGED retired,
         SaveClients([client EXCEPT ![cl].approved = TRUE]),
         known' = IF client'[cl].approved THEN known \cup {cl} ELSE known
  PROVE  ClientsHold
<1> DEFINE cs == [client EXCEPT ![cl].approved = TRUE]
<1>1. client[cl] \in Registered
  BY ProofTypes
<1>2. /\ cs \in [Client -> Registered \cup {Unregistered}]
      /\ cs[cl].device = client[cl].device /\ cs[cl].approved = TRUE /\ cs[cl] # Unregistered
      /\ \A c \in Client \ {cl} : cs[c] = client[c]
  BY <1>1, ProofTypes DEF Registered, Unregistered
<1>3. client' \in {client, cs} /\ savedClient' = client'
  BY ProofTypes DEF SaveClients
<1> HIDE DEF cs
<1>4. Present' = Present
  BY <1>2, <1>3 DEF Present
<1>5. \A c \in Client : client'[c].device \notin retired
  BY <1>2, <1>3 DEF ProofsInv
<1>6. \A c \in Client : client[c].approved \in BOOLEAN
  BY KnownIs
<1>7. \A c \in known : c \in Client /\ client[c].approved = TRUE
  BY KnownIs
<1>8. known' \subseteq Client /\ \A c \in known' : client'[c].approved = TRUE
  <2>1. CASE client' = cs
    BY <1>2, <1>7, <2>1
  <2>2. CASE client' = client
    <3>1. \A c \in known' \ known : c = cl /\ client[cl].approved = TRUE
      BY <1>6, <2>2
    <3> QED BY <1>7, <2>2, <3>1
  <2> QED BY <1>3, <2>1, <2>2
<1>9. client' \in [Client -> Registered \cup {Unregistered}]
  BY <1>2, <1>3, ProofTypes
<1> QED BY <1>3, <1>4, <1>5, <1>8, <1>9, ProofTypes DEF ClientsHold

\* A new client, which may take the place of an old one that was not approved.
LEMMA RegistrationHolds ==
  ASSUME ProofsInv, NEW cl \in Client, NEW out \in Client \cup {NoClient},
         NEW d \in Device \cup {NoDevice}, d \notin retired, cl # out, cl \notin known,
         Kept(client)[cl] = Unregistered,
         IF Full(Kept(client)) THEN out \in Replaceable(Kept(client)) ELSE out = NoClient,
         SaveClients([x \in Client |->
           IF x = cl THEN [device |-> d, approved |-> FALSE, at |-> clock]
           ELSE IF x = out THEN Unregistered ELSE Kept(client)[x]]),
         UNCHANGED <<retired, known>>
  PROVE  ClientsHold
<1> DEFINE old == Kept(client)
           rec == [device |-> d, approved |-> FALSE, at |-> clock]
           new == [x \in Client |-> IF x = cl THEN rec ELSE IF x = out THEN Unregistered ELSE old[x]]
           K   == {c \in Client : old[c] # Unregistered}
           N   == {c \in Client : new[c] # Unregistered}
<1>1. /\ old \in [Client -> Registered \cup {Unregistered}]
      /\ \A c \in Client : /\ old[c] \in {client[c], Unregistered}
                           /\ client[c].approved = TRUE => old[c] = client[c]
  BY ProofTypes, KeptIs
<1>2. rec \in Registered /\ rec # Unregistered
  BY ProofTypes DEF Registered, Unregistered
<1>3. CASE UNCHANGED <<client, savedClient>>
  BY <1>3, ClientsRest DEF registry
<1>4. CASE client' = new /\ savedClient' = new
  <2>1. out \in Client => old[out].approved = FALSE /\ out \in K
    BY <1>1 DEF Replaceable, Registered, Unregistered
  <2>2. Full(old) <=> Cardinality(K) >= MaxClients
    BY DEF Full
  <2>3. cl \notin K
    OBVIOUS
  <2>12. Full(old) => out \in K
    BY <2>1 DEF Replaceable
  <2> HIDE DEF old, rec
  <2>4. N = (K \ {out}) \cup {cl}
    BY <1>2
  <2>5. K \subseteq Present
    BY <1>1 DEF Present
  <2> HIDE DEF K, N
  <2>6. IsFiniteSet(K) /\ Cardinality(K) <= MaxClients /\ Cardinality(K) \in Nat
    <3>1. IsFiniteSet(K) /\ Cardinality(K) <= Cardinality(Present)
      BY <2>5, ProofTypes, FS_Subset
    <3>2. Cardinality(K) \in Nat /\ Cardinality(Present) \in Nat
      BY <3>1, ProofTypes, FS_CardinalityType
    <3>3. Cardinality(Present) <= MaxClients /\ MaxClients \in Nat
      BY ProofTypes
    <3> QED BY <3>1, <3>2, <3>3
  <2>7. IsFiniteSet(N) /\ Cardinality(N) <= MaxClients
    <3>1. IsFiniteSet(K \ {out}) /\ Cardinality(K \ {out}) = IF out \in K THEN Cardinality(K) - 1 ELSE Cardinality(K)
      BY <2>6, FS_RemoveElement
    <3>2. cl \notin K \ {out}
      BY <2>3
    <3>3. IsFiniteSet(N) /\ Cardinality(N) = Cardinality(K \ {out}) + 1
      BY <2>4, <3>1, <3>2, FS_AddElement
    <3>4. MaxClients \in Nat
      OBVIOUS
    <3> QED BY <2>2, <2>12, <2>6, <3>1, <3>3, <3>4
  <2>8. Present' = N
    BY <1>4 DEF Present, N
  <2>9. new \in [Client -> Registered \cup {Unregistered}]
    BY <1>1, <1>2
  <2>10. ASSUME NEW c \in Client PROVE new[c].device \notin retired
    <3>1. client[c].device \notin retired /\ Unregistered.device \notin retired
      BY ProofTypes, NoneAssumption DEF ProofsInv, Unregistered
    <3> QED BY <1>1, <3>1 DEF rec
  <2>11. \A c \in known : new[c].approved = TRUE
    <3>1. \A c \in known : c \in Client /\ client[c].approved = TRUE /\ c # cl
      BY KnownIs
    <3>2. \A c \in known : old[c].approved = TRUE /\ c # out
      BY <1>1, <2>1, <3>1
    <3> QED BY <3>1, <3>2
  <2> HIDE DEF new
  <2> QED BY <1>4, <2>7, <2>8, <2>9, <2>10, <2>11, ProofTypes DEF ClientsHold
<1> QED BY <1>3, <1>4 DEF SaveClients

-----------------------------------------------------------------------------
(* The handlers that challenges and clients meet.                          *)

ProofStep == ChallengesHold /\ ClientsHold /\ dcr' \in BOOLEAN

\* A challenge that is issued answers nothing yet.
LEMMA GrantHolds ==
  ASSUME ProofsInv, NEW c \in Challenge, NEW k \in Kind, NEW x \in Device \cup Client,
         k \in {"registration", "agent"} => x \in Device, Grant(c, k, x)
  PROVE  ChallengesHold /\ ClientsHold
<1> DEFINE rec == [kind |-> k, of |-> x, expires |-> clock + Lifetime, key |-> key]
<1>1. /\ issue[c] = NotIssued /\ issue' = [issue EXCEPT ![c] = rec]
      /\ UNCHANGED <<clock, key, registry, consumed, used, reused, attempt>>
  BY DEF Grant
<1>2. clock \in Nat /\ Lifetime \in Nat
  BY ProofTypes
<1>3. rec \in Issue
  BY <1>2, ProofTypes DEF Issue
<1>4. issue' \in [Challenge -> Issue \cup {NotIssued}] /\ issue'[c] = rec /\ \A d \in Challenge \ {c} : issue'[d] = issue[d]
  BY <1>1, <1>3, ProofTypes
<1>5. c \notin used /\ \A a \in Attempt : attempt[a].challenge # c
  BY <1>1, NoneAssumption DEF ProofsInv, UsedInv, AttemptInv
<1>6. IssueInv'
  BY <1>1, <1>4, ProofTypes DEF ProofsInv, IssueInv
<1>7. UsedInv'
  BY <1>1, <1>4, <1>5, ProofTypes DEF ProofsInv, UsedInv
<1>8. AttemptInv'
  BY <1>1, <1>4, <1>5, ProofTypes DEF ProofsInv, AttemptInv
<1>9. reused' = FALSE
  BY <1>1, Zenon DEF ProofsInv, DeviceProofsTypeOK
<1> QED BY <1>1, <1>4, <1>6, <1>7, <1>8, <1>9, ProofTypes, ClientsRest, Zenon DEF ChallengesHold

\* The switch for registrations.
LEMMA SwitchRests == ASSUME ProofsInv, UNCHANGED dcr PROVE dcr' \in BOOLEAN
BY Zenon DEF ProofsInv, DeviceProofsTypeOK

\* The three endpoints that issue challenges.
LEMMA IssuersHold ==
  ASSUME ProofsInv, NEW c \in Challenge,
         \/ \E d \in Device : IssueRegistration(c, d) \/ IssueAgent(c, d)
         \/ \E cl \in Client : IssueAuthorization(c, cl)
  PROVE  ProofStep
<1>1. ChallengesHold /\ ClientsHold
  BY GrantHolds DEF IssueRegistration, IssueAgent, IssueAuthorization, Kind
<1>2. UNCHANGED dcr /\ dcr \in BOOLEAN
  BY Zenon DEF IssueRegistration, IssueAgent, IssueAuthorization, Grant, ProofsInv, DeviceProofsTypeOK
<1> QED BY <1>1, <1>2 DEF ProofStep

\* A request begins with a challenge of this process, or none.
LEMMA BeginHolds ==
  ASSUME ProofsInv, NEW a \in Attempt, NEW c \in Challenge \cup {NoChallenge},
         BeginRegistration(a, c) \/ BeginConnection(a, c)
  PROVE  ProofStep
<1>1. /\ attempt' = [attempt EXCEPT ![a] = [at |-> "validated", challenge |-> c]]
      /\ UNCHANGED <<clock, key, registry, proofs, dcr>>
  BY DEF BeginRegistration, BeginConnection
<1>2. c # NoChallenge => issue[c].key = key /\ issue[c].kind \in {"registration", "agent"}
  BY DEF BeginRegistration, BeginConnection, Good
<1>3. c # NoChallenge => issue[c] # NotIssued
  BY <1>2 DEF NotIssued
<1>4. UNCHANGED <<clock, key, issue, consumed, used, reused>>
  BY <1>1 DEF proofs
<1>5. attempt' \in [Attempt -> [at : {"idle", "validated"}, challenge : Challenge \cup {NoChallenge}]]
  BY <1>1, ProofTypes
<1>6. AttemptInv'
  BY <1>1, <1>2, <1>3, <1>4, ProofTypes DEF ProofsInv, AttemptInv
<1>7. IssueInv' /\ UsedInv'
  BY <1>4 DEF ProofsInv, IssueInv, UsedInv
<1>8. reused' = FALSE /\ dcr' \in BOOLEAN
  BY <1>1, <1>4, Zenon DEF ProofsInv, DeviceProofsTypeOK
<1>9. ClientsHold
  BY <1>1, ClientsRest
<1> QED BY <1>4, <1>5, <1>6, <1>7, <1>8, <1>9, ProofTypes, Zenon DEF ChallengesHold, ProofStep

\* A request ends, with a challenge that it used up or without.
LEMMA EndOfAttempt ==
  ASSUME ProofsInv, attempt' \in [Attempt -> [at : {"idle", "validated"}, challenge : Challenge \cup {NoChallenge}]],
         \A a \in Attempt : attempt'[a] \in {attempt[a], NoAttempt}, UNCHANGED <<clock, key>>,
         \/ UNCHANGED proofs
         \/ \E c \in Challenge : /\ issue[c] # NotIssued /\ issue[c].key = key
                                 /\ Consume(c, issue[c].kind, issue[c].of)
  PROVE  ChallengesHold
<1>1. CASE UNCHANGED proofs
  BY <1>1, ChallengesRest
<1>2. ASSUME NEW c \in Challenge, issue[c] # NotIssued, issue[c].key = key,
             Consume(c, issue[c].kind, issue[c].of)
      PROVE  ChallengesHold
  <2>1. /\ UNCHANGED issue /\ ~reused' /\ used' \subseteq Challenge /\ UsedInv'
        /\ consumed' \in [Kind -> [Device \cup Client -> SUBSET Challenge]]
        /\ \A k \in Kind, x \in Device \cup Client :
             Cardinality(consumed'[k][x]) <= MaxConsumed /\ IsFiniteSet(consumed'[k][x])
    BY <1>2, ConsumeKeeps
  <2>2. IssueInv'
    BY <2>1 DEF ProofsInv, IssueInv
  <2>3. AttemptInv'
    BY <2>1 DEF ProofsInv, AttemptInv, NoAttempt
  <2>4. reused' \in BOOLEAN
    <3>1. reused \in BOOLEAN
      BY Zenon DEF ProofsInv, DeviceProofsTypeOK
    <3> QED BY <1>2, <3>1 DEF Consume
  <2>5. reused' = FALSE
    BY <2>1, <2>4
  <2> QED BY <2>1, <2>2, <2>3, <2>5, ProofTypes, Zenon DEF ChallengesHold
<1> QED BY <1>1, <1>2

\* What is left of a request.
LEMMA AttemptEnds ==
  ASSUME ProofsInv, NEW a \in Attempt, attempt' = [attempt EXCEPT ![a] = NoAttempt]
  PROVE  /\ attempt' \in [Attempt -> [at : {"idle", "validated"}, challenge : Challenge \cup {NoChallenge}]]
         /\ \A b \in Attempt : attempt'[b] \in {attempt[b], NoAttempt}
BY ProofTypes DEF NoAttempt

\* Registration: the challenge was checked before the mutex was taken, the retirement
\* of its device is checked after.
LEMMA FinishRegistrationHolds ==
  ASSUME ProofsInv, NEW a \in Attempt, NEW cl \in Client, NEW out \in Client \cup {NoClient},
         FinishRegistration(a, cl, out)
  PROVE  ProofStep
<1> DEFINE c == attempt[a].challenge
           d == IF c = NoChallenge THEN NoDevice ELSE issue[c].of
<1>1. c \in Challenge \cup {NoChallenge} /\ UNCHANGED <<clock, key, retired, known, dcr>>
  BY ProofTypes DEF FinishRegistration
<1>2. c # NoChallenge => /\ issue[c] # NotIssued /\ issue[c].key = key /\ issue[c].kind = "registration"
                         /\ Consume(c, issue[c].kind, issue[c].of) /\ d \notin retired
  BY DEF FinishRegistration, NotRetired, ProofsInv, AttemptInv
<1>3. c = NoChallenge => UNCHANGED proofs
  BY DEF FinishRegistration
<1>4. d \in Device \cup {NoDevice} /\ d \notin retired
  BY <1>1, <1>2, ProofTypes, NoneAssumption DEF ProofsInv, IssueInv
<1>5. ChallengesHold
  <2>1. attempt' = [attempt EXCEPT ![a] = NoAttempt]
    BY DEF FinishRegistration
  <2> HIDE DEF c
  <2> QED BY <1>1, <1>2, <1>3, <2>1, AttemptEnds, EndOfAttempt
<1>6. ClientsHold
  <2>1. /\ cl # out /\ Kept(client)[cl] = Unregistered /\ cl \notin known
        /\ IF Full(Kept(client)) THEN out \in Replaceable(Kept(client)) ELSE out = NoClient
        /\ SaveClients([x \in Client |->
             IF x = cl THEN [device |-> d, approved |-> FALSE, at |-> clock]
             ELSE IF x = out THEN Unregistered ELSE Kept(client)[x]])
    BY DEF FinishRegistration
  <2> HIDE DEF d
  <2> QED BY <1>1, <1>4, <2>1, RegistrationHolds
<1>7. dcr' \in BOOLEAN
  BY <1>1, Zenon DEF ProofsInv, DeviceProofsTypeOK
<1> QED BY <1>5, <1>6, <1>7 DEF ProofStep

\* A connection, and the refusal of either request.
LEMMA FinishConnectionHolds ==
  ASSUME ProofsInv, NEW a \in Attempt, FinishConnection(a) \/ Refused(a) PROVE ProofStep
<1>1. UNCHANGED <<clock, key, registry, dcr>> /\ attempt' = [attempt EXCEPT ![a] = NoAttempt]
  BY DEF FinishConnection, Refused
<1>2. CASE FinishConnection(a)
  <2> DEFINE c == attempt[a].challenge
  <2>1. /\ c \in Challenge /\ issue[c] # NotIssued /\ issue[c].key = key
        /\ Consume(c, issue[c].kind, issue[c].of)
    BY <1>2, ProofTypes DEF FinishConnection, ProofsInv, AttemptInv
  <2> HIDE DEF c
  <2> QED BY <1>1, <2>1, AttemptEnds, EndOfAttempt, ClientsRest, SwitchRests DEF ProofStep
<1>3. CASE Refused(a)
  <2>1. UNCHANGED proofs
    BY <1>3 DEF Refused
  <2> QED BY <1>1, <2>1, AttemptEnds, EndOfAttempt, ClientsRest, SwitchRests DEF ProofStep
<1> QED BY <1>2, <1>3

\* Approval, with the proof of a device or without.
LEMMA AuthorizeDeviceHolds ==
  ASSUME ProofsInv, NEW cl \in Client, NEW c \in Challenge, AuthorizeDevice(cl, c) PROVE ProofStep
<1>1. /\ issue[c].kind = "authorization" /\ issue[c].of = cl /\ issue[c].key = key
      /\ Consume(c, issue[c].kind, issue[c].of) /\ client[cl].device # NoDevice
      /\ UNCHANGED <<clock, key, retired, dcr, attempt>>
  BY DEF AuthorizeDevice, AuthorizationProven, Good
<1>2. issue[c] # NotIssued /\ client[cl] # Unregistered
  BY <1>1 DEF NotIssued, Unregistered
<1>3. ChallengesHold
  BY <1>1, <1>2, ProofTypes, EndOfAttempt
<1>4. ClientsHold
  BY <1>1, <1>2, ApprovalHolds DEF AuthorizeDevice
<1> QED BY <1>1, <1>3, <1>4, SwitchRests DEF ProofStep

\* The approval of a client without a device.
LEMMA ApproveHolds ==
  ASSUME ProofsInv, NEW cl \in Client, Approve(cl) PROVE ProofStep
<1>1. client[cl] # Unregistered /\ UNCHANGED <<clock, key, proofs, retired, dcr, attempt>>
  BY DEF Approve
<1>2. ChallengesHold
  BY <1>1, ProofTypes, EndOfAttempt
<1>3. ClientsHold
  BY <1>1, ApprovalHolds DEF Approve
<1> QED BY <1>1, <1>2, <1>3, SwitchRests DEF ProofStep

\* A revocation takes the clients of its device with it.
LEMMA RevocationHolds ==
  ASSUME ProofsInv, NEW C \in SUBSET Client, NEW D \in SUBSET Device, RevokeClients(C, D)
  PROVE  ProofStep
<1>1. /\ client' = [c \in Client |-> IF c \in C THEN Unregistered ELSE client[c]] /\ savedClient' = client'
      /\ retired' = retired \cup D /\ known' = known \ C
      /\ UNCHANGED <<clock, key, proofs, dcr, attempt>>
      /\ \A c \in Client \ C : client[c].device \notin D
  BY DEF RevokeClients
<1>2. ChallengesHold
  BY <1>1, ProofTypes, EndOfAttempt
<1>3. client' \in [Client -> Registered \cup {Unregistered}]
  BY <1>1, ProofTypes
<1>4. IsFiniteSet(Present') /\ Cardinality(Present') <= MaxClients
  <2>1. Present' \subseteq Present
    BY <1>1 DEF Present
  <2>2. IsFiniteSet(Present') /\ Cardinality(Present') <= Cardinality(Present)
    BY <2>1, ProofTypes, FS_Subset
  <2>3. Cardinality(Present') \in Nat /\ Cardinality(Present) \in Nat
    BY <2>2, ProofTypes, FS_CardinalityType
  <2>4. Cardinality(Present) <= MaxClients /\ MaxClients \in Nat
    BY ProofTypes
  <2> QED BY <2>2, <2>3, <2>4
<1>5. \A c \in Client : client'[c].device \notin retired'
  BY <1>1, ProofTypes, NoneAssumption DEF ProofsInv, Unregistered
<1>6. known' \subseteq Client /\ \A c \in known' : client'[c].approved = TRUE
  BY <1>1, KnownIs
<1>7. retired' \subseteq Device
  BY <1>1, ProofTypes
<1> QED BY <1>1, <1>2, <1>3, <1>4, <1>5, <1>6, <1>7, SwitchRests DEF ClientsHold, ProofStep

\* The clock, the switch, and a new process, whose keys no old challenge fits.
LEMMA TimeHolds ==
  ASSUME ProofsInv, PassTime \/ (\E on \in BOOLEAN : SetDCR(on)) PROVE ProofStep
<1>1. CASE PassTime
  <2>1. /\ clock < MaxTime /\ clock' = clock + 1
        /\ UNCHANGED <<key, registry, issue, consumed, used, reused, dcr, attempt>>
    BY <1>1 DEF PassTime, proofs
  <2>2. clock' \in 0..MaxTime /\ \A n \in Nat : n > clock' => n > clock
    BY <2>1, ProofTypes
  <2>3. IssueInv' /\ AttemptInv'
    BY <2>1 DEF ProofsInv, IssueInv, AttemptInv
  <2>4. UsedInv'
    <3>1. \A c \in used : issue[c].expires \in Nat
      BY ProofTypes DEF Issue, NotIssued
    <3> QED BY <2>1, <2>2, <3>1 DEF ProofsInv, UsedInv
  <2>5. reused' = FALSE
    BY <2>1, Zenon DEF ProofsInv, DeviceProofsTypeOK
  <2>6. ChallengesHold
    BY <2>1, <2>2, <2>3, <2>4, <2>5, ProofTypes, Zenon DEF ChallengesHold
  <2> QED BY <2>1, <2>6, ClientsRest, SwitchRests DEF ProofStep
<1>2. ASSUME NEW on \in BOOLEAN, SetDCR(on) PROVE ProofStep
  <2>1. UNCHANGED <<clock, key, registry, proofs, attempt>> /\ dcr' = on
    BY <1>2 DEF SetDCR
  <2> QED BY <2>1, ProofTypes, EndOfAttempt, ClientsRest DEF ProofStep
<1> QED BY <1>1, <1>2

\* A new process remembers nothing and needs to remember nothing.
LEMMA RestartHolds == ASSUME ProofsInv, RestartProofs PROVE ProofStep
<1>1. /\ key < MaxTime /\ key' = key + 1
      /\ consumed' = [k \in Kind |-> [x \in Device \cup Client |-> {}]]
      /\ client' = Kept(client) /\ savedClient' = client'
      /\ attempt' = [a \in Attempt |-> NoAttempt]
      /\ UNCHANGED <<clock, retired, known, issue, used, reused, dcr>>
  BY ProofTypes DEF RestartProofs
<1>2. key' \in 0..MaxTime /\ key \in Nat
  BY <1>1, ProofTypes
<1>3. ASSUME NEW c \in Challenge, issue[c] # NotIssued PROVE issue[c].key <= key' /\ issue[c].key # key'
  <2>1. issue[c].key <= key /\ issue[c].key \in 0..MaxTime
    BY <1>3, IssuedIs DEF ProofsInv, IssueInv
  <2> QED BY <1>1, <1>2, <2>1
<1>4. IssueInv'
  BY <1>1, <1>3 DEF ProofsInv, IssueInv
<1>5. UsedInv'
  BY <1>1, <1>3, ProofTypes DEF ProofsInv, UsedInv
<1>6. AttemptInv' /\ attempt' \in [Attempt -> [at : {"idle", "validated"}, challenge : Challenge \cup {NoChallenge}]]
  BY <1>1 DEF AttemptInv, NoAttempt
<1>7. \A k \in Kind, x \in Device \cup Client :
        Cardinality(consumed'[k][x]) <= MaxConsumed /\ IsFiniteSet(consumed'[k][x])
  <2>1. \A k \in Kind, x \in Device \cup Client : consumed'[k][x] = {}
    BY <1>1
  <2>2. Cardinality({}) <= MaxConsumed /\ IsFiniteSet({})
    BY FS_EmptySet
  <2> QED BY <2>1, <2>2
<1>8. consumed' \in [Kind -> [Device \cup Client -> SUBSET Challenge]]
  BY <1>1
<1>9. reused' = FALSE
  BY <1>1, Zenon DEF ProofsInv, DeviceProofsTypeOK
<1>10. ChallengesHold
  BY <1>1, <1>2, <1>4, <1>5, <1>6, <1>7, <1>8, <1>9, ProofTypes, Zenon DEF ChallengesHold
<1>11. ClientsHold
  <2>1. /\ Kept(client) \in [Client -> Registered \cup {Unregistered}]
        /\ \A c \in Client : /\ Kept(client)[c] \in {client[c], Unregistered}
                             /\ client[c].approved = TRUE => Kept(client)[c] = client[c]
    BY ProofTypes, KeptIs
  <2>2. IsFiniteSet(Present') /\ Cardinality(Present') <= MaxClients
    <3>1. Present' \subseteq Present
      BY <1>1, <2>1 DEF Present
    <3>2. IsFiniteSet(Present') /\ Cardinality(Present') <= Cardinality(Present)
      BY <3>1, ProofTypes, FS_Subset
    <3>3. Cardinality(Present') \in Nat /\ Cardinality(Present) \in Nat
      BY <3>2, ProofTypes, FS_CardinalityType
    <3>4. Cardinality(Present) <= MaxClients /\ MaxClients \in Nat
      BY ProofTypes
    <3> QED BY <3>2, <3>3, <3>4
  <2>3. \A c \in Client : client'[c].device \notin retired'
    BY <1>1, <2>1, ProofTypes, NoneAssumption DEF ProofsInv, Unregistered
  <2>4. \A c \in known' : client'[c].approved = TRUE
    BY <1>1, <2>1, KnownIs
  <2> QED BY <1>1, <2>1, <2>2, <2>3, <2>4, ProofTypes DEF ClientsHold
<1> QED BY <1>1, <1>10, <1>11, SwitchRests DEF ProofStep

-----------------------------------------------------------------------------
\* The invariant holds in every state.
THEOREM ProofsInvariant == DeviceProofsSpec => []ProofsInv
<1>1. DeviceProofsInit => ProofsInv
  <2> SUFFICES ASSUME DeviceProofsInit PROVE ProofsInv
    OBVIOUS
  <2> USE DEF DeviceProofsInit
  <2>1. Present = {} /\ \A k \in Kind, x \in Device \cup Client : consumed[k][x] = {}
    BY DEF Present
  <2>2. FiniteInv /\ Cardinality({}) = 0
    BY <2>1, FS_EmptySet DEF FiniteInv
  <2>3. DeviceProofsTypeOK
    <3>1. \A k \in Kind, x \in Device \cup Client : Cardinality(consumed[k][x]) <= MaxConsumed
      BY <2>1, <2>2
    <3>2. Cardinality({c \in Client : client[c] # Unregistered}) <= MaxClients
      <4>1. Cardinality(Present) <= MaxClients
        BY <2>1, <2>2
      <4> QED BY <4>1, Zenon DEF Present
    <3>3. clock \in 0..MaxTime /\ key \in 0..MaxTime /\ retired \subseteq Device /\ known \subseteq Client
      OBVIOUS
    <3>4. {client, savedClient} \subseteq [Client -> Registered \cup {Unregistered}]
      OBVIOUS
    <3>5. attempt \in [Attempt -> [at : {"idle", "validated"}, challenge : Challenge \cup {NoChallenge}]]
      BY DEF NoAttempt
    <3> QED BY <3>1, <3>2, <3>3, <3>4, <3>5 DEF DeviceProofsTypeOK
  <2>4. IssueInv /\ UsedInv /\ AttemptInv
    BY DEF IssueInv, UsedInv, AttemptInv, NotIssued, NoAttempt
  <2> QED BY <2>2, <2>3, <2>4 DEF ProofsInv
<1>2. ProofsInv /\ [DeviceProofsNext]_proofVars => ProofsInv'
  <2> SUFFICES ASSUME ProofsInv, [DeviceProofsNext]_proofVars PROVE ProofsInv'
    OBVIOUS
  <2>1. ProofStep
    <3>1. CASE UNCHANGED proofVars
      <4>1. UNCHANGED <<clock, key, registry, proofs, dcr, attempt>>
        BY <3>1 DEF proofVars
      <4> QED BY <4>1, ProofTypes, EndOfAttempt, ClientsRest, SwitchRests DEF ProofStep
    <3> QED BY <3>1, IssuersHold, BeginHolds, FinishRegistrationHolds, FinishConnectionHolds,
            AuthorizeDeviceHolds, ApproveHolds, RevocationHolds, TimeHolds, RestartHolds DEF DeviceProofsNext
  <2>2. FiniteInv' /\ IssueInv' /\ UsedInv' /\ AttemptInv'
    BY <2>1, Zenon DEF ProofStep, ChallengesHold, ClientsHold, FiniteInv
  <2>3. DeviceProofsTypeOK'
    BY <2>1, Zenon DEF ProofStep, ChallengesHold, ClientsHold, DeviceProofsTypeOK, Present
  <2> QED BY <2>1, <2>2, <2>3 DEF ProofsInv, ProofStep, ChallengesHold, ClientsHold
<1> QED BY <1>1, <1>2, PTL DEF DeviceProofsSpec

\* handleRegister and the connection validate a challenge before they take the mutex
\* that consumes it: it is accepted once, and what was retired meanwhile gets no client.
THEOREM ProofsStayGood == DeviceProofsSpec => []ProofsHold
<1>1. ProofsInv => ProofsHold
  BY Zenon DEF ProofsInv, ProofsHold, ChallengeUsedOnceAlive, RetiredHasNoClient, ApprovedStays
<1> QED BY <1>1, ProofsInvariant, PTL
-----------------------------------------------------------------------------
(* Rate windows and password slots.                                        *)

\* What passed is numbered, so that no two requests are taken for one.
Numbered(k) ==
  /\ IsFiniteSet(passed[k])
  /\ \A e \in passed[k] : e[1] <= tick /\ e[2] < Cardinality(passed[k])

\* A window that was forgotten was over, and one that is kept counts what passed
\* since it started; in the span before it one window at most was open.
Tells(k, r) ==
  IF r = NoRate
    THEN /\ \A e \in passed[k] : e[1] < tick
         /\ Cardinality(Between(k, tick - Window + 1, tick)) <= Limit
    ELSE /\ r.started <= tick
         /\ \A e \in passed[k] : e[1] < r.started + Window
         /\ Cardinality(Between(k, r.started, r.started + Window)) <= r.count
         /\ Cardinality(Between(k, r.started - Window + 1, r.started)) <= Limit

Spans(k) == \A t \in 0..MaxTick : Cardinality(Between(k, t, t + Window)) <= 2 * Limit

LimiterInv ==
  /\ LimiterTypeOK /\ SlotsHold /\ IsFiniteSet(Rated) /\ IsFiniteSet(hashing)
  /\ \A k \in Key : Numbered(k) /\ Tells(k, rate[k]) /\ Spans(k)

Opened == [started : 0..MaxTick, count : 0..Limit]

\* The limits are positive, and no window is shorter than it is remembered.
LEMMA LimitsAreNatural ==
  /\ Limit \in Nat \ {0} /\ Window \in Nat \ {0} /\ Hour \in Nat \ {0} /\ MaxRates \in Nat \ {0}
  /\ Slots \in Nat \ {0} /\ MaxTick \in Nat \ {0} /\ Window <= Hour
  BY LimitAssumption

LEMMA OpenedIsNone == \A w \in Opened : w # NoRate
<1> SUFFICES ASSUME NEW w \in Opened, w = NoRate PROVE FALSE
  OBVIOUS
<1>1. w.started \in 0..MaxTick /\ w.started = -1
  BY DEF Opened, NoRate
<1> QED
  BY <1>1, LimitsAreNatural

\* A set that is within two others counts no more than they do.
LEMMA CountsOfTwo ==
  ASSUME NEW A, NEW B, NEW S, IsFiniteSet(A), IsFiniteSet(B), S \subseteq A \cup B,
         NEW x \in Nat, NEW y \in Nat, Cardinality(A) <= x, Cardinality(B) <= y
  PROVE  Cardinality(S) <= x + y
<1>1. /\ IsFiniteSet(A \cup B)
      /\ Cardinality(A \cup B) = Cardinality(A) + Cardinality(B) - Cardinality(A \cap B)
  BY FS_Union
<1>2. Cardinality(A) \in Nat /\ Cardinality(B) \in Nat /\ Cardinality(A \cap B) \in Nat
  BY FS_CardinalityType, FS_Intersection
<1>3. Cardinality(S) <= Cardinality(A \cup B) /\ Cardinality(S) \in Nat
  BY <1>1, FS_Subset, FS_CardinalityType
<1> QED
  BY <1>1, <1>2, <1>3

LEMMA CountsWithin ==
  ASSUME NEW A, NEW S, IsFiniteSet(A), S \subseteq A
  PROVE  Cardinality(S) <= Cardinality(A) /\ Cardinality(S) \in Nat /\ Cardinality(A) \in Nat
  BY FS_Subset, FS_CardinalityType

LEMMA SpanIsFinite ==
  ASSUME NEW k, Numbered(k)
  PROVE  \A from, to : IsFiniteSet(Between(k, from, to)) /\ Cardinality(Between(k, from, to)) \in Nat
<1> SUFFICES ASSUME NEW from, NEW to
             PROVE  IsFiniteSet(Between(k, from, to)) /\ Cardinality(Between(k, from, to)) \in Nat
  OBVIOUS
<1>1. Between(k, from, to) \subseteq passed[k]
  BY DEF Between
<1> QED
  BY <1>1, FS_Subset, FS_CardinalityType DEF Numbered

\* What is known of a request that passed.
LEMMA PassedIsTyped ==
  ASSUME LimiterTypeOK, NEW k \in Key, NEW e \in passed[k]
  PROVE  e[1] \in 0..MaxTick /\ e[2] \in Nat /\ e = <<e[1], e[2]>>
<1>1. e \in (0..MaxTick) \X Nat
  BY DEF LimiterTypeOK
<1> QED
  BY <1>1

\* Forgetting a window that is old tells the truth.
LEMMA ForgottenTells ==
  ASSUME LimiterTypeOK, NEW k \in Key, Numbered(k), NEW w \in Opened, Tells(k, w),
         tick - w.started >= Window
  PROVE  Tells(k, NoRate)
<1>1. w # NoRate /\ w.started \in 0..MaxTick /\ w.count \in 0..Limit /\ tick \in 0..MaxTick
  BY OpenedIsNone DEF Opened, LimiterTypeOK
<1>2. /\ \A e \in passed[k] : e[1] < w.started + Window
      /\ Cardinality(Between(k, w.started, w.started + Window)) <= w.count
  BY <1>1 DEF Tells
<1>3. \A e \in passed[k] : e[1] < tick
  BY <1>1, <1>2, PassedIsTyped, LimitsAreNatural
<1>4. Between(k, tick - Window + 1, tick) \subseteq Between(k, w.started, w.started + Window)
  <2> SUFFICES ASSUME NEW e \in passed[k], tick - Window + 1 <= e[1]
               PROVE  w.started <= e[1] /\ e[1] < w.started + Window
    BY DEF Between
  <2> QED
    BY <1>1, <1>2, PassedIsTyped, LimitsAreNatural
<1>5. Cardinality(Between(k, tick - Window + 1, tick)) <= Limit
  <2>1. /\ Cardinality(Between(k, tick - Window + 1, tick)) <= Cardinality(Between(k, w.started, w.started + Window))
        /\ Cardinality(Between(k, tick - Window + 1, tick)) \in Nat
        /\ Cardinality(Between(k, w.started, w.started + Window)) \in Nat
    BY <1>4, SpanIsFinite, CountsWithin
  <2> QED
    BY <1>1, <1>2, <2>1, LimitsAreNatural
<1> QED
  BY <1>3, <1>5 DEF Tells

\* So does a window that is opened now.
LEMMA NewWindowTells ==
  ASSUME LimiterTypeOK, NEW k \in Key, Numbered(k), Tells(k, NoRate), NEW w \in Opened,
         w.started = tick, w.count = 0
  PROVE  Tells(k, w)
<1>1. w # NoRate /\ tick \in 0..MaxTick
  BY OpenedIsNone DEF LimiterTypeOK
<1>2. /\ \A e \in passed[k] : e[1] < tick
      /\ Cardinality(Between(k, tick - Window + 1, tick)) <= Limit
  BY DEF Tells
<1>3. Between(k, tick, tick + Window) = {}
  BY <1>1, <1>2, PassedIsTyped DEF Between
<1>4. Cardinality(Between(k, tick, tick + Window)) = 0
  BY <1>3, FS_EmptySet
<1>5. \A e \in passed[k] : e[1] < tick + Window
  BY <1>1, <1>2, PassedIsTyped, LimitsAreNatural
<1> QED
  BY <1>1, <1>2, <1>4, <1>5 DEF Tells

\* allowRate counts against a window that tells the truth and is not over.
LEMMA SweptTells ==
  ASSUME LimiterInv
  PROVE  /\ Swept \in [Key -> Opened \cup {NoRate}]
         /\ {x \in Key : Swept[x] # NoRate} \subseteq Rated
         /\ \A k \in Key : Tells(k, Swept[k])
<1>1. Swept \in [Key -> Opened \cup {NoRate}] /\ {x \in Key : Swept[x] # NoRate} \subseteq Rated
  BY DEF Swept, LimiterInv, LimiterTypeOK, Opened, Rated
<1>2. ASSUME NEW k \in Key PROVE Tells(k, Swept[k])
  <2>1. CASE Swept[k] = rate[k]
    BY <2>1 DEF LimiterInv
  <2>2. CASE Swept[k] # rate[k]
    <3>1. rate[k] \in Opened /\ tick - rate[k].started >= Hour /\ Swept[k] = NoRate
      BY <2>2 DEF Swept, Rated, LimiterInv, LimiterTypeOK, Opened
    <3>2. tick - rate[k].started >= Window
      BY <3>1, LimitsAreNatural DEF LimiterInv, LimiterTypeOK, Opened
    <3> QED
      BY <3>1, <3>2, ForgottenTells DEF LimiterInv
  <2> QED
    BY <2>1, <2>2
<1> QED
  BY <1>1, <1>2

LEMMA CurrentTells ==
  ASSUME LimiterTypeOK, NEW k \in Key, Numbered(k), NEW table \in [Key -> Opened \cup {NoRate}],
         Tells(k, table[k])
  PROVE  /\ Current(table, k) \in Opened /\ Tells(k, Current(table, k))
         /\ tick < Current(table, k).started + Window
<1> DEFINE new == [started |-> tick, count |-> 0]
<1>1. new \in Opened /\ new.started = tick /\ new.count = 0 /\ tick \in 0..MaxTick
  BY LimitsAreNatural DEF Opened, LimiterTypeOK
<1>2. CASE table[k] # NoRate /\ ~(tick - table[k].started >= Window)
  <2>1. Current(table, k) = table[k] /\ table[k] \in Opened
    BY <1>2 DEF Current
  <2> QED
    BY <1>1, <1>2, <2>1, LimitsAreNatural DEF Opened
<1>3. CASE table[k] = NoRate \/ tick - table[k].started >= Window
  <2>1. Current(table, k) = new
    BY <1>3 DEF Current
  <2>2. Tells(k, NoRate)
    BY <1>3, ForgottenTells
  <2>3. Tells(k, new)
    BY <1>1, <2>2, NewWindowTells
  <2> QED
    BY <1>1, <2>1, <2>3, LimitsAreNatural
<1> QED
  BY <1>2, <1>3

\* A request that passes is a new one, and is counted.
LEMMA PassCounts ==
  ASSUME LimiterTypeOK, NEW k \in Key, Numbered(k), Spans(k), NEW w \in Opened, Tells(k, w),
         tick < w.started + Window, w.count < Limit, tick' = tick,
         passed' = [passed EXCEPT ![k] = @ \cup {<<tick, Cardinality(@)>>}],
         NEW r \in Opened, r.started = w.started, r.count = w.count + 1
  PROVE  Numbered(k)' /\ Spans(k)' /\ Tells(k, r)'
<1> DEFINE n == Cardinality(passed[k])
           e0 == <<tick, n>>
           s == w.started
<1>1. /\ n \in Nat /\ tick \in 0..MaxTick /\ s \in 0..MaxTick /\ w.count \in 0..Limit /\ w # NoRate /\ r # NoRate
      /\ s <= tick
  BY FS_CardinalityType, OpenedIsNone DEF Numbered, LimiterTypeOK, Opened, Tells
<1>2. passed'[k] = passed[k] \cup {e0} /\ e0[1] = tick /\ e0[2] = n
  BY DEF LimiterTypeOK
<1>3. e0 \notin passed[k]
  BY <1>1, <1>2 DEF Numbered
<1>4. IsFiniteSet(passed'[k]) /\ Cardinality(passed'[k]) = n + 1
  <2>1. IsFiniteSet(passed[k]) /\ Cardinality(passed[k]) = n
    BY DEF Numbered
  <2> HIDE DEF e0, n
  <2>2. IsFiniteSet(passed[k] \cup {e0}) /\ Cardinality(passed[k] \cup {e0}) = n + 1
    BY <1>3, <2>1, FS_AddElement
  <2> QED
    BY <1>2, <2>2
<1>5. Numbered(k)'
  <2>1. \A e \in passed[k] : e[1] <= tick /\ e[2] \in Nat /\ e[2] < n
    BY PassedIsTyped DEF Numbered
  <2> HIDE DEF e0, n
  <2>2. \A e \in passed'[k] : e[1] <= tick /\ e[2] < n + 1
    BY <1>1, <1>2, <2>1
  <2> QED
    BY <1>4, <2>2 DEF Numbered
<1>6. /\ \A e \in passed[k] : e[1] < s + Window
      /\ Cardinality(Between(k, s, s + Window)) <= w.count
      /\ Cardinality(Between(k, s - Window + 1, s)) <= Limit
  BY <1>1 DEF Tells
<1>7. \A e \in passed'[k] : e[1] \in 0..MaxTick /\ e[1] < s + Window
  BY <1>1, <1>2, <1>6, PassedIsTyped
<1>8. \A from, to : (from <= tick /\ tick < to => Between(k, from, to)' = Between(k, from, to) \cup {e0})
  BY <1>2 DEF Between
<1>9. \A from, to : (~(from <= tick /\ tick < to) => Between(k, from, to)' = Between(k, from, to))
  BY <1>2 DEF Between
<1>10. e0 \notin Between(k, s, s + Window)
  BY <1>3 DEF Between
<1> HIDE DEF e0, n
<1>11. Cardinality(Between(k, s, s + Window)') = Cardinality(Between(k, s, s + Window)) + 1
  <2>1. Between(k, s, s + Window)' = Between(k, s, s + Window) \cup {e0}
    BY <1>1, <1>8
  <2> QED
    BY <1>10, <2>1, SpanIsFinite, FS_AddElement
<1>12. Cardinality(Between(k, s, s + Window)') <= w.count + 1 /\ w.count + 1 <= Limit
  BY <1>1, <1>6, <1>11, SpanIsFinite, LimitsAreNatural DEF Opened
<1>13. Between(k, s - Window + 1, s)' = Between(k, s - Window + 1, s)
  BY <1>1, <1>9
<1>14. Tells(k, r)'
  BY <1>1, <1>6, <1>7, <1>12, <1>13 DEF Tells
<1>15. Spans(k)'
  <2> SUFFICES ASSUME NEW t \in 0..MaxTick
               PROVE  Cardinality(Between(k, t, t + Window)') <= 2 * Limit
    BY DEF Spans
  <2> DEFINE A == Between(k, s - Window + 1, s)
             B == Between(k, s, s + Window)'
  <2>1. CASE ~(t <= tick /\ tick < t + Window)
    BY <1>9, <2>1 DEF Spans
  <2>2. CASE t <= tick /\ tick < t + Window
    <3>1. Between(k, t, t + Window)' \subseteq A \cup B
      <4> SUFFICES ASSUME NEW e \in passed'[k], t <= e[1], e[1] < t + Window
                   PROVE  e \in A \cup B
        BY DEF Between
      <4>1. s - Window + 1 <= e[1] /\ e[1] < s + Window /\ e[1] \in 0..MaxTick
        BY <1>1, <1>7, <2>2, LimitsAreNatural
      <4>2. CASE e[1] < s
        BY <1>13, <4>1, <4>2 DEF Between
      <4>3. CASE s <= e[1]
        BY <4>1, <4>3 DEF Between
      <4> QED
        BY <1>1, <4>1, <4>2, <4>3
    <3>2. IsFiniteSet(A) /\ IsFiniteSet(B)
      <4>1. B \subseteq passed'[k]
        BY DEF Between
      <4> QED
        BY <1>4, <4>1, SpanIsFinite, FS_Subset
    <3>3. Cardinality(A) <= Limit /\ Cardinality(B) <= Limit
      <4>1. Cardinality(B) \in Nat
        BY <3>2, FS_CardinalityType
      <4> QED
        BY <1>1, <1>6, <1>12, <4>1, LimitsAreNatural
    <3> HIDE DEF A, B
    <3>4. Cardinality(Between(k, t, t + Window)') <= Limit + Limit
      BY <3>1, <3>2, <3>3, CountsOfTwo, LimitsAreNatural
    <3> QED
      BY <3>4, LimitsAreNatural
  <2> QED
    BY <2>1, <2>2
<1> QED
  BY <1>5, <1>14, <1>15

\* One element more makes a finite set larger by one at most.
LEMMA OneMore ==
  ASSUME NEW S, NEW x, IsFiniteSet(S), Cardinality(S) \in Nat
  PROVE  IsFiniteSet(S \cup {x}) /\ Cardinality(S \cup {x}) <= Cardinality(S) + 1
<1>1. /\ IsFiniteSet(S \cup {x})
      /\ Cardinality(S \cup {x}) = IF x \in S THEN Cardinality(S) ELSE Cardinality(S) + 1
  BY FS_AddElement, Zenon
<1>2. CASE x \in S
  BY <1>1, <1>2
<1>3. CASE x \notin S
  BY <1>1, <1>3
<1> QED
  BY <1>2, <1>3

LEMMA AllowRateKeeps == ASSUME NEW k \in Key, LimiterInv, AllowRate(k) PROVE LimiterInv'
<1> DEFINE table == Swept
           full  == Cardinality({x \in Key : table[x] # NoRate}) >= MaxRates
           win   == Current(table, k)
           taken  == {x \in Key : table[x] # NoRate}
           next  == [win EXCEPT !.count = win.count + 1]
<1>1. /\ table \in [Key -> Opened \cup {NoRate}] /\ taken \subseteq Rated
      /\ \A x \in Key : Tells(x, table[x])
  BY SweptTells
<1>2. /\ IsFiniteSet(taken) /\ Cardinality(taken) <= MaxRates /\ Cardinality(taken) \in Nat
  <2>1. Cardinality(taken) <= Cardinality(Rated) /\ Cardinality(taken) \in Nat /\ Cardinality(Rated) \in Nat
    BY <1>1, CountsWithin DEF LimiterInv
  <2> QED
    BY <1>1, <2>1, FS_Subset, LimitsAreNatural DEF LimiterInv, LimiterTypeOK
<1>3. win \in Opened /\ Tells(k, win) /\ tick < win.started + Window
  BY <1>1, CurrentTells DEF LimiterInv
<1>4. UNCHANGED <<tick, hashing, queued, bare>> /\ LimiterTypeOK /\ SlotsHold' /\ IsFiniteSet(hashing)
  BY DEF AllowRate, LimiterInv, SlotsHold
<1>5. \/ rate' = table /\ UNCHANGED passed
      \/ ~full /\ win.count >= Limit /\ rate' = [table EXCEPT ![k] = win] /\ UNCHANGED passed
      \/ /\ ~full /\ ~(win.count >= Limit) /\ rate' = [table EXCEPT ![k] = next]
         /\ passed' = [passed EXCEPT ![k] = @ \cup {<<tick, Cardinality(@)>>}]
  BY Zenon DEF AllowRate
<1>6. CASE rate' = table /\ UNCHANGED passed
  <2>1. \A x \in Key : (Numbered(x) /\ Tells(x, rate[x]) /\ Spans(x))'
    <3> HIDE DEF table
    <3> SUFFICES ASSUME NEW x \in Key PROVE (Numbered(x) /\ Tells(x, rate[x]) /\ Spans(x))'
      OBVIOUS
    <3>1. Numbered(x) /\ Tells(x, table[x]) /\ Spans(x)
      BY <1>1 DEF LimiterInv
    <3> QED
      BY <1>4, <1>6, <3>1 DEF Numbered, Tells, Spans, Between
  <2>2. Rated' = taken
    BY <1>6 DEF Rated
  <2> HIDE DEF table, taken
  <2>3. LimiterTypeOK'
    BY <1>1, <1>2, <1>4, <1>6, <2>2 DEF LimiterTypeOK, Opened
  <2> QED
    BY <1>2, <1>4, <2>1, <2>2, <2>3 DEF LimiterInv
<1>7. ASSUME NEW r \in Opened, ~full, rate' = [table EXCEPT ![k] = r],
             (Numbered(k) /\ Tells(k, r) /\ Spans(k))',
             passed' \in [Key -> SUBSET ((0..MaxTick) \X Nat)],
             \A x \in Key \ {k} : passed'[x] = passed[x]
      PROVE  LimiterInv'
  <2>1. \A x \in Key : (Numbered(x) /\ Tells(x, rate[x]) /\ Spans(x))'
    <3> HIDE DEF table
    <3> SUFFICES ASSUME NEW x \in Key PROVE (Numbered(x) /\ Tells(x, rate[x]) /\ Spans(x))'
      OBVIOUS
    <3>1. CASE x = k
      <4>1. rate'[k] = r
        BY <1>1, <1>7
      <4> QED
        BY <1>7, <3>1, <4>1 DEF Tells
    <3>2. CASE x # k
      <4>1. Numbered(x) /\ Tells(x, table[x]) /\ Spans(x) /\ rate'[x] = table[x] /\ passed'[x] = passed[x]
        BY <1>1, <1>7, <3>2 DEF LimiterInv
      <4> QED
        BY <1>4, <4>1 DEF Numbered, Tells, Spans, Between
    <3> QED
      BY <3>1, <3>2
  <2>2. Rated' = taken \cup {k}
    <3>1. r # NoRate
      BY OpenedIsNone
    <3> QED
      BY <1>1, <1>7, <3>1 DEF Rated
  <2>3. ~(Cardinality(taken) >= MaxRates)
    BY <1>7
  <2>4. rate' \in [Key -> Opened \cup {NoRate}]
    BY <1>1, <1>7
  <2> HIDE DEF table, taken
  <2>5. IsFiniteSet(Rated') /\ Cardinality(Rated') <= MaxRates
    <3>1. IsFiniteSet(taken \cup {k}) /\ Cardinality(taken \cup {k}) <= Cardinality(taken) + 1
      BY <1>2, OneMore
    <3>2. Cardinality(taken) + 1 <= MaxRates
      BY <1>2, <2>3, LimitsAreNatural
    <3>3. Cardinality(taken \cup {k}) \in Nat
      BY <3>1, FS_CardinalityType
    <3> QED
      BY <1>2, <2>2, <3>1, <3>2, <3>3, LimitsAreNatural
  <2>6. LimiterTypeOK'
    BY <1>4, <1>7, <2>4, <2>5 DEF LimiterTypeOK, Opened
  <2> QED
    BY <1>4, <2>1, <2>5, <2>6 DEF LimiterInv
<1>10. PICK w \in Opened : w = win
  BY <1>3
<1>8. CASE ~full /\ win.count >= Limit /\ rate' = [table EXCEPT ![k] = win] /\ UNCHANGED passed
  <2>1. Numbered(k) /\ Tells(k, w) /\ Spans(k) /\ ~full /\ rate' = [table EXCEPT ![k] = w]
    BY <1>3, <1>10, <1>8 DEF LimiterInv
  <2> HIDE DEF table, full, win
  <2>2. (Numbered(k) /\ Tells(k, w) /\ Spans(k))'
    BY <1>4, <1>8, <2>1 DEF Numbered, Tells, Spans, Between
  <2>3. /\ passed' \in [Key -> SUBSET ((0..MaxTick) \X Nat)]
        /\ \A x \in Key \ {k} : passed'[x] = passed[x]
    BY <1>4, <1>8 DEF LimiterTypeOK
  <2> QED
    BY <1>7, <2>1, <2>2, <2>3
<1>9. CASE /\ ~full /\ ~(win.count >= Limit) /\ rate' = [table EXCEPT ![k] = next]
           /\ passed' = [passed EXCEPT ![k] = @ \cup {<<tick, Cardinality(@)>>}]
  <2>1. w.count < Limit /\ w.count \in 0..Limit /\ Tells(k, w) /\ tick < w.started + Window /\ ~full
    BY <1>3, <1>10, <1>9, LimitsAreNatural DEF Opened
  <2>2. [w EXCEPT !.count = w.count + 1] \in Opened /\ next = [w EXCEPT !.count = w.count + 1]
    BY <1>10, <2>1, LimitsAreNatural DEF Opened
  <2>3. PICK r \in Opened : r = [w EXCEPT !.count = w.count + 1]
    BY <2>2
  <2>4. r.started = w.started /\ r.count = w.count + 1 /\ rate' = [table EXCEPT ![k] = r]
    BY <1>9, <2>2, <2>3 DEF Opened
  <2> HIDE DEF table, full, win, next
  <2>5. Numbered(k) /\ Spans(k) /\ tick' = tick /\ Cardinality(passed[k]) \in Nat /\ tick \in 0..MaxTick
    BY <1>4, FS_CardinalityType DEF LimiterInv, Numbered, LimiterTypeOK
  <2>6. Numbered(k)' /\ Spans(k)' /\ Tells(k, r)'
    BY <1>4, <1>9, <2>1, <2>4, <2>5, PassCounts
  <2>7. /\ passed' \in [Key -> SUBSET ((0..MaxTick) \X Nat)]
        /\ \A x \in Key \ {k} : passed'[x] = passed[x]
    BY <1>4, <1>9, <2>5 DEF LimiterTypeOK
  <2> QED
    BY <1>7, <2>1, <2>4, <2>6, <2>7
<1> QED
  BY <1>5, <1>6, <1>8, <1>9

\* The slots are counted apart from the windows.
LEMMA WindowsStand ==
  ASSUME LimiterInv, UNCHANGED <<tick, rate, passed>>,
         hashing' \subseteq Hasher, queued' \subseteq Hasher, bare' \subseteq Hasher,
         IsFiniteSet(hashing'), SlotsHold'
  PROVE  LimiterInv'
<1>1. LimiterTypeOK' /\ Rated' = Rated
  BY DEF LimiterInv, LimiterTypeOK, Rated
<1>2. \A x \in Key : (Numbered(x) /\ Tells(x, rate[x]) /\ Spans(x))'
  BY DEF LimiterInv, Numbered, Tells, Spans, Between
<1> QED
  BY <1>1, <1>2 DEF LimiterInv

\* What a request that holds or wants a slot can rely on.
LEMMA SlotsAre ==
  ASSUME LimiterInv
  PROVE  /\ hashing \subseteq Hasher /\ queued \subseteq Hasher /\ bare \subseteq Hasher
         /\ IsFiniteSet(hashing) /\ Cardinality(hashing) \in Nat /\ Cardinality(hashing) <= Slots
         /\ hashing \cap bare = {} /\ queued \cap (hashing \cup bare) = {}
BY FS_CardinalityType DEF LimiterInv, LimiterTypeOK, SlotsHold

LEMMA TakeSlotKeeps == ASSUME NEW h \in Hasher, LimiterInv, TakeSlot(h) PROVE LimiterInv'
<1>1. /\ hashing' = hashing \cup {h} /\ queued' = queued \ {h} /\ h \in queued
      /\ UNCHANGED <<tick, rate, bare, passed>> /\ Cardinality(hashing) < Slots
  BY DEF TakeSlot
<1>2. IsFiniteSet(hashing') /\ Cardinality(hashing') <= Slots
  <2>1. IsFiniteSet(hashing \cup {h}) /\ Cardinality(hashing \cup {h}) <= Cardinality(hashing) + 1
    BY SlotsAre, OneMore
  <2>2. Cardinality(hashing) + 1 <= Slots /\ Cardinality(hashing \cup {h}) \in Nat
    BY <1>1, <2>1, SlotsAre, FS_CardinalityType, LimitsAreNatural
  <2> QED
    BY <1>1, <2>1, <2>2, SlotsAre, LimitsAreNatural
<1>3. hashing' \subseteq Hasher /\ queued' \subseteq Hasher /\ bare' \subseteq Hasher
  BY <1>1, SlotsAre
<1>4. hashing' \cap bare' = {} /\ queued' \cap (hashing' \cup bare') = {}
  BY <1>1, SlotsAre
<1>5. SlotsHold'
  BY <1>2, <1>4 DEF SlotsHold
<1> QED
  BY <1>1, <1>2, <1>3, <1>5, WindowsStand

LEMMA GiveSlotBackKeeps == ASSUME NEW h \in Hasher, LimiterInv, GiveSlotBack(h) PROVE LimiterInv'
<1>1. /\ hashing' = hashing \ {h} /\ h \in hashing /\ bare' \in {bare, bare \cup {h}}
      /\ UNCHANGED <<tick, rate, queued, passed>>
  BY DEF GiveSlotBack
<1>2. IsFiniteSet(hashing') /\ Cardinality(hashing') <= Slots
  <2>1. IsFiniteSet(hashing') /\ Cardinality(hashing') <= Cardinality(hashing)
        /\ Cardinality(hashing') \in Nat
    BY <1>1, SlotsAre, CountsWithin, FS_Subset
  <2> QED
    BY <2>1, SlotsAre, LimitsAreNatural
<1>3. hashing' \subseteq Hasher /\ queued' \subseteq Hasher /\ bare' \subseteq Hasher
  BY <1>1, SlotsAre
<1>4. hashing' \cap bare' = {} /\ queued' \cap (hashing' \cup bare') = {}
  BY <1>1, SlotsAre
<1>5. SlotsHold'
  BY <1>2, <1>4 DEF SlotsHold
<1> QED
  BY <1>1, <1>2, <1>3, <1>5, WindowsStand

\* Whoever waits, gives up or hashes without a slot takes none.
LEMMA OthersTakeNone ==
  ASSUME NEW h \in Hasher, LimiterInv, AskSlot(h) \/ Busy(h) \/ HashBare(h) \/ BareDone(h)
  PROVE  LimiterInv'
<1>1. UNCHANGED <<tick, rate, passed, hashing>>
  BY DEF AskSlot, Busy, HashBare, BareDone
<1>2. queued' \subseteq Hasher /\ bare' \subseteq Hasher
  BY SlotsAre DEF AskSlot, Busy, HashBare, BareDone
<1>3. hashing' \cap bare' = {} /\ queued' \cap (hashing' \cup bare') = {}
  BY SlotsAre DEF AskSlot, Busy, HashBare, BareDone, Unasked
<1>4. SlotsHold'
  BY <1>1, <1>3, SlotsAre DEF SlotsHold
<1> QED
  BY <1>1, <1>2, <1>4, SlotsAre, WindowsStand

\* Later, no more was passed lately.
LEMMA LimiterTickKeeps == ASSUME LimiterInv, LimiterTick PROVE LimiterInv'
<1>1. /\ UNCHANGED <<rate, hashing, queued, bare, passed>> /\ tick' = tick + 1
      /\ tick \in 0..MaxTick /\ tick' \in 0..MaxTick /\ rate \in [Key -> Opened \cup {NoRate}]
  BY LimitsAreNatural DEF LimiterTick, LimiterInv, LimiterTypeOK, Opened
<1>2. LimiterTypeOK' /\ SlotsHold' /\ Rated' = Rated
  BY <1>1 DEF LimiterInv, LimiterTypeOK, SlotsHold, Rated
<1>3. ASSUME NEW x \in Key PROVE (Numbered(x) /\ Tells(x, rate[x]) /\ Spans(x))'
  <2>1. Numbered(x) /\ Tells(x, rate[x]) /\ Spans(x) /\ LimiterTypeOK
    BY DEF LimiterInv
  <2>2. \A e \in passed[x] : e[1] \in 0..MaxTick
    BY <2>1, PassedIsTyped
  <2>3. \A from, to : Between(x, from, to)' = Between(x, from, to)
    BY <1>1 DEF Between
  <2>4. Numbered(x)'
    BY <1>1, <2>1, <2>2 DEF Numbered
  <2>5. Spans(x)'
    BY <2>1, <2>3 DEF Spans
  <2>6. CASE rate[x] # NoRate
    <3>1. rate[x] \in Opened /\ rate'[x] = rate[x]
      BY <1>1, <2>6
    <3> QED
      BY <1>1, <2>1, <2>3, <2>4, <2>5, <2>6, <3>1 DEF Tells, Opened
  <2>7. CASE rate[x] = NoRate
    <3> DEFINE later == Between(x, tick' - Window + 1, tick')
               lately == Between(x, tick - Window + 1, tick)
    <3>1. \A e \in passed[x] : e[1] < tick
      BY <2>1, <2>7 DEF Tells
    <3>2. Cardinality(lately) <= Limit
      BY <2>1, <2>7 DEF Tells
    <3>3. later \subseteq lately
      BY <1>1, <2>2, <3>1, LimitsAreNatural DEF Between
    <3>4. Cardinality(later) <= Cardinality(lately) /\ Cardinality(later) \in Nat /\ Cardinality(lately) \in Nat
      BY <2>1, <3>3, SpanIsFinite, CountsWithin
    <3>5. Cardinality(later) <= Limit
      BY <3>2, <3>4, LimitsAreNatural
    <3>6. \A e \in passed'[x] : e[1] < tick'
      BY <1>1, <2>2, <3>1
    <3>7. Cardinality(Between(x, tick - Window + 1, tick)') <= Limit
      BY <1>1, <2>3, <3>5
    <3> QED
      BY <1>1, <2>4, <2>5, <2>7, <3>6, <3>7 DEF Tells
  <2> QED
    BY <2>6, <2>7
<1> QED
  BY <1>1, <1>2, <1>3 DEF LimiterInv

LEMMA LimiterInitially == LimiterInit => LimiterInv
<1> SUFFICES ASSUME LimiterInit PROVE LimiterInv
  OBVIOUS
<1>1. /\ tick = 0 /\ hashing = {} /\ queued = {} /\ bare = {} /\ Rated = {}
      /\ \A k \in Key : rate[k] = NoRate /\ passed[k] = {}
  BY DEF LimiterInit, Rated
<1>2. IsFiniteSet({}) /\ Cardinality({}) = 0
  BY FS_EmptySet
<1>3. LimiterTypeOK /\ SlotsHold
  BY <1>1, <1>2, LimitsAreNatural DEF LimiterInit, LimiterTypeOK, SlotsHold
<1>4. ASSUME NEW k \in Key PROVE Numbered(k) /\ Tells(k, rate[k]) /\ Spans(k)
  <2>1. \A from, to : Between(k, from, to) = {}
    BY <1>1 DEF Between
  <2>2. Numbered(k)
    BY <1>1, <1>2 DEF Numbered
  <2>3. Spans(k)
    BY <1>2, <2>1, LimitsAreNatural DEF Spans
  <2>4. Tells(k, rate[k])
    <3>1. rate[k] = NoRate /\ passed[k] = {} /\ \A from, to : Cardinality(Between(k, from, to)) = 0
      BY <1>1, <1>2, <2>1
    <3> QED BY <3>1, LimitsAreNatural DEF Tells
  <2> QED
    BY <2>2, <2>3, <2>4
<1> QED
  BY <1>1, <1>2, <1>3, <1>4 DEF LimiterInv

LEMMA LimiterStep == LimiterInv /\ [LimiterNext]_limiterVars => LimiterInv'
<1> SUFFICES ASSUME LimiterInv, [LimiterNext]_limiterVars PROVE LimiterInv'
  OBVIOUS
<1>1. CASE UNCHANGED limiterVars
  <2>1. UNCHANGED <<tick, rate, hashing, queued, bare, passed>>
    BY <1>1 DEF limiterVars
  <2>2. SlotsHold'
    BY <2>1, SlotsAre DEF SlotsHold
  <2> QED
    BY <2>1, <2>2, SlotsAre, WindowsStand
<1>2. CASE LimiterNext
  BY <1>2, AllowRateKeeps, TakeSlotKeeps, GiveSlotBackKeeps, OthersTakeNone, LimiterTickKeeps, Zenon
  DEF LimiterNext
<1> QED
  BY <1>1, <1>2

\* However its requests are timed and however often the table was full and swept,
\* a key passes at most twice its limit in any span of a window (allowRate), and no
\* more passwords are verified or registered at a time than there are slots, while
\* others are hashed without one: for any number of keys and any limits.
THEOREM BurstsStayBounded == LimiterSpec => []BurstIsBounded
<1>1. LimiterInv => BurstIsBounded
  BY DEF LimiterInv, BurstIsBounded, Spans
<1> QED
  BY <1>1, LimiterInitially, LimiterStep, PTL DEF LimiterSpec
====
