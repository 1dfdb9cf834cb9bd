----------------------------- MODULE Workspace -----------------------------
(***************************************************************************)
(* Changes of files by the engine (internal/engine/files.go and             *)
(* path_secure_linux.go).  Calls run side by side, name the content they     *)
(* expect by its SHA-256, and swap names atomically so that what somebody    *)
(* else wrote meanwhile can be put back.  Other programs use the same files. *)
(***************************************************************************)
EXTENDS Integers

CONSTANTS
  Path,    \* names in a directory that callers use
  Call,    \* calls; each has a private name in the directory as well
  MaxVer,  \* bound: contents ever written
  NoFile   \* an unused name

ASSUME MaxVerAssumption == MaxVer \in Nat \ {0}

VARIABLES
  dir,        \* the directory: the file under each name
  fresh,      \* the next content; contents are told apart by their hashes
  call,       \* per call, what it is asked and where it is
  disturbed,  \* history: calls whose names somebody changed after their swap
  lost,       \* history: contents destroyed by a call that did not expect them
  denied,     \* history: contents of calls that ended in an error
  effective   \* history: those of them that were in effect by then

wsVars == <<dir, fresh, call, disturbed, lost, denied, effective>>

Ver  == 1..MaxVer
Name == Path \cup Call
\* id is the inode; appending changes ver and not id.
File == [id : Ver, ver : Ver]
ASSUME NamesAssumption == Path # {} /\ Path \cap Call = {} /\ NoFile \notin Path \cup Call \cup File

Kind == {"write", "create", "append", "delete", "move", "replace"}
Stage == {"idle", "begin", "staged", "commit", "swapped", "verified", "restore", "discard", "checked", "opened"}

\* ver is what the call expects at path, old at the destination to; own is new.
NoCall == [at |-> "idle", kind |-> "write", path |-> CHOOSE p \in Path : TRUE,
           to |-> CHOOSE p \in Path : TRUE, ver |-> 0, old |-> 0, own |-> 0]

WorkspaceTypeOK ==
  /\ dir \in [Name -> File \cup {NoFile}] /\ fresh \in 1..(MaxVer + 1)
  /\ call \in [Call -> [at : Stage, kind : Kind, path : Path, to : Path,
                        ver : 0..MaxVer, old : 0..MaxVer, own : 0..MaxVer]]
  /\ disturbed \subseteq Call /\ lost \subseteq [by : Kind, ver : Ver]
  /\ denied \subseteq Ver /\ effective \subseteq Ver

WorkspaceInit ==
  /\ dir = [n \in Name |-> NoFile] /\ fresh = 1
  /\ call = [c \in Call |-> NoCall]
  /\ disturbed = {} /\ lost = {} /\ denied = {} /\ effective = {}

-----------------------------------------------------------------------------
Has(n, v)  == dir[n] # NoFile /\ dir[n].ver = v
New        == [id |-> fresh, ver |-> fresh]
Swapped    == {"swapped", "verified", "restore", "discard"}
Uses(c)    == {c, call[c].path, call[c].to}

\* Whoever changes names disturbs the calls that have swapped theirs.
Disturb(x, names) ==
  disturbed' = {c \in disturbed : call[c].at # "idle"} \cup
    {c \in Call \ {x} : call[c].at \in Swapped /\ names \cap Uses(c) # {}}

CallAt(c, at) == call' = [call EXCEPT ![c].at = at]
EndCall(c)    == call' = [call EXCEPT ![c] = NoCall]
\* A call that reports an error, before its change took effect or after that: the
\* content v is left behind.
DenyCall(c) ==
  /\ EndCall(c)
  /\ denied' = denied \cup (IF c \in disturbed THEN {} ELSE {call[c].own} \ {0})
  /\ UNCHANGED effective
DenyLate(c, v) ==
  /\ EndCall(c)
  /\ denied' = denied \cup ({v} \ {0}) /\ effective' = effective \cup ({v} \ {0})
Reported == UNCHANGED <<denied, effective>>
\* The last step, syncing the directory, may fail when all is done.
Concludes(c) == (EndCall(c) /\ Reported) \/ DenyLate(c, call[c].own)

\* c destroys what is under a name; it may do so with what it was told to expect
\* and with what it brought itself.
Destroy(c, n) ==
  LET s == call[c] IN
  lost' = IF dir[n] = NoFile \/ dir[n].ver \in {s.ver, s.old, s.own} \/ c \in disturbed
            THEN lost ELSE lost \cup {[by |-> s.kind, ver |-> dir[n].ver]}
Kept == UNCHANGED lost /\ Reported

Swap(a, b) == [n \in Name |-> IF n = a THEN dir[b] ELSE IF n = b THEN dir[a] ELSE dir[n]]
Drop(n)    == [dir EXCEPT ![n] = NoFile]

-----------------------------------------------------------------------------
(* Other programs: they replace a file, or remove it.                      *)

Edit(p) ==
  /\ fresh <= MaxVer /\ fresh' = fresh + 1
  /\ dir' = [dir EXCEPT ![p] = New]
  /\ Disturb(NoFile, {p}) /\ UNCHANGED call /\ Kept

Remove(p) ==
  /\ dir[p] # NoFile /\ dir' = Drop(p)
  /\ Disturb(NoFile, {p}) /\ UNCHANGED <<call, fresh>> /\ Kept

-----------------------------------------------------------------------------
(* Calls.  What the client expects it has read before, from any content.    *)

BeginCall(c, kind) ==
  /\ call[c].at = "idle" /\ dir[c] = NoFile
  /\ \E p, q \in Path, v, w \in 1..(fresh - 1) :
       /\ kind \in {"move", "replace"} <=> p # q
       /\ call' = [call EXCEPT ![c] =
            [NoCall EXCEPT !.at = "begin", !.kind = kind, !.path = p, !.to = q,
                           !.ver = IF kind = "create" THEN 0 ELSE v,
                           !.old = IF kind = "replace" THEN w ELSE 0]]
  /\ disturbed' = disturbed \ {c}
  /\ UNCHANGED <<dir, fresh>> /\ Kept

\* The context is canceled, a check fails or the disk is full before any name
\* was changed but the temporary one, which is removed.  What an append has created
\* stays.
Abandon(c) ==
  /\ call[c].at \in {"begin", "staged", "commit", "checked", "opened"}
  /\ dir' = IF call[c].kind \in {"write", "create"} THEN Drop(c) ELSE dir
  /\ IF call[c].kind = "append" THEN DenyLate(c, call[c].own) ELSE DenyCall(c)
  /\ UNCHANGED <<fresh, disturbed, lost>>

\* fs_write and fs_patch write a temporary file.  Without an expected hash the
\* target must not exist.
Stage1(c) ==
  /\ call[c].at = "begin" /\ call[c].kind \in {"write", "create"} /\ fresh <= MaxVer
  /\ call[c].kind = "create" => dir[call[c].path] = NoFile
  /\ fresh' = fresh + 1 /\ dir' = [dir EXCEPT ![c] = New]
  /\ call' = [call EXCEPT ![c] = [@ EXCEPT !.at = "staged", !.own = fresh]]
  /\ UNCHANGED disturbed /\ Kept

\* verifyRegularAt of the target, for a move of the source and the destination.
Check(c) ==
  LET s == call[c] IN
  /\ \/ s.at = "staged" /\ s.kind = "write"
     \/ s.at = "begin" /\ s.kind \in {"delete", "move", "replace"}
  /\ Has(s.path, s.ver)
  /\ s.kind = "move" => dir[s.to] = NoFile
  /\ s.kind = "replace" => Has(s.to, s.old)
  /\ CallAt(c, "commit")
  /\ UNCHANGED <<dir, fresh, disturbed>> /\ Kept

\* secureAtomicWrite: the rename replaces what is there by now, whatever it is.
CreateCommit(c) ==
  /\ call[c].at = "staged" /\ call[c].kind = "create"
  /\ dir' = [Swap(c, call[c].path) EXCEPT ![c] = NoFile]
  /\ Destroy(c, call[c].path) /\ Concludes(c)
  /\ Disturb(c, {call[c].path}) /\ UNCHANGED fresh

\* A write swaps the private name and the path, an overwriting move the source
\* and the destination (RENAME_EXCHANGE).  A delete moves the path to the private
\* name, a move to a new name moves the source (RENAME_NOREPLACE).
From(c) == IF call[c].kind = "write" THEN c ELSE call[c].path
To(c)   == CASE call[c].kind = "write"  -> call[c].path
             [] call[c].kind = "delete" -> c
             [] OTHER                   -> call[c].to
Exchanges(c) == call[c].kind \in {"write", "replace"}
Possible(c, from, to) == dir[from] # NoFile /\ ((dir[to] # NoFile) <=> Exchanges(c))

CommitSwap(c) ==
  /\ call[c].at = "commit" /\ Possible(c, From(c), To(c))
  /\ dir' = Swap(From(c), To(c)) /\ CallAt(c, "swapped")
  /\ Disturb(c, {From(c), To(c)}) /\ UNCHANGED fresh /\ Kept

\* Variant: what was checked before the swap is taken for what was displaced.
AsChecked(c) == TRUE

\* Now that nobody can displace it by accident, what was displaced is hashed.
AsExpected(c) ==
  LET s == call[c] IN
  CASE s.kind \in {"write", "delete"} -> Has(c, s.ver)
    [] s.kind = "move"                -> Has(s.to, s.ver)
    [] OTHER                          -> Has(s.to, s.ver) /\ Has(s.path, s.old)

VerifyMatches(c) ==
  /\ call[c].at = "swapped" /\ AsExpected(c)
  /\ IF call[c].kind = "move" THEN Concludes(c) ELSE CallAt(c, "verified") /\ Reported
  /\ UNCHANGED <<dir, fresh, disturbed, lost>>

\* It is not what was expected, the context is canceled, or it cannot be read.
VerifyFails(c) ==
  /\ call[c].at = "swapped" /\ CallAt(c, "restore")
  /\ UNCHANGED <<dir, fresh, disturbed>> /\ Kept

\* Removing what was displaced fails.  A write reports that, after it has taken
\* effect and with the displaced file under the private name.
RemoveFails(c) ==
  /\ call[c].at = "verified"
  /\ IF call[c].kind = "write" THEN DenyLate(c, call[c].own) ELSE CallAt(c, "restore") /\ Reported
  /\ UNCHANGED <<dir, fresh, disturbed, lost>>

\* What was displaced is removed: the change is done.
Spare(c) == IF call[c].kind = "replace" THEN call[c].path ELSE c
Complete(c) ==
  /\ call[c].at = "verified"
  /\ Destroy(c, Spare(c)) /\ dir' = Drop(Spare(c))
  /\ Disturb(c, {Spare(c)}) /\ Concludes(c) /\ UNCHANGED fresh

\* The swap is undone, and a temporary file is removed afterwards.
Restore(c) ==
  /\ call[c].at = "restore" /\ Possible(c, To(c), From(c))
  /\ dir' = Swap(From(c), To(c)) /\ Disturb(c, {From(c), To(c)})
  /\ IF call[c].kind = "write" THEN CallAt(c, "discard") /\ Reported ELSE DenyCall(c)
  /\ UNCHANGED <<fresh, lost>>

Discard(c) ==
  /\ call[c].at = "discard"
  /\ Destroy(c, c) /\ dir' = Drop(c) /\ DenyCall(c)
  /\ UNCHANGED <<fresh, disturbed>>

\* A name is missing or taken by now: the displaced file stays where it is.
RestoreFails(c) ==
  /\ call[c].at = "restore" /\ ~Possible(c, To(c), From(c))
  /\ DenyCall(c) /\ UNCHANGED <<dir, fresh, disturbed, lost>>

\* fs_write append: an existing file is checked, the path is opened or created,
\* and the file that was opened is extended under whatever name it has by then.
AppendCheck(c) ==
  LET p == call[c].path IN
  /\ call[c].at = "begin" /\ call[c].kind = "append"
  /\ dir[p] = NoFile \/ Has(p, call[c].ver)
  /\ CallAt(c, "checked")
  /\ UNCHANGED <<dir, fresh, disturbed>> /\ Kept

AppendOpen(c) ==
  LET p == call[c].path IN
  /\ call[c].at = "checked"
  /\ \/ /\ dir[p] # NoFile
        /\ call' = [call EXCEPT ![c] = [@ EXCEPT !.at = "opened", !.old = dir[p].id]]
        /\ UNCHANGED <<dir, fresh, disturbed>>
     \/ /\ dir[p] = NoFile /\ fresh <= MaxVer
        /\ call' = [call EXCEPT ![c] = [@ EXCEPT !.at = "opened", !.old = fresh, !.own = fresh]]
        /\ dir' = [dir EXCEPT ![p] = New] /\ fresh' = fresh + 1
        /\ Disturb(c, {p})
  /\ Kept

\* All of it is written, or a part and then the write fails: that part stays.
AppendWrite(c) ==
  LET opened == {n \in Name : dir[n] # NoFile /\ dir[n].id = call[c].old} IN
  /\ call[c].at = "opened" /\ fresh <= MaxVer /\ fresh' = fresh + 1
  /\ dir' = [n \in Name |-> IF n \in opened THEN [dir[n] EXCEPT !.ver = fresh] ELSE dir[n]]
  /\ Disturb(c, opened) /\ UNCHANGED lost
  /\ (EndCall(c) /\ Reported) \/ DenyLate(c, fresh)

\* The Agent dies: its calls end where they are.
WorkspaceCrash ==
  /\ \E c \in Call : call[c].at # "idle"
  /\ call' = [c \in Call |-> NoCall]
  /\ UNCHANGED <<dir, fresh, disturbed>> /\ Kept

Advance(c) ==
  \/ Abandon(c) \/ Stage1(c) \/ Check(c) \/ CreateCommit(c) \/ CommitSwap(c)
  \/ VerifyMatches(c) \/ VerifyFails(c) \/ Complete(c) \/ Restore(c) \/ Discard(c)
  \/ RestoreFails(c) \/ RemoveFails(c) \/ AppendCheck(c) \/ AppendOpen(c) \/ AppendWrite(c)

WorkspaceNext ==
  \/ \E p \in Path : Edit(p) \/ Remove(p)
  \/ \E c \in Call : (\E k \in Kind : BeginCall(c, k)) \/ Advance(c)
  \/ WorkspaceCrash

WorkspaceSpec == WorkspaceInit /\ [][WorkspaceNext]_wsVars
-----------------------------------------------------------------------------
\* What another program or another call wrote is never destroyed by a call that
\* expected something else, however late it was written: only a call whose names
\* are changed again between its swap and its end can do that, and one that creates
\* a file, whose rename replaces what appeared at the name since it looked.
NothingIsLost == \A l \in lost : l.by = "create"

\* What a call wrote that reports an error is not left behind, on the first of these
\* conditions, unless the change was complete by then: its last sync or the removal
\* of what it displaced failed, or it is an append, which undoes nothing.
DeniedIsGone == \A v \in denied \ effective, n \in Name : ~Has(n, v)

\* Changes that name the content they expect are safe beside other changes, a
\* canceled context and a crash.
FilesHold == WorkspaceTypeOK /\ NothingIsLost /\ DeniedIsGone
=============================================================================
