------------------------------ MODULE UniqueUI ------------------------------
(***************************************************************************)
(* Semantic calls on the desktop (internal/engine/accessibility.go): invoke, *)
(* get text and set text walk the tree of accessible elements node by node   *)
(* within bounds, demand that exactly one matches the selector, and act on    *)
(* it.  Applications change their elements meanwhile, and a read that fails    *)
(* or takes longer than a quarter of a second counts as an empty answer.      *)
(***************************************************************************)
EXTENDS Naturals, Sequences, FiniteSets

CONSTANTS
  MaxNode,   \* elements of the tree, numbered in the order of a full walk
  UiBounds   \* the pairs <<max_depth, max_nodes>> that callers give

ASSUME MaxNodeAssumption == MaxNode \in Nat \ {0}
ASSUME UiBoundsAssumption == UiBounds \subseteq Nat \X Nat

VARIABLES
  parentOf,   \* the parent of each element, 0 for that of an application
  matching,   \* elements that match the selector and its required states
  bounds,     \* <<max_depth, max_nodes>>
  waits,      \* timeout_ms was given
  deadline,   \* the context: "live", "expired" or "canceled"
  walk,       \* "idle", "walk", "judge", "poll", "act" or "done"
  todo,       \* elements the walk has still to enter, the next one first
  visited,    \* how many it has visited
  found,      \* those that matched when they were visited
  cut,        \* walker.truncated
  status,     \* what the call answers
  seen,       \* history: the elements it has visited
  acted,      \* history: the element acted on, 0 for none
  calm,       \* history: nothing changed since this walk began
  whole       \* history: this walk was shown every element as it is

uiVars == <<parentOf, matching, bounds, waits, deadline, walk, todo, visited, found, cut, status, seen, acted, calm, whole>>

Element == 1..MaxNode
Tree    == {f \in [Element -> 0..MaxNode] : \A n \in Element : f[n] < n}
Status  == {"none", "search_incomplete", "ambiguous", "ready", "not_found", "timeout", "ok", "failed"}

UniqueUITypeOK ==
  /\ parentOf \in Tree /\ matching \subseteq Element
  /\ bounds \in UiBounds /\ waits \in BOOLEAN
  /\ deadline \in {"live", "expired", "canceled"}
  /\ walk \in {"idle", "walk", "judge", "poll", "act", "done"}
  /\ \A i \in 1..Len(todo) : todo[i] \in Element
  /\ visited \in 0..MaxNode /\ found \subseteq Element /\ cut \in BOOLEAN
  /\ status \in Status /\ seen \subseteq Element /\ acted \in 0..MaxNode
  /\ calm \in BOOLEAN /\ whole \in BOOLEAN

Below[n \in 0..MaxNode] == {m \in Element : parentOf[m] = n}
Depth[n \in Element]    == IF parentOf[n] = 0 THEN 0 ELSE Depth[parentOf[n]] + 1
\* The children of an element in their order.
InOrder(S) == [i \in 1..Cardinality(S) |-> CHOOSE n \in S : Cardinality({m \in S : m < n}) = i - 1]

UniqueUIInit ==
  /\ parentOf \in Tree /\ matching \in SUBSET Element
  /\ bounds \in UiBounds /\ waits \in BOOLEAN
  /\ deadline = "live" /\ walk = "idle" /\ todo = <<>>
  /\ visited = 0 /\ found = {} /\ cut = FALSE
  /\ status = "none" /\ seen = {} /\ acted = 0 /\ calm = TRUE /\ whole = TRUE

asked == <<parentOf, matching, bounds, waits>>

-----------------------------------------------------------------------------
(* Applications and the clock.                                             *)

\* Bound: once during a walk.
ElementChanges(n) ==
  /\ walk \notin {"idle", "done"} /\ calm
  /\ matching' = IF n \in matching THEN matching \ {n} ELSE matching \cup {n}
  /\ calm' = FALSE
  /\ UNCHANGED <<parentOf, bounds, waits, deadline, walk, todo, visited, found, cut, status, seen, acted, whole>>

ContextEnds ==
  /\ walk \notin {"idle", "done"} /\ deadline = "live"
  /\ deadline' \in {"expired", "canceled"}
  /\ UNCHANGED <<asked, walk, todo, visited, found, cut, status, seen, acted, calm, whole>>

-----------------------------------------------------------------------------
\* A walk begins with the roots.
StartWalk ==
  /\ walk \in {"idle", "poll"}
  /\ walk' = "walk" /\ todo' = InOrder(Below[0])
  /\ visited' = 0 /\ found' = {} /\ cut' = FALSE /\ calm' = TRUE /\ whole' = TRUE
  /\ seen' = {}
  /\ UNCHANGED <<asked, deadline, status, acted>>

\* The walk of resolveUniqueUI stops at the second match.
Enough(S) == Cardinality(S) >= 2

\* Element n is visited, is seen to match or not, and shows these children.  Where
\* max_nodes is used up only an element that shows children marks the walk as
\* truncated; elements below max_depth are passed over.
See(n, hit, kids) ==
  LET full == visited + 1 >= bounds[2] IN
  /\ visited' = visited + 1 /\ seen' = seen \cup {n}
  /\ found' = IF hit THEN found \cup {n} ELSE found
  /\ cut' = (cut \/ Enough(found') \/ (full /\ kids # {}))
  /\ todo' = IF Enough(found') \/ full THEN <<>>
             ELSE (IF Depth[n] < bounds[1] THEN InOrder(kids) ELSE <<>>) \o Tail(todo)
  /\ whole' = (whole /\ (n \in matching => hit) /\ kids = Below[n])

\* What cannot be read of an element is empty: it does not match, or shows no
\* children, as one that manages its descendants never does.
Visit ==
  /\ walk = "walk" /\ todo # <<>> /\ deadline = "live"
  /\ visited < bounds[2] /\ ~Enough(found)
  /\ \E hit \in BOOLEAN, kids \in {Below[Head(todo)], {}} :
       (hit => Head(todo) \in matching) /\ See(Head(todo), hit, kids)
  /\ UNCHANGED <<asked, deadline, walk, status, acted, calm>>

\* An application whose name cannot be read is not the one asked for.
PassOver ==
  /\ walk = "walk" /\ todo # <<>> /\ deadline = "live" /\ parentOf[Head(todo)] = 0
  /\ todo' = Tail(todo) /\ whole' = FALSE
  /\ UNCHANGED <<asked, deadline, walk, visited, found, cut, status, seen, acted, calm>>

\* All is visited, or the context has ended.  Only a deadline is remembered.
WalkEnds ==
  /\ walk = "walk" /\ (todo = <<>> \/ deadline # "live")
  /\ walk' = "judge" /\ todo' = <<>>
  /\ cut' = (cut \/ deadline = "expired")
  /\ UNCHANGED <<asked, deadline, visited, found, status, seen, acted, calm, whole>>

\* The roots cannot be listed.
WalkFails ==
  /\ walk = "walk" /\ visited = 0
  /\ walk' = "done" /\ todo' = <<>>
  /\ status' = IF deadline = "expired" THEN "timeout" ELSE "failed"
  /\ UNCHANGED <<asked, deadline, visited, found, cut, seen, acted, calm, whole>>

Verdict(answer) == status' = answer /\ walk' = IF answer = "ready" THEN "act" ELSE "done"

\* Variant: one match is enough although the walk was cut short.
JudgeHasty ==
  /\ walk = "judge" /\ found # {}
  /\ Verdict(IF Enough(found) THEN "ambiguous" ELSE "ready")
  /\ UNCHANGED <<asked, deadline, todo, visited, found, cut, seen, acted, calm, whole>>

Judge ==
  /\ walk = "judge" /\ (found # {} \/ cut)
  /\ Verdict(IF Enough(found) THEN "ambiguous" ELSE IF cut THEN "search_incomplete" ELSE "ready")
  /\ UNCHANGED <<asked, deadline, todo, visited, found, cut, seen, acted, calm, whole>>

\* No match: with timeout_ms the tree is walked again until the context ends.
NoMatch ==
  /\ walk = "judge" /\ found = {} /\ ~cut
  /\ \/ ~waits /\ Verdict("not_found")
     \/ waits /\ deadline # "live" /\ Verdict("timeout")
     \/ waits /\ walk' = "poll" /\ UNCHANGED status
  /\ UNCHANGED <<asked, deadline, todo, visited, found, cut, seen, acted, calm, whole>>

PollTimesOut ==
  /\ walk = "poll" /\ deadline # "live" /\ Verdict("timeout")
  /\ UNCHANGED <<asked, deadline, todo, visited, found, cut, seen, acted, calm, whole>>

\* The element that was found is acted on, whatever it has become.
Act ==
  /\ walk = "act" /\ deadline = "live"
  /\ acted' = CHOOSE n \in found : TRUE
  /\ status' \in {"ok", "failed"} /\ walk' = "done"
  /\ UNCHANGED <<asked, deadline, todo, visited, found, cut, seen, calm, whole>>

\* It has no such action, or it is too late.
ActFails ==
  /\ walk = "act" /\ status' = "failed" /\ walk' = "done"
  /\ UNCHANGED <<asked, deadline, todo, visited, found, cut, seen, acted, calm, whole>>

UniqueUINext ==
  \/ (\E n \in Element : ElementChanges(n)) \/ ContextEnds
  \/ StartWalk \/ Visit \/ PassOver \/ WalkEnds \/ WalkFails
  \/ Judge \/ NoMatch \/ PollTimesOut \/ Act \/ ActFails

UniqueUISpec == UniqueUIInit /\ [][UniqueUINext]_uiVars

-----------------------------------------------------------------------------
\* The whole tree is within the bounds of the call.
Fits == MaxNode <= bounds[2] /\ \A n \in Element : Depth[n] <= bounds[1]

\* Nothing changed from the first visit on, every read of this walk was answered and
\* no element kept its children back: an element was acted on only if it is the one
\* that matches, the other calls were told the truth.  Without that a walk may take
\* the one match it is shown for the only one, and does not say it was cut short.
SelectionIsExact ==
  calm /\ whole /\ Fits =>
    /\ acted # 0 => matching = {acted}
    /\ status = "ambiguous" => Cardinality(matching) > 1
    /\ status = "not_found" /\ deadline = "live" => matching = {}

\* An element that is acted on matched when it was visited, and is the only one
\* this walk found.
ActsOnFound == acted # 0 => found = {acted} /\ ~cut

\* Semantic calls act on the element their selector names, or not at all.
SelectionHolds == UniqueUITypeOK /\ SelectionIsExact /\ ActsOnFound

\* What docs/computer-use.md and the message of search_incomplete say: an
\* incomplete search fails, so that an element acted on is the only match, the
\* bounds of the call notwithstanding.  Every element is shown as it is.
InvokedIsUnique == calm /\ whole /\ acted # 0 => matching = {acted}
=============================================================================
