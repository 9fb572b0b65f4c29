--------------------------- MODULE ResourcePager ---------------------------
(***************************************************************************)
(* components/ResourceTree.tsx: one resource type of the tree, a page of   *)
(* its resources and their count.  Both are fetched whenever a control     *)
(* they depend on changes (Solid's createResource), each through a         *)
(* LatestRequest (api.ts) that aborts the request before it; what arrives  *)
(* is displayed by effects, under the cursors and the size of that moment. *)
(* An action is an event and the signals and effects it sets off.          *)
(* A scope stands for subject, permission, basis and consistency.          *)
(***************************************************************************)
EXTENDS Integers, Sequences, FiniteSets

CONSTANTS
    Scopes,
    Supported,      \* scopes whose permission is defined for the type
    Total,          \* resources of the type in each scope
    Sizes,          \* page sizes
    InitialLimit,   \* the count limit to begin with (1,000 in the code)
    MaximumLimit,   \* and its maximum (30,000 in the code)
    Depth,          \* bound: pages turned to
    Overtaken       \* bound: superseded lookups still on their way

ASSUME PagerAssumption ==
    /\ Supported \subseteq Scopes /\ Total \in [Scopes -> Nat]
    /\ Sizes \subseteq Nat \ {0}
    /\ InitialLimit \in Nat \ {0} /\ MaximumLimit \in Nat /\ InitialLimit <= MaximumLimit

VARIABLES
    scope, size, open, cursors, limit,  \* the controls
    page, count,                        \* the resources: asked, value, error
    label,                              \* cursors and size the page is shown under
    observed,                           \* the farthest row seen of a scope
    late                                \* lookups that were superseded
controls == <<scope, size, open, cursors, limit>>
vars == <<controls, page, count, label, observed, late>>

Smaller(a, b) == IF a < b THEN a ELSE b
Larger(a, b) == IF a > b THEN a ELSE b

\* What /lookup-resources and /count-resources answer; a cursor names the row
\* before its page.
Rows(r) == LET items == Smaller(r.size, Total[r.scope] - r.after)
           IN [scope |-> r.scope, from |-> r.after, items |-> items,
               end |-> r.depth * r.size + items,
               more |-> r.after + items < Total[r.scope]]
Counted(r) == [scope |-> r.scope, value |-> Smaller(Total[r.scope], r.limit),
               truncated |-> Total[r.scope] > r.limit]

LookupAt(cs) == [scope |-> scope, size |-> size, depth |-> Len(cs),
                 after |-> IF cs = <<>> THEN 0 ELSE cs[Len(cs)]]
Lookup == LookupAt(cursors)
Tally == [scope |-> scope, limit |-> limit]
SettledPage == {v \in page.value : v.scope = scope}
SettledCount == {v \in count.value : v.scope = scope}

\* The sources of the two resources: the count waits for a page of its scope.
PageSource == open /\ scope \in Supported
CountSource == PageSource /\ SettledPage # {}

Fetch(resource, source, request) ==
    IF source THEN [resource EXCEPT !.asked = {request}]
    ELSE [resource EXCEPT !.asked = {}, !.error = "none"]
\* A reload that begins with an empty page.
LoadPageAfresh ==
    page' = [Fetch(page, PageSource', Lookup') EXCEPT !.value = {}]
LoadPage == page' = Fetch(page, PageSource', Lookup')
LoadCount == count' = Fetch(count, CountSource', Tally')
\* A superseded lookup is aborted: it rejects at once or is still on its way.  (The
\* counts that were superseded are left out, they are dropped in the same way.)
Overtake(requests) ==
    late' \in {l \in SUBSET (late \cup requests) : Cardinality(l) <= Overtaken}

\* The effect that displays the page, whenever it, the cursors or the size change.
Display ==
    label' = IF page'.asked = {} /\ page'.error = "none" /\ page'.value # {}
             THEN [cursors |-> cursors', size |-> size'] ELSE label

Empty == [asked |-> {}, value |-> {}, error |-> "none"]
Init ==
    /\ scope \in Scopes /\ size \in Sizes /\ open \in BOOLEAN
    /\ cursors = <<>> /\ limit = InitialLimit
    /\ page = Fetch(Empty, PageSource, Lookup) /\ count = Empty
    /\ label = [cursors |-> <<>>, size |-> size]
    /\ observed = [scope |-> scope, end |-> 0] /\ late = {}

Toggle ==
    /\ open' = ~open /\ UNCHANGED <<scope, size, cursors, limit, observed>>
    /\ LoadPage /\ LoadCount /\ Display
    /\ Overtake(page.asked)

\* The load of the changed controls begins before an effect resets the cursors.
StaleLookup(s, z) ==
    IF open /\ s \in Supported /\ cursors # <<>>
    THEN {[LookupAt(cursors) EXCEPT !.scope = s, !.size = z]} ELSE {}
SetScope(s) ==
    /\ s # scope /\ scope' = s
    /\ cursors' = <<>> /\ limit' = InitialLimit
    /\ UNCHANGED <<size, open, observed>>
    /\ LoadPage /\ LoadCount /\ Display
    /\ Overtake(page.asked \cup StaleLookup(s, size))

SetSize(z) ==
    /\ z # size /\ size' = z /\ cursors' = <<>>
    /\ UNCHANGED <<scope, open, limit, count, observed>>
    /\ LoadPage /\ Display
    /\ Overtake(page.asked \cup StaleLookup(scope, z))

\* A snapshot of the same basis (basisGeneration).
RefreshSnapshot ==
    /\ cursors' = <<>> /\ UNCHANGED <<scope, size, open, limit, observed>>
    /\ LoadPage /\ LoadCount /\ Display
    /\ Overtake(page.asked \cup StaleLookup(scope, size))

\* requery() and the two cache switches.
Requery ==
    /\ UNCHANGED <<controls, observed>>
    /\ LoadPage /\ LoadCount /\ Display
    /\ Overtake(page.asked)

NavigatePage(cs) ==
    /\ page.asked = {} /\ open
    /\ cursors' = cs /\ Len(cs) <= Depth
    /\ UNCHANGED <<scope, size, open, limit, count, observed, late>>
    /\ LoadPage /\ Display
Earlier == SubSeq(label.cursors, 1, Len(label.cursors) - 1)
NextPage == \E v \in SettledPage :
    v.more /\ NavigatePage(Append(label.cursors, v.from + v.items))
PreviousPage ==
    /\ SettledPage # {} /\ label.cursors # <<>>
    /\ NavigatePage(Earlier) \/ NavigatePage(<<>>)

\* The buttons of an error: a first page after an invalid cursor, else the one before.
RecoverPage ==
    /\ cursors # <<>>
    /\ \/ page.error = "invalid-cursor" /\ NavigatePage(<<>>)
       \/ page.error = "failed"
          /\ NavigatePage(IF label.cursors = <<>> THEN <<>> ELSE Earlier)
RetryPage ==
    /\ page.error # "none" /\ open /\ UNCHANGED <<controls, count, observed>>
    /\ LoadPage /\ Display /\ Overtake(page.asked)
RetryCount ==
    /\ count.error # "none" /\ open /\ UNCHANGED <<controls, page, label, observed, late>>
    /\ LoadCount
IncreaseCount ==
    /\ count.asked = {} /\ limit < MaximumLimit
    /\ \E v \in SettledCount : v.truncated
    /\ limit' = Smaller(MaximumLimit, limit * 2)
    /\ UNCHANGED <<scope, size, open, cursors, page, label, observed, late>>
    /\ LoadCount

\* The answer to the newest request of each kind.
Arrives(r) ==
    /\ page' = [asked |-> {}, value |-> {Rows(r)}, error |-> "none"]
    /\ Display
    /\ observed' = [scope |-> r.scope,
                    end |-> IF observed.scope = r.scope THEN Larger(observed.end, Rows(r).end)
                            ELSE Rows(r).end]
\* The count is asked for once.
PageAnswersUncounted == \E r \in page.asked :
    UNCHANGED <<controls, late>> /\ Arrives(r)
    /\ IF count.value = {} THEN LoadCount ELSE UNCHANGED count
PageAnswers == \E r \in page.asked :
    /\ UNCHANGED <<controls, late>> /\ Arrives(r)
    /\ IF \E v \in page.value : v.scope = r.scope THEN UNCHANGED count ELSE LoadCount
PageFails == page.asked # {} /\ \E e \in {"invalid-cursor", "failed"} :
    /\ page' = [page EXCEPT !.asked = {}, !.error = e]
    /\ UNCHANGED <<controls, count, label, observed, late>>
CountAnswers == \E r \in count.asked :
    /\ count' = [asked |-> {}, value |-> {Counted(r)}, error |-> "none"]
    /\ UNCHANGED <<controls, page, label, observed, late>>
CountFails ==
    /\ count.asked # {} /\ count' = [count EXCEPT !.asked = {}, !.error = "failed"]
    /\ UNCHANGED <<controls, page, label, observed, late>>

\* Whichever request answers last.
LateRowsShown(r) ==
    /\ late' = late \ {r}
    /\ page' = [page EXCEPT !.value = {Rows(r)}]
    /\ UNCHANGED <<controls, count, label, observed>>
\* A superseded lookup answers or rejects: LatestRequest throws, and the resource
\* ignores what is not its newest promise.
LateAnswer(r) ==
    /\ late' = late \ {r}
    /\ UNCHANGED <<controls, page, count, label, observed>>

\* The count as it is shown: the farthest row seen may exceed a bounded count.
ObservedEnd ==
    IF observed.scope = scope THEN observed.end
    ELSE Len(label.cursors) * label.size
ShownValue(v) == Larger(v.value, ObservedEnd)
TruncatedByLimit(v) == v.truncated
Truncated(v) == v.truncated \/ ShownValue(v) > v.value

Next ==
    \/ Toggle \/ RefreshSnapshot \/ Requery
    \/ \E s \in Scopes : SetScope(s)
    \/ \E z \in Sizes : SetSize(z)
    \/ NextPage \/ PreviousPage \/ RecoverPage \/ RetryPage \/ RetryCount \/ IncreaseCount
    \/ PageAnswers \/ PageFails \/ CountAnswers \/ CountFails
    \/ \E r \in late : LateAnswer(r)
Spec == Init /\ [][Next]_vars
=============================================================================
