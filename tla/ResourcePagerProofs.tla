------------------------- MODULE ResourcePagerProofs -------------------------
(***************************************************************************)
(* For any scopes, page sizes, count limits and number of pages: a branch  *)
(* shows the page and the count that its controls name.                    *)
(***************************************************************************)
EXTENDS ResourcePagerProperties, SequenceTheorems, TLAPS

Request == [scope : Scopes, size : Sizes, depth : Nat, after : Int]
PageOf == [scope : Scopes, from : Int, items : Int, end : Int, more : BOOLEAN]
CountRequest == [scope : Scopes, limit : Nat]
CountOf == [scope : Scopes, value : Int, truncated : BOOLEAN]

ControlsOK ==
    /\ scope \in Scopes /\ size \in Sizes /\ open \in BOOLEAN
    /\ cursors \in Seq(Int) /\ limit \in Nat
PageOK == page \in [asked : SUBSET Request, value : SUBSET PageOf,
                    error : {"none", "invalid-cursor", "failed"}]
CountOK == count \in [asked : SUBSET CountRequest, value : SUBSET CountOf,
                      error : {"none", "failed"}]
ShownOK ==
    /\ label \in [cursors : Seq(Int), size : Sizes]
    /\ observed \in [scope : Scopes, end : Int]
PagerTypeOK == ControlsOK /\ PageOK /\ CountOK /\ ShownOK

\* A branch whose source is off loads nothing and has no error.
IdleInv ==
    /\ ~PageSource => page.asked = {} /\ page.error = "none"
    /\ ~CountSource => count.asked = {}

\* Every count is what a count request of its scope is answered.
CountsAreAnswers ==
    \A v \in count.value : \E n \in Nat : v = Counted([scope |-> v.scope, limit |-> n])

PagerInv == PagerTypeOK /\ IdleInv /\ PageAsAsked /\ CountAsAsked /\ CountsAreAnswers

-----------------------------------------------------------------------------
(* The parts of a step.                                                    *)

\* A stack of cursors names a request, under the controls before and after a step.
LEMMA LookupType ==
    ASSUME NEW s \in Scopes, NEW z \in Sizes, NEW cs \in Seq(Int)
    PROVE  [scope |-> s, size |-> z, depth |-> Len(cs),
            after |-> IF cs = <<>> THEN 0 ELSE cs[Len(cs)]] \in Request
<1>1. Len(cs) \in Nat
  BY LenProperties
<1>2. cs # <<>> => cs[Len(cs)] \in Int
  BY LenProperties, ElementOfSeq, EmptySeq
<1> QED
  BY <1>1, <1>2 DEF Request

\* What a request for a page is answered.
LEMMA RowsType ==
    ASSUME NEW r \in Request
    PROVE  Rows(r) \in PageOf /\ Rows(r).scope = r.scope
<1>1. /\ r.scope \in Scopes /\ r.after \in Int /\ r.depth \in Nat /\ r.size \in Nat
      /\ Total[r.scope] \in Nat
  BY PagerAssumption DEF Request
<1>2. Smaller(r.size, Total[r.scope] - r.after) \in Int
  BY <1>1 DEF Smaller
<1>3. r.depth * r.size \in Int
  BY <1>1
<1> QED
  BY <1>1, <1>2, <1>3 DEF Rows, PageOf

\* What a request for a count is answered.
LEMMA CountedType ==
    ASSUME NEW r \in CountRequest
    PROVE  /\ Counted(r) \in CountOf /\ Counted(r).scope = r.scope
           /\ Counted(r) = Counted([scope |-> Counted(r).scope, limit |-> r.limit])
<1>1. r.scope \in Scopes /\ r.limit \in Nat /\ Total[r.scope] \in Nat
  BY PagerAssumption DEF CountRequest
<1>2. Smaller(Total[r.scope], r.limit) \in Int
  BY <1>1 DEF Smaller
<1> QED
  BY <1>1, <1>2 DEF Counted, CountOf

\* A reload of the page asks exactly what the new controls name, and keeps the rows.
LEMMA LoadPageAsks ==
    ASSUME PageOK, ControlsOK', LoadPage
    PROVE  /\ PageOK' /\ page'.value = page.value
           /\ page'.asked = IF PageSource' THEN {Lookup'} ELSE {}
           /\ ~PageSource' => page'.error = "none"
<1>1. Lookup' \in Request
  BY LookupType DEF Lookup, LookupAt, ControlsOK
<1>2. CASE PageSource'
  BY <1>1, <1>2 DEF PageOK, LoadPage, Fetch
<1>3. CASE ~PageSource'
  BY <1>1, <1>3 DEF PageOK, LoadPage, Fetch
<1> QED
  BY <1>2, <1>3

\* The same of the count.
LEMMA LoadCountAsks ==
    ASSUME CountOK, ControlsOK', LoadCount
    PROVE  /\ CountOK' /\ count'.value = count.value
           /\ count'.asked = IF CountSource' THEN {Tally'} ELSE {}
<1>1. Tally' \in CountRequest
  BY DEF Tally, CountRequest, ControlsOK
<1>2. CASE CountSource'
  BY <1>1, <1>2 DEF CountOK, LoadCount, Fetch
<1>3. CASE ~CountSource'
  BY <1>1, <1>3 DEF CountOK, LoadCount, Fetch
<1> QED
  BY <1>2, <1>3

\* The label is that of controls.
LEMMA DisplayLabels ==
    ASSUME ShownOK, ControlsOK', Display
    PROVE  label' \in [cursors : Seq(Int), size : Sizes]
  BY DEF ShownOK, ControlsOK, Display

-----------------------------------------------------------------------------
(* The steps.                                                              *)

LEMMA InitPager == Init => PagerInv
<1> SUFFICES ASSUME Init PROVE PagerInv
  OBVIOUS
<1> USE PagerAssumption
<1>1. ControlsOK /\ count = Empty /\ page = Fetch(Empty, PageSource, Lookup)
  BY EmptySeq DEF Init, ControlsOK
<1>2. Lookup \in Request
  BY <1>1, LookupType DEF Lookup, LookupAt, ControlsOK
<1>3. /\ page = [asked |-> IF PageSource THEN {Lookup} ELSE {}, value |-> {}, error |-> "none"]
  BY <1>1 DEF Fetch, Empty
<1>4. ~CountSource /\ SettledPage = {}
  BY <1>3 DEF CountSource, SettledPage
<1>5. PagerTypeOK
  BY <1>1, <1>2, <1>3, EmptySeq DEF PagerTypeOK, PageOK, CountOK, ShownOK, Init, Empty
<1>6. IdleInv /\ PageAsAsked /\ CountAsAsked /\ CountsAreAnswers
  BY <1>1, <1>3, <1>4 DEF IdleInv, PageAsAsked, CountAsAsked, CountsAreAnswers, Empty
<1> QED
  BY <1>5, <1>6 DEF PagerInv

\* Controls change and both resources load again.
LEMMA ReloadKeeps ==
    ASSUME PagerInv, ControlsOK', LoadPage, LoadCount, Display, observed' = observed
    PROVE  PagerInv'
<1>1. PageOK /\ CountOK /\ ShownOK /\ CountsAreAnswers
  BY DEF PagerInv, PagerTypeOK
<1>2. /\ PageOK' /\ page'.asked = IF PageSource' THEN {Lookup'} ELSE {}
      /\ ~PageSource' => page'.error = "none"
  BY <1>1, LoadPageAsks
<1>3. /\ CountOK' /\ count'.value = count.value
      /\ count'.asked = IF CountSource' THEN {Tally'} ELSE {}
  BY <1>1, LoadCountAsks
<1>4. ShownOK'
  BY <1>1, DisplayLabels DEF ShownOK
<1>5. PagerTypeOK'
  BY <1>2, <1>3, <1>4 DEF PagerTypeOK
<1>6. IdleInv' /\ PageAsAsked' /\ CountAsAsked' /\ CountsAreAnswers'
  BY <1>1, <1>2, <1>3 DEF IdleInv, PageAsAsked, CountAsAsked, CountsAreAnswers
<1> QED
  BY <1>5, <1>6 DEF PagerInv

\* The page alone loads again, in the same scope.
LEMMA PageReloadKeeps ==
    ASSUME PagerInv, ControlsOK', LoadPage, Display,
           UNCHANGED <<scope, open, limit, count, observed>>
    PROVE  PagerInv'
<1>1. PageOK /\ CountOK /\ ShownOK /\ CountsAreAnswers /\ IdleInv /\ CountAsAsked
  BY DEF PagerInv, PagerTypeOK
<1>2. /\ PageOK' /\ page'.asked = IF PageSource' THEN {Lookup'} ELSE {}
      /\ page'.value = page.value
      /\ ~PageSource' => page'.error = "none"
  BY <1>1, LoadPageAsks
<1>3. CountSource' = CountSource /\ Tally' = Tally
  BY <1>2 DEF CountSource, PageSource, SettledPage, Tally
<1>4. ShownOK'
  BY <1>1, DisplayLabels DEF ShownOK
<1>5. PagerTypeOK'
  BY <1>1, <1>2, <1>4 DEF PagerTypeOK, CountOK
<1>6. CountAsAsked' /\ CountsAreAnswers'
  BY <1>1, <1>3 DEF CountAsAsked, CountsAreAnswers
<1>7. IdleInv' /\ PageAsAsked'
  BY <1>1, <1>2, <1>3 DEF IdleInv, PageAsAsked
<1> QED
  BY <1>5, <1>6, <1>7 DEF PagerInv

\* The count alone loads again, in the same scope.
LEMMA CountReloadKeeps ==
    ASSUME PagerInv, ControlsOK', LoadCount,
           UNCHANGED <<scope, size, open, cursors, page, label, observed>>
    PROVE  PagerInv'
<1>1. PageOK /\ CountOK /\ ShownOK /\ CountsAreAnswers /\ IdleInv /\ PageAsAsked
  BY DEF PagerInv, PagerTypeOK
<1>2. /\ CountOK' /\ count'.value = count.value
      /\ count'.asked = IF CountSource' THEN {Tally'} ELSE {}
  BY <1>1, LoadCountAsks
<1>3. PagerTypeOK'
  BY <1>1, <1>2 DEF PagerTypeOK, PageOK, ShownOK
<1>4. PageSource' = PageSource /\ Lookup' = Lookup
  BY DEF PageSource, Lookup, LookupAt
<1>5. IdleInv' /\ PageAsAsked' /\ CountAsAsked' /\ CountsAreAnswers'
  BY <1>1, <1>2, <1>4 DEF IdleInv, PageAsAsked, CountAsAsked, CountsAreAnswers
<1> QED
  BY <1>3, <1>5 DEF PagerInv

\* A stack of cursors that a button builds from the label is one.
LEMMA CursorStacks ==
    ASSUME PagerInv
    PROVE  /\ <<>> \in Seq(Int) /\ label.cursors \in Seq(Int)
           /\ label.cursors # <<>> => Earlier \in Seq(Int)
           /\ \A v \in SettledPage : Append(label.cursors, v.from + v.items) \in Seq(Int)
<1>1. label.cursors \in Seq(Int)
  BY DEF PagerInv, PagerTypeOK, ShownOK
<1>2. label.cursors # <<>> => Earlier \in Seq(Int)
  <2> SUFFICES ASSUME label.cursors # <<>> PROVE Earlier \in Seq(Int)
    OBVIOUS
  <2>1. Len(label.cursors) \in Nat /\ Len(label.cursors) # 0
    BY <1>1, LenProperties, EmptySeq
  <2>2. Len(label.cursors) - 1 \in 0..Len(label.cursors)
    BY <2>1
  <2> QED
    BY <1>1, <2>1, <2>2, SubSeqProperties DEF Earlier
<1>3. \A v \in SettledPage : v.from + v.items \in Int
  BY DEF PagerInv, PagerTypeOK, PageOK, SettledPage, PageOf
<1> QED
  BY <1>1, <1>2, <1>3, EmptySeq, AppendProperties

\* Turning the page, by whichever button.
LEMMA NavigateKeeps ==
    ASSUME PagerInv, NEW cs \in Seq(Int), NavigatePage(cs)
    PROVE  PagerInv'
<1>1. ControlsOK'
  BY DEF NavigatePage, PagerInv, PagerTypeOK, ControlsOK
<1> QED
  BY <1>1, PageReloadKeeps DEF NavigatePage

\* The newest lookup answers: its page is shown, and the first page of a scope starts
\* the count.
LEMMA PageAnswersKeeps ==
    ASSUME PagerInv, PageAnswers
    PROVE  PagerInv'
<1>0. /\ PagerTypeOK /\ PageOK /\ ControlsOK /\ CountOK /\ ShownOK
      /\ IdleInv /\ PageAsAsked /\ CountAsAsked /\ CountsAreAnswers
  BY DEF PagerInv, PagerTypeOK
<1>1. PICK r \in page.asked :
         /\ UNCHANGED controls /\ Arrives(r)
         /\ IF \E v \in page.value : v.scope = r.scope THEN UNCHANGED count ELSE LoadCount
  BY DEF PageAnswers
<1>2. r = Lookup /\ r \in Request /\ r.scope = scope /\ PageSource
  BY <1>0, <1>1 DEF PageOK, IdleInv, PageAsAsked, Lookup, LookupAt
<1>3. Rows(r) \in PageOf /\ Rows(r).scope = scope
  BY <1>2, RowsType
<1>4. page' = [asked |-> {}, value |-> {Rows(r)}, error |-> "none"]
  BY <1>1 DEF Arrives
<1>5. /\ ControlsOK' /\ PageSource' /\ Lookup' = Lookup /\ Rows(Lookup') = Rows(r)
      /\ Tally' = Tally
  BY <1>0, <1>1, <1>2 DEF controls, ControlsOK, PageSource, Lookup, LookupAt, Tally
<1>6. PageOK'
  BY <1>3, <1>4 DEF PageOK
<1>7. ShownOK'
  <2>1. label' \in [cursors : Seq(Int), size : Sizes]
    BY <1>0, <1>1, <1>5, DisplayLabels DEF Arrives
  <2>2. Rows(r).end \in Int /\ observed.end \in Int /\ r.scope \in Scopes
    BY <1>0, <1>2, <1>3 DEF ShownOK, PageOf, Request
  <2>3. observed' \in [scope : Scopes, end : Int]
    BY <1>1, <2>2 DEF Arrives, Larger
  <2> QED
    BY <2>1, <2>3 DEF ShownOK
<1>8. PageAsAsked' /\ (IdleInv!1)'
  BY <1>4, <1>5 DEF PageAsAsked
<1>9. SettledPage' # {} /\ CountSource'
  BY <1>1, <1>3, <1>4, <1>5 DEF SettledPage, CountSource, controls
<1>10. CASE \E v \in page.value : v.scope = r.scope
  <2>1. CountSource /\ count' = count
    BY <1>1, <1>2, <1>10 DEF CountSource, SettledPage
  <2>2. CountAsAsked' /\ CountsAreAnswers' /\ CountOK' /\ IdleInv'
    BY <1>0, <1>5, <1>8, <1>9, <2>1 DEF CountAsAsked, CountsAreAnswers, CountOK, IdleInv
  <2> QED
    BY <1>5, <1>6, <1>7, <1>8, <2>2 DEF PagerInv, PagerTypeOK
<1>11. CASE LoadCount
  <2>1. CountOK' /\ count'.value = count.value /\ count'.asked = {Tally'}
    BY <1>0, <1>5, <1>9, <1>11, LoadCountAsks
  <2>2. CountAsAsked' /\ CountsAreAnswers' /\ IdleInv'
    BY <1>0, <1>5, <1>8, <1>9, <2>1 DEF CountAsAsked, CountsAreAnswers, IdleInv
  <2> QED
    BY <1>5, <1>6, <1>7, <1>8, <2>1, <2>2 DEF PagerInv, PagerTypeOK
<1> QED
  BY <1>1, <1>10, <1>11

\* The newest lookup fails: its rows stay as they were.
LEMMA PageFailsKeeps ==
    ASSUME PagerInv, PageFails
    PROVE  PagerInv'
<1>0. /\ PagerTypeOK /\ PageOK
      /\ IdleInv /\ PageAsAsked /\ CountAsAsked /\ CountsAreAnswers
  BY DEF PagerInv, PagerTypeOK
<1>1. PICK e \in {"invalid-cursor", "failed"} :
         /\ page' = [page EXCEPT !.asked = {}, !.error = e]
         /\ UNCHANGED <<controls, count, label, observed>>
  BY DEF PageFails
<1>2. /\ PageOK' /\ page'.asked = {} /\ page'.value = page.value /\ page'.error = e
      /\ e # "none" /\ PageSource
  BY <1>0, <1>1 DEF PageOK, PageFails, IdleInv
<1>3. PageSource' = PageSource /\ CountSource' = CountSource /\ Tally' = Tally
  BY <1>1, <1>2 DEF PageSource, CountSource, SettledPage, Tally, controls
<1>4. PagerTypeOK'
  BY <1>0, <1>1, <1>2 DEF PagerTypeOK, ControlsOK, CountOK, ShownOK, controls
<1>5. IdleInv' /\ PageAsAsked' /\ CountAsAsked' /\ CountsAreAnswers'
  BY <1>0, <1>1, <1>2, <1>3 DEF IdleInv, PageAsAsked, CountAsAsked, CountsAreAnswers
<1> QED
  BY <1>4, <1>5 DEF PagerInv

\* The newest count answers, or fails.
LEMMA CountSettlesKeeps ==
    ASSUME PagerInv, CountAnswers \/ CountFails
    PROVE  PagerInv'
<1>0. /\ PagerTypeOK /\ CountOK
      /\ IdleInv /\ PageAsAsked /\ CountAsAsked /\ CountsAreAnswers
  BY DEF PagerInv, PagerTypeOK
<1>1. UNCHANGED <<controls, page, label, observed>>
  BY DEF CountAnswers, CountFails
<1>2. /\ PageSource' = PageSource /\ CountSource' = CountSource
      /\ Tally' = Tally /\ Lookup' = Lookup
  BY <1>1 DEF PageSource, CountSource, SettledPage, Tally, Lookup, LookupAt, controls
<1>3. CountOK' /\ CountAsAsked' /\ CountsAreAnswers' /\ count'.asked = {}
  <2>1. CASE CountAnswers
    <3>1. PICK r \in count.asked :
             count' = [asked |-> {}, value |-> {Counted(r)}, error |-> "none"]
      BY <2>1 DEF CountAnswers
    <3>2. r = Tally /\ r \in CountRequest
      BY <1>0, <3>1 DEF CountOK, CountAsAsked
    <3>3. /\ Counted(r) \in CountOf /\ r.limit \in Nat
          /\ Counted(r) = Counted([scope |-> Counted(r).scope, limit |-> r.limit])
      BY <3>2, CountedType DEF CountRequest
    <3> QED
      BY <1>2, <3>1, <3>2, <3>3 DEF CountOK, CountAsAsked, CountsAreAnswers
  <2>2. CASE CountFails
    <3>1. CountOK' /\ count'.asked = {} /\ count'.value = count.value
          /\ count'.error = "failed"
      BY <1>0, <2>2 DEF CountOK, CountFails
    <3> QED
      BY <1>0, <1>2, <3>1 DEF CountAsAsked, CountsAreAnswers
  <2> QED
    BY <2>1, <2>2
<1>4. PagerTypeOK'
  BY <1>0, <1>1, <1>3 DEF PagerTypeOK, ControlsOK, PageOK, ShownOK, controls
<1>5. IdleInv' /\ PageAsAsked'
  BY <1>0, <1>1, <1>2, <1>3 DEF IdleInv, PageAsAsked
<1> QED
  BY <1>3, <1>4, <1>5 DEF PagerInv

-----------------------------------------------------------------------------
\* The inductive invariant.
THEOREM PagerInvariant == Spec => []PagerInv
<1>1. PagerInv /\ [Next]_vars => PagerInv'
  <2> SUFFICES ASSUME PagerInv, [Next]_vars PROVE PagerInv'
    OBVIOUS
  <2> USE PagerAssumption
  <2>0. ControlsOK
    BY DEF PagerInv, PagerTypeOK
  <2>1. CASE Toggle
    BY <2>0, <2>1, ReloadKeeps DEF Toggle, ControlsOK
  <2>2. CASE RefreshSnapshot
    BY <2>0, <2>2, ReloadKeeps, EmptySeq DEF RefreshSnapshot, ControlsOK
  <2>3. CASE Requery
    BY <2>0, <2>3, ReloadKeeps DEF Requery, controls, ControlsOK
  <2>4. ASSUME NEW s \in Scopes, SetScope(s) PROVE PagerInv'
    BY <2>0, <2>4, ReloadKeeps, EmptySeq DEF SetScope, ControlsOK
  <2>5. ASSUME NEW z \in Sizes, SetSize(z) PROVE PagerInv'
    BY <2>0, <2>5, PageReloadKeeps, EmptySeq DEF SetSize, ControlsOK
  <2>6. CASE NextPage
    BY <2>6, CursorStacks, NavigateKeeps DEF NextPage
  <2>7. CASE PreviousPage
    BY <2>7, CursorStacks, NavigateKeeps DEF PreviousPage
  <2>8. CASE RecoverPage
    BY <2>8, CursorStacks, NavigateKeeps DEF RecoverPage
  <2>9. CASE RetryPage
    BY <2>0, <2>9, PageReloadKeeps DEF RetryPage, controls, ControlsOK
  <2>10. CASE RetryCount
    BY <2>0, <2>10, CountReloadKeeps DEF RetryCount, controls, ControlsOK
  <2>11. CASE IncreaseCount
    <3>1. limit' \in Nat
      BY <2>0, <2>11 DEF IncreaseCount, Smaller, ControlsOK
    <3> QED
      BY <2>0, <2>11, <3>1, CountReloadKeeps DEF IncreaseCount, ControlsOK
  <2>12. CASE PageAnswers
    BY <2>12, PageAnswersKeeps
  <2>13. CASE PageFails
    BY <2>13, PageFailsKeeps
  <2>14. CASE CountAnswers \/ CountFails
    BY <2>14, CountSettlesKeeps
  <2>15. CASE UNCHANGED <<controls, page, count, label, observed>>
    BY <2>15 DEF PagerInv, PagerTypeOK, ControlsOK, PageOK, CountOK, ShownOK, IdleInv,
       PageAsAsked, CountAsAsked, CountsAreAnswers, PageSource, CountSource, SettledPage,
       Lookup, LookupAt, Tally, controls
  <2> QED
    BY <2>1, <2>2, <2>3, <2>4, <2>5, <2>6, <2>7, <2>8, <2>9, <2>10, <2>11, <2>12, <2>13,
       <2>14, <2>15 DEF Next, LateAnswer, vars
<1> QED
  BY <1>1, InitPager, PTL DEF Spec

\* A branch that loads is loading the page its controls name, and one that has settled
\* shows it (ResourceTree.tsx, ResourceTypeGroup).
THEOREM ShowsPageAsked == Spec => []PageAsAsked
<1>1. PagerInv => PageAsAsked
  BY DEF PagerInv
<1> QED
  BY <1>1, PagerInvariant, PTL

\* The same of its count.
THEOREM ShowsCountAsked == Spec => []CountAsAsked
<1>1. PagerInv => CountAsAsked
  BY DEF PagerInv
<1> QED
  BY <1>1, PagerInvariant, PTL

\* A count shown without "+" is the total (resourceCountPresentation).
THEOREM ExactIsTotal == Spec => []ExactCountIsExact
<1>1. PagerInv => ExactCountIsExact
  <2> SUFFICES ASSUME PagerInv, NEW v \in SettledCount, ~Truncated(v)
               PROVE  ShownValue(v) = Total[scope]
    BY DEF ExactCountIsExact
  <2>1. /\ v \in count.value /\ v.scope = scope
        /\ scope \in Scopes /\ Total[scope] \in Nat
    BY PagerAssumption DEF SettledCount, PagerInv, PagerTypeOK, ControlsOK
  <2>2. PICK n \in Nat : v = Counted([scope |-> scope, limit |-> n])
    BY <2>1 DEF PagerInv, CountsAreAnswers
  <2>3. v.value = Smaller(Total[scope], n) /\ v.truncated = (Total[scope] > n)
    BY <2>2, Zenon DEF Counted
  <2>4. ~(Total[scope] > n)
    BY <2>3, Zenon DEF Truncated
  <2>5. v.value = Total[scope]
    BY <2>1, <2>3, <2>4 DEF Smaller
  <2>6. ObservedEnd \in Int
    <3>1. observed.end \in Int /\ label.cursors \in Seq(Int) /\ label.size \in Nat
      BY PagerAssumption DEF PagerInv, PagerTypeOK, ShownOK
    <3>2. Len(label.cursors) \in Nat
      BY <3>1, LenProperties
    <3>3. Len(label.cursors) * label.size \in Int
      BY <3>1, <3>2
    <3> QED
      BY <3>1, <3>3 DEF ObservedEnd
  <2> QED
    BY <2>1, <2>5, <2>6 DEF Truncated, ShownValue, Larger
<1> QED
  BY <1>1, PagerInvariant, PTL

\* Rows that are shown stay while their scope does: only an answer replaces them.
THEOREM SettledDataStays == Spec => KeepsSettledData
<1>1. PagerInv /\ [Next]_vars
      => [SettledPage # {} /\ scope' = scope => SettledPage' # {}]_vars
  <2> SUFFICES ASSUME PagerInv, Next, SettledPage # {}, scope' = scope
               PROVE  SettledPage' # {}
    OBVIOUS
  <2>1. PageOK
    BY DEF PagerInv, PagerTypeOK
  <2>2. CASE page'.value = page.value
    BY <2>2 DEF SettledPage
  <2>3. CASE LoadPage
    <3>1. page'.value = page.value
      BY <2>1, <2>3 DEF LoadPage, Fetch, PageOK
    <3> QED
      BY <2>2, <3>1
  <2>4. CASE UNCHANGED page
    BY <2>2, <2>4
  <2>5. CASE PageFails
    <3>1. page'.value = page.value
      BY <2>1, <2>5 DEF PageFails, PageOK
    <3> QED
      BY <2>2, <3>1
  <2>6. CASE PageAnswers
    <3>1. PICK r \in page.asked : Arrives(r)
      BY <2>6 DEF PageAnswers
    <3>2. r \in Request /\ r.scope = scope
      BY <3>1 DEF PagerInv, PagerTypeOK, PageOK, IdleInv, PageAsAsked, Lookup, LookupAt
    <3>3. Rows(r).scope = scope /\ page'.value = {Rows(r)}
      BY <3>1, <3>2, RowsType DEF Arrives
    <3> QED
      BY <3>3 DEF SettledPage
  <2> QED
    BY <2>3, <2>4, <2>5, <2>6 DEF Next, Toggle, RefreshSnapshot, Requery, SetScope, SetSize,
       NextPage, PreviousPage, RecoverPage, NavigatePage, RetryPage, RetryCount,
       IncreaseCount, CountAnswers, CountFails, LateAnswer
<1> QED
  BY <1>1, PagerInvariant, PTL DEF Spec, KeepsSettledData
=============================================================================
