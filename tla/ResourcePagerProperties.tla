----------------------- MODULE ResourcePagerProperties -----------------------
(***************************************************************************)
(* What a visitor may rely on in a branch of the resource tree.            *)
(***************************************************************************)
EXTENDS ResourcePager

\* However fast the controls change, a branch that loads is loading exactly the page
\* its controls name, and one that has settled shows that page: no answer to earlier
\* controls is shown for the later ones, and no change is left unasked.
PageAsAsked ==
    PageSource =>
        /\ page.asked \subseteq {Lookup}
        /\ (page.asked = {} /\ page.error = "none") => page.value = {Rows(Lookup)}

\* The same of the count, which begins as soon as a page of the scope has settled
\* and starts again at the initial limit in every scope.
CountAsAsked ==
    /\ count.asked # {} => CountSource
    /\ CountSource =>
        /\ count.asked \subseteq {Tally}
        /\ (count.asked = {} /\ count.error = "none") => count.value = {Counted(Tally)}

\* While its scope stays, a branch keeps showing rows once it has shown any: through
\* every refresh, failure, retry and change of the page or its size.
KeepsSettledData == [][SettledPage # {} /\ scope' = scope => SettledPage' # {}]_vars

\* A count shown without "+" is the number of resources of the scope.
ExactCountIsExact ==
    \A v \in SettledCount : ~Truncated(v) => ShownValue(v) = Total[scope]

\* A count is at least its lower bound, and the rows of a settled page have the
\* numbers they are shown under.
LowerBoundHolds ==
    \A v \in SettledCount : ShownValue(v) <= Total[scope]
=============================================================================
