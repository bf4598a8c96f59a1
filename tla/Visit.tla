-------------------------------- MODULE Visit --------------------------------
(***************************************************************************)
(* One tab of the frontend: the home page with its search box, and the     *)
(* release pages, around the platform store they share.  Choosing a        *)
(* repository on the home page starts its download decision early and      *)
(* takes the search box down.                                              *)
(***************************************************************************)
EXTENDS Integers

CONSTANTS
  Queries, Short, Items, NoItem, Hits, Matches, CacheMax,  \* of RepoSearch
  Choices, MaxVersion, MaxPages                            \* of DownloadSection

ASSUME VisitConstants ==
  /\ Short \notin Queries
  /\ NoItem \notin Items
  /\ Hits \in [Queries -> SUBSET Items]
  /\ Matches \in [Queries -> SUBSET Items]
  /\ CacheMax \in Nat \ {0}
  /\ MaxVersion \in Nat \ {0}
  /\ MaxPages \in Nat

VARIABLES
  input, timer, suggestions, active, noResults, loading, cache, flight, orphans, failed,
  browser, latest, opened, page, mounted, automatic, override, snapshot, asking, headStart,
  shown, path, request, cancelled, fetched, early

Search == INSTANCE RepoSearch
Page == INSTANCE DownloadSection

searchVars ==
  <<input, timer, suggestions, active, noResults, loading, cache, flight, orphans, failed>>
pageVars ==
  <<browser, latest, opened, page, mounted, automatic, override, snapshot, asking, headStart,
    shown, path, request, cancelled, fetched, early>>
vars == <<searchVars, pageVars>>

Init == Search!Init /\ Page!Init

\* Bound: the box is followed on the first home page.  On any later one it starts from
\* the same initial state.
SearchStep ==
  /\ page.kind = "home" /\ opened = 0
  /\ Search!Next
  /\ UNCHANGED pageVars

PageStep ==
  /\ Page!Next
  /\ IF page.kind = "home" /\ page'.kind # "home" THEN Search!Unmount
     ELSE UNCHANGED searchVars

Next == SearchStep \/ PageStep

Spec == Init /\ [][Next]_vars /\ Page!Fairness

-----------------------------------------------------------------------------
\* The list is the answer to what is typed, whatever order answers come in.
ListFollowsInput == Search!ListFollowsInput

\* The spinner stops.
SpinnerHasRequest == Search!SpinnerHasRequest

\* What the button offers was decided for the target and release shown.
OfferIsForTarget == Page!OfferIsForTarget

\* A choice stands against later detections.
ChoiceStands == Page!ChoiceStands

\* The button makes up its mind.
DecisionArrives == Page!DecisionArrives
=============================================================================
