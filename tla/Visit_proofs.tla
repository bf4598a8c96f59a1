---------------------------- MODULE Visit_proofs -----------------------------
(***************************************************************************)
(* Theorems about Visit, for any queries, hits, targets, releases and any  *)
(* number of pages.                                                        *)
(***************************************************************************)
EXTENDS Visit, SequenceTheorems, TLAPS

-----------------------------------------------------------------------------
(* The search box *)

Inputs == Queries \cup {Short}

\* Cached queries have hits, so what the cache shows is never announced as empty.
CacheHasHits == cache \in Seq({q \in Queries : Hits[q] # {}})

SearchTypes ==
  /\ input \in Inputs
  /\ timer \in BOOLEAN /\ noResults \in BOOLEAN /\ failed \in BOOLEAN
  /\ flight \in [q : Inputs, aborted : BOOLEAN]
  /\ flight # Search!NoFlight => flight.q \in Queries

SearchInv ==
  /\ SearchTypes
  /\ CacheHasHits
  /\ SpinnerHasRequest
  /\ ListFollowsInput

USE VisitConstants

LEMMA CachedHasHits ==
  ASSUME CacheHasHits, NEW q, Search!Cached(q)
  PROVE  Hits[q] # {}
  BY DEF CacheHasHits, Search!Cached, Search!ToSet

\* What is removed, added or evicted leaves queries with hits.
LEMMA CacheSetHasHits ==
  ASSUME CacheHasHits, NEW q \in Queries, cache' = Search!CacheSet(q)
  PROVE  CacheHasHits'
<1> DEFINE S == {p \in Queries : Hits[p] # {}}
<1>1. CASE Hits[q] = {}
  BY <1>1 DEF CacheHasHits, Search!CacheSet
<1>2. CASE Hits[q] # {}
  <2>1. Search!Without(q) \in Seq(S)
    <3>1. CASE Search!Cached(q)
      <4>1. PICK i \in DOMAIN cache : Search!Without(q) = Search!RemoveAt(cache, i)
        BY <3>1 DEF Search!Without, Search!Cached, Search!ToSet
      <4>2. cache \in Seq(S) /\ i \in 1 .. Len(cache) /\ Len(cache) \in Nat
        BY <4>1 DEF CacheHasHits
      <4>3. SubSeq(cache, 1, i - 1) \in Seq(S) /\ SubSeq(cache, i + 1, Len(cache)) \in Seq(S)
        BY <4>2, SubSeqProperties
      <4>. QED
        BY <4>1, <4>3, ConcatProperties DEF Search!RemoveAt
    <3>2. CASE ~Search!Cached(q)
      BY <3>2 DEF Search!Without, CacheHasHits
    <3>. QED
      BY <3>1, <3>2
  <2> DEFINE kept == Append(Search!Without(q), q)
  <2>2. kept \in Seq(S) /\ kept # <<>>
    BY <1>2, <2>1, AppendProperties
  <2>3. Tail(kept) \in Seq(S)
    BY <2>2, HeadTailProperties
  <2>4. cache' \in {kept, Tail(kept)}
    BY <1>2 DEF Search!CacheSet
  <2>. QED
    BY <2>2, <2>3, <2>4 DEF CacheHasHits
<1>. QED
  BY <1>1, <1>2

LEMMA SearchInit == Init => SearchInv
<1>. SUFFICES ASSUME Init PROVE SearchInv
  OBVIOUS
<1>1. SearchTypes
  BY DEF Init, Search!Init, SearchTypes, Inputs, Search!NoFlight
<1>2. CacheHasHits
  BY EmptySeq DEF Init, Search!Init, CacheHasHits
<1>3. SpinnerHasRequest /\ ListFollowsInput
  BY DEF Init, Search!Init, SpinnerHasRequest, ListFollowsInput, Search!SpinnerHasRequest,
         Search!ListFollowsInput, Search!Live, Search!NoFlight
<1>. QED
  BY <1>1, <1>2, <1>3 DEF SearchInv

\* A keystroke starts the timer, until which nothing is promised of the list.
LEMMA TypeKeepsInv ==
  ASSUME SearchInv, Search!Type
  PROVE  SearchInv'
<1>1. timer' = TRUE /\ failed' = FALSE /\ cache' = cache
  BY DEF Search!Type
<1>2. /\ input' \in Inputs /\ noResults' \in BOOLEAN
      /\ flight' = flight \/ flight' = Search!NoFlight
      /\ loading' => flight' = flight /\ loading
  <2>1. CASE Search!TypeShort
    BY <2>1 DEF Search!TypeShort, Search!Clear, Inputs
  <2>2. ASSUME NEW q \in Queries, Search!TypeQuery(q)
        PROVE  /\ input' \in Inputs /\ noResults' \in BOOLEAN /\ flight' = flight
               /\ loading' => loading
    <3>1. input' \in Inputs /\ flight' = flight
      BY <2>2 DEF Search!TypeQuery, Inputs
    <3>2. loading' => loading
      BY <2>2 DEF Search!TypeQuery, Search!ShowCached
    <3>3. noResults' = noResults \/ noResults' = FALSE
      BY <2>2 DEF Search!TypeQuery, Search!ShowCached, Search!Narrow
    <3>. QED
      BY <3>1, <3>2, <3>3 DEF SearchInv, SearchTypes
  <2>. QED
    BY <2>1, <2>2 DEF Search!Type
<1>3. SearchTypes'
  <2>1. Search!NoFlight \in [q : Inputs, aborted : BOOLEAN]
    BY DEF Search!NoFlight, Inputs
  <2>. QED
    BY <1>1, <1>2, <2>1 DEF SearchInv, SearchTypes
<1>4. CacheHasHits'
  BY <1>1 DEF SearchInv, CacheHasHits
<1>5. SpinnerHasRequest' /\ ListFollowsInput'
  BY <1>1, <1>2 DEF SearchInv, SpinnerHasRequest, ListFollowsInput, Search!SpinnerHasRequest,
                    Search!ListFollowsInput, Search!Live
<1>. QED
  BY <1>3, <1>4, <1>5 DEF SearchInv

\* When the timer has fired the request for the input is the only live one, unless the
\* list is its answer already.
LEMMA DebounceKeepsInv ==
  ASSUME SearchInv, Search!Debounce
  PROVE  SearchInv'
<1>1. timer' = FALSE /\ UNCHANGED <<input, cache, failed>>
  BY DEF Search!Debounce
<1>2. CacheHasHits'
  BY <1>1 DEF SearchInv, CacheHasHits
<1>3. ASSUME flight' = Search!Aborted, noResults' = FALSE PROVE SearchTypes'
  BY <1>1, <1>3 DEF SearchInv, SearchTypes, Search!Aborted, Search!NoFlight, Inputs
<1>4. ASSUME flight' = Search!Aborted PROVE ~Search!Live'
  BY <1>4 DEF Search!Aborted, Search!Live, Search!NoFlight, SearchInv, SearchTypes
<1>5. CASE Search!SearchNothing
  <2>1. /\ flight' = Search!Aborted /\ input = Short /\ suggestions' = {} /\ noResults' = FALSE
        /\ loading' = FALSE
    BY <1>5 DEF Search!SearchNothing, Search!Clear, Search!Apply
  <2>. QED
    BY <1>1, <1>2, <1>3, <1>4, <2>1 DEF SearchInv, SpinnerHasRequest, ListFollowsInput,
       Search!SpinnerHasRequest, Search!ListFollowsInput
<1>6. CASE Search!SearchCached
  <2>1. /\ flight' = Search!Aborted /\ input # Short /\ Search!Cached(input)
        /\ suggestions' = Hits[input] /\ noResults' = FALSE /\ loading' = FALSE
    BY <1>6 DEF Search!SearchCached, Search!ShowCached, Search!Apply, Search!AbortedForCache
  <2>2. Hits[input] # {}
    BY <2>1, CachedHasHits DEF SearchInv
  <2>. QED
    BY <1>1, <1>2, <1>3, <1>4, <2>1, <2>2 DEF SearchInv, SpinnerHasRequest, ListFollowsInput,
       Search!SpinnerHasRequest, Search!ListFollowsInput
<1>7. CASE Search!Search
  <2>1. input # Short /\ flight' = [q |-> input, aborted |-> FALSE] /\ noResults' \in {noResults, FALSE}
    BY <1>7 DEF Search!Search, Search!Narrow
  <2>2. SearchTypes'
    BY <1>1, <2>1 DEF SearchInv, SearchTypes, Inputs, Search!NoFlight
  <2>3. Search!Live' /\ flight'.q = input
    BY <2>1 DEF Search!Live, Search!NoFlight
  <2>. QED
    BY <1>1, <1>2, <2>2, <2>3 DEF SearchInv, SpinnerHasRequest, ListFollowsInput,
       Search!SpinnerHasRequest, Search!ListFollowsInput
<1>. QED
  BY <1>5, <1>6, <1>7 DEF Search!Debounce

\* The answer that is shown is the live request's, which is the input's by then.
LEMMA AnswerKeepsInv ==
  ASSUME SearchInv, Search!Answer
  PROVE  SearchInv'
<1>1. /\ Search!Live /\ flight' = Search!NoFlight /\ loading' = FALSE
      /\ suggestions' = Hits[flight.q] /\ noResults' = (Hits[flight.q] = {})
      /\ cache' = Search!CacheSet(flight.q) /\ UNCHANGED <<input, timer, failed>>
  BY DEF Search!Answer, Search!Apply, Search!Live
<1>2. flight.q \in Queries
  BY <1>1 DEF SearchInv, SearchTypes, Search!Live
<1>3. CacheHasHits'
  BY <1>1, <1>2, CacheSetHasHits DEF SearchInv
<1>4. SearchTypes'
  BY <1>1 DEF SearchInv, SearchTypes, Search!NoFlight, Inputs
<1>5. SpinnerHasRequest' /\ ListFollowsInput'
  <2>1. ~Search!Live'
    BY <1>1 DEF Search!Live
  <2>2. ~timer => flight.q = input /\ input # Short
    BY <1>1, <1>2 DEF SearchInv, ListFollowsInput, Search!ListFollowsInput
  <2>. QED
    BY <1>1, <2>1, <2>2 DEF SpinnerHasRequest, ListFollowsInput, Search!SpinnerHasRequest,
       Search!ListFollowsInput
<1>. QED
  BY <1>3, <1>4, <1>5 DEF SearchInv

LEMMA FailKeepsInv ==
  ASSUME SearchInv, Search!Fail
  PROVE  SearchInv'
<1>1. /\ flight # Search!NoFlight /\ flight' = Search!NoFlight /\ loading' = FALSE
      /\ failed' = (failed \/ flight.q = input)
      /\ UNCHANGED <<input, timer, suggestions, noResults, cache>>
  BY DEF Search!Fail, Search!LoadingAfterFailure
<1>2. SearchTypes'
  BY <1>1 DEF SearchInv, SearchTypes, Search!NoFlight, Inputs
<1>3. CacheHasHits'
  BY <1>1 DEF SearchInv, CacheHasHits
<1>4. ~Search!Live'
  BY <1>1 DEF Search!Live
<1>5. ~timer /\ ~failed' => ~Search!Live /\ ~failed
  BY <1>1 DEF SearchInv, ListFollowsInput, Search!ListFollowsInput, SearchTypes
<1>. QED
  BY <1>1, <1>2, <1>3, <1>4, <1>5 DEF SearchInv, SpinnerHasRequest, ListFollowsInput,
     Search!SpinnerHasRequest, Search!ListFollowsInput

LEMMA UnmountKeepsInv ==
  ASSUME SearchInv, Search!Unmount
  PROVE  SearchInv'
<1>1. /\ input' = Short /\ timer' = FALSE /\ cache' = <<>> /\ flight' = Search!NoFlight
      /\ failed' = FALSE /\ suggestions' = {} /\ noResults' = FALSE /\ loading' = FALSE
  BY DEF Search!Unmount, Search!Clear, Search!Apply
<1>2. SearchTypes'
  BY <1>1 DEF SearchTypes, Search!NoFlight, Inputs
<1>3. CacheHasHits'
  BY <1>1, EmptySeq DEF CacheHasHits
<1>4. ~Search!Live'
  BY <1>1 DEF Search!Live
<1>. QED
  BY <1>1, <1>2, <1>3, <1>4 DEF SearchInv, SpinnerHasRequest, ListFollowsInput,
     Search!SpinnerHasRequest, Search!ListFollowsInput

\* What else happens touches neither the list nor what decides about it.
LEMMA SearchKept ==
  ASSUME SearchInv, UNCHANGED <<input, timer, suggestions, noResults, loading, cache, flight, failed>>
  PROVE  SearchInv'
  BY DEF SearchInv, SearchTypes, CacheHasHits, SpinnerHasRequest, ListFollowsInput,
     Search!SpinnerHasRequest, Search!ListFollowsInput, Search!Live

LEMMA SearchNextKeepsInv ==
  ASSUME SearchInv, Search!Next
  PROVE  SearchInv'
<1>1. ASSUME NEW q, Search!OrphanEnds(q) PROVE SearchInv'
  BY <1>1, SearchKept DEF Search!OrphanEnds, Search!Superseded
<1>2. CASE Search!Highlight \/ Search!Escape
  BY <1>2, SearchKept DEF Search!Highlight, Search!Escape
<1>. QED
  BY <1>1, <1>2, TypeKeepsInv, DebounceKeepsInv, AnswerKeepsInv, FailKeepsInv DEF Search!Next

\* useRepoSearch: whatever order keystrokes, timers, answers, failures and aborts come in,
\* the list at rest is the answer to the input and the spinner has a request behind it.
THEOREM SearchIsSound == Spec => []SearchInv
<1>1. ASSUME SearchInv, [Next]_vars PROVE SearchInv'
  <2>1. CASE UNCHANGED vars
    BY <1>1, <2>1, SearchKept DEF vars, searchVars
  <2>2. CASE SearchStep
    BY <1>1, <2>2, SearchNextKeepsInv DEF SearchStep
  <2>3. CASE PageStep
    BY <1>1, <2>3, UnmountKeepsInv, SearchKept DEF PageStep, searchVars
  <2>. QED
    BY <1>1, <2>1, <2>2, <2>3 DEF Next
<1>. QED
  BY <1>1, SearchInit, PTL DEF Spec

\* At rest the list is the answer to what is typed.
THEOREM ListIsForInput == Spec => []ListFollowsInput
<1>1. SearchInv => ListFollowsInput
  BY DEF SearchInv
<1>. QED
  BY <1>1, SearchIsSound, PTL

\* The spinner turns only while a live request will stop it.
THEOREM SpinnerStops == Spec => []SpinnerHasRequest
<1>1. SearchInv => SpinnerHasRequest
  BY DEF SearchInv
<1>. QED
  BY <1>1, SearchIsSound, PTL

-----------------------------------------------------------------------------
(* The download section *)

HintsOf == {"none", "guess", "hints"}
Targets == [name : {"guess", "hints"} \cup Choices, hints : HintsOf, pending : BOOLEAN]
TargetOrNone == Targets \cup {Page!None}

PageTypes ==
  /\ browser \in [named : BOOLEAN, hints : BOOLEAN]
  /\ automatic \in TargetOrNone /\ override \in TargetOrNone
  /\ snapshot \in TargetOrNone /\ shown \in TargetOrNone

\* A path is asked for in the render that it is shown for, and a request has one.
PathIsShown ==
  /\ path = Page!NoPath \/ (path = Page!Path(shown, page.tag) /\ Page!HasPlatform(shown))
  /\ request # "none" => path # Page!NoPath

\* A decision that arrived is for its path.
FetchedForPath == fetched.pick \in {Page!Undecided, Page!Abstains, fetched.path}

\* An early decision is for the device that was there at the click, and for its release.
EarlyForQuery ==
  /\ DOMAIN early = Page!QueryStrings
  /\ \A q \in Page!QueryStrings :
       \/ early[q] = Page!Asked
       \/ early[q].pick \in {Page!Undecided, Page!Abstains, <<q[1], q[2], early[q].version>>}

PageInv == PageTypes /\ PathIsShown /\ FetchedForPath /\ EarlyForQuery /\ ChoiceStands

LEMMA DetectedIsTarget ==
  ASSUME PageTypes
  PROVE  Page!Detected \in TargetOrNone
  BY DEF PageTypes, Page!Detected, TargetOrNone, Targets, HintsOf

LEMMA PublishedIsTarget ==
  ASSUME NEW chosen \in TargetOrNone, NEW auto \in TargetOrNone
  PROVE  Page!Published(chosen, auto) \in TargetOrNone
  BY DEF Page!Published

LEMMA QueryIsKnown ==
  ASSUME PageTypes, Page!HasPlatform(shown)
  PROVE  Page!Query(shown) \in Page!QueryStrings
  BY DEF PageTypes, Page!HasPlatform, Page!Query, Page!QueryStrings, TargetOrNone, Targets, HintsOf

LEMMA PageInit == Init => PageInv
<1>. SUFFICES ASSUME Init PROVE PageInv
  OBVIOUS
<1>1. PageTypes
  BY DEF Init, Page!Init, PageTypes, TargetOrNone
<1>2. PathIsShown /\ FetchedForPath /\ ChoiceStands
  BY DEF Init, Page!Init, PathIsShown, FetchedForPath, ChoiceStands, Page!ChoiceStands
<1>3. EarlyForQuery
  BY DEF Init, Page!Init, EarlyForQuery, Page!NotAsked
<1>. QED
  BY <1>1, <1>2, <1>3 DEF PageInv

\* An effect of a render asks for the path of what is rendered.
LEMMA RenderedIsShown ==
  ASSUME NEW t, Page!Rendered(t), PathIsShown, page' = page, browser' = browser
  PROVE  PathIsShown' /\ shown' = t
<1>1. shown' = t /\ path' = Page!PathOn(page, t)
  BY DEF Page!Rendered
<1>2. path' = Page!NoPath \/ (path' = Page!Path(shown, page.tag)' /\ Page!HasPlatform(shown)')
  BY <1>1 DEF Page!PathOn, Page!Path, Page!HasPlatform
<1>3. request' # "none" => path' # Page!NoPath
  BY DEF Page!Rendered, PathIsShown
<1>. QED
  BY <1>1, <1>2, <1>3 DEF PathIsShown

\* A step that leaves what is shown and what was decided.
LEMMA DecisionsKept ==
  ASSUME PageInv, UNCHANGED <<browser, shown, path, request, fetched, early>>, page'.tag = page.tag
  PROVE  PathIsShown' /\ FetchedForPath' /\ EarlyForQuery'
  BY DEF PageInv, PathIsShown, FetchedForPath, EarlyForQuery, Page!HasPlatform, Page!Path

LEMMA RenderKeepsInv ==
  ASSUME PageInv, Page!Render
  PROVE  PageInv'
<1>1. /\ Page!Rendered(snapshot)
      /\ UNCHANGED <<browser, page, mounted, automatic, override, snapshot, fetched, early>>
  BY DEF Page!Render, Page!store
<1>2. PathIsShown' /\ shown' = snapshot
  BY <1>1, RenderedIsShown DEF PageInv
<1>. QED
  BY <1>1, <1>2 DEF PageInv, PageTypes, FetchedForPath, EarlyForQuery, ChoiceStands, Page!ChoiceStands

\* A new page shows what the store has, and has asked for nothing.
LEMMA OpenKeepsInv ==
  ASSUME PageInv, NEW p, Page!Open(p)
  PROVE  PageInv'
<1>1. /\ mounted' = FALSE /\ path' = Page!NoPath /\ request' = "none"
      /\ fetched' = [path |-> Page!NoPath, pick |-> Page!Undecided]
      /\ UNCHANGED <<browser, override, early>>
  BY DEF Page!Open
<1>2. PageTypes'
  <2>1. \/ shown' = snapshot /\ UNCHANGED <<automatic, snapshot>>
        \/ automatic' = Page!Detected /\ snapshot' = Page!Detected /\ shown' = Page!Detected
    BY DEF Page!Open
  <2>. QED
    BY <1>1, <2>1, DetectedIsTarget DEF PageInv, PageTypes
<1>3. PathIsShown' /\ FetchedForPath'
  BY <1>1 DEF PathIsShown, FetchedForPath
<1>4. EarlyForQuery' /\ ChoiceStands'
  BY <1>1 DEF PageInv, EarlyForQuery, ChoiceStands, Page!ChoiceStands
<1>. QED
  BY <1>2, <1>3, <1>4 DEF PageInv

\* The store shows the choice, or else what was detected.
LEMMA StoreKeepsInv ==
  ASSUME PageInv, UNCHANGED <<browser, page, shown, path, request, fetched, early>>,
         automatic' \in TargetOrNone, override' \in TargetOrNone,
         snapshot' = Page!Published(override', automatic')
  PROVE  PageInv'
<1>1. PageTypes'
  BY PublishedIsTarget DEF PageInv, PageTypes
<1>2. PathIsShown' /\ FetchedForPath' /\ EarlyForQuery'
  BY DecisionsKept
<1>3. ChoiceStands'
  BY DEF ChoiceStands, Page!ChoiceStands, Page!Published
<1>. QED
  BY <1>1, <1>2, <1>3 DEF PageInv

LEMMA NoMorePendingIsTarget ==
  ASSUME PageInv
  PROVE  [automatic EXCEPT !.pending = FALSE] \in TargetOrNone
<1>1. CASE automatic = Page!None
  <2> DEFINE Nones == [name : {"none"}, hints : {"none"}, pending : {FALSE}]
  <2>1. automatic \in Nones
    BY <1>1 DEF Page!None
  <2>2. [automatic EXCEPT !.pending = FALSE] \in Nones
    BY <2>1
  <2>3. ASSUME NEW t \in Nones PROVE t = Page!None
    <3>1. t = [name |-> t.name, hints |-> t.hints, pending |-> t.pending]
      OBVIOUS
    <3>2. t.name = "none" /\ t.hints = "none" /\ t.pending = FALSE
      OBVIOUS
    <3>. QED
      BY <3>1, <3>2 DEF Page!None
  <2>. QED
    BY <2>2, <2>3 DEF TargetOrNone
<1>2. CASE automatic \in Targets
  BY <1>2 DEF TargetOrNone, Targets
<1>. QED
  BY <1>1, <1>2 DEF PageInv, PageTypes, TargetOrNone

LEMMA DetectionKeepsInv ==
  ASSUME PageInv, Page!Detection
  PROVE  PageInv'
<1>1. CASE Page!Subscribe
  <2>1. /\ automatic' = Page!Detected /\ snapshot' = Page!Published(override, Page!Detected)
        /\ Page!Rendered(shown)
        /\ UNCHANGED <<browser, page, override, fetched, early>>
    BY <1>1 DEF Page!Subscribe
  <2>2. PathIsShown' /\ shown' = shown
    BY <2>1, RenderedIsShown DEF PageInv
  <2>3. PageTypes'
    BY <2>1, <2>2, DetectedIsTarget, PublishedIsTarget DEF PageInv, PageTypes
  <2>4. FetchedForPath' /\ EarlyForQuery'
    BY <2>1 DEF PageInv, FetchedForPath, EarlyForQuery
  <2>5. ChoiceStands'
    BY <2>1 DEF ChoiceStands, Page!ChoiceStands, Page!Published
  <2>. QED
    BY <2>2, <2>3, <2>4, <2>5 DEF PageInv
<1>2. CASE Page!HeadStartEnds \/ Page!HintsRefused
  <2>1. /\ automatic' = [automatic EXCEPT !.pending = FALSE]
        /\ snapshot' = Page!Published(override, automatic')
        /\ UNCHANGED <<browser, page, override, shown, path, request, fetched, early>>
    BY <1>2 DEF Page!HeadStartEnds, Page!HintsRefused, Page!NoMorePending, Page!section
  <2>. QED
    BY <2>1, NoMorePendingIsTarget, StoreKeepsInv DEF PageInv, PageTypes
<1>3. CASE Page!HintsArrive
  <2>1. /\ automatic' = [name |-> "hints", hints |-> "hints", pending |-> FALSE]
        /\ snapshot' = Page!Published(override, automatic')
        /\ UNCHANGED <<browser, page, override, shown, path, request, fetched, early>>
    BY <1>3 DEF Page!HintsArrive, Page!section
  <2>2. automatic' \in TargetOrNone
    BY <2>1 DEF TargetOrNone, Targets, HintsOf
  <2>. QED
    BY <2>1, <2>2, StoreKeepsInv DEF PageInv, PageTypes
<1>. QED
  BY <1>1, <1>2, <1>3 DEF Page!Detection

\* The decision that arrives is for the path of the request: a fetch asks for it, and an
\* early decision is used only for the release that the page shows.
LEMMA DecisionKeepsInv ==
  ASSUME PageInv, Page!Decision
  PROVE  PageInv'
<1>1. UNCHANGED <<browser, page, mounted, automatic, override, snapshot, shown, path, early>>
  BY DEF Page!Decision, Page!UseEarly, Page!FetchAnswers, Page!CancelledEnds, Page!store
<1>2. PageTypes' /\ EarlyForQuery' /\ ChoiceStands'
  BY <1>1 DEF PageInv, PageTypes, EarlyForQuery, ChoiceStands, Page!ChoiceStands
<1>3. PathIsShown'
  <2>1. request' # "none" => request # "none"
    BY DEF Page!Decision, Page!UseEarly, Page!FetchAnswers, Page!CancelledEnds
  <2>. QED
    BY <1>1, <2>1 DEF PageInv, PathIsShown, Page!HasPlatform, Page!Path
<1>4. FetchedForPath'
  <2>1. CASE Page!UseEarly
    <3> DEFINE decision == early[Page!Query(shown)]
    <3>1. path = Page!Path(shown, page.tag) /\ Page!HasPlatform(shown)
      BY <2>1 DEF PageInv, PathIsShown, Page!UseEarly
    <3>2. decision # Page!Asked
      BY <2>1 DEF Page!UseEarly
    <3>3. decision.pick \in {Page!Undecided, Page!Abstains, <<shown.name, shown.hints, decision.version>>}
      BY <3>1, <3>2, QueryIsKnown DEF PageInv, EarlyForQuery, Page!Query
    <3>4. \/ decision.version = page.tag /\ fetched' = [path |-> path, pick |-> decision.pick]
          \/ fetched' = fetched
      BY <2>1 DEF Page!UseEarly, Page!ForVersion
    <3>. QED
      BY <1>1, <3>1, <3>3, <3>4 DEF PageInv, FetchedForPath, Page!Path
  <2>2. CASE Page!FetchAnswers
    BY <1>1, <2>2 DEF Page!FetchAnswers, FetchedForPath
  <2>3. ASSUME NEW p, Page!CancelledEnds(p) PROVE FetchedForPath'
    BY <2>3 DEF Page!CancelledEnds, Page!IsCancelled, PageInv, FetchedForPath
  <2>. QED
    BY <2>1, <2>2, <2>3 DEF Page!Decision
<1>. QED
  BY <1>2, <1>3, <1>4 DEF PageInv

\* Go answers an early request for its query, or the request fails.
LEMMA EarlyAnswerKeepsInv ==
  ASSUME PageInv, Page!EarlyAnswer
  PROVE  PageInv'
<1>1. PICK q \in Page!QueryStrings : Page!EarlyAnswers(q)
  BY DEF Page!EarlyAnswer
<1>2. UNCHANGED <<browser, page, mounted, automatic, override, snapshot, shown, path, request, fetched>>
  BY <1>1 DEF Page!EarlyAnswers, Page!store, Page!section
<1>3. PICK a \in {Page!Failed} \cup
                 [version : {latest}, pick : {<<q[1], q[2], latest>>, Page!Abstains}] :
        early' = [early EXCEPT ![q] = a]
  BY <1>1 DEF Page!EarlyAnswers
<1>4. a.pick \in {Page!Abstains, <<q[1], q[2], a.version>>}
  BY <1>3 DEF Page!Failed
<1>5. EarlyForQuery'
  BY <1>3, <1>4 DEF PageInv, EarlyForQuery
<1>. QED
  BY <1>2, <1>5 DEF PageInv, PageTypes, PathIsShown, FetchedForPath, ChoiceStands, Page!ChoiceStands,
     Page!HasPlatform, Page!Path

LEMMA VisitorKeepsInv ==
  ASSUME PageInv, Page!Visitor
  PROVE  PageInv'
<1>1. CASE Page!Visit \/ Page!GoHome
  BY <1>1, OpenKeepsInv DEF Page!Visit, Page!GoHome
<1>2. CASE Page!StartNavigating
  <2>1. /\ UNCHANGED <<browser, mounted, automatic, override, snapshot, shown, path, request, fetched>>
        /\ page' = [page EXCEPT !.kind = "loading"]
    BY <1>2 DEF Page!StartNavigating, Page!store, Page!section
  <2>2. page'.tag = page.tag
    BY <2>1
  <2>3. EarlyForQuery'
    <3>1. early' = early \/ early' = [early EXCEPT ![Page!Query(shown)] = Page!Asked]
      BY <1>2 DEF Page!StartNavigating
    <3>. QED
      BY <3>1 DEF PageInv, EarlyForQuery
  <2>. QED
    BY <2>1, <2>2, <2>3 DEF PageInv, PageTypes, PathIsShown, FetchedForPath, ChoiceStands,
       Page!ChoiceStands, Page!HasPlatform, Page!Path
<1>3. ASSUME NEW c \in Choices, Page!Choose(c) PROVE PageInv'
  <2>1. /\ override' = [name |-> c, hints |-> automatic.hints, pending |-> FALSE]
        /\ snapshot' = Page!Published(override', automatic)
        /\ UNCHANGED <<browser, page, automatic, shown, path, request, fetched, early>>
    BY <1>3 DEF Page!Choose, Page!section
  <2>2. automatic.hints \in HintsOf
    BY DEF PageInv, PageTypes, TargetOrNone, Targets, HintsOf, Page!None
  <2>3. override' \in TargetOrNone
    BY <2>1, <2>2 DEF TargetOrNone, Targets
  <2>. QED
    BY <2>1, <2>3, StoreKeepsInv DEF PageInv, PageTypes
<1>4. CASE Page!DetectAgain
  <2>1. /\ override' = Page!None /\ snapshot' = Page!Published(override', automatic)
        /\ UNCHANGED <<browser, page, automatic, shown, path, request, fetched, early>>
    BY <1>4 DEF Page!DetectAgain, Page!section
  <2>2. override' \in TargetOrNone
    BY <2>1 DEF TargetOrNone
  <2>. QED
    BY <2>1, <2>2, StoreKeepsInv DEF PageInv, PageTypes
<1>. QED
  BY <1>1, <1>2, <1>3, <1>4 DEF Page!Visitor

LEMMA PageNextKeepsInv ==
  ASSUME PageInv, Page!Next
  PROVE  PageInv'
<1>1. CASE Page!Publish
  BY <1>1 DEF Page!Publish, Page!store, Page!section, PageInv, PageTypes, PathIsShown, FetchedForPath,
     EarlyForQuery, ChoiceStands, Page!ChoiceStands, Page!HasPlatform, Page!Path
<1>2. CASE Page!Arrive
  BY <1>2, OpenKeepsInv DEF Page!Arrive
<1>. QED
  BY <1>1, <1>2, RenderKeepsInv, DetectionKeepsInv, DecisionKeepsInv, EarlyAnswerKeepsInv, VisitorKeepsInv
     DEF Page!Next

\* The page's paths, decisions and targets fit together in every state.
THEOREM PageIsSound == Spec => []PageInv
<1>1. ASSUME PageInv, [Next]_vars PROVE PageInv'
  <2>1. ASSUME UNCHANGED pageVars PROVE PageInv'
    BY <1>1, <2>1 DEF pageVars, PageInv, PageTypes, PathIsShown, FetchedForPath, EarlyForQuery,
       ChoiceStands, Page!ChoiceStands, Page!HasPlatform, Page!Path
  <2>. QED
    BY <1>1, <2>1, PageNextKeepsInv DEF Next, SearchStep, PageStep, vars
<1>. QED
  BY <1>1, PageInit, PTL DEF Spec

\* use-platform.ts: a choice stands against every detection that comes in later.
THEOREM ChoiceIsKept == Spec => []ChoiceStands
<1>1. PageInv => ChoiceStands
  BY DEF PageInv
<1>. QED
  BY <1>1, PageIsSound, PTL

\* download-section.tsx: what the button offers was decided for the target and release it
\* is shown for, although decisions come early, late, for other targets or other releases.
THEOREM OfferFits == Spec => []OfferIsForTarget
<1>1. ASSUME PageInv PROVE OfferIsForTarget
  <2>1. CASE page.from = "table" /\ Page!HasPlatform(shown)
    BY <2>1 DEF OfferIsForTarget, Page!OfferIsForTarget, Page!Pick
  <2>2. CASE ~(page.from = "table" /\ Page!HasPlatform(shown))
    <3>1. Page!Pick = Page!FetchedPick
      BY <2>2 DEF Page!Pick
    <3>2. Page!FetchedPick \in {Page!Undecided, Page!Abstains, Page!Path(shown, page.tag)}
      BY <1>1 DEF Page!FetchedPick, PageInv, PathIsShown, FetchedForPath
    <3>. QED
      BY <3>1, <3>2 DEF OfferIsForTarget, Page!OfferIsForTarget
  <2>. QED
    BY <2>1, <2>2
<1>. QED
  BY <1>1, PageIsSound, PTL

-----------------------------------------------------------------------------
(* The button does not hang *)

\* A choice is made, so it waits for no hints; what the store shows otherwise waits only
\* while the timer of the head start runs.
StoreInv ==
  /\ ~override.pending
  /\ mounted => /\ snapshot = Page!Published(override, automatic)
                /\ automatic.pending => headStart

\* Releases are numbered from 1, so no decision for one looks like none.
Numbered ==
  /\ latest \in Nat \ {0} /\ page.tag \in Nat \ {0}
  /\ \A q \in Page!QueryStrings : early[q].version # 0 => early[q].pick # Page!Undecided

\* The section has the path of what it shows, and for a path a request or its answer.
PathInv ==
  /\ path = IF mounted THEN Page!PathOn(page, shown) ELSE Page!NoPath
  /\ request \in {"none", "early", "fetching"}
  /\ path # Page!NoPath =>
       request # "none" \/ (fetched.path = path /\ fetched.pick # Page!Undecided)

\* One of the steps that Fairness names can be taken.
Stirs ==
  \/ ~mounted                                                        \* Subscribe
  \/ mounted /\ shown # snapshot                                     \* Render
  \/ headStart                                                       \* HeadStartEnds
  \/ request = "early" /\ early[Page!Query(shown)] # Page!Asked      \* UseEarly
  \/ request = "fetching"                                            \* FetchAnswers
  \/ \E q \in Page!QueryStrings : early[q] = Page!Asked              \* EarlyAnswer

WaitInv == StoreInv /\ Numbered /\ PathInv

\* Where nothing stirs, the button has made up its mind.
LEMMA RestIsSettled ==
  ASSUME PageInv, WaitInv, ~Stirs
  PROVE  Page!Settled
<1>. SUFFICES ASSUME page.kind = "release", page.from = "go", Page!HasPlatform(shown)
              PROVE  Page!Pick # Page!Undecided
  BY DEF Page!Settled, Stirs
<1>1. mounted /\ shown = snapshot /\ ~headStart
  BY DEF Stirs
<1>2. ~shown.pending
  BY <1>1 DEF WaitInv, StoreInv, Page!Published
<1>3. path = Page!Path(shown, page.tag) /\ path # Page!NoPath
  BY <1>1, <1>2 DEF WaitInv, PathInv, Numbered, Page!PathOn, Page!Path, Page!NoPath
<1>4. request = "none"
  <2>1. Page!Query(shown) \in Page!QueryStrings
    BY QueryIsKnown DEF PageInv
  <2>. QED
    BY <2>1 DEF WaitInv, PathInv, Stirs
<1>. QED
  BY <1>3, <1>4 DEF WaitInv, PathInv, Page!Pick, Page!FetchedPick

LEMMA WaitInit == Init => WaitInv
<1>. SUFFICES ASSUME Init PROVE WaitInv
  OBVIOUS
<1>1. StoreInv
  BY DEF Init, Page!Init, StoreInv, Page!None
<1>2. Numbered
  BY DEF Init, Page!Init, Numbered, Page!NoPage, Page!NotAsked
<1>3. PathInv
  BY DEF Init, Page!Init, PathInv
<1>. QED
  BY <1>1, <1>2, <1>3 DEF WaitInv

\* A render asks for its path, unless it has asked for it already.
LEMMA RenderAsks ==
  ASSUME PathInv, NEW t, Page!Rendered(t), mounted', page' = page, browser' = browser, fetched' = fetched
  PROVE  PathInv'
<1>1. path' = Page!PathOn(page, t) /\ shown' = t
  BY DEF Page!Rendered
<1>2. Page!PathOn(page, t) = Page!PathOn(page, shown)'
  BY <1>1 DEF Page!PathOn, Page!HasPlatform, Page!Path
<1>3. CASE path' = path
  BY <1>1, <1>2, <1>3 DEF PathInv, Page!Rendered
<1>4. CASE path' # path
  BY <1>1, <1>2, <1>4 DEF PathInv, Page!Rendered
<1>. QED
  BY <1>3, <1>4

LEMMA RenderWaits == ASSUME WaitInv, Page!Render PROVE WaitInv'
<1>1. /\ Page!Rendered(snapshot)  /\ mounted
      /\ UNCHANGED <<browser, latest, page, mounted, automatic, override, snapshot, headStart, fetched, early>>
  BY DEF Page!Render, Page!store
<1>2. PathInv'
  BY <1>1, RenderAsks DEF WaitInv
<1>. QED
  BY <1>1, <1>2 DEF WaitInv, StoreInv, Numbered, Page!Published

LEMMA OpenWaits ==
  ASSUME WaitInv, NEW p, Page!Open(p), p.tag \in Nat \ {0}
  PROVE  WaitInv'
<1>1. /\ mounted' = FALSE /\ path' = Page!NoPath /\ request' = "none" /\ page' = p
      /\ UNCHANGED <<latest, override, early>>
  BY DEF Page!Open
<1>2. StoreInv'
  BY <1>1 DEF WaitInv, StoreInv
<1>3. Numbered'
  BY <1>1 DEF WaitInv, Numbered
<1>4. PathInv'
  BY <1>1 DEF PathInv
<1>. QED
  BY <1>2, <1>3, <1>4 DEF WaitInv

\* What the store learns leaves the section as it is until the next render.
LEMMA SectionWaits ==
  ASSUME WaitInv, UNCHANGED <<browser, latest, page, mounted, shown, path, request, fetched, early>>, StoreInv'
  PROVE  WaitInv'
<1>1. Numbered'
  BY DEF WaitInv, Numbered
<1>2. PathInv'
  BY DEF WaitInv, PathInv, Page!PathOn, Page!HasPlatform, Page!Path
<1>. QED
  BY <1>1, <1>2 DEF WaitInv

LEMMA DetectionWaits == ASSUME PageInv, WaitInv, Page!Detection PROVE WaitInv'
<1>1. CASE Page!Subscribe
  <2>1. /\ automatic' = Page!Detected /\ snapshot' = Page!Published(override, Page!Detected)
        /\ headStart' = browser.hints /\ mounted' = TRUE
        /\ Page!Rendered(shown)
        /\ UNCHANGED <<browser, latest, page, override, fetched, early>>
    BY <1>1 DEF Page!Subscribe
  <2>2. StoreInv'
    BY <2>1 DEF WaitInv, StoreInv, Page!Detected, Page!Published
  <2>3. Numbered'
    BY <2>1 DEF WaitInv, Numbered
  <2>4. PathInv'
    BY <2>1, RenderAsks DEF WaitInv
  <2>. QED
    BY <2>2, <2>3, <2>4 DEF WaitInv
<1>2. CASE Page!HeadStartEnds \/ Page!HintsRefused
  <2>1. /\ automatic' = [automatic EXCEPT !.pending = FALSE]
        /\ snapshot' = Page!Published(override, automatic')
        /\ UNCHANGED <<browser, latest, page, mounted, override, shown, path, request, fetched, early>>
    BY <1>2 DEF Page!HeadStartEnds, Page!HintsRefused, Page!NoMorePending, Page!section
  <2>2. ~automatic'.pending
    BY <2>1 DEF PageInv, PageTypes, TargetOrNone, Targets, Page!None
  <2>3. StoreInv'
    BY <2>1, <2>2 DEF WaitInv, StoreInv, Page!Published
  <2>. QED
    BY <2>1, <2>3, SectionWaits
<1>3. CASE Page!HintsArrive
  <2>1. /\ automatic' = [name |-> "hints", hints |-> "hints", pending |-> FALSE]
        /\ snapshot' = Page!Published(override, automatic')
        /\ UNCHANGED <<browser, latest, page, mounted, override, shown, path, request, fetched, early>>
    BY <1>3 DEF Page!HintsArrive, Page!section
  <2>2. ~automatic'.pending
    BY <2>1
  <2>3. StoreInv'
    BY <2>1, <2>2 DEF WaitInv, StoreInv, Page!Published
  <2>. QED
    BY <2>1, <2>3, SectionWaits
<1>. QED
  BY <1>1, <1>2, <1>3 DEF Page!Detection

LEMMA DecisionWaits == ASSUME PageInv, WaitInv, Page!Decision PROVE WaitInv'
<1>1. UNCHANGED <<browser, latest, page, mounted, automatic, override, snapshot, headStart, shown, path, early>>
  BY DEF Page!Decision, Page!UseEarly, Page!FetchAnswers, Page!CancelledEnds, Page!store
<1>2. StoreInv' /\ Numbered'
  BY <1>1 DEF WaitInv, StoreInv, Numbered, Page!Published
<1>3. Page!PathOn(page, shown)' = Page!PathOn(page, shown)
  BY <1>1 DEF Page!PathOn, Page!HasPlatform, Page!Path
<1>4. CASE Page!UseEarly
  <2> DEFINE decision == early[Page!Query(shown)]
  <2>1. path = Page!Path(shown, page.tag) /\ Page!HasPlatform(shown)
    BY <1>4 DEF PageInv, PathIsShown, Page!UseEarly
  <2>2. decision.version # 0 => decision.pick # Page!Undecided
    BY <2>1, QueryIsKnown DEF PageInv, WaitInv, Numbered
  <2>3. \/ /\ decision.version = page.tag
           /\ fetched' = [path |-> path, pick |-> decision.pick] /\ request' = "none"
        \/ fetched' = fetched /\ request' = "fetching"
    BY <1>4 DEF Page!UseEarly, Page!ForVersion
  <2>4. page.tag # 0
    BY DEF WaitInv, Numbered
  <2> HIDE DEF decision
  <2>5. request' = "fetching" \/ (request' = "none" /\ fetched'.path = path /\ fetched'.pick # Page!Undecided)
    BY <2>2, <2>3, <2>4
  <2>. QED
    BY <1>1, <1>2, <1>3, <2>5 DEF WaitInv, PathInv
<1>5. CASE Page!FetchAnswers
  <2>1. path = Page!Path(shown, page.tag)
    BY <1>5 DEF PageInv, PathIsShown, Page!FetchAnswers
  <2>2. path # Page!Undecided /\ Page!Abstains # Page!Undecided
    BY <2>1 DEF WaitInv, Numbered, Page!Path, Page!Undecided, Page!Abstains
  <2>3. PICK d \in {path, Page!Abstains} : fetched' = [path |-> path, pick |-> d]
    BY <1>5 DEF Page!FetchAnswers
  <2>4. request' = "none" /\ fetched'.path = path /\ fetched'.pick # Page!Undecided
    BY <1>5, <2>2, <2>3 DEF Page!FetchAnswers
  <2>. QED
    BY <1>1, <1>2, <1>3, <2>4 DEF WaitInv, PathInv
<1>6. ASSUME NEW p, Page!CancelledEnds(p) PROVE WaitInv'
  <2>1. request' = request /\ fetched' = fetched
    BY <1>6 DEF Page!CancelledEnds, Page!IsCancelled
  <2>. QED
    BY <1>1, <1>2, <1>3, <2>1 DEF WaitInv, PathInv
<1>. QED
  BY <1>4, <1>5, <1>6 DEF Page!Decision

LEMMA EarlyAnswerWaits == ASSUME PageInv, WaitInv, Page!EarlyAnswer PROVE WaitInv'
<1>1. PICK q \in Page!QueryStrings : Page!EarlyAnswers(q)
  BY DEF Page!EarlyAnswer
<1>2. UNCHANGED <<browser, latest, page, mounted, automatic, override, snapshot, headStart, shown, path, request, fetched>>
  BY <1>1 DEF Page!EarlyAnswers, Page!store, Page!section
<1>3. PICK a \in {Page!Failed} \cup
                 [version : {latest}, pick : {<<q[1], q[2], latest>>, Page!Abstains}] :
        early' = [early EXCEPT ![q] = a]
  BY <1>1 DEF Page!EarlyAnswers
<1>4. a.pick # Page!Undecided
  <2>1. a.pick = Page!Abstains \/ a.pick = <<q[1], q[2], latest>>
    BY <1>3 DEF Page!Failed
  <2>2. latest # 0
    BY DEF WaitInv, Numbered
  <2>. QED
    BY <2>1, <2>2 DEF Page!Undecided, Page!Abstains
<1>5. Numbered'
  BY <1>2, <1>3, <1>4 DEF PageInv, EarlyForQuery, WaitInv, Numbered
<1>6. StoreInv' /\ PathInv'
  BY <1>2 DEF WaitInv, StoreInv, PathInv, Page!Published, Page!PathOn, Page!HasPlatform, Page!Path
<1>. QED
  BY <1>5, <1>6 DEF WaitInv

LEMMA VisitorWaits == ASSUME PageInv, WaitInv, Page!Visitor PROVE WaitInv'
<1>1. CASE Page!Visit
  <2>1. PICK tag \in 1 .. latest, from \in {"go", "table"} :
          Page!Open([kind |-> "release", tag |-> tag, from |-> from])
    BY <1>1 DEF Page!Visit
  <2>2. tag \in Nat \ {0}
    BY DEF WaitInv, Numbered
  <2>. QED
    BY <2>1, <2>2, OpenWaits
<1>2. CASE Page!GoHome
  <2>1. Page!Open(Page!NoPage) /\ Page!NoPage.tag = 1
    BY <1>2 DEF Page!GoHome, Page!NoPage
  <2>. QED
    BY <2>1, OpenWaits
<1>3. CASE Page!StartNavigating
  <2>1. /\ UNCHANGED <<browser, latest, mounted, automatic, override, snapshot, headStart, shown, path, request, fetched>>
        /\ page.kind = "home" /\ page' = [page EXCEPT !.kind = "loading"]
        /\ early' = early \/ early' = [early EXCEPT ![Page!Query(shown)] = Page!Asked]
    BY <1>3 DEF Page!StartNavigating, Page!store, Page!section
  <2>2. page'.tag = page.tag /\ page'.kind # "release"
    BY <2>1
  <2>3. Numbered'
    <3>1. Page!Asked.version = 0
      BY DEF Page!Asked
    <3>. QED
      BY <2>1, <2>2, <3>1 DEF PageInv, EarlyForQuery, WaitInv, Numbered
  <2>4. PathInv'
    <3>1. Page!PathOn(page, shown) = Page!NoPath /\ Page!PathOn(page, shown)' = Page!NoPath
      BY <2>1, <2>2 DEF Page!PathOn
    <3>. QED
      BY <2>1, <3>1 DEF WaitInv, PathInv
  <2>5. StoreInv'
    BY <2>1 DEF WaitInv, StoreInv, Page!Published
  <2>. QED
    BY <2>3, <2>4, <2>5 DEF WaitInv
<1>4. ASSUME NEW c \in Choices, Page!Choose(c) PROVE WaitInv'
  <2>1. /\ override' = [name |-> c, hints |-> automatic.hints, pending |-> FALSE]
        /\ snapshot' = Page!Published(override', automatic)
        /\ UNCHANGED <<browser, latest, page, mounted, automatic, headStart, shown, path, request, fetched, early>>
    BY <1>4 DEF Page!Choose, Page!section
  <2>2. StoreInv'
    BY <2>1 DEF WaitInv, StoreInv, Page!Published
  <2>. QED
    BY <2>1, <2>2, SectionWaits
<1>5. CASE Page!DetectAgain
  <2>1. /\ override' = Page!None /\ snapshot' = Page!Published(override', automatic)
        /\ UNCHANGED <<browser, latest, page, mounted, automatic, headStart, shown, path, request, fetched, early>>
    BY <1>5 DEF Page!DetectAgain, Page!section
  <2>2. StoreInv'
    BY <2>1 DEF WaitInv, StoreInv, Page!Published, Page!None
  <2>. QED
    BY <2>1, <2>2, SectionWaits
<1>. QED
  BY <1>1, <1>2, <1>3, <1>4, <1>5 DEF Page!Visitor

LEMMA PageNextWaits == ASSUME PageInv, WaitInv, Page!Next PROVE WaitInv'
<1>1. CASE Page!Publish
  <2>1. /\ latest' = latest + 1
        /\ UNCHANGED <<browser, page, mounted, automatic, override, snapshot, headStart, shown, path, request, fetched, early>>
    BY <1>1 DEF Page!Publish, Page!store, Page!section
  <2>2. Numbered'
    BY <2>1 DEF WaitInv, Numbered
  <2>. QED
    BY <2>1, <2>2 DEF WaitInv, StoreInv, PathInv, Page!Published, Page!PathOn, Page!HasPlatform, Page!Path
<1>2. CASE Page!Arrive
  <2>1. PICK tag \in 1 .. latest, from \in {"go", "table"} :
          Page!Open([kind |-> "release", tag |-> tag, from |-> from])
    BY <1>2 DEF Page!Arrive
  <2>2. tag \in Nat \ {0}
    BY DEF WaitInv, Numbered
  <2>. QED
    BY <2>1, <2>2, OpenWaits
<1>. QED
  BY <1>1, <1>2, RenderWaits, DetectionWaits, DecisionWaits, EarlyAnswerWaits, VisitorWaits DEF Page!Next

\* The safety half of DecisionArrives.  As long as the button has not made up its mind, a
\* step of the page, of a timer or of a request is there to be taken: a decision that was
\* cancelled, used for another release, or given up with its page leaves none outstanding.
THEOREM ButtonIsWaitedFor == Spec => [](Page!Settled \/ Stirs)
<1>1. ASSUME PageInv, WaitInv, [Next]_vars PROVE WaitInv'
  <2>1. ASSUME UNCHANGED pageVars PROVE WaitInv'
    BY <1>1, <2>1 DEF pageVars, WaitInv, StoreInv, Numbered, PathInv, Page!Published, Page!PathOn,
       Page!HasPlatform, Page!Path
  <2>. QED
    BY <1>1, <2>1, PageNextWaits DEF Next, SearchStep, PageStep, vars
<1>2. PageInv /\ WaitInv => Page!Settled \/ Stirs
  BY RestIsSettled
<1>. QED
  BY <1>1, <1>2, WaitInit, PageIsSound, PTL DEF Spec
=============================================================================
