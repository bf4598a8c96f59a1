----------------------------- MODULE RepoSearch -----------------------------
(***************************************************************************)
(* The search box of the home page (useRepoSearch): a keystroke shows what *)
(* is known at once and starts the debounce timer; when that fires, the    *)
(* request in flight is aborted and a new one sent; answers, failures and  *)
(* aborts arrive in any order.                                             *)
(*                                                                         *)
(* An input is its normalised query, Short if that has less than two       *)
(* characters.  The list is a set of items; whether it is folded away      *)
(* (Escape, loss of focus) is left out.                                    *)
(***************************************************************************)
EXTENDS Integers, SequencesExt

CONSTANTS
  Queries,   \* normalised queries of two characters or more
  Short,     \* an input that is too short to search
  Items,     \* repositories
  NoItem,    \* nothing is highlighted
  Hits,      \* Hits[q]: what the backend answers to q
  Matches,   \* Matches[q]: the items that matchesQuery accepts for q
  CacheMax   \* CLIENT_CACHE_MAX

VARIABLES
  input,        \* what the visitor has typed
  timer,        \* the debounce timer runs
  suggestions,  \* the list
  active,       \* the highlighted suggestion
  noResults,    \* the list is announced as empty
  loading,      \* the spinner turns
  cache,        \* queries with a cached answer, the oldest first
  flight,       \* the request of abortRef, until it ends
  orphans,      \* queries of aborted requests that abortRef no longer holds
  failed        \* history: the request for this input has failed

vars == <<input, timer, suggestions, active, noResults, loading, cache, flight, orphans, failed>>

NoFlight == [q |-> Short, aborted |-> FALSE]

Init ==
  /\ input = Short
  /\ timer = TRUE
  /\ suggestions = {}
  /\ active = NoItem
  /\ noResults = FALSE
  /\ loading = FALSE
  /\ cache = <<>>
  /\ flight = NoFlight
  /\ orphans = {}
  /\ failed = FALSE

\* A cached answer is never empty: cacheSet does not keep empty ones.
Cached(q) == q \in ToSet(cache)

\* A query that is cached again becomes the youngest.
Without(q) ==
  IF Cached(q) THEN RemoveAt(cache, CHOOSE i \in DOMAIN cache : cache[i] = q) ELSE cache

CacheSet(q) ==
  IF Hits[q] = {} THEN cache
  ELSE LET kept == Append(Without(q), q)
       IN  IF Len(kept) > CacheMax THEN Tail(kept) ELSE kept

Apply(items) == suggestions' = items /\ active' = NoItem

Clear ==
  /\ Apply({})
  /\ noResults' = FALSE
  /\ loading' = FALSE

ShowCached(q) ==
  /\ Cached(q)
  /\ Apply(Hits[q])
  /\ noResults' = FALSE
  /\ loading' = FALSE

\* The present list, narrowed to what still matches, if anything does.
Narrow(q) ==
  LET left == suggestions \cap Matches[q] IN
    IF left # {} THEN Apply(left) /\ noResults' = FALSE
    ELSE UNCHANGED <<suggestions, active, noResults>>

\* What is left of the request in flight when abortRef takes another one or none.
Orphaned == IF flight = NoFlight THEN orphans ELSE orphans \cup {flight.q}

-----------------------------------------------------------------------------
(* The effect of a changed input *)

TypeShort ==
  /\ input' = Short
  /\ Clear
  /\ flight' = NoFlight
  /\ orphans' = Orphaned

TypeQuery(q) ==
  /\ input' = q
  /\ ShowCached(q) \/ (~Cached(q) /\ Narrow(q) /\ UNCHANGED loading)
  /\ UNCHANGED <<flight, orphans>>

Type ==
  /\ TypeShort \/ \E q \in Queries : TypeQuery(q)
  /\ timer' = TRUE
  /\ failed' = FALSE
  /\ UNCHANGED cache

-----------------------------------------------------------------------------
(* runSearch, when the timer fires *)

Aborted == IF flight = NoFlight THEN NoFlight ELSE [flight EXCEPT !.aborted = TRUE]

SearchNothing ==
  /\ input = Short
  /\ Clear
  /\ flight' = Aborted
  /\ UNCHANGED orphans

\* Mutant: an answer from the cache leaves the older request alive.
NotAborted == flight

AbortedForCache == Aborted

SearchCached ==
  /\ input # Short
  /\ ShowCached(input)
  /\ flight' = AbortedForCache
  /\ UNCHANGED orphans

Search ==
  /\ input # Short /\ ~Cached(input)
  /\ Narrow(input)
  /\ flight' = [q |-> input, aborted |-> FALSE]
  /\ orphans' = Orphaned
  /\ loading' = TRUE

Debounce ==
  /\ timer
  /\ timer' = FALSE
  /\ SearchNothing \/ SearchCached \/ Search
  /\ UNCHANGED <<input, cache, failed>>

-----------------------------------------------------------------------------
(* The end of a request *)

\* abortRef holds another request, or none.
Superseded(q) == TRUE

OrphanEnds(q) ==
  /\ q \in orphans
  /\ orphans' = orphans \ {q}
  /\ IF Superseded(q) THEN UNCHANGED <<suggestions, active>> ELSE Apply(Hits[q])
  /\ UNCHANGED <<input, timer, noResults, loading, cache, flight, failed>>

Answer ==
  /\ flight # NoFlight /\ ~flight.aborted
  /\ cache' = CacheSet(flight.q)
  /\ Apply(Hits[flight.q])
  /\ noResults' = (Hits[flight.q] = {})
  /\ loading' = FALSE
  /\ flight' = NoFlight
  /\ UNCHANGED <<input, timer, orphans, failed>>

\* Mutant: the spinner is stopped by answers only.
StillLoading == loading

LoadingAfterFailure == FALSE

\* An HTTP error, a network error or the abort: what is on screen stays.
Fail ==
  /\ flight # NoFlight
  /\ failed' = (failed \/ flight.q = input)
  /\ loading' = LoadingAfterFailure
  /\ flight' = NoFlight
  /\ UNCHANGED <<input, timer, suggestions, active, noResults, cache, orphans>>

-----------------------------------------------------------------------------
(* Keys and the mouse *)

Highlight ==
  /\ \E i \in suggestions : active' = i
  /\ UNCHANGED <<input, timer, suggestions, noResults, loading, cache, flight, orphans, failed>>

Escape ==
  /\ active' = NoItem
  /\ UNCHANGED <<input, timer, suggestions, noResults, loading, cache, flight, orphans, failed>>

\* The visitor has gone on to a repository, by go, a link or an example: the form is
\* gone, its timer and its request with it.
Unmount ==
  /\ input' = Short
  /\ timer' = FALSE
  /\ Clear
  /\ cache' = <<>>
  /\ flight' = NoFlight
  /\ orphans' = {}
  /\ failed' = FALSE

Next ==
  \/ Type \/ Debounce
  \/ Answer \/ Fail \/ \E q \in orphans : OrphanEnds(q)
  \/ Highlight \/ Escape

-----------------------------------------------------------------------------
Live == flight # NoFlight /\ ~flight.aborted

\* Once the debounce timer has fired the only request whose answer can still be shown
\* is one for the present input; and at rest the list is the answer to that input,
\* unless its request failed.  Older answers come too late, whatever their order.
ListFollowsInput ==
  /\ Live /\ ~timer => flight.q = input
  /\ ~Live /\ ~timer /\ ~failed =>
       /\ suggestions = IF input = Short THEN {} ELSE Hits[input]
       /\ noResults = (input # Short /\ Hits[input] = {})

\* The spinner turns only while there is a request that will stop it.
SpinnerHasRequest == loading => Live
=============================================================================
