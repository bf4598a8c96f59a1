--------------------------- MODULE DownloadSection ---------------------------
(***************************************************************************)
(* The download button of a release page: the platform store that all      *)
(* sections share (use-platform), the decision the section asks the        *)
(* backend for (download-section, link-decision), and the decision that a  *)
(* click on the home page starts early.                                    *)
(*                                                                         *)
(* The browser names a target at once, from what its user agent tells, and *)
(* may give better hints later, or never.  A target is which of these it   *)
(* is, or the visitor's choice, and the hints its context carries.  A      *)
(* decision is the target and release it was made for, or an abstention.   *)
(*                                                                         *)
(* Detections of a page that is gone are dropped by their generation.  The *)
(* pages are of one repository and have assets; a page may show an older   *)
(* release.                                                                *)
(***************************************************************************)
EXTENDS Integers

CONSTANTS
  Choices,     \* targets the visitor may choose
  MaxVersion,  \* bound on releases published
  MaxPages     \* bound on pages opened

VARIABLES
  browser,     \* whether the user agent names an OS, and whether hints can be asked for
  latest,      \* the newest release
  opened,      \* pages opened so far
  page,        \* the page shown: its kind, release, and where its decisions come from
  mounted,     \* the page has subscribed to the store
  automatic,   \* the store's own reading of the device
  override,    \* the visitor's choice
  snapshot,    \* what the store shows
  asking,      \* the hints have been asked for and not arrived
  headStart,   \* the timer that bounds the wait for them
  shown,       \* the target the page was last rendered for
  path,        \* the decision it asked for then
  request,     \* how far that is
  cancelled,   \* requests for other paths that have not ended
  fetched,     \* the decision that arrived, with its path
  early        \* early[t]: the decision for the latest release started by a click

vars == <<browser, latest, opened, page, mounted, automatic, override, snapshot, asking, headStart,
          shown, path, request, cancelled, fetched, early>>

store == <<automatic, override, snapshot, asking, headStart>>
section == <<shown, path, request, cancelled, fetched>>

None == [name |-> "none", hints |-> "none", pending |-> FALSE]

Versions == 1 .. MaxVersion
NoPage == [kind |-> "home", tag |-> 1, from |-> "go"]

\* What a query string carries of a target.
Query(t) == <<t.name, t.hints>>
QueryStrings == ({"guess", "hints"} \cup Choices) \X {"none", "guess", "hints"}
NoPath == <<"none", "none", 0>>
Path(t, tag) == <<t.name, t.hints, tag>>

\* Decisions other than a file: none yet, and an abstention.
Undecided == <<"undecided", "none", 0>>
Abstains == <<"abstains", "none", 0>>

\* States of an early decision: the release it was made for, 0 as long as there is none.
NotAsked == [version |-> 0, pick |-> Undecided]
Asked == [version |-> 0, pick |-> <<"asked", "none", 0>>]
Failed == [version |-> 0, pick |-> Abstains]

Detected == [name |-> "guess", hints |-> "guess", pending |-> browser.hints]

HasPlatform(t) == t # None /\ (t.name = "guess" => browser.named)

\* The path of the decision the section fetches for t, if it fetches one.
PathOn(p, t) ==
  IF p.kind = "release" /\ p.from = "go" /\ HasPlatform(t) /\ ~t.pending
  THEN Path(t, p.tag) ELSE NoPath

Init ==
  /\ browser \in [named : BOOLEAN, hints : BOOLEAN]
  /\ latest = 1
  /\ opened = 0
  /\ page = NoPage
  /\ mounted = FALSE
  /\ automatic = None /\ override = None /\ snapshot = None
  /\ asking = FALSE /\ headStart = FALSE
  /\ shown = None /\ path = NoPath /\ request = "none"
  /\ cancelled = {}
  /\ fetched = [path |-> NoPath, pick |-> Undecided]
  /\ early = [q \in QueryStrings |-> NotAsked]

Publish ==
  /\ latest < MaxVersion
  /\ latest' = latest + 1
  /\ UNCHANGED <<browser, opened, page, mounted, store, section, early>>

-----------------------------------------------------------------------------
(* Rendering and its effect *)

Outstanding == IF request = "none" THEN {} ELSE {path}

\* The effect of a render for t: another path cancels the request and starts one.
Rendered(t) ==
  /\ shown' = t
  /\ path' = PathOn(page, t)
  /\ IF path' = path THEN UNCHANGED <<request, cancelled>>
     ELSE /\ request' = IF path' = NoPath THEN "none" ELSE "early"
          /\ cancelled' = cancelled \cup Outstanding

Render ==
  /\ mounted /\ shown # snapshot
  /\ Rendered(snapshot)
  /\ UNCHANGED <<browser, latest, opened, page, mounted, store, fetched, early>>

-----------------------------------------------------------------------------
(* The store *)

\* Mutant: what was detected last is shown.
PublishedLast(chosen, auto) == auto

\* publish: the visitor's choice, or else the automatic target.
Published(chosen, auto) == IF chosen # None THEN chosen ELSE auto

\* A page takes the place of another, and its section begins anew.  Its first render reads
\* the store as the old page keeps it, or, if that has left already, which makes the store
\* forget the device, reads the device.
Open(p) ==
  /\ opened < MaxPages /\ opened' = opened + 1
  /\ page' = p
  /\ mounted' = FALSE
  /\ \/ /\ mounted
        /\ shown' = snapshot
        /\ UNCHANGED <<automatic, snapshot, asking, headStart>>
     \/ /\ automatic' = Detected /\ snapshot' = Detected /\ shown' = Detected
        /\ asking' = FALSE /\ headStart' = FALSE
  /\ path' = NoPath /\ request' = "none"
  /\ cancelled' = {}
  /\ fetched' = [path |-> NoPath, pick |-> Undecided]
  /\ UNCHANGED <<browser, latest, override, early>>

Visit ==
  /\ page.kind # "loading"
  /\ \E tag \in 1 .. latest, from \in {"go", "table"} :
       Open([kind |-> "release", tag |-> tag, from |-> from])

GoHome == page.kind = "release" /\ Open(NoPage)

\* subscribe, once the old page has left, then the effect of the first render.
Subscribe ==
  /\ ~mounted
  /\ mounted' = TRUE
  /\ automatic' = Detected
  /\ snapshot' = Published(override, Detected)
  /\ asking' = browser.hints /\ headStart' = browser.hints
  /\ Rendered(shown)
  /\ UNCHANGED <<browser, latest, opened, page, override, fetched, early>>

\* The timer fires before the hints are there, or they are refused.
NoMorePending ==
  /\ automatic' = [automatic EXCEPT !.pending = FALSE]
  /\ snapshot' = Published(override, automatic')
  /\ headStart' = FALSE

HeadStartEnds ==
  /\ headStart
  /\ NoMorePending
  /\ UNCHANGED <<browser, latest, opened, page, mounted, override, asking, section, early>>

HintsRefused ==
  /\ asking
  /\ NoMorePending
  /\ asking' = FALSE
  /\ UNCHANGED <<browser, latest, opened, page, mounted, override, section, early>>

HintsArrive ==
  /\ asking
  /\ automatic' = [name |-> "hints", hints |-> "hints", pending |-> FALSE]
  /\ snapshot' = Published(override, automatic')
  /\ asking' = FALSE /\ headStart' = FALSE
  /\ UNCHANGED <<browser, latest, opened, page, mounted, override, section, early>>

\* A choice carries the hints that were known when it was made.
Choose(c) ==
  /\ mounted /\ page.kind = "release"
  /\ override' = [name |-> c, hints |-> automatic.hints, pending |-> FALSE]
  /\ snapshot' = Published(override', automatic)
  /\ UNCHANGED <<browser, latest, opened, page, mounted, automatic, asking, headStart, section, early>>

DetectAgain ==
  /\ mounted /\ override # None
  /\ override' = None
  /\ snapshot' = Published(None, automatic)
  /\ UNCHANGED <<browser, latest, opened, page, mounted, automatic, asking, headStart, section, early>>

-----------------------------------------------------------------------------
(* Decisions *)

\* startNavigating on the home page.
StartNavigating ==
  /\ page.kind = "home" /\ mounted /\ opened < MaxPages
  /\ page' = [page EXCEPT !.kind = "loading"]
  /\ early' = IF HasPlatform(shown) THEN [early EXCEPT ![Query(shown)] = Asked] ELSE early
  /\ UNCHANGED <<browser, latest, opened, mounted, store, section>>

\* The page that was navigated to replaces the loading screen.
Arrive ==
  /\ page.kind = "loading"
  /\ \E tag \in 1 .. latest, from \in {"go", "table"} :
       Open([kind |-> "release", tag |-> tag, from |-> from])

\* Go answers for the release that is the latest by then.
EarlyAnswers(q) ==
  /\ early[q] = Asked
  /\ \E a \in {Failed} \cup
              [version : {latest}, pick : {<<q[1], q[2], latest>>, Abstains}] :
       early' = [early EXCEPT ![q] = a]
  /\ UNCHANGED <<browser, latest, opened, page, mounted, store, section>>

\* Mutant: an early decision is used for whatever release the page shows.
AnyVersion(decision, tag) == decision.version # 0

ForVersion(decision, tag) == decision.version = tag

\* fetchReleasePick: the early decision if it is for this release, else a fetch.
UseEarly ==
  LET decision == early[Query(shown)] IN
  /\ request = "early" /\ decision # Asked
  /\ IF ForVersion(decision, page.tag)
       THEN /\ fetched' = [path |-> path, pick |-> decision.pick]
            /\ request' = "none"
       ELSE /\ request' = "fetching"
            /\ UNCHANGED fetched
  /\ UNCHANGED <<browser, latest, opened, page, mounted, store, shown, path, cancelled, early>>

\* A decision, or an abstention, or an error, which counts as one.
FetchAnswers ==
  /\ request = "fetching"
  /\ \E d \in {path, Abstains} : fetched' = [path |-> path, pick |-> d]
  /\ request' = "none"
  /\ UNCHANGED <<browser, latest, opened, page, mounted, store, shown, path, cancelled, early>>

\* Mutant: the cleanup does not mark the request as cancelled.
NotCancelled(p) == FALSE

IsCancelled(p) == TRUE

CancelledEnds(p) ==
  /\ p \in cancelled
  /\ cancelled' = cancelled \ {p}
  /\ IF IsCancelled(p) THEN UNCHANGED fetched ELSE fetched' = [path |-> p, pick |-> Abstains]
  /\ UNCHANGED <<browser, latest, opened, page, mounted, store, shown, path, request, early>>

FetchedPick == IF path # NoPath /\ fetched.path = path THEN fetched.pick ELSE Undecided

\* The decision the button shows; a table of picks has one for every target.
Pick ==
  IF page.from = "table" /\ HasPlatform(shown) THEN Path(shown, page.tag) ELSE FetchedPick

-----------------------------------------------------------------------------
Detection == Subscribe \/ HeadStartEnds \/ HintsRefused \/ HintsArrive
Decision == UseEarly \/ FetchAnswers \/ (\E p \in cancelled : CancelledEnds(p))

EarlyAnswer == \E q \in QueryStrings : EarlyAnswers(q)

Visitor == Visit \/ GoHome \/ StartNavigating \/ (\E c \in Choices : Choose(c)) \/ DetectAgain

Next ==
  \/ Publish \/ Render \/ Detection \/ Decision
  \/ EarlyAnswer \/ Visitor \/ Arrive

-----------------------------------------------------------------------------
\* What the button offers was decided for the target and the release it is shown for,
\* and so is the file its link pins, since both come from the same render.
OfferIsForTarget ==
  Pick \notin {Undecided, Abstains} => Pick = Path(shown, page.tag)

\* A choice stands against every detection that comes in later, until it is undone.
ChoiceStands == mounted /\ override # None => snapshot = override

-----------------------------------------------------------------------------
\* Renders happen, timers fire and requests end.  The hints may never come.
Fairness ==
  /\ WF_vars(Render) /\ WF_vars(Subscribe) /\ WF_vars(HeadStartEnds)
  /\ WF_vars(UseEarly) /\ WF_vars(FetchAnswers) /\ WF_vars(EarlyAnswer)

\* The button makes up its mind: it shows a decision for the present target, or the
\* page has none to make.
Settled ==
  page.kind = "release" =>
    /\ mounted /\ shown = snapshot
    /\ page.from = "go" /\ HasPlatform(shown) => Pick # Undecided

\* It is settled again and again, unless the visitor keeps changing pages or targets,
\* whether or not the hints ever come and however late cancelled requests end.
DecisionArrives == []<>Settled \/ []<><<Visitor>>_vars
=============================================================================
