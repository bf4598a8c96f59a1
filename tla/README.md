# Verification of Yatko

Yatko turns a GitHub repository into a download page. A Go backend
(`src/backend`) fetches releases, picks the file that fits the visitor's device
and inspects files for evidence of what they are; a Next.js frontend
(`src/frontend`) renders the page and re-decides in the browser.

This directory holds TLA+ models of the parts of it that act concurrently or
fail in the middle and of the way a visitor comes by a file, from the inspection
of its contents to the click, the TLC configurations that check them, and TLAPS
proofs of all safety properties but three, which section 4 names. `PROJECT.json`
lists the components, the runs, which lines of the source each definition stands
for, and the hazards that the properties are aimed at.

    tlc -workers 2 -config MCArtifactScan.cfg MCArtifactScan
    tlapm ArtifactScan_proofs.tla

## 1. Inventory

| Part | State | Operations | What is hard about it |
|---|---|---|---|
| Artifact scan queue (`artifactscan/store.go`, `worker.go`, `cmd/artifactscan`) | one record per asset: state, attempts, due time, lease token, evidence | `Enqueue`, `candidates`, `claim`, `finish`, `Run`, `worker -once` | several worker processes, leases that expire under a worker, deaths at any point, clocks that differ, retries with backoff |
| Artifact scan store (`store.go` `mutate`, `local.go`, `config.go`) | the record and its membership in the due set (Redis), or a file and its lock | `mutate`, `Lookup`, `LookupMany` | optimistic transactions that conflict, time out and may still be executed; rename and sync of files |
| Two-level cache (`cache/redis.go`, `l1.go`) | L1 map, Redis, pause after a network error, singleflight flights | `FetchCached`, background revalidation, `Invalidate`, `GetCached`, `StoreCached` | stale-while-revalidate, a refresh among loads in flight, Redis failing at each command |
| Jev decision gate (`jev/primary.go`) | slots in use, failure count, `openUntil` | `Decide`, `Warm` | lock-free slots, a breaker of three atomic words, goroutines that outlive their request, shared runs |
| Jev client (`jev/decide.go`, `describe.go`, `jev.go`) | coalesced description cache | `Decide`: guard, judgement, choice, gate; `post` with retry, `Describe` | the model may answer anything; what was observed must outweigh it |
| GitHub client (`github/client.go`) | `remaining`, `resetAt`, and the Search API's pair | `checkBudget`, `recordRateLimit`, conditional requests | two atomics that are read and written apart, late responses |
| Rate limiter (`ratelimit/limiter.go`, `middleware/ratelimit.go`) | counter and TTL in Redis, a map of windows per process, `downUntil` | `Allow`, `allowLocal` | a pipeline that is no transaction, resends, the change between the two counters |
| HTTP handlers (`handlers/*.go`) | remembered offers and observations, in the cache | page, link, download; manifests, scans and probes put together | what a page offers against what `/dl` serves later; evidence that comes in any order, is stale or missing; a budget of probes |
| Picker (`picker/*.go`) | none | `Classify`, `FactsForAsset`, `DecideAsset` | names and contents that contradict each other; "unknown" everywhere |
| Publisher manifests (`github/release_metadata.go`) | none | facts of cargo-dist, Tauri and Electron manifests, merged | claims that contradict each other or the contents |
| File inspector (`github/inspection*.go`, `zip_safety.go`) | none between files | headers, a bounded sample, a full scan | helpers, stubs and libraries beside the program; what is left unread; nesting |
| Search autocomplete (`search/autocomplete.go`) | none | merge, rank | two queries whose results are merged |
| Search box (`use-repo-search.ts`) | input, suggestions, cache of queries, the request in flight | keystrokes, debounce, answers, abort | answers that arrive out of order |
| Download section (`use-platform.ts`, `download-section.tsx`, `link-decision.ts`) | detected and chosen platform, a link decision | detection, choice, late decision | detection and decisions that resolve after the visitor has chosen |

How they interact. A release page calls the cache, which calls the GitHub client
behind its budget guard; a refresh (`page.go`) first invalidates. The handler
asks the Jev gate for a decision, which uses the same cache and falls back to
the picker. Before that it merges the publisher's manifests, the records of the
scan store and a few live probes into what is known of each file, and enqueues
the files worth a full scan; worker processes share nothing with the web process but
that store. The rate limiter stands before all handlers.

What makes each part correct, in one sentence each:

- **Queue**: one lease holder per record, only the last attempt's result counts,
  a healthy worker keeps its lease, every job is settled.
- **Store**: `mutate` is atomic, each change is made once, the due set is
  exactly the records that have a due time.
- **Cache**: one flight per key, every caller returns, stale entries do not
  last, a refresh is current.
- **Jev gate**: slots are counted exactly and given back, outages open the breaker.
- **GitHub guard**: the reserve is overrun by little, refusals end.
- **Inspector**: what speaks for a whole file is what its main program is for;
  a sample that missed something says so.
- **Picker, Jev client and handlers**: what is served runs for its visitor, is what
  was clicked and is not broken; an offer stands; nobody is turned away for whom a
  file runs.
- **Rate limiter**: bounded memory, a `Retry-After` that is short by less than a
  second, nobody is locked out.
- **Search box**: at rest the list is the answer to what is typed.
- **Download section**: the button's file was decided for the target and release it
  is shown for, the visitor's choice stands, and a decision always comes.

The full list of hazards, each at its line with the properties that cover it, is
in `PROJECT.json`.

## 2. Modules

| Module | Models | Extended or instantiated by |
|---|---|---|
| `ScanJobs` | the abstract life cycle of jobs: none, waiting, running, complete or error | `ArtifactScan` (refinement) |
| `ArtifactScan` | queue, workers and the web process | `ArtifactScan_proofs`, `MCArtifactScan` |
| `AtomicRecord` | an abstract record that calls change atomically | `ScanStore` (refinement) |
| `ScanStore` | `Store.mutate` in both backends | `ScanStore_proofs`, `MCScanStore` |
| `FetchCache` | `FetchCached` and `Invalidate` for one key | `FetchCache_proofs`, `MCFetchCache` |
| `JevPrimary` | `Decide` and `Warm` | `JevPrimary_proofs`, `MCJevPrimary` |
| `GitHubBudget` | `checkBudget` and `recordRateLimit` with GitHub's windows | `GitHubBudget_proofs`, `MCGitHubBudget` |
| `RateLimiter` | `Allow` and `allowLocal` | `RateLimiter_proofs`, `MCRateLimiter` |
| `Picker` | names, facts, `DecideAsset` | `JevGate` |
| `JevGate` | what Jev may be asked and what its answers are worth | `Download` |
| `Manifests` | publisher manifests, `MergeObservations` | `Inspector`, `Download` |
| `Headers` | ELF, PE and Mach-O headers | `Inspector` |
| `Inspector` | `InspectArtifact`, the bounded inspection of a file | `DeepInspector` |
| `DeepInspector` | the scan worker's inspection of a whole file | `MCDownload` |
| `Download` | requests, offers, caches and scans of one release | `Download_proofs`, `MCDownload` |
| `RepoSearch` | the search box of the home page | `Visit` |
| `DownloadSection` | the platform store, a release page's decision and early decisions | `Visit` |
| `Visit` | one browser tab: home page, release pages and the store between them | `Visit_proofs`, `MCVisit` |

`X_proofs` holds the theorems about `X` and their proofs; section 4 tells what they
say.

An operator with a comment that begins `Mutant:` is a plausible mistake in the
definition that follows it. It is used by no specification; `PROJECT.json` names
the property that breaks when it takes the definition's place.

### ArtifactScan

`rec[k]` is the `Record` of an asset without the fields no decision reads.
`attempts` and `token` are the code's; the token is the number of the claim
instead of sixteen random bytes, so "different" is exact. `left` is the due time
or the end of the lease as ticks to go on the slowest clock, and a process
compares it with its own clock, which is `Skew[p]` ahead. `meta.by` remembers
which attempt produced the evidence, so that "the last attempt's" can be stated.
`pc`, `cand` and `att` are the locals of `ProcessNext` in each worker: the
candidates of its scan, then the attempt in hand.

`Enqueue`, `Scan`, `SkipKey`, `Claim`, `GiveUp`, `Inspect`, `Finish` and
`LeaseLost` are the code's steps, one `mutate` each. `Stop` is a death or the
end by a store error at any point, `Start` the restart, `Stall` an inspection
that outlives its timeout (a suspended process, an inspector that ignores its
context). A stalled attempt is never bounded again. `Tick` does not let a healthy
attempt run beyond `AttemptTimeout + StoreTime`, which is what
`context.WithTimeout` and the store's timeouts give.

### ScanStore

Whether one `mutate` may be a step of `ArtifactScan` is the question of this
module. It takes `mutate` apart: WATCH, GET, the change, EXEC with its
conditions, and lock, read, rename, sync. The record's contents are the calls
whose change it carries, so a lost or repeated change is visible. A call can
fail in each state; a transaction that was sent may still be executed
(`AfterFailure`). The refinement of `AtomicRecord` says that every call is one
step, at its EXEC or rename, or at its read, and that the record is listed for workers
(`Listed`: the due set of Redis, or what `localCandidates` keeps of the directory)
exactly while it is unsettled. EXEC itself is one step, as Redis promises.

### FetchCache

One key, versions in place of values. A goroutine is a request's or the one
`FetchCached` starts to revalidate. `leader` is the flight that the
singleflight group holds. `RedisWrite` lists what a write can do: nothing while
paused, the write, an error before or after the write took effect. `refresh`
is a history variable: the version when a refresh began and whether anything
disturbed it.

### JevPrimary, GitHubBudget, RateLimiter

Each atomic load, store and compare-and-swap is an action of its own, because
these are what other goroutines come between. In `JevPrimary` a call (`pc`) and
the goroutine it starts (`bg`) are separate, and `Sharers` are those who get the
same run's result. In `GitHubBudget` a time is one of unset, future, past; a new
window turns future to past everywhere, responses in flight included; the
guard's Search API copy is the same code. In `RateLimiter` the pipeline is INCR,
then EXPIRE NX, each of which may be done without its reply arriving; INCR may
be counted twice, as go-redis resends; `by` remembers which counter refused. A wait
is rounded as in the code: Redis answers TTL with the nearest second (`TTLAnswer`), the
middleware cuts the header to whole seconds (`Told`).

### Picker, JevGate, Manifests

Pure operators, named as in the code. A file's name is the set of catalogue tokens
found in it; the tables of `catalog.json` are functions. An observation has the
fields that decisions read. Where `Classify` goes over a Go map, so that the answer
depends on its order, the choice is a parameter (`first`), free in `Download`.
`Shortlist` has the policy steps of `DecideAsset` in their order, as sets. In
`JevGate` the model's distributions are whole percents, and `ValidChoice` holds of
exactly the answers that `choose` accepts.

### Headers, Inspector, DeepInspector

A file is a value that says what its bytes are: a program with a header, an archive
with entries, a stream around one entry, a setup program, a package. A header has
the fields the code reads and those that tell what it really runs on
(`TrueTargets`). `InspectArtifact` takes the sample the code takes: two headers of an
archive, the entries within reach, the first of each directory named for a CPU.
`InspectFile` unwraps what the extractors list until it comes to main executables, in
the code's order: Mac bundles, MSIX, Electron packages, executables, libraries, nested
payloads. A result that is an error stays one on its way up, except where the code
drops it.

### Download

One repository's release. `upstream` is what GitHub has, `known` the release as cached;
a re-upload makes them differ until the cache is refreshed. A request (`req`) takes the
cached files, the manifest facts and the scan records at its start (`Ask`), makes its
probes in the code's order (`ProbeCached`, `ProbePasses`, `ProbeReads`, `ProbeFails`)
until `Deadline`, and answers (`Answer`, `AnswerPage`): `Enriched` is what
`enrichArtifacts` makes of a file, `Decisions` all that `pick` may decide. `answer` is
what the visitor receives and `Leave` takes it away; properties about what is served
look at it. `RunsOn` is the truth about the files that no code knows; `MCDownload`
takes it from their main programs, and what the inspectors find (`Shallow`, `Deep`)
from `DeepInspector`: `Download` knows a release only by its `contents`, so that what
is proved about it holds whatever the inspectors answer. Offers carry, for `OfferStands` alone, the evidence
they were made on.

### Visit: RepoSearch and DownloadSection

In the browser nothing interrupts a handler, so an action is a handler: an effect,
a timer's callback, the continuation of a `fetch`. What comes in any order is the
callbacks. `RepoSearch` has the request that `abortRef` holds (`flight`, and whether
it was aborted) and those it holds no longer (`orphans`); `failed` is a history
variable. `DownloadSection` separates what the store shows (`snapshot`) from what the
page was last rendered for (`shown`), since effects and requests belong to the
latter. A target is named by where it comes from: the user agent, the browser's
hints, or the visitor. `early` is `earlyPicks`, which outlives pages. `Open` covers
both orders in which a page can replace another: the new one's first render sees the
store the old one still keeps, or an emptied one. `Visit` joins the two: leaving
the home page takes the search box down, and a click there starts a decision.

## 3. Runs

| Run | Checks | Size |
|---|---|---|
| `scan` | `TypeOK`, `OneLeaseHolder`, `EvidenceFromLastAttempt`, `ExhaustedOnlyAfterLastAttempt`, `HealthyAttemptKeepsLease`, `ImplementsJobs`, `EveryJobSettles`, `OnceEnds` | 89,976 states |
| `scan_once` | `OnceDrains`, violated | |
| `scan_store` | `TypeOK`, `EveryChangeOnce`, `BusyMeansOthersWrote`, `ImplementsAtomicRecord`, `CallReturns` | 8,090 |
| `cache` | `OneFlight`, `UndisturbedRefreshIsCurrent`, `EveryCallReturns`, `StaleDoesNotLast` | 129,125 |
| `cache_refresh` | `RefreshReachesOrigin`, violated | |
| `jev` | `SlotsMatchGoroutines`, `TripIsUnderWay`, `SlotsReturned`, `AcquireIsLockFree`, `OutageTripsBreaker` | 13,158 |
| `github_budget` | `OvershootBounded`, `StuckOnlyByOverlap` | about 10,000 |
| `github_sticks` | `RefusalsEnd`, violated | |
| `rate` | `TypeOK` with the bound of the map, `RetryAfterIsNearlyEnough`, `NeverLockedOut` | 348,639 |
| `download` | `ScanTellsTheMain`, `SampleMissesNothing`, `ScannedRuns`, `BrokenNeverServed`, `PinnedOrNothing`, `OfferStands`, `NotTurnedAway` | 140,244 |
| `download_fills` | `RepeatedRequestsFillIn`, violated | |
| `visit` | `ListFollowsInput`, `SpinnerHasRequest`, `OfferIsForTarget`, `ChoiceStands`, `DecisionArrives` | 424,358 |

### Bounds, and why they are enough

- *Queue*: two workers and two assets. Two is what it takes for a lease to be
  replaced while its holder works and for a scan's candidates to be taken by
  another. Two attempts, a first and a last; lease 3, timeout 1 and one clock a tick
  ahead, so that the margin is as small as `LeaseMargin` permits. `Batch` is 1, so
  that a scan can leave due keys out; the code's 32 is never reached with two assets
  otherwise. `issued` needs no bound: attempts per job are bounded, and no job
  starts over. That a middle attempt is no different is part of what is proved.
- *Store*: three calls, one of which settles the record, with two tries each. A
  call can lose one try and win the next, or lose both.
- *Cache*: one instance, a refreshing and a plain caller with a background
  goroutine each, two versions. Two callers make joins, late fills and late
  writes possible. A second instance shares only Redis with the first, which the
  model lets change, expire and fail at any time anyway; the second instance's
  stale L1 after an `Invalidate` is noted among the hazards.
- *Jev*: three calls, one of them `Warm`, two slots, two failures to trip, one
  key. Three calls for two slots make the pool full; two failures make trips race.
- *GitHub*: two callers. `MaxOver` is 4 for them, 12 for three and grows with the cube
  of their number; TLC reaches it, and 3 or 11 do not hold. `Quota` and `Reserve` leave
  more than that on either side, so the bound is not the quota itself.
- *Rate limiter*: two visitors, one served by both callers, limit 2, room for
  one key in the map. A second has two ticks and the window is one second, so
  that the header cuts half a second off what is left in the local map, and Redis rounds
  one up. What Redis rounds down takes a third tick and several times the states; that
  case is the theorem's (`WaitIsNearlyEnough`, for every `Second` and `Window`). With
  limit 1 `NeverLockedOut` fails in the model, since a pipeline that is resent every
  time counts twice every time; the code's limits are far above that.
- *Download*: 41 releases of one or two files, 39 kinds of file, each kind there for a
  way through the inspector: a helper before the main program, a stub with another CPU,
  a copy per CPU, a sealed setup, a launcher script, a limit reached. The limits are
  small (three levels, nested payloads, executables and candidates; one live probe per
  request) so that files come to either side of them. Two files are what a tie, a
  rejected pin and a spent budget take. One request at a time: the code's requests
  share only the caches and the scan store, and what others do to those is steps of
  its own (`ScanCompletes`, expiry, `Reupload`, `RefreshRelease`) that come between
  any two steps of a request. Guesses of the model: right, wrong, and an answer that
  says it does not know.
- *Visit*: three queries, one that narrows another and one without hits, and a cache
  for one answer, so that answers are evicted; the search box is followed on the first
  home page, as a later one starts anew. Two releases, so that one can be published
  between an early decision and the page; two page changes, so that an early decision
  can meet the page it was for, another release's page, or a page that is left again;
  one choice besides the two detections. The two releases belong to one repository;
  decisions for different repositories have different paths and never meet.

`CHECK_DEADLOCK FALSE` is set where a system comes to rest: in the store's run
all calls return, in the tab the visitor stops after the last page, in the cache, Jev, GitHub and limiter runs each member of a
small set of callers may rest.

### Fairness

- *Queue*: time passes; a worker in `inspecting` or `finishing` goes on, or dies;
  a dead `Run` worker is restarted. Strong fairness of `Scan` and `ClaimStep`:
  each may be cut off by a death any number of times, but not for ever, which is
  what a supervisor and a store that mostly answers give. `Stall`, `Stop` and
  the restart of `worker -once` have no fairness.
- *Store*: a call goes on, `Step` weakly fair. Nothing about `Fail`.
- *Cache*: goroutines run; fetches end, since their clients have timeouts;
  requests arrive and entries age; of fetches that are tried for ever some succeed
  (strong fairness of `FetchOk`). Nothing is assumed of Redis.
- *Jev*: calls and goroutines go on. `OutageTripsBreaker` states its own condition.
- *GitHub*: windows end; visitors come; requests are answered at times (SF).
- *Rate limiter*: time passes, calls go on, and every visitor comes back (SF of
  `Allow` for each visitor: some caller is free for a visitor again and again).

- *Download* (`FairSpec`): requests end, as `artifacts.go` bounds their reads by three
  seconds; the page keeps being loaded (WF); a file that is asked for again and again
  is reachable at times (SF of `ProbeReads`).
- *Visit*: React renders what the store announced and runs the effects, the timer of
  the head start fires, decisions that were asked for are answered or fail. Hints need
  never arrive, requests that were cancelled need never end, and nothing is assumed of
  the search box. `DecisionArrives` excuses a visitor who for ever chooses anew.

### What the violated runs show

- `scan_once`. `artifactscan/README.md:86` says that `worker -once` "drains jobs
  that are currently due and exits". Its loop (`cmd/artifactscan/main.go:111`)
  returns on every error of `ProcessNext`, `ErrLeaseLost` too, which `Run` treats as
  harmless: a worker whose attempt overran leaves with jobs due.
- `cache_refresh`. The comments at `cache/redis.go:276-278` and
  `handlers/page.go:128-129` promise that a refresh reaches the origin. `FetchCached`
  after `Invalidate` joins a load that is in flight (`redis.go:197`), which may
  have fetched before; and a value read or fetched earlier may be put into L1 or
  Redis after the delete. `UndisturbedRefreshIsCurrent` states what does hold.
- `github_sticks`. `client.go:148-154` says the guard must not stick until
  restart. `checkBudget` clears with two stores (`160-161`). A late response
  recorded between them leaves a low count with `resetAt` 0; if the probing request
  then fails, nothing clears again and every call is refused.
  `StuckOnlyByOverlap` shows that this overlap is the only way.

- `download_fills`. `handlers/artifacts.go:63-64` says that repeated requests "fill in
  every uncertain asset a few at a time". The failure of a malformed file is not cached
  (`artifacts.go:76-90`), so each request reads it anew, and in the same order. As many
  malformed files as the budget allows probes (four) keep every file behind them from
  being read.

One more disagreement, about words only: `middleware/ratelimit.go` says the
middleware does nothing when no Redis is configured, but `Allow` then uses the
process-local window, as the comment on `Limiter` itself says.

## 4. Proofs

`ArtifactScan_proofs` proves, for any sets of assets and workers, any number of
attempts, any lease, timeout and delay, and any clocks within the margin:

| Theorem | States |
|---|---|
| `SpecIndInv` | `Spec => []IndInv` |
| `TypeCorrect` | `TypeOK` |
| `LeaseIsExclusive` | `OneLeaseHolder` |
| `EvidenceIsFromLastAttempt` | `EvidenceFromLastAttempt` |
| `ExhaustionIsEarned` | `ExhaustedOnlyAfterLastAttempt` |
| `HealthyAttemptsAreSafe` | `HealthyAttemptKeepsLease` |
| `QueueImplementsJobs` | `Spec => Jobs!Spec` |
| `JobsOnlyAdvance` | each write to an enqueued record spends one of 2 * `MaxAttempts` stages, or a tick of its wait |
| `SettledForGood` | a settled record is never written again |
| `JobsFallDue` | an unsettled record falls due within `B`, if `B` outlasts a lease and every backoff |

The assumptions are `ScanConstants`, whose last conjunct says that the powers of two
of the retry delay are natural numbers, because the prover knows nothing of `^`, and
`LeaseMargin`: no two workers' clocks differ by as much as the lease exceeds the
attempt's timeout and store time. TLC evaluates both for the constants of the runs.
`HealthyAttemptKeepsLease` needs `LeaseMargin`: the mutant whose lease is no longer
than the attempt violates it.

None of the four invariants is inductive. `IndInv` adds:

- `RecordsCoherent`: what each state of a record implies for its attempts, token
  and evidence. Without it a retry could be left with all attempts used.
- `AttemptsCoherent`: an attempt's token was drawn, and while it holds the lease
  the record's count is the attempt's number. This is why a result that is
  accepted is the last attempt's.
- `TokensDiffer`: busy workers have different tokens, since a claim draws a token
  above all that were drawn. This is why one lease has one holder.
- `LeaseCoversAttempt`: a healthy attempt's lease has run down by no more than the
  attempt has taken. With `LeaseMargin` no other worker finds the record due.

The proof that a step preserves `IndInv` has a lemma per action. The refinement
maps `Claim` to the start of a try, `Finish` to its settling or its return to
waiting, `GiveUp` to settling as exhausted, and everything else to a stutter; it
uses `IndInv` for the guards of `ScanJobs`.

`EveryJobSettles` is liveness, so TLC's; what it needs of safety is proved. `Stage` counts
the claims and endings a record can still have, and each write of the store takes one
away (`RecordStep` says which writes there are, `WriteNearer` what they do to the
stage), so no worker that comes late and no enqueue sets a job back. A record that is not
settled has a stage left and a delay that is within the bound of `Outlasts`, on every
clock, so a dead worker's job is claimed again or exhausted as soon as a worker looks.

### The other modules

| Module | Theorem | States |
|---|---|---|
| `ScanStore_proofs` | `StoreInvHolds` | `Spec => []StoreInv` |
| | `StoreTypes` | `TypeOK` |
| | `ChangesMadeOnce` | `EveryChangeOnce` |
| | `BusyIsEarned` | `BusyMeansOthersWrote` |
| | `StoreImplementsAtomicRecord` | `ImplementsAtomicRecord` |
| | `SomebodyGoesOn` | a call without an answer, or the holder of its lock, can go on |
| | `CallsAreFinite` | a call has at most 3 * `MaxTries` + 5 steps, and every step spends one |
| `FetchCache_proofs` | `CacheInvHolds` | `Spec => []CacheInv` |
| | `FlightIsShared` | `OneFlight` |
| | `RefreshIsCurrent` | `UndisturbedRefreshIsCurrent` |
| | `CopiesArePublished` | no copy is newer than the origin |
| | `CallsAreFinite` | a call has at most seven steps left, its own or its leader's |
| `JevPrimary_proofs` | `PrimaryInvHolds` | `Spec => []PrimaryInv` |
| | `SlotsAreExact` | `SlotsMatchGoroutines` |
| | `NoTripIsLost` | `TripIsUnderWay` |
| | `RunsAreShared` | one run of the service per key, and none who joined is left alone |
| | `SlotsComeBack` | a slot is at most seven steps from free, its goroutine's or its run's |
| | `FailsBounded` | the failure count stays below `BreakerFails + MaxInFlight` |
| | `SwapsAreLostToOthers` | lost swaps are bounded by the others admitted meanwhile |
| | `OutagesAreNoticed` | the breaker opens within a bounded number of failures in a row |
| `GitHubBudget_proofs` | `BudgetTypes` | `TypeOK` |
| | `ReserveIsKept` | `OvershootBounded` |
| | `StuckNeedsOverlap` | without an overlap a low count has its reset time |
| `RateLimiter_proofs` | `LimiterInvHolds` | `Spec => []LimiterInv` |
| | `LimiterTypes` | `TypeOK` |
| | `WaitIsNearlyEnough` | `RetryAfterIsNearlyEnough` |
| | `WindowLimit` | no counter and no window lets more than `Limit` requests pass |
| `Download_proofs` | `ClickedOrNothing` | `PinnedOrNothing` |
| | `ServedWasAccepted` | `Spec => []AcceptedInv` |
| | `BrokenIsNeverServed` | `BrokenNeverServed` |
| | `ScannedFilesRun` | `ScannedRuns`, as long as `NothingButTheMain` |
| | `OffersStand` | `OfferStands` |
| | `NobodyIsTurnedAway` | `NotTurnedAway`, as long as `ScanTellsTheMain` |
| `Visit_proofs` | `SearchIsSound`, `PageIsSound` | the invariants of the search box and the page |
| | `ListIsForInput` | `ListFollowsInput` |
| | `SpinnerStops` | `SpinnerHasRequest` |
| | `ChoiceIsKept` | `ChoiceStands` |
| | `OfferFits` | `OfferIsForTarget` |
| | `ButtonIsWaitedFor` | an undecided button has a step of `Fairness` before it |

Each assumes the module's constants' assumptions and no more, but for the three with a
hypothesis: `ScannedFilesRun` and `NobodyIsTurnedAway` about the scans, which the run
checks (`NothingButTheMain` is a part of `ScanTellsTheMain`), and `StuckNeedsOverlap`.
Two assumptions are there for proofs alone: no call is named like `Nobody` in
`JevPrimary`; in `Download` a scan reports finitely many targets, with CPUs by the names
the site has for them (only packages' declarations, which no full scan reports, spell them
otherwise), and an answer about attributes has the five fields that are asked for. The arguments:

- *Store*. `StoreInv` has four parts besides the types. The place a call has reached
  tells whether its change is in the record, so no change is lost or made twice. What a
  call is about to write extends the record as it is: in Redis unless it was told of a
  write (`WatchedIsCurrent`), in a file because it holds the lock (`LockedIsCurrent`).
  The due set holds the record exactly while it has a due time (`IndexFollowsRecord`),
  which the refinement needs for `Listed`.
  Each lost try was paid for by another call's write (`TriesPaidFor`), and one call
  writes once, so a record as long as `MaxTries` is enough writers for a refusal. The
  refinement maps EXEC and rename to the abstract write, a read that settles to the
  abstract read, everything else to a stutter. With it, one `mutate` is one step, which
  is what `ArtifactScan` assumes: the two proofs meet there. That calls end needs, besides
  fairness, that one can go on (`HolderLives`: the lock is held by a call with steps
  before it) and that a conflict, which starts a try anew, is paid by one of `MaxTries`.
- *Cache*. `Flights` ties the goroutine that loads to the group's `leader` in both
  directions, hence one flight, and a leader for all who wait. `AloneInv` follows a
  refresh that nothing disturbed through its places: its copies are gone until it
  fetches, and what it fetched is no older than its beginning. `StepsLeft` counts down
  whatever the goroutine's driver does, the leader for those who wait, itself otherwise.
- *Jev gate*. The set of goroutines that hold a slot grows and shrinks by one with the
  counter; `AdmittedBelowLimit` is what the compare-and-swap preserves (what it swaps
  is what it compared with). A count at the limit has a goroutine that will trip, and each
  failure beyond the limit has one of its own (`FailsAreTripping`), of which there are no
  more than slots. Runs and slots end as the cache's flights do.
- *Jev gate, progress*. History variables count what liveness properties speak of. Each
  lost swap saw a slot taken or freed, and no more slots are freed than there were and have
  been taken (`Paid`). A counted failure stands or was wiped by a goroutine that had
  opened the breaker before the last opening was forgotten; each such goroutine holds a
  slot and wipes once (`WipedByFew`), so failures in a row are bounded.
- *GitHub, the reserve*. `OverInv` is a balance: while the window's count is below the
  reserve, what was taken and what can still be taken (`Potential`) is no more than
  `MaxOver`. Each caller is of a kind (`Kind`): free, about to send, about to open the
  guard with a stale count or a clear, about to bring a reset time that has passed, or
  about to close the guard. With `k` callers free, a stale count lets `k` of them pass,
  and a reset time that has passed lets 1 + 2 + ... + (k + 1) of them pass, since each
  that sees it opens the guard for all that are free by then. `Potential` adds this up
  as numbers of kinds; every step of a caller keeps it or lowers it, a counted request
  by one at least (a lemma per step, `CanPass` to `CanExpire`, over plain numbers), and
  it is never negative. The caller that takes the count below the reserve is about to
  close the guard, which is why it has none to give.
- *GitHub, the reset*. While no response is recorded between the two stores of a clear, a low count
  has its reset time or a response about to write it. The theorem is about behaviours
  with `[]~Overlap`, the safety half of `StuckOnlyByOverlap`; the other half, that the
  guard then opens, is liveness and TLC's.
- *Rate limiter*. What a visitor was told is kept since the counter that refused stays
  as long as the wait: `CountersLive` (a counter is there as long as it has a TTL or
  needs one) and `Promises` (EXPIRE NX leaves a TTL, and the wait that was told falls
  short of it by less than half a second, or less than a second where the map refused;
  `TTLAnswerIs` and `ToldIs` bound the two roundings). The wait the visitor is told can
  be 0 when the counter is about to end. That
  the map fits its room is cardinality: a map is pruned before it grows. `WindowLimit` is about
  two history variables that count the requests a counter or a window lets pass: each has
  its own number within the limit (`Within`), a resent INCR uses up one more.
- *Download, the click*. `PinnedOrNothing` needs that a page has no pin and that each
  of the three makers of a decision keeps one: an offer is made for the pin, Jev's answer
  is checked against it, the rules are given the pinned file alone.
- *Download, what is served*. `AcceptedInv` says that each file served was accepted
  (`Accepts`: the rules' verdict is that of a candidate, or the guard's validation holds)
  on the evidence of the request it answers (`Enriched`), and that a request is as
  `Ask` and the probes leave it (`WellAsked`). Each way of deciding leads there: an
  offer and Jev's answer are validated (`JevNamesACandidate`), the rules choose the best
  of those judged as candidates (`RulesNameACandidate`). That there is a best one is
  an argument about four-place scores (`SomeoneIsBest`): each place is a number from
  -1 on, so it has a least value, which is well-foundedness of the naturals in the
  form `LeastOfNaturals`. The rest is what acceptance implies.
- *Download, broken files*. A failed scan stays failed when publisher, probe, name and
  description are merged with it (`FailureStays`, `BrokenIsSeen`), and a failed file is
  vetoed by rules and guard alike (`BrokenIsRefused`).
- *Download, scanned files*. What a complete scan says of targets outlives the merge with
  the publisher's claims or is contradicted, which both readers refuse (`MergedTargets`,
  `ConflictsStay`); the name adds no more than the libc, the launcher of an AppImage
  narrows the targets, and the guesses for what is unknown do not apply (`FactsOfComplete`).
  So a file that is accepted on it has a target that fits (`AcceptedFits`), and that
  target is true as long as the scan is (`SettledMeansRuns`). `ScansTellInv` carries the
  truth of the scans to the requests that read them.
- *Download, offers*. `OffersInv` says that an offer of Jev's is earned (`Earned`): the
  gate's confidence was enough and the file was valid on the evidence that the offer
  carries. A request with the same evidence reads the file alike (`ReadAlike`), so the
  validation that the click repeats gives the same answer, and the click is served by
  the offer before Jev or the rules are asked.
- *Download, nobody turned away*. `ScanTellsTheMain` gives that a request has heard of a
  target that suits its visitor (`HeardOut`) in evidence that nothing but a name speaks
  against. The target lives through both readings (`SuitedFilled`, `SuitedSpecific`),
  so the rules count the file as a candidate, a conflict or unresolved and never say that
  nothing runs (`RulesHear`, `RulesKeepTrying`). For Jev the file is a candidate of the
  guard, or one of those that need verification, where Jev abstains (`HeardIsValid`); a
  wrong guess about it gives way to what the scan has proven (`ObservedAttrs`,
  `JudgedToRun`), also where the visitor's CPU emulates the file's, so the gate has
  something to choose (`JevKeepsTrying`). A rejection that is served was one on the
  request's evidence (`RejectedInv`). The proof corrected the property: a link with a pin
  is about the pinned file alone, and a visitor who asks for a libc may be refused for it.
- *Visit*. `CacheHasHits` excludes that a cached answer is announced as empty;
  `SpinnerHasRequest` and `ListFollowsInput` are inductive with it. For the page,
  `PathIsShown`, `FetchedForPath` and `EarlyForQuery` say which target, path and release
  each pending answer belongs to; `OfferIsForTarget` is their consequence. For the
  button's wait, `StoreInv` says that a target with hints pending has the timer running,
  `PathInv` that a path has its request or its answer.

### Only model-checked

- Every liveness property: fairness and `ENABLED` are out of the prover's reach. Their
  safety halves are theorems for `EveryJobSettles` (`JobsOnlyAdvance`, `JobsFallDue`),
  `CallReturns` (`SomebodyGoesOn`, `CallsAreFinite`), `EveryCallReturns`, `SlotsReturned`,
  `AcquireIsLockFree`, `OutageTripsBreaker`, `StuckOnlyByOverlap` and `DecisionArrives`:
  steps are bounded, and one that Fairness names is there to be taken. For `OnceEnds`,
  `StaleDoesNotLast` and `NeverLockedOut` there is only the run.
- `ScanTellsTheMain` and `SampleMissesNothing`: they say that the inspector is right
  about files, and the inspector is recursive over nested ones (`RECURSIVE` operators
  and recursion over data, both out of reach). The run enumerates kinds of file. The
  first is the hypothesis of `ScannedFilesRun` and of `NobodyIsTurnedAway`: TLC says that
  scans are true of these files and that requests hear of them, the theorems that nothing
  between there and the visitor spoils it. With arbitrary names and manifests the
  hypothesis fails, as claims may contradict a scan: `NotTurnedAway` is a property of the
  files that publishers make.
- What folds over manifests, tables and results compute for every input: a proof by
  induction takes its statement as an operator, which the provers cannot. Arguments by
  a least number are possible, and the theorems about `Download` use them.

## 5. What is not modelled

- *Bytes*: how a name is cut into tokens, header fields and archive entries are
  parsed, streams decompressed, JSON and YAML read; the range reader; logging and
  wording. The extractors (7zz, the Inno tool) are external: an entry list is given.
- *Caps of the inspector* on bundles, bundle packages, launcher siblings, libraries,
  bytes and commands; those on levels, payloads and executables are modelled.
- *Jev's calls*: the retries of `post` and the cache of descriptions. An answer is any
  one that passes the checks; a failure is the rules' turn.
- *Several requests at once* in `Download`, errors of GitHub before the release is
  known, the README and version endpoints, the cache of attribute results.
- *Other instances' L1* after an `Invalidate` (a hazard with no property).
- *Corrupt records*: `candidates` and `claim` return an error for a record that
  does not parse, which ends every worker (listed as a hazard).
- *Loss of data by Redis*, such as eviction of scan records.
- *Key capacity of L1*: an eviction is a step that may happen at any time; that the
  LRU order is kept is not modelled yet.
- *The search box*: whether the list is folded away. An answer that arrives after
  Escape or the loss of focus unfolds it again, and after a query without hits the
  list stays announced as empty while the next query's request fails; no text of the
  repository promises otherwise.
- *Releases without assets* in the download section: they have nothing to decide.
- *Search autocomplete*, the *batch command* and the endpoints of the GitHub client:
  ranking, a fan-out with a report, and requests without shared state beyond the guard.
  The batch command's pool of workers is the one concurrent part of these.
- Offline tools (corpus and harvest of the picker), the Inno Setup bridge, start-up
  and rendering: no protocol to check.

Some behaviour that came up while modelling and that no property judges, since no text
of the repository promises otherwise:

- A full scan that proves nothing still leaves its mark on the facts
  (`artifact_scan.go:67-85`), after which Jev no longer doubts a setup stub's CPU.
- The rules may offer a file with an extension the catalogue does not know; when Jev
  is back, the click on it is refused. `OfferStands` is therefore about Jev's offers.
- `.msixbundle` and `.appxbundle` files are scanned, but the catalogue has no such
  format, so nobody is given one. `NotTurnedAway` is about formats it has.
- A name that says `gnu` and `static` alike is read as one or the other, anew each time
  (`classify.go:228` ranges over a map), so an offer to a visitor with musl may not
  stand a moment later. `OfferStands` leaves such names out; the other properties
  hold for them too.
- The failure of one manifest is cached for as long as a success.
- A payload that cannot be read is forgotten when another one is proven
  (`Nested`), and applications that agree keep the role of the first.
- A refused codec ends as inspected with nothing found; an archive with one program
  per CPU and no setup around it ends as unknown.

## 6. Plan

Done, in this order: `ArtifactScan` with `ScanJobs` and its proofs, `ScanStore` with
`AtomicRecord`, `FetchCache`, `JevPrimary`, `GitHubBudget`, `RateLimiter`, `Visit`, then
`Picker` and `JevGate`, the inspector and `Download`,
then the proofs about all of them.

To come:

1. Corrupt records and records that Redis lost, as steps of `ArtifactScan`: both are
   hazards that no property covers.
2. L1 as an LRU with its capacity; a second instance beside `FetchCache`'s one.
3. Several requests at once in `Download`.
4. `post` and the description cache, as a refinement of "any answer or a failure".
5. Search autocomplete: the two queries of a bare search, merge and ranking against a
   reference definition; the batch command's report.

Proofs to come: type correctness of `Download`; that `MaxOver` is reached for every number
of callers, of which TLC shows two and three.
