# A TLA+ model of rás (conduit)

rás reads a Plex watchlist, works out which films and episodes are missing,
searches private trackers for them, asks for approval, hands the result to
qBittorrent and follows it until it is in the library. It is one asyncio process
around one SQLite connection: a supervisor runs eleven periodic tasks, a FastAPI
application calls the same services from the dashboard, and both interleave at
every `await`. That, the crash between two writes, and a torrent client that
answers late, twice or not at all, is where it can go wrong, and what this
project models.

    watchlist -> media + wanted -> calendar -> search -> downloads -> queue
                                                  (approval)           |
                 library <- Plex <- janitor <- monitor <- qBittorrent <-

Paths below are relative to `src/src/conduit/` unless they start with `src/`.

## 1. The system

| Part | State it keeps | Operations | What is hard | What makes it correct |
|---|---|---|---|---|
| Store (`db/repo.py`, `db/schema.py`) | `media`, `wanted`, `downloads`, `blocklist`, library index, events, caches | one SQL statement each | statements of other coroutines fall between two statements of a service | no combination of statements loses an approval, a denial, or a person's word |
| Watchlist, calendar, library (`services/watchlist.py`, `calendar.py`, `library.py`, `domain/decisions.py`) | `media`, `wanted`, the mirror of the Plex library | sync, plan, promote, expire, stand down | three tasks write `wanted` from data read before awaits | a want is searched when it has aired and is not there; seen stays seen |
| Search (`services/search.py`, `clients/indexers/`) | `wanted.state`, new `downloads` rows | run_search, search_media, pack then singles | two searches hold the same wants and the same known keys | one row per release, a grabbed want has a row, every want gets its turn |
| Approval and other endpoints (`web/api.py`) | `downloads`, `blocklist`, `wanted` | approve, deny, retry, remove, clear history, unblock, mark as seen | they arrive in the middle of every pass | nothing unapproved is downloaded; a denial stands |
| Dispatch queue (`services/queue.py`) | `downloads.state`, `info_hash` | dispatch_queue, retry_download | acts on rows and a listing read earlier; add and record are two steps; two passes may overlap | approved rows only; every queued row served; the hash known |
| Monitor (`services/monitor.py`) | `downloads.state`, `missing_since`, `wanted.state` | one listing judges all rows | empty listings, torrents deleted by hand, late URL adds | each download in flight settles; a passing gap cancels nothing |
| Janitor (`services/janitor.py`) | `downloads.archived`, the client | remove, retire superseded singles, seed guard, housekeeping | deletes data, from a list read earlier | only superseded singles go without being asked for |
| qBittorrent (`clients/qbittorrent.py`, external) | torrents, tags | add by file or URL, list, delete | adds by URL land later or never; listings may be empty after a restart | one torrent per info-hash |
| Supervisor (`services/supervisor.py`, `tasks.py`) | per task: enabled, wake event, error count, sleep | trigger, set_enabled, stop, run, sleep | requests arrive while a task sleeps or runs | every enabled task runs again; off is off; shutdown ends it |
| Retry, limiter, breaker (`util/resilience.py`, `clients/http.py`) | tokens, lock, failure count, opening time | acquire, call, retry | overlapping calls, cancellation, a service that comes and goes | the budget is kept; a dead service is spared and then found again |
| Event bus, WebSocket (`services/bus.py`, `web/ws.py`) | bounded queues | publish, subscribe | slow readers | publishing never blocks |
| Configuration (`config.py`) | live settings, file time stamp | refresh, replace | file edited by hand while the dashboard saves | what stays in the file comes into force |
| Parser, scoring, bencode, text, storage, state, TMDB, Plex, CLI, front end | none of their own | pure functions, I/O, rendering | - | see `PROJECT.json`, "components" |

How they interact: services call each other and the repositories directly; the
supervisor starts tasks and is asked for an extra run through
`ctx.request_run`; endpoints call services; the bus only carries notices to the
dashboard. There are no locks between coroutines except the limiter's.

`PROJECT.json` lists under "hazards" each place where this is hard to test, at
its line, with the properties that watch it or the module that will.

## 2. Modules

| Module | Models | Composes |
|---|---|---|
| `Moderation` | abstract specification: what the person at the dashboard is promised about a download | |
| `Store` | the tables of the grab pipeline and the statements on them | |
| `Downloads` | the life of a grab: search (one step), endpoints, dispatch passes, monitor, janitor, qBittorrent, restarts | extends `Store`; implements `Moderation` |
| `MCDownloads` | instances for TLC | extends `Downloads` |
| `DownloadsProof` | proofs | extends `Downloads`, `TLAPS` |
| `ModerationProof` | the refinement proof | extends `DownloadsProof` |
| `Planner` | the pure decisions: what a series needs, which searches, what needs approval | |
| `PlannerProof` | proofs | extends `Planner`, `TLAPS` |
| `Search` | overlapping searches statement by statement | extends `Store`, `Planner` |
| `MCSearch`, `SearchProof` | instance; proofs | extend `Search` |
| `Catalog` | the tables `media`, `wanted`, `library_items` and the statements on them | extends `Planner` |
| `Library`, `Calendar`, `Watchlist` | the three tasks that decide what is wanted | extend `Catalog`; `Watchlist` extends `Calendar` |
| `Wants` | the three tasks together with the dashboard, Plex, the calendar day, the settings | extends `Library`, `Watchlist` |
| `MCWants`, `WantsProof` | instance; proofs | extend `Wants` |
| `Supervisor` | one supervised task: loop, interruptible sleep, requests | |
| `Settings` | the file `conduit.toml`, its watcher, saves and edits, with the task that reads its cadence from it | extends `Supervisor` |
| `MCSupervisor` | instance for TLC | extends `Settings` |
| `SupervisorProof` | proofs | extends `Supervisor`, `TLAPS` |
| `SettingsProof` | proofs, and that `Settings` implements `Supervisor` | extends `Settings`, `SupervisorProof` |
| `Breaker`, `Limiter` | circuit breaker; token bucket with its lock | |
| `Http` | calls through breaker, retry and limiter to a service that goes down and up | extends `Breaker`, `Limiter` |
| `HttpProof` | proofs | extends `Http`, `TLAPS` |

### Store and Downloads

A row of `downloads` is a member of `Row` that is `unborn`, exists, or is `gone`
(ids are AUTOINCREMENT, never used again). Each column the pipeline decides on is a function
of the row; a want and a torrent are named by what tells them apart. `Store` has
one operator per statement; the new value it returns does nothing for a deleted
row, as an UPDATE does.

`Downloads` splits every service where it awaits something other than the
database driver in a way that matters:

* a dispatch pass: `ReadQueue` (snapshot) - `ListClient` (one listing gives slots
  and known hashes) - per row `Adopt`, `NoRoom`, `HandOver` or `AddRaises` -
  `Confirm` or `GiveUp` - `EndPass`. `Pass` is the set of coroutines that may run
  one: the task, and the button of the dashboard.
* the monitor: `ReadInFlight` - `Inspect` (one listing, a verdict per row) -
  `SeeMissing`, `SeeMoving`, `SeeErrored`, `SeeComplete` per row - after a
  completion `ReadSuperseded`, `Retire`, `RetireDone` - `ReadMissing`, `Abandon` -
  `EndMonitor`; `MonitorRaises` drops the rest of a round.
* the endpoints, one action each; `Grab`, the insertion of a row by a search.
* qBittorrent and the world: `Fetched` (a URL add lands or is refused),
  `TorrentEnds`, `DeleteByHand`, `AddByHand`, `GraceElapses`, `Restart` (all
  coroutines are gone, tables and client stay).

Abstractions, all of them towards more behaviours unless said otherwise: search
is atomic here and picks any releases and any non-empty part of the outstanding
wants; the approval gate and the free space are choices; queue rows are taken in any
order; a listing is complete or empty. One abstraction goes the other way and
leaves behaviours out: check and write of retry, deny and its blocklist entries,
delete and archive of a removal, `set_hash` and `set_state`, the two writes of
`_handle_missing`, and those of a completion (`set_state`, the progress, `mark_covered` or
the want's `set_state`) are one step each. Only awaits of the database driver (for a removal,
one call to the client) lie between them, but a statement of another coroutine
can fall there, and the results do not cover it. Left
out: media deletion, the free-form state endpoint, `dry_run` and an unconfigured
client (a pass then does nothing), the seed guard (it refuses and changes
nothing), the progress figures.

### Moderation, and how Downloads implements it

`Moderation` knows proposals and the torrents the client holds for them. A
proposal is asked about, granted, refused or closed; only what was granted is ever
handed over, possibly late and more than once; nothing that was decided is decided
again. The refinement mapping of `Downloads` is `Decided` (the decision read off a row's
state and off the history variable `cleared`: `pending` is asked, a denied row that was never cleared is
refused, every other state of a cleared row is granted, a cleared row struck from
the history is closed) and `InClient` (rows whose tag a torrent bears, or whose URL the client is
still fetching). All of queueing, parking, starting, adopting, failing, retrying,
completing, retiring and restarting is a stutter or a hand-over.

### Planner and Search

`Planner` translates the pure functions to sets: a listing is a set of keys
`<<season, number>>`, a plan the subset that is wanted, a result that may be
`None` a set with at most one element. A season that TMDB lists without
episodes is the key `<<season, 0>>`: it counts where the code counts seasons and has
nothing to want.

`Search` splits every statement from the next. A search takes its wants
(`RunSearch`, `SearchNow`), then the releases already acted on (`ReadKnown`), and
starts a worker per title (`StartWorker`, bounded by the semaphore). A worker asks the
trackers for its current target (`Answer`: any releases posted, any trackers
down, any candidate the winner), looks for a row (`Check`), inserts one (`Insert`, which the
unique index may refuse; that raises and ends the worker), and marks its wants one by one
(`Mark`); or records a miss want by want (`RecordMiss`) and, for a pack, queues
the single episodes (`Fallback`). `older` is the order of `last_search_at`.
Denials, the monitor giving a download up, the clearing of the history and restarts come in anywhere;
what lies between a grab and its loss (approval, start) is not there: `Lose` cancels a queued row at once.
Abstracted: ranking, packs across seasons beyond their flag, attempts (expiry is
`Wants`' choice); every title is followed.

### Catalog, Library, Calendar, Watchlist, Wants

`Catalog` has the columns that decide (`media`, `ignored`; `want`, `date`,
`hunted`; `lib`, `libSeen`) and an operator per statement. `replace_all` is a
transaction, but the application has one connection, so every coroutine reads its
uncommitted state: `EmptyIndex` and `FillIndex` are two steps. A `Calendar`
worker takes the policy when it sets out (`rules`), reads the listing, the library and the
history in turn and then writes one want per step; the pass ends with `Promote` and `Expire`. The `Watchlist` sync
goes through the entries one after another and runs the refresh of a title as a process of its own
(`Sync`), beside a calendar worker on the same title. `Wants` adds
what comes from outside: requests of two statements (`PatchMedia`, `ClearIgnoreList` and
then `PatchWants`), marks as seen, Plex, new entries, the next day, a changed
policy, searches and downloads as far as `wanted` shows them, an entry that
raises (it stays on the watchlist), a removal that fails. A search is `TakeUp`, the reading of a want, and
`Conclude`, its verdict, which is written whatever has become of the want since, be it
downloaded or seen; `GrabAtOnce` is a search that nothing came in between of. At
most one search at a time holds a given want open. Abstracted: a listing never changes during a
behaviour; expiry picks any of the wants that were searched; `pre_air_lead_hours`
is 0. Not there: restarts (a pass cut short is a pass that ends early; only the
series' `NoListing` and the sync's `IngestRaises` end one), media deletion, and
`POST /media/{id}/refresh` as a third process. And the library index, the calendar
pass and the sync are one process each, which overlaps the two others but never itself:
`POST /actions/index-library`, `/actions/refresh-calendar` and `/actions/sync-watchlist`
can start a second one beside the scheduled one, and nothing here covers that.

### Supervisor

One unit of time is 5 s, the recheck period and the least interval. `slept` and
`deadline` are those of the current sleep; `asked` remembers an accepted trigger.
`Wake` and `Poll` are the two ways `_sleep` goes on, `Resume` the top of the
loop, `Finish` the end of a run with its back-off and jitter.

`Settings` adds where a new interval comes from. `file` is what `conduit.toml` holds (a
cadence, something that does not parse, or nothing), `noted` says whether the
time stamp `ConfigStore` remembers is the file's, an older one, or the 0.0 of a missing
file. `refresh` is `Notice` (the stamp), `Load` (the contents; a missing file is
written with the defaults) and `Note`; `replace` is `Replace` and `TakeStamp`. A
behaviour begins inside `__init__`: the file is loaded, and the stamp is still to be
read, by `TakeStamp` as after a save.
Nothing in them awaits, so while `step` is not `free` no coroutine
moves, but a person may edit the file (`EditFile`) at any moment. An edit right before
`TakeStamp` is noted but not loaded, and stays so until the file is written again; the
history variable `overtaken` marks it and the properties except it. The tracker
clients rebuilt after a reload, a save that fails, and a person who pauses
the config-watch task are left out. Two writes within one tick of the file
system's clock are assumed to have different stamps.

### Breaker, Limiter, Http

The breaker's time is relative to `recovery_seconds`: opened not at all, less or
more than that ago. The bucket counts grains: `Cost` of them are a token, one
drips in per unit of time. The lock is a holder and a first-come queue, as
`asyncio.Lock` has it; `Without` and `LeaveLine` are its cancellation. `Http`
gives each caller a call with `Attempts` tries; `up` is the service, and the history
variable `sent` counts the requests made since the breaker opened. The limiter
is modelled switched on (a rate of 0 turns it off and `acquire` returns).

## 3. What is checked

| Run | Instance | Question |
|---|---|---|
| `downloads_season` | 2 rows, a single and a pack of a two-episode season, one pass, 1 disturbance | `HashKnown`, `RetiresOnlySuperseded`, `CompletedIsFinal` (and types) |
| `downloads_overlap` | 2 rows, one release, two overlapping passes, 1 disturbance | `ApprovedOnly`, `DenialStands`, and `ModerationKept`: the refinement of `Moderation` |
| `downloads_live` | 2 rows, one release, one pass, 2 disturbances, fairness | `QueuedIsServed`, `InFlightSettles` |
| `search` | a task that takes one want at a time and the search-now button, a season of two episodes, a single and a pack at a tracker each, 3 rows, 1 disturbance, fairness | `GrabbedHasRow`, `OneRowPerRelease`, `DeniedStaysOut`, `NothingLeftOut`, `TurnComes` |
| `wants` | a series of two seasons with an episode each, a season want, a film; two policies; 1 change from outside, fairness | `ProgressKept`, `ListTidies`, `WaitingComesOut` |
| `supervisor` | intervals 5, 15, 30 s, cap 20 s, any number of saves and edits of the file, fairness | `ShorteningTakesEffect`, `DisabledStaysOff`, `KeepsRunning`, `StopEnds`, `NotedIsLoaded`, `EditTakesEffect` |
| `http` | 3 callers (two may be cancelled), threshold 2, 2 attempts, a bucket of one token that takes two units of time to fill, fairness | `TripsAtThreshold`, `BudgetKept`, `DeadServiceSpared`, `LockPassedOn`, `EveryoneServed`, `Recovers` |

Five runs show a statement of the repository that the code does not keep
("findings" in `PROJECT.json` quotes it):

| Run | Property | The shortest story |
|---|---|---|
| `downloads_replaced` | `ReplacedNotStarted` | a queued single is retired by a completed pack and is handed to qBittorrent all the same: `queued()` does not look at `archived` |
| `downloads_seen` | `SeenSticks` | a want marked as seen while its download runs is set to `grabbed` when the download completes |
| `wants_film` | `PresentFilmStoodDown` | a calendar pass finds a searching film in the library and leaves it searching: the upsert keeps its state, and `mark_present` is for series only |
| `supervisor_trigger` | `AskedIsAwake` | a trigger during a run is cleared by the sleep that follows |
| `http_probe` | `ProbesAreSpaced` | a failed half-open probe does not open the breaker again |

Every property of a passing run has a mutant of the code model in `PROJECT.json`
(a dropped filter, a missing reset, an off-by-one) that violates it in that run.

### Bounds and why they are enough

* `Row` of two: the properties of `Downloads` speak of one row, or of one row and
  the pack or the second pass's row that disturbs it. Two rows also let a row be
  deleted, forgotten, and its release grabbed a second time.
* `MaxActs` counts only what keeps a behaviour from settling: second thoughts of
  the person (deny, retry, remove, clear, unblock, seen), hands in the client, and
  restarts. Grabs, approvals, torrent events, fetches, listings and the clock are
  unbounded (each row is born once). One disturbance at every point of a pass and
  a round, or two on one release, is what the hazards describe; three did not
  fit the time of a run.
* `MaxActive = 1` makes every second row meet a full client.
* A row's age in the grace period is `no`, `fresh` or `overdue`: the code only
  compares with `MISSING_GRACE_SECONDS`.
* Search: the smallest season that makes a pack worth a target (two episodes, the
  default threshold), a release that two searches can both pick, and a limit of one
  want, so that the order of the line matters. Three rows let a release be grabbed,
  struck from the history and grabbed again.
* Wants: two seasons tell "everything" from "the current season", and a third is announced
  without episodes; a series that
  is owned in part and in whole; an entry of each kind; a film that comes out tomorrow. An
  entry that is there from the start is there beside the series that is owned in part,
  the film under `current_season` only (`MCInit` of `MCWants`); beside the others an
  entry comes as the change from outside. `MaxActs = 1`
  change from outside at any point of two or three overlapping passes; two did
  not fit the time of a run. Grabs are unbounded (a want that is grabbed needs
  a change to be searched again), so that the change may be the end of a download. A
  search that is held open (`TakeUp`) is a change as well; its verdict is not.
* Supervisor: the intervals lie below and above the back-off cap; errors from
  four on have the same effect (`2 ** min(errors, 4)`). Nothing is bounded: requests,
  saves and edits come for ever.
* Http: three callers make a line of two behind the holder of the lock, so that a
  call can be cancelled while it sleeps with the lock, at the head of the line and
  behind it; they also make overlapping failures and a success between them
  possible. A bucket of one token makes all but the first wait. `Window` bounds an
  observation of the budget, which may begin at any moment.
* Deadlock is not checked where the system really stops: a pipeline with nothing to
  do and no acts left, and a task that has ended.
* Symmetry over `Row` is used in the runs without liveness; no definition picks
  a particular row. (`Judge` chooses among releases, and TLC's symmetry is not
  over releases.)

### Fairness and why the code justifies it

`Downloads`: the supervisor starts both tasks again and again, and every await
of a pass has a time-out, so steps of a pass and of a monitor round are weakly
fair. A listing that arrives in full is strongly fair: the client may fail or
answer with nothing any number of times, but not for ever. A grace clock runs out
between two rounds, so it too is strongly fair. Nothing is assumed about people,
restarts, or which way a torrent ends. `Supervisor` and `Settings`: the event loop serves in turn
those that are ready, so, however many requests and saves come, a sleeper is
resumed, a task function returns, a cancellation is delivered and the watcher gets
its turn (strong fairness: each save takes the loop for a moment). Nothing is assumed
about the editor. `Http`: tasks call
again and again, time passes, requests end; a service that stays up does not
refuse every request for ever. `Search`: the search tasks run again and again and
a coroutine whose await ends goes on; nothing is asked of the searches a person
starts. `Wants`: the tasks run again and again and finish; TMDB may fail any
number of times but answers again if it is asked for ever (strong fairness of
`ListShow`). Nothing is assumed of a search that is held open: it may conclude at any
later time or never.

## 4. What is proved

TLAPS proves for all values of the constants (any sets of rows, releases, wants,
passes, callers and intervals, under the named assumptions of each module) every
invariant and every action property that a passing run checks, the refinement of
`Moderation`, and the safety that some of the liveness properties rest on.

The assumptions say what the constants stand for: times, limits and counts are
natural numbers, positive where the code's are (`HttpAssumption` and its like in
each module); a want is a title with a season and an episode number
(`CatalogAssumption`, `SearchAssumption`); what Plex holds and what was watched are
sets of wants (`LibraryAssumption`), a watchlist is a set of entries
(`WatchlistAssumption`). TLC evaluates them in the runs.

### The grab pipeline

* `DownloadsProof`
  * `TypeCorrect`, with `Wellformed` (a row that exists has a release; the row a
    pass waits for holds one of its slots) added, since a slot is only given back
    by `Confirm` if there is one.
  * `Cleared`, the inductive invariant behind approval. `ApprovedOnly` by itself
    is not inductive: it speaks of tags in the client, and says nothing of a row in
    a pass's snapshot that a later step will hand over. `Clearance` adds that rows
    in a working state are cleared, that snapshots, verdicts and the row awaiting
    confirmation are cleared, and that a cleared row never returns to `pending` or
    `denied`.
  * `OnlyApproved` (`ApprovedOnly`) and `DenialIsFinal` (`DenialStands`) follow: a
    denied row is not cleared, so nobody holds it.
  * `InFlightHasHash` (`HashKnown`) is inductive over the types.
  * `CompletedStays` (`CompletedIsFinal`) for any set of coroutines that may run a pass, as
    long as no two are under way at once (`[]NoOverlap`), by `InHand`: no pass
    holds a row that is downloading or completed. When a pass started with "Run queue
    now" overlaps the scheduled one this is false (a completed row may be recorded as
    failed), and so is the invariant; `ApprovedOnly`, `DenialStands`, `HashKnown`
    and the refinement need no such premise.
  * `RetiresOnlyReplaced` (`RetiresOnlySuperseded`) under the same premise, by
    `Replacing`: the download the monitor keeps has completed, and each row it is
    about to retire is a single that a completed pack covers. It stays true until
    the last of them is gone, because completed rows stay completed and a row
    keeps its release (`RowsStay`).
* `ModerationProof`: `PromiseIsKept`, the refinement. `PromiseStep` takes the
  pipeline's actions one by one; under `Clearance` a decision can be read off a
  row (`DecidedIs`), so a step that writes only cleared rows decides nothing
  (`SameDecisions`), and what a pass hands over is cleared (`HandedOver`).

### Planning and searching

* `PlannerProof`, about the planner for every listing, history, library and policy:
  `OwningNeverAdds`; `WideningKeeps` (a wider backlog, a longer lead, more days of
  grace); `TwoSeasonsAtMost` and `OnlySpecialsSeen` for the policy
  `current_season`, the second of which states what becomes of a series of which
  only specials were watched; `EachLookedForOnce`, by which the targets of a search
  look for each missing episode exactly once; and `BiggerIsGated` about the
  approval gate.
* `SearchProof`
  * `OneRow` (`OneRowPerRelease`: only `Insert` gives a row its release, and it
    looks at the index), `GrabbedIsBacked` (`GrabbedHasRow`) and `DeniedIsKept`
    (`DeniedStaysOut`). The last two rest on `Holdings` (what a worker has in hand
    is a release of its title, wants of its title and, once it marks, a row) and
    `Snapshots` (workers exist only while their search is busy, and its known
    releases contain the blocklist it read), which are invariants together with the
    part of the types they need.
  * `EveryEpisodeAsked` (`NothingLeftOut`). The invariant is `Coverage`: each
    episode a worker set out for was found, was asked for by itself, or is looked
    for by a target still ahead; and of a single that is being given up every want is
    done or still to be done. That the targets cover the episodes in the first place
    is `EachLookedForOnce`.
  * `TypeCorrect` (`TypeOK`), with the same lemmas on the targets.

  The planner picks the ends of finite sets of keys with `CHOOSE`, and lists them
  in order. That such ends and lists exist (`EndsOfKeys`, `OrderExists`) is proved
  without induction over sets: from the library's facts on cardinalities and a
  smallest counterexample among the naturals (`Smallest`).

### What is wanted

* `WantsProof`
  * `TypeCorrect` (`TypeOK`). It is not inductive by itself: a worker that is
    reading takes the listing of its title for that of a series. `Types` adds
    `AtSeries`: workers that read, plan or write episodes are at work on a series,
    and the sync has such a worker only in the refresh of an entry.
  * `ProgressStays` (`ProgressKept`): every write to `wanted` by a library, calendar or
    watchlist pass goes through `Upsert`, `MarkPresent`, `Retire`, `PromoteDue` or
    `ExpireStale`, and none of them touches a want that is grabbed, downloaded or seen,
    except to record it as present. Searches are not in it, and could not be: a
    grab (`search.py`, 381-384) and a miss (433-436) write over whatever has become of
    the want while the trackers were asked, a want that was downloaded or marked as seen included.
  * `RefreshTidies`, the safety behind `ListTidies`: from any state of the right
    types in which a worker sets out for a series with the policy in force, if TMDB answers it and every other
    step leaves the series, the library, the policy and the day alone, the list of
    the series is right once the worker is through. `Tidying` follows the worker:
    what it has read is what is there, and the wants it has behind it are as the
    plan says.

### Tasks and settings

* `SupervisorProof`: `TypeCorrect`, `ShorteningApplies` (`ShorteningTakesEffect`),
  `OffStaysOff` (`DisabledStaysOff`); the lemma `DelayIsPositive` says a delay is at
  least one unit whatever the back-off. `SleepRunsOut` is the safety behind
  `KeepsRunning`: a task that sleeps is always short of its deadline
  (`NotOverslept`), each look at the clock ends the sleep or leaves strictly less of
  it, and the deadline never moves back. `BackOffBacksOff` and
  `LongCadenceFailsFaster` say what the cap on the back-off does: failing more often
  never brings a task back sooner, unless its cadence is longer than the cap, and
  then a failure does.
* `SettingsProof`: `ImplementsSupervisor`, so that `TaskKeepsItsWord` carries
  `ShorteningTakesEffect` over to the composition; `SettingsTyped`; and
  `NotedFileIsLoaded` (`NotedIsLoaded`) by `Watched`, which speaks of the
  stamp in the watcher's hand as well: when it is the file's, what was loaded is
  what the file holds. It excepts, with the property, an edit between a save, or the load
  at the start, and the reading of its stamp.

### Requests

* `HttpProof`
  * `BreakerInStep` (`TripsAtThreshold`); `InsideBudget` (`BudgetKept`) by the
    balance `spent + Refilled <= Capacity + age`, which says that what is still in
    the bucket was not spent; and `TypeCorrect`, which needs `AttemptLeft`: who waits
    at the limiter has an attempt left.
  * `Spared` (`DeadServiceSpared`). The invariant `Sparing` counts: what was sent
    since the breaker opened and what the calls under way may still send add up to at
    most the attempts of all callers but one, the one that opened it. The sum over
    the callers is the cardinality of a set, the attempts that remain
    (`Remaining`), so that no induction over the callers is needed.
  * `LockKept` (`LockPassedOn`) is inductive over the types: lemmas say what joining
    the line, passing the lock on and leaving the middle of the line do to a line
    without repetitions. `NobodyOvertaken`: while a call waits, nobody new
    comes to be in front of it. The two are the safety behind `EveryoneServed`.

### Only model-checked

Every liveness property (`InFlightSettles`, `QueuedIsServed`, `TurnComes`,
`ListTidies`, `WaitingComesOut`, `KeepsRunning`, `StopEnds`, `EditTakesEffect`,
`EveryoneServed`, `Recovers`): fairness and ENABLED are outside the prover's reach.
`CompletedIsFinal` and `RetiresOnlySuperseded` are checked with one dispatch pass and
proved for passes that do not overlap, which is all they hold for.

## 5. Not modelled

The parser, scoring and codecs work on strings character by character. Requests
and JSON mapping of the TMDB, Plex and indexer clients, the state snapshot, the
front end, the CLI, logging and the launch scripts have no state of their own
that the pipeline depends on. The choice of a drive is arithmetic on free space
and stands in `Downloads` as a choice. The event bus does not touch the pipeline's
tables: it would be a module of its own, with the WebSocket that reads from it and
the page that shows what it sends. Deleting a title (`DELETE
/media/{id}`) would need wants and downloads to disappear in the middle of every pass; the watched
flags of downloads and the reclaim list only feed the dashboard.

## 6. Plan

1. Done: the modules above, their runs and proofs.
2. Proofs to come: the safety behind `QueuedIsServed` (a pass that runs to its end
   leaves no row of its snapshot queued unless it found no slot or no space).
3. The bus and the WebSocket, with the page as their reader.
4. Restarts and the deletion of a title in `Wants`.
