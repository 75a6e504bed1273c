------------------------------- MODULE Search -------------------------------
(***************************************************************************)
(* The grabber (services/search.py).  A search takes a snapshot of the     *)
(* wants that are due and of the releases already acted on, groups them by *)
(* title, and works through each title's targets: ask every tracker, pick  *)
(* a winner, insert the download, mark the wants; or record a miss.        *)
(*                                                                         *)
(* Searches overlap: the two tasks, POST /actions/search and the "search   *)
(* now" button, each with its own snapshot.  A worker runs until it awaits *)
(* a tracker or the database, so every statement is a step of its own.     *)
(*                                                                         *)
(* A want is <<title, season, episode>>, 0 standing for NULL: a film is    *)
(* <<t, 0, 0>>, a whole season <<t, s, 0>>.                                *)
(***************************************************************************)
EXTENDS Store, Planner

CONSTANTS
    Searcher,       \* coroutines that search
    Button,         \* those of them started by "search now"
    Title,          \* media rows; all of them followed
    Reach,          \* Reach[s]: the wants a task looks at (recent ones, all)
    Indexer,        \* trackers
    Origin,         \* Origin[r]: the tracker of release r
    Size,           \* Size[r]
    Policy,         \* the policy in force
    AirOrder,       \* pairs of wants, the later air date first
    Limit,          \* wants a search takes
    Concurrency,    \* titles a search works on at a time
    MaxActs         \* bound: disturbances in a behaviour

ASSUME SearchAssumption ==
    /\ Button \subseteq Searcher
    /\ Reach \in [Searcher -> SUBSET Want]
    /\ Origin \in [Release -> Indexer]
    /\ AirOrder \subseteq Want \X Want
    /\ Want \subseteq Title \X Nat \X Nat
    /\ IsFiniteSet(Want)
    /\ Limit \in Nat \ {0} /\ Concurrency \in Nat \ {0} /\ MaxActs \in Nat

VARIABLES
    older,      \* wanted.last_search_at: <<v, w>> when v comes before w
    phase,      \* phase[s]: where search s is
    rows,       \* rows[s]: the wants it took
    known,      \* known[s]: the releases it took for acted on
    wpc,        \* wpc[k]: where worker k = <<s, t>> of search s for title t is
    queue,      \* queue[k]: the targets left, the current one first
    pick,       \* pick[k]: the winner
    left,       \* left[k]: wants still to be updated for this target
    tried,      \* history: wants this worker found or asked for alone
    barred,     \* history: what was blocklisted when it took them
    acts        \* disturbances so far

Worker == Searcher \X Title

searchVars == <<phase, rows, known, barred>>
workVars == <<wpc, queue, pick, left, tried>>
vars == <<storeVars, older, searchVars, workVars, acts>>

TypeOK ==
    /\ StoreTypeOK
    /\ older \subseteq Want \X Want
    /\ phase \in [Searcher -> {"idle", "read", "busy"}]
    /\ rows \in [Searcher -> SUBSET Want]
    /\ known \in [Searcher -> SUBSET Release]
    /\ wpc \in [Worker -> {"idle", "start", "ask", "check", "insert", "mark", "miss"}]
    /\ queue \in [Worker -> Seq(TargetType)]
    /\ pick \in [Worker -> Release \cup {NoRelease}]
    /\ left \in [Worker -> SUBSET Want]
    /\ tried \in [Worker -> SUBSET Want]
    /\ barred \in [Searcher -> SUBSET Release]
    /\ acts \in 0..MaxActs

Init ==
    /\ StoreInit
    /\ older = AirOrder
    /\ phase = [s \in Searcher |-> "idle"]
    /\ rows = [s \in Searcher |-> {}]
    /\ known = [s \in Searcher |-> {}]
    /\ wpc = [k \in Worker |-> "idle"]
    /\ queue = [k \in Worker |-> <<>>]
    /\ pick = [k \in Worker |-> NoRelease]
    /\ left = [k \in Worker |-> {}]
    /\ tried = [k \in Worker |-> {}]
    /\ barred = [s \in Searcher |-> {}]
    /\ acts = 0

-----------------------------------------------------------------------------
(* What a search works from *)

\* Never searched first, then the longest ago, up to the limit.
DueForSearch(s) ==
    LET due == {w \in Reach[s] : want[w] = "searching"}
    IN  {w \in due : Cardinality({v \in due : <<v, w>> \in older}) < Limit}

Outstanding(t) ==
    {w \in Want : w[1] = t /\ want[w] \in {"searching", "waiting", "unavailable"}}

\* Mutant of Searched: a miss is not counted as an attempt.
NotSearched(w) == older \cap (Want \X Want)

\* last_search_at = now
Searched(w) ==
    {e \in older : w \notin {e[1], e[2]}} \cup {<<v, w>> : v \in Want \ {w}}

Mine(k) == {w \in rows[k[1]] : w[1] = k[2]}
Key(w) == <<w[2], w[3]>>
IsMovie(t) == \A w \in Want : w[1] = t => w[2] = 0
Episodes(W) == {Key(w) : w \in {v \in W : v[3] # 0}}

\* The searches for one title: its film, its missing episodes grouped, or, when
\* no episode is known yet, the seasons wanted as a whole.
TargetsFor(k) ==
    LET seasons == InOrder({Key(w) : w \in Mine(k)})
    IN  IF IsMovie(k[2]) THEN <<Target(0, 0, 1)>>
        ELSE IF Episodes(Mine(k)) # {}
        THEN PlanGrabTargets(Episodes(Mine(k)), Policy)
        ELSE [i \in DOMAIN seasons |-> Target(Season(seasons[i]), 0, 1)]

DistinctSeasons(k) ==
    LET targets == TargetsFor(k)
    IN  Cardinality({targets[i].season : i \in DOMAIN targets} \ {0})

\* Which of the wants taken this target would satisfy.
AffectedWants(k, target) ==
    {w \in Mine(k) :
        \/ target.season = 0
        \/ target.season = w[2] /\ target.episode \in {0, w[3]}}

\* Does release r contain what the target asks for?  Span is what covers()
\* accepts of the title that the release is matched to.
MatchesTarget(r, t, target) ==
    \E w \in Span[r] :
        /\ w[1] = t
        /\ \/ target.season = 0 /\ Kind[r] = "movie"
           \/ target.season = w[2] /\ IsPack(target) /\ Kind[r] = "pack"
           \/ target.season = w[2] /\ target.episode = w[3] /\ ~IsPack(target)

\* One tracker down leaves the answers of the others.
PoolSearch(posted, down) == {r \in posted : Origin[r] \notin down}

IsCompleteSeries(r) == \E v, w \in Span[r] : v[2] # w[2]

-----------------------------------------------------------------------------
(* A search: the snapshot, the workers, the end *)

ReadWants(s, W) ==
    /\ phase[s] = "idle"
    /\ W # {}
    /\ phase' = [phase EXCEPT ![s] = "read"]
    /\ rows' = [rows EXCEPT ![s] = W]
    /\ UNCHANGED <<storeVars, older, known, barred, workVars, acts>>

RunSearch(s) == s \notin Button /\ ReadWants(s, DueForSearch(s))
SearchNow(s, t) == s \in Button /\ ReadWants(s, Outstanding(t))

ReadKnown(s) ==
    /\ phase[s] = "read"
    /\ phase' = [phase EXCEPT ![s] = "busy"]
    /\ known' = [known EXCEPT ![s] = KnownReleases]
    /\ barred' = [barred EXCEPT ![s] = blocked]
    /\ wpc' = [k \in Worker |->
                IF k[1] = s /\ Mine(k) # {} THEN "start" ELSE wpc[k]]
    /\ UNCHANGED <<storeVars, older, rows, queue, pick, left, tried, acts>>

\* The semaphore lets Concurrency workers of a search run at a time.
StartWorker(k) ==
    /\ wpc[k] = "start"
    /\ Cardinality({j \in Worker : j[1] = k[1] /\ wpc[j] \notin {"idle", "start"}})
         < Concurrency
    /\ wpc' = [wpc EXCEPT ![k] = "ask"]
    /\ queue' = [queue EXCEPT ![k] = TargetsFor(k)]
    /\ tried' = [tried EXCEPT ![k] = {}]
    /\ UNCHANGED <<storeVars, older, searchVars, pick, left, acts>>

EndSearch(s) ==
    /\ phase[s] = "busy"
    /\ \A k \in Worker : k[1] = s => wpc[k] = "idle"
    /\ phase' = [phase EXCEPT ![s] = "idle"]
    /\ rows' = [rows EXCEPT ![s] = {}]
    /\ known' = [known EXCEPT ![s] = {}]
    /\ barred' = [barred EXCEPT ![s] = {}]
    /\ tried' = [k \in Worker |-> IF k[1] = s THEN {} ELSE tried[k]]
    /\ UNCHANGED <<storeVars, older, wpc, queue, pick, left, acts>>

-----------------------------------------------------------------------------
(* A worker, on the first target of its queue *)

Current(k) == Head(queue[k])

\* Mutant of Fallback: the season waits for its pack.
NoFallback(k) == SelectSeq(queue[k], LAMBDA target : FALSE)

\* A pack nobody has does not block the episodes that are there.
Fallback(k) ==
    IF IsPack(Current(k))
    THEN Singles(Episodes(AffectedWants(k, Current(k))))
    ELSE <<>>

\* The worker is done with the current target and goes on to the next one;
\* rest are the searches added behind the others.
NextTarget(k, rest) ==
    LET q == Tail(queue[k]) \o rest
    IN  /\ queue' = [queue EXCEPT ![k] = q]
        /\ wpc' = [wpc EXCEPT ![k] = IF q = <<>> THEN "idle" ELSE "ask"]

Found(k) ==
    /\ known' = [known EXCEPT ![k[1]] = @ \cup {pick[k]}]
    /\ tried' = [tried EXCEPT ![k] = @ \cup AffectedWants(k, Current(k))]
    /\ pick' = [pick EXCEPT ![k] = NoRelease]
    /\ NextTarget(k, <<>>)

Candidates(k, posted, down) ==
    {r \in PoolSearch(posted, down) :
        /\ MatchesTarget(r, k[2], Current(k))
        /\ k[1] \in Button \/ r \notin known[k[1]]}

\* The trackers answer.  Which candidate wins, if any is good enough, is up to
\* the quality profile.
Answer(k) ==
    /\ wpc[k] = "ask"
    /\ \E posted \in SUBSET Release, down \in SUBSET Indexer :
        \/ \E winner \in Candidates(k, posted, down) :
            /\ pick' = [pick EXCEPT ![k] = winner]
            /\ wpc' = [wpc EXCEPT ![k] = "check"]
        \/ /\ pick' = pick
           /\ wpc' = [wpc EXCEPT ![k] = "miss"]
    /\ left' = [left EXCEPT ![k] = AffectedWants(k, Current(k))]
    /\ UNCHANGED <<storeVars, older, searchVars, queue, tried, acts>>

\* Mutant of Check: the wants are marked before the row is inserted.
CheckAndMark(k) ==
    /\ wpc[k] = "check"
    /\ \/ /\ ByRelease(pick[k]) # {}
          /\ left' = [left EXCEPT ![k] = {}]
          /\ Found(k)
          /\ want' = want
       \/ /\ ByRelease(pick[k]) = {}
          /\ want' = [w \in Want |-> IF w \in left[k] THEN "grabbed" ELSE want[w]]
          /\ wpc' = [wpc EXCEPT ![k] = "insert"]
          /\ UNCHANGED <<known, queue, pick, left, tried>>
    /\ UNCHANGED <<rowVars, blocked, older, phase, rows, barred, acts>>

\* SELECT by_release: a release with a row counts as found.
Check(k) ==
    /\ wpc[k] = "check"
    /\ \/ /\ ByRelease(pick[k]) # {}
          /\ left' = [left EXCEPT ![k] = {}]
          /\ Found(k)
       \/ /\ ByRelease(pick[k]) = {}
          /\ wpc' = [wpc EXCEPT ![k] = "insert"]
          /\ UNCHANGED <<known, queue, pick, left, tried>>
    /\ UNCHANGED <<storeVars, older, phase, rows, barred, acts>>

Approval(k, r) ==
    NeedsApproval(Size[r], IsCompleteSeries(r), Kind[r] = "pack",
                  DistinctSeasons(k), Policy)

\* Mutant of Insert: the index on the release is not unique.
InsertAnyway(k) ==
    /\ wpc[k] = "insert"
    /\ LET d == CHOOSE e \in Row : state[e] = "unborn"
       IN  /\ \E e \in Row : state[e] = "unborn"
           /\ state' = [state EXCEPT ![d] =
                  IF Approval(k, pick[k]) THEN "pending" ELSE "queued"]
           /\ rel' = [rel EXCEPT ![d] = pick[k]]
           /\ \E w \in left[k] : wid' = [wid EXCEPT ![d] = w]
    /\ wpc' = [wpc EXCEPT ![k] = "mark"]
    /\ UNCHANGED <<hash, missing, archived, want, blocked>>
    /\ UNCHANGED <<older, searchVars, queue, pick, left, tried, acts>>

\* INSERT INTO downloads.  The unique index on the release may refuse it; that
\* ends the worker, with the targets it had left.
Insert(k) ==
    /\ wpc[k] = "insert"
    /\ \/ /\ ByRelease(pick[k]) = {}
          /\ LET d == CHOOSE e \in Row : state[e] = "unborn"
             IN  /\ \E e \in Row : state[e] = "unborn"
                 /\ state' = [state EXCEPT ![d] =
                        IF Approval(k, pick[k]) THEN "pending" ELSE "queued"]
                 /\ rel' = [rel EXCEPT ![d] = pick[k]]
                 /\ \E w \in left[k] : wid' = [wid EXCEPT ![d] = w]
          /\ wpc' = [wpc EXCEPT ![k] = "mark"]
          /\ UNCHANGED <<queue, pick, left>>
       \/ /\ ByRelease(pick[k]) # {}
          /\ wpc' = [wpc EXCEPT ![k] = "idle"]
          /\ queue' = [queue EXCEPT ![k] = <<>>]
          /\ pick' = [pick EXCEPT ![k] = NoRelease]
          /\ left' = [left EXCEPT ![k] = {}]
          /\ UNCHANGED rowVars
    /\ UNCHANGED <<hash, missing, archived, want, blocked>>
    /\ UNCHANGED <<older, searchVars, tried, acts>>

\* Mutant of Mark: the want is given the state of the row.
MarkAsRow(k, w) ==
    /\ wpc[k] = "mark"
    /\ w \in left[k]
    /\ want' = SetWant(w, "queued")
    /\ left' = [left EXCEPT ![k] = @ \ {w}]
    /\ \/ left[k] = {w} /\ Found(k)
       \/ left[k] # {w} /\ UNCHANGED <<known, tried, pick, queue, wpc>>
    /\ UNCHANGED <<rowVars, blocked, older, phase, rows, barred, acts>>

\* UPDATE wanted, one want at a time.
Mark(k, w) ==
    /\ wpc[k] = "mark"
    /\ w \in left[k]
    /\ want' = SetWant(w, "grabbed")
    /\ left' = [left EXCEPT ![k] = @ \ {w}]
    /\ \/ left[k] = {w} /\ Found(k)
       \/ left[k] # {w} /\ UNCHANGED <<known, tried, pick, queue, wpc>>
    /\ UNCHANGED <<rowVars, blocked, older, phase, rows, barred, acts>>

RecordMiss(k, w) ==
    /\ wpc[k] = "miss"
    /\ w \in left[k]
    /\ want' = SetWant(w, "searching")
    /\ older' = Searched(w)
    /\ left' = [left EXCEPT ![k] = @ \ {w}]
    /\ tried' = IF IsPack(Current(k)) THEN tried
                ELSE [tried EXCEPT ![k] = @ \cup {w}]
    /\ \/ left[k] = {w} /\ NextTarget(k, Fallback(k))
       \/ left[k] # {w} /\ UNCHANGED <<queue, wpc>>
    /\ UNCHANGED <<rowVars, blocked, searchVars, pick, acts>>

-----------------------------------------------------------------------------
(* The rest of the application, as far as a search meets it *)

Act == acts < MaxActs /\ acts' = acts + 1

Deny(S) ==
    /\ Act
    /\ \E d \in S : Exists(d)
    /\ state' = DenyMany(S)
    /\ blocked' = blocked \cup {rel[d] : d \in {e \in S : Exists(e)}}
    /\ UNCHANGED <<rel, wid, hash, missing, archived, want>>
    /\ UNCHANGED <<older, searchVars, workVars>>

\* A queued download is started, its torrent goes missing for longer than the
\* grace, and the monitor cancels it and sends its want out again (_handle_missing).
\* There is no dispatch here: module Downloads has it step by step.
Lose(d) ==
    /\ Act
    /\ state[d] = "queued"
    /\ state' = SetState(d, "cancelled")
    /\ want' = SetWant(wid[d], "searching")
    /\ UNCHANGED <<rel, wid, hash, missing, archived, blocked>>
    /\ UNCHANGED <<older, searchVars, workVars>>

ClearHistory ==
    /\ \E d \in Row : state[d] \in {"denied", "failed", "cancelled"}
    /\ PurgeHistory
    /\ UNCHANGED <<older, searchVars, workVars, acts>>

\* What coroutines held is gone; the database stays as it was.
Restart ==
    /\ Act
    /\ phase' = [s \in Searcher |-> "idle"]
    /\ rows' = [s \in Searcher |-> {}]
    /\ known' = [s \in Searcher |-> {}]
    /\ barred' = [s \in Searcher |-> {}]
    /\ wpc' = [k \in Worker |-> "idle"]
    /\ queue' = [k \in Worker |-> <<>>]
    /\ pick' = [k \in Worker |-> NoRelease]
    /\ left' = [k \in Worker |-> {}]
    /\ tried' = [k \in Worker |-> {}]
    /\ UNCHANGED <<storeVars, older>>

-----------------------------------------------------------------------------
(* The specification *)

Work(k) ==
    \/ StartWorker(k)
    \/ Answer(k)
    \/ Check(k)
    \/ Insert(k)
    \/ \E w \in Want : Mark(k, w) \/ RecordMiss(k, w)

Searching(s) == ReadKnown(s) \/ EndSearch(s)

Environment ==
    \/ \E S \in SUBSET Row : Deny(S)
    \/ \E d \in Row : Lose(d)
    \/ ClearHistory
    \/ Restart

Next ==
    \/ \E s \in Searcher : RunSearch(s) \/ Searching(s)
    \/ \E k \in Worker : Work(k)
    \/ \E s \in Searcher, t \in Title : SearchNow(s, t)
    \/ Environment

Spec == Init /\ [][Next]_vars

\* The supervisor runs the search tasks again and again, and a coroutine whose
\* await ends goes on: a tracker answers or its request times out.  Nothing is
\* asked of the searches a person starts.
Fairness ==
    /\ \A s \in Searcher \ Button :
        WF_vars(RunSearch(s)) /\ WF_vars(Searching(s))
    /\ \A k \in Worker : k[1] \notin Button => WF_vars(Work(k))

FairSpec == Spec /\ Fairness

-----------------------------------------------------------------------------
(* Properties *)

\* A want is only marked grabbed once a row for a release of its title exists or
\* existed, whatever searches raced for that release, whichever of them the
\* unique index turned away, and wherever a restart cut in (_create_download
\* inserts first and marks after; a raise leaves the wants searchable).
GrabbedHasRow ==
    \A w \in Want : want[w] = "grabbed" =>
        \E d \in Row : /\ state[d] # "unborn"
                       /\ \E v \in Span[rel[d]] : v[1] = w[1]

\* Two searches that both saw a release as new never leave two rows for it, and
\* its torrent is never handed over twice (by_release and INSERT are two steps).
OneRowPerRelease ==
    \A r \in Release : \A d, e \in ByRelease(r) : d = e

\* What a person has denied stays denied: no task that takes its snapshot after
\* the denial grabs that release again, not even once the history that holds the
\* denied row is cleared (known_release_keys takes the blocklist in).
DeniedStaysOut ==
    \A k \in Worker :
        k[1] \notin Button /\ wpc[k] \in {"check", "insert", "mark"}
            => pick[k] \notin barred[k[1]]

\* A pack that nobody has must not block the episodes that are there: a worker
\* that gets to its end has found or asked for each episode it took.
NothingLeftOut ==
    [][\A k \in Worker :
        (wpc[k] \in {"check", "mark", "miss"} /\ wpc'[k] = "idle"
            /\ phase'[k[1]] = "busy")
        => \A w \in Mine(k) : w[3] # 0 => w \in tried'[k]]_vars

AskedFor(w) ==
    \E k \in Worker : wpc[k] = "ask" /\ w \in AffectedWants(k, Current(k))

\* Every film and episode that stays out to search is asked for again and again,
\* although a search takes only Limit of them: a miss sends a want to the back of
\* the line, and nothing that is found or that raises holds the front for ever.
TurnComes ==
    \A w \in Want : (w[2] # 0 => w[3] # 0) =>
        []<>(want[w] # "searching" \/ AskedFor(w))

-----------------------------------------------------------------------------
(* The inductive invariant the proofs of module SearchProof rest on *)

\* A search has workers only while it is busy, and took the blocklist in.
Snapshots ==
    \A s \in Searcher :
        /\ barred[s] \subseteq known[s]
        /\ phase[s] # "busy" => \A k \in Worker : k[1] = s => wpc[k] = "idle"

\* What a worker that has a winner holds: a release of its title, wants of its
\* title and, once it marks them, a row.
Holdings ==
    \A k \in Worker :
        wpc[k] \in {"check", "insert", "mark"} =>
            /\ pick[k] \in Release
            /\ \E v \in Span[pick[k]] : v[1] = k[2]
            /\ \A w \in left[k] : w[1] = k[2]
            /\ wpc[k] = "mark" =>
                \E d \in Row : state[d] # "unborn" /\ rel[d] = pick[k]

\* One of the targets worker k still has would satisfy want w.
Ahead(k, w) == \E i \in DOMAIN queue[k] : w \in AffectedWants(k, queue[k][i])

\* What a worker has not found or asked for alone is ahead of it, and of a target
\* that is being given up every want is either done or still to be done.
Coverage ==
    \A k \in Worker :
        /\ wpc[k] # "idle" => Mine(k) # {}
        /\ wpc[k] \notin {"idle", "start"} =>
            /\ queue[k] # <<>>
            /\ \A w \in Mine(k) : w[3] # 0 => w \in tried[k] \/ Ahead(k, w)
        /\ wpc[k] = "miss" /\ ~IsPack(Current(k)) =>
            AffectedWants(k, Current(k)) \subseteq left[k] \cup tried[k]
=============================================================================
