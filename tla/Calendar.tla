------------------------------ MODULE Calendar ------------------------------
(***************************************************************************)
(* Recomputing what each followed title still needs                        *)
(* (services/calendar.py).  A pass runs one worker per title; the          *)
(* watchlist sync and POST /media/{id}/refresh run refresh_media on their  *)
(* own.  A worker reads the library, plans, and then writes want by want,  *)
(* from what it read.                                                      *)
(***************************************************************************)
EXTENDS Catalog

CONSTANTS
    Sync,           \* the watchlist sync, as a process of its own
    Listing,        \* Listing[t]: the episode keys TMDB lists for t
    Air,            \* Air[w]: TMDB's date for a want
    Home,           \* films whose date is a home release
    Policies,       \* the policies that may be configured
    Concurrency     \* titles a pass works on at a time

ASSUME CalendarAssumption ==
    /\ Sync \notin Title
    /\ Listing \in [Show -> SUBSET (Nat \X Nat)]
    /\ Air \in [Want -> Int \cup {Unknown}]
    /\ Home \subseteq Film
    /\ Concurrency \in Nat \ {0}
    /\ \A t \in Show : \A k \in AllEpisodeKeys(Listing[t]) : <<t>> \o k \in Want
    /\ \A t \in Film : <<t, 0, 0>> \in Want

VARIABLES
    today,
    policy,
    pass,       \* the calendar pass
    job,        \* job[p]: where worker p is
    rules,      \* rules[p]: the policy it set out with
    have,       \* have[p]: episodes it read as owned
    seen,       \* seen[p]: episodes it read as watched
    plan,       \* plan[p]: what it wants
    todo        \* todo[p]: the wants still to be written

\* A calendar worker bears the name of its title.
Process == Title \cup {Sync}
Keys == {Key(w) : w \in Want}

workerVars == <<job, rules, have, seen, plan, todo>>
calendarVars == <<today, policy, pass, job, rules, have, seen, plan, todo>>

CalendarTypeOK ==
    /\ today \in Nat
    /\ pass \in {"idle", "work", "expire"}
    /\ job \in [Process -> {"idle", "queued", "start", "have", "seen", "upsert", "retire",
                            "owned", "dated"}]
    /\ rules \in [Process -> Policies \cup {Unknown}]
    /\ have \in [Process -> SUBSET Keys]
    /\ seen \in [Process -> SUBSET Keys]
    /\ plan \in [Process -> SUBSET Keys]
    /\ todo \in [Process -> SUBSET Keys]

CalendarInit ==
    /\ today = 0
    /\ pass = "idle"
    /\ job = [p \in Process |-> "idle"]
    /\ rules = [p \in Process |-> Unknown]
    /\ have = [p \in Process |-> {}]
    /\ seen = [p \in Process |-> {}]
    /\ plan = [p \in Process |-> {}]
    /\ todo = [p \in Process |-> {}]

AirOf(t) == [k \in AllEpisodeKeys(Listing[t]) |-> Air[<<t>> \o k]]
Goto(p, step) == job' = [job EXCEPT ![p] = step]

\* refresh_media sets out with the policy in force, and ends.
SetOut(p) == Goto(p, "start") /\ rules' = [rules EXCEPT ![p] = policy]
Done(p) == Goto(p, "idle") /\ rules' = [rules EXCEPT ![p] = Unknown]

-----------------------------------------------------------------------------
(* refresh_media, by process p for title t *)

\* TMDB answers, ...
ListShow(p, t) ==
    /\ job[p] = "start" /\ t \in Show
    /\ Listing[t] # {}
    /\ Goto(p, "have")
    /\ UNCHANGED <<catalogVars, today, policy, pass, rules, have, seen, plan, todo>>

\* ... or does not, or with no season at all, and the title stays as it is.
NoListing(p, t) ==
    /\ job[p] = "start" /\ t \in Show
    /\ Done(p)
    /\ UNCHANGED <<catalogVars, today, policy, pass, have, seen, plan, todo>>

ReadHave(p, t) ==
    /\ job[p] = "have"
    /\ have' = [have EXCEPT ![p] = HaveEpisodes(t) \cap Keys]
    /\ Goto(p, "seen")
    /\ UNCHANGED <<catalogVars, today, policy, pass, rules, seen, plan, todo>>

Wanted(p, t, watched) ==
    PlanShowWants(Listing[t], AirOf(t), have[p], watched, rules[p], today)

ReadSeen(p, t) ==
    /\ job[p] = "seen"
    /\ seen' = [seen EXCEPT ![p] = WatchedEpisodes(t)]
    /\ plan' = [plan EXCEPT ![p] = Wanted(p, t, WatchedEpisodes(t))]
    /\ todo' = [todo EXCEPT ![p] = Wanted(p, t, WatchedEpisodes(t))]
    /\ Goto(p, "upsert")
    /\ UNCHANGED <<catalogVars, today, policy, pass, rules, have>>

UpsertPlanned(p, t) ==
    /\ job[p] = "upsert"
    /\ \E k \in todo[p] :
        LET air == Air[<<t>> \o k]
        IN  /\ Upsert(<<t>> \o k, air,
                      IF ShouldSearch(air, today, 0) THEN "searching" ELSE "waiting")
            /\ todo' = [todo EXCEPT ![p] = @ \ {k}]
    /\ UNCHANGED <<mediaVars, hunted, libVars, today, policy, pass>>
    /\ UNCHANGED <<job, rules, have, seen, plan>>

StandPresent(p, t) ==
    /\ job[p] = "upsert" /\ todo[p] = {}
    /\ MarkPresent(Of(t, have[p] \cup seen[p]))
    /\ Goto(p, "retire")
    /\ UNCHANGED <<mediaVars, date, hunted, libVars, today, policy, pass>>
    /\ UNCHANGED <<rules, have, seen, plan, todo>>

Clear(f, p) == [f EXCEPT ![p] = {}]

StandDown(p, t) ==
    /\ job[p] = "retire"
    /\ Retire(Of(t, AllEpisodeKeys(Listing[t]) \ (plan[p] \cup have[p] \cup seen[p])))
    /\ Done(p)
    /\ have' = Clear(have, p) /\ seen' = Clear(seen, p) /\ plan' = Clear(plan, p)
    /\ UNCHANGED <<mediaVars, date, hunted, libVars, today, policy, pass, todo>>

RefreshShow(p, t) ==
    \/ ListShow(p, t) \/ NoListing(p, t) \/ ReadHave(p, t) \/ ReadSeen(p, t)
    \/ UpsertPlanned(p, t) \/ StandPresent(p, t) \/ StandDown(p, t)

ReadMovie(p, t) ==
    /\ job[p] = "start" /\ t \in Film
    /\ Goto(p, IF HasMovie(t) THEN "owned" ELSE "dated")
    /\ UNCHANGED <<catalogVars, today, policy, pass, rules, have, seen, plan, todo>>

\* The library holds the film: a want is recorded as downloaded.
OwnMovie(p, t) ==
    /\ job[p] = "owned"
    /\ Upsert(<<t, 0, 0>>, Unknown, "downloaded")
    /\ Done(p)
    /\ UNCHANGED <<mediaVars, hunted, libVars, today, policy, pass, have, seen, plan, todo>>

\* TMDB's date, or none when it does not answer.
RefreshMovie(p, t) ==
    /\ job[p] = "dated"
    /\ \E air \in {Air[<<t, 0, 0>>], Unknown} :
        Upsert(<<t, 0, 0>>, air,
               IF (t \in Home /\ air # Unknown) \/ ShouldSearch(air, today, 0)
               THEN "searching" ELSE "waiting")
    /\ Done(p)
    /\ UNCHANGED <<mediaVars, hunted, libVars, today, policy, pass, have, seen, plan, todo>>

-----------------------------------------------------------------------------
(* refresh_calendar: the pass over every followed title *)

StartPass ==
    /\ pass = "idle"
    /\ pass' = "work"
    /\ job' = [p \in Process |->
                IF p \in Title /\ p \in Followed THEN "queued" ELSE job[p]]
    /\ UNCHANGED <<catalogVars, today, policy, rules, have, seen, plan, todo>>

\* The semaphore
StartWorker(t) ==
    /\ job[t] = "queued"
    /\ Cardinality({u \in Title : job[u] \notin {"idle", "queued"}}) < Concurrency
    /\ SetOut(t)
    /\ UNCHANGED <<catalogVars, today, policy, pass, have, seen, plan, todo>>

Worker(t) ==
    \/ StartWorker(t)
    \/ RefreshShow(t, t) \/ ReadMovie(t, t) \/ OwnMovie(t, t) \/ RefreshMovie(t, t)

Promote ==
    /\ pass = "work"
    /\ \A t \in Title : job[t] = "idle"
    /\ PromoteDue(today)
    /\ pass' = "expire"
    /\ UNCHANGED <<mediaVars, date, hunted, libVars, today, policy, workerVars>>

Expire ==
    /\ pass = "expire"
    /\ \E W \in SUBSET {w \in Want : hunted[w]} : ExpireStale(W)
    /\ pass' = "idle"
    /\ UNCHANGED <<mediaVars, date, hunted, libVars, today, policy, workerVars>>

CalendarStep ==
    \/ StartPass \/ Promote \/ Expire
    \/ \E t \in Title : Worker(t)
=============================================================================
