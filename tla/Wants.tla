------------------------------- MODULE Wants -------------------------------
(***************************************************************************)
(* What is wanted, and why: the library mirror, the calendar and the       *)
(* watchlist sync at work on the same tables, between them a person at the *)
(* dashboard (web/api.py), Plex and TMDB, and the searches and downloads   *)
(* that take wants up, as far as the tables show them.                     *)
(***************************************************************************)
EXTENDS Library, Watchlist

CONSTANT
    MaxActs         \* bound: changes from outside in a behaviour

ASSUME WantsAssumption == MaxActs \in Nat

VARIABLES
    call,           \* a dashboard request between its two statements
    taken,          \* wants a search has taken up and has still to write
    acts            \* changes from outside so far

vars == <<catalogVars, libraryVars, calendarVars, watchlistVars, call, taken, acts>>
tasks == <<libraryVars, calendarVars, watchlistVars>>

NoCall == <<"none">>

TypeOK ==
    /\ CatalogTypeOK /\ LibraryTypeOK /\ CalendarTypeOK /\ WatchlistTypeOK
    /\ policy \in Policies
    /\ call \in {NoCall, <<"clear">>} \cup ({"stop", "again"} \X Title)
    /\ taken \subseteq Want
    /\ acts \in 0..MaxActs

Init ==
    /\ CatalogInit /\ LibraryInit /\ CalendarInit /\ WatchlistInit
    /\ policy \in Policies
    /\ call = NoCall
    /\ taken = {}
    /\ acts = 0

-----------------------------------------------------------------------------
(* The tasks *)

\* An index pass that finds Plex as it was, or a section that does not answer, is
\* one of the changes from outside: otherwise the table could be half filled
\* whenever somebody looks.
Index ==
    \E up \in {Title, Show, Film} :
        /\ IndexLibrary(up)
        /\ acts' = IF up = Title /\ <<plex, plexSeen \cap plex>> # <<lib, libSeen>>
                   THEN acts ELSE acts + 1
        /\ acts' <= MaxActs
        /\ UNCHANGED <<calendarVars, watchlistVars, call, taken>>

LibraryTask ==
    /\ EmptyIndex \/ FillIndex \/ FindWatched \/ \E t \in Show : FollowWatched(t)
    /\ UNCHANGED <<calendarVars, watchlistVars, call, taken, acts>>

CalendarTask ==
    CalendarStep /\ UNCHANGED <<libraryVars, watchlistVars, call, taken, acts>>

WatchlistTask ==
    (SyncSteps \/ SyncRefresh) /\ UNCHANGED <<libraryVars, call, taken, acts>>

-----------------------------------------------------------------------------
(* The dashboard.  A request of two statements is two steps. *)

Act == acts < MaxActs /\ acts' = acts + 1

PatchMedia(t, monitored, ignore) ==
    /\ Act
    /\ call = NoCall
    /\ media[t] # "absent"
    /\ SetFlags(t, monitored, ignore)
    /\ call' = IF ignore = "yes" THEN <<"stop", t>>
               ELSE IF ignore = "no" \/ monitored = "on" THEN <<"again", t>>
               ELSE NoCall
    /\ UNCHANGED <<wantVars, libVars, tasks, taken>>

PatchWants ==
    /\ call # NoCall
    /\ \/ call[1] = "stop" /\ SetStateForMedia(call[2], "ignored", {"waiting", "searching"})
       \/ call[1] = "again" /\ SetStateForMedia(call[2], "searching", {"ignored"})
       \/ call[1] = "clear" /\ ClearIgnoredWants
    /\ call' = NoCall
    /\ UNCHANGED <<mediaVars, date, hunted, libVars, tasks, taken, acts>>

ClearIgnoreList ==
    /\ Act
    /\ call = NoCall
    /\ UnignoreAll
    /\ call' = <<"clear">>
    /\ UNCHANGED <<wantVars, libVars, tasks, taken>>

\* Single episodes seen or not seen after all; a title, a season, part of one;
\* a state set by hand.
SetSeen(w) ==
    /\ Act
    /\ want[w] # "none"
    /\ \/ MarkWatched({w})
       \/ UndoWatched({w})
       \/ MarkWatchedForMedia(w[1], 0, 0)
       \/ w[2] # 0 /\ MarkWatchedForMedia(w[1], w[2], w[3])
       \/ \E s \in {"searching", "ignored"} : SetWantState(w, s)
    /\ UNCHANGED <<mediaVars, date, hunted, libVars, tasks, call, taken>>

-----------------------------------------------------------------------------
(* Plex, the calendar day, the configuration, searches and downloads *)

PlexChanges(w) ==
    /\ Act
    /\ \/ plex' = plex \cup {w} /\ plexSeen' = plexSeen
       \/ plex' = plex \cup {w} /\ plexSeen' = plexSeen \cup {w}
       \/ plex' = plex \ {w} /\ plexSeen' = plexSeen \ {w}
    /\ UNCHANGED <<catalogVars, index, items, itemsSeen, follow>>
    /\ UNCHANGED <<calendarVars, watchlistVars, call, taken>>

ListEntry(e) ==
    /\ Act
    /\ listed' = listed \cup {e}
    /\ UNCHANGED <<catalogVars, libraryVars, calendarVars, entries, entry, sync, call, taken>>

NextDay ==
    /\ Act
    /\ today' = today + 1
    /\ UNCHANGED <<catalogVars, libraryVars, watchlistVars, policy, pass, workerVars>>
    /\ UNCHANGED <<call, taken>>

ChangePolicy(p) ==
    /\ Act
    /\ policy' = p
    /\ UNCHANGED <<catalogVars, libraryVars, watchlistVars, today, pass, workerVars>>
    /\ UNCHANGED <<call, taken>>

\* A search reads the wants it is for, asks the trackers, and writes its verdict
\* whatever has become of them since.  The button takes up what the tasks leave
\* alone.
TakeUp(w) ==
    /\ Act
    /\ w \notin taken
    /\ want[w] \in {"searching", "waiting", "unavailable"}
    /\ taken' = taken \cup {w}
    /\ UNCHANGED <<catalogVars, tasks, call>>

Conclude(w) ==
    /\ w \in taken
    /\ taken' = taken \ {w}
    /\ \/ SetWantState(w, "grabbed") /\ UNCHANGED hunted
       \/ SetWantState(w, "searching") /\ hunted' = [hunted EXCEPT ![w] = TRUE]
    /\ UNCHANGED <<mediaVars, date, libVars, tasks, call, acts>>

\* A grab that nothing comes in between of: no change that could unsettle a pass.
GrabAtOnce(w) ==
    /\ w \in Searchable
    /\ SetWantState(w, "grabbed")
    /\ UNCHANGED <<mediaVars, date, hunted, libVars, tasks, call, taken, acts>>

\* The monitor finishes a download, or gives it up.
EndDownload(w) ==
    /\ Act
    /\ want[w] = "grabbed"
    /\ \E s \in {"downloaded", "searching"} : want' = [want EXCEPT ![w] = s]
    /\ UNCHANGED <<mediaVars, date, hunted, libVars, tasks, call, taken>>

\* An entry is ingested and stays on the watchlist all the same.
RemovalFails ==
    /\ Act
    /\ FinishEntry(FALSE)
    /\ UNCHANGED <<libraryVars, call, taken>>

\* An entry raises: it stays on the watchlist, and the next one is taken up.
IngestRaises ==
    /\ Act
    /\ sync \in {"flags", "want", "refresh"}
    /\ NextEntry
    /\ Done(Sync)
    /\ have' = Clear(have, Sync) /\ seen' = Clear(seen, Sync)
    /\ plan' = Clear(plan, Sync) /\ todo' = Clear(todo, Sync)
    /\ UNCHANGED <<catalogVars, libraryVars, today, policy, pass, listed, entries>>
    /\ UNCHANGED <<call, taken>>

-----------------------------------------------------------------------------
(* The specification *)

Outside ==
    \/ \E t \in Title, patch \in {<<"keep", "yes">>, <<"on", "no">>, <<"off", "keep">>} :
        PatchMedia(t, patch[1], patch[2])
    \/ PatchWants \/ ClearIgnoreList
    \/ \E w \in Want : SetSeen(w) \/ EndDownload(w)
    \/ \E w \in Want : TakeUp(w) \/ Conclude(w) \/ GrabAtOnce(w)
    \/ \E w \in Want : (w[1] \in Film \/ w[3] # 0) /\ PlexChanges(w)
    \/ \E e \in Entry : ListEntry(e)
    \/ NextDay \/ RemovalFails \/ IngestRaises
    \/ \E p \in Policies : ChangePolicy(p)

Next == Index \/ LibraryTask \/ CalendarTask \/ WatchlistTask \/ Outside

Spec == Init /\ [][Next]_vars

\* The supervisor runs the tasks again and again and their awaits end (a calendar
\* pass has finitely many steps); TMDB answers again if it is asked for ever.
Fairness ==
    /\ WF_vars(Index) /\ WF_vars(LibraryTask)
    /\ WF_vars(WatchlistTask) /\ WF_vars(CalendarTask)
    /\ \A t \in Show : SF_vars(ListShow(t, t) /\ CalendarTask)

FairSpec == Spec /\ Fairness

-----------------------------------------------------------------------------
(* Properties *)

\* The wants of series t are what the policy in force makes of the library and of
\* the listing: what is planned is on the list, what is owned is not out to
\* search, and neither is anything else.
Tidy(t) ==
    LET owned == HaveEpisodes(t)
        planned == PlanShowWants(Listing[t], AirOf(t), owned, WatchedEpisodes(t), policy, today)
    IN  /\ \A w \in Of(t, planned) : want[w] \notin {"none", "ignored"}
        /\ \A w \in Of(t, owned) : want[w] \in {"none", "downloaded", "ignored"}
        /\ \A w \in Of(t, AllEpisodeKeys(Listing[t]) \ (planned \cup owned)) :
            want[w] \notin {"waiting", "searching", "unavailable"}

\* Whatever changed, and in the middle of whichever pass (the policy, the library,
\* a title followed, ignored or cleared, a section Plex did not show, a half
\* filled index), the list of a followed series is put right again, in both
\* directions: wants stand down when the rules narrow and come back when they
\* widen.
ListTidies == \A t \in Show : []<>(t \in Followed => Tidy(t))

\* A want whose air date has come does not wait for ever, whoever put it in
\* waiting and whatever the day was then.
WaitingComesOut ==
    []<>(\A w \in Want : want[w] = "waiting" => date[w] = Unknown \/ date[w] > today)

\* No library, calendar or watchlist pass takes back what has been achieved: as they
\* overlap and work from old snapshots, they never send a want that is grabbed,
\* downloaded or seen out again, nor stand it down (upsert keeps the progress made,
\* retire its states).  A search may, and is left out: it writes over whatever has
\* become of the wants it read before it asked the trackers (Conclude).
ProgressKept ==
    [][acts' = acts /\ call' = call /\ taken' = taken =>
        \A w \in Want : want[w] \in {"grabbed", "downloaded", "watched"}
                            => want'[w] \in {want[w], "downloaded"}]_vars

\* "Anything present is never turned into a want, so the tracker is never even
\* queried for it": a pass that finds a film in the library does not leave it
\* out to search.
PresentFilmStoodDown ==
    [][\A t \in Film : (job[t] = "owned" /\ job'[t] = "idle")
        => want'[<<t, 0, 0>>] # "searching"]_vars
=============================================================================
