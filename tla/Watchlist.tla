----------------------------- MODULE Watchlist -----------------------------
(***************************************************************************)
(* Turning the Plex watchlist into monitored titles and wants              *)
(* (services/watchlist.py).  An entry is written like a want: a film       *)
(* <<t, 0, 0>>, a series <<t, 0, 0>>, a season <<t, s, 0>> or an episode.  *)
(* A sync works through the entries it fetched one after the other, and    *)
(* runs the calendar's refresh for a series itself.                        *)
(***************************************************************************)
EXTENDS Calendar

CONSTANTS
    Entry,          \* what can be on the watchlist
    Lists           \* the watchlists there may be at first

ASSUME WatchlistAssumption ==
    /\ \A e \in Entry : e[1] \in Title /\ (e[1] \in Show => e[2] = 0 \/ e \in Want)
    /\ Lists \subseteq SUBSET Entry

NoEntry == <<>>

VARIABLES
    listed,     \* Plex: the watchlist
    entries,    \* fetched and not processed yet
    entry,      \* the entry being ingested
    sync        \* where it is

watchlistVars == <<listed, entries, entry, sync>>

WatchlistTypeOK ==
    /\ listed \subseteq Entry /\ entries \subseteq Entry
    /\ entry \in Entry \cup {NoEntry}
    /\ sync \in {"idle", "next", "flags", "want", "refresh", "done"}

WatchlistInit ==
    /\ listed \in Lists /\ entries = {}
    /\ entry = NoEntry
    /\ sync = "idle"

Named == entry[1]
IsSeries == Named \in Show /\ entry[2] = 0
IsSeason == Named \in Show /\ entry[2] # 0 /\ entry[3] = 0
IsEpisode == Named \in Show /\ entry[3] # 0

-----------------------------------------------------------------------------

FetchWatchlist ==
    /\ sync = "idle"
    /\ listed # {}
    /\ entries' = listed
    /\ sync' = "next"
    /\ UNCHANGED <<catalogVars, calendarVars, listed, entry>>

IngestMedia(e) ==
    /\ sync = "next"
    /\ e \in entries
    /\ UpsertMedia(e[1])
    /\ entry' = e
    /\ entries' = entries \ {e}
    /\ sync' = "flags"
    /\ UNCHANGED <<ignored, wantVars, libVars, calendarVars, listed>>

\* Being on the watchlist is a request: the title is followed again.
FlagMedia ==
    /\ sync = "flags"
    /\ SetFlags(Named, "on", "no")
    /\ IF IsSeries \/ Named \in Film
       THEN SetOut(Sync) /\ sync' = "refresh"
       ELSE UNCHANGED <<job, rules>> /\ sync' = "want"
    /\ UNCHANGED <<wantVars, libVars, listed, entries, entry>>
    /\ UNCHANGED <<today, policy, pass, have, seen, plan, todo>>

\* _want_movie: unlike the calendar, it leaves a date that has passed waiting.
WantMovie ==
    /\ job[Sync] = "dated"
    /\ \E air \in {Air[<<Named, 0, 0>>], Unknown} :
        Upsert(<<Named, 0, 0>>, air,
               IF Named \in Home \/ air = Unknown THEN "searching" ELSE "waiting")
    /\ Done(Sync)
    /\ UNCHANGED <<mediaVars, hunted, libVars, today, policy, pass, have, seen, plan, todo>>

\* The refresh of a series or of a film has ended.
Refreshed ==
    /\ sync = "refresh"
    /\ job[Sync] = "idle"
    /\ sync' = "done"
    /\ UNCHANGED <<catalogVars, calendarVars, listed, entries, entry>>

WantEpisode ==
    /\ sync = "want" /\ IsEpisode
    /\ Upsert(entry, Unknown, "searching")
    /\ sync' = "done"
    /\ UNCHANGED <<mediaVars, hunted, libVars, calendarVars, listed, entries, entry>>

\* _want_season: TMDB knows no episode (or does not answer) ...
WantWholeSeason ==
    /\ sync = "want" /\ IsSeason /\ todo[Sync] = {}
    /\ Upsert(entry, Unknown, "searching")
    /\ sync' = "done"
    /\ UNCHANGED <<mediaVars, hunted, libVars, calendarVars, listed, entries, entry>>

\* ... or lists some, and those that are not owned become wants.
ReadSeason ==
    LET known == EpisodesOf(Listing[Named], entry[2])
        missing == known \ HaveEpisodes(Named)
    IN  /\ sync = "want" /\ IsSeason /\ todo[Sync] = {}
        /\ known # {}
        /\ todo' = [todo EXCEPT ![Sync] = missing]
        /\ sync' = IF missing = {} THEN "done" ELSE "want"
        /\ UNCHANGED <<catalogVars, listed, entries, entry>>
        /\ UNCHANGED <<today, policy, pass, job, rules, have, seen, plan>>

WantOfSeason ==
    /\ sync = "want"
    /\ \E k \in todo[Sync] :
        /\ Upsert(<<Named>> \o k, Air[<<Named>> \o k], "waiting")
        /\ todo' = [todo EXCEPT ![Sync] = @ \ {k}]
        /\ sync' = IF todo[Sync] = {k} THEN "done" ELSE "want"
    /\ UNCHANGED <<mediaVars, hunted, libVars, listed, entries, entry>>
    /\ UNCHANGED <<today, policy, pass, job, rules, have, seen, plan>>

\* On to the next entry.
NextEntry ==
    /\ entry' = NoEntry
    /\ sync' = IF entries = {} THEN "idle" ELSE "next"

\* An item that is in hand is taken off the watchlist, unless that fails.
FinishEntry(removed) ==
    /\ sync = "done"
    /\ listed' = IF policy.autoRemove /\ removed THEN listed \ {entry} ELSE listed
    /\ NextEntry
    /\ UNCHANGED <<catalogVars, calendarVars, entries>>

SyncSteps ==
    \/ FetchWatchlist \/ FlagMedia \/ Refreshed
    \/ WantEpisode \/ WantWholeSeason \/ ReadSeason \/ WantOfSeason \/ FinishEntry(TRUE)
    \/ \E e \in Entry : IngestMedia(e)

\* The steps of refresh_media and _want_movie that run inside a sync.
SyncRefresh ==
    /\ sync = "refresh"
    /\ \/ RefreshShow(Sync, Named)
       \/ ReadMovie(Sync, Named)
       \/ OwnMovie(Sync, Named)
       \/ WantMovie
    /\ UNCHANGED watchlistVars
=============================================================================
