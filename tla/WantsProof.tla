----------------------------- MODULE WantsProof -----------------------------
(***************************************************************************)
(* Proofs about module Wants, for every catalogue, library, watchlist,     *)
(* policy and TMDB listing: every table, worker and request keeps its      *)
(* type, and no planning task takes progress back.                         *)
(***************************************************************************)
EXTENDS Wants, SequenceTheorems, TLAPS

\* What the proofs need to know of the state.
WantTypes ==
    /\ want \in [Want -> WantedState \cup {"none"}]
    /\ acts \in Int

-----------------------------------------------------------------------------
(* The next-state relation, action by action *)

\* The steps of the tasks, and of the world outside, that write no want.
QuietTask ==
    \/ LibraryTask
    \/ /\ \/ \E t \in Title :
                \/ StartWorker(t) \/ ReadMovie(t, t) \/ ListShow(t, t)
                \/ NoListing(t, t) \/ ReadHave(t, t) \/ ReadSeen(t, t)
          \/ StartPass
          \/ FetchWatchlist \/ FlagMedia \/ Refreshed \/ ReadSeason \/ FinishEntry(TRUE)
          \/ \E e \in Entry : IngestMedia(e)
          \/ \/ ListShow(Sync, Named) \/ NoListing(Sync, Named)
             \/ ReadHave(Sync, Named) \/ ReadSeen(Sync, Named) \/ ReadMovie(Sync, Named)
       /\ UNCHANGED <<call, taken, acts>>

QuietOutside ==
    \/ \E t \in Title, patch \in {<<"keep", "yes">>, <<"on", "no">>, <<"off", "keep">>} :
        PatchMedia(t, patch[1], patch[2])
    \/ ClearIgnoreList
    \/ \E w \in Want : PlexChanges(w) \/ TakeUp(w)
    \/ \E e \in Entry : ListEntry(e)
    \/ NextDay \/ RemovalFails \/ IngestRaises
    \/ \E p \in Policies : ChangePolicy(p)

\* The steps of the tasks that write one.
Planning ==
    /\ \/ \E p \in Process, t \in Title :
            UpsertPlanned(p, t) \/ StandPresent(p, t) \/ StandDown(p, t) \/ OwnMovie(p, t)
       \/ UpsertPlanned(Sync, Named) \/ StandPresent(Sync, Named)
       \/ StandDown(Sync, Named) \/ OwnMovie(Sync, Named)
       \/ \E t \in Title : RefreshMovie(t, t)
       \/ Promote \/ Expire
       \/ WantMovie \/ WantEpisode \/ WantWholeSeason \/ WantOfSeason
    /\ UNCHANGED <<call, taken, acts>>

\* The steps of people, searches and downloads that write one.
Writing(w) == SetSeen(w) \/ EndDownload(w) \/ Conclude(w) \/ GrabAtOnce(w)

LEMMA Cases ==
    ASSUME [Next]_vars
    PROVE  \/ Index \/ QuietTask \/ QuietOutside
           \/ Planning
           \/ PatchWants
           \/ \E w \in Want : Writing(w)
           \/ UNCHANGED vars
  <1>1. ASSUME CalendarTask PROVE QuietTask \/ Planning
    BY <1>1, Zenon DEF CalendarTask, CalendarStep, Worker, RefreshShow, QuietTask,
       Planning, Process
  <1>2. ASSUME WatchlistTask PROVE QuietTask \/ Planning
    BY <1>2, Zenon DEF WatchlistTask, SyncSteps, SyncRefresh, RefreshShow, QuietTask,
       Planning
  <1>3. ASSUME LibraryTask PROVE QuietTask
    BY <1>3 DEF QuietTask
  <1>4. ASSUME Outside
       PROVE QuietOutside \/ PatchWants
             \/ \E w \in Want : Writing(w)
    BY <1>4, Zenon DEF Outside, QuietOutside, Writing
  <1> QED
    BY <1>1, <1>2, <1>3, <1>4, Zenon DEF Next

-----------------------------------------------------------------------------
(* What the steps do to the wants *)

LEMMA QuietTaskStep ==
    ASSUME QuietTask
    PROVE  want' = want /\ acts' = acts
  <1> USE DEF tasks, catalogVars, mediaVars, wantVars, libVars
  <1> USE DEF libraryVars, calendarVars, workerVars, watchlistVars
  <1>1. CASE LibraryTask
    BY <1>1 DEF LibraryTask, EmptyIndex, FillIndex, FindWatched, FollowWatched
  <1>2. ASSUME NEW t \in Title, StartWorker(t) PROVE UNCHANGED want
    BY <1>2 DEF StartWorker
  <1>3. ASSUME NEW p, NEW t, \/ ReadMovie(p, t) \/ ListShow(p, t) \/ NoListing(p, t)
                             \/ ReadHave(p, t) \/ ReadSeen(p, t)
       PROVE UNCHANGED want
    BY <1>3 DEF ReadMovie, ListShow, NoListing, ReadHave, ReadSeen
  <1>4. ASSUME NEW e \in Entry, IngestMedia(e) PROVE UNCHANGED want
    BY <1>4 DEF IngestMedia
  <1>5. ASSUME \/ StartPass \/ FetchWatchlist \/ FlagMedia \/ Refreshed
               \/ ReadSeason \/ FinishEntry(TRUE)
       PROVE UNCHANGED want
    BY <1>5 DEF StartPass, FetchWatchlist, FlagMedia, Refreshed, ReadSeason, FinishEntry
  <1> HIDE DEF tasks, catalogVars, mediaVars, wantVars, libVars
  <1> HIDE DEF libraryVars, calendarVars, workerVars, watchlistVars
  <1> QED
    BY <1>1, <1>2, <1>3, <1>4, <1>5, Zenon DEF QuietTask

LEMMA QuietOutsideStep ==
    ASSUME QuietOutside, acts \in Int
    PROVE  want' = want /\ acts' \in Int
  <1> DEFINE Goal == want' = want /\ acts' \in Int
  <1> USE DEF Act, tasks, catalogVars, mediaVars, wantVars, libVars
  <1> USE DEF libraryVars, calendarVars, workerVars, watchlistVars
  <1>1. ASSUME NEW t \in Title, NEW m, NEW i, PatchMedia(t, m, i) PROVE Goal
    BY <1>1 DEF PatchMedia
  <1>2. ASSUME NEW w \in Want, PlexChanges(w) \/ TakeUp(w) PROVE Goal
    BY <1>2 DEF PlexChanges, TakeUp
  <1>3. ASSUME NEW e \in Entry, ListEntry(e) PROVE Goal
    BY <1>3 DEF ListEntry
  <1>4. ASSUME NEW p \in Policies, ChangePolicy(p) PROVE Goal
    BY <1>4 DEF ChangePolicy
  <1>5. ASSUME ClearIgnoreList \/ NextDay \/ RemovalFails \/ IngestRaises PROVE Goal
    BY <1>5 DEF ClearIgnoreList, NextDay, RemovalFails, FinishEntry, IngestRaises
  <1> HIDE DEF Act, tasks, catalogVars, mediaVars, wantVars, libVars, Goal
  <1> HIDE DEF libraryVars, calendarVars, workerVars, watchlistVars
  <1>6. Goal
    BY <1>1, <1>2, <1>3, <1>4, <1>5, Zenon DEF QuietOutside
  <1> QED
    BY <1>6 DEF Goal

\* The two words a planner gives a want it upserts.
Planned == {"searching", "waiting", "downloaded"}

\* What a task may make of want w: progress stays or becomes "downloaded", and
\* the rest takes a state there is.
Moves(w) ==
    /\ want'[w] \in WantedState \cup {"none"}
    /\ want[w] \in {"grabbed", "downloaded", "watched"} => want'[w] \in {want[w], "downloaded"}

\* An upsert keeps the progress of the want it meets, and leaves the others.
LEMMA UpsertKeeps ==
    ASSUME WantTypes, NEW v, NEW air, NEW s \in Planned, Upsert(v, air, s)
    PROVE  want' \in [Want -> WantedState \cup {"none"}] /\ \A w \in Want : Moves(w)
  BY DEF WantTypes, Upsert, Planned, Moves, WantedState

LEMMA PlanningStep ==
    ASSUME WantTypes, Planning
    PROVE  want' \in [Want -> WantedState \cup {"none"}] /\ \A w \in Want : Moves(w)
  <1> DEFINE Goal ==
        want' \in [Want -> WantedState \cup {"none"}] /\ \A w \in Want : Moves(w)
  <1>1. ASSUME NEW p, NEW t, UpsertPlanned(p, t) PROVE Goal
    BY <1>1, UpsertKeeps DEF UpsertPlanned, Planned
  <1>2. ASSUME NEW p, NEW t, StandPresent(p, t) PROVE Goal
    BY <1>2 DEF StandPresent, MarkPresent, WantTypes, Moves, WantedState
  <1>3. ASSUME NEW p, NEW t, StandDown(p, t) PROVE Goal
    BY <1>3 DEF StandDown, Retire, WantTypes, Moves, WantedState
  <1>4. ASSUME NEW p, NEW t, OwnMovie(p, t) PROVE Goal
    BY <1>4, UpsertKeeps DEF OwnMovie, Planned
  <1>5. ASSUME NEW t, RefreshMovie(t, t) PROVE Goal
    BY <1>5, UpsertKeeps DEF RefreshMovie, Planned
  <1>6. ASSUME Promote PROVE Goal
    BY <1>6 DEF Promote, PromoteDue, WantTypes, Moves, WantedState
  <1>7. ASSUME Expire PROVE Goal
    BY <1>7 DEF Expire, ExpireStale, WantTypes, Moves, WantedState
  <1>8. ASSUME WantMovie \/ WantEpisode \/ WantWholeSeason PROVE Goal
    BY <1>8, UpsertKeeps DEF WantMovie, WantEpisode, WantWholeSeason, Planned
  <1>9. ASSUME WantOfSeason PROVE Goal
    BY <1>9, UpsertKeeps DEF WantOfSeason, Planned
  <1> HIDE DEF Goal
  <1>10. Goal
    BY <1>1, <1>2, <1>3, <1>4, <1>5, <1>6, <1>7, <1>8, <1>9, Zenon DEF Planning
  <1> QED
    BY <1>10 DEF Goal

\* Progress made is kept.
Kept ==
    \A w \in Want : want[w] \in {"grabbed", "downloaded", "watched"}
                        => want'[w] \in {want[w], "downloaded"}

\* A person, a search and the end of a download write states there are; they
\* count as an act, end a request or end a search, but for a grab that nothing
\* came in between of, which is of a want that is out to search.
LEMMA OthersStep ==
    ASSUME WantTypes,
           PatchWants \/ \E w \in Want : Writing(w)
    PROVE  /\ want' \in [Want -> WantedState \cup {"none"}]
           /\ acts' \in Int
           /\ (acts' = acts /\ call' = call /\ taken' = taken) => Kept
  <1> DEFINE Goal == /\ want' \in [Want -> WantedState \cup {"none"}]
                     /\ acts' \in Int
                     /\ (acts' = acts /\ call' = call /\ taken' = taken) => Kept
  <1>1. ASSUME PatchWants PROVE Goal
    BY <1>1 DEF PatchWants, SetStateForMedia, ClearIgnoredWants, WantTypes, WantedState
  <1>2. ASSUME NEW w \in Want, SetSeen(w) PROVE Goal
    BY <1>2 DEF SetSeen, Act, MarkWatched, UndoWatched, MarkWatchedForMedia, SetWantState,
       WantTypes, WantedState
  <1>3. ASSUME NEW w \in Want, Conclude(w) PROVE Goal
    <2>1. taken' # taken
      BY <1>3 DEF Conclude
    <2> QED
      BY <1>3, <2>1 DEF Conclude, SetWantState, WantTypes, WantedState
  <1>4. ASSUME NEW w \in Want, EndDownload(w) PROVE Goal
    BY <1>4 DEF EndDownload, Act, WantTypes, WantedState
  <1>5. ASSUME NEW w \in Want, GrabAtOnce(w) PROVE Goal
    BY <1>5 DEF GrabAtOnce, Searchable, SetWantState, WantTypes, WantedState, Kept
  <1> HIDE DEF Goal
  <1>6. Goal
    BY <1>1, <1>2, <1>3, <1>4, <1>5, Zenon DEF Writing
  <1> QED
    BY <1>6 DEF Goal

\* An index pass writes no want.
LEMMA IndexStep ==
    ASSUME Index, acts \in Int
    PROVE  want' = want /\ acts' \in Int
  BY DEF Index, IndexLibrary, catalogVars

-----------------------------------------------------------------------------
(* The types of everything else, table by table *)

\* The steps of refresh_media: a calendar worker's for its own title, or the
\* sync's for the title it has in hand.
Refreshing(p, t) ==
    \/ p \in Title /\ t = p
    \/ p = Sync /\ sync = "refresh" /\ t = Named

\* A worker that reads, plans or writes episodes is at work on a series, and the
\* sync has no such worker but in the refresh of its entry: it is how a plan can
\* only name keys of the wants there are.
AtSeries ==
    /\ \A t \in Title : job[t] \in {"have", "seen", "upsert", "retire"} => t \in Show
    /\ sync # "refresh" => job[Sync] = "idle"
    /\ job[Sync] \in {"have", "seen", "upsert", "retire"} => Named \in Show

MediaTypes ==
    /\ media \in [Title -> {"absent", "off", "on"}]
    /\ ignored \in [Title -> BOOLEAN]

DateTypes ==
    /\ date \in [Want -> Int \cup {Unknown}]
    /\ hunted \in [Want -> BOOLEAN]

MirrorTypes == lib \subseteq Want /\ libSeen \subseteq Want /\ LibraryTypeOK

SettingTypes ==
    /\ today \in Nat /\ pass \in {"idle", "work", "expire"}
    /\ policy \in Policies
    /\ call \in {NoCall, <<"clear">>} \cup ({"stop", "again"} \X Title)
    /\ taken \subseteq Want
    /\ acts \in 0..MaxActs

\* MediaRepo's statements.
LEMMA MediaStep ==
    ASSUME MediaTypes, [Next]_vars
    PROVE  MediaTypes'
  <1>1. ASSUME NEW t, UpsertMedia(t), UNCHANGED ignored PROVE MediaTypes'
    BY <1>1 DEF UpsertMedia, MediaTypes
  <1>2. ASSUME NEW t, NEW m \in {"keep", "on", "off"}, NEW i, SetFlags(t, m, i)
        PROVE  MediaTypes'
    BY <1>2 DEF SetFlags, MediaTypes
  <1>3. CASE UnignoreAll
    BY <1>3 DEF UnignoreAll, MediaTypes
  <1>4. CASE UNCHANGED mediaVars
    BY <1>4 DEF mediaVars, MediaTypes
  <1> DEFINE Changes ==
        \/ \E t : UpsertMedia(t) /\ UNCHANGED ignored
        \/ \E t : \E m \in {"keep", "on", "off"} : \E i : SetFlags(t, m, i)
        \/ UnignoreAll
        \/ UNCHANGED mediaVars
  <1>5. ASSUME LibraryTask PROVE Changes
    BY <1>5 DEF LibraryTask, EmptyIndex, FillIndex, FindWatched, FollowWatched, catalogVars,
       mediaVars
  <1>6. ASSUME CalendarTask PROVE Changes
    BY <1>6 DEF CalendarTask, CalendarStep, StartPass, Promote, Expire, Worker, StartWorker,
       RefreshShow, ListShow, NoListing, ReadHave, ReadSeen, UpsertPlanned, StandPresent,
       StandDown, ReadMovie, OwnMovie, RefreshMovie, catalogVars, mediaVars
  <1>7. ASSUME WatchlistTask PROVE Changes
    BY <1>7 DEF WatchlistTask, SyncSteps, SyncRefresh, FetchWatchlist, IngestMedia, FlagMedia,
       Refreshed, WantEpisode, WantWholeSeason, ReadSeason, WantOfSeason, FinishEntry, WantMovie,
       RefreshShow, ListShow, NoListing, ReadHave, ReadSeen, UpsertPlanned, StandPresent,
       StandDown, ReadMovie, OwnMovie, catalogVars, mediaVars
  <1>8. ASSUME Outside PROVE Changes
    <2>1. ASSUME NEW t \in Title,
                 NEW patch \in {<<"keep", "yes">>, <<"on", "no">>, <<"off", "keep">>},
                 PatchMedia(t, patch[1], patch[2])
          PROVE  Changes
      <3>1. patch[1] \in {"keep", "on", "off"}
        OBVIOUS
      <3> QED
        BY <2>1, <3>1 DEF PatchMedia
    <2>2. ASSUME NEW w \in Want, Writing(w) \/ TakeUp(w) \/ PlexChanges(w)
          PROVE  UNCHANGED mediaVars
      BY <2>2 DEF Writing, SetSeen, EndDownload, Conclude, GrabAtOnce, TakeUp, PlexChanges, catalogVars, mediaVars
    <2>3. ASSUME \/ PatchWants \/ ClearIgnoreList \/ NextDay \/ RemovalFails \/ IngestRaises
                 \/ (\E e \in Entry : ListEntry(e)) \/ \E p \in Policies : ChangePolicy(p)
          PROVE  Changes
      BY <2>3 DEF PatchWants, ClearIgnoreList, ListEntry, NextDay, RemovalFails, FinishEntry,
         IngestRaises, ChangePolicy, catalogVars, mediaVars
    <2> HIDE DEF Changes
    <2>4. UNCHANGED mediaVars => Changes
      BY DEF Changes
    <2> QED
      BY <1>8, <2>1, <2>2, <2>3, <2>4, Zenon DEF Outside, Writing
  <1>9. CASE Index \/ UNCHANGED vars
    BY <1>9 DEF Index, IndexLibrary, vars, catalogVars, mediaVars, MediaTypes
  <1> HIDE DEF Changes
  <1>10. Changes \/ Index \/ UNCHANGED vars
    BY <1>5, <1>6, <1>7, <1>8 DEF Next
  <1> QED
    BY <1>1, <1>2, <1>3, <1>4, <1>9, <1>10 DEF Changes

\* The mirror of the library only ever holds what Plex held, and Plex holds films
\* and episodes.
LEMMA MirrorStep ==
    ASSUME MirrorTypes, [Next]_vars
    PROVE  MirrorTypes'
  <1> USE DEF MirrorTypes, LibraryTypeOK
  <1>1. CASE Index
    BY <1>1 DEF Index, IndexLibrary, ScanSections, catalogVars
  <1>2. CASE LibraryTask
    BY <1>2 DEF LibraryTask, EmptyIndex, FillIndex, FindWatched, FollowWatched, WatchedShows,
       libVars, catalogVars
  <1>3. ASSUME NEW w \in Want, PlexChanges(w) PROVE MirrorTypes'
    BY <1>3 DEF PlexChanges, catalogVars
  <1>4. CASE UNCHANGED <<libVars, libraryVars>>
    BY <1>4 DEF libVars, libraryVars
  <1> HIDE DEF MirrorTypes, LibraryTypeOK
  <1>5. ASSUME CalendarTask PROVE UNCHANGED <<libVars, libraryVars>>
    BY <1>5 DEF CalendarTask, CalendarStep, StartPass, Promote, Expire, Worker, StartWorker,
       RefreshShow, ListShow, NoListing, ReadHave, ReadSeen, UpsertPlanned, StandPresent,
       StandDown, ReadMovie, OwnMovie, RefreshMovie, catalogVars, libVars
  <1>6. ASSUME WatchlistTask PROVE UNCHANGED <<libVars, libraryVars>>
    BY <1>6 DEF WatchlistTask, SyncSteps, SyncRefresh, FetchWatchlist, IngestMedia, FlagMedia,
       Refreshed, WantEpisode, WantWholeSeason, ReadSeason, WantOfSeason, FinishEntry, WantMovie,
       RefreshShow, ListShow, NoListing, ReadHave, ReadSeen, UpsertPlanned, StandPresent,
       StandDown, ReadMovie, OwnMovie, catalogVars, libVars
  <1>7. ASSUME Outside
        PROVE  UNCHANGED <<libVars, libraryVars>> \/ \E w \in Want : PlexChanges(w)
    <2>1. ASSUME NEW t, NEW m, NEW i, PatchMedia(t, m, i) PROVE UNCHANGED <<libVars, libraryVars>>
      BY <2>1 DEF PatchMedia, tasks
    <2>2. ASSUME NEW w \in Want, Writing(w) \/ TakeUp(w)
          PROVE  UNCHANGED <<libVars, libraryVars>>
      BY <2>2 DEF Writing, SetSeen, EndDownload, Conclude, GrabAtOnce, TakeUp, catalogVars,
         libVars, tasks
    <2>3. ASSUME \/ PatchWants \/ ClearIgnoreList \/ NextDay \/ RemovalFails \/ IngestRaises
                 \/ (\E e \in Entry : ListEntry(e)) \/ \E p \in Policies : ChangePolicy(p)
          PROVE  UNCHANGED <<libVars, libraryVars>>
      BY <2>3 DEF PatchWants, ClearIgnoreList, ListEntry, NextDay, RemovalFails, FinishEntry,
         IngestRaises, ChangePolicy, catalogVars, libVars, tasks
    <2> QED
      BY <1>7, <2>1, <2>2, <2>3, Zenon DEF Outside, Writing
  <1>8. UNCHANGED vars => UNCHANGED <<libVars, libraryVars>>
    BY DEF vars, catalogVars, libVars
  <1> QED
    BY <1>1, <1>2, <1>3, <1>4, <1>5, <1>6, <1>7, <1>8 DEF Next

\* A date is TMDB's for the want it is given to, or the one on record.
LEMMA UpsertDates ==
    ASSUME DateTypes, NEW v, NEW air, NEW s, Upsert(v, air, s), UNCHANGED hunted,
           v \in Want => air \in Int \cup {Unknown}
    PROVE  DateTypes'
  BY DEF DateTypes, Upsert

LEMMA DateStep ==
    ASSUME DateTypes, [Next]_vars
    PROVE  DateTypes'
  <1> USE CalendarAssumption
  <1>1. ASSUME NEW p, NEW t, UpsertPlanned(p, t) \/ OwnMovie(p, t) PROVE DateTypes'
    BY <1>1, UpsertDates DEF UpsertPlanned, OwnMovie
  <1>2. ASSUME NEW t, RefreshMovie(t, t) PROVE DateTypes'
    BY <1>2, UpsertDates DEF RefreshMovie
  <1>3. CASE WantMovie \/ WantEpisode \/ WantWholeSeason \/ WantOfSeason
    BY <1>3, UpsertDates DEF WantMovie, WantEpisode, WantWholeSeason, WantOfSeason
  <1>4. ASSUME NEW w \in Want, Conclude(w) PROVE DateTypes'
    BY <1>4 DEF Conclude, DateTypes
  <1>5. CASE UNCHANGED <<date, hunted>>
    BY <1>5 DEF DateTypes
  <1>6. ASSUME Index \/ LibraryTask \/ UNCHANGED vars PROVE UNCHANGED <<date, hunted>>
    BY <1>6 DEF Index, IndexLibrary, LibraryTask, EmptyIndex, FillIndex, FindWatched,
       FollowWatched, wantVars, catalogVars, vars
  <1>7. ASSUME CalendarTask
        PROVE  \/ UNCHANGED <<date, hunted>>
               \/ \E t \in Title : UpsertPlanned(t, t) \/ OwnMovie(t, t) \/ RefreshMovie(t, t)
    BY <1>7 DEF CalendarTask, CalendarStep, StartPass, Promote, Expire, Worker, StartWorker,
       RefreshShow, ListShow, NoListing, ReadHave, ReadSeen, StandPresent, StandDown, ReadMovie,
       catalogVars, wantVars
  <1>8. ASSUME WatchlistTask
        PROVE  \/ UNCHANGED <<date, hunted>>
               \/ WantMovie \/ WantEpisode \/ WantWholeSeason \/ WantOfSeason
               \/ UpsertPlanned(Sync, Named) \/ OwnMovie(Sync, Named)
    BY <1>8 DEF WatchlistTask, SyncSteps, SyncRefresh, FetchWatchlist, IngestMedia, FlagMedia,
       Refreshed, ReadSeason, FinishEntry, RefreshShow, ListShow, NoListing, ReadHave, ReadSeen,
       StandPresent, StandDown, ReadMovie, catalogVars, wantVars
  <1>9. ASSUME Outside
        PROVE  UNCHANGED <<date, hunted>> \/ \E w \in Want : Conclude(w)
    <2>1. ASSUME NEW t, NEW m, NEW i, PatchMedia(t, m, i) PROVE UNCHANGED <<date, hunted>>
      BY <2>1 DEF PatchMedia, wantVars
    <2>2. ASSUME NEW w \in Want,
                 SetSeen(w) \/ EndDownload(w) \/ GrabAtOnce(w) \/ TakeUp(w) \/ PlexChanges(w)
          PROVE  UNCHANGED <<date, hunted>>
      BY <2>2 DEF SetSeen, EndDownload, GrabAtOnce, TakeUp, PlexChanges, catalogVars, wantVars
    <2>3. ASSUME \/ PatchWants \/ ClearIgnoreList \/ NextDay \/ RemovalFails \/ IngestRaises
                 \/ (\E e \in Entry : ListEntry(e)) \/ \E p \in Policies : ChangePolicy(p)
          PROVE  UNCHANGED <<date, hunted>>
      BY <2>3 DEF PatchWants, ClearIgnoreList, ListEntry, NextDay, RemovalFails, FinishEntry,
         IngestRaises, ChangePolicy, catalogVars, wantVars
    <2> QED
      BY <1>9, <2>1, <2>2, <2>3, Zenon DEF Outside, Writing
  <1> QED
    BY <1>1, <1>2, <1>3, <1>4, <1>5, <1>6, <1>7, <1>8, <1>9 DEF Next

\* The day, the pass, the policy in force and what was done from outside.
LEMMA SettingStep ==
    ASSUME SettingTypes, [Next]_vars
    PROVE  SettingTypes'
  <1> USE WantsAssumption DEF SettingTypes
  <1> DEFINE settings == <<today, pass, policy, call, taken, acts>>
  <1>1. CASE UNCHANGED settings
    BY <1>1
  <1>2. CASE Index
    BY <1>2 DEF Index, calendarVars
  <1>3. CASE UNCHANGED <<today, policy, call, taken, acts>> /\ pass' \in {"idle", "work", "expire"}
    BY <1>3
  <1>4. ASSUME NEW t \in Title, NEW m, NEW i, PatchMedia(t, m, i) PROVE SettingTypes'
    BY <1>4 DEF PatchMedia, Act, tasks, calendarVars
  <1>5. ASSUME NEW w \in Want, Writing(w) \/ TakeUp(w)
        PROVE  SettingTypes'
    BY <1>5 DEF Writing, SetSeen, EndDownload, Conclude, GrabAtOnce, TakeUp, Act, tasks, calendarVars
  <1>6. CASE PatchWants \/ ClearIgnoreList
    BY <1>6 DEF PatchWants, ClearIgnoreList, Act, tasks, calendarVars
  <1>7. CASE NextDay \/ \E p \in Policies : ChangePolicy(p)
    BY <1>7 DEF NextDay, ChangePolicy, Act
  <1>8. CASE RemovalFails \/ IngestRaises
    BY <1>8 DEF RemovalFails, FinishEntry, IngestRaises, Act, calendarVars
  <1>9. ASSUME NEW w \in Want, PlexChanges(w) PROVE SettingTypes'
    BY <1>9 DEF PlexChanges, Act, calendarVars
  <1>10. ASSUME NEW e \in Entry, ListEntry(e) PROVE SettingTypes'
    BY <1>10 DEF ListEntry, Act, calendarVars
  <1>11. ASSUME LibraryTask \/ WatchlistTask \/ UNCHANGED vars PROVE UNCHANGED settings
    <2>1. CASE LibraryTask \/ UNCHANGED vars
      BY <2>1 DEF LibraryTask, calendarVars, vars
    <2>2. CASE WatchlistTask
      BY <2>2 DEF WatchlistTask, SyncSteps, SyncRefresh, FetchWatchlist, IngestMedia, FlagMedia,
         Refreshed, WantEpisode, WantWholeSeason, ReadSeason, WantOfSeason, FinishEntry,
         WantMovie, RefreshShow, ListShow, NoListing, ReadHave, ReadSeen, UpsertPlanned,
         StandPresent, StandDown, ReadMovie, OwnMovie, calendarVars
    <2> QED
      BY <1>11, <2>1, <2>2
  <1>12. ASSUME CalendarTask
         PROVE  UNCHANGED <<today, policy, call, taken, acts>>
                /\ (pass' = pass \/ pass' \in {"idle", "work", "expire"})
    BY <1>12 DEF CalendarTask, CalendarStep, StartPass, Promote, Expire, Worker, StartWorker,
       RefreshShow, ListShow, NoListing, ReadHave, ReadSeen, UpsertPlanned, StandPresent,
       StandDown, ReadMovie, OwnMovie, RefreshMovie
  <1> HIDE DEF SettingTypes, settings
  <1>13. CASE Outside
    BY <1>4, <1>5, <1>6, <1>7, <1>8, <1>9, <1>10, <1>13, Zenon DEF Outside, Writing
  <1>14. CASE CalendarTask
    <2>1. pass \in {"idle", "work", "expire"}
      BY DEF SettingTypes
    <2> QED
      BY <2>1, <1>3, <1>12, <1>14
  <1> QED
    BY <1>1, <1>2, <1>11, <1>13, <1>14 DEF Next

-----------------------------------------------------------------------------
(* The workers *)

\* What a series is found to need are keys of wants there are.
LEMMA PlanWithin ==
    ASSUME NEW t \in Show, NEW air, NEW owned, NEW watched, NEW p, NEW day
    PROVE  /\ AllEpisodeKeys(Listing[t]) \subseteq Keys
           /\ PlanShowWants(Listing[t], air, owned, watched, p, day) \subseteq Keys
  <1>1. ASSUME NEW k \in AllEpisodeKeys(Listing[t]) PROVE k \in Keys
    <2>1. k \in Nat \X Nat /\ <<t>> \o k \in Want
      BY CalendarAssumption DEF AllEpisodeKeys
    <2>2. PICK s \in Nat, n \in Nat : k = <<s, n>>
      BY <2>1
    <2>3. (<<t>> \o <<s, n>>)[2] = s /\ (<<t>> \o <<s, n>>)[3] = n
      <3> DEFINE S == {t, s, n}
      <3>1. /\ <<t>> \in Seq(S) /\ Len(<<t>>) = 1
            /\ <<s, n>> \in Seq(S) /\ Len(<<s, n>>) = 2
        OBVIOUS
      <3> HIDE DEF S
      <3> QED
        BY <3>1, ConcatProperties
    <2>4. Key(<<t>> \o k) = k
      BY <2>2, <2>3 DEF Key
    <2> QED
      BY <2>1, <2>4 DEF Keys
  <1>2. PlanShowWants(Listing[t], air, owned, watched, p, day) \subseteq AllEpisodeKeys(Listing[t])
    BY DEF PlanShowWants
  <1> QED
    BY <1>1, <1>2

JobStep == {"idle", "queued", "start", "have", "seen", "upsert", "retire", "owned", "dated"}

\* The part of the types that the workers and the sync write.
WorkTypes ==
    /\ job \in [Process -> JobStep]
    /\ rules \in [Process -> Policies \cup {Unknown}]
    /\ have \in [Process -> SUBSET Keys] /\ seen \in [Process -> SUBSET Keys]
    /\ plan \in [Process -> SUBSET Keys] /\ todo \in [Process -> SUBSET Keys]
    /\ WatchlistTypeOK
    /\ AtSeries

\* A step of refresh_media, a worker's or the sync's, keeps them.
LEMMA RefreshStep ==
    ASSUME WorkTypes, MirrorTypes, NEW p, NEW t, Refreshing(p, t), UNCHANGED watchlistVars,
           RefreshShow(p, t) \/ ReadMovie(p, t) \/ OwnMovie(p, t)
    PROVE  WorkTypes'
  <1> USE CalendarAssumption
  <1>1. p \in Process /\ (p \in Title => t = p) /\ (p = Sync => sync = "refresh" /\ t = Named)
    BY DEF Refreshing, Process
  <1>2. job[p] \in {"have", "seen", "upsert", "retire"} => t \in Show
    BY <1>1 DEF WorkTypes, AtSeries, Refreshing
  <1>3. UNCHANGED <<listed, entries, entry, sync, Named>> /\ WatchlistTypeOK'
    BY DEF watchlistVars, WorkTypes, WatchlistTypeOK, Named
  <1> DEFINE Shelf == /\ rules' \in [Process -> Policies \cup {Unknown}]
                      /\ have' \in [Process -> SUBSET Keys] /\ seen' \in [Process -> SUBSET Keys]
                      /\ plan' \in [Process -> SUBSET Keys] /\ todo' \in [Process -> SUBSET Keys]
  <1>4. ASSUME NEW step \in JobStep, Goto(p, step),
               step \in {"have", "seen", "upsert", "retire"} => t \in Show,
               Shelf
        PROVE  WorkTypes'
    BY <1>1, <1>3, <1>4 DEF Goto, WorkTypes, AtSeries, Process, JobStep
  <1>5. CASE ListShow(p, t)
    BY <1>4, <1>5 DEF ListShow, WorkTypes, JobStep
  <1>6. CASE NoListing(p, t)
    BY <1>4, <1>6 DEF NoListing, Done, WorkTypes, JobStep
  <1>7. CASE ReadHave(p, t)
    <2>1. Shelf
      BY <1>7 DEF ReadHave, WorkTypes
    <2> QED
      BY <1>2, <1>4, <1>7, <2>1 DEF ReadHave, JobStep
  <1>8. CASE ReadSeen(p, t)
    <2>1. t \in Show
      BY <1>2, <1>8 DEF ReadSeen
    <2>2. WatchedEpisodes(t) \in SUBSET Keys
      BY DEF WatchedEpisodes, MirrorTypes, Keys
    <2>3. Wanted(p, t, WatchedEpisodes(t)) \in SUBSET Keys
      BY <2>1, PlanWithin DEF Wanted
    <2>4. Shelf
      BY <1>8, <2>2, <2>3 DEF ReadSeen, WorkTypes
    <2> QED
      BY <1>4, <1>8, <2>1, <2>4 DEF ReadSeen, JobStep
  <1>9. CASE UpsertPlanned(p, t)
    <2>1. Shelf
      BY <1>9 DEF UpsertPlanned, WorkTypes
    <2> QED
      BY <1>3, <1>9, <2>1 DEF UpsertPlanned, WorkTypes, AtSeries
  <1>10. CASE StandPresent(p, t)
    BY <1>2, <1>4, <1>10 DEF StandPresent, WorkTypes, JobStep
  <1>11. CASE StandDown(p, t)
    <2>1. Shelf
      BY <1>11 DEF StandDown, Done, Clear, WorkTypes
    <2> QED
      BY <1>4, <1>11, <2>1 DEF StandDown, Done, JobStep
  <1>12. CASE ReadMovie(p, t) \/ OwnMovie(p, t)
    <2>1. Shelf
      BY <1>12 DEF ReadMovie, OwnMovie, Done, WorkTypes
    <2>2. \E step \in {"idle", "owned", "dated"} : Goto(p, step)
      BY <1>12 DEF ReadMovie, OwnMovie, Done
    <2> QED
      BY <1>4, <2>1, <2>2 DEF JobStep
  <1> QED
    BY <1>5, <1>6, <1>7, <1>8, <1>9, <1>10, <1>11, <1>12 DEF RefreshShow

\* The steps of the sync that are its own: only between two refreshes does it take
\* up another entry.
LEMMA SyncStep ==
    ASSUME WorkTypes, policy \in Policies,
           \/ FetchWatchlist \/ FlagMedia \/ Refreshed \/ (WantMovie /\ UNCHANGED watchlistVars)
           \/ WantEpisode \/ WantWholeSeason \/ ReadSeason \/ WantOfSeason
           \/ (\E e \in Entry : IngestMedia(e)) \/ (\E removed : FinishEntry(removed))
    PROVE  WorkTypes'
  <1> USE CalendarAssumption DEF Process, JobStep, WatchlistTypeOK, AtSeries, WorkTypes
  <1>1. CASE FetchWatchlist
    BY <1>1 DEF FetchWatchlist, calendarVars, Named
  <1>2. CASE FlagMedia
    <2>1. /\ sync' \in {"refresh", "want"} /\ job[Sync] = "idle"
          /\ \/ sync' = "refresh" /\ job' = [job EXCEPT ![Sync] = "start"]
             \/ UNCHANGED job
          /\ rules' = [rules EXCEPT ![Sync] = policy] \/ UNCHANGED rules
          /\ UNCHANGED <<listed, entries, entry, have, seen, plan, todo>>
      BY <1>2 DEF FlagMedia, SetOut, Goto
    <2> QED
      BY <2>1
  <1>3. CASE Refreshed
    BY <1>3 DEF Refreshed, calendarVars, Named
  <1>4. CASE WantMovie /\ UNCHANGED watchlistVars
    <2>1. /\ job' = [job EXCEPT ![Sync] = "idle"]
          /\ rules' = [rules EXCEPT ![Sync] = Unknown]
          /\ UNCHANGED <<listed, entries, entry, sync, have, seen, plan, todo>>
      BY <1>4 DEF WantMovie, Done, Goto, watchlistVars
    <2> QED
      BY <2>1
  <1>5. CASE WantEpisode \/ WantWholeSeason
    BY <1>5 DEF WantEpisode, WantWholeSeason, calendarVars, Named
  <1>6. CASE ReadSeason
    <2>1. Named \in Show /\ UNCHANGED <<listed, entries, entry, job, rules, have, seen, plan>>
          /\ sync' \in {"done", "want"} /\ sync = "want"
      BY <1>6 DEF ReadSeason, IsSeason
    <2>2. AllEpisodeKeys(Listing[Named]) \subseteq Keys /\ entry[2] # 0
      BY <1>6, <2>1, PlanWithin DEF ReadSeason, IsSeason
    <2>3. EpisodesOf(Listing[Named], entry[2]) \ HaveEpisodes(Named) \subseteq Keys
      <3>1. \A k \in Listing[Named] : Season(k) \in Nat
        BY <2>1 DEF Season
      <3> QED
        BY <2>2, <3>1 DEF AllEpisodeKeys, EpisodesOf
    <2>4. todo' \in [Process -> SUBSET Keys]
      BY <1>6, <2>3 DEF ReadSeason
    <2> QED
      BY <2>1, <2>4
  <1>7. CASE WantOfSeason
    BY <1>7 DEF WantOfSeason, Named
  <1>8. ASSUME NEW e \in Entry, IngestMedia(e) PROVE WorkTypes'
    BY <1>8 DEF IngestMedia, calendarVars, Named
  <1>9. ASSUME NEW removed, FinishEntry(removed) PROVE WorkTypes'
    BY <1>9 DEF FinishEntry, NextEntry, calendarVars, Named
  <1> HIDE DEF Process, JobStep, WatchlistTypeOK, AtSeries, WorkTypes
  <1> QED
    BY <1>1, <1>2, <1>3, <1>4, <1>5, <1>6, <1>7, <1>8, <1>9

\* The pass and its workers.
LEMMA PassStep ==
    ASSUME WorkTypes, MirrorTypes, policy \in Policies, CalendarTask
    PROVE  WorkTypes'
  <1> DEFINE works == <<have, seen, plan, todo, watchlistVars>>
  <1>1. ASSUME NEW t \in Title, NEW step \in {"start", "idle"},
               NEW p \in Policies \cup {Unknown},
               job' = [job EXCEPT ![t] = step], rules' = [rules EXCEPT ![t] = p],
               UNCHANGED works
        PROVE  WorkTypes'
    BY <1>1, CalendarAssumption
       DEF WorkTypes, AtSeries, JobStep, WatchlistTypeOK, watchlistVars, Named, Process
  <1>2. CASE StartPass
    <2>1. /\ job' = [p \in Process |-> IF p \in Title /\ p \in Followed THEN "queued" ELSE job[p]]
          /\ UNCHANGED <<listed, entries, entry, sync, rules, have, seen, plan, todo>>
      BY <1>2 DEF StartPass, CalendarTask, watchlistVars
    <2> QED
      BY <2>1, CalendarAssumption
         DEF WorkTypes, AtSeries, JobStep, WatchlistTypeOK, Named, Process
  <1>3. CASE Promote \/ Expire
    BY <1>3 DEF Promote, Expire, CalendarTask, WorkTypes, AtSeries, WatchlistTypeOK, Named,
       workerVars, watchlistVars
  <1>4. ASSUME NEW t \in Title, Worker(t) PROVE WorkTypes'
    <2>1. UNCHANGED watchlistVars
      BY DEF CalendarTask
    <2>2. CASE StartWorker(t) \/ RefreshMovie(t, t)
      <3>1. /\ \E step \in {"start", "idle"} : job' = [job EXCEPT ![t] = step]
            /\ \E p \in Policies \cup {Unknown} : rules' = [rules EXCEPT ![t] = p]
            /\ UNCHANGED <<have, seen, plan, todo>>
        BY <2>2 DEF StartWorker, RefreshMovie, SetOut, Done, Goto
      <3> QED
        BY <1>1, <2>1, <3>1
    <2>3. CASE RefreshShow(t, t) \/ ReadMovie(t, t) \/ OwnMovie(t, t)
      <3>1. Refreshing(t, t)
        BY DEF Refreshing
      <3> QED
        BY <2>1, <2>3, <3>1, RefreshStep, Zenon
    <2> QED
      BY <1>4, <2>2, <2>3 DEF Worker
  <1> QED
    BY <1>2, <1>3, <1>4 DEF CalendarTask, CalendarStep

LEMMA WorkStep ==
    ASSUME WorkTypes, MirrorTypes, policy \in Policies, [Next]_vars
    PROVE  WorkTypes'
  <1> DEFINE works == <<workerVars, watchlistVars>>
  <1>1. CASE UNCHANGED works
    BY <1>1 DEF WorkTypes, AtSeries, WatchlistTypeOK, Named, workerVars, watchlistVars
  <1>2. CASE WatchlistTask
    <2>1. CASE SyncSteps
      BY <2>1, SyncStep, Zenon DEF SyncSteps
    <2>2. CASE SyncRefresh
      <3>1. Refreshing(Sync, Named) /\ UNCHANGED watchlistVars
        BY <2>2 DEF SyncRefresh, Refreshing
      <3> QED
        BY <2>2, <3>1, SyncStep, RefreshStep, Zenon DEF SyncRefresh
    <2> QED
      BY <1>2, <2>1, <2>2 DEF WatchlistTask
  <1>3. CASE IngestRaises
    BY <1>3, CalendarAssumption DEF IngestRaises, NextEntry, Done, Goto, Clear, WorkTypes, AtSeries, JobStep,
       WatchlistTypeOK, Named, Process
  <1>4. ASSUME NEW e \in Entry, ListEntry(e) PROVE WorkTypes'
    BY <1>4 DEF ListEntry, WorkTypes, AtSeries, WatchlistTypeOK, Named, calendarVars
  <1>5. CASE RemovalFails
    BY <1>5, SyncStep DEF RemovalFails
  <1>6. ASSUME Index \/ LibraryTask \/ UNCHANGED vars PROVE UNCHANGED works
    BY <1>6 DEF Index, LibraryTask, calendarVars, workerVars, vars
  <1>7. ASSUME NEW t, NEW m, NEW i, PatchMedia(t, m, i) PROVE UNCHANGED works
    BY <1>7 DEF PatchMedia, tasks, calendarVars, workerVars
  <1>8. ASSUME NEW w, Writing(w) \/ TakeUp(w) \/ PlexChanges(w)
        PROVE  UNCHANGED works
    BY <1>8 DEF Writing, SetSeen, EndDownload, Conclude, GrabAtOnce, TakeUp, PlexChanges, tasks, calendarVars, workerVars
  <1>9. ASSUME PatchWants \/ ClearIgnoreList \/ NextDay \/ \E p \in Policies : ChangePolicy(p)
        PROVE  UNCHANGED works
    BY <1>9 DEF PatchWants, ClearIgnoreList, NextDay, ChangePolicy, tasks, calendarVars, workerVars
  <1> HIDE DEF works
  <1>10. CASE Outside
    BY <1>1, <1>3, <1>4, <1>5, <1>7, <1>8, <1>9, <1>10, Zenon DEF Outside, Writing
  <1> QED
    BY <1>1, <1>2, <1>6, <1>10, PassStep DEF Next

-----------------------------------------------------------------------------
(* Theorems *)

\* The types hold initially and every step keeps them.
LEMMA TypesStep == WantTypes /\ [Next]_vars => WantTypes'
  <1> SUFFICES ASSUME WantTypes, [Next]_vars PROVE WantTypes'
    OBVIOUS
  <1>1. CASE Index \/ QuietTask \/ QuietOutside
    BY <1>1, IndexStep, QuietTaskStep, QuietOutsideStep DEF WantTypes
  <1>2. CASE Planning
    BY <1>2, PlanningStep DEF WantTypes, Planning
  <1>3. CASE PatchWants \/ \E w \in Want : Writing(w)
    BY <1>3, OthersStep DEF WantTypes
  <1>4. CASE UNCHANGED vars
    BY <1>4 DEF WantTypes, vars, catalogVars
  <1> QED
    BY <1>1, <1>2, <1>3, <1>4, Cases

\* The inductive invariant behind the types: besides them, where the workers may
\* be (AtSeries).
Types ==
    /\ MediaTypes /\ WantTypes /\ DateTypes /\ MirrorTypes
    /\ SettingTypes /\ WorkTypes

\* Every table, every worker's notes and the sync's keep their types: no pass, no
\* sync and no request ever writes a state, a flag or a date the database does
\* not know, and a worker plans nothing that could not be wanted (Wants, TypeOK).
THEOREM TypeCorrect == Spec => []TypeOK
  <1>1. Init => Types
    <2> SUFFICES ASSUME Init PROVE Types
      OBVIOUS
    <2> USE DEF Init, CatalogInit, LibraryInit, CalendarInit, WatchlistInit
    <2>1. MediaTypes /\ WantTypes /\ DateTypes
      BY DEF MediaTypes, WantTypes, DateTypes, WantedState
    <2>2. MirrorTypes
      BY LibraryAssumption DEF MirrorTypes, LibraryTypeOK
    <2>3. SettingTypes
      BY WantsAssumption DEF SettingTypes
    <2>4. WorkTypes
      BY CalendarAssumption, WatchlistAssumption
         DEF WorkTypes, AtSeries, JobStep, WatchlistTypeOK, Process
    <2> QED
      BY <2>1, <2>2, <2>3, <2>4 DEF Types
  <1>2. Types /\ [Next]_vars => Types'
    BY MediaStep, TypesStep, DateStep, MirrorStep, SettingStep, WorkStep
       DEF Types, SettingTypes
  <1>3. Types => TypeOK
    BY DEF Types, MediaTypes, WantTypes, DateTypes, MirrorTypes, SettingTypes, WorkTypes,
       TypeOK, CatalogTypeOK, LibraryTypeOK, CalendarTypeOK, JobStep
  <1> QED
    BY <1>1, <1>2, <1>3, PTL DEF Spec

\* A step that is neither a change from outside nor the second half of a request or
\* of a search keeps the progress of every want.
LEMMA KeptStep ==
    ASSUME WantTypes, [Next]_vars, acts' = acts, call' = call, taken' = taken
    PROVE  \A w \in Want : want[w] \in {"grabbed", "downloaded", "watched"}
                              => want'[w] \in {want[w], "downloaded"}
  <1>1. CASE Index \/ QuietTask \/ QuietOutside
    BY <1>1, IndexStep, QuietTaskStep, QuietOutsideStep DEF WantTypes
  <1>2. CASE Planning
    BY <1>2, PlanningStep DEF Moves
  <1>3. CASE PatchWants \/ \E w \in Want : Writing(w)
    BY <1>3, OthersStep DEF Kept
  <1>4. CASE UNCHANGED vars
    BY <1>4 DEF vars, catalogVars
  <1> QED
    BY <1>1, <1>2, <1>3, <1>4, Cases

\* No library, calendar or watchlist pass takes back what has been achieved, however
\* they overlap (Wants, ProgressKept).
THEOREM ProgressStays == Spec => ProgressKept
  <1>1. WantTypes /\ [Next]_vars =>
            [acts' = acts /\ call' = call /\ taken' = taken =>
                \A w \in Want : want[w] \in {"grabbed", "downloaded", "watched"}
                                    => want'[w] \in {want[w], "downloaded"}]_vars
    BY KeptStep
  <1>2. TypeOK => WantTypes
    BY WantsAssumption DEF TypeOK, CatalogTypeOK, WantTypes
  <1> QED
    BY <1>1, <1>2, TypeCorrect, PTL DEF Spec, ProgressKept
-----------------------------------------------------------------------------
(* What a refresh achieves                                                 *)

\* A step of another coroutine that leaves series t alone: its wants, what the
\* plan for it is made of and the notes of its worker.
Elsewhere(t) ==
    /\ UNCHANGED <<lib, libSeen, today, policy>>
    /\ UNCHANGED <<job[t], rules[t], have[t], seen[t], plan[t], todo[t]>>
    /\ \A w \in Want : w[1] = t => want'[w] = want[w]

PlannedNow(t) ==
    PlanShowWants(Listing[t], AirOf(t), HaveEpisodes(t), WatchedEpisodes(t), policy, today)

OnTheList(t, K) == \A w \in Of(t, K) : want[w] \notin {"none", "ignored"}
StoodDown(t, K) == \A w \in Of(t, K) : want[w] \in {"none", "downloaded", "ignored"}

\* How far the refresh of series t has put its list right.
Tidying(t) ==
    /\ job[t] \in {"start", "have", "seen", "upsert", "retire", "idle"}
    /\ job[t] \in {"start", "have", "seen"} => rules[t] = policy
    /\ job[t] \in {"seen", "upsert", "retire"} => have[t] = HaveEpisodes(t)
    /\ job[t] \in {"upsert", "retire"} =>
        /\ seen[t] = WatchedEpisodes(t)
        /\ plan[t] = PlannedNow(t)
        /\ OnTheList(t, plan[t] \ todo[t])
    /\ job[t] = "retire" => todo[t] = {} /\ StoodDown(t, have[t])
    /\ job[t] = "idle" => Tidy(t)

\* The want of key k of series t is the one the upsert writes.
LEMMA WantOfKey ==
    ASSUME NEW t \in Show, NEW k \in Listing[t], NEW w \in Of(t, {k})
    PROVE  w = <<t>> \o k
  <1>1. k \in Nat \X Nat
    BY CalendarAssumption
  <1>2. w \in Title \X Nat \X Nat /\ w[1] = t /\ Key(w) = k
    BY CatalogAssumption DEF Of
  <1>3. PICK a \in Title, s \in Nat, n \in Nat : w = <<a, s, n>>
    BY <1>2
  <1>4. a = t /\ k = <<s, n>>
    BY <1>2, <1>3 DEF Key
  <1>5. <<t>> \o <<s, n>> = <<t, s, n>>
    <2> DEFINE S == {t, s, n}
    <2>1. /\ <<t>> \in Seq(S) /\ Len(<<t>>) = 1
          /\ <<s, n>> \in Seq(S) /\ Len(<<s, n>>) = 2
          /\ <<t, s, n>> \in Seq(S) /\ Len(<<t, s, n>>) = 3
      OBVIOUS
    <2> DEFINE both == <<t>> \o <<s, n>>
    <2> HIDE DEF S
    <2>2. both \in Seq(S) /\ Len(both) = 3 /\ both[1] = t /\ both[2] = s /\ both[3] = n
      BY <2>1, ConcatProperties
    <2> HIDE DEF both
    <2>3. \A i \in 1..3 : both[i] = <<t, s, n>>[i]
      BY <2>2
    <2>4. both = <<t, s, n>>
      BY <2>1, <2>2, <2>3, SeqEqual
    <2> QED
      BY <2>4 DEF both
  <1> QED
    BY <1>3, <1>4, <1>5
\* The steps of a refresh that TMDB answers.
RefreshOf(t) ==
    \/ ListShow(t, t) \/ ReadHave(t, t) \/ ReadSeen(t, t)
    \/ UpsertPlanned(t, t) \/ StandPresent(t, t) \/ StandDown(t, t)

\* What another coroutine leaves alone stays as far as it was.
LEMMA ElsewhereTidying ==
    ASSUME NEW t \in Show, Tidying(t), Elsewhere(t)
    PROVE  Tidying(t)'
  <1>1. \A K : \A w \in Of(t, K) : want'[w] = want[w]
    BY DEF Elsewhere, Of
  <1>2. /\ HaveEpisodes(t)' = HaveEpisodes(t)
        /\ WatchedEpisodes(t)' = WatchedEpisodes(t)
        /\ PlannedNow(t)' = PlannedNow(t)
    BY DEF Elsewhere, HaveEpisodes, WatchedEpisodes, PlannedNow
  <1>3. /\ job'[t] = job[t] /\ rules'[t] = rules[t] /\ policy' = policy /\ have'[t] = have[t] /\ seen'[t] = seen[t]
        /\ plan'[t] = plan[t] /\ todo'[t] = todo[t]
    BY DEF Elsewhere
  <1>4. ASSUME NEW K PROVE (OnTheList(t, K) => OnTheList(t, K)')
                           /\ (StoodDown(t, K) => StoodDown(t, K)')
    BY <1>1 DEF OnTheList, StoodDown
  <1>5. Tidy(t) => Tidy(t)'
    BY <1>1, <1>2 DEF Tidy, PlannedNow
  <1>6. /\ OnTheList(t, plan[t] \ todo[t]) => OnTheList(t, plan[t] \ todo[t])'
        /\ StoodDown(t, have[t]) => StoodDown(t, have[t])'
    BY <1>1, <1>3 DEF OnTheList, StoodDown
  <1> QED
    BY <1>2, <1>3, <1>5, <1>6 DEF Tidying

\* Every step of the refresh brings it further, and the last one leaves the list
\* tidy.
LEMMA RefreshTidying ==
    ASSUME NEW t \in Show, WantTypes, MirrorTypes, WorkTypes, Tidying(t), RefreshOf(t)
    PROVE  Tidying(t)'
  <1>1. /\ t \in Process
        /\ job \in [Process -> JobStep] /\ have \in [Process -> SUBSET Keys]
        /\ seen \in [Process -> SUBSET Keys] /\ plan \in [Process -> SUBSET Keys]
        /\ todo \in [Process -> SUBSET Keys]
    BY DEF Process, Title, WorkTypes
  <1>2. UNCHANGED <<lib, libSeen, today, policy>>
    BY DEF RefreshOf, ListShow, ReadHave, ReadSeen, UpsertPlanned, StandPresent, StandDown,
       catalogVars, libVars
  <1>3. /\ HaveEpisodes(t)' = HaveEpisodes(t)
        /\ WatchedEpisodes(t)' = WatchedEpisodes(t)
        /\ PlannedNow(t)' = PlannedNow(t)
    BY <1>2 DEF HaveEpisodes, WatchedEpisodes, PlannedNow
  <1>4. CASE ListShow(t, t)
    BY <1>1, <1>2, <1>4 DEF ListShow, Goto, Tidying
  <1>5. CASE ReadHave(t, t)
    <2>1. HaveEpisodes(t) \subseteq Keys
      BY DEF HaveEpisodes, Keys, MirrorTypes
    <2>2. have'[t] = HaveEpisodes(t) /\ job'[t] = "seen" /\ rules'[t] = policy
      BY <1>1, <1>5, <2>1 DEF ReadHave, Goto, Tidying
    <2> QED
      BY <1>2, <1>3, <2>2 DEF Tidying
  <1>6. CASE ReadSeen(t, t)
    <2>1. have[t] = HaveEpisodes(t) /\ rules[t] = policy
      BY <1>6 DEF ReadSeen, Tidying
    <2>2. Wanted(t, t, WatchedEpisodes(t)) = PlannedNow(t)
      BY <2>1 DEF Wanted, PlannedNow
    <2>3. /\ job'[t] = "upsert" /\ have'[t] = HaveEpisodes(t) /\ seen'[t] = WatchedEpisodes(t)
          /\ plan'[t] = PlannedNow(t) /\ todo'[t] = plan'[t]
      BY <1>1, <1>6, <2>1, <2>2 DEF ReadSeen, Goto
    <2>4. OnTheList(t, plan[t] \ todo[t])'
      BY <2>3 DEF OnTheList, Of
    <2> QED
      BY <1>3, <2>3, <2>4 DEF Tidying
  <1>7. CASE UpsertPlanned(t, t)
    <2>1. PICK k \in todo[t] :
            /\ \E air, s : s \in {"searching", "waiting"} /\ Upsert(<<t>> \o k, air, s)
            /\ todo' = [todo EXCEPT ![t] = @ \ {k}]
      BY <1>7 DEF UpsertPlanned
    <2>2. /\ job'[t] = "upsert" /\ job[t] = "upsert" /\ have'[t] = have[t] /\ seen'[t] = seen[t]
          /\ plan'[t] = plan[t] /\ todo'[t] = todo[t] \ {k}
      BY <1>1, <1>7, <2>1 DEF UpsertPlanned
    <2>3. /\ have[t] = HaveEpisodes(t) /\ seen[t] = WatchedEpisodes(t)
          /\ plan[t] = PlannedNow(t) /\ OnTheList(t, plan[t] \ todo[t])
      BY <2>2 DEF Tidying
    <2>4. plan[t] \subseteq Listing[t]
      BY <2>3 DEF PlannedNow, PlanShowWants, AllEpisodeKeys
    <2>5. ASSUME NEW w \in Of(t, plan[t] \ (todo[t] \ {k}))
          PROVE  want'[w] \notin {"none", "ignored"}
      <3>1. w \in Want
        BY DEF Of
      <3>2. CASE Key(w) = k
        <4>1. w \in Of(t, {k}) /\ k \in Listing[t]
          BY <2>4, <3>2 DEF Of
        <4>2. w = <<t>> \o k
          BY <4>1, WantOfKey
        <4> QED
          BY <2>1, <3>1, <4>2 DEF Upsert, WantTypes
      <3>3. CASE Key(w) # k
        <4>1. want[w] \notin {"none", "ignored"}
          BY <2>3, <3>3 DEF OnTheList, Of
        <4> QED
          BY <2>1, <3>1, <4>1 DEF Upsert, WantTypes
      <3> QED
        BY <3>2, <3>3
    <2>6. OnTheList(t, plan[t] \ todo[t])'
      BY <2>2, <2>5 DEF OnTheList
    <2> QED
      BY <1>3, <2>2, <2>3, <2>6 DEF Tidying
  <1>8. CASE StandPresent(t, t)
    <2>1. /\ job[t] = "upsert" /\ todo[t] = {} /\ job'[t] = "retire"
          /\ UNCHANGED <<have, seen, plan, todo>>
          /\ MarkPresent(Of(t, have[t] \cup seen[t]))
      BY <1>1, <1>8 DEF StandPresent, Goto
    <2>2. /\ have[t] = HaveEpisodes(t) /\ seen[t] = WatchedEpisodes(t)
          /\ plan[t] = PlannedNow(t) /\ OnTheList(t, plan[t] \ todo[t])
      BY <2>1 DEF Tidying
    <2>3. OnTheList(t, plan[t] \ todo[t])'
      BY <2>1, <2>2 DEF OnTheList, MarkPresent, Of
    <2>4. StoodDown(t, have[t])'
      BY <2>1 DEF StoodDown, MarkPresent, Of
    <2> QED
      BY <1>3, <2>1, <2>2, <2>3, <2>4 DEF Tidying
  <1>9. CASE StandDown(t, t)
    <2> DEFINE gone == AllEpisodeKeys(Listing[t]) \ (plan[t] \cup have[t] \cup seen[t])
    <2>1. job[t] = "retire" /\ job'[t] = "idle" /\ Retire(Of(t, gone))
      BY <1>1, <1>9 DEF StandDown, Done, Goto
    <2>2. /\ have[t] = HaveEpisodes(t) /\ seen[t] = WatchedEpisodes(t)
          /\ plan[t] = PlannedNow(t) /\ OnTheList(t, plan[t]) /\ StoodDown(t, have[t])
      BY <2>1 DEF Tidying
    <2>3. seen[t] \subseteq have[t]
      BY <2>2 DEF HaveEpisodes, WatchedEpisodes
    <2>4. \A w \in Of(t, PlannedNow(t)) : want'[w] \notin {"none", "ignored"}
      BY <2>1, <2>2 DEF OnTheList, Retire, Of
    <2>5. \A w \in Of(t, HaveEpisodes(t)) : want'[w] \in {"none", "downloaded", "ignored"}
      BY <2>1, <2>2 DEF StoodDown, Retire, Of
    <2>6. \A w \in Of(t, AllEpisodeKeys(Listing[t]) \ (PlannedNow(t) \cup HaveEpisodes(t))) :
            want'[w] \notin {"waiting", "searching", "unavailable"}
      BY <2>1, <2>2, <2>3 DEF Retire, Of
    <2>7. Tidy(t)'
      BY <1>2, <1>3, <2>4, <2>5, <2>6 DEF Tidy, PlannedNow
    <2> QED
      BY <2>1, <2>7 DEF Tidying
  <1> QED
    BY <1>4, <1>5, <1>6, <1>7, <1>8, <1>9 DEF RefreshOf

\* A refresh puts the list of its series right.  Whatever state the program is in
\* when a worker sets out with the policy in force, and whatever the other workers, the sync, the library
\* and the dashboard do to other titles meanwhile: once it is through, what the
\* policy plans is on the list, what is owned is not out to search, and neither is
\* anything else.  This is the safety behind ListTidies; it asks that TMDB answers
\* and that nobody changes the series, the library, the policy or the day under
\* way (what happens then is ListTidies' business: the next refresh).
THEOREM RefreshTidies ==
    ASSUME NEW t \in Show
    PROVE  /\ Types /\ job[t] = "start" /\ rules[t] = policy
           /\ [][Next /\ (RefreshOf(t) \/ Elsewhere(t))]_vars
           => [](job[t] = "idle" => Tidy(t))
  <1> DEFINE Step == Next /\ (RefreshOf(t) \/ Elsewhere(t))
  <1>1. Types /\ job[t] = "start" /\ rules[t] = policy => Types /\ Tidying(t)
    BY DEF Tidying
  <1>2. Types /\ Tidying(t) /\ [Step]_vars => Types' /\ Tidying(t)'
    <2> SUFFICES ASSUME Types, Tidying(t), [Step]_vars PROVE Types' /\ Tidying(t)'
      OBVIOUS
    <2>1. Types'
      BY MediaStep, TypesStep, DateStep, MirrorStep, SettingStep, WorkStep
         DEF Types, SettingTypes
    <2>2. UNCHANGED vars => Elsewhere(t)
      BY DEF vars, catalogVars, calendarVars, Elsewhere
    <2>3. Tidying(t)'
      BY <2>2, ElsewhereTidying, RefreshTidying DEF Types
    <2> QED
      BY <2>1, <2>3
  <1>3. Tidying(t) => (job[t] = "idle" => Tidy(t))
    BY DEF Tidying
  <1> QED
    BY <1>1, <1>2, <1>3, PTL
=============================================================================
