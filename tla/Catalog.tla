------------------------------ MODULE Catalog ------------------------------
(***************************************************************************)
(* The tables that say what is wanted: media, wanted and the mirror of the *)
(* Plex library (library_items), with the statements of db/repo.py that    *)
(* read and write them.  One statement is one atomic change.               *)
(*                                                                         *)
(* A want is <<title, season, episode>> with 0 for NULL: a film is         *)
(* <<t, 0, 0>>, a season as a whole <<t, s, 0>>.  A library item is the    *)
(* want it satisfies.                                                      *)
(***************************************************************************)
EXTENDS Planner

CONSTANTS
    Show, Film,     \* TMDB ids of series and films
    Want            \* the wants there can be

Title == Show \cup Film

ASSUME CatalogAssumption ==
    /\ Show \cap Film = {}
    /\ \A w \in Want : /\ w \in Title \X Nat \X Nat
                       /\ w[1] \in Film => w[2] = 0
                       /\ w[2] = 0 => w[3] = 0

VARIABLES
    media,      \* media.monitored, or "absent" when there is no row
    ignored,    \* media.ignored
    want,       \* wanted.state, or "none" when there is no row
    date,       \* wanted.air_date
    hunted,     \* wanted.search_attempts > 0
    lib,        \* library_items: films and episodes
    libSeen     \* library_items.watched

mediaVars == <<media, ignored>>
wantVars == <<want, date, hunted>>
libVars == <<lib, libSeen>>
catalogVars == <<media, ignored, want, date, hunted, lib, libSeen>>

WantedState == {"waiting", "searching", "grabbed", "downloaded",
                "unavailable", "ignored", "watched"}

CatalogTypeOK ==
    /\ media \in [Title -> {"absent", "off", "on"}]
    /\ ignored \in [Title -> BOOLEAN]
    /\ want \in [Want -> WantedState \cup {"none"}]
    /\ date \in [Want -> Int \cup {Unknown}]
    /\ hunted \in [Want -> BOOLEAN]
    /\ lib \subseteq Want
    /\ libSeen \subseteq Want

\* A new database; Library says what the mirror holds.
CatalogInit ==
    /\ media = [t \in Title |-> "absent"]
    /\ ignored = [t \in Title |-> FALSE]
    /\ want = [w \in Want |-> "none"]
    /\ date = [w \in Want |-> Unknown]
    /\ hunted = [w \in Want |-> FALSE]

Key(w) == <<w[2], w[3]>>
Of(t, K) == {w \in Want : w[1] = t /\ Key(w) \in K}

-----------------------------------------------------------------------------
(* MediaRepo *)

Followed == {t \in Title : media[t] = "on" /\ ~ignored[t]}

\* An existing row keeps its flags; a new one is monitored.
UpsertMedia(t) ==
    media' = [media EXCEPT ![t] = IF @ = "absent" THEN "on" ELSE @]

\* A flag given as "keep" is None and stays as it is.
SetFlags(t, monitored, ignore) ==
    /\ media' = [media EXCEPT ![t] =
            IF @ = "absent" \/ monitored = "keep" THEN @ ELSE monitored]
    /\ ignored' = [ignored EXCEPT ![t] =
            IF media[t] = "absent" \/ ignore = "keep" THEN @ ELSE ignore = "yes"]

UnignoreAll ==
    /\ media' = [t \in Title |-> IF ignored[t] THEN "on" ELSE media[t]]
    /\ ignored' = [t \in Title |-> FALSE]

-----------------------------------------------------------------------------
(* WantedRepo.  Each operator says what becomes of want.                   *)

\* Mutant of Upsert: what was given up or stood down is not revived.
UpsertOnce(w, air, s) ==
    /\ want' = [want EXCEPT ![w] = IF @ = "none" THEN s ELSE @]
    /\ date' = [date EXCEPT ![w] = IF air = Unknown THEN @ ELSE air]

\* Mutant of Upsert: the planner's word overrides the progress made.
UpsertOver(w, air, s) ==
    /\ want' = [want EXCEPT ![w] = s]
    /\ date' = [date EXCEPT ![w] = IF air = Unknown THEN @ ELSE air]

\* The progress of a want is kept; what was given up, or stood down by a policy,
\* is revived.  An unknown air date leaves the one on record.
Upsert(w, air, s) ==
    /\ want' = [want EXCEPT ![w] =
            IF @ \in {"none", "unavailable", "ignored"} THEN s ELSE @]
    /\ date' = [date EXCEPT ![w] = IF air = Unknown THEN @ ELSE air]

\* Mutant of PromoteDue: a want comes out the day after its air date.
PromoteLate(today) ==
    want' = [w \in Want |->
        IF want[w] = "waiting" /\ date[w] # Unknown /\ date[w] < today
        THEN "searching" ELSE want[w]]

PromoteDue(today) ==
    want' = [w \in Want |->
        IF want[w] = "waiting" /\ date[w] # Unknown /\ date[w] <= today
        THEN "searching" ELSE want[w]]

\* W: the wants past their window, or past the attempts allowed.
ExpireStale(W) ==
    want' = [w \in Want |->
        IF w \in W /\ want[w] = "searching" /\ hunted[w]
        THEN "unavailable" ELSE want[w]]

\* Mutant of MarkPresent: the state is that of a download.
MarkPresentCompleted(W) ==
    want' = [w \in Want |->
        IF w \in W /\ want[w] \notin {"none", "downloaded", "ignored"}
        THEN "completed" ELSE want[w]]

MarkPresent(W) ==
    want' = [w \in Want |->
        IF w \in W /\ want[w] \notin {"none", "downloaded", "ignored"}
        THEN "downloaded" ELSE want[w]]

Retire(W) ==
    want' = [w \in Want |->
        IF w \in W /\ want[w] \in {"waiting", "searching", "unavailable"}
        THEN "ignored" ELSE want[w]]

MarkWatched(W) ==
    want' = [w \in Want |-> IF w \in W /\ want[w] # "none" THEN "watched" ELSE want[w]]

UndoWatched(W) ==
    want' = [w \in Want |->
        IF w \in W /\ want[w] = "watched" THEN "searching" ELSE want[w]]

\* A whole title (s = 0), a season (upTo = 0), or a season up to an episode.
MarkWatchedForMedia(t, s, upTo) ==
    want' = [w \in Want |->
        IF /\ w[1] = t /\ s \in {0, w[2]}
           /\ upTo = 0 \/ (w[3] # 0 /\ w[3] <= upTo)
           /\ want[w] \in {"waiting", "searching", "unavailable", "ignored"}
        THEN "watched" ELSE want[w]]

SetStateForMedia(t, s, only) ==
    want' = [w \in Want |-> IF w[1] = t /\ want[w] \in only THEN s ELSE want[w]]

ClearIgnoredWants ==
    want' = [w \in Want |-> IF want[w] = "ignored" THEN "searching" ELSE want[w]]

SetWantState(w, s) == want' = [want EXCEPT ![w] = IF @ = "none" THEN @ ELSE s]

\* due_for_search, leaving its order and its limit to Search.
Searchable == {w \in Want : want[w] = "searching" /\ w[1] \in Followed}

-----------------------------------------------------------------------------
(* LibraryRepo *)

HaveEpisodes(t) == {Key(w) : w \in {v \in lib : v[1] = t}}
WatchedEpisodes(t) == {Key(w) : w \in {v \in lib \cap libSeen : v[1] = t}}
HasMovie(t) == \E w \in lib : w[1] = t
WatchedShows == {t \in Show : WatchedEpisodes(t) # {}}
=============================================================================
