------------------------------- MODULE Store -------------------------------
(***************************************************************************)
(* The tables the grab pipeline shares (downloads, wanted, blocklist), the *)
(* statements the services issue against them (db/repo.py) and nothing     *)
(* else.  One SQL statement is one atomic change: the application runs on  *)
(* one event loop over one connection, so other coroutines run only        *)
(* between statements.                                                     *)
(*                                                                         *)
(* A download row is identified by its id.  Ids are AUTOINCREMENT, so an   *)
(* id is "unborn" until it is inserted and "gone" for ever once deleted,   *)
(* and a statement that names a deleted id updates nothing.                *)
(***************************************************************************)
EXTENDS FiniteSets

CONSTANTS
    Row,        \* download ids
    Release,    \* releases (indexer, indexer_id); one torrent each
    Want,       \* wanted ids
    Span,       \* Span[r]: the wants release r would satisfy
    Kind,       \* Kind[r]: "movie", "episode" or "pack"
    NoRow, NoRelease, NoWant

ASSUME StoreAssumption ==
    /\ Span \in [Release -> (SUBSET Want) \ {{}}]
    /\ Kind \in [Release -> {"movie", "episode", "pack"}]
    /\ NoRow \notin Row /\ NoRelease \notin Release /\ NoWant \notin Want

VARIABLES
    state,      \* downloads.state
    rel,        \* downloads.(indexer, indexer_id)
    wid,        \* downloads.wanted_id
    hash,       \* downloads.info_hash IS NOT NULL
    missing,    \* downloads.missing_since: null, within the grace, past it
    archived,   \* downloads.archived
    want,       \* wanted.state
    blocked     \* blocklist

rowVars == <<state, rel, wid, hash, missing, archived>>
storeVars == <<state, rel, wid, hash, missing, archived, want, blocked>>

DownloadState == {"pending", "queued", "downloading", "completed",
                  "failed", "denied", "no_space", "cancelled"}
WantedState == {"waiting", "searching", "grabbed", "downloaded",
                "unavailable", "ignored", "watched"}

Exists(d) == state[d] \in DownloadState

StoreTypeOK ==
    /\ state \in [Row -> DownloadState \cup {"unborn", "gone"}]
    /\ rel \in [Row -> Release \cup {NoRelease}]
    /\ wid \in [Row -> Want \cup {NoWant}]
    /\ hash \in [Row -> BOOLEAN]
    /\ missing \in [Row -> {"no", "fresh", "overdue"}]
    /\ archived \in [Row -> BOOLEAN]
    /\ want \in [Want -> WantedState]
    /\ blocked \in SUBSET Release

\* A fresh database in which the planner has put every want out to search.
StoreInit ==
    /\ state = [d \in Row |-> "unborn"]
    /\ rel = [d \in Row |-> NoRelease]
    /\ wid = [d \in Row |-> NoWant]
    /\ hash = [d \in Row |-> FALSE]
    /\ missing = [d \in Row |-> "no"]
    /\ archived = [d \in Row |-> FALSE]
    /\ want = [w \in Want |-> "searching"]
    /\ blocked = {}

-----------------------------------------------------------------------------
(* Reads *)

ByRelease(r) == {d \in Row : Exists(d) /\ rel[d] = r}
\* Mutant of KnownReleases: the blocklist is left out.
KnownRows == {rel[d] : d \in {e \in Row : Exists(e)}}
KnownReleases == {rel[d] : d \in {e \in Row : Exists(e)}} \cup blocked
\* Mutant of Queued: the filter on the state lets a waiting approval through.
QueuedUnapproved == {d \in Row : state[d] \in {"pending", "queued", "no_space"}}
Queued == {d \in Row : state[d] \in {"queued", "no_space"}}
\* Mutant of InFlight: finished downloads are followed as well.
InFlightAndDone == {d \in Row : state[d] \in {"downloading", "completed"}}
InFlight == {d \in Row : state[d] = "downloading"}
MissingBeyond == {d \in InFlight : missing[d] = "overdue"}

-----------------------------------------------------------------------------
(* Writes.  Each operator is the new value of the column it assigns.       *)

\* Mutant of SetState: the write brings a deleted row back.
SetStateAnyway(d, s) == [state EXCEPT ![d] = s]

\* UPDATE downloads SET state = s WHERE id = d
SetState(d, s) == [state EXCEPT ![d] = IF Exists(d) THEN s ELSE @]

\* UPDATE downloads SET info_hash = ... WHERE id = d
SetHash(d) == [hash EXCEPT ![d] = @ \/ Exists(d)]

\* Mutant of MarkMissing: every sighting restarts the clock.
MarkMissingAgain(d) == [missing EXCEPT ![d] = IF Exists(d) THEN "fresh" ELSE @]

\* The first sighting starts the clock, later ones leave it running.
MarkMissing(d) ==
    [missing EXCEPT ![d] = IF Exists(d) /\ @ = "no" THEN "fresh" ELSE @]

ClearMissing(d) == [missing EXCEPT ![d] = "no"]

Archive(d) == [archived EXCEPT ![d] = Exists(d)]

\* UPDATE ... WHERE id IN (S) AND state = 'pending_approval'
ApproveMany(S) ==
    [d \in Row |-> IF d \in S /\ state[d] = "pending" THEN "queued" ELSE state[d]]
DenyMany(S) ==
    [d \in Row |-> IF d \in S /\ state[d] = "pending" THEN "denied" ELSE state[d]]

\* DELETE FROM downloads WHERE state IN ('denied', 'failed', 'cancelled');
\* rel, wid and hash of a deleted row stay behind: they are what a coroutine
\* that read the row before still holds of it.
PurgeHistory ==
    LET dead == {d \in Row : state[d] \in {"denied", "failed", "cancelled"}}
    IN  /\ state' = [d \in Row |-> IF d \in dead THEN "gone" ELSE state[d]]
        /\ missing' = [d \in Row |-> IF d \in dead THEN "no" ELSE missing[d]]
        /\ archived' = [d \in Row |-> archived[d] /\ d \notin dead]
        /\ UNCHANGED <<rel, wid, hash, want, blocked>>

\* UPDATE wanted SET state = s WHERE id = w; a NULL wanted_id matches nothing.
SetWant(w, s) == [v \in Want |-> IF v = w THEN s ELSE want[v]]

\* An explicit episode list is marked unconditionally; a whole season only
\* where it is still outstanding.
MarkCovered(r) ==
    [w \in Want |->
        IF w \in Span[r] /\ (Kind[r] = "pack" => want[w] \in {"waiting", "searching"})
        THEN "grabbed" ELSE want[w]]

MarkWatched(S) == [w \in Want |-> IF w \in S THEN "watched" ELSE want[w]]
UndoWatched(S) ==
    [w \in Want |-> IF w \in S /\ want[w] = "watched" THEN "searching" ELSE want[w]]
=============================================================================
