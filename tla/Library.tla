------------------------------ MODULE Library ------------------------------
(***************************************************************************)
(* The mirror of the Plex library (services/library.py) and the series it  *)
(* starts to follow because they have been watched.                        *)
(*                                                                         *)
(* LibraryRepo.replace_all deletes and refills library_items inside one    *)
(* transaction, but there is only one connection: until the refill, every  *)
(* other coroutine reads an empty table.                                   *)
(***************************************************************************)
EXTENDS Catalog

CONSTANT Stock      \* what Plex may hold at first: pairs of items and those watched

ASSUME LibraryAssumption == Stock \subseteq (SUBSET Want) \X (SUBSET Want)

VARIABLES
    plex, plexSeen,     \* Plex itself: what it holds, what was watched
    index,              \* where index_library is
    items, itemsSeen,   \* the snapshot it took
    follow              \* track_watched_shows: the series still to follow

libraryVars == <<plex, plexSeen, index, items, itemsSeen, follow>>

LibraryTypeOK ==
    /\ plex \subseteq Want /\ plexSeen \subseteq Want
    /\ index \in {"idle", "scanned", "emptied"}
    /\ items \subseteq Want /\ itemsSeen \subseteq Want
    /\ follow \subseteq Show

\* The first index has been taken.
LibraryInit ==
    /\ \E stock \in Stock : plex = stock[1] /\ plexSeen = stock[2]
    /\ lib = plex /\ libSeen = plexSeen
    /\ index = "idle"
    /\ items = {} /\ itemsSeen = {}
    /\ follow = {}

-----------------------------------------------------------------------------
(* index_library *)

\* One section's scan may fail and is left out; up is what was scanned.
ScanSections(up) == {w \in plex : w[1] \in up}

\* An empty answer keeps the previous index.
IndexLibrary(up) ==
    /\ index = "idle"
    /\ ScanSections(up) # {}
    /\ items' = ScanSections(up)
    /\ itemsSeen' = ScanSections(up) \cap plexSeen
    /\ index' = "scanned"
    /\ UNCHANGED <<catalogVars, plex, plexSeen, follow>>

\* DELETE FROM library_items
EmptyIndex ==
    /\ index = "scanned"
    /\ lib' = {} /\ libSeen' = {}
    /\ index' = "emptied"
    /\ UNCHANGED <<mediaVars, wantVars, plex, plexSeen, items, itemsSeen, follow>>

\* The INSERTs and the COMMIT.
FillIndex ==
    /\ index = "emptied"
    /\ lib' = items /\ libSeen' = itemsSeen
    /\ items' = {} /\ itemsSeen' = {}
    /\ index' = "idle"
    /\ UNCHANGED <<mediaVars, wantVars, plex, plexSeen, follow>>

-----------------------------------------------------------------------------
(* track_watched_shows *)

\* Series watched but neither tracked nor ignored.
FindWatched ==
    /\ follow = {}
    /\ follow' = {t \in WatchedShows : media[t] = "absent"}
    /\ follow' # {}
    /\ UNCHANGED <<catalogVars, plex, plexSeen, index, items, itemsSeen>>

FollowWatched(t) ==
    /\ t \in follow
    /\ UpsertMedia(t)
    /\ follow' = follow \ {t}
    /\ UNCHANGED <<ignored, wantVars, libVars, plex, plexSeen, index, items, itemsSeen>>
=============================================================================
