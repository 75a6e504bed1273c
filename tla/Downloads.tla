----------------------------- MODULE Downloads -----------------------------
(***************************************************************************)
(* The life of a grab: a search creates a download row, a person approves  *)
(* or denies it, a dispatch pass hands it to qBittorrent, the monitor      *)
(* follows it there, and removing or retiring it takes it out again        *)
(* (services/queue.py, services/monitor.py, services/janitor.py and the    *)
(* endpoints of web/api.py).                                               *)
(*                                                                         *)
(* Dispatch passes (the queue-dispatch task, POST /actions/dispatch-queue) *)
(* and the monitor are coroutines: each runs until it awaits the client or *)
(* the tracker, and works after the await from what it read before it.     *)
(* Searching is one step here.                                             *)
(***************************************************************************)
EXTENDS Store, Naturals

CONSTANTS
    Pass,               \* coroutines that may run dispatch_queue
    MaxActive,          \* policy.max_active_downloads
    MaxActs             \* bound: disturbances (see Act) in a behaviour

ASSUME DownloadsAssumption ==
    /\ IsFiniteSet(Release)
    /\ MaxActive \in Nat \ {0}
    /\ MaxActs \in Nat

VARIABLES
    torrent,    \* qBittorrent: status of each release's torrent
    tag,        \* qBittorrent: the conduit_<id> tag it carries, if any
    incoming,   \* qBittorrent: URL adds accepted but not fetched yet
    pc, todo, parked, seen, slots, cur, knows,     \* dispatch passes
    mpc, verdict, victims, keep,                   \* the monitor
    cleared,    \* history: rows that needed no approval or were approved
    acts        \* disturbances so far

clientVars == <<torrent, tag, incoming>>
passVars == <<pc, todo, parked, seen, slots, cur, knows>>
monVars == <<mpc, verdict, victims, keep>>
ghostVars == <<cleared, acts>>
vars == <<storeVars, clientVars, passVars, monVars, ghostVars>>

TorrentState == {"absent", "busy", "done", "errored"}
Verdict == {"none", "read", "missing", "moving", "errored", "complete", "gone"}

TypeOK ==
    /\ StoreTypeOK
    /\ torrent \in [Release -> TorrentState]
    /\ tag \in [Release -> Row \cup {NoRow}]
    /\ incoming \in SUBSET Row
    /\ pc \in [Pass -> {"idle", "list", "loop", "confirm"}]
    /\ todo \in [Pass -> SUBSET Row]
    /\ parked \in [Pass -> SUBSET Row]
    /\ seen \in [Pass -> SUBSET Release]
    /\ slots \in [Pass -> 0..MaxActive]
    /\ cur \in [Pass -> Row \cup {NoRow}]
    /\ knows \in [Pass -> BOOLEAN]
    /\ mpc \in {"idle", "list", "rows", "retire", "gone"}
    /\ verdict \in [Row -> Verdict]
    /\ victims \in SUBSET Row
    /\ keep \in Row \cup {NoRow}
    /\ cleared \in SUBSET Row
    /\ acts \in 0..MaxActs

Init ==
    /\ StoreInit
    /\ torrent = [r \in Release |-> "absent"]
    /\ tag = [r \in Release |-> NoRow]
    /\ incoming = {}
    /\ pc = [p \in Pass |-> "idle"]
    /\ todo = [p \in Pass |-> {}]
    /\ parked = [p \in Pass |-> {}]
    /\ seen = [p \in Pass |-> {}]
    /\ slots = [p \in Pass |-> 0]
    /\ cur = [p \in Pass |-> NoRow]
    /\ knows = [p \in Pass |-> FALSE]
    /\ mpc = "idle"
    /\ verdict = [d \in Row |-> "none"]
    /\ victims = {}
    /\ keep = NoRow
    /\ cleared = {}
    /\ acts = 0

-----------------------------------------------------------------------------
(* Search, as one step *)

\* A search finds release r for wants that are out to search: all of them that
\* r satisfies, or fewer (a season pack may be the best answer to the search
\* for one episode).  gate is decisions.needs_approval; force is the "search
\* now" button, which ignores the known keys.  The unique index admits one row
\* per release.
Grab(d, r, gate, force) ==
    LET out == {w \in Span[r] : \/ want[w] = "searching"
                                \/ force /\ want[w] \in {"waiting", "unavailable"}}
    IN  /\ state[d] = "unborn"
        /\ force \/ r \notin KnownReleases
        /\ ByRelease(r) = {}
        /\ state' = [state EXCEPT ![d] = IF gate THEN "pending" ELSE "queued"]
        /\ rel' = [rel EXCEPT ![d] = r]
        /\ \E affected \in (SUBSET out) \ {{}} :
            /\ \E w \in affected : wid' = [wid EXCEPT ![d] = w]
            /\ want' = [w \in Want |-> IF w \in affected THEN "grabbed" ELSE want[w]]
        /\ cleared' = IF gate THEN cleared ELSE cleared \cup {d}
        /\ UNCHANGED <<hash, missing, archived, blocked, acts>>
        /\ UNCHANGED <<clientVars, passVars, monVars>>

-----------------------------------------------------------------------------
(* The person at the dashboard *)

\* The bound on what keeps a behaviour from settling: a person's second
\* thoughts, what is done in the client by hand, restarts.
Act == acts < MaxActs /\ acts' = acts + 1

Approve(S) ==
    /\ \E d \in S : state[d] = "pending"
    /\ state' = ApproveMany(S)
    /\ cleared' = cleared \cup {d \in S : state[d] = "pending"}
    /\ UNCHANGED <<rel, wid, hash, missing, archived, want, blocked, acts>>
    /\ UNCHANGED <<clientVars, passVars, monVars>>

\* Every row named in the request is blocklisted, denied or not.
Deny(S) ==
    /\ Act
    /\ \E d \in S : Exists(d)
    /\ state' = DenyMany(S)
    /\ blocked' = blocked \cup {rel[d] : d \in {e \in S : Exists(e)}}
    /\ UNCHANGED <<rel, wid, hash, missing, archived, want>>
    /\ UNCHANGED <<clientVars, passVars, monVars, cleared>>

Retry(d) ==
    /\ Act
    /\ state[d] \in {"failed", "no_space", "cancelled"}
    /\ state' = SetState(d, "queued")
    /\ UNCHANGED <<rel, wid, hash, missing, archived, want, blocked, cleared>>
    /\ UNCHANGED <<clientVars, passVars, monVars>>

ClearHistory ==
    /\ Act
    /\ \E d \in Row : state[d] \in {"denied", "failed", "cancelled"}
    /\ PurgeHistory
    /\ UNCHANGED <<clientVars, passVars, monVars, cleared>>

Unblock(r) ==
    /\ Act
    /\ r \in blocked
    /\ blocked' = blocked \ {r}
    /\ UNCHANGED <<rowVars, want>>
    /\ UNCHANGED <<clientVars, passVars, monVars, cleared>>

MarkSeen(w) ==
    /\ Act
    /\ want' = MarkWatched({w})
    /\ UNCHANGED <<rowVars, blocked>>
    /\ UNCHANGED <<clientVars, passVars, monVars, cleared>>

UnmarkSeen(w) ==
    /\ Act
    /\ want[w] = "watched"
    /\ want' = UndoWatched({w})
    /\ UNCHANGED <<rowVars, blocked>>
    /\ UNCHANGED <<clientVars, passVars, monVars, cleared>>

\* The torrents remove_download deletes: by hash when the row has one,
\* otherwise every torrent that carries the row's tag.
TorrentsOf(d) ==
    IF hash[d] THEN {rel[d]} ELSE {r \in Release : tag[r] = d}

\* remove_download: delete from the client, then archive the row.  Nothing
\* else about the row changes.
RemoveDownload(d) ==
    /\ torrent' = [r \in Release |-> IF r \in TorrentsOf(d) THEN "absent" ELSE torrent[r]]
    /\ tag' = [r \in Release |-> IF r \in TorrentsOf(d) THEN NoRow ELSE tag[r]]
    /\ archived' = Archive(d)
    /\ UNCHANGED <<state, rel, wid, hash, missing, want, blocked, incoming>>

Remove(d) ==
    /\ Act
    /\ Exists(d)
    /\ RemoveDownload(d)
    /\ UNCHANGED <<passVars, monVars, cleared>>

-----------------------------------------------------------------------------
(* A dispatch pass *)

\* What a torrent listing shows: everything, or nothing for a moment after
\* the client restarted (monitor.py, the comment on MISSING_GRACE_SECONDS).
Present == {r \in Release : torrent[r] # "absent"}
Listing == {Present, {}}

\* Read the queue.  An empty queue and dry_run both end the pass here.
ReadQueue(p) ==
    /\ pc[p] = "idle"
    /\ Queued # {}
    /\ pc' = [pc EXCEPT ![p] = "list"]
    /\ todo' = [todo EXCEPT ![p] = Queued]
    /\ parked' = [parked EXCEPT ![p] = {d \in Queued : state[d] = "no_space"}]
    /\ UNCHANGED <<seen, slots, cur, knows>>
    /\ UNCHANGED <<storeVars, clientVars, monVars, ghostVars>>

\* Mutant of Busy: a finished torrent still counts as one that downloads.
BusyOrDone(view) == Cardinality({r \in view : torrent[r] \in {"busy", "done"}})

\* How many of the listed torrents are in BUSY_STATES.
Busy(view) == Cardinality({r \in view : torrent[r] = "busy"})

\* One listing gives both the free slots and the hashes to adopt.
ListClient(p, view) ==
    /\ pc[p] = "list"
    /\ Busy(view) < MaxActive
    /\ slots' = [slots EXCEPT ![p] = MaxActive - Busy(view)]
    /\ seen' = [seen EXCEPT ![p] = view]
    /\ pc' = [pc EXCEPT ![p] = "loop"]
    /\ UNCHANGED <<todo, parked, cur, knows>>
    /\ UNCHANGED <<storeVars, clientVars, monVars, ghostVars>>

Reset(p) ==
    /\ pc' = [pc EXCEPT ![p] = "idle"]
    /\ todo' = [todo EXCEPT ![p] = {}]
    /\ parked' = [parked EXCEPT ![p] = {}]
    /\ seen' = [seen EXCEPT ![p] = {}]
    /\ slots' = [slots EXCEPT ![p] = 0]
    /\ cur' = [cur EXCEPT ![p] = NoRow]
    /\ knows' = [knows EXCEPT ![p] = FALSE]

\* The client is full, its queue is drained, or login or the listing raised.
EndPass(p) ==
    /\ \/ pc[p] = "list"
       \/ pc[p] = "loop" /\ (todo[p] = {} \/ slots[p] = 0)
    /\ Reset(p)
    /\ UNCHANGED <<storeVars, clientVars, monVars, ghostVars>>

\* Mutant of Take: the loop does not stop when the slots are used up.
TakeBeyondSlots(p, d) ==
    /\ pc[p] = "loop"
    /\ d \in todo[p]
    /\ todo' = [todo EXCEPT ![p] = @ \ {d}]
    /\ UNCHANGED <<parked>>

\* Common to every way _dispatch_one can treat row d: it leaves the list.
\* The rows are taken in any order (the code's is by score, then age).
Take(p, d) ==
    /\ pc[p] = "loop"
    /\ slots[p] > 0
    /\ d \in todo[p]
    /\ todo' = [todo EXCEPT ![p] = @ \ {d}]
    /\ UNCHANGED <<parked>>

\* Mutant of RecordStarted: the hash the client answered with is not stored.
RecordStartedHashless(p, d) ==
    /\ state' = SetState(d, "downloading")
    /\ slots' = [slots EXCEPT ![p] = @ - 1]
    /\ UNCHANGED <<rel, wid, hash, missing, archived, want, blocked, cleared, acts>>

\* set_hash, then set_state: the row is recorded as downloading.
RecordStarted(p, d) ==
    /\ hash' = SetHash(d)
    /\ state' = SetState(d, "downloading")
    /\ slots' = [slots EXCEPT ![p] = @ - 1]
    /\ UNCHANGED <<rel, wid, missing, archived, want, blocked, cleared, acts>>

\* The fetched torrent file has a hash the listing already held.
Adopt(p, d) ==
    /\ Take(p, d)
    /\ rel[d] \in seen[p]
    /\ RecordStarted(p, d)
    /\ UNCHANGED <<pc, seen, cur, knows>>
    /\ UNCHANGED <<clientVars, monVars>>

\* No drive can take it.  Only a row that was read as queued is rewritten.
NoRoom(p, d) ==
    /\ Take(p, d)
    /\ state' = IF d \in parked[p] THEN state ELSE SetState(d, "no_space")
    /\ UNCHANGED <<rel, wid, hash, missing, archived, want, blocked>>
    /\ UNCHANGED <<pc, seen, slots, cur, knows>>
    /\ UNCHANGED <<clientVars, monVars, ghostVars>>

\* Torrent r starts in the client under row d's tag, unless it is there
\* already: qBittorrent keeps one torrent per hash.
Land(r, d) ==
    /\ torrent' = IF torrent[r] = "absent" THEN [torrent EXCEPT ![r] = "busy"] ELSE torrent
    /\ tag' = IF torrent[r] = "absent" THEN [tag EXCEPT ![r] = d] ELSE tag

\* What the client may do with an add, whatever it answers: nothing, start
\* the torrent, or (an add by URL) fetch it later in the background.
ClientAdd(d, byUrl) ==
    \/ UNCHANGED clientVars
    \/ Land(rel[d], d) /\ UNCHANGED incoming
    \/ byUrl /\ incoming' = incoming \cup {d} /\ UNCHANGED <<torrent, tag>>

\* Hand the torrent over and wait for it to show.  With a readable torrent
\* file the pass knows the hash (k), and it got here because the listing did
\* not hold it; otherwise it adds the raw file or the URL and looks for the tag.
HandOver(p, d) ==
    /\ Take(p, d)
    /\ \E k \in BOOLEAN :
        /\ k => rel[d] \notin seen[p]
        /\ ClientAdd(d, ~k)
        /\ knows' = [knows EXCEPT ![p] = k]
    /\ cur' = [cur EXCEPT ![p] = d]
    /\ pc' = [pc EXCEPT ![p] = "confirm"]
    /\ UNCHANGED <<storeVars, seen, slots, monVars, ghostVars>>

\* The add raised (refused, a time-out whose request may still have been
\* applied) or there was nothing to add: dispatch_queue records the failure.
AddRaises(p, d) ==
    /\ Take(p, d)
    /\ \E k \in BOOLEAN : (k => rel[d] \notin seen[p]) /\ ClientAdd(d, ~k)
    /\ state' = SetState(d, "failed")
    /\ UNCHANGED <<rel, wid, hash, missing, archived, want, blocked>>
    /\ UNCHANGED <<pc, seen, slots, cur, knows, monVars, ghostVars>>

Backs(p) ==
    /\ pc' = [pc EXCEPT ![p] = "loop"]
    /\ cur' = [cur EXCEPT ![p] = NoRow]
    /\ knows' = [knows EXCEPT ![p] = FALSE]
    /\ UNCHANGED <<todo, parked>>

\* _confirm_added finds the torrent by its hash or by the row's own tag.
Confirm(p) ==
    /\ pc[p] = "confirm"
    /\ LET d == cur[p]
           found == {r \in Release : /\ torrent[r] # "absent"
                                     /\ tag[r] = d \/ (knows[p] /\ r = rel[d])}
       IN  /\ found # {}
           /\ seen' = [seen EXCEPT ![p] = @ \cup found]
           /\ RecordStarted(p, d)
    /\ Backs(p)
    /\ UNCHANGED <<clientVars, monVars>>

\* Six polls saw nothing, or could not reach the client.
GiveUp(p) ==
    /\ pc[p] = "confirm"
    /\ state' = SetState(cur[p], "failed")
    /\ Backs(p)
    /\ UNCHANGED <<rel, wid, hash, missing, archived, want, blocked>>
    /\ UNCHANGED <<seen, slots, clientVars, monVars, ghostVars>>

-----------------------------------------------------------------------------
(* The monitor: one task, never two at once *)

\* in_flight: the rows this pass will look at.
ReadInFlight ==
    /\ mpc = "idle"
    /\ InFlight # {}
    /\ mpc' = "list"
    /\ verdict' = [d \in Row |-> IF d \in InFlight THEN "read" ELSE "none"]
    /\ UNCHANGED <<victims, keep>>
    /\ UNCHANGED <<storeVars, clientVars, passVars, ghostVars>>

\* _locate: by hash when the row has one, then by the row's tag.
Locate(d, view) == {r \in view : (hash[d] /\ r = rel[d]) \/ tag[r] = d}

Judge(d, view) ==
    LET at == Locate(d, view)
    IN  IF at = {} THEN "missing"
        ELSE LET t == torrent[CHOOSE r \in at : TRUE]
             IN CASE t = "busy" -> "moving"
                  [] t = "done" -> "complete"
                  [] OTHER -> "errored"

\* One listing decides what is done about every row read before it.
Inspect(view) ==
    /\ mpc = "list"
    /\ mpc' = "rows"
    /\ verdict' = [d \in Row |-> IF verdict[d] = "none" THEN "none" ELSE Judge(d, view)]
    /\ UNCHANGED <<victims, keep>>
    /\ UNCHANGED <<storeVars, clientVars, passVars, ghostVars>>

Judged(d, v) ==
    /\ mpc = "rows"
    /\ verdict[d] = v
    /\ verdict' = [verdict EXCEPT ![d] = "none"]

SeeMissing(d) ==
    /\ Judged(d, "missing")
    /\ missing' = MarkMissing(d)
    /\ UNCHANGED <<state, rel, wid, hash, archived, want, blocked>>
    /\ UNCHANGED <<mpc, victims, keep, clientVars, passVars, ghostVars>>

SeeMoving(d) ==
    /\ Judged(d, "moving")
    /\ missing' = ClearMissing(d)
    /\ hash' = SetHash(d)
    /\ UNCHANGED <<state, rel, wid, archived, want, blocked>>
    /\ UNCHANGED <<mpc, victims, keep, clientVars, passVars, cleared, acts>>

SeeErrored(d) ==
    /\ Judged(d, "errored")
    /\ missing' = ClearMissing(d)
    /\ hash' = SetHash(d)
    /\ state' = SetState(d, "failed")
    /\ UNCHANGED <<rel, wid, archived, want, blocked>>
    /\ UNCHANGED <<mpc, victims, keep, clientVars, passVars, cleared, acts>>

\* _handle_complete up to the Plex refresh.  A film's want is settled by its
\* id, a show's by the episodes or the season the release covers.
SeeComplete(d) ==
    /\ Judged(d, "complete")
    /\ missing' = ClearMissing(d)
    /\ hash' = SetHash(d)
    /\ state' = SetState(d, "completed")
    /\ want' = IF Kind[rel[d]] = "movie" THEN SetWant(wid[d], "downloaded")
               ELSE MarkCovered(rel[d])
    /\ mpc' = "retire"
    /\ keep' = d
    /\ UNCHANGED <<rel, wid, archived, blocked>>
    /\ UNCHANGED <<victims, clientVars, passVars, cleared, acts>>

\* Mutant of Superseded: packs are not left out of what a pack replaces.
SupersededPacksToo(d) ==
    {e \in Row : /\ Kind[rel[d]] = "pack"
                 /\ state[e] \in {"downloading", "queued", "pending",
                                  "no_space", "completed"}
                 /\ Span[rel[e]] \cap Span[rel[d]] # {}}

\* retire_superseded_episodes: the live rows of a pack's season that are not
\* packs themselves, whatever they are doing.
Superseded(d) ==
    {e \in Row : /\ Kind[rel[d]] = "pack"
                 /\ state[e] \in {"downloading", "queued", "pending",
                                  "no_space", "completed"}
                 /\ e # d
                 /\ Kind[rel[e]] = "episode"
                 /\ Span[rel[e]] \cap Span[rel[d]] # {}}

\* Plex answered the refresh: read what the completed download replaces.
ReadSuperseded ==
    /\ mpc = "retire"
    /\ keep # NoRow
    /\ victims' = Superseded(keep)
    /\ keep' = NoRow
    /\ UNCHANGED <<mpc, verdict, storeVars, clientVars, passVars, ghostVars>>

Retire(d) ==
    /\ mpc = "retire"
    /\ keep = NoRow
    /\ d \in victims
    /\ victims' = victims \ {d}
    /\ IF Exists(d) THEN RemoveDownload(d) ELSE UNCHANGED <<storeVars, clientVars>>
    /\ UNCHANGED <<mpc, verdict, keep, passVars, ghostVars>>

RetireDone ==
    /\ mpc = "retire"
    /\ keep = NoRow /\ victims = {}
    /\ mpc' = "rows"
    /\ UNCHANGED <<verdict, victims, keep, storeVars, clientVars, passVars, ghostVars>>

\* missing_beyond: the downloads gone for longer than the grace.
ReadMissing ==
    /\ mpc = "rows"
    /\ \A e \in Row : verdict[e] = "none"
    /\ mpc' = "gone"
    /\ verdict' = [d \in Row |-> IF d \in MissingBeyond THEN "gone" ELSE "none"]
    /\ UNCHANGED <<victims, keep, storeVars, clientVars, passVars, ghostVars>>

\* _handle_missing.  Only the want in wanted_id goes back to searching.
Abandon(d) ==
    /\ mpc = "gone"
    /\ verdict[d] = "gone"
    /\ verdict' = [verdict EXCEPT ![d] = "none"]
    /\ state' = SetState(d, "cancelled")
    /\ want' = SetWant(wid[d], "searching")
    /\ UNCHANGED <<rel, wid, hash, missing, archived, blocked>>
    /\ UNCHANGED <<mpc, victims, keep, clientVars, passVars, ghostVars>>

ResetMonitor ==
    /\ mpc' = "idle"
    /\ verdict' = [d \in Row |-> "none"]
    /\ victims' = {}
    /\ keep' = NoRow

EndMonitor ==
    /\ mpc = "gone"
    /\ \A e \in Row : verdict[e] = "none"
    /\ ResetMonitor
    /\ UNCHANGED <<storeVars, clientVars, passVars, ghostVars>>

\* The listing, the Plex refresh after a completion, or a delete raised: the
\* rest of the pass is dropped.
MonitorRaises ==
    /\ mpc \in {"list", "retire"}
    /\ ResetMonitor
    /\ UNCHANGED <<storeVars, clientVars, passVars, ghostVars>>

-----------------------------------------------------------------------------
(* qBittorrent, the clock and the process *)

\* A URL add is fetched: it lands, or the tracker refuses it.
Fetched(d) ==
    /\ d \in incoming
    /\ incoming' = incoming \ {d}
    /\ Land(rel[d], d) \/ UNCHANGED <<torrent, tag>>
    /\ UNCHANGED <<storeVars, passVars, monVars, ghostVars>>

TorrentEnds(r, how) ==
    /\ torrent[r] = "busy"
    /\ torrent' = [torrent EXCEPT ![r] = how]
    /\ UNCHANGED <<tag, incoming>>
    /\ UNCHANGED <<storeVars, passVars, monVars, ghostVars>>

\* Somebody deletes or adds the torrent in qBittorrent itself.
DeleteByHand(r) ==
    /\ Act
    /\ torrent[r] # "absent"
    /\ torrent' = [torrent EXCEPT ![r] = "absent"]
    /\ tag' = [tag EXCEPT ![r] = NoRow]
    /\ UNCHANGED incoming
    /\ UNCHANGED <<storeVars, passVars, monVars, cleared>>

AddByHand(r) ==
    /\ Act
    /\ torrent[r] = "absent"
    /\ torrent' = [torrent EXCEPT ![r] = "busy"]
    /\ UNCHANGED <<tag, incoming, cleared>>
    /\ UNCHANGED <<storeVars, passVars, monVars>>

\* MISSING_GRACE_SECONDS go by on a row's clock.  A monitor round is far
\* shorter than the grace, so it runs out between two rounds.
GraceElapses(d) ==
    /\ missing[d] = "fresh"
    /\ mpc = "idle"
    /\ missing' = [missing EXCEPT ![d] = "overdue"]
    /\ UNCHANGED <<state, rel, wid, hash, archived, want, blocked>>
    /\ UNCHANGED <<clientVars, passVars, monVars, ghostVars>>

\* The process dies and comes back: the database and the client survive, no
\* coroutine does.
Restart ==
    /\ Act
    /\ mpc # "idle" \/ \E p \in Pass : pc[p] # "idle"
    /\ pc' = [p \in Pass |-> "idle"]
    /\ todo' = [p \in Pass |-> {}]
    /\ parked' = [p \in Pass |-> {}]
    /\ seen' = [p \in Pass |-> {}]
    /\ slots' = [p \in Pass |-> 0]
    /\ cur' = [p \in Pass |-> NoRow]
    /\ knows' = [p \in Pass |-> FALSE]
    /\ ResetMonitor
    /\ UNCHANGED <<storeVars, clientVars, cleared>>

-----------------------------------------------------------------------------
Person ==
    \/ \E S \in SUBSET Row : Approve(S) \/ Deny(S)
    \/ \E d \in Row : Retry(d) \/ Remove(d)
    \/ ClearHistory
    \/ \E r \in Release : Unblock(r)
    \/ \E w \in Want : MarkSeen(w) \/ UnmarkSeen(w)

Search ==
    \E d \in Row, r \in Release, gate, force \in BOOLEAN : Grab(d, r, gate, force)

Serve(p) ==
    \E d \in Row : Adopt(p, d) \/ NoRoom(p, d) \/ HandOver(p, d) \/ AddRaises(p, d)

Dispatch(p) ==
    \/ ReadQueue(p) \/ EndPass(p) \/ Serve(p) \/ Confirm(p) \/ GiveUp(p)
    \/ \E view \in Listing : ListClient(p, view)

Follow ==
    \E d \in Row : \/ SeeMissing(d) \/ SeeMoving(d) \/ SeeErrored(d)
                   \/ SeeComplete(d) \/ Retire(d) \/ Abandon(d)

Monitor ==
    \/ ReadInFlight \/ ReadSuperseded \/ RetireDone \/ Follow
    \/ ReadMissing \/ EndMonitor \/ MonitorRaises
    \/ \E view \in Listing : Inspect(view)

Environment ==
    \/ \E d \in Row : Fetched(d) \/ GraceElapses(d)
    \/ \E r \in Release : \/ TorrentEnds(r, "done") \/ TorrentEnds(r, "errored")
                          \/ DeleteByHand(r) \/ AddByHand(r)
    \/ Restart

Next == Person \/ Search \/ (\E p \in Pass : Dispatch(p)) \/ Monitor \/ Environment

Spec == Init /\ [][Next]_vars

(***************************************************************************)
(* Fairness.  The supervisor starts both tasks again and again and no pass *)
(* stops in the middle for ever (every client call has a time-out), so     *)
(* their steps are weakly fair.  That the client answers a listing in full *)
(* is not up to this code: it does so again and again, if not every time.  *)
(* A torrent ends and a clock runs on by themselves; a clock runs out      *)
(* between two monitor rounds, hence strongly.                             *)
(***************************************************************************)
Fairness ==
    /\ \A p \in Pass :
        /\ WF_vars(ReadQueue(p)) /\ WF_vars(Serve(p)) /\ WF_vars(EndPass(p))
        /\ WF_vars(Confirm(p) \/ GiveUp(p))
        /\ SF_vars(ListClient(p, Present))
    /\ WF_vars(ReadInFlight) /\ WF_vars(ReadSuperseded) /\ WF_vars(RetireDone)
    /\ WF_vars(ReadMissing) /\ WF_vars(EndMonitor) /\ WF_vars(Follow)
    /\ SF_vars(Inspect(Present))
    /\ \A d \in Row : WF_vars(Fetched(d)) /\ SF_vars(GraceElapses(d))
    /\ \A r \in Release : WF_vars(TorrentEnds(r, "done") \/ TorrentEnds(r, "errored"))

FairSpec == Spec /\ Fairness

-----------------------------------------------------------------------------
(* Properties *)

\* Nothing reaches qBittorrent that needed an approval and did not get one,
\* however passes, retries, restarts and late URL adds interleave
\* (README: "Nothing whatsoever reaches qBittorrent until you click Approve").
ApprovedOnly ==
    /\ \A r \in Release : tag[r] # NoRow => tag[r] \in cleared
    /\ incoming \subseteq cleared

\* A denial stands: no coroutine that read the row earlier and no button
\* brings a denied row back; it can only be deleted (api.py, deny_downloads).
DenialStands ==
    [][\A d \in Row : state[d] = "denied" => state'[d] \in {"denied", "gone"}]_vars

\* A completed download stays completed, whatever a pass or a monitor round
\* still holds of it (api.py, clear-history: "Completed history is kept").
\* Needs dispatch passes that do not overlap.
CompletedIsFinal ==
    [][\A d \in Row : state[d] = "completed" => state'[d] = "completed"]_vars

\* A row recorded as downloading knows its info-hash, however it got there
\* (adopted, added as a file, recovered by tag after a URL add), so that the
\* monitor's lookup is exact (ARCHITECTURE, "identified by info-hash").
HashKnown == \A d \in InFlight : hash[d]

\* What is taken out of the client without a person asking is a single whose
\* season a completed pack covers, never the pack (retire_superseded_episodes).
RetiresOnlySuperseded ==
    [][\A d \in Row : archived'[d] /\ ~archived[d] /\ acts' = acts =>
        /\ Kind[rel[d]] = "episode"
        /\ \E e \in Row : /\ state[e] = "completed" /\ Kind[rel[e]] = "pack"
                          /\ Span[rel[e]] \cap Span[rel[d]] # {}]_vars

\* A queued download does not wait for ever: it is started, adopted after a
\* crash between the add and the write that records it, parked or failed.
QueuedIsServed == \A d \in Row : state[d] = "queued" ~> state[d] # "queued"

\* A download in flight is settled one day: completed, failed or, when its
\* torrent is gone, cancelled (monitor_downloads).
InFlightSettles == \A d \in Row : state[d] = "downloading" ~> state[d] # "downloading"

-----------------------------------------------------------------------------
(* The promise this module keeps *)

\* What was decided about row d.  A row that was cleared and is gone was
\* closed; one that is gone and never was had been refused.
Decided(d) ==
    IF d \in cleared THEN IF state[d] = "gone" THEN "closed" ELSE "granted"
    ELSE IF state[d] = "unborn" THEN "none"
    ELSE IF state[d] = "pending" THEN "asked"
    ELSE "refused"

\* The rows the client works for: their tag is on a torrent or their URL add
\* is still to be fetched.
InClient == {d \in Row : d \in incoming \/ \E r \in Release : tag[r] = d}

Promise == INSTANCE Moderation
    WITH Ticket <- Row,
         stage <- [d \in Row |-> Decided(d)],
         client <- InClient

\* Searches, approvals, passes, monitor rounds, retries, removals, history
\* clearing and restarts together keep the promise of module Moderation: every
\* step of theirs is one of its steps or changes nothing of what it speaks of.
ModerationKept == Promise!Spec

-----------------------------------------------------------------------------
(* The inductive invariant the proofs of module DownloadsProof rest on *)

\* What the types alone do not say: a row that exists has a release, and the
\* row a pass waits for holds one of the pass's slots.
Wellformed ==
    /\ \A d \in Row : state[d] # "unborn" => rel[d] \in Release
    /\ \A p \in Pass : pc[p] = "confirm" => slots[p] > 0 /\ cur[p] \in Row

\* Rows that were never approved, or whose approval was refused.
Uncleared == {"unborn", "pending", "denied"}

\* Only cleared rows are in a state a pass or the monitor gives them, and
\* only cleared rows are in the hands of a coroutine or the client.
Clearance ==
    /\ \A d \in cleared : state[d] \notin Uncleared
    /\ \A d \in Row : state[d] \notin Uncleared \cup {"gone"} => d \in cleared
    /\ \A p \in Pass : todo[p] \subseteq cleared
    /\ \A p \in Pass : pc[p] = "confirm" => cur[p] \in cleared
    /\ \A d \in Row : verdict[d] # "none" => d \in cleared
    /\ ApprovedOnly

\* Dispatch passes do not overlap: nobody presses "run queue now" during one.
NoOverlap == \A p, q \in Pass : pc[p] # "idle" /\ pc[q] # "idle" => p = q

\* While passes do not overlap, no coroutine but the monitor holds a row that is
\* downloading, and nobody holds one that has completed.
InHand ==
    /\ \A p \in Pass : pc[p] = "idle" => todo[p] = {}
    /\ \A p \in Pass, d \in Row :
        d \in todo[p] \/ (pc[p] = "confirm" /\ d = cur[p])
        => state[d] \notin {"downloading", "completed"}
    /\ \A p \in Pass : pc[p] = "confirm" => cur[p] \notin todo[p]
    /\ \A d \in Row : verdict[d] # "none" => state[d] = "downloading"

\* While passes do not overlap, what the monitor goes by when it retires rows is
\* true until it is done: the download it keeps has completed, and what
\* it takes out are singles that a completed pack covers.
Replacing ==
    /\ keep # NoRow => state[keep] = "completed"
    /\ \A d \in victims :
        /\ state[d] # "unborn"
        /\ Kind[rel[d]] = "episode"
        /\ \E e \in Row : /\ state[e] = "completed" /\ Kind[rel[e]] = "pack"
                          /\ Span[rel[e]] \cap Span[rel[d]] # {}

-----------------------------------------------------------------------------
(* What the repository says of the program and the program does not do *)

\* Once a pack has landed, the singles it replaced are dropped: none of them
\* is started afterwards (janitor.py, retire_superseded_episodes).
ReplacedNotStarted ==
    [][\A r \in Release, d \in Row :
        /\ torrent[r] = "absent" /\ torrent'[r] # "absent" /\ tag'[r] = d
        /\ archived[d] /\ Kind[r] = "episode"
        => ~ \E e \in Row : /\ state[e] = "completed" /\ Kind[rel[e]] = "pack"
                            /\ Span[rel[e]] \cap Span[r] # {}]_vars

\* A person's "already seen" is undone by that person only (models.py:23-26).
SeenSticks ==
    [][\A w \in Want : want[w] = "watched" => want'[w] = "watched" \/ acts' > acts]_vars
=============================================================================
