--------------------------- MODULE DownloadsProof ---------------------------
(***************************************************************************)
(* Proofs about module Downloads, for every set of rows, releases, wants   *)
(* and passes: its variables keep their types, nothing reaches the client  *)
(* that was not cleared for it, a denial stands, and a row in flight knows *)
(* its info-hash.                                                          *)
(***************************************************************************)
EXTENDS Downloads, FiniteSetTheorems, TLAPS

\* A listing is a set of releases, so the number of its busy torrents, which
\* ListClient subtracts from max_active_downloads, is a number.
LEMMA BusyIsNat ==
    ASSUME NEW view \in SUBSET Release
    PROVE  Busy(view) \in Nat
  <1>1. {r \in view : torrent[r] = "busy"} \subseteq Release
    OBVIOUS
  <1>2. IsFiniteSet({r \in view : torrent[r] = "busy"})
    BY <1>1, DownloadsAssumption, FS_Subset
  <1> QED
    BY <1>2, FS_CardinalityType DEF Busy

\* Every listing shows torrents only.
LEMMA ListingType == Listing \subseteq SUBSET Release
  BY DEF Listing, Present

-----------------------------------------------------------------------------
(* The next-state relation, action by action *)

\* What a proof that every step keeps a formula has to look at: one case for
\* each action of Next, with the ranges of its parameters.
LEMMA Cases ==
    ASSUME [Next]_vars
    PROVE  \/ \E S \in SUBSET Row : Approve(S) \/ Deny(S)
           \/ \E d \in Row : Retry(d) \/ Remove(d)
           \/ ClearHistory
           \/ \E r \in Release : Unblock(r)
           \/ \E w \in Want : MarkSeen(w) \/ UnmarkSeen(w)
           \/ \E d \in Row, r \in Release, gate, force \in BOOLEAN : Grab(d, r, gate, force)
           \/ \E p \in Pass : \/ ReadQueue(p) \/ EndPass(p) \/ Confirm(p) \/ GiveUp(p)
                              \/ \E view \in SUBSET Release : ListClient(p, view)
                              \/ \E d \in Row : \/ Adopt(p, d) \/ NoRoom(p, d)
                                                \/ HandOver(p, d) \/ AddRaises(p, d)
           \/ ReadInFlight \/ ReadSuperseded \/ RetireDone
           \/ ReadMissing \/ EndMonitor \/ MonitorRaises
           \/ \E view \in SUBSET Release : Inspect(view)
           \/ \E d \in Row : \/ SeeMissing(d) \/ SeeMoving(d) \/ SeeErrored(d)
                             \/ SeeComplete(d) \/ Retire(d) \/ Abandon(d)
           \/ \E d \in Row : Fetched(d) \/ GraceElapses(d)
           \/ \E r \in Release : \/ \E how \in {"done", "errored"} : TorrentEnds(r, how)
                                 \/ DeleteByHand(r) \/ AddByHand(r)
           \/ Restart
           \/ UNCHANGED vars
  BY ListingType, Zenon DEF Next, Person, Search, Serve, Dispatch, Follow, Monitor, Environment

-----------------------------------------------------------------------------
(* Type correctness *)

\* The type invariant made inductive.
TypeInv == TypeOK /\ Wellformed

\* A fresh database, an empty client and idle coroutines are well typed.
LEMMA TypeInit == Init => TypeInv
  BY StoreAssumption, DownloadsAssumption
     DEF Init, StoreInit, TypeInv, TypeOK, StoreTypeOK, Wellformed, TorrentState,
         Verdict, WantedState

\* Whatever the client does with an add keeps the types of its state.
LEMMA ClientAddType ==
    ASSUME TypeInv, NEW d \in Row, NEW k \in BOOLEAN, ClientAdd(d, ~k)
    PROVE  /\ torrent' \in [Release -> TorrentState] /\ tag' \in [Release -> Row \cup {NoRow}]
           /\ incoming' \in SUBSET Row
  BY DEF TypeInv, TypeOK, ClientAdd, Land, TorrentState, clientVars

\* No step of a person, a coroutine or the client leaves the types.
LEMMA TypeStep == TypeInv /\ [Next]_vars => TypeInv'
  <1> SUFFICES ASSUME TypeInv, [Next]_vars PROVE TypeInv'
    OBVIOUS
  <1> USE DownloadsAssumption DEF TypeInv, TypeOK, StoreTypeOK, Wellformed, DownloadState
  <1> USE DEF vars, storeVars, rowVars, clientVars, passVars, monVars, ghostVars
  <1>1. ASSUME NEW S \in SUBSET Row, Approve(S) PROVE TypeInv'
    BY <1>1 DEF Approve, ApproveMany
  <1>2. ASSUME NEW S \in SUBSET Row, Deny(S) PROVE TypeInv'
    BY <1>2 DEF Deny, Act, DenyMany, Exists, DownloadState
  <1>3. ASSUME NEW d \in Row, Retry(d) PROVE TypeInv'
    BY <1>3 DEF Retry, Act, SetState
  <1>4. ASSUME NEW d \in Row, Remove(d) PROVE TypeInv'
    BY <1>4 DEF Remove, Act, RemoveDownload, TorrentsOf, Archive, Exists,
       TorrentState
  <1>5. ASSUME ClearHistory PROVE TypeInv'
    BY <1>5 DEF ClearHistory, Act, PurgeHistory
  <1>6. ASSUME NEW r \in Release, Unblock(r) PROVE TypeInv'
    BY <1>6 DEF Unblock, Act
  <1>7. ASSUME NEW w \in Want, MarkSeen(w) PROVE TypeInv'
    BY <1>7 DEF MarkSeen, Act, MarkWatched, WantedState
  <1>8. ASSUME NEW w \in Want, UnmarkSeen(w) PROVE TypeInv'
    BY <1>8 DEF UnmarkSeen, Act, UndoWatched, WantedState
  <1>9. ASSUME NEW d \in Row, NEW r \in Release,
              NEW gate \in BOOLEAN, NEW force \in BOOLEAN, Grab(d, r, gate, force)
       PROVE TypeInv'
    BY <1>9, StoreAssumption DEF Grab, DownloadState, WantedState
  <1>10. ASSUME NEW p \in Pass, ReadQueue(p) PROVE TypeInv'
    BY <1>10 DEF ReadQueue, Queued
  <1>11. ASSUME NEW p \in Pass, EndPass(p) PROVE TypeInv'
    BY <1>11 DEF EndPass, Reset
  <1>12. ASSUME NEW p \in Pass, Confirm(p) PROVE TypeInv'
    BY <1>12 DEF Confirm, Backs, RecordStarted, SetHash, SetState, Exists
  <1>13. ASSUME NEW p \in Pass, GiveUp(p) PROVE TypeInv'
    BY <1>13 DEF GiveUp, Backs, SetState, Exists
  <1>14. ASSUME NEW p \in Pass, NEW view \in SUBSET Release, ListClient(p, view)
       PROVE TypeInv'
    BY <1>14, BusyIsNat DEF ListClient
  <1>15. ASSUME NEW p \in Pass, NEW d \in Row, Adopt(p, d) PROVE TypeInv'
    BY <1>15 DEF Adopt, Take, RecordStarted, SetHash, SetState, Exists
  <1>16. ASSUME NEW p \in Pass, NEW d \in Row, NoRoom(p, d) PROVE TypeInv'
    BY <1>16 DEF NoRoom, Take, SetState, Exists
  <1>17. ASSUME NEW p \in Pass, NEW d \in Row, HandOver(p, d) PROVE TypeInv'
    <2>1. /\ torrent' \in [Release -> TorrentState] /\ tag' \in [Release -> Row \cup {NoRow}]
          /\ incoming' \in SUBSET Row
      BY <1>17, ClientAddType DEF HandOver
    <2>2. knows' \in [Pass -> BOOLEAN]
      BY <1>17 DEF HandOver
    <2> QED
      BY <1>17, <2>1, <2>2 DEF HandOver, Take
  <1>18. ASSUME NEW p \in Pass, NEW d \in Row, AddRaises(p, d) PROVE TypeInv'
    <2>2. /\ torrent' \in [Release -> TorrentState] /\ tag' \in [Release -> Row \cup {NoRow}]
          /\ incoming' \in SUBSET Row
      BY <1>18, ClientAddType DEF AddRaises
    <2>3. state' \in [Row -> DownloadState \cup {"unborn", "gone"}]
      BY <1>18 DEF AddRaises, SetState
    <2> QED
      BY <1>18, <2>2, <2>3 DEF AddRaises, Take, SetState, Exists
  <1>19. ASSUME ReadInFlight PROVE TypeInv'
    BY <1>19 DEF ReadInFlight, Verdict
  <1>20. ASSUME ReadSuperseded PROVE TypeInv'
    BY <1>20 DEF ReadSuperseded, Superseded
  <1>21. ASSUME RetireDone PROVE TypeInv'
    BY <1>21 DEF RetireDone
  <1>22. ASSUME EndMonitor PROVE TypeInv'
    BY <1>22 DEF EndMonitor, ResetMonitor, Verdict
  <1>23. ASSUME MonitorRaises PROVE TypeInv'
    BY <1>23 DEF MonitorRaises, ResetMonitor, Verdict
  <1>24. ASSUME NEW view \in SUBSET Release, Inspect(view) PROVE TypeInv'
    BY <1>24 DEF Inspect, Judge, Verdict
  <1>25. ASSUME NEW d \in Row, SeeMissing(d) PROVE TypeInv'
    BY <1>25 DEF SeeMissing, Judged, MarkMissing, Verdict
  <1>26. ASSUME NEW d \in Row, SeeMoving(d) PROVE TypeInv'
    BY <1>26 DEF SeeMoving, Judged, ClearMissing, SetHash, Verdict
  <1>27. ASSUME NEW d \in Row, SeeErrored(d) PROVE TypeInv'
    BY <1>27 DEF SeeErrored, Judged, ClearMissing, SetHash, SetState, Exists,
       Verdict
  <1>28. ASSUME NEW d \in Row, SeeComplete(d) PROVE TypeInv'
    BY <1>28 DEF SeeComplete, Judged, ClearMissing, SetHash, SetState,
       SetWant, MarkCovered, Exists, WantedState, Verdict
  <1>29. ASSUME NEW d \in Row, Retire(d) PROVE TypeInv'
    <2>1. CASE Exists(d)
      <3>1. RemoveDownload(d)
        BY <1>29, <2>1 DEF Retire
      <3>2. archived' \in [Row -> BOOLEAN]
        BY <3>1 DEF RemoveDownload, Archive, Exists
      <3>3. torrent' \in [Release -> TorrentState]
        BY <3>1 DEF RemoveDownload, TorrentsOf, TorrentState
      <3> QED
        BY <1>29, <3>1, <3>2, <3>3 DEF Retire, RemoveDownload, TorrentsOf, Archive
    <2>2. CASE ~Exists(d)
      BY <1>29, <2>2 DEF Retire
    <2> QED
      BY <2>1, <2>2
  <1>30. ASSUME NEW d \in Row, Abandon(d) PROVE TypeInv'
    BY <1>30 DEF Abandon, SetState, SetWant, Exists, WantedState, Verdict
  <1>31. ASSUME NEW d \in Row, Fetched(d) PROVE TypeInv'
    BY <1>31 DEF Fetched, Land, TorrentState
  <1>32. ASSUME NEW d \in Row, GraceElapses(d) PROVE TypeInv'
    BY <1>32 DEF GraceElapses
  <1>33. ASSUME NEW r \in Release, NEW how \in {"done", "errored"}, TorrentEnds(r, how)
       PROVE TypeInv'
    BY <1>33 DEF TorrentEnds, TorrentState
  <1>34. ASSUME NEW r \in Release, DeleteByHand(r) PROVE TypeInv'
    BY <1>34 DEF DeleteByHand, Act, TorrentState
  <1>35. ASSUME NEW r \in Release, AddByHand(r) PROVE TypeInv'
    BY <1>35 DEF AddByHand, Act, TorrentState
  <1>36. ASSUME Restart PROVE TypeInv'
    BY <1>36 DEF Restart, Act, ResetMonitor, Verdict
  <1>37. ASSUME ReadMissing PROVE TypeInv'
    BY <1>37 DEF ReadMissing, Verdict
  <1>38. CASE UNCHANGED vars
    BY <1>38
  <1> HIDE DEF TypeInv, TypeOK, StoreTypeOK, Wellformed, DownloadState
  <1> HIDE DEF vars, storeVars, rowVars, clientVars, passVars, monVars, ghostVars
  <1> QED
    BY <1>1, <1>2, <1>3, <1>4, <1>5, <1>6, <1>7, <1>8, <1>9, <1>10, <1>11,
       <1>12, <1>13, <1>14, <1>15, <1>16, <1>17, <1>18, <1>19, <1>20, <1>21,
       <1>22, <1>23, <1>24, <1>25, <1>26, <1>27, <1>28, <1>29, <1>30, <1>31,
       <1>32, <1>33, <1>34, <1>35, <1>36, <1>37, <1>38, Cases

\* Each variable keeps its type: a pass never has a negative number of slots,
\* a row never leaves the states of the schema (Downloads, TypeOK).
THEOREM TypeCorrect == Spec => []TypeOK
  <1>1. TypeInv => TypeOK
    BY DEF TypeInv
  <1> QED
    BY <1>1, TypeInit, TypeStep, PTL DEF Spec

-----------------------------------------------------------------------------
(* Approval *)

\* At first there is no row and nothing in the client.
LEMMA ClearanceInit == Init => Clearance
  BY DEF Init, StoreInit, Clearance, ApprovedOnly, Uncleared

\* No step puts a row that was never cleared into a coroutine's hands, into a
\* started state or into the client.
LEMMA ClearanceStep == TypeInv /\ Clearance /\ [Next]_vars => Clearance'
  <1> SUFFICES ASSUME TypeInv, Clearance, [Next]_vars PROVE Clearance'
    OBVIOUS
  <1> USE DEF TypeInv, TypeOK, StoreTypeOK, Wellformed, DownloadState
  <1> USE DEF Clearance, ApprovedOnly, Uncleared
  <1> USE DEF vars, storeVars, rowVars, clientVars, passVars, monVars, ghostVars
  <1>1. ASSUME NEW S \in SUBSET Row, Approve(S) PROVE Clearance'
    BY <1>1 DEF Approve, ApproveMany
  <1>2. ASSUME NEW S \in SUBSET Row, Deny(S) PROVE Clearance'
    BY <1>2 DEF Deny, DenyMany
  <1>3. ASSUME NEW d \in Row, Retry(d) PROVE Clearance'
    BY <1>3 DEF Retry, SetState, Exists, DownloadState
  <1>4. ASSUME NEW d \in Row, Remove(d) PROVE Clearance'
    BY <1>4 DEF Remove, RemoveDownload
  <1>5. ASSUME ClearHistory PROVE Clearance'
    BY <1>5 DEF ClearHistory, PurgeHistory
  <1>6. ASSUME NEW r \in Release, Unblock(r) PROVE Clearance'
    BY <1>6 DEF Unblock
  <1>7. ASSUME NEW w \in Want, MarkSeen(w) PROVE Clearance'
    BY <1>7 DEF MarkSeen
  <1>8. ASSUME NEW w \in Want, UnmarkSeen(w) PROVE Clearance'
    BY <1>8 DEF UnmarkSeen
  <1>9. ASSUME NEW d \in Row, NEW r \in Release,
              NEW gate \in BOOLEAN, NEW force \in BOOLEAN, Grab(d, r, gate, force)
       PROVE Clearance'
    BY <1>9 DEF Grab
  <1>10. ASSUME NEW p \in Pass, ReadQueue(p) PROVE Clearance'
    BY <1>10 DEF ReadQueue, Queued
  <1>11. ASSUME NEW p \in Pass, EndPass(p) PROVE Clearance'
    BY <1>11 DEF EndPass, Reset
  <1>12. ASSUME NEW p \in Pass, Confirm(p) PROVE Clearance'
    BY <1>12 DEF Confirm, Backs, RecordStarted, SetHash, SetState, Exists
  <1>13. ASSUME NEW p \in Pass, GiveUp(p) PROVE Clearance'
    BY <1>13 DEF GiveUp, Backs, SetState, Exists
  <1>14. ASSUME NEW p \in Pass, NEW view \in SUBSET Release, ListClient(p, view)
       PROVE Clearance'
    BY <1>14 DEF ListClient
  <1>15. ASSUME NEW p \in Pass, NEW d \in Row, Adopt(p, d) PROVE Clearance'
    BY <1>15 DEF Adopt, Take, RecordStarted, SetHash, SetState, Exists
  <1>16. ASSUME NEW p \in Pass, NEW d \in Row, NoRoom(p, d) PROVE Clearance'
    BY <1>16 DEF NoRoom, Take, SetState, Exists
  <1>17. ASSUME NEW p \in Pass, NEW d \in Row, HandOver(p, d) PROVE Clearance'
    BY <1>17 DEF HandOver, Take, ClientAdd, Land
  <1>18. ASSUME NEW p \in Pass, NEW d \in Row, AddRaises(p, d) PROVE Clearance'
    BY <1>18 DEF AddRaises, Take, ClientAdd, Land, SetState, Exists
  <1>19. ASSUME ReadInFlight PROVE Clearance'
    BY <1>19 DEF ReadInFlight, InFlight
  <1>20. ASSUME ReadSuperseded PROVE Clearance'
    BY <1>20 DEF ReadSuperseded
  <1>21. ASSUME RetireDone PROVE Clearance'
    BY <1>21 DEF RetireDone
  <1>22. ASSUME EndMonitor PROVE Clearance'
    BY <1>22 DEF EndMonitor, ResetMonitor
  <1>23. ASSUME MonitorRaises PROVE Clearance'
    BY <1>23 DEF MonitorRaises, ResetMonitor
  <1>24. ASSUME NEW view \in SUBSET Release, Inspect(view) PROVE Clearance'
    BY <1>24 DEF Inspect
  <1>25. ASSUME NEW d \in Row, SeeMissing(d) PROVE Clearance'
    BY <1>25 DEF SeeMissing, Judged
  <1>26. ASSUME NEW d \in Row, SeeMoving(d) PROVE Clearance'
    BY <1>26 DEF SeeMoving, Judged, SetHash
  <1>27. ASSUME NEW d \in Row, SeeErrored(d) PROVE Clearance'
    BY <1>27 DEF SeeErrored, Judged, SetHash, SetState, Exists
  <1>28. ASSUME NEW d \in Row, SeeComplete(d) PROVE Clearance'
    BY <1>28 DEF SeeComplete, Judged, SetHash, SetState, Exists
  <1>29. ASSUME NEW d \in Row, Retire(d) PROVE Clearance'
    BY <1>29 DEF Retire, RemoveDownload
  <1>30. ASSUME NEW d \in Row, Abandon(d) PROVE Clearance'
    BY <1>30 DEF Abandon, SetState, Exists
  <1>31. ASSUME NEW d \in Row, Fetched(d) PROVE Clearance'
    BY <1>31 DEF Fetched, Land
  <1>32. ASSUME NEW d \in Row, GraceElapses(d) PROVE Clearance'
    BY <1>32 DEF GraceElapses
  <1>33. ASSUME NEW r \in Release, NEW how \in {"done", "errored"}, TorrentEnds(r, how)
       PROVE Clearance'
    BY <1>33 DEF TorrentEnds
  <1>34. ASSUME NEW r \in Release, DeleteByHand(r) PROVE Clearance'
    BY <1>34 DEF DeleteByHand
  <1>35. ASSUME NEW r \in Release, AddByHand(r) PROVE Clearance'
    BY <1>35 DEF AddByHand
  <1>36. ASSUME Restart PROVE Clearance'
    BY <1>36 DEF Restart, ResetMonitor
  <1>37. ASSUME ReadMissing PROVE Clearance'
    BY <1>37 DEF ReadMissing, MissingBeyond, InFlight
  <1>38. CASE UNCHANGED vars
    BY <1>38
  <1> HIDE DEF TypeInv, TypeOK, StoreTypeOK, Wellformed, DownloadState
  <1> HIDE DEF Clearance, ApprovedOnly, Uncleared
  <1> HIDE DEF vars, storeVars, rowVars, clientVars, passVars, monVars, ghostVars
  <1> QED
    BY <1>1, <1>2, <1>3, <1>4, <1>5, <1>6, <1>7, <1>8, <1>9, <1>10, <1>11,
       <1>12, <1>13, <1>14, <1>15, <1>16, <1>17, <1>18, <1>19, <1>20, <1>21,
       <1>22, <1>23, <1>24, <1>25, <1>26, <1>27, <1>28, <1>29, <1>30, <1>31,
       <1>32, <1>33, <1>34, <1>35, <1>36, <1>37, <1>38, Cases

\* The clearance invariant holds in every reachable state.
THEOREM Cleared == Spec => [](TypeInv /\ Clearance)
  <1>1. Init => TypeInv /\ Clearance
    BY TypeInit, ClearanceInit
  <1>2. TypeInv /\ Clearance /\ [Next]_vars => (TypeInv /\ Clearance)'
    BY TypeStep, ClearanceStep
  <1> QED
    BY <1>1, <1>2, PTL DEF Spec

\* Nothing reaches qBittorrent that needed an approval and did not get one
\* (Downloads, ApprovedOnly; README: "Nothing whatsoever reaches qBittorrent
\* until you click Approve").
THEOREM OnlyApproved == Spec => []ApprovedOnly
  <1>1. TypeInv /\ Clearance => ApprovedOnly
    BY DEF Clearance
  <1> QED
    BY <1>1, Cleared, PTL

-----------------------------------------------------------------------------
(* Denials, hashes and completed rows *)

\* The actions that write downloads.state; every other step leaves it alone.
LEMMA StateWriters ==
    ASSUME [Next]_vars
    PROVE  \/ \E S \in SUBSET Row : Approve(S) \/ Deny(S)
           \/ \E d \in Row : Retry(d)
           \/ ClearHistory
           \/ \E d \in Row, r \in Release, gate, force \in BOOLEAN : Grab(d, r, gate, force)
           \/ \E p \in Pass : Confirm(p) \/ GiveUp(p)
           \/ \E p \in Pass, d \in Row : Adopt(p, d) \/ NoRoom(p, d) \/ AddRaises(p, d)
           \/ \E d \in Row : SeeErrored(d) \/ SeeComplete(d) \/ Abandon(d)
           \/ state' = state
  <1> USE DEF vars, storeVars, rowVars

  <1>1. ASSUME NEW d \in Row, Remove(d) PROVE state' = state
    BY <1>1 DEF Remove, RemoveDownload
  <1>2. ASSUME NEW r \in Release, Unblock(r) PROVE state' = state
    BY <1>2 DEF Unblock
  <1>3. ASSUME NEW w \in Want, MarkSeen(w) PROVE state' = state
    BY <1>3 DEF MarkSeen
  <1>4. ASSUME NEW w \in Want, UnmarkSeen(w) PROVE state' = state
    BY <1>4 DEF UnmarkSeen
  <1>5. ASSUME NEW p \in Pass, ReadQueue(p) PROVE state' = state
    BY <1>5 DEF ReadQueue
  <1>6. ASSUME NEW p \in Pass, EndPass(p) PROVE state' = state
    BY <1>6 DEF EndPass
  <1>7. ASSUME NEW p \in Pass, NEW view \in SUBSET Release, ListClient(p, view)
       PROVE state' = state
    BY <1>7 DEF ListClient
  <1>8. ASSUME NEW p \in Pass, NEW d \in Row, HandOver(p, d) PROVE state' = state
    BY <1>8 DEF HandOver
  <1>9. ASSUME ReadInFlight PROVE state' = state
    BY <1>9 DEF ReadInFlight
  <1>10. ASSUME ReadSuperseded PROVE state' = state
    BY <1>10 DEF ReadSuperseded
  <1>11. ASSUME RetireDone PROVE state' = state
    BY <1>11 DEF RetireDone
  <1>12. ASSUME EndMonitor PROVE state' = state
    BY <1>12 DEF EndMonitor
  <1>13. ASSUME MonitorRaises PROVE state' = state
    BY <1>13 DEF MonitorRaises
  <1>14. ASSUME NEW view \in SUBSET Release, Inspect(view) PROVE state' = state
    BY <1>14 DEF Inspect
  <1>15. ASSUME NEW d \in Row, SeeMissing(d) PROVE state' = state
    BY <1>15 DEF SeeMissing
  <1>16. ASSUME NEW d \in Row, SeeMoving(d) PROVE state' = state
    BY <1>16 DEF SeeMoving
  <1>17. ASSUME NEW d \in Row, Retire(d) PROVE state' = state
    BY <1>17 DEF Retire, RemoveDownload
  <1>18. ASSUME NEW d \in Row, Fetched(d) PROVE state' = state
    BY <1>18 DEF Fetched
  <1>19. ASSUME NEW d \in Row, GraceElapses(d) PROVE state' = state
    BY <1>19 DEF GraceElapses
  <1>20. ASSUME NEW r \in Release, NEW how \in {"done", "errored"}, TorrentEnds(r, how)
       PROVE state' = state
    BY <1>20 DEF TorrentEnds
  <1>21. ASSUME NEW r \in Release, DeleteByHand(r) PROVE state' = state
    BY <1>21 DEF DeleteByHand
  <1>22. ASSUME NEW r \in Release, AddByHand(r) PROVE state' = state
    BY <1>22 DEF AddByHand
  <1>23. ASSUME Restart PROVE state' = state
    BY <1>23 DEF Restart
  <1>24. ASSUME ReadMissing PROVE state' = state
    BY <1>24 DEF ReadMissing
  <1>25. CASE UNCHANGED vars
    BY <1>25
  <1> HIDE DEF vars, storeVars, rowVars
  <1> QED
    BY Zenon, <1>1, <1>2, <1>3, <1>4, <1>5, <1>6, <1>7, <1>8, <1>9, <1>10,
       <1>11, <1>12, <1>13, <1>14, <1>15, <1>16, <1>17, <1>18, <1>19, <1>20,
       <1>21, <1>22, <1>23, <1>24, <1>25, Cases

\* A denied row is not cleared, so no coroutine holds it, and no button but
\* clear-history accepts it.
LEMMA DenialStep ==
    ASSUME TypeInv, Clearance, [Next]_vars, NEW d \in Row, state[d] = "denied"
    PROVE  state'[d] \in {"denied", "gone"}
  <1> USE DEF TypeInv, TypeOK, StoreTypeOK, Wellformed, DownloadState
  <1> USE DEF Clearance, Uncleared, SetState, Exists
  <1>0. d \notin cleared
    OBVIOUS
  <1>1. ASSUME NEW S \in SUBSET Row, Approve(S)
       PROVE state'[d] \in {"denied", "gone"}
    BY <1>1, <1>0 DEF Approve, ApproveMany
  <1>2. ASSUME NEW S \in SUBSET Row, Deny(S) PROVE state'[d] \in {"denied", "gone"}
    BY <1>2, <1>0 DEF Deny, DenyMany
  <1>3. ASSUME NEW e \in Row, Retry(e) PROVE state'[d] \in {"denied", "gone"}
    BY <1>3, <1>0 DEF Retry
  <1>4. ASSUME ClearHistory PROVE state'[d] \in {"denied", "gone"}
    BY <1>4, <1>0 DEF ClearHistory, PurgeHistory
  <1>5. ASSUME NEW e \in Row, NEW r \in Release,
              NEW gate \in BOOLEAN, NEW force \in BOOLEAN, Grab(e, r, gate, force)
       PROVE state'[d] \in {"denied", "gone"}
    BY <1>5, <1>0 DEF Grab
  <1>6. ASSUME NEW p \in Pass, Confirm(p) PROVE state'[d] \in {"denied", "gone"}
    BY <1>6, <1>0 DEF Confirm, RecordStarted
  <1>7. ASSUME NEW p \in Pass, GiveUp(p) PROVE state'[d] \in {"denied", "gone"}
    BY <1>7, <1>0 DEF GiveUp
  <1>8. ASSUME NEW p \in Pass, NEW e \in Row, Adopt(p, e)
       PROVE state'[d] \in {"denied", "gone"}
    BY <1>8, <1>0 DEF Adopt, Take, RecordStarted
  <1>9. ASSUME NEW p \in Pass, NEW e \in Row, NoRoom(p, e)
       PROVE state'[d] \in {"denied", "gone"}
    BY <1>9, <1>0 DEF NoRoom, Take
  <1>10. ASSUME NEW p \in Pass, NEW e \in Row, AddRaises(p, e)
       PROVE state'[d] \in {"denied", "gone"}
    BY <1>10, <1>0 DEF AddRaises, Take
  <1>11. ASSUME NEW e \in Row, SeeErrored(e) PROVE state'[d] \in {"denied", "gone"}
    BY <1>11, <1>0 DEF SeeErrored, Judged
  <1>12. ASSUME NEW e \in Row, SeeComplete(e) PROVE state'[d] \in {"denied", "gone"}
    BY <1>12, <1>0 DEF SeeComplete, Judged
  <1>13. ASSUME NEW e \in Row, Abandon(e) PROVE state'[d] \in {"denied", "gone"}
    BY <1>13, <1>0 DEF Abandon
  <1> HIDE DEF TypeInv, TypeOK, StoreTypeOK, Wellformed, DownloadState
  <1> HIDE DEF Clearance, Uncleared, SetState, Exists
  <1> QED
    BY <1>1, <1>2, <1>3, <1>4, <1>5, <1>6, <1>7, <1>8, <1>9, <1>10, <1>11,
       <1>12, <1>13, StateWriters

\* A denied row is never brought back, neither by a button nor by a coroutine
\* that read it before the denial (Downloads, DenialStands; api.py,
\* deny_downloads).
THEOREM DenialIsFinal == Spec => DenialStands
  <1>1. TypeInv /\ Clearance /\ [Next]_vars
        => [\A d \in Row : state[d] = "denied" => state'[d] \in {"denied", "gone"}]_vars
    BY DenialStep
  <1> QED
    BY <1>1, Cleared, PTL DEF Spec, DenialStands

\* RecordStarted stores the hash with the state, and no statement clears it.
LEMMA HashStep == TypeInv /\ HashKnown /\ [Next]_vars => HashKnown'
  <1> SUFFICES ASSUME TypeInv, HashKnown, [Next]_vars PROVE HashKnown'
    OBVIOUS
  <1> USE DEF TypeInv, TypeOK, StoreTypeOK, DownloadState, HashKnown, InFlight
  <1> USE DEF vars, storeVars, rowVars
  <1>1. ASSUME NEW S \in SUBSET Row, Approve(S) PROVE HashKnown'
    BY <1>1 DEF Approve, ApproveMany
  <1>2. ASSUME NEW S \in SUBSET Row, Deny(S) PROVE HashKnown'
    BY <1>2 DEF Deny, DenyMany
  <1>3. ASSUME NEW d \in Row, Retry(d) PROVE HashKnown'
    BY <1>3 DEF Retry, SetState, Exists, DownloadState
  <1>4. ASSUME NEW d \in Row, Remove(d) PROVE HashKnown'
    BY <1>4 DEF Remove, RemoveDownload
  <1>5. ASSUME ClearHistory PROVE HashKnown'
    BY <1>5 DEF ClearHistory, PurgeHistory
  <1>6. ASSUME NEW r \in Release, Unblock(r) PROVE HashKnown'
    BY <1>6 DEF Unblock
  <1>7. ASSUME NEW w \in Want, MarkSeen(w) PROVE HashKnown'
    BY <1>7 DEF MarkSeen
  <1>8. ASSUME NEW w \in Want, UnmarkSeen(w) PROVE HashKnown'
    BY <1>8 DEF UnmarkSeen
  <1>9. ASSUME NEW d \in Row, NEW r \in Release,
              NEW gate \in BOOLEAN, NEW force \in BOOLEAN, Grab(d, r, gate, force)
       PROVE HashKnown'
    BY <1>9 DEF Grab
  <1>10. ASSUME NEW p \in Pass, ReadQueue(p) PROVE HashKnown'
    BY <1>10 DEF ReadQueue, Queued
  <1>11. ASSUME NEW p \in Pass, EndPass(p) PROVE HashKnown'
    BY <1>11 DEF EndPass, Reset
  <1>12. ASSUME NEW p \in Pass, Confirm(p) PROVE HashKnown'
    BY <1>12 DEF Confirm, Backs, RecordStarted, SetHash, SetState, Exists
  <1>13. ASSUME NEW p \in Pass, GiveUp(p) PROVE HashKnown'
    BY <1>13 DEF GiveUp, Backs, SetState, Exists
  <1>14. ASSUME NEW p \in Pass, NEW view \in SUBSET Release, ListClient(p, view)
       PROVE HashKnown'
    BY <1>14 DEF ListClient
  <1>15. ASSUME NEW p \in Pass, NEW d \in Row, Adopt(p, d) PROVE HashKnown'
    BY <1>15 DEF Adopt, Take, RecordStarted, SetHash, SetState, Exists
  <1>16. ASSUME NEW p \in Pass, NEW d \in Row, NoRoom(p, d) PROVE HashKnown'
    BY <1>16 DEF NoRoom, Take, SetState, Exists
  <1>17. ASSUME NEW p \in Pass, NEW d \in Row, HandOver(p, d) PROVE HashKnown'
    BY <1>17 DEF HandOver, Take, ClientAdd, Land
  <1>18. ASSUME NEW p \in Pass, NEW d \in Row, AddRaises(p, d) PROVE HashKnown'
    BY <1>18 DEF AddRaises, Take, ClientAdd, Land, SetState, Exists
  <1>19. ASSUME ReadInFlight PROVE HashKnown'
    BY <1>19 DEF ReadInFlight, InFlight
  <1>20. ASSUME ReadSuperseded PROVE HashKnown'
    BY <1>20 DEF ReadSuperseded
  <1>21. ASSUME RetireDone PROVE HashKnown'
    BY <1>21 DEF RetireDone
  <1>22. ASSUME EndMonitor PROVE HashKnown'
    BY <1>22 DEF EndMonitor, ResetMonitor
  <1>23. ASSUME MonitorRaises PROVE HashKnown'
    BY <1>23 DEF MonitorRaises, ResetMonitor
  <1>24. ASSUME NEW view \in SUBSET Release, Inspect(view) PROVE HashKnown'
    BY <1>24 DEF Inspect
  <1>25. ASSUME NEW d \in Row, SeeMissing(d) PROVE HashKnown'
    BY <1>25 DEF SeeMissing, Judged
  <1>26. ASSUME NEW d \in Row, SeeMoving(d) PROVE HashKnown'
    BY <1>26 DEF SeeMoving, Judged, SetHash
  <1>27. ASSUME NEW d \in Row, SeeErrored(d) PROVE HashKnown'
    BY <1>27 DEF SeeErrored, Judged, SetHash, SetState, Exists
  <1>28. ASSUME NEW d \in Row, SeeComplete(d) PROVE HashKnown'
    BY <1>28 DEF SeeComplete, Judged, SetHash, SetState, Exists
  <1>29. ASSUME NEW d \in Row, Retire(d) PROVE HashKnown'
    BY <1>29 DEF Retire, RemoveDownload
  <1>30. ASSUME NEW d \in Row, Abandon(d) PROVE HashKnown'
    BY <1>30 DEF Abandon, SetState, Exists
  <1>31. ASSUME NEW d \in Row, Fetched(d) PROVE HashKnown'
    BY <1>31 DEF Fetched, Land
  <1>32. ASSUME NEW d \in Row, GraceElapses(d) PROVE HashKnown'
    BY <1>32 DEF GraceElapses
  <1>33. ASSUME NEW r \in Release, NEW how \in {"done", "errored"}, TorrentEnds(r, how)
       PROVE HashKnown'
    BY <1>33 DEF TorrentEnds
  <1>34. ASSUME NEW r \in Release, DeleteByHand(r) PROVE HashKnown'
    BY <1>34 DEF DeleteByHand
  <1>35. ASSUME NEW r \in Release, AddByHand(r) PROVE HashKnown'
    BY <1>35 DEF AddByHand
  <1>36. ASSUME Restart PROVE HashKnown'
    BY <1>36 DEF Restart, ResetMonitor
  <1>37. ASSUME ReadMissing PROVE HashKnown'
    BY <1>37 DEF ReadMissing
  <1>38. CASE UNCHANGED vars
    BY <1>38
  <1> HIDE DEF TypeInv, TypeOK, StoreTypeOK, DownloadState, HashKnown, InFlight
  <1> HIDE DEF vars, storeVars, rowVars
  <1> QED
    BY <1>1, <1>2, <1>3, <1>4, <1>5, <1>6, <1>7, <1>8, <1>9, <1>10, <1>11,
       <1>12, <1>13, <1>14, <1>15, <1>16, <1>17, <1>18, <1>19, <1>20, <1>21,
       <1>22, <1>23, <1>24, <1>25, <1>26, <1>27, <1>28, <1>29, <1>30, <1>31,
       <1>32, <1>33, <1>34, <1>35, <1>36, <1>37, <1>38, Cases

\* Every row in flight knows its info-hash, however it got there (Downloads,
\* HashKnown; queue.py, _dispatch_one).
THEOREM InFlightHasHash == Spec => []HashKnown
  <1>1. Init => TypeInv /\ HashKnown
    BY TypeInit DEF Init, StoreInit, HashKnown, InFlight
  <1>2. TypeInv /\ HashKnown /\ [Next]_vars => (TypeInv /\ HashKnown)'
    BY TypeStep, HashStep
  <1> QED
    BY <1>1, <1>2, PTL DEF Spec

\* What the dispatch pass at work holds, and what the monitor holds, stay apart.
LEMMA InHandStep ==
    ASSUME NoOverlap, TypeInv, InHand, [Next]_vars
    PROVE  InHand'
  <1> USE DEF TypeInv, TypeOK, StoreTypeOK, DownloadState, InHand
  <1> USE DEF vars, storeVars, rowVars, passVars, monVars
  \* Beside a pass at work the others are idle and hold nothing.
  <1>0. ASSUME NEW p \in Pass, pc[p] # "idle", NEW q \in Pass, q # p
        PROVE  pc[q] = "idle" /\ todo[q] = {}
    BY <1>0 DEF NoOverlap
  <1>1. ASSUME NEW S \in SUBSET Row, Approve(S) PROVE InHand'
    BY <1>1 DEF Approve, ApproveMany
  <1>2. ASSUME NEW S \in SUBSET Row, Deny(S) PROVE InHand'
    BY <1>2 DEF Deny, DenyMany
  <1>3. ASSUME NEW d \in Row, Retry(d) PROVE InHand'
    BY <1>3 DEF Retry, SetState, Exists, DownloadState
  <1>4. ASSUME NEW d \in Row, Remove(d) PROVE InHand'
    BY <1>4 DEF Remove, RemoveDownload
  <1>5. ASSUME ClearHistory PROVE InHand'
    BY <1>5 DEF ClearHistory, PurgeHistory
  <1>6. ASSUME NEW r \in Release, Unblock(r) PROVE InHand'
    BY <1>6 DEF Unblock
  <1>7. ASSUME NEW w \in Want, MarkSeen(w) PROVE InHand'
    BY <1>7 DEF MarkSeen
  <1>8. ASSUME NEW w \in Want, UnmarkSeen(w) PROVE InHand'
    BY <1>8 DEF UnmarkSeen
  <1>9. ASSUME NEW d \in Row, NEW r \in Release,
              NEW gate \in BOOLEAN, NEW force \in BOOLEAN, Grab(d, r, gate, force)
       PROVE InHand'
    BY <1>9 DEF Grab
  <1>10. ASSUME NEW p \in Pass, ReadQueue(p) PROVE InHand'
    BY <1>10 DEF ReadQueue, Queued
  <1>11. ASSUME NEW p \in Pass, EndPass(p) PROVE InHand'
    BY <1>11 DEF EndPass, Reset
  <1>12. ASSUME NEW p \in Pass, Confirm(p) PROVE InHand'
    <2>1. /\ pc[p] = "confirm" /\ pc' = [pc EXCEPT ![p] = "loop"]
          /\ \A e \in Row : e # cur[p] => state'[e] = state[e]
          /\ todo' = todo /\ verdict' = verdict /\ cur' = [cur EXCEPT ![p] = NoRow]
      BY <1>12 DEF Confirm, Backs, RecordStarted, SetState
    <2>2. \A q \in Pass : q # p => pc[q] = "idle" /\ todo[q] = {}
      BY <1>0, <2>1
    <2>3. cur[p] \notin todo[p] /\ (cur[p] \in Row => verdict[cur[p]] = "none")
      BY <2>1
    <2> QED
      BY <2>1, <2>2, <2>3
  <1>13. ASSUME NEW p \in Pass, GiveUp(p) PROVE InHand'
    BY <1>13 DEF GiveUp, Backs, SetState, Exists
  <1>14. ASSUME NEW p \in Pass, NEW view \in SUBSET Release, ListClient(p, view)
       PROVE InHand'
    BY <1>14 DEF ListClient
  <1>15. ASSUME NEW p \in Pass, NEW d \in Row, Adopt(p, d) PROVE InHand'
    <2>1. /\ pc[p] = "loop" /\ d \in todo[p] /\ todo' = [todo EXCEPT ![p] = @ \ {d}]
          /\ \A e \in Row : e # d => state'[e] = state[e]
          /\ pc' = pc /\ cur' = cur /\ verdict' = verdict
      BY <1>15 DEF Adopt, Take, RecordStarted, SetState
    <2>2. \A q \in Pass : q # p => pc[q] = "idle" /\ todo[q] = {}
      BY <1>0, <2>1
    <2>3. verdict[d] = "none"
      BY <2>1
    <2> QED
      BY <2>1, <2>2, <2>3
  <1>16. ASSUME NEW p \in Pass, NEW d \in Row, NoRoom(p, d) PROVE InHand'
    BY <1>16 DEF NoRoom, Take, SetState, Exists
  <1>17. ASSUME NEW p \in Pass, NEW d \in Row, HandOver(p, d) PROVE InHand'
    BY <1>17 DEF HandOver, Take, ClientAdd, Land
  <1>18. ASSUME NEW p \in Pass, NEW d \in Row, AddRaises(p, d) PROVE InHand'
    BY <1>18 DEF AddRaises, Take, ClientAdd, Land, SetState, Exists
  <1>19. ASSUME ReadInFlight PROVE InHand'
    BY <1>19 DEF ReadInFlight, InFlight
  <1>20. ASSUME ReadSuperseded PROVE InHand'
    BY <1>20 DEF ReadSuperseded
  <1>21. ASSUME RetireDone PROVE InHand'
    BY <1>21 DEF RetireDone
  <1>22. ASSUME EndMonitor PROVE InHand'
    BY <1>22 DEF EndMonitor, ResetMonitor
  <1>23. ASSUME MonitorRaises PROVE InHand'
    BY <1>23 DEF MonitorRaises, ResetMonitor
  <1>24. ASSUME NEW view \in SUBSET Release, Inspect(view) PROVE InHand'
    BY <1>24 DEF Inspect
  <1>25. ASSUME NEW d \in Row, SeeMissing(d) PROVE InHand'
    BY <1>25 DEF SeeMissing, Judged
  <1>26. ASSUME NEW d \in Row, SeeMoving(d) PROVE InHand'
    BY <1>26 DEF SeeMoving, Judged, SetHash
  <1>27. ASSUME NEW d \in Row, SeeErrored(d) PROVE InHand'
    BY <1>27 DEF SeeErrored, Judged, SetHash, SetState, Exists
  <1>28. ASSUME NEW d \in Row, SeeComplete(d) PROVE InHand'
    BY <1>28 DEF SeeComplete, Judged, SetHash, SetState, Exists
  <1>29. ASSUME NEW d \in Row, Retire(d) PROVE InHand'
    BY <1>29 DEF Retire, RemoveDownload
  <1>30. ASSUME NEW d \in Row, Abandon(d) PROVE InHand'
    BY <1>30 DEF Abandon, SetState, Exists
  <1>31. ASSUME NEW d \in Row, Fetched(d) PROVE InHand'
    BY <1>31 DEF Fetched, Land
  <1>32. ASSUME NEW d \in Row, GraceElapses(d) PROVE InHand'
    BY <1>32 DEF GraceElapses
  <1>33. ASSUME NEW r \in Release, NEW how \in {"done", "errored"}, TorrentEnds(r, how)
       PROVE InHand'
    BY <1>33 DEF TorrentEnds
  <1>34. ASSUME NEW r \in Release, DeleteByHand(r) PROVE InHand'
    BY <1>34 DEF DeleteByHand
  <1>35. ASSUME NEW r \in Release, AddByHand(r) PROVE InHand'
    BY <1>35 DEF AddByHand
  <1>36. ASSUME Restart PROVE InHand'
    BY <1>36 DEF Restart, ResetMonitor
  <1>37. ASSUME ReadMissing PROVE InHand'
    BY <1>37 DEF ReadMissing, MissingBeyond, InFlight
  <1>38. CASE UNCHANGED vars
    BY <1>38
  <1> HIDE DEF TypeInv, TypeOK, StoreTypeOK, DownloadState, InHand
  <1> HIDE DEF vars, storeVars, rowVars, passVars, monVars
  <1> QED
    BY <1>1, <1>2, <1>3, <1>4, <1>5, <1>6, <1>7, <1>8, <1>9, <1>10, <1>11,
       <1>12, <1>13, <1>14, <1>15, <1>16, <1>17, <1>18, <1>19, <1>20, <1>21,
       <1>22, <1>23, <1>24, <1>25, <1>26, <1>27, <1>28, <1>29, <1>30, <1>31,
       <1>32, <1>33, <1>34, <1>35, <1>36, <1>37, <1>38, Cases

\* Nobody holds a completed row, so nobody overwrites it.
LEMMA CompletedStep ==
    ASSUME TypeInv, InHand, [Next]_vars, NEW d \in Row, state[d] = "completed"
    PROVE  state'[d] = "completed"
  <1> USE DEF TypeInv, TypeOK, StoreTypeOK, Wellformed, InHand, SetState
  <1>1. ASSUME NEW S \in SUBSET Row, Approve(S) PROVE state'[d] = "completed"
    BY <1>1 DEF Approve, ApproveMany
  <1>2. ASSUME NEW S \in SUBSET Row, Deny(S) PROVE state'[d] = "completed"
    BY <1>2 DEF Deny, DenyMany
  <1>3. ASSUME NEW e \in Row, Retry(e) PROVE state'[d] = "completed"
    BY <1>3 DEF Retry
  <1>4. ASSUME ClearHistory PROVE state'[d] = "completed"
    BY <1>4 DEF ClearHistory, PurgeHistory
  <1>5. ASSUME NEW e \in Row, NEW r \in Release,
              NEW gate \in BOOLEAN, NEW force \in BOOLEAN, Grab(e, r, gate, force)
       PROVE state'[d] = "completed"
    BY <1>5 DEF Grab
  <1>6. ASSUME NEW p \in Pass, Confirm(p) PROVE state'[d] = "completed"
    BY <1>6 DEF Confirm, RecordStarted
  <1>7. ASSUME NEW p \in Pass, GiveUp(p) PROVE state'[d] = "completed"
    BY <1>7 DEF GiveUp
  <1>8. ASSUME NEW p \in Pass, NEW e \in Row, Adopt(p, e)
       PROVE state'[d] = "completed"
    BY <1>8 DEF Adopt, Take, RecordStarted
  <1>9. ASSUME NEW p \in Pass, NEW e \in Row, NoRoom(p, e)
       PROVE state'[d] = "completed"
    BY <1>9 DEF NoRoom, Take
  <1>10. ASSUME NEW p \in Pass, NEW e \in Row, AddRaises(p, e)
       PROVE state'[d] = "completed"
    BY <1>10 DEF AddRaises, Take
  <1>11. ASSUME NEW e \in Row, SeeErrored(e) PROVE state'[d] = "completed"
    BY <1>11 DEF SeeErrored, Judged
  <1>12. ASSUME NEW e \in Row, SeeComplete(e) PROVE state'[d] = "completed"
    BY <1>12 DEF SeeComplete, Judged
  <1>13. ASSUME NEW e \in Row, Abandon(e) PROVE state'[d] = "completed"
    BY <1>13 DEF Abandon
  <1> HIDE DEF TypeInv, TypeOK, StoreTypeOK, Wellformed, InHand, SetState
  <1> QED
    BY <1>1, <1>2, <1>3, <1>4, <1>5, <1>6, <1>7, <1>8, <1>9, <1>10, <1>11,
       <1>12, <1>13, StateWriters

\* As long as dispatch passes do not overlap, a completed download stays
\* completed, whatever a pass or the monitor still holds of it (Downloads,
\* CompletedIsFinal).
THEOREM CompletedStays == Spec /\ []NoOverlap => CompletedIsFinal
  <1>1. Init => TypeInv /\ InHand
    BY TypeInit DEF Init, InHand
  <1>2. NoOverlap /\ TypeInv /\ InHand /\ [Next]_vars => (TypeInv /\ InHand)'
    BY TypeStep, InHandStep
  <1>3. TypeInv /\ InHand /\ [Next]_vars
        => [\A d \in Row : state[d] = "completed" => state'[d] = "completed"]_vars
    BY CompletedStep
  <1> QED
    BY <1>1, <1>2, <1>3, PTL DEF Spec, CompletedIsFinal

-----------------------------------------------------------------------------
(* What the monitor retires *)

\* A row is inserted once and its release is never rewritten.
LEMMA RowsStay ==
    ASSUME TypeInv, [Next]_vars, NEW d \in Row, state[d] # "unborn"
    PROVE  state'[d] # "unborn" /\ rel'[d] = rel[d]
  <1> USE DEF vars, storeVars, rowVars
  <1> USE DEF TypeInv, TypeOK, StoreTypeOK, DownloadState, SetState, Exists
  <1>1. ASSUME NEW S \in SUBSET Row, Approve(S) \/ Deny(S)
        PROVE state'[d] # "unborn" /\ rel'[d] = rel[d]
    BY <1>1 DEF Approve, ApproveMany, Deny, DenyMany
  <1>2. ASSUME NEW e \in Row, Retry(e) \/ Remove(e)
        PROVE state'[d] # "unborn" /\ rel'[d] = rel[d]
    BY <1>2 DEF Retry, Remove, RemoveDownload
  <1>3. ASSUME ClearHistory PROVE state'[d] # "unborn" /\ rel'[d] = rel[d]
    BY <1>3 DEF ClearHistory, PurgeHistory
  <1>4. ASSUME NEW r \in Release, Unblock(r) PROVE state'[d] # "unborn" /\ rel'[d] = rel[d]
    BY <1>4 DEF Unblock
  <1>5. ASSUME NEW w \in Want, MarkSeen(w) \/ UnmarkSeen(w)
        PROVE state'[d] # "unborn" /\ rel'[d] = rel[d]
    BY <1>5 DEF MarkSeen, UnmarkSeen
  <1>6. ASSUME NEW e \in Row, NEW r \in Release,
              NEW gate \in BOOLEAN, NEW force \in BOOLEAN, Grab(e, r, gate, force)
        PROVE state'[d] # "unborn" /\ rel'[d] = rel[d]
    BY <1>6 DEF Grab
  <1>7. ASSUME NEW p \in Pass, ReadQueue(p) \/ EndPass(p)
        PROVE state'[d] # "unborn" /\ rel'[d] = rel[d]
    BY <1>7 DEF ReadQueue, EndPass
  <1>8. ASSUME NEW p \in Pass, Confirm(p) PROVE state'[d] # "unborn" /\ rel'[d] = rel[d]
    BY <1>8 DEF Confirm, RecordStarted
  <1>9. ASSUME NEW p \in Pass, GiveUp(p) PROVE state'[d] # "unborn" /\ rel'[d] = rel[d]
    BY <1>9 DEF GiveUp
  <1>10. ASSUME NEW p \in Pass, NEW view \in SUBSET Release, ListClient(p, view)
        PROVE state'[d] # "unborn" /\ rel'[d] = rel[d]
    BY <1>10 DEF ListClient
  <1>11. ASSUME NEW p \in Pass, NEW e \in Row, Adopt(p, e)
        PROVE state'[d] # "unborn" /\ rel'[d] = rel[d]
    BY <1>11 DEF Adopt, RecordStarted
  <1>12. ASSUME NEW p \in Pass, NEW e \in Row, NoRoom(p, e)
        PROVE state'[d] # "unborn" /\ rel'[d] = rel[d]
    BY <1>12 DEF NoRoom
  <1>13. ASSUME NEW p \in Pass, NEW e \in Row, HandOver(p, e) \/ AddRaises(p, e)
        PROVE state'[d] # "unborn" /\ rel'[d] = rel[d]
    BY <1>13 DEF HandOver, AddRaises
  <1>14. ASSUME \/ ReadInFlight \/ ReadSuperseded \/ RetireDone \/ ReadMissing
                \/ EndMonitor \/ MonitorRaises \/ Restart \/ UNCHANGED vars
        PROVE state'[d] # "unborn" /\ rel'[d] = rel[d]
    BY <1>14 DEF ReadInFlight, ReadSuperseded, RetireDone, ReadMissing, EndMonitor,
       MonitorRaises, Restart
  <1>15. ASSUME NEW view \in SUBSET Release, Inspect(view)
        PROVE state'[d] # "unborn" /\ rel'[d] = rel[d]
    BY <1>15 DEF Inspect
  <1>16. ASSUME NEW e \in Row, SeeMissing(e) \/ SeeMoving(e)
        PROVE state'[d] # "unborn" /\ rel'[d] = rel[d]
    BY <1>16 DEF SeeMissing, SeeMoving
  <1>17. ASSUME NEW e \in Row, SeeErrored(e) \/ SeeComplete(e) \/ Abandon(e)
        PROVE state'[d] # "unborn" /\ rel'[d] = rel[d]
    BY <1>17 DEF SeeErrored, SeeComplete, Abandon
  <1>18. ASSUME NEW e \in Row, Retire(e) PROVE state'[d] # "unborn" /\ rel'[d] = rel[d]
    BY <1>18 DEF Retire, RemoveDownload
  <1>19. ASSUME NEW e \in Row, Fetched(e) \/ GraceElapses(e)
        PROVE state'[d] # "unborn" /\ rel'[d] = rel[d]
    BY <1>19 DEF Fetched, GraceElapses
  <1>20. ASSUME NEW r \in Release, \/ DeleteByHand(r) \/ AddByHand(r)
                                   \/ \E how \in {"done", "errored"} : TorrentEnds(r, how)
        PROVE state'[d] # "unborn" /\ rel'[d] = rel[d]
    BY <1>20 DEF DeleteByHand, AddByHand, TorrentEnds
  <1> HIDE DEF vars, storeVars, rowVars
  <1> HIDE DEF TypeInv, TypeOK, StoreTypeOK, DownloadState, SetState, Exists
  <1> QED
    BY Zenon, <1>1, <1>2, <1>3, <1>4, <1>5, <1>6, <1>7, <1>8, <1>9, <1>10,
       <1>11, <1>12, <1>13, <1>14, <1>15, <1>16, <1>17, <1>18, <1>19, <1>20, Cases

\* Steps that leave alone what the monitor goes by, and archive no row.
Quiet ==
    /\ victims' \subseteq victims
    /\ keep' \in {keep, NoRow}
    /\ \A d \in Row : archived'[d] => archived[d]

\* What the monitor goes by is written by three of its own steps only, and only
\* two actions archive a row.
LEMMA MonitorWriters ==
    ASSUME TypeInv, [Next]_vars
    PROVE  \/ \E d \in Row : SeeComplete(d) \/ Retire(d) \/ Remove(d)
           \/ ReadSuperseded
           \/ Quiet
  <1> USE DEF vars, storeVars, rowVars, monVars, Quiet
  <1>1. ASSUME NEW S \in SUBSET Row, Approve(S) \/ Deny(S) PROVE Quiet
    BY <1>1 DEF Approve, Deny
  <1>2. ASSUME NEW e \in Row, Retry(e) PROVE Quiet
    BY <1>2 DEF Retry
  <1>3. ASSUME ClearHistory PROVE Quiet
    BY <1>3 DEF ClearHistory, PurgeHistory
  <1>4. ASSUME NEW r \in Release, Unblock(r) PROVE Quiet
    BY <1>4 DEF Unblock
  <1>5. ASSUME NEW w \in Want, MarkSeen(w) \/ UnmarkSeen(w) PROVE Quiet
    BY <1>5 DEF MarkSeen, UnmarkSeen
  <1>6. ASSUME NEW e \in Row, NEW r \in Release,
              NEW gate \in BOOLEAN, NEW force \in BOOLEAN, Grab(e, r, gate, force)
        PROVE Quiet
    BY <1>6 DEF Grab
  <1>7. ASSUME NEW p \in Pass, ReadQueue(p) \/ EndPass(p) \/ Confirm(p) \/ GiveUp(p)
        PROVE Quiet
    BY <1>7 DEF ReadQueue, EndPass, Confirm, RecordStarted, GiveUp
  <1>8. ASSUME NEW p \in Pass, NEW view \in SUBSET Release, ListClient(p, view) PROVE Quiet
    BY <1>8 DEF ListClient
  <1>9. ASSUME NEW p \in Pass, NEW e \in Row,
              Adopt(p, e) \/ NoRoom(p, e) \/ HandOver(p, e) \/ AddRaises(p, e)
        PROVE Quiet
    BY <1>9 DEF Adopt, RecordStarted, NoRoom, HandOver, AddRaises
  <1>10. ASSUME \/ ReadInFlight \/ RetireDone \/ ReadMissing
                \/ EndMonitor \/ MonitorRaises \/ Restart \/ UNCHANGED vars
         PROVE Quiet
    BY <1>10 DEF ReadInFlight, RetireDone, ReadMissing, EndMonitor, MonitorRaises,
       Restart, ResetMonitor
  <1>11. ASSUME NEW view \in SUBSET Release, Inspect(view) PROVE Quiet
    BY <1>11 DEF Inspect
  <1>12. ASSUME NEW e \in Row, SeeMissing(e) \/ SeeMoving(e) \/ SeeErrored(e) \/ Abandon(e)
         PROVE Quiet
    BY <1>12 DEF SeeMissing, SeeMoving, SeeErrored, Abandon
  <1>13. ASSUME NEW e \in Row, Fetched(e) \/ GraceElapses(e) PROVE Quiet
    BY <1>13 DEF Fetched, GraceElapses
  <1>14. ASSUME NEW r \in Release, \/ DeleteByHand(r) \/ AddByHand(r)
                                   \/ \E how \in {"done", "errored"} : TorrentEnds(r, how)
         PROVE Quiet
    BY <1>14 DEF DeleteByHand, AddByHand, TorrentEnds
  <1> HIDE DEF vars, storeVars, rowVars, monVars, Quiet
  <1> QED
    BY Zenon, <1>1, <1>2, <1>3, <1>4, <1>5, <1>6, <1>7, <1>8, <1>9, <1>10,
       <1>11, <1>12, <1>13, <1>14, Cases

\* Completed packs stay, and rows keep their releases, so what was read of them
\* holds until the last of the replaced rows is gone.
LEMMA ReplacingStep ==
    ASSUME TypeInv, InHand, Replacing, [Next]_vars
    PROVE  Replacing'
  <1> DEFINE Covered(d) ==
        /\ state[d] # "unborn"
        /\ Kind[rel[d]] = "episode"
        /\ \E e \in Row : /\ state[e] = "completed" /\ Kind[rel[e]] = "pack"
                          /\ Span[rel[e]] \cap Span[rel[d]] # {}
  <1>1. ASSUME NEW d \in Row, Covered(d) PROVE Covered(d)'
    <2>1. PICK e \in Row : /\ state[e] = "completed" /\ Kind[rel[e]] = "pack"
                           /\ Span[rel[e]] \cap Span[rel[d]] # {}
      BY <1>1
    <2>2. state'[e] = "completed" /\ rel'[e] = rel[e]
      BY <2>1, CompletedStep, RowsStay
    <2>3. state'[d] # "unborn" /\ rel'[d] = rel[d]
      BY <1>1, RowsStay
    <2> QED
      BY <1>1, <2>1, <2>2, <2>3
  <1>2. victims \subseteq Row /\ keep \in Row \cup {NoRow}
    BY DEF TypeInv, TypeOK
  <1>3. \A d \in victims : Covered(d)
    BY DEF Replacing
  <1>4. keep # NoRow => state'[keep] = "completed"
    BY <1>2, CompletedStep DEF Replacing
  <1>5. ASSUME victims' \subseteq victims, keep' \in {keep, NoRow} PROVE Replacing'
    BY <1>1, <1>2, <1>3, <1>4, <1>5 DEF Replacing
  <1>6. ASSUME NEW d \in Row, SeeComplete(d) PROVE Replacing'
    <2>1. state[d] = "downloading"
      BY <1>6 DEF SeeComplete, Judged, InHand
    <2>2. state'[d] = "completed"
      BY <1>6, <2>1 DEF SeeComplete, SetState, Exists, DownloadState, TypeInv, TypeOK,
         StoreTypeOK
    <2>3. keep' = d /\ victims' = victims
      BY <1>6 DEF SeeComplete
    <2> QED
      BY <1>1, <1>2, <1>3, <2>2, <2>3 DEF Replacing
  <1>7. ASSUME NEW d \in Row, Retire(d) \/ Remove(d) PROVE Replacing'
    BY <1>5, <1>7 DEF Retire, Remove, monVars
  <1>8. CASE ReadSuperseded
    <2>1. keep \in Row /\ state[keep] = "completed"
      BY <1>2, <1>8 DEF ReadSuperseded, Replacing
    <2>2. \A d \in victims' : d \in Row /\ Covered(d)
      BY <1>8, <2>1 DEF ReadSuperseded, Superseded
    <2>3. keep' = NoRow
      BY <1>8 DEF ReadSuperseded
    <2> QED
      BY <1>1, <2>2, <2>3 DEF Replacing
  <1> QED
    BY <1>5, <1>6, <1>7, <1>8, MonitorWriters DEF Quiet

\* As long as dispatch passes do not overlap, nothing is taken out of the client
\* unasked but the singles a completed pack replaces, for any number of rows,
\* packs and seasons (Downloads, RetiresOnlySuperseded).
THEOREM RetiresOnlyReplaced == Spec /\ []NoOverlap => RetiresOnlySuperseded
  <1>1. Init => TypeInv /\ InHand /\ Replacing
    BY TypeInit DEF Init, InHand, Replacing
  <1>2. NoOverlap /\ TypeInv /\ InHand /\ Replacing /\ [Next]_vars
        => (TypeInv /\ InHand /\ Replacing)'
    BY TypeStep, InHandStep, ReplacingStep
  <1>3. ASSUME TypeInv, InHand, Replacing, [Next]_vars, NEW d \in Row,
               archived'[d], ~archived[d], acts' = acts
        PROVE  /\ Kind[rel[d]] = "episode"
               /\ \E e \in Row : /\ state[e] = "completed" /\ Kind[rel[e]] = "pack"
                                 /\ Span[rel[e]] \cap Span[rel[d]] # {}
    <2>1. PICK e \in Row : Retire(e)
      <3>1. ASSUME NEW e \in Row, SeeComplete(e) PROVE FALSE
        BY <1>3, <3>1 DEF SeeComplete
      <3>2. ASSUME NEW e \in Row, Remove(e) PROVE FALSE
        BY <1>3, <3>2 DEF Remove, Act, TypeInv, TypeOK
      <3>3. ~ ReadSuperseded
        BY <1>3 DEF ReadSuperseded, storeVars, rowVars
      <3> QED
        BY <1>3, <3>1, <3>2, <3>3, MonitorWriters DEF Quiet
    <2>2. d = e
      <3>1. Exists(e)
        BY <1>3, <2>1 DEF Retire, storeVars, rowVars
      <3> QED
        BY <1>3, <2>1, <3>1 DEF Retire, RemoveDownload, Archive, TypeInv, TypeOK, StoreTypeOK
    <2>3. d \in victims
      BY <2>1, <2>2 DEF Retire
    <2> QED
      BY <1>3, <2>3 DEF Replacing
  <1>4. TypeInv /\ InHand /\ Replacing /\ [Next]_vars
        => [\A d \in Row : archived'[d] /\ ~archived[d] /\ acts' = acts =>
              /\ Kind[rel[d]] = "episode"
              /\ \E e \in Row : /\ state[e] = "completed" /\ Kind[rel[e]] = "pack"
                                /\ Span[rel[e]] \cap Span[rel[d]] # {}]_vars
    BY <1>3
  <1> QED
    BY <1>1, <1>2, <1>4, PTL DEF Spec, RetiresOnlySuperseded

=============================================================================
