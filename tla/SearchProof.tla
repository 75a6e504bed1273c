----------------------------- MODULE SearchProof -----------------------------
(***************************************************************************)
(* Proofs about module Search, for every set of searches, titles, wants,   *)
(* releases and trackers and every policy: a release never has two rows, a *)
(* want that is marked has a row behind it, no task takes a release that   *)
(* was denied before it looked, no episode is left out behind a missing    *)
(* pack, and every variable keeps its type.                                *)
(***************************************************************************)
EXTENDS Search, PlannerProof, SequenceTheorems, TLAPS

\* The types these proofs need; what a target is does not matter to them.
SearchTypes ==
    /\ state \in [Row -> DownloadState \cup {"unborn", "gone"}]
    /\ rel \in [Row -> Release \cup {NoRelease}]
    /\ want \in [Want -> WantedState]
    /\ blocked \in SUBSET Release
    /\ phase \in [Searcher -> {"idle", "read", "busy"}]
    /\ rows \in [Searcher -> SUBSET Want]
    /\ known \in [Searcher -> SUBSET Release]
    /\ barred \in [Searcher -> SUBSET Release]
    /\ wpc \in [Worker -> {"idle", "start", "ask", "check", "insert", "mark", "miss"}]
    /\ pick \in [Worker -> Release \cup {NoRelease}]
    /\ left \in [Worker -> SUBSET Want]
    /\ \A d \in Row : state[d] # "unborn" => rel[d] \in Release

Inv == SearchTypes /\ Snapshots /\ Holdings

\* At first nobody searches and there is no row.
LEMMA InvInit == Init => Inv
  BY DEF Init, StoreInit, Inv, SearchTypes, Snapshots, Holdings, Worker, WantedState

\* The next-state relation, action by action.
LEMMA Cases ==
    ASSUME [Next]_vars
    PROVE  \/ \E s \in Searcher : RunSearch(s) \/ ReadKnown(s) \/ EndSearch(s)
           \/ \E s \in Searcher, t \in Title : SearchNow(s, t)
           \/ \E k \in Worker :
                \/ StartWorker(k) \/ Answer(k) \/ Check(k) \/ Insert(k)
                \/ \E w \in Want : Mark(k, w) \/ RecordMiss(k, w)
           \/ \E S \in SUBSET Row : Deny(S)
           \/ \E d \in Row : Lose(d)
           \/ ClearHistory
           \/ Restart
           \/ UNCHANGED vars
  BY Zenon DEF Next, Searching, Work, Environment

\* Both ways to start a search take wants that are among the ones it may take.
LEMMA Starts ==
    ASSUME NEW s \in Searcher, RunSearch(s) \/ \E t \in Title : SearchNow(s, t)
    PROVE  \E W \in SUBSET Want : ReadWants(s, W)
  <1>1. DueForSearch(s) \in SUBSET Want
    BY SearchAssumption DEF DueForSearch
  <1>2. \A t \in Title : Outstanding(t) \in SUBSET Want
    BY DEF Outstanding
  <1> QED
    BY <1>1, <1>2 DEF RunSearch, SearchNow

\* The winner, if there is one, is a release that some tracker may offer.
LEMMA Answers ==
    ASSUME SearchTypes, NEW k \in Worker, Answer(k)
    PROVE  \/ \E r \in Candidates(k, Release, {}) : /\ r \in Release
                                                    /\ pick' = [pick EXCEPT ![k] = r]
                                                    /\ wpc' = [wpc EXCEPT ![k] = "check"]
           \/ pick' = pick /\ wpc' = [wpc EXCEPT ![k] = "miss"]
  <1>1. \A posted \in SUBSET Release, down \in SUBSET Indexer :
            /\ Candidates(k, posted, down) \subseteq Candidates(k, Release, {})
            /\ Candidates(k, posted, down) \subseteq Release
    BY DEF Candidates, PoolSearch
  <1> QED
    BY <1>1 DEF Answer

\* The row an insert takes is one that did not exist.
LEMMA FreshRow ==
    ASSUME \E e \in Row : state[e] = "unborn"
    PROVE  /\ (CHOOSE e \in Row : state[e] = "unborn") \in Row
           /\ state[CHOOSE e \in Row : state[e] = "unborn"] = "unborn"
  OBVIOUS

\* An insert that the index lets through makes one row, for the winner.
LEMMA Inserts ==
    ASSUME SearchTypes, NEW k \in Worker, Insert(k)
    PROVE  \/ UNCHANGED <<state, rel>> /\ wpc' = [wpc EXCEPT ![k] = "idle"]
              /\ pick' = [pick EXCEPT ![k] = NoRelease]
              /\ left' = [left EXCEPT ![k] = {}]
           \/ /\ ByRelease(pick[k]) = {}
              /\ \E d \in Row, i \in {"pending", "queued"} :
                    /\ state[d] = "unborn"
                    /\ state' = [state EXCEPT ![d] = i]
                    /\ rel' = [rel EXCEPT ![d] = pick[k]]
              /\ wpc' = [wpc EXCEPT ![k] = "mark"]
              /\ UNCHANGED <<pick, left>>
  BY FreshRow DEF Insert, rowVars

\* A search that is done with a target forgets its winner.
LEMMA FoundIs ==
    ASSUME SearchTypes, NEW k \in Worker, Found(k)
    PROVE  /\ known' = [known EXCEPT ![k[1]] = @ \cup {pick[k]}]
           /\ pick' = [pick EXCEPT ![k] = NoRelease]
           /\ \E i \in {"idle", "ask"} : wpc' = [wpc EXCEPT ![k] = i]
  BY DEF Found, NextTarget

\* A winner that is counted as acted on is a release.
LEMMA FoundType ==
    ASSUME SearchTypes, NEW k \in Worker, Found(k), pick[k] \in Release
    PROVE  /\ known' \in [Searcher -> SUBSET Release]
           /\ pick' \in [Worker -> Release \cup {NoRelease}]
           /\ wpc' \in [Worker -> {"idle", "start", "ask", "check", "insert", "mark", "miss"}]
  <1>1. k[1] \in Searcher
    BY DEF Worker
  <1>2. known' \in [Searcher -> SUBSET Release]
    BY <1>1, FoundIs DEF SearchTypes
  <1>3. pick' \in [Worker -> Release \cup {NoRelease}]
    BY FoundIs DEF SearchTypes
  <1>4. wpc' \in [Worker -> {"idle", "start", "ask", "check", "insert", "mark", "miss"}]
    BY FoundIs DEF SearchTypes
  <1> QED
    BY <1>2, <1>3, <1>4

-----------------------------------------------------------------------------
(* Types *)

\* No search, person or restart leaves the types.
LEMMA TypesStep == SearchTypes /\ Holdings /\ [Next]_vars => SearchTypes'
  <1> SUFFICES ASSUME SearchTypes, Holdings, [Next]_vars PROVE SearchTypes'
    OBVIOUS
  <1> USE DEF SearchTypes, Worker
  <1> USE DEF vars, storeVars, rowVars, searchVars, workVars
  <1>1. ASSUME NEW s \in Searcher, NEW W \in SUBSET Want, ReadWants(s, W)
       PROVE SearchTypes'
    BY <1>1 DEF ReadWants
  <1>2. ASSUME NEW s \in Searcher, ReadKnown(s) PROVE SearchTypes'
    <2>1. KnownReleases \subseteq Release
      BY DEF KnownReleases, Exists, DownloadState
    <2> QED
      BY <1>2, <2>1 DEF ReadKnown
  <1>3. ASSUME NEW s \in Searcher, EndSearch(s) PROVE SearchTypes'
    BY <1>3 DEF EndSearch
  <1>4. ASSUME NEW k \in Worker, StartWorker(k)
       PROVE SearchTypes'
    BY <1>4 DEF StartWorker
  <1>5. ASSUME NEW k \in Worker, Answer(k) PROVE SearchTypes'
    <2>1. AffectedWants(k, Current(k)) \in SUBSET Want
      BY DEF AffectedWants, Mine
    <2>2. /\ pick' \in [Worker -> Release \cup {NoRelease}]
          /\ wpc' \in [Worker -> {"idle", "start", "ask", "check", "insert", "mark", "miss"}]
      <3>1. CASE pick' = pick /\ wpc' = [wpc EXCEPT ![k] = "miss"]
        BY <3>1
      <3>2. CASE \E r \in Release : /\ pick' = [pick EXCEPT ![k] = r]
                                     /\ wpc' = [wpc EXCEPT ![k] = "check"]
        BY <3>2
      <3> HIDE DEF SearchTypes, Worker
      <3> QED
        BY <1>5, <3>1, <3>2, Answers
    <2>3. /\ UNCHANGED <<state, rel, want, blocked, phase, rows, known, barred>>
          /\ left' \in [Worker -> SUBSET Want]
      BY <1>5, <2>1 DEF Answer
    <2> QED
      BY <2>2, <2>3
  <1>6. ASSUME NEW k \in Worker, Check(k) PROVE SearchTypes'
    <2>1. pick[k] \in Release
      BY <1>6 DEF Check, Holdings
    <2>2. CASE Found(k)
      BY <1>6, <2>1, <2>2, FoundType DEF Check, Found
    <2>3. CASE ~Found(k)
      BY <1>6, <2>3 DEF Check
    <2> QED
      BY <2>2, <2>3
  <1>7. ASSUME NEW k \in Worker, Insert(k) PROVE SearchTypes'
    <2>1. UNCHANGED <<want, blocked, phase, rows, known, barred>>
      BY <1>7 DEF Insert
    <2>2. pick[k] \in Release
      BY <1>7 DEF Insert, Holdings
    <2>3. UNCHANGED <<state, rel>> \/ \E d \in Row, i \in {"pending", "queued"} :
            /\ state' = [state EXCEPT ![d] = i]
            /\ rel' = [rel EXCEPT ![d] = pick[k]]
      BY <1>7, Inserts
    <2>4. /\ wpc' \in [Worker -> {"idle", "start", "ask", "check", "insert", "mark", "miss"}]
          /\ pick' \in [Worker -> Release \cup {NoRelease}]
          /\ left' \in [Worker -> SUBSET Want]
      BY <1>7, Inserts
    <2>5. /\ state' \in [Row -> DownloadState \cup {"unborn", "gone"}]
          /\ rel' \in [Row -> Release \cup {NoRelease}]
      <3>1. {"pending", "queued"} \subseteq DownloadState
        BY DEF DownloadState
      <3> QED
        BY <2>2, <2>3, <3>1
    <2>6. \A d \in Row : state'[d] # "unborn" => rel'[d] \in Release
      BY <2>2, <2>3
    <2> QED
      BY <2>1, <2>4, <2>5, <2>6
  <1>8. ASSUME NEW k \in Worker, NEW w \in Want, Mark(k, w)
       PROVE SearchTypes'
    <2>1. pick[k] \in Release
      BY <1>8 DEF Mark, Holdings
    <2>2. want' \in [Want -> WantedState] /\ left' \in [Worker -> SUBSET Want]
      BY <1>8 DEF Mark, SetWant, WantedState
    <2>3. CASE Found(k)
      BY <1>8, <2>1, <2>2, <2>3, FoundType DEF Mark
    <2>4. CASE ~Found(k)
      BY <1>8, <2>2, <2>4 DEF Mark
    <2> QED
      BY <2>3, <2>4
  <1>9. ASSUME NEW k \in Worker, NEW w \in Want, RecordMiss(k, w)
       PROVE SearchTypes'
    BY <1>9 DEF RecordMiss, NextTarget, SetWant, WantedState
  <1>10. ASSUME NEW S \in SUBSET Row, Deny(S) PROVE SearchTypes'
    <2>1. {rel[d] : d \in {e \in S : Exists(e)}} \subseteq Release
      BY DEF Exists, DownloadState
    <2> QED
      BY <1>10, <2>1 DEF Deny, DenyMany, DownloadState
  <1>11. ASSUME NEW d \in Row, Lose(d) PROVE SearchTypes'
    BY <1>11 DEF Lose, SetState, SetWant, DownloadState, WantedState
  <1>12. ASSUME ClearHistory PROVE SearchTypes'
    BY <1>12 DEF ClearHistory, PurgeHistory
  <1>13. ASSUME Restart PROVE SearchTypes'
    BY <1>13 DEF Restart
  <1>14. CASE UNCHANGED vars
    BY <1>14
  <1> HIDE DEF SearchTypes, Worker
  <1> HIDE DEF vars, storeVars, rowVars, searchVars, workVars
  <1> QED
    BY Zenon, <1>1, <1>2, <1>3, <1>4, <1>5, <1>6, <1>7, <1>8, <1>9, <1>10, <1>11,
       <1>12, <1>13, <1>14, Cases, Starts

-----------------------------------------------------------------------------
(* One row per release *)

\* The unique index refuses the second row; no other statement makes a row or
\* changes the release of one.
LEMMA OneRowStep ==
    ASSUME SearchTypes, OneRowPerRelease, [Next]_vars
    PROVE  OneRowPerRelease'
  <1> USE DEF SearchTypes, OneRowPerRelease, ByRelease, Exists
  <1> USE DEF vars, storeVars, rowVars
  <1>1. ASSUME rel' = rel, \A d \in Row : Exists(d)' => Exists(d)
       PROVE OneRowPerRelease'
    BY <1>1
  <1>2. ASSUME NEW s \in Searcher, NEW W \in SUBSET Want, ReadWants(s, W)
       PROVE OneRowPerRelease'
    BY <1>2 DEF ReadWants
  <1>3. ASSUME NEW s \in Searcher, ReadKnown(s) \/ EndSearch(s)
       PROVE OneRowPerRelease'
    BY <1>3 DEF ReadKnown, EndSearch
  <1>4. ASSUME NEW k \in Worker, StartWorker(k) \/ Answer(k) \/ Check(k)
       PROVE OneRowPerRelease'
    BY <1>4 DEF StartWorker, Answer, Check
  <1>5. ASSUME NEW k \in Worker, Insert(k) PROVE OneRowPerRelease'
    <2>1. CASE UNCHANGED <<state, rel>>
      BY <2>1
    <2>2. CASE /\ ByRelease(pick[k]) = {}
               /\ \E d \in Row, i \in {"pending", "queued"} :
                    /\ state[d] = "unborn"
                    /\ state' = [state EXCEPT ![d] = i]
                    /\ rel' = [rel EXCEPT ![d] = pick[k]]
      <3>1. PICK d \in Row : /\ state[d] = "unborn"
                             /\ rel' = [rel EXCEPT ![d] = pick[k]]
                             /\ \E i \in {"pending", "queued"} :
                                    state' = [state EXCEPT ![d] = i]
        BY <2>2
      <3>2. rel'[d] = pick[k]
        BY <3>1
      <3>3. \A e \in Row \ {d} : rel'[e] = rel[e] /\ state'[e] = state[e]
        BY <3>1
      <3>4. \A e \in Row \ {d} : Exists(e) => rel[e] # pick[k]
        BY <2>2
      <3>5. ASSUME NEW e \in Row, NEW f \in Row, Exists(e)', Exists(f)',
                  rel'[e] = rel'[f]
           PROVE e = f
        <4>1. CASE e = d \/ f = d
          BY <4>1, <3>2, <3>3, <3>4, <3>5
        <4>2. CASE e # d /\ f # d
          <5>1. Exists(e) /\ Exists(f) /\ rel[e] = rel[f] /\ rel[e] \in Release
            BY <4>2, <3>3, <3>5 DEF DownloadState
          <5> QED
            BY <5>1
        <4> QED
          BY <4>1, <4>2
      <3> QED
        BY <3>5
    <2> QED
      BY <1>5, <2>1, <2>2, Inserts
  <1>6. ASSUME NEW k \in Worker, NEW w \in Want, Mark(k, w) \/ RecordMiss(k, w)
       PROVE OneRowPerRelease'
    BY <1>6 DEF Mark, RecordMiss
  <1>7. ASSUME NEW S \in SUBSET Row, Deny(S) PROVE OneRowPerRelease'
    BY <1>7, <1>1 DEF Deny, DenyMany, DownloadState
  <1>8. ASSUME NEW d \in Row, Lose(d) PROVE OneRowPerRelease'
    BY <1>8, <1>1 DEF Lose, SetState, DownloadState
  <1>9. ASSUME ClearHistory PROVE OneRowPerRelease'
    BY <1>9, <1>1 DEF ClearHistory, PurgeHistory, DownloadState
  <1>10. CASE Restart \/ UNCHANGED vars
    BY <1>10 DEF Restart
  <1> HIDE DEF SearchTypes, OneRowPerRelease, ByRelease, Exists
  <1> HIDE DEF vars, storeVars, rowVars
  <1> QED
    BY Zenon, <1>2, <1>3, <1>4, <1>5, <1>6, <1>7, <1>8, <1>9, <1>10, Cases, Starts

-----------------------------------------------------------------------------
(* What searches and their workers hold *)

\* A search is busy while it has workers, and only ever adds to what it knows.
LEMMA SnapshotsStep ==
    ASSUME SearchTypes, Snapshots, Holdings, [Next]_vars
    PROVE  Snapshots'
  <1> USE DEF SearchTypes, Snapshots, Worker
  <1> USE DEF vars, storeVars, rowVars, searchVars, workVars
  <1>1. ASSUME NEW k \in Worker, wpc[k] # "idle", NEW i, wpc' = [wpc EXCEPT ![k] = i],
              UNCHANGED searchVars
       PROVE Snapshots'
    BY <1>1
  <1>2. ASSUME NEW s \in Searcher, NEW W \in SUBSET Want, ReadWants(s, W)
       PROVE Snapshots'
    BY <1>2 DEF ReadWants
  <1>3. ASSUME NEW s \in Searcher, ReadKnown(s) PROVE Snapshots'
    BY <1>3 DEF ReadKnown, KnownReleases
  <1>4. ASSUME NEW s \in Searcher, EndSearch(s) PROVE Snapshots'
    BY <1>4 DEF EndSearch
  <1>5. ASSUME NEW k \in Worker, StartWorker(k) \/ Answer(k) PROVE Snapshots'
    BY <1>5, <1>1 DEF StartWorker, Answer
  <1>6. ASSUME NEW k \in Worker, Found(k), wpc[k] # "idle", UNCHANGED <<phase, rows, barred>>
       PROVE Snapshots'
    BY <1>6, FoundIs
  <1>7. ASSUME NEW k \in Worker, Check(k) PROVE Snapshots'
    BY <1>7, <1>6, <1>1 DEF Check
  <1>8. ASSUME NEW k \in Worker, Insert(k) PROVE Snapshots'
    BY <1>8, <1>1 DEF Insert
  <1>9. ASSUME NEW k \in Worker, NEW w \in Want, Mark(k, w) PROVE Snapshots'
    BY <1>9, <1>6 DEF Mark
  <1>10. ASSUME NEW k \in Worker, NEW w \in Want, RecordMiss(k, w) PROVE Snapshots'
    BY <1>10, <1>1 DEF RecordMiss, NextTarget
  <1>11. CASE (\E S \in SUBSET Row : Deny(S)) \/ (\E d \in Row : Lose(d)) \/ ClearHistory
    BY <1>11 DEF Deny, Lose, ClearHistory
  <1>12. CASE Restart \/ UNCHANGED vars
    BY <1>12 DEF Restart
  <1> HIDE DEF SearchTypes, Snapshots, Worker
  <1> HIDE DEF vars, storeVars, rowVars, searchVars, workVars
  <1> QED
    BY Zenon, <1>2, <1>3, <1>4, <1>5, <1>7, <1>8, <1>9, <1>10, <1>11, <1>12,
       Cases, Starts

\* A row, once inserted, is there or is gone for ever, and keeps its release.
Stays(d) == state'[d] # "unborn" /\ rel'[d] = rel[d]

LEMMA RowsStay ==
    ASSUME SearchTypes, [Next]_vars, NEW d \in Row, state[d] # "unborn"
    PROVE  Stays(d)
  <1> USE DEF SearchTypes, Stays
  <1> USE DEF vars, storeVars, rowVars
  <1>1. ASSUME NEW s \in Searcher, NEW W \in SUBSET Want, ReadWants(s, W) PROVE Stays(d)
    BY <1>1 DEF ReadWants
  <1>2. ASSUME NEW s \in Searcher, ReadKnown(s) \/ EndSearch(s) PROVE Stays(d)
    BY <1>2 DEF ReadKnown, EndSearch
  <1>3. ASSUME NEW k \in Worker, StartWorker(k) \/ Answer(k) \/ Check(k) PROVE Stays(d)
    BY <1>3 DEF StartWorker, Answer, Check
  <1>4. ASSUME NEW k \in Worker, Insert(k) PROVE Stays(d)
    <2>1. \/ UNCHANGED <<state, rel>>
          \/ \E e \in Row, i \in {"pending", "queued"} :
                /\ state[e] = "unborn"
                /\ state' = [state EXCEPT ![e] = i]
                /\ rel' = [rel EXCEPT ![e] = pick[k]]
      BY <1>4, Inserts
    <2> QED
      BY <2>1
  <1>5. ASSUME NEW k \in Worker, NEW w \in Want, Mark(k, w) \/ RecordMiss(k, w)
       PROVE Stays(d)
    BY <1>5 DEF Mark, RecordMiss
  <1>6. ASSUME NEW S \in SUBSET Row, Deny(S) PROVE Stays(d)
    BY <1>6 DEF Deny, DenyMany
  <1>7. ASSUME NEW e \in Row, Lose(e) PROVE Stays(d)
    BY <1>7 DEF Lose, SetState
  <1>8. ASSUME ClearHistory PROVE Stays(d)
    BY <1>8 DEF ClearHistory, PurgeHistory
  <1>9. CASE Restart \/ UNCHANGED vars
    BY <1>9 DEF Restart
  <1> HIDE DEF SearchTypes, Stays
  <1> HIDE DEF vars, storeVars, rowVars
  <1> QED
    BY Zenon, <1>1, <1>2, <1>3, <1>4, <1>5, <1>6, <1>7, <1>8, <1>9, Cases, Starts

\* What worker k holds.
Holds(k) ==
    wpc[k] \in {"check", "insert", "mark"} =>
        /\ pick[k] \in Release
        /\ \E v \in Span[pick[k]] : v[1] = k[2]
        /\ \A w \in left[k] : w[1] = k[2]
        /\ wpc[k] = "mark" => \E d \in Row : state[d] # "unborn" /\ rel[d] = pick[k]

\* A winner is a release that matches the worker's title, and the wants it would
\* settle are wants of that title; marking starts when the row is in.
LEMMA HoldingsStep ==
    ASSUME SearchTypes, Holdings, [Next]_vars
    PROVE  Holdings'
  <1> SUFFICES ASSUME NEW j \in Worker PROVE Holds(j)'
    BY DEF Holdings, Holds
  <1>0. Holds(j)
    BY DEF Holdings, Holds
  <1>1. ASSUME wpc'[j] = wpc[j], pick'[j] = pick[j], left'[j] \subseteq left[j]
       PROVE Holds(j)'
    <2>1. \A d \in Row : state[d] # "unborn" => state'[d] # "unborn" /\ rel'[d] = rel[d]
      BY RowsStay DEF Stays
    <2> QED
      BY <1>0, <1>1, <2>1 DEF Holds
  <1>2. ASSUME wpc'[j] \notin {"check", "insert", "mark"} PROVE Holds(j)'
    BY <1>2 DEF Holds
  <1> USE DEF SearchTypes
  <1> USE DEF vars, storeVars, rowVars, searchVars, workVars
  <1>3. ASSUME NEW s \in Searcher, NEW W \in SUBSET Want, ReadWants(s, W)
       PROVE Holds(j)'
    BY <1>3, <1>1 DEF ReadWants
  <1>4. ASSUME NEW s \in Searcher, ReadKnown(s) \/ EndSearch(s) PROVE Holds(j)'
    BY <1>4, <1>1, <1>2 DEF ReadKnown, EndSearch
  <1>5. ASSUME NEW k \in Worker, StartWorker(k) PROVE Holds(j)'
    BY <1>5, <1>1, <1>2 DEF StartWorker
  <1>6. ASSUME NEW k \in Worker, Answer(k) PROVE Holds(j)'
    <2>1. CASE k # j
      BY <1>6, <2>1, <1>1 DEF Answer
    <2>2. CASE k = j
      <3>1. \A w \in left'[j] : w[1] = j[2]
        BY <1>6, <2>2 DEF Answer, AffectedWants, Mine
      <3>2. CASE wpc'[j] = "miss"
        BY <3>2, <1>2
      <3>3. CASE \E r \in Release : /\ MatchesTarget(r, j[2], Current(j))
                                    /\ pick'[j] = r /\ wpc'[j] = "check"
        <4>1. \E v \in Span[pick'[j]] : v[1] = j[2]
          BY <3>3 DEF MatchesTarget
        <4> QED
          BY <3>1, <3>3, <4>1 DEF Holds
      <3> QED
        BY <1>6, <2>2, <3>2, <3>3 DEF Answer, Candidates, PoolSearch
    <2> QED
      BY <2>1, <2>2
  <1>7. ASSUME NEW k \in Worker, Found(k), \A i \in Worker \ {k} : left'[i] = left[i]
       PROVE Holds(j)'
    BY <1>7, <1>1, <1>2, FoundIs
  <1>8. ASSUME NEW k \in Worker, Check(k) PROVE Holds(j)'
    <2>1. CASE Found(k)
      BY <1>8, <2>1, <1>7 DEF Check
    <2>2. CASE wpc[k] = "check" /\ wpc' = [wpc EXCEPT ![k] = "insert"] /\ UNCHANGED <<pick, left>>
      BY <2>2, <1>0, <1>1 DEF Holds
    <2> QED
      BY <1>8, <2>1, <2>2 DEF Check
  <1>9. ASSUME NEW k \in Worker, Insert(k) PROVE Holds(j)'
    <2>1. CASE k # j
      <3>1. wpc'[j] = wpc[j] /\ pick'[j] = pick[j] /\ left'[j] = left[j]
        BY <1>9, <2>1, Inserts
      <3> QED
        BY <3>1, <1>1
    <2>2. CASE k = j /\ wpc'[j] = "idle"
      BY <2>2, <1>2
    <2>3. CASE /\ k = j
               /\ \E d \in Row, i \in {"pending", "queued"} :
                    /\ state' = [state EXCEPT ![d] = i]
                    /\ rel' = [rel EXCEPT ![d] = pick[k]]
               /\ UNCHANGED <<pick, left>>
      <3>1. \E d \in Row : state'[d] # "unborn" /\ rel'[d] = pick'[j]
        BY <2>3
      <3>2. wpc[j] = "insert"
        BY <1>9, <2>3 DEF Insert
      <3> QED
        BY <2>3, <3>1, <3>2, <1>0 DEF Holds
    <2> QED
      BY <1>9, <2>1, <2>2, <2>3, Inserts
  <1>10. ASSUME NEW k \in Worker, NEW w \in Want, Mark(k, w) PROVE Holds(j)'
    <2>1. CASE Found(k)
      BY <1>10, <2>1, <1>7 DEF Mark
    <2>2. CASE UNCHANGED <<wpc, pick>>
      BY <1>10, <2>2, <1>1 DEF Mark
    <2> QED
      BY <1>10, <2>1, <2>2 DEF Mark
  <1>11. ASSUME NEW k \in Worker, NEW w \in Want, RecordMiss(k, w) PROVE Holds(j)'
    BY <1>11, <1>1, <1>2 DEF RecordMiss, NextTarget
  <1>12. CASE (\E S \in SUBSET Row : Deny(S)) \/ (\E d \in Row : Lose(d)) \/ ClearHistory
    BY <1>12, <1>1 DEF Deny, Lose, ClearHistory
  <1>13. CASE Restart
    BY <1>13, <1>2 DEF Restart
  <1>14. CASE UNCHANGED vars
    BY <1>14, <1>1
  <1> HIDE DEF SearchTypes
  <1> HIDE DEF vars, storeVars, rowVars, searchVars, workVars
  <1> QED
    BY Zenon, <1>3, <1>4, <1>5, <1>6, <1>8, <1>9, <1>10, <1>11, <1>12, <1>13, <1>14,
       Cases, Starts

\* The three parts of the invariant hold together.
LEMMA InvStep == Inv /\ [Next]_vars => Inv'
  BY TypesStep, SnapshotsStep, HoldingsStep DEF Inv

-----------------------------------------------------------------------------
(* Theorems *)

\* However many searches run at once, over whatever trackers, a release gets one
\* row (Search, OneRowPerRelease).
THEOREM OneRow == Spec => []OneRowPerRelease
  <1>1. Init => Inv /\ OneRowPerRelease
    BY InvInit DEF Init, StoreInit, OneRowPerRelease, ByRelease, Exists, DownloadState
  <1>2. Inv /\ OneRowPerRelease /\ [Next]_vars => (Inv /\ OneRowPerRelease)'
    BY InvStep, OneRowStep DEF Inv
  <1> QED
    BY <1>1, <1>2, PTL DEF Spec

\* Only a worker that holds a row for a release of its title marks wants grabbed.
LEMMA GrabbedStep ==
    ASSUME Inv, GrabbedHasRow, [Next]_vars
    PROVE  GrabbedHasRow'
  <1> SUFFICES ASSUME NEW w \in Want, want'[w] = "grabbed"
               PROVE  \E d \in Row : /\ state[d] # "unborn"
                                     /\ \E v \in Span[rel[d]] : v[1] = w[1]
    BY RowsStay DEF Stays, GrabbedHasRow, Inv
  <1>1. CASE want[w] = "grabbed"
    BY <1>1 DEF GrabbedHasRow
  <1>2. ASSUME NEW k \in Worker, Mark(k, w)
       PROVE  \E d \in Row : state[d] # "unborn" /\ \E v \in Span[rel[d]] : v[1] = w[1]
    BY <1>2 DEF Mark, Inv, Holdings
  <1> USE DEF Inv, SearchTypes, vars, storeVars, rowVars
  <1>3. ASSUME NEW s \in Searcher, NEW W \in SUBSET Want, ReadWants(s, W)
       PROVE want'[w] = want[w]
    BY <1>3 DEF ReadWants
  <1>4. ASSUME NEW s \in Searcher, ReadKnown(s) \/ EndSearch(s) PROVE want'[w] = want[w]
    BY <1>4 DEF ReadKnown, EndSearch
  <1>5. ASSUME NEW k \in Worker, StartWorker(k) \/ Answer(k) \/ Check(k) \/ Insert(k)
       PROVE want'[w] = want[w]
    BY <1>5 DEF StartWorker, Answer, Check, Insert
  <1>6. ASSUME NEW k \in Worker, NEW u \in Want, Mark(k, u), u # w
       PROVE want'[w] = want[w]
    BY <1>6 DEF Mark, SetWant
  <1>7. ASSUME NEW k \in Worker, NEW u \in Want, RecordMiss(k, u)
       PROVE want'[w] = want[w]
    BY <1>7 DEF RecordMiss, SetWant
  <1>8. ASSUME NEW d \in Row, Lose(d) PROVE want'[w] = want[w]
    BY <1>8 DEF Lose, SetWant
  <1>9. CASE (\E S \in SUBSET Row : Deny(S)) \/ ClearHistory \/ Restart \/ UNCHANGED vars
    BY <1>9, <1>1 DEF Deny, ClearHistory, PurgeHistory, Restart
  <1> HIDE DEF Inv, SearchTypes, vars, storeVars, rowVars
  <1> QED
    BY Zenon, <1>1, <1>2, <1>3, <1>4, <1>5, <1>6, <1>7, <1>8, <1>9, Cases, Starts

\* A want that counts as grabbed has a row behind it (Search, GrabbedHasRow).
THEOREM GrabbedIsBacked == Spec => []GrabbedHasRow
  <1>1. Init => Inv /\ GrabbedHasRow
    BY InvInit DEF Init, StoreInit, GrabbedHasRow
  <1>2. Inv /\ GrabbedHasRow /\ [Next]_vars => (Inv /\ GrabbedHasRow)'
    BY InvStep, GrabbedStep DEF Inv
  <1> QED
    BY <1>1, <1>2, PTL DEF Spec

\* A task takes no winner it knows, and it knows what was blocked when it looked.
LEMMA DeniedStep ==
    ASSUME Inv, DeniedStaysOut, [Next]_vars
    PROVE  DeniedStaysOut'
  <1> DEFINE Out(j) == j[1] \notin Button /\ wpc[j] \in {"check", "insert", "mark"}
                          => pick[j] \notin barred[j[1]]
  <1> SUFFICES ASSUME NEW j \in Worker PROVE Out(j)'
    BY DEF DeniedStaysOut
  <1>0. Out(j) /\ j[1] \in Searcher
    BY DEF DeniedStaysOut, Worker
  <1>1. ASSUME wpc'[j] = wpc[j], pick'[j] = pick[j], barred'[j[1]] = barred[j[1]]
       PROVE Out(j)'
    BY <1>0, <1>1
  <1>2. ASSUME wpc'[j] \notin {"check", "insert", "mark"} PROVE Out(j)'
    BY <1>2
  <1> HIDE DEF Out
  <1> USE DEF Inv, SearchTypes
  <1> USE DEF vars, storeVars, rowVars, searchVars, workVars
  <1>3. ASSUME NEW s \in Searcher, NEW W \in SUBSET Want, ReadWants(s, W)
       PROVE Out(j)'
    BY <1>3, <1>1 DEF ReadWants
  <1>4. ASSUME NEW s \in Searcher, ReadKnown(s) PROVE Out(j)'
    <2>1. CASE j[1] = s
      BY <1>4, <2>1, <1>0, <1>2 DEF ReadKnown, Snapshots
    <2>2. CASE j[1] # s
      BY <1>4, <2>2, <1>0, <1>1 DEF ReadKnown
    <2> QED
      BY <2>1, <2>2
  <1>5. ASSUME NEW s \in Searcher, EndSearch(s) PROVE Out(j)'
    <2>1. CASE j[1] = s
      BY <1>5, <2>1, <1>0, <1>2 DEF EndSearch
    <2>2. CASE j[1] # s
      BY <1>5, <2>2, <1>0, <1>1 DEF EndSearch
    <2> QED
      BY <2>1, <2>2
  <1>6. ASSUME NEW k \in Worker, StartWorker(k) PROVE Out(j)'
    BY <1>6, <1>1, <1>2 DEF StartWorker
  <1>7. ASSUME NEW k \in Worker, Answer(k) PROVE Out(j)'
    <2>1. CASE k # j
      BY <1>7, <2>1, <1>1 DEF Answer
    <2>2. CASE k = j /\ wpc'[j] = "miss"
      BY <2>2, <1>2
    <2>3. CASE k = j /\ \E r \in Candidates(j, Release, {}) : pick'[j] = r
      <3>1. j[1] \notin Button => pick'[j] \notin known[j[1]]
        BY <2>3 DEF Candidates
      <3>2. barred[j[1]] \subseteq known[j[1]] /\ barred' = barred
        BY <1>7, <1>0 DEF Answer, Snapshots
      <3> QED
        BY <3>1, <3>2 DEF Out
    <2> QED
      BY <1>7, <2>1, <2>2, <2>3, Answers
  <1>8. ASSUME NEW k \in Worker, Found(k), barred' = barred PROVE Out(j)'
    BY <1>8, <1>1, <1>2, FoundIs
  <1>9. ASSUME NEW k \in Worker, wpc[k] \in {"check", "insert"}, NEW i,
              wpc' = [wpc EXCEPT ![k] = i], pick' = pick, barred' = barred
       PROVE Out(j)'
    BY <1>9, <1>0 DEF Out
  <1>10. ASSUME NEW k \in Worker, Check(k) PROVE Out(j)'
    BY <1>10, <1>8, <1>9 DEF Check
  <1>11. ASSUME NEW k \in Worker, Insert(k) PROVE Out(j)'
    <2>1. CASE wpc' = [wpc EXCEPT ![k] = "mark"] /\ pick' = pick
      BY <1>11, <2>1, <1>9 DEF Insert
    <2>2. CASE wpc' = [wpc EXCEPT ![k] = "idle"] /\ pick' = [pick EXCEPT ![k] = NoRelease]
      BY <1>11, <2>2, <1>1, <1>2 DEF Insert
    <2> QED
      BY <1>11, <2>1, <2>2, Inserts
  <1>12. ASSUME NEW k \in Worker, NEW w \in Want, Mark(k, w) PROVE Out(j)'
    BY <1>12, <1>1, <1>8 DEF Mark
  <1>13. ASSUME NEW k \in Worker, NEW w \in Want, RecordMiss(k, w) PROVE Out(j)'
    BY <1>13, <1>1, <1>2 DEF RecordMiss, NextTarget
  <1>14. CASE (\E S \in SUBSET Row : Deny(S)) \/ (\E d \in Row : Lose(d)) \/ ClearHistory
    BY <1>14, <1>1 DEF Deny, Lose, ClearHistory
  <1>15. CASE Restart
    BY <1>15, <1>2 DEF Restart
  <1>16. CASE UNCHANGED vars
    BY <1>16, <1>1
  <1> HIDE DEF Inv, SearchTypes
  <1> HIDE DEF vars, storeVars, rowVars, searchVars, workVars
  <1> QED
    BY Zenon, <1>3, <1>4, <1>5, <1>6, <1>7, <1>10, <1>11, <1>12, <1>13, <1>14, <1>15,
       <1>16, Cases, Starts

\* What a person has denied stays denied (Search, DeniedStaysOut).
THEOREM DeniedIsKept == Spec => []DeniedStaysOut
  <1>1. Init => Inv /\ DeniedStaysOut
    BY InvInit DEF Init, DeniedStaysOut, Worker
  <1>2. Inv /\ DeniedStaysOut /\ [Next]_vars => (Inv /\ DeniedStaysOut)'
    BY InvStep, DeniedStep
  <1> QED
    BY <1>1, <1>2, PTL DEF Spec

-----------------------------------------------------------------------------
(* The targets of a worker *)

\* The types of the variables that the proofs above do without.
WorkTypes ==
    /\ queue \in [Worker -> Seq(TargetType)]
    /\ tried \in [Worker -> SUBSET Want]

\* Wants are rows of titles, with a season and an episode that are 0 for NULL.
LEMMA WantParts ==
    ASSUME NEW w \in Want
    PROVE  /\ w[1] \in Title /\ w[2] \in Nat /\ w[3] \in Nat
           /\ Season(Key(w)) = w[2] /\ Number(Key(w)) = w[3] /\ Key(w) \in Nat \X Nat
  BY SearchAssumption DEF Key, Season, Number

\* The keys of some wants are finitely many.
LEMMA KeysFinite ==
    ASSUME NEW W \in SUBSET Want
    PROVE  /\ {Key(w) : w \in W} \in SUBSET (Nat \X Nat) /\ IsFiniteSet({Key(w) : w \in W})
           /\ Episodes(W) \in SUBSET EpisodeKeys /\ IsFiniteSet(Episodes(W))
  <1>1. IsFiniteSet(W)
    BY SearchAssumption, FS_Subset
  <1>2. ASSUME NEW V \in SUBSET W PROVE IsFiniteSet({Key(w) : w \in V})
    <2>1. IsFiniteSet(V)
      BY <1>1, FS_Subset
    <2>2. [w \in V |-> Key(w)] \in Surjection(V, {Key(w) : w \in V})
      BY DEF Surjection
    <2> QED
      BY <2>1, <2>2, FS_Surjection
  <1>3. {Key(w) : w \in W} \in SUBSET (Nat \X Nat)
    BY WantParts
  <1>4. Episodes(W) \in SUBSET EpisodeKeys
    <2> SUFFICES ASSUME NEW w \in W, w[3] # 0 PROVE Key(w) \in EpisodeKeys
      BY DEF Episodes
    <2> QED
      BY WantParts DEF Key, EpisodeKeys
  <1> QED
    BY <1>2, <1>3, <1>4 DEF Episodes

\* A target that looks for the key of a want of mine would satisfy the want.
LEMMA LooksIsAffected ==
    ASSUME SearchTypes, NEW k \in Worker, NEW w \in Mine(k), NEW t, LooksFor(t, Key(w))
    PROVE  w \in AffectedWants(k, t)
  <1>1. w \in Want
    BY DEF Mine, SearchTypes, Worker
  <1> QED
    BY <1>1, WantParts DEF AffectedWants, LooksFor

\* The targets of a title are at least one, and each episode that was taken is
\* ahead of the worker.
LEMMA TargetsLook ==
    ASSUME SearchTypes, NEW k \in Worker, Mine(k) # {}
    PROVE  /\ TargetsFor(k) \in Seq(TargetType) /\ TargetsFor(k) # <<>>
           /\ \A w \in Mine(k) : w[3] # 0 =>
                \E i \in DOMAIN TargetsFor(k) : w \in AffectedWants(k, TargetsFor(k)[i])
  <1>1. Mine(k) \in SUBSET Want
    BY DEF Mine, SearchTypes, Worker
  <1>2. CASE IsMovie(k[2])
    <2>1. TargetsFor(k) = <<Target(0, 0, 1)>>
      BY <1>2 DEF TargetsFor
    <2>2. Target(0, 0, 1) \in TargetType /\ Target(0, 0, 1).season = 0
      BY DEF Target, TargetType
    <2>3. \A w \in Mine(k) : w \in AffectedWants(k, Target(0, 0, 1))
      BY <2>2 DEF AffectedWants
    <2> QED
      BY <2>1, <2>2, <2>3
  <1>3. CASE ~IsMovie(k[2]) /\ Episodes(Mine(k)) # {}
    <2> DEFINE plan == PlanGrabTargets(Episodes(Mine(k)), Policy)
    <2>1. TargetsFor(k) = plan
      BY <1>3 DEF TargetsFor
    <2>2. /\ plan \in Seq(TargetType)
          /\ \A e \in Episodes(Mine(k)) : \E i \in DOMAIN plan : LooksFor(plan[i], e)
      BY <1>1, KeysFinite, EachLookedForOnce
    <2> HIDE DEF plan
    <2>3. plan # <<>>
      BY <1>3, <2>2
    <2>4. ASSUME NEW w \in Mine(k), w[3] # 0
          PROVE  \E i \in DOMAIN plan : w \in AffectedWants(k, plan[i])
      <3>1. Key(w) \in Episodes(Mine(k))
        BY <2>4 DEF Episodes
      <3> QED
        BY <2>2, <3>1, LooksIsAffected
    <2> QED
      BY <2>1, <2>2, <2>3, <2>4
  <1>4. CASE ~IsMovie(k[2]) /\ Episodes(Mine(k)) = {}
    <2> DEFINE keys == {Key(w) : w \in Mine(k)}
               n == Cardinality(keys)
    <2>1. keys \in SUBSET (Nat \X Nat) /\ IsFiniteSet(keys) /\ keys # {}
      BY <1>1, KeysFinite
    <2>2. keys \in SUBSET AllKeys
      BY <2>1 DEF AllKeys
    <2> HIDE DEF keys
    <2>3. n \in Nat \ {0}
      BY <2>1, FS_CardinalityType, FS_EmptySet
    <2>4. DOMAIN InOrder(keys) = 1..n /\ \A i \in 1..n : InOrder(keys)[i] \in keys
      BY <2>1, <2>2, InOrderLists
    <2>5. TargetsFor(k) = [i \in 1..n |-> Target(Season(InOrder(keys)[i]), 0, 1)]
      BY <1>4, <2>4 DEF TargetsFor, keys
    <2>6. \A i \in 1..n : Target(Season(InOrder(keys)[i]), 0, 1) \in TargetType
      BY <2>1, <2>4 DEF Target, TargetType, Season
    <2> HIDE DEF n
    <2>7. TargetsFor(k) \in Seq(TargetType) /\ TargetsFor(k) # <<>>
      BY <2>3, <2>5, <2>6
    <2>8. \A w \in Mine(k) : w[3] = 0
      BY <1>4 DEF Episodes
    <2> QED
      BY <2>7, <2>8
  <1> QED
    BY <1>2, <1>3, <1>4

\* The searches that take the place of a pack nobody has look for all of its
\* episodes.
LEMMA FallbackLooks ==
    ASSUME SearchTypes, NEW k \in Worker
    PROVE  /\ Fallback(k) \in Seq(TargetType)
           /\ ~IsPack(Current(k)) => Fallback(k) = <<>>
           /\ IsPack(Current(k)) => \A w \in AffectedWants(k, Current(k)) : w[3] # 0 =>
                \E i \in DOMAIN Fallback(k) : w \in AffectedWants(k, Fallback(k)[i])
  <1> DEFINE W == AffectedWants(k, Current(k))
             rest == Singles(Episodes(W))
  <1>1. W \subseteq Mine(k) /\ W \in SUBSET Want
    BY DEF AffectedWants, Mine, SearchTypes, Worker
  <1>2. CASE ~IsPack(Current(k))
    BY <1>2, EmptySeq DEF Fallback
  <1>3. CASE IsPack(Current(k))
    <2>1. Fallback(k) = rest
      BY <1>3 DEF Fallback
    <2>2. Episodes(W) \in SUBSET (Nat \X Nat) /\ IsFiniteSet(Episodes(W))
      BY <1>1, KeysFinite DEF EpisodeKeys
    <2>3. /\ rest \in Seq(TargetType)
          /\ \A e \in Episodes(W) : \E i \in DOMAIN rest : LooksFor(rest[i], e)
      BY <2>2, SinglesLook
    <2> HIDE DEF rest, W
    <2>4. ASSUME NEW w \in W, w[3] # 0
          PROVE  \E i \in DOMAIN rest : w \in AffectedWants(k, rest[i])
      <3>1. Key(w) \in Episodes(W) /\ w \in Mine(k)
        BY <1>1, <2>4 DEF Episodes
      <3> QED
        BY <2>3, <3>1, LooksIsAffected
    <2> QED
      BY <1>3, <2>1, <2>3, <2>4 DEF W
  <1> QED
    BY <1>2, <1>3

\* Going on to the next target drops the current one, and nothing else.
LEMMA NextDrops ==
    ASSUME WorkTypes, NEW k \in Worker, queue[k] # <<>>,
           NEW rest \in Seq(TargetType), NextTarget(k, rest)
    PROVE  /\ \E q \in Seq(TargetType) : queue' = [queue EXCEPT ![k] = q]
           /\ \A i \in DOMAIN queue[k] :
                \/ queue[k][i] = Current(k)
                \/ \E j \in DOMAIN queue'[k] : queue'[k][j] = queue[k][i]
           /\ \A i \in DOMAIN rest : \E j \in DOMAIN queue'[k] : queue'[k][j] = rest[i]
           /\ wpc' = [wpc EXCEPT ![k] = IF queue'[k] = <<>> THEN "idle" ELSE "ask"]
  <1> DEFINE old == queue[k]
             q == Tail(old) \o rest
  <1>1. old \in Seq(TargetType)
    BY DEF WorkTypes
  <1> HIDE DEF old
  <1>2. /\ Tail(old) \in Seq(TargetType) /\ Len(Tail(old)) = Len(old) - 1
        /\ \A i \in 1..Len(Tail(old)) : Tail(old)[i] = old[i + 1]
    BY <1>1, HeadTailProperties DEF old
  <1>3. /\ q \in Seq(TargetType) /\ Len(q) = Len(old) - 1 + Len(rest)
        /\ \A i \in 1..(Len(old) - 1 + Len(rest)) :
              q[i] = IF i <= Len(old) - 1 THEN Tail(old)[i] ELSE rest[i - (Len(old) - 1)]
    <2> DEFINE tl == Tail(old)
    <2>1. tl \in Seq(TargetType) /\ Len(tl) = Len(old) - 1
      BY <1>2
    <2> HIDE DEF tl
    <2>2. /\ tl \o rest \in Seq(TargetType) /\ Len(tl \o rest) = Len(tl) + Len(rest)
          /\ \A i \in 1..Len(tl) + Len(rest) :
                (tl \o rest)[i] = IF i <= Len(tl) THEN tl[i] ELSE rest[i - Len(tl)]
      BY <2>1, ConcatProperties
    <2> QED
      BY <2>1, <2>2 DEF tl
  <1>4. /\ DOMAIN old = 1..Len(old) /\ DOMAIN rest = 1..Len(rest) /\ DOMAIN q = 1..Len(q)
        /\ Len(old) \in Nat \ {0} /\ Len(rest) \in Nat
    BY <1>1, <1>3, LenProperties, EmptySeq DEF old
  <1>5. queue' = [queue EXCEPT ![k] = q]
        /\ wpc' = [wpc EXCEPT ![k] = IF q = <<>> THEN "idle" ELSE "ask"]
    BY DEF NextTarget, old
  <1>6. queue'[k] = q
    BY <1>5 DEF WorkTypes
  <1> HIDE DEF q
  <1>7. ASSUME NEW i \in DOMAIN old, i # 1
        PROVE  \E j \in DOMAIN q : q[j] = old[i]
    <2>1. i - 1 \in 1..Len(Tail(old)) /\ i - 1 \in DOMAIN q /\ i - 1 <= Len(old) - 1
      BY <1>2, <1>3, <1>4, <1>7
    <2>2. q[i - 1] = Tail(old)[i - 1] /\ Tail(old)[i - 1] = old[i]
      BY <1>2, <1>3, <1>4, <2>1
    <2> QED
      BY <2>1, <2>2
  <1>8. ASSUME NEW i \in DOMAIN rest
        PROVE  \E j \in DOMAIN q : q[j] = rest[i]
    <2>1. i + (Len(old) - 1) \in DOMAIN q
      BY <1>3, <1>4
    <2>2. q[i + (Len(old) - 1)] = rest[i]
      BY <1>3, <1>4, <2>1
    <2> QED
      BY <2>1, <2>2
  <1>9. old[1] = Current(k)
    BY <1>1, <1>4 DEF Current, old
  <1> QED
    BY <1>3, <1>5, <1>6, <1>7, <1>8, <1>9 DEF old

-----------------------------------------------------------------------------
(* Nothing is left out *)

\* Each episode that worker k took is done with or ahead of it.
Accounted(k) == \A w \in Mine(k) : w[3] # 0 => w \in tried[k] \/ Ahead(k, w)

\* What Coverage says of worker k.
Covers(k) ==
    /\ wpc[k] # "idle" => Mine(k) # {}
    /\ wpc[k] \notin {"idle", "start"} => queue[k] # <<>> /\ Accounted(k)
    /\ wpc[k] = "miss" /\ ~IsPack(Current(k)) =>
        AffectedWants(k, Current(k)) \subseteq left[k] \cup tried[k]

\* When the current target is dropped, its episodes being done with or looked for
\* by the targets that are added, every episode is still accounted for.
LEMMA TargetDone ==
    ASSUME WorkTypes, NEW k \in Worker, Covers(k), wpc[k] \notin {"idle", "start"},
           NEW rest \in Seq(TargetType), NextTarget(k, rest), rows' = rows,
           tried[k] \subseteq tried'[k],
           \A w \in AffectedWants(k, Current(k)) : w[3] # 0 =>
                \/ w \in tried'[k]
                \/ \E i \in DOMAIN rest : w \in AffectedWants(k, rest[i])
    PROVE  Accounted(k)'
  <1>1. queue[k] # <<>> /\ Accounted(k)
    BY DEF Covers
  <1>2. Mine(k)' = Mine(k) /\ \A t : AffectedWants(k, t)' = AffectedWants(k, t)
    BY DEF Mine, AffectedWants
  <1>3. ASSUME NEW w \in Mine(k), w[3] # 0
        PROVE  w \in tried'[k] \/ Ahead(k, w)'
    <2>1. CASE w \in tried'[k]
      BY <2>1
    <2>2. CASE \E i \in DOMAIN rest : w \in AffectedWants(k, rest[i])
      BY <1>1, <1>2, <2>2, NextDrops DEF Ahead
    <2>3. CASE w \notin AffectedWants(k, Current(k)) /\ Ahead(k, w)
      <3>1. PICK i \in DOMAIN queue[k] : w \in AffectedWants(k, queue[k][i])
        BY <2>3 DEF Ahead
      <3>2. PICK j \in DOMAIN queue'[k] : queue'[k][j] = queue[k][i]
        BY <1>1, <2>3, <3>1, NextDrops
      <3> QED
        BY <1>2, <3>1, <3>2 DEF Ahead
    <2> QED
      BY <1>1, <1>3, <2>1, <2>2, <2>3 DEF Accounted
  <1> QED
    BY <1>2, <1>3 DEF Accounted

\* So it is when a winner was found ...
LEMMA FoundAccounts ==
    ASSUME WorkTypes, NEW k \in Worker, Covers(k), wpc[k] \in {"check", "mark"},
           Found(k), rows' = rows
    PROVE  Accounted(k)'
  <1>1. <<>> \in Seq(TargetType) /\ NextTarget(k, <<>>)
    BY EmptySeq DEF Found
  <1>2. tried'[k] = tried[k] \cup AffectedWants(k, Current(k))
    BY DEF Found, WorkTypes
  <1> QED
    BY <1>1, <1>2, TargetDone

\* ... and when the miss of the last want of a target was recorded.
LEMMA MissAccounts ==
    ASSUME SearchTypes, WorkTypes, NEW k \in Worker, Covers(k), NEW w \in Want,
           RecordMiss(k, w), left[k] = {w}
    PROVE  Accounted(k)'
  <1>1. wpc[k] = "miss" /\ rows' = rows /\ NextTarget(k, Fallback(k))
    BY DEF RecordMiss, searchVars
  <1>2. tried' = IF IsPack(Current(k)) THEN tried
                 ELSE [tried EXCEPT ![k] = @ \cup {w}]
    BY DEF RecordMiss
  <1>3. Fallback(k) \in Seq(TargetType) /\ tried[k] \subseteq tried'[k]
    BY <1>2, FallbackLooks DEF WorkTypes
  <1>4. ASSUME NEW v \in AffectedWants(k, Current(k)), v[3] # 0
        PROVE  \/ v \in tried'[k]
               \/ \E i \in DOMAIN Fallback(k) : v \in AffectedWants(k, Fallback(k)[i])
    <2>1. CASE IsPack(Current(k))
      BY <1>4, <2>1, FallbackLooks
    <2>2. CASE ~IsPack(Current(k))
      <3>1. v \in {w} \cup tried[k]
        BY <1>1, <1>4, <2>2 DEF Covers
      <3> QED
        BY <1>2, <2>2, <3>1 DEF WorkTypes
    <2> QED
      BY <2>1, <2>2
  <1> QED
    BY <1>1, <1>3, <1>4, TargetDone

\* The invariant about what is ahead survives every step.
LEMMA CoverageStep ==
    ASSUME Inv, WorkTypes, Coverage, [Next]_vars
    PROVE  Coverage'
  <1> SUFFICES ASSUME NEW j \in Worker PROVE Covers(j)'
    BY DEF Coverage, Covers, Accounted
  <1>0. Covers(j) /\ SearchTypes /\ Snapshots /\ j[1] \in Searcher
    BY DEF Coverage, Covers, Accounted, Inv, Worker
  <1>1. ASSUME rows'[j[1]] = rows[j[1]]
        PROVE  Mine(j)' = Mine(j) /\ \A t : AffectedWants(j, t)' = AffectedWants(j, t)
    BY <1>1 DEF Mine, AffectedWants
  <1>2. ASSUME wpc'[j] = wpc[j] \/ (wpc[j] \notin {"idle", "start"} /\ wpc'[j] # "miss"),
               rows'[j[1]] = rows[j[1]], queue'[j] = queue[j], tried'[j] = tried[j],
               wpc[j] = "miss" => left'[j] = left[j]
        PROVE  Covers(j)'
    <2>1. (IsPack(Current(j)) <=> IsPack(Current(j))') /\ Current(j)' = Current(j)
      BY <1>2 DEF Current, IsPack
    <2>2. Accounted(j) <=> Accounted(j)'
      BY <1>1, <1>2 DEF Accounted, Ahead
    <2> QED
      BY <1>0, <1>1, <1>2, <2>1, <2>2 DEF Covers
  <1>3. ASSUME wpc'[j] = "idle" PROVE Covers(j)'
    BY <1>3 DEF Covers
  <1>4. ASSUME NEW rest \in Seq(TargetType), NextTarget(j, rest), rows' = rows,
               wpc[j] \notin {"idle", "start"}, Accounted(j)'
        PROVE  Covers(j)'
    <2>1. wpc' = [wpc EXCEPT ![j] = IF queue'[j] = <<>> THEN "idle" ELSE "ask"]
      BY <1>0, <1>4, NextDrops DEF Covers
    <2>2. wpc'[j] = IF queue'[j] = <<>> THEN "idle" ELSE "ask"
      BY <1>0, <2>1 DEF SearchTypes
    <2> QED
      BY <1>0, <1>1, <1>4, <2>2 DEF Covers
  <1>5. ASSUME NEW k \in Worker, NEW rest \in Seq(TargetType), NextTarget(k, rest), k # j
        PROVE  wpc'[j] = wpc[j] /\ queue'[j] = queue[j]
    BY <1>0, <1>5 DEF NextTarget, SearchTypes, WorkTypes
  <1>6. ASSUME NEW k \in Worker, wpc[k] \in {"check", "mark"}, Found(k), rows' = rows,
               k # j => left'[j] = left[j]
        PROVE  Covers(j)'
    <2>1. <<>> \in Seq(TargetType) /\ NextTarget(k, <<>>)
      BY <1>6, EmptySeq DEF Found
    <2>2. CASE k = j
      BY <1>0, <1>4, <1>6, <2>1, <2>2, FoundAccounts
    <2>3. CASE k # j
      <3>1. tried'[j] = tried[j]
        BY <1>6, <2>3 DEF Found, WorkTypes
      <3> QED
        BY <1>2, <1>5, <1>6, <2>1, <2>3, <3>1
    <2> QED
      BY <2>2, <2>3
  <1> USE DEF vars, storeVars, rowVars, searchVars, workVars
  <1>7. ASSUME NEW s \in Searcher, NEW W \in SUBSET Want, ReadWants(s, W)
        PROVE  Covers(j)'
    <2>1. CASE j[1] = s
      BY <1>0, <1>3, <1>7, <2>1 DEF ReadWants, Snapshots
    <2>2. CASE j[1] # s
      BY <1>0, <1>2, <1>7, <2>2 DEF ReadWants, SearchTypes
    <2> QED
      BY <2>1, <2>2
  <1>8. ASSUME NEW s \in Searcher, ReadKnown(s) PROVE Covers(j)'
    <2>1. wpc'[j] = IF j[1] = s /\ Mine(j) # {} THEN "start" ELSE wpc[j]
      BY <1>8 DEF ReadKnown
    <2>2. CASE wpc'[j] = wpc[j]
      BY <1>2, <1>8, <2>2 DEF ReadKnown
    <2>3. CASE wpc'[j] = "start" /\ Mine(j) # {}
      BY <1>1, <1>8, <2>3 DEF ReadKnown, Covers
    <2> QED
      BY <2>1, <2>2, <2>3
  <1>9. ASSUME NEW s \in Searcher, EndSearch(s) PROVE Covers(j)'
    <2>1. CASE j[1] = s
      BY <1>3, <1>9, <2>1 DEF EndSearch
    <2>2. CASE j[1] # s
      BY <1>0, <1>2, <1>9, <2>2 DEF EndSearch, SearchTypes
    <2> QED
      BY <2>1, <2>2
  <1>10. ASSUME NEW k \in Worker, StartWorker(k) PROVE Covers(j)'
    <2>1. CASE k # j
      BY <1>0, <1>2, <1>10, <2>1 DEF StartWorker, SearchTypes, WorkTypes
    <2>2. CASE k = j
      <3>1. Mine(j) # {} /\ wpc'[j] = "ask" /\ queue'[j] = TargetsFor(j) /\ rows' = rows
        BY <1>0, <1>10, <2>2 DEF StartWorker, Covers, SearchTypes, WorkTypes
      <3>2. queue'[j] # <<>> /\ \A w \in Mine(j) : w[3] # 0 =>
              \E i \in DOMAIN queue'[j] : w \in AffectedWants(j, queue'[j][i])
        BY <1>0, <3>1, TargetsLook
      <3>3. Accounted(j)'
        BY <1>1, <3>1, <3>2 DEF Accounted, Ahead
      <3> QED
        BY <1>1, <3>1, <3>2, <3>3 DEF Covers
    <2> QED
      BY <2>1, <2>2
  <1>11. ASSUME NEW k \in Worker, Answer(k) PROVE Covers(j)'
    <2>1. UNCHANGED <<rows, queue, tried>> /\ wpc[k] = "ask"
      BY <1>11 DEF Answer
    <2>2. CASE k # j
      <3>1. wpc'[j] = wpc[j] /\ left'[j] = left[j]
        BY <1>11, <2>2, <1>0 DEF Answer, SearchTypes
      <3> QED
        BY <1>2, <2>1, <3>1
    <2>3. CASE k = j
      <3>1. wpc'[j] \in {"check", "miss"}
        BY <1>0, <1>11, <2>3 DEF Answer, SearchTypes
      <3>2. left'[j] = AffectedWants(j, Current(j))
        BY <1>0, <1>11, <2>3 DEF Answer, SearchTypes
      <3>3. Current(j)' = Current(j) /\ Mine(j)' = Mine(j)
            /\ AffectedWants(j, Current(j))' = AffectedWants(j, Current(j))
        BY <1>1, <2>1 DEF Current, Mine, AffectedWants
      <3>4. Accounted(j) <=> Accounted(j)'
        BY <1>1, <2>1 DEF Accounted, Ahead
      <3> QED
        BY <1>0, <2>1, <2>3, <3>1, <3>2, <3>3, <3>4 DEF Covers
    <2> QED
      BY <2>2, <2>3
  <1>12. ASSUME NEW k \in Worker, Check(k) PROVE Covers(j)'
    <2>1. rows' = rows /\ wpc[k] = "check"
      BY <1>12 DEF Check
    <2>2. CASE Found(k)
      <3>1. k # j => left'[j] = left[j]
        BY <1>0, <1>12 DEF Check, SearchTypes
      <3> QED
        BY <1>6, <2>1, <2>2, <3>1
    <2>3. CASE wpc' = [wpc EXCEPT ![k] = "insert"] /\ UNCHANGED <<queue, left, tried>>
      BY <1>0, <1>2, <2>1, <2>3 DEF SearchTypes
    <2> QED
      BY <1>12, <2>2, <2>3 DEF Check
  <1>13. ASSUME NEW k \in Worker, Insert(k) PROVE Covers(j)'
    <2>1. rows' = rows /\ wpc[k] = "insert" /\ tried' = tried
      BY <1>13 DEF Insert
    <2>2. CASE wpc' = [wpc EXCEPT ![k] = "mark"] /\ UNCHANGED <<queue, left>>
      BY <1>0, <1>2, <2>1, <2>2 DEF SearchTypes
    <2>3. CASE /\ wpc' = [wpc EXCEPT ![k] = "idle"] /\ queue' = [queue EXCEPT ![k] = <<>>]
               /\ left' = [left EXCEPT ![k] = {}]
      <3>1. CASE k = j
        BY <1>0, <1>3, <2>3, <3>1 DEF SearchTypes
      <3>2. CASE k # j
        BY <1>0, <1>2, <2>1, <2>3, <3>2 DEF SearchTypes, WorkTypes
      <3> QED
        BY <3>1, <3>2
    <2> QED
      BY <1>13, <2>2, <2>3 DEF Insert
  <1>14. ASSUME NEW k \in Worker, NEW w \in Want, Mark(k, w) PROVE Covers(j)'
    <2>1. rows' = rows /\ wpc[k] = "mark" /\ left' = [left EXCEPT ![k] = @ \ {w}]
      BY <1>14 DEF Mark
    <2>2. k # j => left'[j] = left[j]
      BY <1>0, <2>1 DEF SearchTypes
    <2>3. CASE Found(k)
      BY <1>6, <2>1, <2>2, <2>3
    <2>4. CASE UNCHANGED <<tried, queue, wpc>>
      BY <1>2, <2>1, <2>2, <2>4
    <2> QED
      BY <1>14, <2>3, <2>4 DEF Mark
  <1>15. ASSUME NEW k \in Worker, NEW w \in Want, RecordMiss(k, w) PROVE Covers(j)'
    <2>1. rows' = rows /\ wpc[k] = "miss" /\ left' = [left EXCEPT ![k] = @ \ {w}]
      BY <1>15 DEF RecordMiss
    <2>2. tried' = IF IsPack(Current(k)) THEN tried
                   ELSE [tried EXCEPT ![k] = @ \cup {w}]
      BY <1>15 DEF RecordMiss
    <2>3. (left[k] = {w} /\ NextTarget(k, Fallback(k))) \/ UNCHANGED <<queue, wpc>>
      BY <1>15 DEF RecordMiss
    <2>4. CASE k # j
      <3>1. tried'[j] = tried[j] /\ left'[j] = left[j]
        BY <1>0, <2>1, <2>2, <2>4 DEF SearchTypes, WorkTypes
      <3>2. wpc'[j] = wpc[j] /\ queue'[j] = queue[j]
        BY <1>0, <1>5, <2>3, <2>4, FallbackLooks
      <3> QED
        BY <1>2, <2>1, <3>1, <3>2
    <2>5. CASE k = j /\ left[k] = {w} /\ NextTarget(k, Fallback(k))
      BY <1>0, <1>4, <1>15, <2>1, <2>5, FallbackLooks, MissAccounts
    <2>6. CASE k = j /\ UNCHANGED <<queue, wpc>>
      <3>1. Current(j)' = Current(j) /\ Mine(j)' = Mine(j)
            /\ \A t : AffectedWants(j, t)' = AffectedWants(j, t)
        BY <1>1, <2>1, <2>6 DEF Current, Mine, AffectedWants
      <3>2. tried[j] \subseteq tried'[j] /\ (~IsPack(Current(j)) => w \in tried'[j])
        BY <2>2, <2>6 DEF WorkTypes
      <3>3. left[j] \subseteq left'[j] \cup {w}
        BY <1>0, <2>1, <2>6 DEF SearchTypes
      <3>4. Accounted(j) => Accounted(j)'
        BY <2>6, <3>1, <3>2 DEF Accounted, Ahead
      <3> QED
        BY <1>0, <2>1, <2>6, <3>1, <3>2, <3>3, <3>4 DEF Covers
    <2> QED
      BY <2>3, <2>4, <2>5, <2>6
  <1>16. CASE (\E S \in SUBSET Row : Deny(S)) \/ (\E d \in Row : Lose(d)) \/ ClearHistory
    BY <1>2, <1>16 DEF Deny, Lose, ClearHistory
  <1>17. CASE Restart
    BY <1>3, <1>17 DEF Restart
  <1>18. CASE UNCHANGED vars
    BY <1>2, <1>18
  <1> HIDE DEF vars, storeVars, rowVars, searchVars, workVars
  <1> QED
    BY Zenon, <1>7, <1>8, <1>9, <1>10, <1>11, <1>12, <1>13, <1>14, <1>15, <1>16,
       <1>17, <1>18, Cases, Starts

\* The targets and what was tried keep their types.
LEMMA WorkTypesStep ==
    ASSUME Inv, WorkTypes, Coverage, [Next]_vars
    PROVE  WorkTypes'
  <1>0. SearchTypes /\ \A k \in Worker : wpc[k] \notin {"idle", "start"} => queue[k] # <<>>
    BY DEF Inv, Coverage
  <1>1. ASSUME NEW k \in Worker
        PROVE  AffectedWants(k, Current(k)) \in SUBSET Want
    BY <1>0 DEF AffectedWants, Mine, SearchTypes, Worker
  <1>2. ASSUME NEW k \in Worker, NEW rest \in Seq(TargetType), NextTarget(k, rest),
               wpc[k] \notin {"idle", "start"}
        PROVE  queue' \in [Worker -> Seq(TargetType)]
    <2>1. \E q \in Seq(TargetType) : queue' = [queue EXCEPT ![k] = q]
      BY <1>0, <1>2, NextDrops
    <2> QED
      BY <2>1 DEF WorkTypes
  <1>3. ASSUME NEW k \in Worker, Found(k), wpc[k] \notin {"idle", "start"} PROVE WorkTypes'
    <2>1. queue' \in [Worker -> Seq(TargetType)]
      BY <1>2, <1>3, EmptySeq DEF Found
    <2>2. tried' \in [Worker -> SUBSET Want]
      BY <1>1, <1>3 DEF Found, WorkTypes
    <2> QED
      BY <2>1, <2>2 DEF WorkTypes
  <1>4. CASE UNCHANGED <<queue, tried>>
    BY <1>4 DEF WorkTypes
  <1> USE DEF vars, storeVars, rowVars, searchVars, workVars
  <1>5. ASSUME NEW s \in Searcher, NEW W \in SUBSET Want, ReadWants(s, W) PROVE WorkTypes'
    BY <1>4, <1>5 DEF ReadWants
  <1>6. ASSUME NEW s \in Searcher, ReadKnown(s) PROVE WorkTypes'
    BY <1>4, <1>6 DEF ReadKnown
  <1>7. ASSUME NEW s \in Searcher, EndSearch(s) PROVE WorkTypes'
    BY <1>7 DEF EndSearch, WorkTypes
  <1>8. ASSUME NEW k \in Worker, StartWorker(k) PROVE WorkTypes'
    <2>1. TargetsFor(k) \in Seq(TargetType)
      BY <1>0, <1>8, TargetsLook DEF Coverage, StartWorker
    <2> QED
      BY <1>8, <2>1 DEF StartWorker, WorkTypes
  <1>9. ASSUME NEW k \in Worker, Answer(k) PROVE WorkTypes'
    BY <1>4, <1>9 DEF Answer
  <1>10. ASSUME NEW k \in Worker, Check(k) PROVE WorkTypes'
    BY <1>3, <1>4, <1>10 DEF Check
  <1>11. ASSUME NEW k \in Worker, Insert(k) PROVE WorkTypes'
    <2>1. tried' = tried /\ (queue' = queue \/ queue' = [queue EXCEPT ![k] = <<>>])
      BY <1>11 DEF Insert
    <2> QED
      BY <2>1, EmptySeq DEF WorkTypes
  <1>12. ASSUME NEW k \in Worker, NEW w \in Want, Mark(k, w) PROVE WorkTypes'
    BY <1>3, <1>4, <1>12 DEF Mark
  <1>13. ASSUME NEW k \in Worker, NEW w \in Want, RecordMiss(k, w) PROVE WorkTypes'
    <2>1. wpc[k] = "miss" /\ (queue' = queue \/ NextTarget(k, Fallback(k)))
      BY <1>13 DEF RecordMiss
    <2>2. queue' \in [Worker -> Seq(TargetType)]
      BY <1>0, <1>2, <2>1, FallbackLooks DEF WorkTypes
    <2>3. tried' \in [Worker -> SUBSET Want]
      BY <1>13 DEF RecordMiss, WorkTypes
    <2> QED
      BY <2>2, <2>3 DEF WorkTypes
  <1>14. CASE (\E S \in SUBSET Row : Deny(S)) \/ (\E d \in Row : Lose(d)) \/ ClearHistory
    BY <1>4, <1>14 DEF Deny, Lose, ClearHistory
  <1>15. CASE Restart
    BY <1>15, EmptySeq DEF Restart, WorkTypes
  <1>16. CASE UNCHANGED vars
    BY <1>4, <1>16
  <1> HIDE DEF vars, storeVars, rowVars, searchVars, workVars
  <1> QED
    BY Zenon, <1>5, <1>6, <1>7, <1>8, <1>9, <1>10, <1>11, <1>12, <1>13, <1>14, <1>15,
       <1>16, Cases, Starts

WorkInv == Inv /\ WorkTypes /\ Coverage

LEMMA WorkInvInit == Init => WorkInv
  BY InvInit, EmptySeq DEF Init, WorkInv, WorkTypes, Coverage, Worker

LEMMA WorkInvStep == WorkInv /\ [Next]_vars => WorkInv'
  BY InvStep, CoverageStep, WorkTypesStep DEF WorkInv

\* However many titles, seasons and episodes a search takes, whatever packs are
\* planned, missed and replaced by searches for their episodes, and wherever
\* other searches, people and restarts come between: a worker that gets to its
\* end has found or asked for each episode it took (Search, NothingLeftOut).
THEOREM EveryEpisodeAsked == Spec => NothingLeftOut
  <1>1. ASSUME WorkInv, [Next]_vars, NEW k \in Worker,
               wpc[k] \in {"check", "mark", "miss"}, wpc'[k] = "idle",
               phase'[k[1]] = "busy"
        PROVE  \A w \in Mine(k) : w[3] # 0 => w \in tried'[k]
    <2>0. /\ SearchTypes /\ WorkTypes /\ Covers(k) /\ queue[k] # <<>>
          /\ k[1] \in Searcher /\ wpc'[k] # wpc[k]
      BY <1>1 DEF WorkInv, Inv, Coverage, Covers, Accounted, Worker
    <2>1. ASSUME Accounted(k)', rows' = rows, NEW rest \in Seq(TargetType),
                 NextTarget(k, rest)
          PROVE  \A w \in Mine(k) : w[3] # 0 => w \in tried'[k]
      <3>1. wpc' = [wpc EXCEPT ![k] = IF queue'[k] = <<>> THEN "idle" ELSE "ask"]
        BY <2>0, <2>1, NextDrops
      <3>2. wpc'[k] = IF queue'[k] = <<>> THEN "idle" ELSE "ask"
        BY <2>0, <3>1 DEF SearchTypes
      <3>3. queue'[k] = <<>>
        BY <1>1, <3>2
      <3>4. \A w : ~Ahead(k, w)'
        BY <3>3 DEF Ahead
      <3>5. Mine(k)' = Mine(k)
        BY <2>1 DEF Mine
      <3> QED
        BY <2>1, <3>4, <3>5 DEF Accounted
    <2>2. ASSUME Found(k), rows' = rows, wpc[k] \in {"check", "mark"}
          PROVE  \A w \in Mine(k) : w[3] # 0 => w \in tried'[k]
      <3>1. <<>> \in Seq(TargetType) /\ NextTarget(k, <<>>)
        BY <2>2, EmptySeq DEF Found
      <3> QED
        BY <2>0, <2>1, <2>2, <3>1, FoundAccounts
    <2>3. CASE Check(k)
      <3>1. rows' = rows /\ (Found(k) \/ wpc' = [wpc EXCEPT ![k] = "insert"])
        BY <2>3 DEF Check
      <3>2. wpc[k] = "check" /\ ~(wpc' = [wpc EXCEPT ![k] = "insert"])
        BY <1>1, <2>0, <2>3 DEF Check, SearchTypes
      <3> QED
        BY <2>2, <3>1, <3>2
    <2>4. ASSUME NEW w \in Want, Mark(k, w)
          PROVE  \A v \in Mine(k) : v[3] # 0 => v \in tried'[k]
      <3>1. rows' = rows /\ wpc[k] = "mark" /\ (Found(k) \/ wpc' = wpc)
        BY <2>4 DEF Mark
      <3> QED
        BY <2>0, <2>2, <3>1
    <2>5. ASSUME NEW w \in Want, RecordMiss(k, w)
          PROVE  \A v \in Mine(k) : v[3] # 0 => v \in tried'[k]
      <3>1. /\ rows' = rows
            /\ \/ left[k] = {w} /\ NextTarget(k, Fallback(k))
               \/ wpc' = wpc
        BY <2>5 DEF RecordMiss, searchVars
      <3>2. Fallback(k) \in Seq(TargetType)
        BY <2>0, FallbackLooks
      <3> QED
        BY <2>0, <2>1, <2>5, <3>1, <3>2, MissAccounts
    <2> USE DEF vars, storeVars, rowVars, searchVars, workVars
    <2>6. ASSUME NEW j \in Worker, j # k,
                 Check(j) \/ \E w \in Want : Mark(j, w) \/ RecordMiss(j, w)
          PROVE  wpc'[k] = wpc[k]
      BY <2>0, <2>6 DEF Check, Mark, RecordMiss, Found, NextTarget, SearchTypes
    <2>7. ASSUME NEW j \in Worker, StartWorker(j) \/ Answer(j) \/ Insert(j)
          PROVE  wpc'[k] = wpc[k] \/ wpc'[k] # "idle"
      BY <1>1, <2>0, <2>7 DEF StartWorker, Answer, Insert, SearchTypes
    <2>8. ASSUME NEW s \in Searcher,
                 ReadKnown(s) \/ EndSearch(s) \/ \E W \in SUBSET Want : ReadWants(s, W)
          PROVE  wpc'[k] = wpc[k] \/ wpc'[k] # "idle"
      BY <2>8 DEF ReadKnown, EndSearch, ReadWants
    <2>9. ~Restart
      BY <1>1, <2>0 DEF Restart
    <2>10. ASSUME \/ (\E S \in SUBSET Row : Deny(S)) \/ (\E d \in Row : Lose(d))
                  \/ ClearHistory \/ UNCHANGED vars
           PROVE  wpc'[k] = wpc[k]
      BY <2>10 DEF Deny, Lose, ClearHistory
    <2> HIDE DEF vars, storeVars, rowVars, searchVars, workVars
    <2> QED
      BY Zenon, <1>1, <2>0, <2>3, <2>4, <2>5, <2>6, <2>7, <2>8, <2>9, <2>10, Cases, Starts
  <1>2. WorkInv /\ [Next]_vars =>
          [\A k \in Worker :
             (wpc[k] \in {"check", "mark", "miss"} /\ wpc'[k] = "idle"
                 /\ phase'[k[1]] = "busy")
             => \A w \in Mine(k) : w[3] # 0 => w \in tried'[k]]_vars
    BY <1>1
  <1> QED
    BY <1>2, WorkInvInit, WorkInvStep, PTL DEF Spec, NothingLeftOut

-----------------------------------------------------------------------------
(* All the types *)

\* The variables that neither the proofs above nor the targets depend on.
OtherTypes ==
    /\ wid \in [Row -> Want \cup {NoWant}]
    /\ hash \in [Row -> BOOLEAN]
    /\ missing \in [Row -> {"no", "fresh", "overdue"}]
    /\ archived \in [Row -> BOOLEAN]
    /\ older \subseteq Want \X Want
    /\ acts \in 0..MaxActs

LEMMA OtherTypesStep ==
    ASSUME SearchTypes, OtherTypes, [Next]_vars
    PROVE  OtherTypes'
  <1> USE DEF OtherTypes, vars, storeVars, rowVars, searchVars, workVars
  <1>1. CASE UNCHANGED <<wid, hash, missing, archived, older, acts>>
    BY <1>1
  <1>2. ASSUME NEW s \in Searcher, NEW W \in SUBSET Want, ReadWants(s, W) PROVE OtherTypes'
    BY <1>1, <1>2 DEF ReadWants
  <1>3. ASSUME NEW s \in Searcher, ReadKnown(s) \/ EndSearch(s) PROVE OtherTypes'
    BY <1>1, <1>3 DEF ReadKnown, EndSearch
  <1>4. ASSUME NEW k \in Worker, StartWorker(k) \/ Answer(k) \/ Check(k) PROVE OtherTypes'
    BY <1>1, <1>4 DEF StartWorker, Answer, Check
  <1>5. ASSUME NEW k \in Worker, Insert(k) PROVE OtherTypes'
    <2>1. wid' = wid \/ \E d \in Row, w \in Want : wid' = [wid EXCEPT ![d] = w]
      BY <1>5, FreshRow DEF Insert, SearchTypes
    <2>2. UNCHANGED <<hash, missing, archived, older, acts>>
      BY <1>5 DEF Insert
    <2> QED
      BY <2>1, <2>2
  <1>6. ASSUME NEW k \in Worker, NEW w \in Want, Mark(k, w) PROVE OtherTypes'
    BY <1>1, <1>6 DEF Mark
  <1>7. ASSUME NEW k \in Worker, NEW w \in Want, RecordMiss(k, w) PROVE OtherTypes'
    BY <1>7 DEF RecordMiss, Searched
  <1>8. ASSUME NEW S \in SUBSET Row, Deny(S) PROVE OtherTypes'
    BY <1>8, SearchAssumption DEF Deny, Act
  <1>9. ASSUME NEW d \in Row, Lose(d) PROVE OtherTypes'
    BY <1>9, SearchAssumption DEF Lose, Act
  <1>10. ASSUME ClearHistory PROVE OtherTypes'
    <2>1. /\ UNCHANGED <<wid, hash, older, acts>>
          /\ missing' \in [Row -> {"no", "fresh", "overdue"}]
      BY <1>10 DEF ClearHistory, PurgeHistory
    <2>2. archived' \in [Row -> BOOLEAN]
      BY <1>10, Zenon DEF ClearHistory, PurgeHistory
    <2> QED
      BY <2>1, <2>2
  <1>11. CASE Restart
    BY <1>11, SearchAssumption DEF Restart, Act
  <1>12. CASE UNCHANGED vars
    BY <1>1, <1>12
  <1> HIDE DEF OtherTypes, vars, storeVars, rowVars, searchVars, workVars
  <1> QED
    BY Zenon, <1>2, <1>3, <1>4, <1>5, <1>6, <1>7, <1>8, <1>9, <1>10, <1>11, <1>12,
       Cases, Starts

\* Every variable keeps its type; what a worker has left to search for is always
\* a sequence of targets (Search, TypeOK).
THEOREM TypeCorrect == Spec => []TypeOK
  <1>1. Init => WorkInv /\ OtherTypes
    BY WorkInvInit, SearchAssumption DEF Init, StoreInit, OtherTypes
  <1>2. WorkInv /\ OtherTypes /\ [Next]_vars => WorkInv' /\ OtherTypes'
    BY WorkInvStep, OtherTypesStep DEF WorkInv, Inv
  <1>3. WorkInv /\ OtherTypes => TypeOK
    BY DEF WorkInv, Inv, SearchTypes, WorkTypes, OtherTypes, TypeOK, StoreTypeOK
  <1> QED
    BY <1>1, <1>2, <1>3, PTL DEF Spec
==============================================================================
