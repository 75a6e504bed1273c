--------------------------- MODULE ModerationProof ---------------------------
(***************************************************************************)
(* Module Downloads implements module Moderation, for every set of rows,   *)
(* releases, wants and passes.                                             *)
(***************************************************************************)
EXTENDS DownloadsProof

\* Under the clearance invariant the decision about a row is read off its
\* state and the history of clearances.
LEMMA DecidedIs ==
    ASSUME TypeInv, Clearance, NEW d \in Row
    PROVE  /\ state[d] = "unborn" <=> Decided(d) = "none"
           /\ state[d] = "pending" <=> Decided(d) = "asked"
           /\ state[d] = "gone" /\ d \in cleared <=> Decided(d) = "closed"
           /\ d \in cleared /\ state[d] # "gone" <=> Decided(d) = "granted"
           /\ Decided(d) \in {"none", "asked", "granted", "refused", "closed"}
           /\ d \in cleared <=> Decided(d) \in {"granted", "closed"}
  BY DEF TypeInv, TypeOK, StoreTypeOK, Clearance, Uncleared, DownloadState, Decided

\* At first nothing is proposed and the client holds nothing.
LEMMA PromiseInit == Init => Promise!Init
  BY StoreAssumption DEF Init, StoreInit, Promise!Init, Decided, InClient

-----------------------------------------------------------------------------
(* What a step may do to the decisions and to the client *)

\* A step that writes only rows that are cleared, and neither deletes one nor
\* brings one back, decides nothing.
LEMMA SameDecisions ==
    ASSUME TypeInv, Clearance, TypeInv', Clearance', cleared' = cleared,
           \A d \in Row : \/ state'[d] = state[d]
                          \/ d \in cleared /\ state[d] # "gone" /\ state'[d] # "gone"
    PROVE  [d \in Row |-> Decided(d)]' = [d \in Row |-> Decided(d)]
  <1>1. \A d \in Row : Decided(d)' = Decided(d)
    BY DEF Clearance, Uncleared, Decided
  <1> QED
    BY <1>1

\* A step that leaves the tags and the pending fetches alone leaves the client.
LEMMA SameClient ==
    ASSUME tag' = tag, incoming' = incoming
    PROVE  InClient' = InClient
  BY DEF InClient

\* A row is handed to the client only while a coroutine holds it, and by then
\* it is cleared: whatever the client does with the add, it holds no new row
\* but that one.
LEMMA HandedOver ==
    ASSUME TypeInv, NEW d \in Row, NEW k \in BOOLEAN, ClientAdd(d, ~k)
    PROVE  InClient' \subseteq InClient \cup {d}
  BY DEF TypeInv, TypeOK, ClientAdd, Land, InClient, clientVars

\* A promise step in which no decision is taken.
LEMMA Undecided ==
    ASSUME [d \in Row |-> Decided(d)]' = [d \in Row |-> Decided(d)],
           InClient' \subseteq InClient
    PROVE  Promise!Next
  BY DEF Promise!Next, Promise!Withdraw

-----------------------------------------------------------------------------
(* Every step is a step of the promise *)

\* The steps that leave rows, tags and pending fetches alone.
Idle == state' = state /\ cleared' = cleared /\ tag' = tag /\ incoming' = incoming

LEMMA PromiseStep ==
    ASSUME TypeInv, Clearance, TypeInv', Clearance', [Next]_vars
    PROVE  [Promise!Next]_(Promise!moderationVars)
  <1> SUFFICES Promise!Next
    OBVIOUS
  <1> USE DEF vars, storeVars, rowVars, clientVars, passVars, monVars, ghostVars
  <1>0. ASSUME Idle PROVE Promise!Next
    BY <1>0, SameDecisions, SameClient, Undecided DEF Idle
  <1>1. ASSUME NEW S \in SUBSET Row, Approve(S) PROVE Promise!Next
    <2> DEFINE asked == {d \in S : state[d] = "pending"}
    <2>1. \A d \in asked : Decided(d) = "asked"
      BY DEF Decided, Clearance, Uncleared
    <2>2. \A d \in asked : Decided(d)' = "granted"
      BY <1>1 DEF Approve, ApproveMany, Decided
    <2>3. \A d \in Row \ asked : Decided(d)' = Decided(d)
      BY <1>1 DEF Approve, ApproveMany, Decided
    <2>4. InClient' = InClient
      BY <1>1, SameClient DEF Approve
    <2>5. Promise!Grant(asked)
      BY <2>1, <2>2, <2>3, <2>4 DEF Promise!Grant, Promise!Move
    <2> QED
      BY <2>5 DEF Promise!Next
  <1>2. ASSUME NEW S \in SUBSET Row, Deny(S) PROVE Promise!Next
    <2> DEFINE asked == {d \in S : state[d] = "pending"}
    <2>1. \A d \in asked : Decided(d) = "asked"
      BY DEF Decided, Clearance, Uncleared
    <2>2. \A d \in asked : Decided(d)' = "refused"
      BY <1>2 DEF Deny, DenyMany, Decided, Clearance, Uncleared
    <2>3. \A d \in Row \ asked : Decided(d)' = Decided(d)
      BY <1>2 DEF Deny, DenyMany, Decided
    <2>4. InClient' = InClient
      BY <1>2, SameClient DEF Deny
    <2>5. Promise!Refuse(asked)
      BY <2>1, <2>2, <2>3, <2>4 DEF Promise!Refuse, Promise!Move
    <2> QED
      BY <2>5 DEF Promise!Next
  <1>3. ASSUME NEW d \in Row, Retry(d) PROVE Promise!Next
    <2>1. d \in cleared
      BY <1>3 DEF Retry, Clearance, Uncleared
    <2>2. cleared' = cleared /\ tag' = tag /\ incoming' = incoming
      BY <1>3 DEF Retry
    <2>3. \A e \in Row : \/ state'[e] = state[e]
                         \/ e \in cleared /\ state[e] # "gone" /\ state'[e] # "gone"
      BY <1>3, <2>1 DEF Retry, SetState, TypeInv, TypeOK, StoreTypeOK
    <2> QED
      BY <2>2, <2>3, SameDecisions, SameClient, Undecided
  <1>4. ASSUME ClearHistory PROVE Promise!Next
    <2> DEFINE dead == {d \in cleared : state[d] \in {"denied", "failed", "cancelled"}}
    <2>0. dead \in SUBSET Row
      BY DEF TypeInv, TypeOK
    <2>1. \A d \in dead : Decided(d) = "granted"
      BY DEF Decided
    <2>2. \A d \in dead : Decided(d)' = "closed"
      BY <2>0, <1>4 DEF ClearHistory, PurgeHistory, Decided
    <2>3. \A d \in Row \ dead : Decided(d)' = Decided(d)
      BY <1>4 DEF ClearHistory, PurgeHistory, Decided, Clearance, Uncleared
    <2>4. InClient' = InClient
      BY <1>4, SameClient DEF ClearHistory
    <2>5. Promise!Close(dead)
      BY <2>0, <2>1, <2>2, <2>3, <2>4 DEF Promise!Close, Promise!Move
    <2> QED
      BY <2>0, <2>5 DEF Promise!Next
  <1>5. ASSUME NEW d \in Row, NEW r \in Release,
              NEW gate \in BOOLEAN, NEW force \in BOOLEAN, Grab(d, r, gate, force)
       PROVE Promise!Next
    <2>1. Decided(d) = "none"
      BY <1>5 DEF Grab, Decided, Clearance, Uncleared
    <2>2. Decided(d)' = IF gate THEN "asked" ELSE "granted"
      BY <1>5 DEF Grab, Decided, Clearance, Uncleared, TypeInv, TypeOK, StoreTypeOK
    <2>3. \A e \in Row \ {d} : Decided(e)' = Decided(e)
      BY <1>5 DEF Grab, Decided, TypeInv, TypeOK, StoreTypeOK
    <2>4. InClient' = InClient
      BY <1>5, SameClient DEF Grab
    <2>5. CASE gate
      <3>1. Promise!Ask(d)
        BY <2>1, <2>2, <2>3, <2>4, <2>5 DEF Promise!Ask, Promise!Move
      <3> QED
        BY <3>1 DEF Promise!Next
    <2>6. CASE ~gate
      <3>1. Promise!Grant({d})
        BY <2>1, <2>2, <2>3, <2>4, <2>6 DEF Promise!Grant, Promise!Move
      <3> QED
        BY <3>1 DEF Promise!Next
    <2> QED
      BY <2>5, <2>6
  <1>6. ASSUME NEW d \in Row, NEW s \in DownloadState \ Uncleared,
              state' = SetState(d, s), d \in cleared, cleared' = cleared,
              tag' = tag, incoming' = incoming
       PROVE Promise!Next
    <2>1. \A e \in Row : \/ state'[e] = state[e]
                         \/ e \in cleared /\ state[e] # "gone" /\ state'[e] # "gone"
      BY <1>6 DEF SetState, Exists, DownloadState, TypeInv, TypeOK, StoreTypeOK
    <2> QED
      BY <1>6, <2>1, SameDecisions, SameClient, Undecided
  <1>7. ASSUME NEW p \in Pass, Confirm(p) PROVE Promise!Next
    BY <1>7, <1>6 DEF Confirm, RecordStarted, Clearance, TypeInv, Wellformed,
       DownloadState, Uncleared
  <1>8. ASSUME NEW p \in Pass, GiveUp(p) PROVE Promise!Next
    BY <1>8, <1>6 DEF GiveUp, Clearance, TypeInv, Wellformed, DownloadState, Uncleared
  <1>9. ASSUME NEW p \in Pass, NEW d \in Row, Adopt(p, d) PROVE Promise!Next
    BY <1>9, <1>6 DEF Adopt, Take, RecordStarted, Clearance, DownloadState, Uncleared
  <1>10. ASSUME NEW p \in Pass, NEW d \in Row, NoRoom(p, d) PROVE Promise!Next
    <2>1. CASE d \in parked[p]
      BY <1>10, <2>1, <1>0 DEF NoRoom, Idle
    <2>2. CASE d \notin parked[p]
      BY <1>10, <2>2, <1>6 DEF NoRoom, Take, Clearance, DownloadState, Uncleared
    <2> QED
      BY <2>1, <2>2
  <1>11. ASSUME NEW d \in Row, SeeErrored(d) PROVE Promise!Next
    BY <1>11, <1>6 DEF SeeErrored, Judged, Clearance, DownloadState, Uncleared
  <1>12. ASSUME NEW d \in Row, SeeComplete(d) PROVE Promise!Next
    BY <1>12, <1>6 DEF SeeComplete, Judged, Clearance, DownloadState, Uncleared
  <1>13. ASSUME NEW d \in Row, Abandon(d) PROVE Promise!Next
    BY <1>13, <1>6 DEF Abandon, Clearance, DownloadState, Uncleared
  <1>14. ASSUME NEW d \in Row, d \in cleared, InClient' \subseteq InClient \cup {d},
               [e \in Row |-> Decided(e)]' = [e \in Row |-> Decided(e)]
       PROVE Promise!Next
    <2>1. Decided(d) \in {"granted", "closed"}
      BY <1>14, DecidedIs
    <2>2. Promise!Hand(d)
      BY <1>14, <2>1 DEF Promise!Hand
    <2> QED
      BY <2>2 DEF Promise!Next
  <1>15. ASSUME NEW p \in Pass, NEW d \in Row, HandOver(p, d) PROVE Promise!Next
    <2>1. d \in cleared /\ state' = state /\ cleared' = cleared
      BY <1>15 DEF HandOver, Take, Clearance
    <2>2. InClient' \subseteq InClient \cup {d}
      BY <1>15, HandedOver DEF HandOver
    <2> QED
      BY <2>1, <2>2, <1>14, SameDecisions
  <1>16. ASSUME NEW p \in Pass, NEW d \in Row, AddRaises(p, d) PROVE Promise!Next
    <2>1. d \in cleared /\ state' = SetState(d, "failed") /\ cleared' = cleared
      BY <1>16 DEF AddRaises, Take, Clearance
    <2>2. InClient' \subseteq InClient \cup {d}
      BY <1>16, HandedOver DEF AddRaises
    <2>3. \A e \in Row : \/ state'[e] = state[e]
                         \/ e \in cleared /\ state[e] # "gone" /\ state'[e] # "gone"
      BY <2>1 DEF SetState, Exists, DownloadState, TypeInv, TypeOK, StoreTypeOK
    <2> QED
      BY <2>1, <2>2, <2>3, <1>14, SameDecisions
  <1>17. ASSUME state' = state, cleared' = cleared, InClient' \subseteq InClient
       PROVE Promise!Next
    BY <1>17, SameDecisions, Undecided
  <1>18. ASSUME NEW d \in Row, Remove(d) \/ Retire(d) PROVE Promise!Next
    <2>1. InClient' \subseteq InClient
      BY <1>18, StoreAssumption
         DEF Remove, Retire, RemoveDownload, InClient, TypeInv, TypeOK
    <2> QED
      BY <1>18, <2>1, <1>17 DEF Remove, Retire, RemoveDownload
  <1>19. ASSUME NEW d \in Row, Fetched(d) PROVE Promise!Next
    <2>1. InClient' \subseteq InClient
      BY <1>19 DEF Fetched, Land, InClient, TypeInv, TypeOK
    <2> QED
      BY <1>19, <2>1, <1>17 DEF Fetched
  <1>20. ASSUME NEW r \in Release, DeleteByHand(r) PROVE Promise!Next
    <2>1. InClient' \subseteq InClient
      BY <1>20, StoreAssumption DEF DeleteByHand, InClient, TypeInv, TypeOK
    <2> QED
      BY <1>20, <2>1, <1>17 DEF DeleteByHand
  <1>21. ASSUME NEW r \in Release, \/ Unblock(r) \/ AddByHand(r)
                                   \/ \E how \in {"done", "errored"} : TorrentEnds(r, how)
       PROVE Promise!Next
    BY <1>21, <1>0 DEF Unblock, AddByHand, TorrentEnds, Idle
  <1>22. ASSUME NEW w \in Want, MarkSeen(w) \/ UnmarkSeen(w) PROVE Promise!Next
    BY <1>22, <1>0 DEF MarkSeen, UnmarkSeen, Idle
  <1>23. ASSUME NEW p \in Pass, ReadQueue(p) \/ EndPass(p) PROVE Promise!Next
    BY <1>23, <1>0 DEF ReadQueue, EndPass, Idle
  <1>24. ASSUME NEW view \in SUBSET Release,
               Inspect(view) \/ \E p \in Pass : ListClient(p, view)
       PROVE Promise!Next
    BY <1>24, <1>0 DEF Inspect, ListClient, Idle
  <1>25. ASSUME NEW d \in Row, SeeMissing(d) \/ SeeMoving(d) \/ GraceElapses(d)
       PROVE Promise!Next
    BY <1>25, <1>0 DEF SeeMissing, SeeMoving, GraceElapses, Idle
  <1>26. ASSUME \/ ReadInFlight \/ ReadSuperseded \/ RetireDone \/ ReadMissing
                \/ EndMonitor \/ MonitorRaises \/ Restart \/ UNCHANGED vars
       PROVE Promise!Next
    BY <1>26, <1>0 DEF ReadInFlight, ReadSuperseded, RetireDone, ReadMissing,
       EndMonitor, MonitorRaises, Restart, Idle
  <1> HIDE DEF vars, storeVars, rowVars, clientVars, passVars, monVars, ghostVars
  <1> QED
    BY Zenon, <1>1, <1>2, <1>3, <1>4, <1>5, <1>7, <1>8, <1>9, <1>10, <1>11,
       <1>12, <1>13, <1>15, <1>16, <1>18, <1>19, <1>20, <1>21, <1>22, <1>23,
       <1>24, <1>25, <1>26, Cases

\* The life of a grab, with all its searches, passes, monitor rounds, people
\* and failures, is a life the promise allows (Downloads, ModerationKept).
THEOREM PromiseIsKept == Spec => ModerationKept
  <1>1. TypeInv /\ Clearance /\ (TypeInv /\ Clearance)' /\ [Next]_vars
        => [Promise!Next]_(Promise!moderationVars)
    BY PromiseStep
  <1> QED
    BY <1>1, PromiseInit, Cleared, PTL DEF Spec, ModerationKept, Promise!Spec
==============================================================================
