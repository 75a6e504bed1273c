----------------------------- MODULE Moderation -----------------------------
(***************************************************************************)
(* What Conduit promises the person at the dashboard, without saying how.  *)
(* A proposal (a download row) is asked about, or needs no asking; it is   *)
(* granted or refused, once; only a granted one is ever handed to the      *)
(* client, perhaps several times and perhaps late; and what was refused or *)
(* struck from the history never comes back under that id.                 *)
(***************************************************************************)
CONSTANT Ticket         \* proposals

VARIABLES
    stage,      \* what was decided about each proposal
    client      \* the proposals the client holds, or will fetch, a torrent for

moderationVars == <<stage, client>>

Stage == {"none", "asked", "granted", "refused", "closed"}

Init ==
    /\ stage = [t \in Ticket |-> "none"]
    /\ client = {}

Move(S, from, to) ==
    /\ \A t \in S : stage[t] \in from
    /\ stage' = [t \in Ticket |-> IF t \in S THEN to ELSE stage[t]]
    /\ UNCHANGED client

Ask(t) == Move({t}, {"none"}, "asked")
Grant(S) == Move(S, {"none", "asked"}, "granted")
Refuse(S) == Move(S, {"asked"}, "refused")
Close(S) == Move(S, {"granted"}, "closed")

\* Only what was granted reaches the client.  It may be closed by then: a
\* coroutine still holds what it read.
Hand(t) ==
    /\ stage[t] \in {"granted", "closed"}
    /\ client' \subseteq client \cup {t}
    /\ UNCHANGED stage

\* The client loses torrents by itself or by order.
Withdraw ==
    /\ client' \subseteq client
    /\ UNCHANGED stage

Next ==
    \/ \E t \in Ticket : Ask(t) \/ Hand(t)
    \/ \E S \in SUBSET Ticket : Grant(S) \/ Refuse(S) \/ Close(S)
    \/ Withdraw

Spec == Init /\ [][Next]_moderationVars
=============================================================================
