------------------------------ MODULE Planner ------------------------------
(***************************************************************************)
(* The pure decisions of domain/decisions.py: which episodes of a series   *)
(* are wanted, which searches look for them, what needs a person.          *)
(*                                                                         *)
(* An episode is its key <<season, number>>.  A listing is the set of keys *)
(* TMDB lists; season 0 holds the specials, and a season listed without    *)
(* episodes is there as <<season, 0>>.  Days are integers, and the air     *)
(* date of a key is a day or Unknown.  A result that may be None is a set  *)
(* with at most one element.                                               *)
(***************************************************************************)
EXTENDS Integers, FiniteSets, Sequences

CONSTANT Unknown

Season(k) == k[1]
Number(k) == k[2]

\* The order of Python's tuples.
UpTo(k, m) == k[1] < m[1] \/ (k[1] = m[1] /\ k[2] <= m[2])

AtLeast(n, least) == IF n < least THEN least ELSE n

-----------------------------------------------------------------------------
(* What a series still needs *)

WatchedHighWater(watched) == {k \in watched : \A j \in watched : UpTo(j, k)}

EpisodesOf(listing, s) == {k \in listing : Season(k) = s /\ Number(k) > 0}

SeasonLength(listing, s) == Cardinality(EpisodesOf(listing, s))

\* The season after the one being watched, once the end is within the lead.
UnlockedNextSeason(listing, watched, lead) ==
    {s \in {Season(k) : k \in listing} :
        \E mark \in WatchedHighWater(watched) :
            /\ s = Season(mark) + 1
            /\ EpisodesOf(listing, s) # {}
            /\ SeasonLength(listing, Season(mark)) > 0
            /\ Number(mark) >= SeasonLength(listing, Season(mark)) - AtLeast(lead, 0)}

AllEpisodeKeys(listing) == {k \in listing : Season(k) > 0 /\ Number(k) > 0}

\* A season without episodes counts.
SeasonNumbers(listing) == {Season(k) : k \in {j \in listing : Season(j) > 0}}

\* numbers[-back:], everything when back is 0
SeasonsConsidered(listing, back) ==
    {s \in SeasonNumbers(listing) :
        back > 0 => Cardinality({t \in SeasonNumbers(listing) : t > s}) < back}

\* The season the history has reached, the first one without a history.
CurrentSeason(listing, watched, back) ==
    IF watched # {}
    THEN {Season(k) : k \in WatchedHighWater(watched)}
    ELSE {s \in SeasonsConsidered(listing, back) :
            \A t \in SeasonsConsidered(listing, back) : s <= t}

BacklogAllows(mode, s, current, unlocked) ==
    \/ s \in unlocked
    \/ mode = "all"
    \/ mode = "current_season" /\ s \in current

\* p is the policy: assumePrior, skipWatched, sequential, lead, backlog, back
\* and grace; air gives each key of the listing its day.  That a season is
\* skipped whole when all of it is owned, or watched, follows from its keys.
PlanShowWants(listing, air, have, watched, p, today) ==
    LET behind == IF p.assumePrior THEN WatchedHighWater(watched) ELSE {}
        unlocked == IF p.sequential
                    THEN UnlockedNextSeason(listing, watched, p.lead) ELSE {}
        current == CurrentSeason(listing, watched, p.back)
        cutoff == today - AtLeast(p.grace, 0)
        Aired(k) == air[k] # Unknown /\ air[k] < cutoff
    IN  {k \in AllEpisodeKeys(listing) :
            /\ Season(k) \in SeasonsConsidered(listing, p.back)
            /\ k \notin have
            /\ ~(p.skipWatched /\ k \in watched)
            /\ \A mark \in behind : ~UpTo(k, mark)
            /\ Aired(k) => BacklogAllows(p.backlog, Season(k), current, unlocked)}

\* date - timedelta counts whole days.
ShouldSearch(air, today, leadHours) ==
    air = Unknown \/ air - (leadHours \div 24) <= today

-----------------------------------------------------------------------------
(* Searches.  A target without an episode number (0 stands for None) is a  *)
(* season pack, one without a season a film.                               *)

TargetType == [season : Nat, episode : Nat, count : Nat]

Target(s, n, count) == [season |-> s, episode |-> n, count |-> count]
IsPack(t) == t.season # 0 /\ t.episode = 0

TakesPack(p, episodes) == p.preferPacks /\ Cardinality(episodes) >= AtLeast(p.packMin, 1)

\* The keys of S in ascending order.
InOrder(S) ==
    CHOOSE f \in [1..Cardinality(S) -> S] :
        \A i, j \in 1..Cardinality(S) : i < j => f[i] # f[j] /\ UpTo(f[i], f[j])

Singles(keys) == [i \in 1..Cardinality(keys) |->
                    Target(Season(InOrder(keys)[i]), Number(InOrder(keys)[i]), 1)]

\* One pack per season that misses enough, else one search per episode; in
\* season order.  No caller passes season_sizes.
PlanGrabTargets(missing, p) ==
    LET Of(s) == {k \in missing : Season(k) = s}
        packed == {k \in missing : TakesPack(p, Of(Season(k)))}
        \* the first missing key of a packed season stands for the season
        heads == {k \in packed : \A j \in Of(Season(k)) : UpTo(k, j)}
        order == InOrder(heads \cup (missing \ packed))
    IN  [i \in DOMAIN order |->
            IF order[i] \in packed
            THEN Target(Season(order[i]), 0, Cardinality(Of(Season(order[i]))))
            ELSE Target(Season(order[i]), Number(order[i]), 1)]

-----------------------------------------------------------------------------
(* Approval.  A release has a size and is a complete series, a season pack *)
(* or neither; autoBelow = 0 switches the shortcut off.                    *)

NeedsApproval(size, complete, pack, distinct, p) ==
    \/ p.everything
    \/ /\ ~(p.autoBelow > 0 /\ size < p.autoBelow)
       /\ \/ size > p.sizeGate
          \/ complete
          \/ p.gateMultiSeason /\ distinct > 1
          \/ p.gatePacks /\ pack
=============================================================================
