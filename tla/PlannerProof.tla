---------------------------- MODULE PlannerProof ----------------------------
(***************************************************************************)
(* What the pure decisions of module Planner promise for every series,     *)
(* history, library and policy.                                            *)
(***************************************************************************)
EXTENDS Planner, FiniteSetTheorems, TLAPS

\* Owning more never wants more: an episode that comes into the library takes
\* itself off the plan and puts nothing on it (plan_show_wants).
THEOREM OwningNeverAdds ==
    ASSUME NEW listing, NEW air, NEW watched, NEW p, NEW today,
           NEW less, NEW more, less \subseteq more
    PROVE  PlanShowWants(listing, air, more, watched, p, today)
             \subseteq PlanShowWants(listing, air, less, watched, p, today)
  BY DEF PlanShowWants

\* Policy q differs from p in nothing but the backlog it allows, a longer lead
\* on the next season and a longer grace.
AtLeastAs(q, p) ==
    /\ p.assumePrior = q.assumePrior /\ p.skipWatched = q.skipWatched
    /\ p.sequential = q.sequential /\ p.back = q.back
    /\ p.lead \in Int /\ q.lead \in Int /\ p.lead <= q.lead
    /\ p.grace \in Int /\ q.grace \in Int /\ p.grace <= q.grace
    /\ \/ q.backlog = p.backlog
       \/ q.backlog = "all"
       \/ p.backlog = "upcoming_only" /\ q.backlog = "current_season"

\* The backlog modes are nested: what the narrower one lets through the wider
\* one does, whatever has been watched or unlocked (_backlog_allows).
LEMMA ModesNest ==
    ASSUME NEW s, NEW current, NEW less, NEW more, less \subseteq more, NEW p, NEW q,
           \/ q = p \/ q = "all"
           \/ p = "upcoming_only" /\ q = "current_season",
           BacklogAllows(p, s, current, less)
    PROVE  BacklogAllows(q, s, current, more)
  BY DEF BacklogAllows

\* A longer lead unlocks the next season no later.
LEMMA LeadUnlocks ==
    ASSUME NEW listing, IsFiniteSet(listing), NEW watched \in SUBSET (Int \X Int),
           NEW short \in Int, NEW long \in Int, short <= long
    PROVE  UnlockedNextSeason(listing, watched, short)
             \subseteq UnlockedNextSeason(listing, watched, long)
  <1> SUFFICES ASSUME NEW s \in UnlockedNextSeason(listing, watched, short)
               PROVE  s \in UnlockedNextSeason(listing, watched, long)
    OBVIOUS
  <1>1. PICK mark \in WatchedHighWater(watched) :
            /\ s = Season(mark) + 1
            /\ SeasonLength(listing, Season(mark)) > 0
            /\ Number(mark) >= SeasonLength(listing, Season(mark)) - AtLeast(short, 0)
    BY DEF UnlockedNextSeason
  <1>2. Number(mark) \in Int
    BY DEF WatchedHighWater, Number
  <1>3. IsFiniteSet(EpisodesOf(listing, Season(mark)))
    BY FS_Subset DEF EpisodesOf
  <1>4. SeasonLength(listing, Season(mark)) \in Nat
    BY <1>3, FS_CardinalityType DEF SeasonLength
  <1>5. Number(mark) >= SeasonLength(listing, Season(mark)) - AtLeast(long, 0)
    BY <1>1, <1>2, <1>4 DEF AtLeast
  <1> QED
    BY <1>1, <1>5 DEF UnlockedNextSeason

\* A more generous policy only adds wants: allowing more of the backlog (from
\* "upcoming_only" to the current season to everything), a longer lead or a
\* longer grace takes nothing off the plan, so what was out to search is not
\* stood down by the change (plan_show_wants).
THEOREM WideningKeeps ==
    ASSUME NEW listing, IsFiniteSet(listing), NEW watched \in SUBSET (Int \X Int),
           NEW air, \A k \in listing : air[k] \in Int \cup {Unknown},
           NEW have, NEW today \in Int, NEW p, NEW q, AtLeastAs(q, p)
    PROVE  PlanShowWants(listing, air, have, watched, p, today)
             \subseteq PlanShowWants(listing, air, have, watched, q, today)
  <1> DEFINE Unlocked(r) == IF r.sequential
                            THEN UnlockedNextSeason(listing, watched, r.lead) ELSE {}
             Current(r) == CurrentSeason(listing, watched, r.back)
             Aired(k, r) == air[k] # Unknown /\ air[k] < today - AtLeast(r.grace, 0)
             Allowed(k, r) == BacklogAllows(r.backlog, Season(k), Current(r), Unlocked(r))
  <1>1. Unlocked(p) \subseteq Unlocked(q)
    BY LeadUnlocks DEF AtLeastAs
  <1>2. ASSUME NEW k \in listing, Aired(k, q) PROVE Aired(k, p)
    BY <1>2 DEF AtLeastAs, AtLeast
  <1>3. ASSUME NEW k \in listing, Allowed(k, p) PROVE Allowed(k, q)
    <2>1. Current(p) = Current(q)
      BY DEF AtLeastAs
    <2> HIDE DEF Current, Unlocked
    <2> QED
      BY <1>1, <1>3, <2>1, ModesNest DEF AtLeastAs
  <1>4. \A k \in listing : (Aired(k, p) => Allowed(k, p)) => (Aired(k, q) => Allowed(k, q))
    <2> HIDE DEF Aired, Allowed
    <2> QED
      BY <1>2, <1>3
  <1>5. \A r : PlanShowWants(listing, air, have, watched, r, today) =
          {k \in AllEpisodeKeys(listing) :
              /\ Season(k) \in SeasonsConsidered(listing, r.back)
              /\ k \notin have
              /\ ~(r.skipWatched /\ k \in watched)
              /\ \A mark \in IF r.assumePrior THEN WatchedHighWater(watched) ELSE {} :
                    ~UpTo(k, mark)
              /\ Aired(k, r) => Allowed(k, r)}
    BY DEF PlanShowWants
  <1>6. AllEpisodeKeys(listing) \subseteq listing
    BY DEF AllEpisodeKeys
  <1> HIDE DEF Aired, Allowed, Unlocked, Current
  <1> QED
    BY <1>4, <1>5, <1>6 DEF AtLeastAs

\* A release that needs a person still needs one when it is bigger: no size
\* slips through between the shortcut and the gate (needs_approval).
THEOREM BiggerIsGated ==
    ASSUME NEW size \in Nat, NEW bigger \in Nat, size <= bigger,
           NEW complete \in BOOLEAN, NEW pack \in BOOLEAN, NEW distinct \in Nat,
           NEW p, p.sizeGate \in Nat, p.autoBelow \in Nat,
           NeedsApproval(size, complete, pack, distinct, p)
    PROVE  NeedsApproval(bigger, complete, pack, distinct, p)
  BY DEF NeedsApproval
-----------------------------------------------------------------------------
(* Keys in order.  What holds of every finite set of keys is shown of a      *)
(* smallest one for which it would fail.                                     *)

AllKeys == Int \X Int

\* The order of keys is total, transitive and antisymmetric.
LEMMA KeyOrder ==
    ASSUME NEW x \in AllKeys, NEW y \in AllKeys
    PROVE  /\ UpTo(x, x)
           /\ UpTo(x, y) \/ UpTo(y, x)
           /\ UpTo(x, y) /\ UpTo(y, x) => x = y
           /\ \A z \in AllKeys : UpTo(x, y) /\ UpTo(y, z) => UpTo(x, z)
  BY DEF UpTo, AllKeys

\* Sets of keys that fail a test have one among them with no smaller one.
LEMMA Smallest ==
    ASSUME NEW S, IsFiniteSet(S), NEW Bad \in SUBSET (SUBSET S), Bad # {}
    PROVE  \E T \in Bad : IsFiniteSet(T) /\ \A U \in Bad : U \subseteq T => U = T
  <1>1. IsWellFoundedOn(StrictSubsetOrdering(S), FiniteSubsetsOf(S))
    BY FS_StrictSubsetOrderingWellFounded
  <1>2. Bad \subseteq FiniteSubsetsOf(S)
    BY FS_FiniteSubsetsOfFinite
  <1>3. PICK T \in Bad : \A U \in Bad : <<U, T>> \notin StrictSubsetOrdering(S)
    BY <1>1, <1>2, WFMin, Zenon
  <1>4. \A U \in Bad : U \subseteq T => U = T
    BY <1>3 DEF StrictSubsetOrdering
  <1>5. IsFiniteSet(T)
    BY FS_Subset
  <1> QED
    BY <1>4, <1>5

\* A finite set that is not empty has an extreme element in every total order.
LEMMA Extreme ==
    ASSUME NEW S, IsFiniteSet(S), S # {}, NEW R,
           \A x, y \in S : <<x, y>> \in R \/ <<y, x>> \in R,
           \A x, y, z \in S : <<x, y>> \in R /\ <<y, z>> \in R => <<x, z>> \in R
    PROVE  \E m \in S : \A k \in S : <<k, m>> \in R
  <1> DEFINE HasLast(T) == \E m \in T : \A k \in T : <<k, m>> \in R
             Bad == {T \in SUBSET S : T # {} /\ ~HasLast(T)}
  <1>1. SUFFICES ASSUME Bad # {} PROVE FALSE
    OBVIOUS
  <1>2. Bad \in SUBSET (SUBSET S) /\ \A T \in SUBSET S : T # {} /\ ~HasLast(T) <=> T \in Bad
    OBVIOUS
  <1> HIDE DEF Bad
  <1>3. PICK T \in Bad : \A U \in Bad : U \subseteq T => U = T
    BY <1>1, <1>2, Smallest
  <1>4. T \in SUBSET S /\ T # {} /\ ~HasLast(T)
    BY <1>2
  <1>5. PICK x \in T : TRUE
    BY <1>4
  <1>6. T \ {x} \notin Bad /\ T \ {x} \in SUBSET S
    BY <1>3, <1>4, <1>5
  <1>7. CASE T \ {x} = {}
    BY <1>4, <1>5, <1>7
  <1>8. CASE T \ {x} # {}
    <2>1. PICK m \in T \ {x} : \A k \in T \ {x} : <<k, m>> \in R
      BY <1>2, <1>6, <1>8
    <2>2. CASE <<m, x>> \in R
      <3>1. \A k \in T : <<k, x>> \in R
        BY <1>4, <2>1, <2>2
      <3> QED
        BY <1>4, <1>5, <3>1
    <2>3. CASE <<x, m>> \in R
      BY <1>4, <2>1, <2>3
    <2> QED
      BY <1>4, <2>1, <2>2, <2>3
  <1> QED
    BY <1>7, <1>8

\* A finite set of keys that is not empty has a first and a last one.
LEMMA EndsOfKeys ==
    ASSUME NEW S \in SUBSET AllKeys, IsFiniteSet(S), S # {}
    PROVE  /\ \E m \in S : \A k \in S : UpTo(k, m)
           /\ \E m \in S : \A k \in S : UpTo(m, k)
  <1> DEFINE R == {e \in S \X S : UpTo(e[1], e[2])}
             Q == {e \in S \X S : UpTo(e[2], e[1])}
  <1>1. \A x, y \in S : (<<x, y>> \in R <=> UpTo(x, y)) /\ (<<x, y>> \in Q <=> UpTo(y, x))
    OBVIOUS
  <1> HIDE DEF R, Q
  <1>2. \E m \in S : \A k \in S : <<k, m>> \in R
    <2>1. /\ \A x, y \in S : <<x, y>> \in R \/ <<y, x>> \in R
          /\ \A x, y, z \in S : <<x, y>> \in R /\ <<y, z>> \in R => <<x, z>> \in R
      BY <1>1, KeyOrder
    <2> QED
      BY <2>1, Extreme
  <1>3. \E m \in S : \A k \in S : <<k, m>> \in Q
    <2>1. /\ \A x, y \in S : <<x, y>> \in Q \/ <<y, x>> \in Q
          /\ \A x, y, z \in S : <<x, y>> \in Q /\ <<y, z>> \in Q => <<x, z>> \in Q
      BY <1>1, KeyOrder
    <2> QED
      BY <2>1, Extreme
  <1> QED
    BY <1>1, <1>2, <1>3

\* f lists S in ascending order.
Lists(f, S) ==
    /\ f \in [1..Cardinality(S) -> S]
    /\ \A i, j \in 1..Cardinality(S) : i < j => f[i] # f[j] /\ UpTo(f[i], f[j])

\* A list is made longer by a key behind all of it.
LEMMA OneMore ==
    ASSUME NEW S \in SUBSET AllKeys, IsFiniteSet(S), NEW m \in S,
           \A k \in S : UpTo(k, m),
           NEW f, Lists(f, S \ {m})
    PROVE  \E g : Lists(g, S)
  <1> DEFINE n == Cardinality(S)
             g == [i \in 1..n |-> IF i = n THEN m ELSE f[i]]
  <1>1. n \in Nat \ {0} /\ Cardinality(S \ {m}) = n - 1
    BY FS_CardinalityType, FS_RemoveElement, FS_EmptySet
  <1> HIDE DEF n
  <1>2. f \in [1..(n - 1) -> S \ {m}]
    BY <1>1 DEF Lists
  <1>3. \A i, j \in 1..(n - 1) : i < j => f[i] # f[j] /\ UpTo(f[i], f[j])
    BY <1>1 DEF Lists
  <1>4. g \in [1..n -> S]
    BY <1>1, <1>2
  <1>5. ASSUME NEW i \in 1..n, NEW j \in 1..n, i < j
        PROVE  g[i] # g[j] /\ UpTo(g[i], g[j])
    <2>1. i \in 1..(n - 1) /\ g[i] = f[i]
      BY <1>1, <1>5
    <2>2. CASE j = n
      BY <1>2, <2>1, <2>2
    <2>3. CASE j # n
      BY <1>1, <1>3, <1>5, <2>1, <2>3
    <2> QED
      BY <2>2, <2>3
  <1>6. Lists(g, S)
    BY <1>4, <1>5 DEF Lists, n
  <1> QED
    BY <1>6

\* Every finite set of keys can be listed in ascending order.
LEMMA OrderExists ==
    ASSUME NEW S \in SUBSET AllKeys, IsFiniteSet(S)
    PROVE  \E f : Lists(f, S)
  <1> DEFINE Bad == {T \in SUBSET S : ~\E f : Lists(f, T)}
  <1>1. SUFFICES ASSUME Bad # {} PROVE FALSE
    OBVIOUS
  <1>2. Bad \in SUBSET (SUBSET S) /\ \A T \in SUBSET S : T \in Bad <=> ~\E f : Lists(f, T)
    OBVIOUS
  <1> HIDE DEF Bad
  <1>3. PICK T \in Bad : IsFiniteSet(T) /\ \A U \in Bad : U \subseteq T => U = T
    BY <1>1, <1>2, Smallest
  <1>4. CASE T = {}
    <2>1. Cardinality(T) = 0
      BY <1>4, FS_EmptySet
    <2>2. Lists([i \in 1..Cardinality(T) |-> i], T)
      BY <2>1 DEF Lists
    <2> QED
      BY <1>2, <2>2
  <1>5. CASE T # {}
    <2>1. PICK m \in T : \A k \in T : UpTo(k, m)
      BY <1>2, <1>3, <1>5, EndsOfKeys
    <2>2. T \ {m} \notin Bad
      BY <1>3, <2>1
    <2>3. PICK f : Lists(f, T \ {m})
      BY <1>2, <2>2
    <2>4. T \in SUBSET AllKeys
      BY <1>2
    <2> QED
      BY <1>2, <1>3, <2>1, <2>3, <2>4, OneMore
  <1> QED
    BY <1>4, <1>5

\* InOrder lists every key of a finite set, and each of them once.
LEMMA InOrderLists ==
    ASSUME NEW S \in SUBSET AllKeys, IsFiniteSet(S)
    PROVE  /\ DOMAIN InOrder(S) = 1..Cardinality(S)
           /\ \A i \in DOMAIN InOrder(S) : InOrder(S)[i] \in S
           /\ \A i, j \in DOMAIN InOrder(S) : InOrder(S)[i] = InOrder(S)[j] => i = j
           /\ \A k \in S : \E i \in DOMAIN InOrder(S) : InOrder(S)[i] = k
  <1> DEFINE f == InOrder(S)
             n == Cardinality(S)
  <1>1. Lists(f, S)
    <2>1. PICK g : Lists(g, S)
      BY OrderExists
    <2> QED
      BY <2>1 DEF Lists, InOrder
  <1>2. n \in Nat
    BY FS_CardinalityType
  <1> HIDE DEF f, n
  <1>3. f \in [1..n -> S]
    BY <1>1 DEF Lists, n
  <1>4. \A i, j \in 1..n : f[i] = f[j] => i = j
    BY <1>1, <1>2 DEF Lists, n
  <1>5. f \in Injection(1..n, S)
    BY <1>3, <1>4 DEF Injection, IsInjective
  <1>6. Cardinality(1..n) = n
    BY <1>2, FS_Interval
  <1>7. f \in Surjection(1..n, S)
    BY <1>5, <1>6, FS_Injection DEF n
  <1>8. \A k \in S : \E i \in 1..n : f[i] = k
    BY <1>7 DEF Surjection
  <1> QED
    BY <1>3, <1>4, <1>8 DEF f, n
-----------------------------------------------------------------------------
(* The season being watched *)

\* The high-water mark of a history is one episode, and there is none without a
\* history (watched_high_water).
LEMMA OneHighWater ==
    ASSUME NEW watched \in SUBSET AllKeys, IsFiniteSet(watched)
    PROVE  /\ \A j, k \in WatchedHighWater(watched) : j = k
           /\ WatchedHighWater(watched) = {} <=> watched = {}
  <1>1. ASSUME NEW j \in WatchedHighWater(watched), NEW k \in WatchedHighWater(watched)
        PROVE  j = k
    <2>1. j \in AllKeys /\ k \in AllKeys /\ UpTo(j, k) /\ UpTo(k, j)
      BY DEF WatchedHighWater
    <2> QED
      BY <2>1, KeyOrder
  <1>2. watched # {} => WatchedHighWater(watched) # {}
    <2>1. watched # {} => \E m \in watched : \A k \in watched : UpTo(k, m)
      BY EndsOfKeys
    <2> QED
      BY <2>1 DEF WatchedHighWater
  <1> QED
    BY <1>1, <1>2 DEF WatchedHighWater

\* A show that is followed season by season never has more than two seasons of
\* backlog out to search at a time: the one being watched and, near its end,
\* the one after it (current_season, unlocked_next_season).
THEOREM TwoSeasonsAtMost ==
    ASSUME NEW listing, NEW watched \in SUBSET AllKeys, IsFiniteSet(watched),
           \A k \in listing : Season(k) \in Int,
           NEW lead, NEW back
    PROVE  \A s, t \in {r \in Int :
                        BacklogAllows("current_season", r,
                                      CurrentSeason(listing, watched, back),
                                      UnlockedNextSeason(listing, watched, lead))} :
               s = t \/ s = t + 1 \/ t = s + 1
  <1> DEFINE current == CurrentSeason(listing, watched, back)
             unlocked == UnlockedNextSeason(listing, watched, lead)
  <1> SUFFICES \A s, t \in unlocked \cup current : s = t \/ s = t + 1 \/ t = s + 1
    BY DEF BacklogAllows
  <1>1. ASSUME NEW s \in unlocked
        PROVE  \E mark \in WatchedHighWater(watched) : s = Season(mark) + 1
    BY DEF UnlockedNextSeason
  <1>2. ASSUME NEW s \in current, watched # {}
        PROVE  \E mark \in WatchedHighWater(watched) : s = Season(mark)
    BY <1>2 DEF CurrentSeason
  <1>3. \A k \in WatchedHighWater(watched) : Season(k) \in Int
    BY DEF WatchedHighWater, AllKeys, Season
  <1>4. CASE watched = {}
    <2>1. unlocked = {}
      BY <1>1, <1>4 DEF WatchedHighWater
    <2>2. current \subseteq Int /\ \A s, t \in current : s <= t
      BY <1>4 DEF CurrentSeason, SeasonsConsidered, SeasonNumbers, AllEpisodeKeys
    <2>3. \A s, t \in current : s = t
      BY <2>2
    <2> QED
      BY <2>1, <2>3, Zenon
  <1>5. CASE watched # {}
    <2>1. PICK mark \in WatchedHighWater(watched) :
            /\ Season(mark) \in Int
            /\ \A s \in unlocked : s = Season(mark) + 1
            /\ \A s \in current : s = Season(mark)
      BY <1>1, <1>2, <1>3, <1>5, OneHighWater
    <2> HIDE DEF current, unlocked
    <2> QED
      BY <2>1
  <1> QED
    BY <1>4, <1>5

-----------------------------------------------------------------------------
(* The searches that are planned *)

EpisodeKeys == Nat \X (Nat \ {0})

\* Would what target t finds contain the episode k?
LooksFor(t, k) == t.season = Season(k) /\ t.episode \in {0, Number(k)}

\* Specials count as history: of a series of which nothing but specials has been
\* watched, current_season sends no aired episode out to search, unless following
\* on has unlocked season 1 (the season being watched is 0, plan_show_wants).
THEOREM OnlySpecialsSeen ==
    ASSUME NEW listing, NEW air, NEW have, NEW watched, NEW p, NEW today,
           watched # {}, \A k \in watched : Season(k) = 0,
           p.backlog = "current_season",
           NEW k \in PlanShowWants(listing, air, have, watched, p, today),
           air[k] # Unknown, air[k] < today - AtLeast(p.grace, 0)
    PROVE  p.sequential /\ Season(k) = 1
  <1> DEFINE current == CurrentSeason(listing, watched, p.back)
             unlocked == IF p.sequential
                         THEN UnlockedNextSeason(listing, watched, p.lead) ELSE {}
  <1>1. /\ k \in AllEpisodeKeys(listing)
        /\ BacklogAllows(p.backlog, Season(k), current, unlocked)
    BY DEF PlanShowWants
  <1>2. Season(k) > 0
    BY <1>1 DEF AllEpisodeKeys
  <1>3. \A s \in current : s = 0
    BY DEF CurrentSeason, WatchedHighWater
  <1>4. \A s \in unlocked : s = 1 /\ p.sequential
    BY DEF UnlockedNextSeason, WatchedHighWater
  <1>5. Season(k) \in unlocked \/ Season(k) \in current
    BY <1>1 DEF BacklogAllows
  <1> QED
    BY <1>2, <1>3, <1>4, <1>5

\* One search per episode: each of them is looked for.
LEMMA SinglesLook ==
    ASSUME NEW S \in SUBSET (Nat \X Nat), IsFiniteSet(S)
    PROVE  /\ Singles(S) \in Seq(TargetType)
           /\ \A k \in S : \E i \in DOMAIN Singles(S) : LooksFor(Singles(S)[i], k)
  <1> DEFINE order == InOrder(S)
             n == Cardinality(S)
  <1>1. S \in SUBSET AllKeys
    BY DEF AllKeys
  <1>2. /\ DOMAIN order = 1..n
        /\ \A i \in 1..n : order[i] \in S
        /\ \A k \in S : \E i \in 1..n : order[i] = k
    BY <1>1, InOrderLists
  <1>3. Singles(S) = [i \in 1..n |-> Target(Season(order[i]), Number(order[i]), 1)]
    BY DEF Singles
  <1>4. n \in Nat
    BY FS_CardinalityType
  <1> HIDE DEF order, n
  <1>5. \A i \in 1..n : Target(Season(order[i]), Number(order[i]), 1) \in TargetType
    BY <1>2 DEF Target, Season, Number, TargetType
  <1>6. Singles(S) \in Seq(TargetType)
    BY <1>3, <1>4, <1>5
  <1>7. \A k \in S : \E i \in DOMAIN Singles(S) : LooksFor(Singles(S)[i], k)
    BY <1>2, <1>3 DEF LooksFor, Target
  <1> QED
    BY <1>6, <1>7

\* A plan of searches is a sequence of targets in which every missing episode
\* is looked for by exactly one of them, whatever the policy on packs makes of
\* its season, and no target looks for nothing that is missing
\* (plan_grab_targets).
THEOREM EachLookedForOnce ==
    ASSUME NEW missing \in SUBSET EpisodeKeys, IsFiniteSet(missing), NEW p
    PROVE  LET plan == PlanGrabTargets(missing, p)
           IN  /\ plan \in Seq(TargetType)
               /\ \A k \in missing : \E i \in DOMAIN plan : LooksFor(plan[i], k)
               /\ \A k \in missing : \A i, j \in DOMAIN plan :
                    LooksFor(plan[i], k) /\ LooksFor(plan[j], k) => i = j
               /\ \A i \in DOMAIN plan : \E k \in missing : LooksFor(plan[i], k)
  <1> DEFINE Of(s) == {k \in missing : Season(k) = s}
             packed == {k \in missing : TakesPack(p, Of(Season(k)))}
             heads == {k \in packed : \A j \in Of(Season(k)) : UpTo(k, j)}
             listed == heads \cup (missing \ packed)
             order == InOrder(listed)
             n == Cardinality(listed)
             plan == PlanGrabTargets(missing, p)
             PackFor(k) == Target(Season(k), 0, Cardinality(Of(Season(k))))
             SingleFor(k) == Target(Season(k), Number(k), 1)
  <1>1. listed \in SUBSET missing /\ missing \in SUBSET AllKeys
    BY DEF AllKeys, EpisodeKeys
  <1>2. IsFiniteSet(listed) /\ n \in Nat /\ listed \in SUBSET AllKeys
    BY <1>1, FS_Subset, FS_CardinalityType
  <1>3. /\ DOMAIN order = 1..n
        /\ \A i \in 1..n : order[i] \in listed
        /\ \A i, j \in 1..n : order[i] = order[j] => i = j
        /\ \A k \in listed : \E i \in 1..n : order[i] = k
    <2> HIDE DEF listed
    <2> QED
      BY <1>2, InOrderLists
  <1>4. plan = [i \in 1..n |-> IF order[i] \in packed THEN PackFor(order[i])
                               ELSE SingleFor(order[i])]
    BY <1>3 DEF PlanGrabTargets
  \* A season is packed as a whole, and its first missing key stands for it.
  <1>5. ASSUME NEW j \in missing, NEW k \in missing, Season(j) = Season(k)
        PROVE  j \in packed <=> k \in packed
    BY <1>5
  <1>6. ASSUME NEW k \in packed
        PROVE  \E h \in heads : Season(h) = Season(k)
    <2>1. Of(Season(k)) \in SUBSET AllKeys /\ Of(Season(k)) # {} /\ IsFiniteSet(Of(Season(k)))
      BY <1>1, FS_Subset
    <2>2. PICK h \in Of(Season(k)) : \A j \in Of(Season(k)) : UpTo(h, j)
      BY <2>1, EndsOfKeys
    <2>3. h \in missing /\ Season(h) = Season(k)
      BY <2>2
    <2>4. h \in packed
      BY <1>5, <2>3
    <2> QED
      BY <2>2, <2>3, <2>4
  <1>7. ASSUME NEW g \in heads, NEW h \in heads, Season(g) = Season(h)
        PROVE  g = h
    <2>1. UpTo(g, h) /\ UpTo(h, g) /\ g \in AllKeys /\ h \in AllKeys
      BY <1>1, <1>7
    <2> QED
      BY <2>1, KeyOrder
  <1>8. /\ heads \subseteq packed /\ packed \subseteq missing
        /\ listed = heads \cup (missing \ packed)
    OBVIOUS
  <1>9. ASSUME NEW k \in missing
        PROVE  /\ PackFor(k) \in TargetType /\ SingleFor(k) \in TargetType
               /\ PackFor(k).season = Season(k) /\ PackFor(k).episode = 0
               /\ SingleFor(k).season = Season(k) /\ SingleFor(k).episode = Number(k)
               /\ Number(k) # 0
    <2>1. IsFiniteSet(Of(Season(k)))
      BY FS_Subset
    <2>2. Cardinality(Of(Season(k))) \in Nat
      BY <2>1, FS_CardinalityType
    <2> HIDE DEF Of
    <2>3. Season(k) \in Nat /\ Number(k) \in Nat \ {0}
      BY DEF EpisodeKeys, Season, Number
    <2> QED
      BY <2>2, <2>3 DEF Target, TargetType
  <1> HIDE DEF Of, packed, heads, listed, order, n, plan, PackFor, SingleFor
  <1>10. DOMAIN plan = 1..n /\ \A i \in 1..n :
            /\ order[i] \in listed /\ order[i] \in missing
            /\ plan[i] \in TargetType
            /\ plan[i].season = Season(order[i])
            /\ plan[i].episode = IF order[i] \in packed THEN 0 ELSE Number(order[i])
    BY <1>1, <1>3, <1>4, <1>9
  <1>11. plan \in Seq(TargetType)
    <2>1. plan = [i \in 1..n |-> plan[i]]
      BY <1>4
    <2> QED
      BY <1>2, <1>10, <2>1
  <1>12. ASSUME NEW k \in missing
         PROVE  \E i \in DOMAIN plan : LooksFor(plan[i], k)
    <2>1. CASE k \in packed
      <3>1. PICK h \in heads : Season(h) = Season(k)
        BY <1>6, <2>1
      <3>2. PICK i \in 1..n : order[i] = h
        BY <1>3, <1>8
      <3> QED
        BY <1>8, <1>10, <3>1, <3>2 DEF LooksFor
    <2>2. CASE k \notin packed
      <3>1. PICK i \in 1..n : order[i] = k
        BY <1>3, <1>8, <2>2
      <3> QED
        BY <1>10, <3>1 DEF LooksFor
    <2> QED
      BY <2>1, <2>2
  <1>13. ASSUME NEW k \in missing, NEW i \in 1..n, LooksFor(plan[i], k)
         PROVE  /\ Season(order[i]) = Season(k)
                /\ k \in packed => order[i] \in heads
                /\ k \notin packed => order[i] = k
    <2>1. Season(order[i]) = Season(k) /\ order[i] \in missing /\ order[i] \in listed
      BY <1>10, <1>13 DEF LooksFor
    <2>2. order[i] \in packed <=> k \in packed
      BY <1>5, <2>1
    <2>3. k \in packed => order[i] \in heads
      BY <1>8, <2>1, <2>2
    <2>4. ASSUME k \notin packed PROVE order[i] = k
      <3>1. Number(order[i]) = Number(k)
        BY <1>9, <1>10, <1>13, <2>1, <2>2, <2>4 DEF LooksFor
      <3> QED
        BY <2>1, <3>1 DEF EpisodeKeys, Season, Number
    <2> QED
      BY <2>1, <2>3, <2>4
  <1>14. ASSUME NEW k \in missing, NEW i \in 1..n, NEW j \in 1..n,
                LooksFor(plan[i], k), LooksFor(plan[j], k)
         PROVE  i = j
    <2>1. order[i] = order[j]
      BY <1>7, <1>13, <1>14
    <2> QED
      BY <1>3, <2>1
  <1>15. ASSUME NEW i \in 1..n PROVE \E k \in missing : LooksFor(plan[i], k)
    BY <1>10 DEF LooksFor
  <1> QED
    BY <1>10, <1>11, <1>12, <1>14, <1>15 DEF plan
=============================================================================
