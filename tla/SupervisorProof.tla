--------------------------- MODULE SupervisorProof ---------------------------
(***************************************************************************)
(* Proofs about module Supervisor, for every set of cadences, every cap on *)
(* the back-off and every start delay.                                     *)
(***************************************************************************)
EXTENDS Supervisor, TLAPS

\* A delay is at least one unit: no cadence and no back-off makes a task spin.
LEMMA DelayIsPositive ==
    ASSUME NEW i \in Interval, NEW n \in 0..4
    PROVE  Delay(i, n) \in Nat \ {0}
  <1>1. CASE n = 0
    BY <1>1, SupervisorAssumption DEF Delay
  <1>2. ASSUME NEW f \in {2, 4, 8, 16} PROVE Least(i * f, Cap) \in Nat \ {0}
    <2>1. i \in Nat \ {0} /\ Cap \in Nat \ {0}
      BY SupervisorAssumption
    <2>2. i * f \in Nat \ {0}
      <3>1. CASE f = 2 BY <3>1, <2>1
      <3>2. CASE f = 4 BY <3>2, <2>1
      <3>3. CASE f = 8 BY <3>3, <2>1
      <3>4. CASE f = 16 BY <3>4, <2>1
      <3> QED BY <3>1, <3>2, <3>3, <3>4
    <2> QED
      BY <2>1, <2>2 DEF Least
  <1>3. CASE n # 0
    <2>1. \E f \in {2, 4, 8, 16} : Delay(i, n) = Least(i * f, Cap)
      <3>1. CASE n = 1 BY <3>1 DEF Delay
      <3>2. CASE n = 2 BY <3>2 DEF Delay
      <3>3. CASE n = 3 BY <3>3 DEF Delay
      <3>4. CASE n = 4 BY <3>4 DEF Delay
      <3> QED BY <1>3, <3>1, <3>2, <3>3, <3>4
    <2> QED
      BY <2>1, <1>2
  <1> QED
    BY <1>1, <1>3

\* The first sleep is well typed.
LEMMA TypeInit == Init => TypeOK
  <1> SUFFICES ASSUME Init PROVE TypeOK
    OBVIOUS
  <1>1. deadline \in Nat
    BY SupervisorAssumption DEF Init, Least
  <1>2. enabled \in BOOLEAN /\ wake \in BOOLEAN /\ stopping \in BOOLEAN /\ asked \in BOOLEAN
    BY Zenon DEF Init
  <1> QED
    BY <1>1, <1>2 DEF Init, TypeOK

\* _sleep sets its variables to values of their types.
LEMMA SleepType ==
    ASSUME TypeOK, NEW t \in Nat, NEW n \in 0..4, Sleep(t, n)
    PROVE  /\ phase' \in {"sleep", "run", "ended"} /\ wake' \in BOOLEAN
           /\ slept' \in Nat /\ deadline' \in Nat
  BY DelayIsPositive DEF TypeOK, Sleep, Least

\* No request and no step of the loop leaves the types.
LEMMA TypeStep == TypeOK /\ [Next]_vars => TypeOK'
  <1> SUFFICES ASSUME TypeOK, [Next]_vars PROVE TypeOK'
    OBVIOUS
  <1>1. CASE Trigger
    BY <1>1 DEF Trigger, TypeOK
  <1>2. ASSUME NEW on \in BOOLEAN, SetEnabled(on) PROVE TypeOK'
    BY <1>2 DEF SetEnabled, TypeOK
  <1>3. ASSUME NEW i \in Interval, Configure(i) PROVE TypeOK'
    BY <1>3 DEF Configure, TypeOK
  <1>4. CASE Stop
    BY <1>4 DEF Stop, TypeOK
  <1>5. CASE Wake
    <2>1. CASE enabled
      <3>1. /\ phase' = "run" /\ asked' = FALSE /\ wake' = wake
            /\ slept' = 0 /\ deadline' = 0
        BY <1>5, <2>1, Zenon DEF Wake, Resume
      <3>2. asked' \in BOOLEAN
        BY <3>1, Zenon
      <3> QED
        BY <1>5, <3>1, <3>2 DEF Wake, TypeOK
    <2>2. CASE ~enabled
      <3>1. Sleep(1, errors) /\ 1 \in Nat /\ errors \in 0..4
        BY <1>5, <2>2 DEF Wake, Resume, TypeOK
      <3> QED
        <4>1. phase' \in {"sleep", "run", "ended"} /\ wake' \in BOOLEAN
              /\ slept' \in Nat /\ deadline' \in Nat
          BY <3>1, SleepType
        <4> QED
          BY <1>5, <2>2, <4>1 DEF Wake, Resume, TypeOK
    <2> QED
      BY <2>1, <2>2
  <1>6. CASE Poll
    <2>1. CASE SleptOn >= Recheck /\ enabled
      <3>1. /\ phase' = "run" /\ asked' = FALSE /\ wake' = wake
            /\ slept' = 0 /\ deadline' = 0
        BY <1>6, <2>1, Zenon DEF Poll, Resume
      <3>2. asked' \in BOOLEAN
        BY <3>1, Zenon
      <3> QED
        BY <1>6, <3>1, <3>2 DEF Poll, TypeOK
    <2>2. CASE SleptOn >= Recheck /\ ~enabled
      <3>1. Sleep(1, errors) /\ 1 \in Nat /\ errors \in 0..4
        BY <1>6, <2>2 DEF Poll, Resume, TypeOK
      <3> QED
        <4>1. phase' \in {"sleep", "run", "ended"} /\ wake' \in BOOLEAN
              /\ slept' \in Nat /\ deadline' \in Nat
          BY <3>1, SleepType
        <4> QED
          BY <1>6, <2>2, <4>1 DEF Poll, Resume, TypeOK
    <2>3. CASE ~(SleptOn >= Recheck)
      BY <1>6, <2>3, DelayIsPositive DEF Poll, SleptOn, Recheck, Least, TypeOK
    <2> QED
      BY <2>1, <2>2, <2>3
  <1>7. ASSUME NEW ok \in BOOLEAN, NEW jitter \in {-1, 0, 1}, Finish(ok, jitter)
        PROVE TypeOK'
    <2>1. errors' \in 0..4
      BY <1>7 DEF Finish, Errors, Least, TypeOK
    <2>2. Delay(interval, errors') \in Nat \ {0}
      BY <2>1, DelayIsPositive DEF TypeOK
    <2>3. Most(1, Delay(interval, errors') + jitter) \in Nat
      BY <2>2 DEF Most
    <2>4. Sleep(Most(1, Delay(interval, errors') + jitter), errors')
      BY <1>7 DEF Finish
    <2> QED
      BY <1>7, <2>1, <2>3, <2>4, SleepType DEF Finish, TypeOK
  <1>8. CASE End
    BY <1>8 DEF End, TypeOK
  <1>9. CASE UNCHANGED vars
    BY <1>9 DEF vars, TypeOK
  <1> QED
    BY <1>1, <1>2, <1>3, <1>4, <1>5, <1>6, <1>7, <1>8, <1>9 DEF Next, Request, Run

\* Every variable keeps its type (Supervisor, TypeOK).
THEOREM TypeCorrect == Spec => []TypeOK
  BY TypeInit, TypeStep, PTL DEF Spec

\* Only a look at the clock adds to the time slept, and only one that finds
\* the task not yet due for its current delay leaves it asleep.
LEMMA ShorteningStep ==
    ASSUME TypeOK, [Next]_vars, phase = "sleep", phase' = "sleep", slept' > slept
    PROVE  slept' < Delay(interval, errors)
  <1>1. CASE Poll
    <2>1. slept' # 0
      BY DEF TypeOK
    <2>2. ~(SleptOn >= Recheck) /\ slept' = SleptOn
      BY <1>1, <2>1 DEF Poll, Resume, Sleep
    <2>3. Delay(interval, errors) \in Nat
      BY DelayIsPositive DEF TypeOK
    <2> QED
      BY <2>2, <2>3 DEF SleptOn, Recheck, Least, TypeOK
  <1>2. ASSUME ~Poll PROVE slept' = slept \/ slept' = 0
    BY <1>2 DEF Next, Request, Run, Trigger, Stop, SetEnabled, Configure, Wake,
                Resume, Finish, Sleep, End, vars
  <1> QED
    BY <1>1, <1>2 DEF TypeOK

\* A shortened cadence takes effect at the next look at the clock, whatever
\* delay the task went to sleep with (Supervisor, ShorteningTakesEffect).
THEOREM ShorteningApplies == Spec => ShorteningTakesEffect
  <1>1. TypeOK /\ [Next]_vars
        => [phase = "sleep" /\ phase' = "sleep" /\ slept' > slept
             => slept' < Delay(interval, errors)]_vars
    BY ShorteningStep
  <1> QED
    BY <1>1, TypeCorrect, PTL DEF Spec, ShorteningTakesEffect

\* Whether it was switched off in its sleep, in a run or while it was being
\* woken: a task that is off begins no run (Supervisor, DisabledStaysOff).
THEOREM OffStaysOff == Spec => DisabledStaysOff
  <1>1. [Next]_vars => [phase # "run" /\ phase' = "run" => enabled]_vars
    <2> SUFFICES ASSUME Next, phase # "run", phase' = "run" PROVE enabled
      OBVIOUS
    <2>1. CASE Request
      BY <2>1 DEF Request, Trigger, Stop, SetEnabled, Configure
    <2>2. CASE Wake \/ Poll
      BY <2>2 DEF Wake, Poll, Resume, Sleep
    <2>3. CASE Run \/ End
      BY <2>3 DEF Run, Finish, Sleep, End
    <2> QED
      BY <2>1, <2>2, <2>3 DEF Next
  <1> QED
    BY <1>1, PTL DEF Spec, DisabledStaysOff
-----------------------------------------------------------------------------
(* The length of a sleep *)

\* A sleep has not run out: the loop never stays asleep past its deadline.
NotOverslept == phase = "sleep" => slept < deadline

\* A sleep begins with at least one unit to go.
LEMMA SleepBegins ==
    ASSUME TypeOK, NEW t \in Nat \ {0}, NEW n \in 0..4, Sleep(t, n)
    PROVE  slept' = 0 /\ deadline' \in Nat \ {0}
  BY DelayIsPositive DEF TypeOK, Sleep, Least

LEMMA NotOversleptStep ==
    ASSUME TypeOK, NotOverslept, [Next]_vars
    PROVE  NotOverslept'
  <1>1. CASE Request \/ End \/ UNCHANGED vars
    BY <1>1 DEF Request, Trigger, Stop, SetEnabled, Configure, End, vars, NotOverslept
  <1>2. ASSUME Resume, enabled PROVE NotOverslept'
    BY <1>2 DEF Resume, NotOverslept
  <1>3. ASSUME Resume, ~enabled PROVE NotOverslept'
    <2>1. Sleep(1, errors) /\ 1 \in Nat \ {0} /\ errors \in 0..4
      BY <1>3 DEF Resume, TypeOK
    <2> QED
      BY <2>1, SleepBegins DEF NotOverslept
  <1>4. CASE Wake
    BY <1>2, <1>3, <1>4 DEF Wake
  <1>5. CASE Poll
    <2>1. CASE SleptOn >= Recheck
      BY <1>2, <1>3, <1>5, <2>1 DEF Poll
    <2>2. CASE ~(SleptOn >= Recheck)
      <3>1. slept' = SleptOn /\ deadline' = Recheck
        BY <1>5, <2>2 DEF Poll
      <3>2. SleptOn \in Nat /\ Recheck \in Nat
        BY DelayIsPositive DEF SleptOn, Recheck, Least, TypeOK
      <3> QED
        BY <2>2, <3>1, <3>2 DEF NotOverslept
    <2> QED
      BY <2>1, <2>2
  <1>6. ASSUME NEW ok \in BOOLEAN, NEW jitter \in {-1, 0, 1}, Finish(ok, jitter)
        PROVE  NotOverslept'
    <2> DEFINE d == Delay(interval, errors')
    <2>1. errors' \in 0..4
      BY <1>6 DEF Finish, Errors, Least, TypeOK
    <2>2. d \in Nat \ {0}
      BY <2>1, DelayIsPositive DEF TypeOK
    <2>3. Sleep(Most(1, d + jitter), errors')
      BY <1>6 DEF Finish
    <2> HIDE DEF d
    <2>4. Most(1, d + jitter) \in Nat \ {0}
      BY <2>2 DEF Most
    <2> QED
      BY <2>1, <2>3, <2>4, SleepBegins DEF NotOverslept
  <1> QED
    BY <1>1, <1>4, <1>5, <1>6 DEF Next, Run

\* The safety behind KeepsRunning: a sleep is never overslept, whatever cadences
\* are configured under way, and every look at the clock either ends it or
\* leaves strictly less of it, the deadline never moving back.  So a sleep ends
\* after at most as many looks as it had units to go when it began.
THEOREM SleepRunsOut ==
    Spec => /\ []NotOverslept
            /\ [][Poll => \/ slept' = 0
                          \/ /\ phase' = "sleep" /\ deadline' <= deadline
                             /\ deadline' - slept' < deadline - slept]_vars
  <1>1. Init => NotOverslept
    BY SupervisorAssumption DEF Init, NotOverslept, Least
  <1>2. TypeOK /\ NotOverslept /\ [Next]_vars => NotOverslept'
    BY NotOversleptStep
  <1>3. TypeOK /\ [Next]_vars
        => [Poll => \/ slept' = 0
                    \/ /\ phase' = "sleep" /\ deadline' <= deadline
                       /\ deadline' - slept' < deadline - slept]_vars
    <2> SUFFICES ASSUME TypeOK, Poll, slept' # 0
                 PROVE  /\ phase' = "sleep" /\ deadline' <= deadline
                        /\ deadline' - slept' < deadline - slept
      OBVIOUS
    <2>1. phase' = "sleep" /\ slept' = SleptOn /\ deadline' = Recheck
      BY DEF Poll, Resume, Sleep
    <2>2. Delay(interval, errors) \in Nat
      BY DelayIsPositive DEF TypeOK
    <2> QED
      BY <2>1, <2>2 DEF SleptOn, Recheck, Least, TypeOK
  <1> QED
    BY <1>1, <1>2, <1>3, TypeCorrect, PTL DEF Spec

-----------------------------------------------------------------------------
(* The back-off *)

\* _delay_for, by the factor of the failures counted.
LEMMA DelayOf ==
    ASSUME NEW i \in Nat \ {0}
    PROVE  /\ Delay(i, 0) = i
           /\ Delay(i, 1) = Least(i * 2, Cap) /\ Delay(i, 2) = Least(i * 4, Cap)
           /\ Delay(i, 3) = Least(i * 8, Cap) /\ Delay(i, 4) = Least(i * 16, Cap)
  BY DEF Delay

\* A task that goes on failing is never run more often for it, as long as its
\* cadence is within the longest back-off ...
THEOREM BackOffBacksOff ==
    ASSUME NEW i \in Nat \ {0}, i <= Cap, NEW n \in 0..4, NEW m \in 0..4, n <= m
    PROVE  i <= Delay(i, n) /\ Delay(i, n) <= Delay(i, m) /\ Delay(i, m) <= Cap
  <1>1. Cap \in Nat
    BY SupervisorAssumption
  <1>2. \A a, b \in Nat : /\ a <= b => Least(a, Cap) <= Least(b, Cap)
                          /\ Least(a, Cap) <= Cap
                          /\ i <= a => i <= Least(a, Cap)
    BY <1>1 DEF Least
  <1>3. Least(i, Cap) = i
    BY <1>1 DEF Least
  <1> DEFINE f == [k \in 0..4 |-> CASE k = 0 -> i [] k = 1 -> i * 2 [] k = 2 -> i * 4
                                    [] k = 3 -> i * 8 [] OTHER -> i * 16]
  <1>4. \A k \in 0..4 : Delay(i, k) = Least(f[k], Cap)
    BY <1>3, DelayOf
  <1>5. \A k \in 0..4 : f[k] \in Nat /\ i <= f[k]
    OBVIOUS
  <1>6. \A k, l \in 0..4 : k <= l => f[k] <= f[l]
    OBVIOUS
  <1> HIDE DEF f
  <1> QED
    BY <1>2, <1>4, <1>5, <1>6

\* ... but one with a longer cadence is: a failing task then runs every Cap units,
\* sooner than it was configured to (supervisor.py, _delay_for).
THEOREM LongCadenceFailsFaster ==
    ASSUME NEW i \in Nat, Cap < i, NEW n \in 1..4
    PROVE  Delay(i, n) = Cap /\ Delay(i, n) < Delay(i, 0)
  <1>1. Cap \in Nat
    BY SupervisorAssumption
  <1>2. ASSUME NEW f \in {2, 4, 8, 16} PROVE Least(i * f, Cap) = Cap
    <2>1. CASE f = 2 BY <2>1, <1>1 DEF Least
    <2>2. CASE f = 4 BY <2>2, <1>1 DEF Least
    <2>3. CASE f = 8 BY <2>3, <1>1 DEF Least
    <2>4. CASE f = 16 BY <2>4, <1>1 DEF Least
    <2> QED BY <2>1, <2>2, <2>3, <2>4
  <1>3. i \in Nat \ {0}
    BY <1>1
  <1>4. n \in {1, 2, 3, 4}
    OBVIOUS
  <1> QED
    BY <1>2, <1>3, <1>4, DelayOf
=============================================================================
