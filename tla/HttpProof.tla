------------------------------ MODULE HttpProof ------------------------------
(***************************************************************************)
(* Proofs about modules Breaker, Limiter and Http, for every set of        *)
(* callers, threshold, number of attempts and bucket: the breaker trips at *)
(* its threshold, the budget is kept, a dead service is spared, and the    *)
(* limiter's lock is passed on, to those who wait in the order they came.   *)
(***************************************************************************)
EXTENDS Http, FiniteSetTheorems, SequenceTheorems, TLAPS

\* A caller that waits for the limiter or between two attempts has an attempt
\* left: without it the count of attempts would not be a natural number.
AttemptLeft == \A c \in Caller : pc[c] \in {"acquire", "pause"} => tries[c] > 0

-----------------------------------------------------------------------------
(* The breaker *)

\* However a call ends, recording it keeps the breaker's state and its count
\* in step.
LEMMA RecordKeepsStep ==
    ASSUME BreakerTypeOK, TripsAtThreshold, RecordSuccess \/ RecordFailure
    PROVE  BreakerTypeOK' /\ TripsAtThreshold'
  <1>1. CASE RecordSuccess
    BY <1>1, BreakerAssumption DEF RecordSuccess, BreakerTypeOK, TripsAtThreshold
  <1>2. CASE RecordFailure
    BY <1>2, BreakerAssumption DEF RecordFailure, BreakerTypeOK, TripsAtThreshold
  <1> QED
    BY <1>1, <1>2

\* No step of any call leaves the breaker tripped without cause or untripped
\* with the threshold reached.
LEMMA BreakerStep ==
    BreakerTypeOK /\ TripsAtThreshold /\ [Next]_vars => BreakerTypeOK' /\ TripsAtThreshold'
  <1> SUFFICES ASSUME BreakerTypeOK, TripsAtThreshold, [Next]_vars
               PROVE  BreakerTypeOK' /\ TripsAtThreshold'
    OBVIOUS
  <1>1. CASE RecordSuccess \/ RecordFailure
    BY <1>1, RecordKeepsStep
  <1>2. CASE HalfOpens \/ Cools
    BY <1>2 DEF HalfOpens, Cools, BreakerTypeOK, TripsAtThreshold
  <1>3. CASE UNCHANGED breakerVars
    BY <1>3 DEF breakerVars, BreakerTypeOK, TripsAtThreshold
  <1>4. \/ RecordSuccess \/ RecordFailure
        \/ HalfOpens \/ Cools
        \/ UNCHANGED breakerVars
    BY DEF Next, Request, Call, Send, Answered, Refused, Fails, Again, Cancel,
           GoDown, ComeUp, Recovery, Quiet, Nap, Clock, callVars, vars
  <1> QED
    BY <1>1, <1>2, <1>3, <1>4

\* The breaker has tripped exactly when the threshold was reached since the
\* last success, however the calls of any number of callers overlap
\* (Breaker, TripsAtThreshold).
THEOREM BreakerInStep == Spec => []TripsAtThreshold
  <1>1. Init => BreakerTypeOK /\ TripsAtThreshold
    BY BreakerAssumption DEF Init, BreakerInit, BreakerTypeOK, TripsAtThreshold
  <1> QED
    BY <1>1, BreakerStep, PTL DEF Spec

-----------------------------------------------------------------------------
(* The bucket *)

\* The types of everything about the bucket but who holds or awaits its lock.
BucketTypes ==
    /\ tokens \in 0..Capacity /\ idle \in 0..Capacity /\ nap \in 0..Cost
    /\ age \in 0..Window /\ spent \in Nat

\* What was spent in an observation and what could be spent at once are
\* together what the bucket held at its beginning and what has dripped in since.
Balance == spent + Refilled <= Capacity + age

\* The next look at the bucket finds at most one grain more than this one.
LEMMA LimiterStep ==
    BucketTypes /\ Balance /\ [Next]_vars => BucketTypes' /\ Balance'
  <1> SUFFICES ASSUME BucketTypes, Balance, [Next]_vars PROVE BucketTypes' /\ Balance'
    OBVIOUS
  <1> USE LimiterAssumption DEF BucketTypes, Balance, Refilled, Least
  <1>1. CASE Grant
    BY <1>1 DEF Grant
  <1>2. CASE Wait
    BY <1>2 DEF Wait
  <1>3. CASE Tick
    BY <1>3 DEF Tick
  <1>4. CASE Observe
    BY <1>4 DEF Observe
  <1>5. CASE UNCHANGED <<tokens, idle, age, spent>> /\ (nap' = nap \/ nap' = 0)
    BY <1>5
  <1> HIDE DEF BucketTypes, Balance, Refilled, Least
  <1>6. ASSUME NEW c \in Caller, Acquire(c) \/ LeaveLine(c)
        PROVE  UNCHANGED <<tokens, idle, age, spent>> /\ (nap' = nap \/ nap' = 0)
    BY <1>6 DEF Acquire, LeaveLine
  <1>7. CASE UNCHANGED limiterVars
    BY <1>5, <1>7 DEF limiterVars
  <1>8. \/ Grant \/ Wait \/ Tick \/ Observe
        \/ \E c \in Caller : Acquire(c) \/ LeaveLine(c)
        \/ UNCHANGED limiterVars
    BY DEF Next, Request, Call, Send, Answered, Refused, Fails, Again, Cancel,
           Return, GoDown, ComeUp, Recovery, Quiet, Nap, Clock, callVars, vars
  <1> QED
    BY <1>1, <1>2, <1>3, <1>4, <1>5, <1>6, <1>7, <1>8

\* In any stretch of time the requests stay within a full bucket and what
\* drips in meanwhile, whoever sends them (Limiter, BudgetKept).
THEOREM InsideBudget == Spec => []BudgetKept
  <1>1. Init => BucketTypes /\ Balance
    BY LimiterAssumption DEF Init, LimiterInit, BucketTypes, Balance, Refilled, Least
  <1>2. BucketTypes /\ Balance => BudgetKept
    BY LimiterAssumption DEF BucketTypes, Balance, BudgetKept, Refilled, Least
  <1> QED
    BY <1>1, <1>2, LimiterStep, PTL DEF Spec

-----------------------------------------------------------------------------
(* Types *)

\* The lock goes to a caller or to nobody.
LEMMA ReleaseType ==
    ASSUME queue \in Seq(Caller), Release
    PROVE  holder' \in Caller \cup {NoCaller} /\ queue' \in Seq(Caller)
  <1>1. CASE queue = <<>>
    BY <1>1 DEF Release
  <1>2. CASE queue # <<>>
    <2>1. Head(queue) \in Caller /\ Tail(queue) \in Seq(Caller)
      BY <1>2, HeadTailProperties
    <2> QED
      BY <1>2, <2>1 DEF Release
  <1> QED
    BY <1>1, <1>2

\* Taking a coroutine out of the line leaves a line of coroutines.
LEMMA WithoutType ==
    ASSUME queue \in Seq(Caller), NEW i \in 1..Len(queue)
    PROVE  Without(i) \in Seq(Caller)
  <1>1. SubSeq(queue, 1, i - 1) \in Seq(Caller)
    <2>1. \A j \in 1..(i - 1) : queue[j] \in Caller
      BY ElementOfSeq
    <2> QED
      BY <2>1, SubSeqProperties
  <1>2. SubSeq(queue, i + 1, Len(queue)) \in Seq(Caller)
    BY SubSeqProperties, LenProperties
  <1> QED
    BY <1>1, <1>2, ConcatProperties DEF Without

Types == TypeOK /\ TripsAtThreshold /\ AttemptLeft

\* The part of the types that the bucket's operations touch.
LEMMA LimiterType ==
    ASSUME Types, [Next]_vars
    PROVE  LimiterTypeOK'
  <1> USE DEF LimiterTypeOK
  <1>1. LimiterTypeOK /\ queue \in Seq(Caller)
    BY DEF Types, TypeOK
  <1>2. ASSUME NEW c \in Caller, Acquire(c) PROVE LimiterTypeOK'
    BY <1>1, <1>2, AppendProperties DEF Acquire
  <1>3. ASSUME NEW c \in Caller, LeaveLine(c) PROVE LimiterTypeOK'
    <2>1. holder' \in Caller \cup {NoCaller} /\ queue' \in Seq(Caller)
      BY <1>1, <1>3, ReleaseType, WithoutType DEF LeaveLine
    <2>2. nap' \in 0..Cost /\ UNCHANGED <<tokens, idle, age, spent>>
      BY <1>1, <1>3, LimiterAssumption DEF LeaveLine
    <2> QED
      BY <1>1, <2>1, <2>2
  <1>4. CASE Grant
    <2>1. holder' \in Caller \cup {NoCaller} /\ queue' \in Seq(Caller)
      BY <1>1, <1>4, ReleaseType DEF Grant
    <2>2. tokens' \in 0..Capacity /\ idle' \in 0..Capacity /\ spent' \in Nat
      BY <1>1, <1>4, LimiterAssumption DEF Grant, Refilled, Least
    <2>3. UNCHANGED <<nap, age>>
      BY <1>4 DEF Grant
    <2> QED
      BY <1>1, <2>1, <2>2, <2>3
  <1>5. CASE Wait
    BY <1>1, <1>5, LimiterAssumption DEF Wait, Refilled, Least
  <1>6. CASE Tick
    BY <1>1, <1>6, LimiterAssumption DEF Tick, Least
  <1>7. CASE Observe
    BY <1>1, <1>7, LimiterAssumption DEF Observe
  <1>8. CASE UNCHANGED limiterVars
    BY <1>1, <1>8 DEF limiterVars
  <1>9. \/ Grant \/ Wait \/ Tick \/ Observe
        \/ \E c \in Caller : Acquire(c) \/ LeaveLine(c)
        \/ UNCHANGED limiterVars
    BY DEF Next, Request, Call, Send, Answered, Refused, Fails, Again, Cancel,
           Return, GoDown, ComeUp, Recovery, Quiet, Nap, Clock, callVars, vars
  <1> QED
    BY <1>2, <1>3, <1>4, <1>5, <1>6, <1>7, <1>8, <1>9

\* The types of a call's own variables, with an attempt left whenever one may
\* still be made.
CallTypes ==
    /\ up \in BOOLEAN
    /\ tries \in [Caller -> 0..Attempts]
    /\ pc \in [Caller -> {"idle", "acquire", "send", "pause"}]
    /\ sent \in Nat
    /\ AttemptLeft

\* No step of a call leaves them.
LEMMA CallStep == CallTypes /\ [Next]_vars => CallTypes'
  <1> SUFFICES ASSUME CallTypes, [Next]_vars PROVE CallTypes'
    OBVIOUS
  <1> USE HttpAssumption DEF CallTypes, AttemptLeft
  <1>1. ASSUME NEW c \in Caller, Call(c) PROVE CallTypes'
    BY <1>1 DEF Call
  <1>2. ASSUME NEW c \in Caller, Send(c) PROVE CallTypes'
    BY <1>2 DEF Send
  <1>3. ASSUME NEW c \in Caller, Return(c), (sent' = 0 \/ sent' = sent) PROVE CallTypes'
    BY <1>3 DEF Return
  <1>4. ASSUME NEW c \in Caller, Fails(c), ~LastTry(c) PROVE CallTypes'
    BY <1>4 DEF Fails, LastTry
  <1>5. ASSUME NEW c \in Caller, Again(c) PROVE CallTypes'
    BY <1>5 DEF Again
  <1>6. ASSUME NEW c \in Caller, Cancel(c) PROVE CallTypes'
    BY <1>6 DEF Cancel
  <1>7. CASE GoDown \/ ComeUp
    BY <1>7, Zenon DEF GoDown, ComeUp
  <1>8. CASE Recovery
    BY <1>8 DEF Recovery
  <1>9. CASE UNCHANGED callVars
    BY <1>9 DEF callVars
  <1> HIDE DEF CallTypes, AttemptLeft
  <1>10. ASSUME NEW c \in Caller, Answered(c) \/ Refused(c) \/ Fails(c)
         PROVE  \/ Return(c) /\ (sent' = 0 \/ sent' = sent)
                \/ Fails(c) /\ ~LastTry(c)
    BY <1>10 DEF Answered, Refused, Fails
  <1>11. \/ \E c \in Caller : \/ Call(c) \/ Send(c) \/ Again(c) \/ Cancel(c)
                             \/ Answered(c) \/ Refused(c) \/ Fails(c)
         \/ GoDown \/ ComeUp \/ Recovery \/ UNCHANGED callVars
    BY DEF Next, Request, Quiet, Nap, Clock, vars
  <1> QED
    BY <1>1, <1>2, <1>3, <1>4, <1>5, <1>6, <1>7, <1>8, <1>9, <1>10, <1>11

LEMMA TypesInit == Init => Types
  <1>1. Init => BreakerTypeOK /\ TripsAtThreshold
    BY BreakerAssumption DEF Init, BreakerInit, BreakerTypeOK, TripsAtThreshold
  <1>2. Init => LimiterTypeOK
    BY LimiterAssumption, EmptySeq DEF Init, LimiterInit, LimiterTypeOK
  <1>3. Init => CallTypes
    BY HttpAssumption DEF Init, CallTypes, AttemptLeft
  <1> QED
    BY <1>1, <1>2, <1>3 DEF Types, TypeOK, CallTypes

LEMMA TypesStep == Types /\ [Next]_vars => Types'
  BY BreakerStep, LimiterType, CallStep DEF Types, TypeOK, CallTypes

\* Every variable keeps its type: no call ever makes more than Attempts
\* requests, the bucket is never overdrawn and never holds more than its
\* capacity (Http, TypeOK).
THEOREM TypeCorrect == Spec => []TypeOK
  <1>1. Types => TypeOK
    BY DEF Types
  <1> QED
    BY <1>1, TypesInit, TypesStep, PTL DEF Spec

-----------------------------------------------------------------------------
(* What a dead service still gets *)

\* The requests that the calls under way may still make.
Remaining == {a \in Caller \X (1..Attempts) : a[2] <= tries[a[1]]}

\* While the breaker is open nothing adds to them: with what was sent since,
\* they are at most what the other callers had left when it opened.
Sparing ==
    /\ opened # "recently" => sent = 0
    /\ opened = "recently" =>
        sent + Cardinality(Remaining) <= (Cardinality(Caller) - 1) * Attempts

\* What remains is a finite number of requests.
LEMMA RemainingCount ==
    ASSUME NEW S \in SUBSET (Caller \X (1..Attempts))
    PROVE  /\ IsFiniteSet(S) /\ Cardinality(S) \in Nat
           /\ \A T \in SUBSET S : Cardinality(T) \in Nat /\ Cardinality(T) <= Cardinality(S)
  <1>1. IsFiniteSet(Caller \X (1..Attempts))
    <2>1. IsFiniteSet(Caller) /\ IsFiniteSet(1..Attempts)
      BY HttpAssumption, FS_Interval
    <2> QED
      BY <2>1, FS_Product
  <1>2. IsFiniteSet(S)
    BY <1>1, FS_Subset
  <1> QED
    BY <1>2, FS_Subset, FS_CardinalityType

\* All the attempts of the callers but one.
LEMMA AllButOne ==
    ASSUME NEW c \in Caller
    PROVE  LET others == (Caller \ {c}) \X (1..Attempts)
           IN  /\ IsFiniteSet(others)
               /\ Cardinality(others) = (Cardinality(Caller) - 1) * Attempts
  <1>1. IsFiniteSet(Caller \ {c}) /\ Cardinality(Caller \ {c}) = Cardinality(Caller) - 1
    BY HttpAssumption, FS_RemoveElement
  <1>2. IsFiniteSet(1..Attempts) /\ Cardinality(1..Attempts) = Attempts
    BY HttpAssumption, FS_Interval
  <1>3. \A S, T : IsFiniteSet(S) /\ IsFiniteSet(T)
          => IsFiniteSet(S \X T) /\ Cardinality(S \X T) = Cardinality(S) * Cardinality(T)
    BY FS_Product, Zenon
  <1>4. /\ IsFiniteSet((Caller \ {c}) \X (1..Attempts))
        /\ Cardinality((Caller \ {c}) \X (1..Attempts))
             = Cardinality(Caller \ {c}) * Cardinality(1..Attempts)
    BY <1>1, <1>2, <1>3, Zenon
  <1> QED
    BY <1>1, <1>2, <1>4, Zenon

\* A step that starts no call leaves no attempt more; one that sends a request
\* leaves one less.
LEMMA RemainingStep ==
    ASSUME CallTypes, CallTypes', [Next]_vars, opened = "recently"
    PROVE  \/ Remaining' \subseteq Remaining /\ (sent' = sent \/ sent' = 0)
           \/ /\ sent' = sent + 1
              /\ \E a \in Remaining : Remaining' = Remaining \ {a}
  <1> USE DEF CallTypes
  <1>1. ASSUME NEW c \in Caller, Send(c)
        PROVE  sent' = sent + 1 /\ \E a \in Remaining : Remaining' = Remaining \ {a}
    <2> DEFINE a == <<c, tries[c]>>
    <2>1. tries[c] \in 1..Attempts
      BY <1>1, HttpAssumption DEF Send, AttemptLeft
    <2>2. a \in Remaining
      BY <2>1 DEF Remaining
    <2>3. tries' = [tries EXCEPT ![c] = tries[c] - 1] /\ sent' = sent + 1
      BY <1>1 DEF Send
    <2>4. Remaining' = Remaining \ {a}
      <3>1. ASSUME NEW e \in Caller, NEW n \in 1..Attempts
            PROVE  n <= tries'[e] <=> n <= tries[e] /\ <<e, n>> # a
        <4>1. CASE e = c
          BY <2>1, <2>3, <4>1
        <4>2. CASE e # c
          BY <2>3, <4>2
        <4> QED
          BY <4>1, <4>2
      <3> QED
        BY <3>1 DEF Remaining
    <2> QED
      BY <2>2, <2>3, <2>4
  <1>2. ASSUME \A e \in Caller : tries'[e] = tries[e] \/ tries'[e] = 0
        PROVE  Remaining' \subseteq Remaining
    BY <1>2 DEF Remaining
  <1>3. ASSUME NEW c \in Caller, Return(c) \/ Cancel(c) \/ Again(c) \/ Fails(c)
        PROVE  \A e \in Caller : tries'[e] = tries[e] \/ tries'[e] = 0
    BY <1>3 DEF Return, Cancel, Again, Fails
  <1>4. ASSUME NEW c \in Caller, Answered(c) \/ Refused(c) \/ Fails(c) \/ Again(c) \/ Cancel(c)
        PROVE  sent' = sent \/ sent' = 0
    BY <1>4 DEF Answered, Refused, Fails, Again, Cancel
  <1>5. ASSUME NEW c \in Caller, Answered(c) \/ Refused(c) PROVE Return(c)
    BY <1>5 DEF Answered, Refused
  <1>6. CASE GoDown \/ ComeUp \/ Recovery \/ UNCHANGED callVars
    <2>1. tries' = tries /\ (sent' = sent \/ sent' = 0)
      BY <1>6 DEF GoDown, ComeUp, Recovery, callVars
    <2> QED
      BY <2>1, <1>2
  <1>7. ASSUME NEW c \in Caller PROVE ~Call(c)
    BY DEF Call, Admits
  <1> HIDE DEF CallTypes
  <1>8. \/ \E c \in Caller : \/ Send(c) \/ Answered(c) \/ Refused(c) \/ Fails(c)
                            \/ Again(c) \/ Cancel(c)
        \/ GoDown \/ ComeUp \/ Recovery \/ UNCHANGED callVars
    BY <1>7 DEF Next, Request, Quiet, Nap, Clock, vars
  <1> QED
    BY <1>1, <1>2, <1>3, <1>4, <1>5, <1>6, <1>8

\* The breaker opens when a caller's last attempt fails: that caller has none
\* left.
LEMMA Opening ==
    ASSUME CallTypes, CallTypes', [Next]_vars, opened # "recently", opened' = "recently"
    PROVE  \E c \in Caller : tries'[c] = 0 /\ sent' = sent
  <1>1. PICK c \in Caller : Fails(c) /\ LastTry(c)
    BY DEF Next, Request, Call, Send, Answered, Refused, Fails, Again, Cancel,
           GoDown, ComeUp, Recovery, Quiet, Nap, Clock, vars, breakerVars,
           RecordSuccess, RecordFailure, HalfOpens, Cools
  <1> QED
    BY <1>1 DEF Fails, Return, CallTypes

\* The count survives every step.
LEMMA SparingStep ==
    CallTypes /\ CallTypes' /\ Sparing /\ [Next]_vars => Sparing'
  <1> SUFFICES ASSUME CallTypes, CallTypes', Sparing, [Next]_vars PROVE Sparing'
    OBVIOUS
  <1> DEFINE bound == (Cardinality(Caller) - 1) * Attempts
  <1>0. sent \in Nat /\ sent' \in Nat
    BY DEF CallTypes
  <1>1. CASE opened' # "recently"
    <2>1. sent' = 0
      <3>1. CASE opened = "recently"
        BY <1>1, <3>1 DEF Next, Request, Call, Send, Answered, Refused, Fails, Again,
           Cancel, GoDown, ComeUp, Recovery, Quiet, Nap, Clock, vars, breakerVars,
           RecordFailure, Cools
      <3>2. CASE opened # "recently"
        <4>1. sent = 0
          BY <3>2 DEF Sparing
        <4> QED
          BY <3>2, <4>1 DEF Next, Request, Call, Send, Answered, Refused, Fails, Again,
           Cancel, GoDown, ComeUp, Recovery, Quiet, Nap, Clock, vars, callVars
      <3> QED
        BY <3>1, <3>2
    <2> QED
      BY <1>1, <2>1 DEF Sparing
  <1>2. CASE opened' = "recently" /\ opened # "recently"
    <2>1. PICK c \in Caller : tries'[c] = 0 /\ sent' = sent
      BY <1>2, Opening
    <2> DEFINE others == (Caller \ {c}) \X (1..Attempts)
    <2>2. Remaining' \subseteq others
      BY <2>1 DEF Remaining
    <2>3. Cardinality(Remaining') <= Cardinality(others)
      BY <2>2, AllButOne, FS_Subset
    <2>4. sent' = 0
      BY <1>2, <2>1 DEF Sparing
    <2>5. Cardinality(Remaining') \in Nat /\ Cardinality(others) = bound
      BY AllButOne, RemainingCount DEF Remaining
    <2> QED
      BY <1>2, <2>3, <2>4, <2>5 DEF Sparing
  <1>3. CASE opened' = "recently" /\ opened = "recently"
    <2>1. /\ IsFiniteSet(Remaining) /\ Cardinality(Remaining) \in Nat
          /\ sent + Cardinality(Remaining) <= bound
      BY <1>3, RemainingCount DEF Sparing, Remaining
    <2>2. bound \in Int
      BY HttpAssumption, FS_CardinalityType
    <2>3. CASE Remaining' \subseteq Remaining /\ (sent' = sent \/ sent' = 0)
      <3>1. Cardinality(Remaining') <= Cardinality(Remaining) /\ Cardinality(Remaining') \in Nat
        BY <2>1, <2>3, FS_Subset, FS_CardinalityType
      <3>2. sent' + Cardinality(Remaining') <= bound
        <4> HIDE DEF bound
        <4> QED
          BY <1>0, <2>1, <2>2, <2>3, <3>1
      <3> QED
        BY <1>3, <3>2 DEF Sparing
    <2>4. CASE sent' = sent + 1 /\ \E a \in Remaining : Remaining' = Remaining \ {a}
      <3>1. Cardinality(Remaining') = Cardinality(Remaining) - 1
        BY <2>1, <2>4, FS_RemoveElement
      <3>2. sent' + Cardinality(Remaining') <= bound
        <4> HIDE DEF bound
        <4> QED
          BY <1>0, <2>1, <2>2, <2>4, <3>1
      <3> QED
        BY <1>3, <3>2 DEF Sparing
    <2> QED
      BY <1>3, <2>3, <2>4, RemainingStep
  <1> QED
    BY <1>1, <1>2, <1>3

\* However many callers a service has and however their calls overlap: once the
\* breaker has opened, the service gets no more requests than the other callers
\* had attempts left, and an answer or the recovery time ends the count (Http,
\* DeadServiceSpared).
THEOREM Spared == Spec => []DeadServiceSpared
  <1>1. Init => CallTypes /\ Sparing
    BY HttpAssumption DEF Init, BreakerInit, CallTypes, AttemptLeft, Sparing
  <1>2. CallTypes /\ Sparing /\ [Next]_vars => CallTypes' /\ Sparing'
    BY CallStep, SparingStep
  <1>3. CallTypes /\ Sparing => DeadServiceSpared
    <2> SUFFICES ASSUME CallTypes, Sparing, opened = "recently"
                 PROVE  sent <= (Cardinality(Caller) - 1) * Attempts
      BY DEF DeadServiceSpared
    <2>1. Cardinality(Remaining) \in Nat /\ sent \in Nat
      BY RemainingCount DEF Remaining, CallTypes
    <2>2. (Cardinality(Caller) - 1) * Attempts \in Int
      BY HttpAssumption, FS_CardinalityType
    <2>3. sent + Cardinality(Remaining) <= (Cardinality(Caller) - 1) * Attempts
      BY DEF Sparing
    <2> HIDE DEF Remaining
    <2> QED
      BY <2>1, <2>2, <2>3
  <1> QED
    BY <1>1, <1>2, <1>3, PTL DEF Spec
-----------------------------------------------------------------------------
(* The lock and its line *)

\* Who is in line once place i has been given up: everyone but its occupant.
LEMMA WithoutOne ==
    ASSUME queue \in Seq(Caller), NEW i \in 1..Len(queue)
    PROVE  /\ Len(Without(i)) = Len(queue) - 1
           /\ \A j \in 1..(Len(queue) - 1) :
                Without(i)[j] = IF j < i THEN queue[j] ELSE queue[j + 1]
  <1> DEFINE before == SubSeq(queue, 1, i - 1)
             after == SubSeq(queue, i + 1, Len(queue))
  <1>1. /\ before \in Seq(Caller) /\ Len(before) = i - 1
        /\ \A j \in 1..(i - 1) : before[j] = queue[j]
    <2>1. \A j \in 1..(i - 1) : queue[j] \in Caller
      BY ElementOfSeq
    <2> QED
      BY <2>1, SubSeqProperties
  <1>2. /\ after \in Seq(Caller) /\ Len(after) = Len(queue) - i
        /\ \A j \in 1..(Len(queue) - i) : after[j] = queue[i + j]
    BY SubSeqProperties, LenProperties
  <1> HIDE DEF before, after
  <1>3. Len(queue) \in Nat
    BY LenProperties
  <1> DEFINE both == before \o after
  <1>4. /\ Len(both) = Len(queue) - 1
        /\ \A j \in 1..(Len(queue) - 1) :
             both[j] = IF j <= i - 1 THEN before[j] ELSE after[j - (i - 1)]
    <2>1. /\ Len(both) = Len(before) + Len(after)
          /\ \A j \in 1..(Len(before) + Len(after)) :
               both[j] = IF j <= Len(before) THEN before[j] ELSE after[j - Len(before)]
      BY <1>1, <1>2, ConcatProperties
    <2> HIDE DEF both
    <2> QED
      BY <1>1, <1>2, <1>3, <2>1
  <1> HIDE DEF both
  <1>5. ASSUME NEW j \in 1..(Len(queue) - 1)
        PROVE  both[j] = IF j < i THEN queue[j] ELSE queue[j + 1]
    <2>1. CASE j < i
      <3>1. j \in 1..(i - 1)
        BY <2>1
      <3> QED
        BY <1>1, <1>4, <2>1, <3>1
    <2>2. CASE ~(j < i)
      <3>1. j - (i - 1) \in 1..(Len(queue) - i) /\ i + (j - (i - 1)) = j + 1
        BY <1>3, <2>2
      <3>2. both[j] = after[j - (i - 1)] /\ after[j - (i - 1)] = queue[i + (j - (i - 1))]
        BY <1>2, <1>4, <2>2, <3>1
      <3> QED
        BY <2>2, <3>1, <3>2
    <2> QED
      BY <2>1, <2>2
  <1> QED
    BY <1>4, <1>5 DEF both, before, after, Without

\* The line is one of callers, each of them there once.
OneEach == \A i, j \in 1..Len(queue) : queue[i] = queue[j] => i = j

\* A caller that is not there takes its place.
LEMMA LineGrows ==
    ASSUME queue \in Seq(Caller), OneEach, NEW c \in Caller, ~InLine(c),
           queue' = Append(queue, c)
    PROVE  /\ OneEach'
           /\ \A e : InLine(e)' <=> InLine(e) \/ e = c
           /\ queue' # <<>>
  <1>1. /\ Len(queue') = Len(queue) + 1 /\ Len(queue) \in Nat
        /\ \A i \in 1..Len(queue) : queue'[i] = queue[i]
        /\ queue'[Len(queue) + 1] = c
    BY AppendProperties, LenProperties
  <1>2. queue' # <<>>
    BY <1>1
  <1>3. OneEach'
    BY <1>1 DEF OneEach, InLine
  <1>4. ASSUME NEW e PROVE InLine(e)' <=> InLine(e) \/ e = c
    BY <1>1 DEF InLine
  <1> QED
    BY <1>2, <1>3, <1>4

\* The lock goes to the head of the line, who leaves it.
LEMMA LineMoves ==
    ASSUME queue \in Seq(Caller), OneEach, Release
    PROVE  /\ OneEach'
           /\ \A e \in Caller : InLine(e) <=> InLine(e)' \/ e = holder'
           /\ ~InLine(holder)'
           /\ holder' = NoCaller => queue' = <<>>
  <1>1. CASE queue = <<>>
    <2>1. holder' = NoCaller /\ queue' = queue /\ Len(queue) = 0
      BY <1>1 DEF Release
    <2> QED
      BY <1>1, <2>1, LimiterAssumption DEF OneEach, InLine
  <1>2. CASE queue # <<>>
    <2>1. /\ holder' = queue[1] /\ Len(queue') = Len(queue) - 1
          /\ Len(queue) \in Nat \ {0} /\ holder' \in Caller
          /\ \A i \in 1..(Len(queue) - 1) : queue'[i] = queue[i + 1]
      BY <1>2, HeadTailProperties, LenProperties, EmptySeq DEF Release
    <2>2. OneEach'
      BY <2>1 DEF OneEach
    <2>3. ASSUME NEW e \in Caller PROVE InLine(e) <=> InLine(e)' \/ e = holder'
      <3>1. InLine(e) => InLine(e)' \/ e = holder'
        <4> SUFFICES ASSUME NEW i \in 1..Len(queue), queue[i] = e, e # holder'
                     PROVE  \E j \in 1..Len(queue') : queue'[j] = e
          BY DEF InLine
        <4>1. i - 1 \in 1..(Len(queue) - 1) /\ queue'[i - 1] = queue[(i - 1) + 1]
          BY <2>1
        <4> QED
          BY <2>1, <4>1
      <3>2. InLine(e)' => InLine(e)
        BY <2>1 DEF InLine
      <3>3. e = holder' => InLine(e)
        BY <2>1 DEF InLine
      <3> QED
        BY <3>1, <3>2, <3>3
    <2>4. ~InLine(holder)'
      BY <2>1 DEF OneEach, InLine
    <2>5. holder' # NoCaller
      BY <2>1, LimiterAssumption
    <2> QED
      BY <2>2, <2>3, <2>4, <2>5
  <1> QED
    BY <1>1, <1>2

\* A caller leaves its place, and the others close up.
LEMMA LineCloses ==
    ASSUME queue \in Seq(Caller), OneEach, NEW i \in 1..Len(queue), queue' = Without(i)
    PROVE  /\ OneEach'
           /\ \A e \in Caller : InLine(e)' <=> InLine(e) /\ e # queue[i]
  <1>1. /\ Len(queue') = Len(queue) - 1 /\ Len(queue) \in Nat
        /\ \A j \in 1..(Len(queue) - 1) :
             queue'[j] = IF j < i THEN queue[j] ELSE queue[j + 1]
    BY WithoutOne, LenProperties
  <1>2. OneEach'
    BY <1>1 DEF OneEach
  <1>3. ASSUME NEW e \in Caller PROVE InLine(e)' <=> InLine(e) /\ e # queue[i]
    <2>1. InLine(e)' => InLine(e) /\ e # queue[i]
      BY <1>1 DEF InLine, OneEach
    <2>2. ASSUME NEW j \in 1..Len(queue), queue[j] = e, e # queue[i] PROVE InLine(e)'
      <3>1. CASE j < i
        BY <1>1, <2>2, <3>1 DEF InLine
      <3>2. CASE j > i
        <4>1. j - 1 \in 1..Len(queue') /\ queue'[j - 1] = queue[(j - 1) + 1]
          BY <1>1, <3>2
        <4> QED
          BY <1>1, <2>2, <4>1 DEF InLine
      <3> QED
        BY <2>2, <3>1, <3>2
    <2> QED
      BY <2>1, <2>2 DEF InLine
  <1> QED
    BY <1>2, <1>3
\* The calls that wait their turn, told by where they are and by the lock.
Waiting(c) == pc[c] = "acquire"
Queued(c) == c = holder \/ InLine(c)

\* Whatever a call does, the lock and its line go on in step with the calls.
LEMMA LineStep ==
    ASSUME LimiterTypeOK, CallTypes, LockPassedOn, [Next]_vars
    PROVE  LockPassedOn'
  <1> USE DEF Waiting, Queued
  <1>1. /\ queue \in Seq(Caller) /\ holder \in Caller \cup {NoCaller} /\ NoCaller \notin Caller
        /\ pc \in [Caller -> {"idle", "acquire", "send", "pause"}]
        /\ OneEach /\ ~InLine(holder) /\ (holder = NoCaller => queue = <<>>)
        /\ \A c \in Caller : Waiting(c) <=> Queued(c)
    BY LimiterAssumption DEF LimiterTypeOK, CallTypes, LockPassedOn, OneEach
  <1>2. ASSUME OneEach', ~InLine(holder)', holder' = NoCaller => queue' = <<>>,
               \A c \in Caller : Waiting(c)' <=> Queued(c)'
        PROVE  LockPassedOn'
    BY <1>2 DEF LockPassedOn, OneEach
  <1> HIDE DEF Waiting, Queued
  <1>3. ASSUME UNCHANGED <<holder, queue>>, \A c \in Caller : Waiting(c)' <=> Waiting(c)
        PROVE  LockPassedOn'
    BY <1>1, <1>2, <1>3 DEF OneEach, InLine, Queued
  \* A call gets in line, or takes the lock.
  <1>4. ASSUME NEW c \in Caller, Call(c) \/ Again(c) PROVE LockPassedOn'
    <2>1. /\ Acquire(c) /\ ~Waiting(c)
          /\ \A e \in Caller : Waiting(e)' <=> Waiting(e) \/ e = c
      BY <1>1, <1>4 DEF Call, Again, Waiting
    <2>2. ~Queued(c)
      BY <1>1, <2>1
    <2>3. CASE holder = NoCaller
      <3>1. holder' = c /\ queue' = queue /\ Len(queue) = 0
        BY <1>1, <2>1, <2>3 DEF Acquire
      <3>2. \A e : ~InLine(e) /\ ~InLine(e)'
        BY <3>1 DEF InLine
      <3>3. OneEach'
        BY <3>1 DEF OneEach
      <3> QED
        BY <1>1, <1>2, <2>1, <2>3, <3>1, <3>2, <3>3 DEF Queued
    <2>4. CASE holder # NoCaller
      <3>1. holder' = holder /\ queue' = Append(queue, c)
        BY <2>1, <2>4 DEF Acquire
      <3>2. /\ OneEach' /\ queue' # <<>>
            /\ \A e : InLine(e)' <=> InLine(e) \/ e = c
        BY <1>1, <2>2, <3>1, LineGrows DEF Queued
      <3>3. ~InLine(holder)'
        BY <1>1, <2>2, <3>1, <3>2 DEF Queued
      <3> QED
        BY <1>1, <1>2, <2>1, <2>4, <3>1, <3>2, <3>3 DEF Queued
    <2> QED
      BY <2>3, <2>4
  \* The holder passes the lock on, with its tokens or without.
  <1>5. ASSUME NEW c \in Caller, c = holder, Release,
               \A e \in Caller : Waiting(e)' <=> Waiting(e) /\ e # c
        PROVE  LockPassedOn'
    <2>1. /\ OneEach' /\ ~InLine(holder)' /\ (holder' = NoCaller => queue' = <<>>)
          /\ \A e \in Caller : InLine(e) <=> InLine(e)' \/ e = holder'
      BY <1>1, <1>5, LineMoves
    <2> QED
      BY <1>1, <1>2, <1>5, <2>1 DEF Queued
  \* A call gives up its place.
  <1>6. ASSUME NEW c \in Caller, NEW i \in 1..Len(queue), queue[i] = c,
               queue' = Without(i), holder' = holder,
               \A e \in Caller : Waiting(e)' <=> Waiting(e) /\ e # c
        PROVE  LockPassedOn'
    <2>1. /\ OneEach'
          /\ \A e \in Caller : InLine(e)' <=> InLine(e) /\ e # c
      BY <1>1, <1>6, LineCloses
    <2>2. InLine(c)
      BY <1>6 DEF InLine
    <2>3. holder \in Caller
      <3>1. queue # <<>>
        BY <1>6
      <3> QED
        BY <1>1, <3>1
    <2> QED
      BY <1>1, <1>2, <1>6, <2>1, <2>2, <2>3 DEF Queued
  <1>7. ASSUME NEW c \in Caller, Send(c) PROVE LockPassedOn'
    <2>1. /\ c = holder /\ Release
          /\ \A e \in Caller : Waiting(e)' <=> Waiting(e) /\ e # c
      BY <1>1, <1>7 DEF Send, Grant, Waiting
    <2> QED
      BY <2>1, <1>5
  <1>8. ASSUME NEW c \in Caller, Cancel(c) PROVE LockPassedOn'
    <2>1. \A e \in Caller : Waiting(e)' <=> Waiting(e) /\ e # c
      BY <1>1, <1>8 DEF Cancel, Waiting
    <2>2. CASE pc[c] = "acquire"
      <3>1. \/ c = holder /\ Release
            \/ \E i \in 1..Len(queue) :
                 queue[i] = c /\ queue' = Without(i) /\ holder' = holder
        BY <1>8, <2>2 DEF Cancel, LeaveLine
      <3> QED
        BY <1>5, <1>6, <2>1, <3>1
    <2>3. CASE pc[c] # "acquire"
      <3>1. UNCHANGED <<holder, queue>> /\ ~Waiting(c)
        BY <1>8, <2>3 DEF Cancel, limiterVars, Waiting
      <3> QED
        BY <1>3, <2>1, <3>1
    <2> QED
      BY <2>2, <2>3
  <1>9. ASSUME NEW c \in Caller, Answered(c) \/ Refused(c) \/ Fails(c) PROVE LockPassedOn'
    <2>1. /\ pc[c] = "send" /\ UNCHANGED limiterVars
          /\ \E step \in {"idle", "pause"} : pc' = [pc EXCEPT ![c] = step]
      BY <1>9 DEF Answered, Refused, Fails, Return
    <2>2. UNCHANGED <<holder, queue>> /\ \A e \in Caller : Waiting(e)' <=> Waiting(e)
      BY <1>1, <2>1 DEF limiterVars, Waiting
    <2> QED
      BY <1>3, <2>2
  <1>10. ASSUME GoDown \/ ComeUp \/ Recovery \/ Quiet \/ Nap \/ Clock \/ UNCHANGED vars
         PROVE  LockPassedOn'
    <2>1. UNCHANGED <<holder, queue, pc>>
      BY <1>10 DEF GoDown, ComeUp, Recovery, Quiet, Nap, Wait, Clock, Tick, Observe, vars,
         limiterVars, callVars
    <2> QED
      BY <1>3, <2>1 DEF Waiting
  <1> QED
    BY <1>4, <1>7, <1>8, <1>9, <1>10, Zenon DEF Next, Request

\* For any number of callers, in whatever order they come, send, fail and are
\* cancelled: the lock is never lost, nobody waits for a lock that is free and
\* nobody is there twice (Http, LockPassedOn).
THEOREM LockKept == Spec => []LockPassedOn
  <1>1. Init => LockPassedOn
    BY LimiterAssumption DEF Init, LimiterInit, LockPassedOn, InLine
  <1>2. Types /\ LockPassedOn /\ [Next]_vars => LockPassedOn'
    BY LineStep DEF Types, TypeOK, CallTypes
  <1> QED
    BY <1>1, <1>2, TypesInit, TypesStep, PTL DEF Spec

\* Who waits in front of whom.
Before(d, e) ==
    \/ d = holder /\ InLine(e)
    \/ \E i, j \in 1..Len(queue) : i < j /\ queue[i] = d /\ queue[j] = e

\* No step of the limiter or of a call puts anyone in front of a call that goes on
\* waiting.
LEMMA LineKeepsOrder ==
    ASSUME LimiterTypeOK, CallTypes, LockPassedOn, [Next]_vars,
           NEW d \in Caller, NEW e \in Caller, Waiting(e), Waiting(e)', Before(d, e)'
    PROVE  Before(d, e)
  <1>1. /\ queue \in Seq(Caller) /\ Len(queue) \in Nat
        /\ pc \in [Caller -> {"idle", "acquire", "send", "pause"}]
        /\ holder = NoCaller => queue = <<>>
        /\ NoCaller \notin Caller
    BY LimiterAssumption, LenProperties DEF LimiterTypeOK, CallTypes, LockPassedOn
  <1>2. ASSUME UNCHANGED <<holder, queue>> PROVE Before(d, e)
    BY <1>2 DEF Before, InLine
  <1>3. ASSUME NEW c \in Caller, Acquire(c), ~Waiting(c) PROVE Before(d, e)
    <2>1. CASE holder = NoCaller
      <3>1. Len(queue') = 0
        BY <1>1, <1>3, <2>1 DEF Acquire
      <3> QED
        BY <3>1 DEF Before, InLine
    <2>2. CASE holder # NoCaller
      <3>1. /\ holder' = holder /\ Len(queue') = Len(queue) + 1
            /\ \A i \in 1..Len(queue) : queue'[i] = queue[i]
            /\ queue'[Len(queue) + 1] # e
        BY <1>1, <1>3, <2>2, AppendProperties DEF Acquire
      <3>2. \A j \in 1..Len(queue') : queue'[j] = e => j \in 1..Len(queue)
        BY <1>1, <3>1
      <3> QED
        BY <1>1, <3>1, <3>2 DEF Before, InLine
    <2> QED
      BY <2>1, <2>2
  <1>4. ASSUME Release PROVE Before(d, e)
    <2>1. CASE queue = <<>>
      BY <1>1, <1>4, <2>1 DEF Release, Before, InLine
    <2>2. CASE queue # <<>>
      <3>1. /\ holder' = queue[1] /\ Len(queue') = Len(queue) - 1
            /\ Len(queue) \in Nat \ {0}
            /\ \A i \in 1..(Len(queue) - 1) : queue'[i] = queue[i + 1]
        BY <1>1, <1>4, <2>2, HeadTailProperties, LenProperties, EmptySeq DEF Release
      <3>2. CASE d = holder' /\ InLine(e)'
        <4>1. PICK j \in 1..Len(queue') : queue'[j] = e
          BY <3>2 DEF InLine
        <4>2. 1 \in 1..Len(queue) /\ j + 1 \in 1..Len(queue) /\ 1 < j + 1
          BY <3>1, <4>1
        <4> QED
          BY <3>1, <3>2, <4>1, <4>2 DEF Before
      <3>3. ASSUME NEW i \in 1..Len(queue'), NEW j \in 1..Len(queue'), i < j,
                   queue'[i] = d, queue'[j] = e
            PROVE  Before(d, e)
        <4>1. /\ i + 1 \in 1..Len(queue) /\ j + 1 \in 1..Len(queue) /\ i + 1 < j + 1
              /\ queue[i + 1] = d /\ queue[j + 1] = e
          BY <3>1, <3>3
        <4> QED
          BY <4>1 DEF Before
      <3> QED
        BY <3>2, <3>3 DEF Before
    <2> QED
      BY <2>1, <2>2
  <1>5. ASSUME NEW k \in 1..Len(queue), queue' = Without(k), holder' = holder
        PROVE  Before(d, e)
    <2> DEFINE Was(i) == IF i < k THEN i ELSE i + 1
    <2>1. /\ Len(queue') = Len(queue) - 1
          /\ \A i \in 1..Len(queue') : queue'[i] = queue[Was(i)]
      BY <1>1, <1>5, WithoutOne
    <2>2. \A i \in 1..Len(queue') : Was(i) \in 1..Len(queue)
      BY <1>1, <2>1
    <2>3. \A i, j \in 1..Len(queue') : i < j => Was(i) < Was(j)
      BY <1>1, <2>1
    <2> HIDE DEF Was
    <2> QED
      BY <1>5, <2>1, <2>2, <2>3 DEF Before, InLine
  <1>6. ASSUME NEW c \in Caller, Request(c) \/ Cancel(c) PROVE Before(d, e)
    <2>1. CASE Call(c) \/ Again(c)
      BY <1>3, <2>1 DEF Call, Again, Waiting
    <2>2. CASE Send(c)
      BY <1>4, <2>2 DEF Send, Grant
    <2>3. CASE Answered(c) \/ Refused(c) \/ Fails(c)
      BY <1>2, <2>3 DEF Answered, Refused, Fails, Return, limiterVars
    <2>4. CASE Cancel(c)
      BY <1>2, <1>4, <1>5, <2>4 DEF Cancel, LeaveLine, limiterVars
    <2> QED
      BY <1>6, <2>1, <2>2, <2>3, <2>4 DEF Request
  <1>7. ASSUME GoDown \/ ComeUp \/ Recovery \/ Quiet \/ Nap \/ Clock \/ UNCHANGED vars
        PROVE  Before(d, e)
    BY <1>2, <1>7 DEF GoDown, ComeUp, Recovery, Quiet, Nap, Wait, Clock, Tick, Observe, vars,
       limiterVars, callVars
  <1> QED
    BY <1>6, <1>7, Zenon DEF Next

\* Nobody is overtaken: while a call waits for the limiter, nobody new comes to be
\* in front of it, whoever joins, is cancelled or comes back for a retry.  With
\* LockKept this is the safety behind EveryoneServed: there is always a holder to
\* wait for, and each token given shortens the wait of everybody behind.
THEOREM NobodyOvertaken ==
    Spec => [][\A d, e \in Caller : Waiting(e) /\ Waiting(e)' /\ Before(d, e)' => Before(d, e)]_vars
  <1>1. /\ Types /\ LockPassedOn /\ [Next]_vars
        => [\A d, e \in Caller : Waiting(e) /\ Waiting(e)' /\ Before(d, e)' => Before(d, e)]_vars
    BY LineKeepsOrder DEF Types, TypeOK, CallTypes
  <1> QED
    BY <1>1, LockKept, TypesInit, TypesStep, PTL DEF Spec
=============================================================================
