------------------------------- MODULE Limiter -------------------------------
(***************************************************************************)
(* The token bucket that keeps requests inside a tracker's budget          *)
(* (util/resilience.py, RateLimiter).  Whoever holds the lock refills the  *)
(* bucket from the clock, takes its tokens or sleeps, with the lock, until *)
(* they should be there; the others queue for the lock.                    *)
(*                                                                         *)
(* A token is Cost grains and one grain drips in per unit of time, so all  *)
(* quantities are whole.  Only time since an event counts: since the last  *)
(* refill, until the sleeper wakes, and since an observation began.        *)
(***************************************************************************)
EXTENDS Integers, Sequences

CONSTANTS
    Caller,     \* coroutines that call acquire
    NoCaller,
    Capacity,   \* size of the bucket, in grains
    Cost,       \* grains per request
    Window      \* bound: an observation lasts at most this long

ASSUME LimiterAssumption ==
    /\ NoCaller \notin Caller
    /\ Cost \in Nat \ {0} /\ Capacity \in Nat /\ Capacity >= Cost
    /\ Window \in Nat \ {0}

VARIABLES
    tokens,     \* _tokens
    idle,       \* time since _updated; a full bucket's worth is as good as more
    holder,     \* who holds the lock
    nap,        \* how long the holder sleeps on
    queue,      \* who waits for the lock, first come first served
    age, spent  \* history: an observation's age, and the grains spent in it

limiterVars == <<tokens, idle, holder, nap, queue, age, spent>>

Least(a, b) == IF a < b THEN a ELSE b

LimiterTypeOK ==
    /\ tokens \in 0..Capacity
    /\ idle \in 0..Capacity
    /\ holder \in Caller \cup {NoCaller}
    /\ nap \in 0..Cost
    /\ queue \in Seq(Caller)
    /\ age \in 0..Window
    /\ spent \in Nat

LimiterInit ==
    /\ tokens = Capacity /\ idle = 0
    /\ holder = NoCaller /\ nap = 0 /\ queue = <<>>
    /\ age = 0 /\ spent = 0

\* acquire: take the lock if it is free, or get in line.
Acquire(c) ==
    /\ IF holder = NoCaller
       THEN holder' = c /\ UNCHANGED queue
       ELSE queue' = Append(queue, c) /\ UNCHANGED holder
    /\ UNCHANGED <<tokens, idle, nap, age, spent>>

\* The lock goes to whoever has waited longest (asyncio.Lock).
Release ==
    IF queue = <<>>
    THEN holder' = NoCaller /\ UNCHANGED queue
    ELSE holder' = Head(queue) /\ queue' = Tail(queue)

\* Mutant of Refilled: a quiet hour is saved up for later.
RefilledUncapped == tokens + idle

\* The bucket after the time since the last look has dripped into it.
Refilled == Least(Capacity, tokens + idle)

\* The holder looks at the bucket, first or after its sleep, and goes ahead.
Grant ==
    /\ holder # NoCaller /\ nap = 0
    /\ Refilled >= Cost
    /\ tokens' = Refilled - Cost
    /\ idle' = 0
    /\ spent' = spent + Cost
    /\ Release
    /\ UNCHANGED <<nap, age>>

\* Or it finds too little and sleeps until the rest should be there.
Wait ==
    /\ holder # NoCaller /\ nap = 0
    /\ Refilled < Cost
    /\ tokens' = Refilled
    /\ idle' = 0
    /\ nap' = Cost - Refilled
    /\ UNCHANGED <<holder, queue, age, spent>>

\* The line without the coroutine at place i.
Without(i) == SubSeq(queue, 1, i - 1) \o SubSeq(queue, i + 1, Len(queue))

\* Mutant of LeaveLine: a holder that is cancelled keeps the lock.
LeaveLineWithLock(c) ==
    /\ \/ c = holder /\ UNCHANGED <<holder, nap, queue>>
       \/ \E i \in 1..Len(queue) : /\ queue[i] = c
                                  /\ queue' = Without(i)
                                  /\ UNCHANGED <<holder, nap>>
    /\ UNCHANGED <<tokens, idle, age, spent>>

\* A coroutine is cancelled in acquire, with the lock or in line for it.
LeaveLine(c) ==
    /\ \/ c = holder /\ nap' = 0 /\ Release
       \/ \E i \in 1..Len(queue) : /\ queue[i] = c
                                  /\ queue' = Without(i)
                                  /\ UNCHANGED <<holder, nap>>
    /\ UNCHANGED <<tokens, idle, age, spent>>

\* Time passes.  An observation that is over starts afresh.
Tick ==
    /\ idle' = Least(Capacity, idle + 1)
    /\ nap' = IF nap > 0 THEN nap - 1 ELSE 0
    /\ IF age = Window THEN age' = 0 /\ spent' = 0
       ELSE age' = age + 1 /\ UNCHANGED spent
    /\ UNCHANGED <<tokens, holder, queue>>

\* Somebody begins to count the requests, at any moment.
Observe ==
    /\ age' = 0 /\ spent' = 0
    /\ UNCHANGED <<tokens, idle, holder, nap, queue>>

\* In any stretch of time, whenever it begins, what is spent on requests, the
\* retries included, is at most a full bucket and what dripped in since
\* (resilience.py:9, "keeps us inside the tracker's budget").
BudgetKept == spent <= Capacity + age
=============================================================================
