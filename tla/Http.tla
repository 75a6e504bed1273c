-------------------------------- MODULE Http --------------------------------
(***************************************************************************)
(* How calls reach an upstream service (clients/http.py): the breaker      *)
(* admits a call, retry makes up to Attempts requests of it, each of them  *)
(* takes its turn at the rate limiter, and how the call ends is recorded   *)
(* with the breaker once.  Calls of several coroutines overlap.            *)
(***************************************************************************)
EXTENDS Breaker, Limiter, FiniteSets

CONSTANTS
    Attempts,   \* RetryPolicy.attempts
    Task        \* the callers that are supervised tasks: nobody cancels them

ASSUME HttpAssumption ==
    /\ IsFiniteSet(Caller) /\ Task \subseteq Caller
    /\ Attempts \in Nat \ {0}

VARIABLES
    up,         \* does the service answer?
    tries,      \* requests a caller's current call may still make
    pc,         \* "idle", "acquire", "send", "pause" (between two attempts)
    sent        \* history: requests since the breaker opened, 0 unless it is open

callVars == <<up, tries, pc, sent>>
vars == <<breakerVars, limiterVars, callVars>>

TypeOK ==
    /\ BreakerTypeOK
    /\ LimiterTypeOK
    /\ up \in BOOLEAN
    /\ tries \in [Caller -> 0..Attempts]
    /\ pc \in [Caller -> {"idle", "acquire", "send", "pause"}]
    /\ sent \in Nat

Init ==
    /\ BreakerInit
    /\ LimiterInit
    /\ up \in BOOLEAN
    /\ tries = [c \in Caller |-> 0]
    /\ pc = [c \in Caller |-> "idle"]
    /\ sent = 0

-----------------------------------------------------------------------------
(* One call *)

\* request: the breaker is asked before anything else.
Call(c) ==
    /\ pc[c] = "idle"
    /\ Admits
    /\ Acquire(c)
    /\ pc' = [pc EXCEPT ![c] = "acquire"]
    /\ tries' = [tries EXCEPT ![c] = Attempts]
    /\ UNCHANGED <<breakerVars, up, sent>>

\* The holder of the lock has its token and sends its request.
Send(c) ==
    /\ pc[c] = "acquire" /\ c = holder
    /\ Grant
    /\ pc' = [pc EXCEPT ![c] = "send"]
    /\ tries' = [tries EXCEPT ![c] = @ - 1]
    /\ sent' = IF opened = "recently" THEN sent + 1 ELSE sent
    /\ UNCHANGED <<breakerVars, up>>

Return(c) ==
    /\ pc' = [pc EXCEPT ![c] = "idle"]
    /\ tries' = [tries EXCEPT ![c] = 0]
    /\ UNCHANGED <<limiterVars, up>>

\* The request is answered.
Answered(c) ==
    /\ pc[c] = "send" /\ up
    /\ RecordSuccess
    /\ Return(c)
    /\ sent' = 0

\* It is refused for good (400, 401, 403, 404, 422): the breaker is not told.
Refused(c) ==
    /\ pc[c] = "send" /\ up
    /\ Return(c)
    /\ UNCHANGED <<breakerVars, sent>>

\* Mutant of LastTry: the last attempt is followed by another.
LastTryPlusOne(c) == tries[c] < 0

\* retry: was this the last attempt?
LastTry(c) == tries[c] = 0

\* It failed in a way worth a retry (time-out, connection lost, 429, 5xx).
Fails(c) ==
    /\ pc[c] = "send" /\ ~up
    /\ IF LastTry(c)
       THEN RecordFailure /\ Return(c)
       ELSE /\ pc' = [pc EXCEPT ![c] = "pause"]
            /\ UNCHANGED <<breakerVars, limiterVars, up, tries>>
    /\ UNCHANGED sent

\* The back-off, or the Retry-After of a 429, is over.
Again(c) ==
    /\ pc[c] = "pause"
    /\ Acquire(c)
    /\ pc' = [pc EXCEPT ![c] = "acquire"]
    /\ UNCHANGED <<breakerVars, up, tries, sent>>

\* The caller (a request of the dashboard) is cancelled, wherever its call is:
\* nothing is recorded.
Cancel(c) ==
    /\ c \notin Task
    /\ pc[c] # "idle"
    /\ IF pc[c] = "acquire" THEN LeaveLine(c) ELSE UNCHANGED limiterVars
    /\ pc' = [pc EXCEPT ![c] = "idle"]
    /\ tries' = [tries EXCEPT ![c] = 0]
    /\ UNCHANGED <<breakerVars, up, sent>>

-----------------------------------------------------------------------------
(* The service and the clock *)

GoDown == up /\ up' = FALSE /\ UNCHANGED <<breakerVars, limiterVars, tries, pc, sent>>
ComeUp == ~up /\ up' = TRUE /\ UNCHANGED <<breakerVars, limiterVars, tries, pc, sent>>

Recovery == HalfOpens /\ sent' = 0 /\ UNCHANGED <<limiterVars, up, tries, pc>>
Quiet == Cools /\ UNCHANGED <<limiterVars, callVars>>
Nap == Wait /\ UNCHANGED <<breakerVars, callVars>>
Clock == (Tick \/ Observe) /\ UNCHANGED <<breakerVars, callVars>>

Request(c) == Call(c) \/ Send(c) \/ Answered(c) \/ Refused(c) \/ Fails(c) \/ Again(c)

Next ==
    \/ \E c \in Caller : Request(c) \/ Cancel(c)
    \/ GoDown \/ ComeUp \/ Recovery \/ Quiet \/ Nap \/ Clock

Spec == Init /\ [][Next]_vars

\* The tasks call the service again and again, every request ends and time
\* passes.  What answers the calls get is up to the service, but one that is
\* up does not refuse all of them for ever.
Fairness ==
    /\ \A c \in Caller :
        /\ WF_vars(Call(c)) /\ WF_vars(Send(c)) /\ WF_vars(Again(c))
        /\ WF_vars(Answered(c) \/ Refused(c) \/ Fails(c))
        /\ SF_vars(Answered(c))
    /\ WF_vars(Recovery) /\ WF_vars(Nap)
    /\ WF_vars(Tick /\ UNCHANGED <<breakerVars, callVars>>)
FairSpec == Spec /\ Fairness

-----------------------------------------------------------------------------
(* Properties, besides TripsAtThreshold and BudgetKept *)

\* An open breaker spares the service: all it still gets are the attempts of
\* the calls that were under way when another call opened the breaker.
DeadServiceSpared ==
    opened = "recently" => sent <= (Cardinality(Caller) - 1) * Attempts

InLine(c) == \E i \in 1..Len(queue) : queue[i] = c

\* The limiter's lock is never lost and never wanted twice: whoever holds it or is
\* in line for it is a call that waits its turn and is there once, every call
\* that waits its turn is one of them, and nobody waits for a lock that is free.
\* A call that is cancelled at any point leaves neither the lock nor its place in
\* the line behind (resilience.py, RateLimiter.acquire).
LockPassedOn ==
    /\ \A c \in Caller : pc[c] = "acquire" <=> c = holder \/ InLine(c)
    /\ \A i, j \in 1..Len(queue) : queue[i] = queue[j] => i = j
    /\ ~InLine(holder)
    /\ holder = NoCaller => queue = <<>>

\* A call that waits its turn at the limiter gets it, or is cancelled.
EveryoneServed == \A c \in Caller : pc[c] = "acquire" ~> pc[c] # "acquire"

\* The breaker does not lock a service out for good: once it stays up, a call
\* gets through, and from then on the breaker is closed; neither calls that were
\* under way nor a probe that failed earlier open it again.
Recovers == <>[]up => <>[](opened = "no")

\* What the repository says of the program and the program does not do: a
\* service that is down is left alone for the recovery time after a failure,
\* that of the half-open probe included (resilience.py:9-10, "stops calling a
\* dead service instead of timing out on every tick").
ProbesAreSpaced ==
    [][\A c \in Caller :
        pc[c] = "idle" /\ pc'[c] = "acquire" /\ opened # "no" => last = "none"]_vars
=============================================================================
