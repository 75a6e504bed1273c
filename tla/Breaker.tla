------------------------------- MODULE Breaker -------------------------------
(***************************************************************************)
(* The circuit breaker of one upstream service (util/resilience.py,        *)
(* CircuitBreaker).  Time is kept relative to recovery_seconds: the        *)
(* breaker opened, or the last failure happened, within that time or       *)
(* longer ago.                                                             *)
(***************************************************************************)
EXTENDS Integers

CONSTANT Threshold  \* consecutive failures that open the breaker

ASSUME BreakerAssumption == Threshold \in Nat \ {0}

VARIABLES
    fails,      \* _failures; from the threshold on they all weigh the same
    opened,     \* _opened_at: None, or set less or more than recovery ago
    last        \* history: the last failure recorded: none within the recovery
                \* time, the one that opened the breaker, another one

breakerVars == <<fails, opened, last>>

BreakerTypeOK ==
    /\ fails \in 0..Threshold
    /\ opened \in {"no", "recently", "past"}
    /\ last \in {"none", "opener", "other"}

BreakerInit == fails = 0 /\ opened = "no" /\ last = "none"

\* Mutant of Admits: the breaker only counts.
AdmitsAlways == TRUE

\* _check: open means opened less than recovery_seconds ago.
Admits == opened # "recently"

\* Mutant of RecordSuccess: the breaker is closed, its count is kept.
RecordSuccessKeepsCount ==
    /\ opened' = "no"
    /\ UNCHANGED <<fails, last>>

\* Mutant of RecordSuccess: the count is reset, the breaker stays open.
RecordSuccessStaysOpen ==
    /\ fails' = 0
    /\ UNCHANGED <<opened, last>>

RecordSuccess ==
    /\ fails' = 0
    /\ opened' = "no"
    /\ UNCHANGED last

\* Only the failure that reaches the threshold sets _opened_at.
RecordFailure ==
    LET opens == fails + 1 >= Threshold /\ opened = "no"
    IN  /\ fails' = IF fails < Threshold THEN fails + 1 ELSE fails
        /\ opened' = IF opens THEN "recently" ELSE opened
        /\ last' = IF opens THEN "opener" ELSE "other"

\* recovery_seconds after the breaker opened: it is half-open.
HalfOpens ==
    /\ opened = "recently"
    /\ opened' = "past"
    /\ last' = IF last = "opener" THEN "none" ELSE last
    /\ UNCHANGED fails

\* recovery_seconds after the last failure, when that is not what opened it.
Cools ==
    /\ last # "none" /\ opened # "recently"
    /\ last' = "none"
    /\ UNCHANGED <<fails, opened>>

\* The breaker has tripped exactly when the threshold was reached since the
\* last success, however calls overlap: no success leaves it half reset, no
\* late failure leaves it closed (resilience.py, CircuitBreaker).
TripsAtThreshold == opened # "no" <=> fails = Threshold
=============================================================================
