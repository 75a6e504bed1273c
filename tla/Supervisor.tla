----------------------------- MODULE Supervisor -----------------------------
(***************************************************************************)
(* One background task under the supervisor (services/supervisor.py): its  *)
(* loop, its interruptible sleep, and the requests that reach it from      *)
(* other coroutines while it runs or sleeps.  The tasks share nothing but  *)
(* the stop flag, so one stands for all eleven.                            *)
(*                                                                         *)
(* Time is counted in units of INTERVAL_RECHECK_SECONDS (5 s), which is    *)
(* also the least interval and the least delay the code allows.            *)
(***************************************************************************)
EXTENDS Integers

CONSTANTS
    Interval,   \* the cadences Settings may give the task
    Cap,        \* the longest back-off (3600 s)
    StartDelay  \* length of the sleep before the first run

ASSUME SupervisorAssumption ==
    /\ Interval \subseteq Nat \ {0}
    /\ Cap \in Nat \ {0} /\ StartDelay \in Nat \ {0}

VARIABLES
    phase,      \* "sleep", "run", "ended"
    enabled, wake, stopping,
    interval,   \* the live setting
    errors,     \* consecutive_errors; four and more weigh the same
    slept,      \* time since the current sleep began
    deadline,   \* when the current sleep ends, from its beginning
    asked       \* history: a trigger was accepted and no run has begun since

vars == <<phase, enabled, wake, stopping, interval, errors, slept, deadline, asked>>

Least(a, b) == IF a < b THEN a ELSE b
Most(a, b) == IF a < b THEN b ELSE a

\* _delay_for: the cadence with the failure back-off, 2^errors at most 16.
Delay(i, n) ==
    LET factor == CASE n = 1 -> 2 [] n = 2 -> 4 [] n = 3 -> 8 [] OTHER -> 16
    IN  IF n = 0 THEN i ELSE Least(i * factor, Cap)

TypeOK ==
    /\ phase \in {"sleep", "run", "ended"}
    /\ enabled \in BOOLEAN /\ wake \in BOOLEAN /\ stopping \in BOOLEAN
    /\ interval \in Interval
    /\ errors \in 0..4
    /\ slept \in Nat /\ deadline \in Nat
    /\ asked \in BOOLEAN

\* Every task sleeps before its first run: for its start_delay, or (run_at_start
\* is off for housekeeping) for a whole interval.
Init ==
    /\ phase = "sleep"
    /\ enabled = TRUE /\ wake = FALSE /\ stopping = FALSE
    /\ interval \in Interval
    /\ errors = 0
    /\ slept = 0
    /\ deadline \in {Least(StartDelay, interval), interval}
    /\ asked = FALSE

-----------------------------------------------------------------------------
(* Requests from other coroutines *)

\* trigger() of an enabled task; it answers False otherwise.
Trigger ==
    /\ enabled
    /\ wake' = TRUE
    /\ asked' = TRUE
    /\ UNCHANGED <<phase, enabled, stopping, interval, errors, slept, deadline>>

\* set_enabled.  A task that is switched off owes its triggers nothing more.
SetEnabled(on) ==
    /\ enabled' = on
    /\ wake' = TRUE
    /\ asked' = (asked /\ on)
    /\ UNCHANGED <<phase, stopping, interval, errors, slept, deadline>>

\* A new cadence from Settings or from conduit.toml.
Configure(i) ==
    /\ interval' = i
    /\ UNCHANGED <<phase, enabled, wake, stopping, errors, slept, deadline, asked>>

\* stop(): raise the flag, wake and cancel every task.
Stop ==
    /\ ~stopping
    /\ stopping' = TRUE
    /\ wake' = TRUE
    /\ UNCHANGED <<phase, enabled, interval, errors, slept, deadline, asked>>

-----------------------------------------------------------------------------
(* The task's own loop *)

\* _sleep is entered: whatever was signalled before is forgotten.
Sleep(t, n) ==
    /\ phase' = "sleep"
    /\ wake' = FALSE
    /\ slept' = 0
    /\ deadline' = Least(t, Delay(interval, n))

\* Mutant of Resume: the loop runs the task before it looks at enabled.
ResumeRegardless ==
    /\ phase' = "run" /\ asked' = FALSE
    /\ slept' = 0 /\ deadline' = 0
    /\ UNCHANGED wake

\* Back at the top of _loop after a sleep.
Resume ==
    \/ /\ enabled
       /\ phase' = "run" /\ asked' = FALSE
       /\ slept' = 0 /\ deadline' = 0
       /\ UNCHANGED wake
    \/ /\ ~enabled
       /\ Sleep(1, errors)
       /\ UNCHANGED asked

\* The event is set: the sleep is over at once.
Wake ==
    /\ phase = "sleep" /\ wake /\ ~stopping
    /\ Resume
    /\ UNCHANGED <<enabled, stopping, interval, errors>>

\* Mutant of Recheck: the delay found when the sleep began is slept out.
RecheckNot == deadline

\* The deadline only ever comes forward.
Recheck == Least(deadline, Delay(interval, errors))

\* Mutant of SleptOn: every look at the clock starts the sleep over.
SleptAfresh == 0

\* Time is measured from when the sleep began.
SleptOn == slept + 1

\* One unit of sleep goes by without a signal; the live interval is read again.
Poll ==
    /\ phase = "sleep" /\ ~wake /\ ~stopping
    /\ IF SleptOn >= Recheck
       THEN Resume
       ELSE /\ slept' = SleptOn
            /\ deadline' = Recheck
            /\ UNCHANGED <<phase, wake, asked>>
    /\ UNCHANGED <<enabled, stopping, interval, errors>>

\* Mutant of Errors: the count grows without end.
ErrorsBeyond(ok) == IF ok THEN 0 ELSE errors + 1

\* consecutive_errors after a run; four and more weigh the same.
Errors(ok) == IF ok THEN 0 ELSE Least(errors + 1, 4)

\* _run_once returns, and the loop sleeps out a jittered delay.
Finish(ok, jitter) ==
    /\ phase = "run" /\ ~stopping
    /\ errors' = Errors(ok)
    /\ LET d == Delay(interval, errors')
       IN  /\ jitter \in {-1, 0, 1} /\ (d < 2 => jitter = 0)
           /\ Sleep(Most(1, d + jitter), errors')
    /\ UNCHANGED <<enabled, stopping, interval, asked>>

\* Mutant of End: a running task function swallows the cancellation.
EndAsleepOnly ==
    /\ stopping /\ phase = "sleep"
    /\ phase' = "ended"
    /\ UNCHANGED <<enabled, wake, stopping, interval, errors, slept, deadline, asked>>

\* The cancellation reaches the task where it awaits.
End ==
    /\ stopping /\ phase # "ended"
    /\ phase' = "ended"
    /\ UNCHANGED <<enabled, wake, stopping, interval, errors, slept, deadline, asked>>

-----------------------------------------------------------------------------
Request == Trigger \/ Stop \/ (\E on \in BOOLEAN : SetEnabled(on))
           \/ (\E i \in Interval : Configure(i))
Run == \E ok \in BOOLEAN, jitter \in {-1, 0, 1} : Finish(ok, jitter)

Next == Request \/ Wake \/ Poll \/ Run \/ End

Spec == Init /\ [][Next]_vars

-----------------------------------------------------------------------------
(* Properties *)

\* A shortened cadence applies now: a look at the clock never leaves a task
\* asleep that has already slept for its current delay, whatever delay it
\* went to sleep with (_sleep, supervisor.py:222-229).
ShorteningTakesEffect ==
    [][phase = "sleep" /\ phase' = "sleep" /\ slept' > slept
        => slept' < Delay(interval, errors)]_vars

\* A task that is switched off does not begin a run, even when it was
\* switched off, triggered or reconfigured in its sleep.
DisabledStaysOff == [][phase # "run" /\ phase' = "run" => enabled]_vars

\* An enabled task runs again and again, however often its cadence changes
\* and however often it fails.
KeepsRunning ==
    (phase = "sleep" /\ enabled) ~> (phase = "run" \/ ~enabled \/ stopping)

\* Shutting down ends the task, asleep or in the middle of a run.
StopEnds == stopping ~> phase = "ended"

-----------------------------------------------------------------------------
(* What the repository says of the program and the program does not do *)

\* A trigger that was accepted is not slept through: the task is awake, or the
\* event that wakes it is set (config.py:295, watchlist.py:60-62).
AskedIsAwake == asked /\ phase = "sleep" /\ ~stopping => wake
=============================================================================
