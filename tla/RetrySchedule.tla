--------------------------- MODULE RetrySchedule ---------------------------
(***************************************************************************)
(* From the builder to the retries of one job: a caller sets knobs and     *)
(* calls build(); with the worker that results, the job's handler keeps    *)
(* asking for a retry, with or without a delay of its own, until its       *)
(* attempts are used up.                                                   *)
(***************************************************************************)
EXTENDS WorkerConfig

CONSTANTS
    Knobs,          \* the values that callers try for each knob
    Limits,         \* the <<key, limit>> pairs they try
    MaxCalls,       \* bound on the calls of setters
    Overrides       \* the delays that handlers ask for

\* The values that a knob may have: its default and those that callers try.
Tried(knob) == {NewBuilder[knob]} \cup UNION {Knobs[k] : k \in DOMAIN Knobs \cap {knob}}

ASSUME KnobAssumption ==
    /\ DOMAIN Knobs \subseteq DOMAIN NewBuilder
    /\ Tried("lease_timeout") \cup Tried("poll_interval") \cup Overrides \subseteq Nat
    /\ Tried("retry_backoff") \subseteq BackoffPolicy

VARIABLES
    builder, calls, \* the builder and how many setters were called on it
    result,         \* of build(): "none" before the call, "ok" or the error
    attempts,       \* the row's attempts
    override,       \* the retry_in of the last failed attempt
    delay           \* the delay written to run_at for it

retryVars == <<builder, calls, result, attempts, override, delay>>

NoDelay == -2

\* The knobs without which no worker is built.
Required == [NewBuilder EXCEPT !.queue = 1, !.pool = 2 * AvailableParallelism + 2, !.handler = TRUE]

RetryInit ==
    /\ builder \in {NewBuilder, Required}
    /\ calls = 0 /\ result = "none"
    /\ attempts = 0 /\ override = NoOverride /\ delay = NoDelay

\* A setter.
Configure ==
    /\ result = "none" /\ calls < MaxCalls
    /\ \/ \E knob \in DOMAIN Knobs : \E v \in Knobs[knob] : builder' = SetKnob(builder, knob, v)
       \/ \E l \in Limits : builder' = AddLimit(builder, l[1], l[2])
    /\ calls' = calls + 1
    /\ UNCHANGED <<result, attempts, override, delay>>

Build ==
    /\ result = "none"
    /\ result' = BuildError(builder)
    /\ UNCHANGED <<builder, calls, attempts, override, delay>>

\* The job is claimed, its handler returns Retry, and attempts are left.
Retry(retry_in) ==
    /\ result = "ok"
    /\ delay # Panic
    /\ attempts + 1 < builder.max_attempts
    /\ attempts' = attempts + 1
    /\ override' = retry_in
    /\ delay' \in ComputeRetryDelay(retry_in, Worker(builder).retry_backoff,
                                    builder.poll_interval, attempts')
    /\ UNCHANGED <<builder, calls, result>>

RetryNext == Configure \/ Build \/ \E retry_in \in Overrides \cup {NoOverride} : Retry(retry_in)

RetrySpec == RetryInit /\ [][RetryNext]_retryVars

-----------------------------------------------------------------------------

\* The README's table of knobs: the default of mark_timeout is `lease - handler - 1s`,
\* clamped to at least 100ms.  So a caller who does not set it never fails its floor.  (The
\* code takes the floor only if the difference is negative, not if it is below 100ms.)
MarkDefaultFits == builder.mark_timeout = Unset => result # "MarkTimeoutTooShort"

\* A retry_in is applied as a delay within [max(poll_interval, 100ms), 24h], whatever
\* worker build() accepted (compute_retry_delay).
OverrideIsClamped ==
    (override # NoOverride)
        => delay \in Max({builder.poll_interval, MIN_RETRY_IN}) .. MAX_RETRY_IN

\* With a policy that build() accepted, next() never panics and never exceeds the
\* policy's cap, however far the power overflows and whichever way the jitter falls.
PolicyDelayWithinCap ==
    (attempts > 0 /\ override = NoOverride)
        => delay \in 0 .. Worker(builder).retry_backoff.cap

\* Without jitter a later attempt never waits less than an earlier one, also beyond
\* the point where the power overflows to infinity (the is_finite branch of next()).
NeverSooner ==
    [][(/\ attempts > 0 /\ attempts' > attempts
        /\ override = NoOverride /\ override' = NoOverride
        /\ Worker(builder).retry_backoff.jitter = 0)
            => delay' >= delay]_retryVars

-----------------------------------------------------------------------------
\* What they rest on: the knobs are what callers made them, the result is build()'s
\* of this builder, and the delay is one that compute_retry_delay may return.

BuilderInv ==
    /\ DOMAIN builder = DOMAIN NewBuilder
    /\ \A knob \in {"lease_timeout", "poll_interval", "retry_backoff"} :
        builder[knob] \in Tried(knob)

DelayInv ==
    IF attempts = 0
    THEN override = NoOverride
    ELSE /\ result = "ok"
         /\ delay \in ComputeRetryDelay(override, Worker(builder).retry_backoff,
                                        builder.poll_interval, attempts)

ScheduleInv ==
    /\ attempts \in Nat /\ override \in Overrides \cup {NoOverride}
    /\ result \in {"none", BuildError(builder)}
    /\ BuilderInv
    /\ DelayInv
=============================================================================
