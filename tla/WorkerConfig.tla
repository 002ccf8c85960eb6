---------------------------- MODULE WorkerConfig ----------------------------
(***************************************************************************)
(* WorkerBuilder of src/worker.rs: the knobs, their defaults and build(),  *)
(* which validates them one after the other and fills in the knobs that    *)
(* were not set.  Names and keys are their lengths, the pool its           *)
(* max_connections.                                                        *)
(***************************************************************************)
EXTENDS Backoff, Sequences

CONSTANTS U32Max, AvailableParallelism

ASSUME ConfigAssumption == {U32Max, AvailableParallelism} \subseteq Nat \ {0} /\ I32Max < U32Max

Unset == -1

MAX_QUEUE_LEN == 64
MAX_CONCURRENCY_KEY_LEN == 128
BATCH_SIZE_MIN == 1
BATCH_SIZE_MAX == 1000
MIN_POLL_INTERVAL == 10
MIN_LEASE_TIMEOUT == Second
MIN_REAPER_INTERVAL == Second
MIN_HANDLER_TIMEOUT == Second
MIN_MARK_TIMEOUT == 100

NoBackoff == Linear(0, 0, 0)

\* WorkerBuilder::new
NewBuilder ==
    [queue |-> 0, pool |-> Unset, handler |-> FALSE,
     max_attempts |-> 3, lease_timeout |-> 30 * Second, batch_size |-> 32,
     poll_interval |-> Second, concurrency |-> Unset, concurrency_limits |-> <<>>,
     handler_timeout |-> Unset, mark_timeout |-> Unset, reaper_interval |-> Unset,
     retry_backoff |-> NoBackoff]

\* A setter overwrites its knob; concurrency_limits inserts into its map.
SetKnob(b, knob, value) == [b EXCEPT ![knob] = value]
AddLimit(b, key, limit) ==
    [b EXCEPT !.concurrency_limits =
        [k \in DOMAIN @ \cup {key} |-> IF k = key THEN limit ELSE @[k]]]

\* usize to u32, and u32 arithmetic, saturate.
Saturate(n) == Min({n, U32Max})

-----------------------------------------------------------------------------
(* The knobs build() fills in *)

Or(value, default) == IF value = Unset THEN default ELSE value

Concurrency(b) == Or(b.concurrency, AvailableParallelism)
HandlerTimeout(b) ==
    Or(b.handler_timeout, Max({(b.lease_timeout * 4) \div 5, MIN_HANDLER_TIMEOUT}))

\* Duration::checked_sub with a fallback.
CheckedSub(x, y, otherwise) == IF x < y THEN otherwise ELSE x - y

MarkBudget(b) == CheckedSub(b.lease_timeout, HandlerTimeout(b), 0)

MarkTimeout(b) == Or(b.mark_timeout, CheckedSub(MarkBudget(b), Second, MIN_MARK_TIMEOUT))

ReaperInterval(b) ==
    Or(b.reaper_interval, Max({b.lease_timeout \div 4, MIN_REAPER_INTERVAL}))
RetryBackoff(b) == IF b.retry_backoff = NoBackoff THEN DefaultBackoff ELSE b.retry_backoff

-----------------------------------------------------------------------------
(* build() *)

PoolFloor(b) == Saturate(Saturate(2 * Saturate(Concurrency(b))) + 2)

\* Without .handler() build() is the impl that always fails.
KnobChecks(b) == <<
    <<~b.handler, "HandlerMissing">>,
    <<b.queue \notin 1 .. MAX_QUEUE_LEN, "QueueNameInvalid">>,
    <<b.max_attempts = 0, "MaxAttemptsZero">>,
    <<b.lease_timeout < MIN_LEASE_TIMEOUT, "LeaseTimeoutBelowFloor">>,
    <<b.lease_timeout < 2 * MIN_REAPER_INTERVAL, "LeaseTimeoutTooShortForReaper">>,
    <<b.batch_size \notin BATCH_SIZE_MIN .. BATCH_SIZE_MAX, "BatchSizeOutOfRange">>,
    <<b.poll_interval < MIN_POLL_INTERVAL, "PollIntervalTooShort">>,
    <<b.lease_timeout < 5 * b.poll_interval, "LeaseTimeoutTooShort">>,
    <<b.pool = Unset, "PoolMissing">>,
    <<Concurrency(b) = 0, "ConcurrencyZero">>,
    <<b.pool < PoolFloor(b), "PoolTooSmall">> >>

\* The timing relations between the knobs, in the order of their checks.
HandlerAndMarkChecks(b) == <<
    <<HandlerTimeout(b) < MIN_HANDLER_TIMEOUT, "HandlerTimeoutBelowFloor">>,
    <<HandlerTimeout(b) + Second > b.lease_timeout, "HandlerTimeoutTooLong">>,
    <<MarkTimeout(b) < MIN_MARK_TIMEOUT, "MarkTimeoutTooShort">>,
    <<MarkTimeout(b) > MarkBudget(b), "MarkTimeoutTooLong">> >>

ReaperChecks(b) == <<
    <<ReaperInterval(b) < MIN_REAPER_INTERVAL, "ReaperIntervalTooShort">>,
    <<ReaperInterval(b) > b.lease_timeout \div 2, "ReaperIntervalTooLong">> >>

LimitChecks(b) == <<
    <<\E k \in DOMAIN b.concurrency_limits :
        \/ k \notin 1 .. MAX_CONCURRENCY_KEY_LEN
        \/ b.concurrency_limits[k] \notin 1 .. I32Max, "ConcurrencyKeyOrLimitInvalid">> >>

BackoffChecks(b) == << <<Validate(RetryBackoff(b)) # "ok", "BackoffInvalid">> >>

BuildChecks(b) ==
    KnobChecks(b) \o HandlerAndMarkChecks(b) \o ReaperChecks(b) \o BackoffChecks(b) \o LimitChecks(b)

BuildError(b) == FirstFailure(BuildChecks(b))

\* The worker that an accepted builder becomes.
Worker(b) ==
    [max_attempts |-> b.max_attempts, lease_timeout |-> b.lease_timeout,
     batch_size |-> b.batch_size, poll_interval |-> b.poll_interval,
     concurrency |-> Concurrency(b), concurrency_limits |-> b.concurrency_limits,
     handler_timeout |-> HandlerTimeout(b), mark_timeout |-> MarkTimeout(b),
     reaper_interval |-> ReaperInterval(b), retry_backoff |-> RetryBackoff(b)]
=============================================================================
