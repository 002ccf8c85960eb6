--------------------------- MODULE MCRetrySchedule ---------------------------
EXTENDS RetrySchedule

\* Around every floor, ceiling and cross-knob rule.  Leases are multiples of 5ms, of
\* which 80% is a whole number of milliseconds.
TimingKnobs ==
    [lease_timeout |-> {995, 1995, 2000, 4995, 5000, 5495, 5500, 10000},
     handler_timeout |-> {999, 1000, 4500, 8901, 9000},
     mark_timeout |-> {99, 100, 1000, 1100},
     reaper_interval |-> {999, 1000, 2750, 5001},
     poll_interval |-> {9, 10, 2000}]

OtherKnobs ==
    [queue |-> {0, 64, 65}, pool |-> {9, 10}, max_attempts |-> {0, 8},
     batch_size |-> {0, 1001}, concurrency |-> {0, 3, U32Max}]

BackoffKnobs ==
    [retry_backoff |-> {
        Exponential(100, 200, MAX_BACKOFF_CAP, 0),
        Exponential(Second, 10000, MAX_BACKOFF_CAP, 0),
        Exponential(100, 150, 50, 100),
        Exponential(Second, 300, 10 * Second, 50),
        Exponential(Second, 100, 10 * Second, 0),
        Exponential(Second, NaN, 10 * Second, 0),
        Exponential(Second, 200, 10 * Second, NaN),
        Linear(Second, 400 * Second, 1000 * Second),
        Linear(Second, DurationMax, MAX_BACKOFF_CAP),
        Linear(Second, 0, MAX_BACKOFF_CAP + 1),
        Linear(99, 0, Second),
        fixed(2 * Second), fixed(0)}]

MCKnobs == [k \in DOMAIN TimingKnobs \cup DOMAIN OtherKnobs \cup DOMAIN BackoffKnobs |->
    IF k \in DOMAIN TimingKnobs THEN TimingKnobs[k]
    ELSE IF k \in DOMAIN OtherKnobs THEN OtherKnobs[k]
    ELSE BackoffKnobs[k]]

\* A worker that polls less than once a day.
SlowKnobs == [lease_timeout |-> {125 * Hour}, poll_interval |-> {24 * Hour, 25 * Hour}]

MCLimits == {<<0, 1>>, <<1, 0>>, <<1, 1>>, <<128, I32Max>>, <<129, 1>>, <<1, I32Max + 1>>}
=============================================================================
