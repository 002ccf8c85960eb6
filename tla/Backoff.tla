------------------------------ MODULE Backoff ------------------------------
(***************************************************************************)
(* src/backoff.rs and compute_retry_delay of src/worker.rs: how long a job *)
(* waits before its next attempt.                                          *)
(*                                                                         *)
(* Durations are natural numbers of milliseconds up to DurationMax.  The   *)
(* code computes in f64 seconds.  Here a float is a natural number of      *)
(* milliseconds with the three properties of f64 that matter: integers up  *)
(* to FloatExact are exact, larger ones are multiples of FloatUlp, and     *)
(* everything from FloatMax on is infinity.  Ratios are percentages.       *)
(***************************************************************************)
EXTENDS Integers, FiniteSetsExt

CONSTANTS
    DurationMax,    \* Duration::MAX
    FloatExact,     \* below it every integer is a float
    FloatUlp,       \* above it the distance of neighbouring floats
    FloatMax,       \* infinity
    I32Max          \* i32::MAX, the largest exponent of powi

Second == 1000
Hour == 3600 * Second
NaN == -1       \* a ratio that is not a number
Panic == -1     \* the result of a call that panics

MIN_BACKOFF_BASE == 100
MAX_BACKOFF_CAP == 24 * Hour
MIN_RETRY_IN == 100
MAX_RETRY_IN == 24 * Hour

ASSUME FloatAssumption ==
    /\ {DurationMax, FloatExact, FloatUlp, FloatMax, I32Max} \subseteq Nat \ {0}
    /\ MAX_BACKOFF_CAP <= FloatExact
    /\ FloatExact < DurationMax /\ DurationMax + FloatUlp < FloatMax

\* A ratio of a policy may be any number.
BackoffPolicy ==
    [kind : {"Linear", "Exponential"}, base : Nat, increment : Nat, cap : Nat,
     factor : Int, jitter : Int]

Linear(b, i, c) ==
    [kind |-> "Linear", base |-> b, increment |-> i, cap |-> c, factor |-> 100, jitter |-> 0]
Exponential(b, f, c, j) ==
    [kind |-> "Exponential", base |-> b, increment |-> 0, cap |-> c, factor |-> f, jitter |-> j]
DefaultBackoff == Exponential(Second, 200, 300 * Second, 20)
fixed(d) == Linear(d, 0, d)

-----------------------------------------------------------------------------
(* Floats *)

IsFinite(x) == x < FloatMax

\* Duration::as_secs_f64: to the nearest float.
AsSecs(d) ==
    IF d <= FloatExact THEN d ELSE ((d + FloatUlp \div 2) \div FloatUlp) * FloatUlp

\* Duration::from_secs_f64 panics on what no Duration can hold.
FromSecs(x) == IF x \in 0 .. DurationMax THEN x ELSE Panic

\* x * n and x * p / 100 in floats; a product that reaches FloatMax is infinite.
Times(x, n) == IF n > 0 /\ x >= FloatMax \div n THEN FloatMax ELSE x * n
Percent(x, p) ==
    IF p > 0 /\ x \div 100 >= FloatMax \div p - 1
    THEN FloatMax
    ELSE (x \div 100) * p + ((x % 100) * p) \div 100
Plus(x, y) == IF x >= FloatMax - y THEN FloatMax ELSE x + y

-----------------------------------------------------------------------------
(* BackoffPolicy::next *)

\* The next power; infinity stays infinity.
NextPower(x, factor) == IF x = FloatMax THEN FloatMax ELSE Percent(x, factor)

\* base * factor.powi(n); a factor that is NaN makes every product NaN, which
\* is_finite treats like infinity.
Powi(p) ==
    LET f[n \in Nat] == IF n = 0 THEN AsSecs(p.base) ELSE NextPower(f[n - 1], p.factor)
    IN  f

RawSecs(p, attempt) ==
    CASE p.kind = "Linear" -> Plus(Times(AsSecs(p.increment), attempt), AsSecs(p.base))
      [] p.kind = "Exponential" /\ p.factor = NaN -> FloatMax
      [] OTHER -> Powi(p)[Min({attempt, I32Max})]

\* Mutant: an overflow means no delay.
ClampedSecsOrZero(p, attempt) ==
    LET raw == RawSecs(p, attempt) IN IF IsFinite(raw) THEN Min({raw, AsSecs(p.cap)}) ELSE 0

\* The delay before jitter.
ClampedSecs(p, attempt) ==
    LET raw == RawSecs(p, attempt) IN
    IF IsFinite(raw) THEN Min({raw, AsSecs(p.cap)}) ELSE AsSecs(p.cap)

\* The draws of random_range(-j..=j) that are explored: its ends and its middle.
Draws(j) == {-j, 0, j}

\* The possible results of apply_jitter.  Sampling an interval with a NaN bound panics.
ApplyJitter(p, secs) ==
    CASE p.kind = "Linear" -> {secs}
      [] p.kind = "Exponential" /\ p.jitter = NaN -> {Panic}
      [] OTHER -> {Percent(secs, 100 + delta) : delta \in Draws(Min({p.jitter, 100}))}

\* Mutant: the cap is not applied again after the jitter.
NextDelayUncapped(p, attempt) ==
    {IF s = Panic THEN Panic ELSE FromSecs(s) : s \in ApplyJitter(p, ClampedSecs(p, attempt))}

\* The possible results of next(attempt).
NextDelay(p, attempt) ==
    {IF s = Panic THEN Panic ELSE FromSecs(Min({s, AsSecs(p.cap)})) :
        s \in ApplyJitter(p, ClampedSecs(p, attempt))}

\* The error of the first check that fails, as a chain of early returns reports it.
FirstFailure(checks) ==
    LET failed == {i \in DOMAIN checks : checks[i][1]} IN
    IF failed = {} THEN "ok" ELSE checks[Min(failed)][2]

\* BackoffPolicy::validate
Validate(p) ==
    LET exponential == p.kind = "Exponential" IN
    FirstFailure(<<
        <<exponential /\ (p.factor = NaN \/ p.factor <= 100), "factor">>,
        <<exponential /\ p.jitter \notin 0 .. 100, "jitter">>,
        <<p.cap = 0, "cap">>,
        <<p.cap > MAX_BACKOFF_CAP, "cap">>,
        <<p.base < MIN_BACKOFF_BASE, "base">> >>)

-----------------------------------------------------------------------------
(* compute_retry_delay *)

NoOverride == -1

\* Ord::clamp panics when its bounds are reversed.
Clamp(x, floor, ceiling) ==
    IF floor > ceiling THEN Panic ELSE Min({Max({x, floor}), ceiling})

\* Mutant: an override has no floor.
ComputeRetryDelayUnfloored(retry_in, p, poll_interval, attempts) ==
    IF retry_in = NoOverride
    THEN NextDelay(p, attempts)
    ELSE {Min({retry_in, MAX_RETRY_IN})}

\* The possible delays of a retry: the handler's override, clamped, or the policy's.
ComputeRetryDelay(retry_in, p, poll_interval, attempts) ==
    IF retry_in = NoOverride
    THEN NextDelay(p, attempts)
    ELSE {Clamp(retry_in, Max({poll_interval, MIN_RETRY_IN}), MAX_RETRY_IN)}
=============================================================================
