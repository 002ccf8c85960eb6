# TLA+ models of pg_work_queue

`pg_work_queue` is a job queue in one PostgreSQL table. This directory models
the table with the workers that share it, the inside of one worker, and the
parts around them (producers, selection by key, builder, timing, backoff,
statistics), checks them with TLC and proves their safety properties with TLAPS for
every size and configuration.

## The system and its parts

| Part | Source | Modelled in |
|---|---|---|
| table `pgwq.jobs`, `jobs_status_invariants` | `migrations/20260513000000_v01_init.sql` | `WorkQueue` |
| its timestamps, `jobs_temporal`, `touch_jobs` | the same | `RowClock` |
| concurrency key column | `migrations/20260521000000_v01_concurrency_key.sql` | a constant per row in `WorkerProcess`, `KeyedClaim`; its CHECK in `PushTx` |
| producers: `push`, `push_at`, `push_batch` | `src/pusher.rs`, `src/error.rs` | `PushTx`; their effect on the table in `WorkQueue` |
| claim, decode | `src/claim.rs` | `WorkQueue`; order, keys, locks in `KeyedClaim`; `now()` in `RowClock` |
| `mark_done`, `mark_retry`, `mark_dead` | `src/mark.rs` | `WorkQueue`, `RowClock` |
| reaper: statement and loop | `src/reaper.rs` | `WorkQueue`; `WorkerProcess`; batch, order and interval in `LeaseTiming` |
| retention | `src/purge.rs` | `WorkQueue` |
| poll loop, `handle_job` | `src/worker.rs` | `WorkerProcess`; verdicts and marks in `WorkQueue` |
| per-key slots | `src/key_slot.rs` | `WorkerProcess`, `KeyedClaim` |
| `WorkerHandle`: `cancel`, `join`, `shutdown`, drops | `src/worker.rs` | `WorkerProcess` |
| `tick_once`, `TickStats` | `src/worker.rs` | `TickOnce` |
| `Stats`, transition events | `src/worker.rs`, `src/transition.rs` | `JobEvents`; `aborted` in `WorkerProcess` |
| backoff, jitter, `retry_in` clamp | `src/backoff.rs`, `src/worker.rs` | `Backoff`, `RetrySchedule` |
| builder validation, limits | `src/worker.rs`, `src/limits.rs` | `WorkerConfig`; what it buys in `LeaseTiming` |
| codec | `src/codec.rs` | a constant: which payloads encode or decode |
| `is_fatal_sqlx` | `src/worker.rs` | either class is a possible answer in `WorkerProcess` |
| truncation, migrator | `src/util.rs`, `src/migrator.rs` | not modelled: no state |

Producers insert rows. Each worker's poll loop claims due rows (`running`, one
more attempt, a fresh lease token), decodes them and spawns a `handle_job` task
per row, which calls the handler and settles the row with a mark statement that
is fenced by the token. Each worker's reaper sweeps rows whose lease has expired.
Workers share nothing but the table; inside a worker the loops, the tasks and the
handle share a semaphore, the per-key counters, a `JoinSet` behind a mutex, a
cancellation token and two error cells.

## Modules

How they build on each other: `TickOnce` and `JobEvents` extend `WorkQueue`, which
implements `JobLifecycle`; `WorkerConfig` extends `Backoff`, and `RetrySchedule` and
`LeaseTiming` extend `WorkerConfig`. `WorkerProcess`, `KeyedClaim`, `RowClock` and
`PushTx` stand alone. The `MC` modules give the constants their values;
`MCWorkerConfig` puts `RetrySchedule` and `LeaseTiming`, which share no state, into one run
that explores either with the other at its end.

**`JobLifecycle`** is the promise about one job, without tokens, leases, workers
or messages: numbered attempts, each ending at most once, a retry only while the
budget of the attempt allows one, completion only by the success of the current
attempt, `done` and `dead` final until the row is purged.

**`WorkQueue`** is the table and everything that writes to it.

- `jobs[j]` is the row: `status`, `attempts`, `max_attempts`, `lease_token` (a
  number per row instead of a UUID; `NoToken` is NULL), `attempted` and `finished`
  (whether those timestamps are set) and the two clock comparisons the statements
  make: `due` for `run_at <= now()` and `expired` for `lease_expires_at < now()`.
  `"absent"` and `"purged"` stand for a row not yet or no longer there.
- `tasks` are the claimed rows in the memory of a live worker, with the values the
  claim returned and where the worker is with them: `decode` (in the batch),
  `handler`, `mark`.
- `late` are mark statements nobody waits for any more (mark_timeout, abort,
  crash) that may still commit.
- `invoked` and `succeeded` are history: which attempts had their handler called
  and which of those returned `Ok`.

Each SQL statement is one atomic step, because each is a single statement that
locks its rows and re-checks its WHERE on the version it locked; everything
between statements interleaves. A claim and a sweep act on any subset of the rows
they may touch, which covers LIMIT, ORDER BY and SKIP LOCKED. Leases expire and
delays pass at any time, so no result depends on the timing relation that the
builder enforces between handler_timeout, mark_timeout and lease_timeout; what that
relation adds is in `LeaseTiming`.

| Action | Code |
|---|---|
| `Push` | `push`, `push_at`, `push_batch` at the caller's commit |
| `Claim`, `ClaimUnanswered` | the claim's UPDATE, with its rows returned or lost (connection error, shutdown arm) |
| `RejectRow`, `RejectRowFails` | a row that does not decode: `mark_dead`, or its failure |
| `Spawn`, `DropBatch` | the batch becomes tasks, or is dropped by the shutdown arm |
| `HandlerReturn`, `HandlerLost` | the outcome (`Ok`, `Retry`, `Abort`, timeout, panic) and its verdict; or the task ends without one |
| `MarkAnswered`, `MarkUnanswered`, `LateMark` | the mark commits and is answered; is given up; commits after it was given up |
| `Reap`, `Purge` | one sweep; one chunk of a purge |
| `Crash` | the process dies and comes back with empty memory |
| `BecomeDue`, `LeaseExpire` | the clock |

**`WorkerProcess`** is one started worker from inside. A step is what a task does
between two points at which another thread can see or change shared state. The
database's answers are left open; a member of `Rows` is one claim.

- `free`, `poll.permits` and the `permit` in `task[r].owns` are the semaphore's
  permits; `running[k]` is the per-key counter and `slot` in `owns` the guard.
- `poll.pc` follows one iteration: `tick`, `permit`, `snapshot` (headroom),
  `claim`, `lock` (the JoinSet's mutex), `spawn`, `exit`. Between `snapshot` and
  `spawn` tasks end and give slots back.
- `task[r].st`: `handler`, `mark`, `ended` (its future is being dropped: permit and
  slot go in either order), `joined`.
- `reaper`: the loop and its consecutive panics. `errors`: which of `last_fatal`
  and `last_panic_escalation` is set. `stats`: the tasks counted as
  `timed_out` (when handler_timeout elapses, before the mark), `settled` (by what the mark
  did) or `aborted`.
- `handle`: the method that runs (`join`, `shutdown`, Drop) and its phase: `await`
  (both loops), `drain`/`draining`, `abort`, `grace`, `result`, `returned`, or
  `abandoned` when the caller drops the future half-way (`DropFuture`). An abort of a
  loop takes effect only where the loop awaits.

**`TickOnce`** adds the second driver of the table, `Worker::tick_once`. `tick[w]` is
the call in progress with its `TickStats`, each counter as the set of attempts it
counts. The claim, the decoding and the marks are `WorkQueue`'s actions; what differs
is the control: the handlers run one after the other in the caller's task, without a
timeout, and a panic unwinds the call (`TickUnwinds`). `returned` is history: the rows the
claim returned, before decoding took some of them out.

**`JobEvents`** adds what an operator sees of the table: the counters of `Stats` and
the transition events. A statement's commit and the arrival of its answer are two
steps; in between the row may move on, and the answer may never arrive.

**`RowClock`** is one row with all its timestamps. A statement in flight carries the
`now()` of its start and is executed up to `StmtMax` later, on the row it finds then;
both CHECKs of the schema may reject it. `raised` records which kinds of statement
were rejected.

**`KeyedClaim`** is the selection of rows. `Ranked` and `Locked` are the two stages of
`SQL_KEYED` (`SQL_PLAIN` is the case without limits); the headroom, the ranking, the
locking and the spawn are separate steps, between which tasks end, rows are reaped and
other transactions lock rows. `live` are the tasks, each a row and the attempt it was
claimed for, since a row that was reaped under its task may have another one; the rows
of a claim are `poll.ids` when ranked and `poll.batch`, as such pairs, once claimed.

**`PushTx`** is the Pusher on its caller's connection: the validation of each call in
the order of the code, its INSERT, the transaction around it (open, failed, closed),
the error returned. `log` holds the calls made; a text is its length. `LoopError` is the
encoding loop of `push_batch`: the error of the first index that has one, of the item or
of the running total (`ErrorAt`).

**`Backoff`** and **`WorkerConfig`** are operators: `next`, `apply_jitter`, `validate`,
`compute_retry_delay` over floats that round and overflow; every knob, default and
check of `build()` in its order. **`RetrySchedule`** drives both, from the setters
through `build()` to the retries of a job. **`LeaseTiming`** runs the workers that
`build()` accepts on a clock: claim, call of the handler, its timeout, the mark's
timeout, crashes, and a reaper with a batch size and an interval.

**`WorkQueueProofs`**, **`TickOnceProofs`**, **`JobEventsProofs`**,
**`WorkerProcessProofs`**, **`KeyedClaimProofs`**, **`RowClockProofs`** and
**`PushTxProofs`** hold the proofs about the modules they are named after; the second and
third build on the first. **`WorkerConfigProofs`** holds those about `LeaseTiming` and
`RetrySchedule`, the two machines that start from `build()`.

## What TLC checks

| Run | Instance | Shows |
|---|---|---|
| `queue_life` | 1 job, 3 workers with max_attempts 2, 2 and 1 and different panic policies, the last of which cannot decode it; 136,648 states | the CHECK constraint is never violated (`StatusInvariants`); a task whose token still opens its row decides by current values (`CopyIsCurrent`); no row waits without budget (`RetryBudget`); a done row's last attempt succeeded (`DoneByLastAttempt`); no lease is held twice (`SoleHolder`); terminal rows stay (`TerminalIsFinal`); the inductive invariant `IInv`, which includes `TypeOK`; `WorkQueue` implements `JobLifecycle` (`RefinesLifecycle`); every pushed job settles (`EveryJobSettles`); at most one event says that an attempt changed its row, and it is true (`EventsTrue`); so are the counters (`StatsTrue`) |
| `tick_once` | 3 jobs, a started worker that decodes one of them and a ticker that decodes two; 194,655 states | the inductive invariant `TickInv`, which includes `IInv` for this driver and for batches of several rows; its counters are true and every decoded row is accounted for (`TickStatsTrue`); what a call that hangs, panics or is dropped leaves behind is settled (`NoRowStranded`) |
| `process_safety` | 3 claims, 2 permits, batch 2, two claims of a key with limit 1, one reaper panic to escalate; 2,817,917 states | `KeyLimit`, `SlotsExact`, `PermitsExact`, `RowsHavePermits`, `CountedOnce`, `DrainIsComplete`, `ErrorsSurface`; the inductive invariant `IInv`, which includes `TypeOK`; no deadlock |
| `process_liveness` | 2 claims of one key, 1 permit, batch 2, one claim error to escalate; 161,830 states | `ShutdownReturns` and `LoopsStop` although no handler need end; `JoinReturns` and `PermitsComeBack` if handlers do |
| `keyed_claim` | 3 rows with run_at 1 or 2, two of them of a key with limit 1, 2 permits, one foreign transaction; 213,902 states | the limit holds from the table to the task (`KeyLimitHolds`); the two stages of `SQL_KEYED` select what one ordered pass would (`SelectsGreedily`); a saturated key blocks nobody (`OthersProgress`) |
| `row_clock` | up to 3 statements in flight, lease 2, `StmtMax` 2, 8 instants; 2,318,192 states | only a push into the past meets `jobs_temporal` (`OnlyPushIsRejected`); attempts are recorded in order (`AttemptsAdvance`) |
| `push_tx` | 3 calls with inputs on each side of every limit, 1 transaction; 692,767 states | `CallIsAtomic`, `CommitsWithWrite`, `ConstraintOnlyFromPast` |
| `worker_config` | up to 3 knobs set to values around their limits and 4 overrides; or 2 rows, those of 72 builders that `build()` accepts, steps of 0.5s, a reaper batch of 1; 990,189 states | `OverrideIsClamped`; `PolicyDelayWithinCap`; `NeverSooner`; `LeaseCoversAttempt`; `StaleBound`; no deadlock of the timers |
| `never_invoked` | 1 job that every worker decodes | violated: see below |
| `tick_claimed` | the instance of `tick_once` | violated: see below |
| `slow_poll_override` | a poll_interval of 25h | violated: see below |
| `mark_default` | one knob set to values around its limits | violated: see below |

Bounds. Attempts are bounded by max_attempts, so `WorkQueue` is finite without a
constraint. Its properties are about one row at a time, so `queue_life` has one job
and spends the states on its holders: two workers that handle it, a third whose stricter
max_attempts makes a second claim without budget and a late mark by a looser one happen.
Batches, sweeps and purges of several rows, and a batch in which one row fails to decode,
happen in `tick_once`, whose three jobs let a call have a handled, a waiting and a
rejected row at once; to pay for it each job has one attempt, so that fencing there is by
the reaper's dead-letter only. In `WorkerProcess` two claims of a key with limit 1 compete for its slot while
the third, without a key, takes the other permit. A threshold of 2 is reached with a
count below it that may be reset: for claim errors in `process_safety`, for reaper panics
in `process_liveness`; the other threshold is 1 in each. The two claims of the same key are
interchangeable, hence the symmetry; it is not used in the liveness run. In `RowClock`
two attempts and eight instants let a claim, a sweep and a second claim overlap with a
mark of the first. `Backoff` scales the f64 (`FloatExact`, `FloatUlp`, `FloatMax`) and
i32/u32 limits down so that rounding, overflow and saturation all happen; `PushTx` does
so with the batch limits. `LeaseTiming` claims each row once, before `ClaimWindow`.

Fairness. `Fairness` of `WorkQueue` assumes that time passes, that some worker keeps
polling and works off what it claimed, and that some reaper sweeps; both loops are
timer-driven and retry after errors. It assumes nothing of handlers, marks, crashes
or abandoned statements. `queue_life` has one job, so some claim or sweep is one of
that job; `tick_once` has three, each with one attempt, so claims of the others run
out. That no row starves among ever new ones (the ORDER BY of the statements) is not
claimed. In `TickOnce` only the started worker is fair: no call of `tick_once` need be
made, return or finish. `WorkerProcess` assumes that every loop and drop that can run
does, and strong fairness of the two shutdown arms, because `tokio::select!` chooses at
random among ready arms; that a job ends by itself or by its timeouts (`JobFairness`)
is a hypothesis of `JoinReturns` and `PermitsComeBack` only. `KeyedClaim` assumes that
claims do not always fail (the worker stops after a number of consecutive errors) and
that handlers without a limited key end; those of limited keys may hang for ever. Its
`OthersProgress` rests on the limit (1) being below the concurrency (2): otherwise hanging
handlers may hold every permit.

Every property has a mutant: a definition marked `Mutant` stands before the one it
varies and makes a plausible mistake in it (a dropped guard, an off-by-one, a
permit not returned). TLC finds the property violated when it takes the place of
the original, so the runs do reach the cases the properties are about.

## Where the documentation and the code differ

Four differences have a run of their own.

- `never_invoked`: `src/lib.rs:11` promises at-least-once delivery: "A handler may be
  invoked one *or more* times for a single logical job". The claim already spends the
  attempt, and the reaper dead-letters a row without attempts left, so a job whose last
  attempt is lost between claim and spawn (crash, lost reply, shutdown) may end
  `dead` with no invocation at all, and with no task left that could still make one
  (`AtLeastOnce`). With max_attempts 1 the first claim is enough.
- `tick_claimed`: `src/worker.rs:91-92` says of `TickStats` that "`claimed` is the # of rows
  the SQL `claim_batch` actually returned"; the code counts after `claim_and_decode` has
  taken out the rows that do not decode (`src/worker.rs:958`; `ClaimedIsReturned`).
- `mark_default`: `README.md:805` of the crate gives the default of `mark_timeout` as
  "`lease − handler − 1s`, clamped to ≥ 100ms". The code takes 100ms only if the difference
  is negative (`src/worker.rs:770`); one below 100ms, as with a lease of 5s alone, is refused
  with `MarkTimeoutTooShort` (`MarkDefaultFits`). The leases that are really accepted alone
  are those from 5.5s on (`LeaseAloneFrom5500`).
- `slow_poll_override`: `compute_retry_delay` (`src/worker.rs:2273`) clamps a `retry_in`
  to at least poll_interval and at most 24h. `build()` sets no ceiling on
  poll_interval, and above 24h the bounds are reversed and `Duration::clamp` panics.
  `OverrideIsClamped` holds in `worker_config`, whose poll intervals are shorter.

The others are differences between a comment and the code that the models had to
decide, in favour of the code.

- `src/reaper.rs:35-36` says that after the panic threshold `join()` "will complete
  normally"; it returns `ShutdownError::ReaperPanicEscalation` (`ErrorsSurface`).
- `src/backoff.rs:159` says `next` "**Never panics**"; on a policy that was not
  validated it can: `Duration::MAX` as f64 seconds rounds up to what `from_secs_f64`
  refuses (`FromSecs` of `Backoff`). With a policy that `build()` accepts it does not
  (`PolicyDelayWithinCap`).
- `src/worker.rs:514-515` says `mark_timeout` caps a mark's wait "so the lease can not
  expire mid-mark"; with mark_timeout at its ceiling, lease − handler, the time between
  claim and handler is not covered, which is why `LeaseCoversAttempt` has the
  hypothesis `Latency <= Slack`.
- `src/worker.rs:536-537` calls `reaper_interval` "the worst-case latency between a
  worker process crash and the orphaned row becoming claimable again"; the row first
  waits for its lease to expire (`StaleBound` is the bound that holds).
- `src/worker.rs:94` says that rows whose mark failed in `tick_once` "remain `running`"; the
  mark may have committed all the same (`TickMarkFails`).
- `src/worker.rs:157-158` says that `aborted` counts handlers "(NOT via `handler_timeout`)".
  `timed_out` is bumped when the timeout elapses (`src/worker.rs:1794`), before the mark is
  awaited; if a shutdown aborts the task in that mark, it is counted in both (`HandlerEnds`,
  `CountedOnce`).
- `PLAN.md:1085-1086` says that a mark of 0 rows emits `pgwq.state.transition` with
  "`lost_race=true`", and `src/transition.rs:63-64` describes the attribute so. The code only
  warns and counts `fenced_out`; every caller of `emit_transition` passes
  `lost_race: false` (`Emitted`). `EventsTrue` therefore speaks only of events without
  `lost_race`, and would hold of the documented behaviour too.
- `src/worker.rs:2443-2445` attributes class 23 errors to a "library bug, not
  transient"; a claim that is delayed by more than a lease can meet `jobs_temporal` on
  a row attempted and reaped since. `OnlyPushIsRejected` holds in `row_clock`, where
  `StmtMax` is `Lease`, and is proved up to `Lease` + 1; with the leases 1 and 2 TLC finds
  it violated at `Lease` + 2. `AttemptsAdvance` is violated at `Lease` + 1 (lease 2):
  a second attempt may then record the same instant as the first.
- `src/error.rs:70` reserves `Codec` for single pushes; the first item of a batch gets
  it too (`EncodeError`). `src/error.rs:108-109` calls a retriable failure "transient
  infrastructure noise"; a push in a transaction that has already failed is classified
  so as well (`Classify`).
- `src/transition.rs:4-7` says every transition "MUST route through
  [`emit_transition`]"; the `mark_dead` of a row that does not decode emits nothing
  (`EventNext`).

## What is proved

Each theorem is for every value of the constants that satisfies the module's `ASSUME`;
a hypothesis beyond it is named below. The assumptions are what the builder and the
schema enforce (limits and thresholds at least 1, a numbering of the rows by id), the
types of the inputs, and that sets of rows are finite. `FloatAssumption` says of the scaled
f64 what is true of the real one: its range exceeds the durations it must hold, and the
largest cap that `validate` lets through is represented exactly. `KnobAssumption` says that
the setters' arguments have the types of the setters.

| Theorem | States |
|---|---|
| `WorkQueueProofs`: `Invariance`, `TypeCorrect`, `ConstraintHolds`, `CopiesAreCurrent`, `BudgetIsKept`, `DoneIsEarned`, `LeaseIsExclusive`, `TerminalRowsStay` | `IInv`, `TypeOK`, `StatusInvariants`, `CopyIsCurrent`, `RetryBudget`, `DoneByLastAttempt`, `SoleHolder`, `TerminalIsFinal` |
| `LifecycleIsImplemented`, `LeaseIsAttempt` | `WorkQueue` implements `JobLifecycle` (`RefinesLifecycle`); one lease per attempt (`AttemptInv`) |
| `TickOnceProofs`: `TickInvariance`, `TableSafeUnderTick`, `StatsAreTrue`, `TickImplementsLifecycle`, `TerminalRowsStayUnderTick` | `TickInv`, `IInv`, `TickStatsTrue`, `RefinesLifecycle` and `TerminalIsFinal` with callers of `tick_once` among the workers |
| `JobEventsProofs`: `EventsOnlyWatch`, `EventsRefineLifecycle`, `EventInvariance`, `EventsAreTrue`, `CountersAreTrue` | events and counters add no behaviour to the queue, so it still implements `JobLifecycle`; `EventInv`, `EventsTrue`, `StatsTrue` |
| `WorkerProcessProofs`: `Invariance`, `TypeCorrect`, `SlotsAreExact`, `PermitsAreExact`, `RowsPairWithPermits`, `KeyLimitIsKept`, `CountedOnceOnly`, `DrainCompletes`, `ErrorsAreReported`, `NoneStartsAfterReturn` | `IInv`, `TypeOK`, `SlotsExact`, `PermitsExact`, `RowsHavePermits`, `KeyLimit`, `CountedOnce`, `DrainIsComplete`, `ErrorsSurface`; no handler starts after `join`, or a `shutdown` whose loops left in time, has returned (`NoneStarts`) |
| `KeyedClaimProofs`: `ClaimInvariance`, `LimitHolds`, `SelectionIsGreedy` | `ClaimInv`, `KeyLimitHolds`, `SelectsGreedily` |
| `RowClockProofs`: `Invariance`, `ChecksNeverStopAWorker` (if `StmtMax <= Lease + 1`), `AttemptsFollowOneAnother` (if `StmtMax <= Lease`) | `IInv`, `OnlyPushIsRejected`, `AttemptsAdvance` |
| `WorkerConfigProofs`: `TimingInvariance`, `LeaseSuffices`, `RecoveryIsTimely` (each with `Step = 1`) | `TimingInv`, `LeaseCoversAttempt`, `StaleBound` |
| `ScheduleInvariance`, `PolicyWithinCap`, `DelaysNeverShrink` | `ScheduleInv`, `PolicyDelayWithinCap`, `NeverSooner` |
| `OverridesClamped` (if no caller sets a poll_interval above 24h) | `OverrideIsClamped` |
| `LeaseAloneFrom5500` (for leases of whole 5ms) | with `lease_timeout` as the only timing knob, `build()` accepts 5.5s and more |
| `PushTxProofs`: `PushInvariance`, `CallsAreAtomic`, `RowsCommitWithWrite`, `ValidationCoversChecks` | `PushInv`, `CallIsAtomic`, `CommitsWithWrite`, `ConstraintOnlyFromPast` |

Hardly any of the properties is inductive alone; each module states what they rest on at
its end. The inductive invariants of `WorkQueue`, `TickOnce` and `WorkerProcess` are
properties of their runs. TLC has also checked `EventInv`, `ClaimInv`, `PushInv`,
`TimingInv`, `ScheduleInv` and the `IInv` of `RowClock` on the instances of the table above.

**The table.** `DoneByLastAttempt` needs to know that a `mark_done` on its way to the
table, in a task or in `late`, was sent for the attempt that its token still opens; that
needs every token to be issued once and to have at most one holder, and a holder's copy
of `attempts` to be current while its token is. `IInv` says so row by row (`RowInv`),
task by task (`TaskInv`) and statement by statement (`StmtInv`). The argument is in
`Keeps(j)`: no step lets a token issued earlier open a row that it did not open before,
nor changes the attempt while it does. `TaskKept` and `StmtKept` show that any such step
preserves what every task and statement believes; what remains is one lemma per statement
about the row it changes (`InsertedRow` ... `PurgedRow`) and one per kind of step
(`PushStep` ... `ReturnStep`), combined in `NextInv`. The refinement maps the same kinds
of step to the actions of `JobLifecycle` or to a stutter, for each job.

**tick_once and events.** Every step of `TickOnce` and `JobEvents` is a step of the queue
or one that keeps `IInv` by the same lemmas, so what is proved of the table carries over.
That the reports are true needs `AttemptInv` (an attempt has one lease, hence one task and
one statement that can end it): an attempt that was counted, or whose answer is on its
way, has no task left that could be counted again (`CallInv`, `AnswerInv`, `CountedInv`),
and an attempt ends only once (`EndedInv`).

**The worker's process.** `PermitsExact` and `SlotsExact` are sums over the tasks that own
something; `TaskInv` ties what a task owns to where it is, so each step moves one permit or
slot between two places, which a lemma on cardinalities covers. `KeyLimit` follows from
`PollInv`: from the snapshot on, slots in use and headroom together fit the limit, because
only this loop takes slots; after the claim, slots in use and claimed rows do. `HandleInv`
records what a method of the handle has already seen to at each phase; with it, and since
only a poll loop in `spawn` starts a handler (`OnlySpawnStarts`), none starts after a clean
return.

**Selection.** `ClaimInv` is the same idea seen from the table: tasks and headroom fit the
limit while the claim runs (`HeadroomInv`), ranking takes no more rows of a key than its
headroom (`RankedWithinHeadroom`, from the fact that the first `n` rows in a strict total
order are at most `n`), locking only drops candidates, and each claimed row is one task.
It does not matter what others do to the rows in between.

`SelectsGreedily` compares two ways to pick. `Greedy` walks the due rows by position and
takes each one that is admitted after those already taken; the statement cuts per key,
unites, and cuts again. A row that `LIMIT n` cuts off has `n` rows before it that pass
(`CutOff`); applied to the union, to the row's key and to the rows without a limit, this
shows that a due row is selected exactly if it is admitted after the selected rows before it
(`SelectedIsAdmitted`, `AdmittedIsSelected`). The selected rows up to each position
therefore satisfy the equation of the walk, so the walk is well defined, and an induction
along the positions (`WalkSelects`) makes it equal to them.

**Timestamps.** A row that waits for a retry became due after its last attempt began, or
the lease of that attempt has run out (`RowInv`). A claim that finds such a row therefore
has a `now()` that is late enough, if it is not older than a lease: the hypothesis on
`StmtMax` is exactly what this takes, and TLC shows that it cannot be dropped (above).

**Timing.** From the checks of `build()` alone (`AcceptedTiming`) follow
handler_timeout + mark_timeout <= lease_timeout and 2 * reaper_interval <= lease_timeout;
`TimingInv` adds up the timers of a task from its claim, and says that after each tick the
sweeps go on until one is not full, so no row is stale for longer than an interval.
`Step = 1` makes the clock as fine as the durations: with a coarser one it could step over
the end of a timer. The run's step of 0.5s divides every duration of its builders.

**Retries.** `ScheduleInv` says that the knobs are ones that callers set, that the result is
`build()`'s of this builder, and that the delay is one that `compute_retry_delay` may return
for the current attempt. The rest is about operators: `validate` accepts exactly the
policies of `ValidPolicy` (`ValidateAccepts`); the powers of a policy, a recursive function
in the model, satisfy its equation (`PowiDef`) and do not fall until they overflow
(`PowerGrows`); an infinite value becomes the cap, so neither does the clamped delay
(`ClampedGrows`); the jitter keeps it between zero and the cap (`JitterType`). Both
hypotheses are needed. Above a poll_interval of 24h the bounds of the clamp are reversed
(`slow_poll_override`). And 80% of a lease that is no multiple of 5ms is not a whole number
of milliseconds, to which the model rounds it; the code (`mul_f64`) rounds to nanoseconds.

**Pushes.** `CallInv` follows the rows of one call: all in the table, all waiting in the
open transaction, or nowhere, and after the end of its transaction in the table exactly if
that was committed and the call had succeeded. `NumberInv` keeps calls apart.
`ValidationCoversChecks` compares the code's checks with the schema's for every length
(`ItemAccepted`), and rests on the loop visiting every item (`LoopValidates`).

The prover has no induction over data of its own. `WalkSelects` and `PowiDef` use
`SetInduction`: a set of numbers that holds 0 and every successor is `Nat`, because
its complement would have a least element.

Checked by TLC only:

- liveness, and with it everything under fairness: `EveryJobSettles`, `NoRowStranded`,
  `ShutdownReturns`, `LoopsStop`, `JoinReturns`, `PermitsComeBack`, `OthersProgress`;
- the absence of deadlock, which is about `ENABLED`.

## What is not modelled

- The inner task of `handle_job`, which may outlive the abort of the outer one by one
  poll: it has no effect on the state the models keep.
- `is_fatal_sqlx` as a table of error codes; the loops take either class as an answer.
- `Worker::start`'s schema probe, `queue_stats` and the total that a purge adds up over
  its chunks: reads and sums with no interleaving of their own.
- `pending_recovery`, a best-effort count that feeds nothing.
- The trigger that makes `concurrency_key` immutable: no statement of the library sets
  the column, and the models keep it constant.
- Logging, truncation of error texts, the JSON codec, the migrator: no state, or data
  that no property tells apart.

Three things the models show but no property claims: a poll loop that was cut off
after its last await may still spawn the rows it claimed when a shutdown's soft
drain has timed out (`DrainIsComplete` is therefore about shutdowns whose loops
left in time); finished tasks stay in the JoinSet until the handle drains it; and
outside a transaction a push whose reply is lost may have committed, so that a caller
who retries it enqueues the job twice.
