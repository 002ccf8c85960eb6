------------------------ MODULE WorkerConfigProofs ------------------------
(***************************************************************************)
(* Proofs about the two machines that start from build(): LeaseTiming, for *)
(* every builder that build() accepts, any number of rows, any latency and *)
(* any batch size of the reaper, on a clock as fine as the durations are   *)
(* (Step = 1); and RetrySchedule, for any knobs, policies and overrides.   *)
(***************************************************************************)
EXTENDS LeaseTiming, RetrySchedule, TLAPS, FiniteSetTheorems, WellFoundedInduction

-----------------------------------------------------------------------------
\* Minima, and the first check that fails.

\* A set of natural numbers has a minimum.
LEMMA Smallest ==
  ASSUME NEW T \in SUBSET Nat, T # {}
  PROVE  Min(T) \in T /\ \A y \in T : Min(T) <= y
<1>1. PICK x \in T : \A y \in T : ~(<<y, x>> \in OpToRel(<, Nat))
  BY NatLessThanWellFounded, WFMin
<1>2. ASSUME NEW y \in T PROVE x <= y
  <2>1. CASE y < x
    <3>1. <<y, x>> \in OpToRel(<, Nat)
      BY <2>1 DEF OpToRel
    <3> QED
      BY <1>1, <3>1
  <2> QED
    BY <2>1
<1> QED
  BY <1>2 DEF Min

\* The smaller and the larger of two numbers.
LEMMA MinOfTwo ==
  ASSUME NEW a \in Int, NEW b \in Int
  PROVE  Min({a, b}) = IF a <= b THEN a ELSE b
BY DEF Min

\* build()'s Ord::max of a share of the lease and a floor.
LEMMA MaxOfTwo ==
  ASSUME NEW a \in Int, NEW b \in Int
  PROVE  Max({a, b}) = IF a >= b THEN a ELSE b
BY DEF Max

\* A chain of early returns reports success exactly if no check of it fails.
LEMMA NoFailure ==
  ASSUME NEW checks, NEW n \in Nat, DOMAIN checks = 1..n,
         \A i \in 1..n : checks[i][2] # "ok"
  PROVE  FirstFailure(checks) = "ok" <=> \A i \in 1..n : ~checks[i][1]
<1>1. PICK failed : failed = {i \in DOMAIN checks : checks[i][1]}
  OBVIOUS
<1>2. CASE failed = {}
  BY <1>1, <1>2 DEF FirstFailure
<1>3. CASE failed # {}
  <2>1. failed \in SUBSET Nat
    BY <1>1
  <2>2. Min(failed) \in failed
    BY <1>3, <2>1, Smallest
  <2>3. FirstFailure(checks) = checks[Min(failed)][2]
    BY <1>1, <1>3 DEF FirstFailure
  <2> QED
    BY <1>1, <2>2, <2>3
<1> QED
  BY <1>2, <1>3

\* build() accepts a builder exactly if none of its checks fails.
LEMMA BuildAccepts ==
  ASSUME NEW b
  PROVE  BuildError(b) = "ok" <=>
            /\ \A i \in 1..11 : ~KnobChecks(b)[i][1]
            /\ \A i \in 1..4 : ~HandlerAndMarkChecks(b)[i][1]
            /\ \A i \in 1..2 : ~ReaperChecks(b)[i][1]
            /\ ~BackoffChecks(b)[1][1]
            /\ ~LimitChecks(b)[1][1]
<1>1. PICK v : BackoffChecks(b) = <<v>> /\ v[2] # "ok"
  <2>1. PICK v : v = <<Validate(RetryBackoff(b)) # "ok", "BackoffInvalid">>
    OBVIOUS
  <2>2. BackoffChecks(b) = <<v>>
    BY <2>1, Zenon DEF BackoffChecks
  <2>3. v[2] = "BackoffInvalid"
    BY <2>1
  <2> QED
    BY <2>2, <2>3
<1>2. PICK l : LimitChecks(b) = <<l>> /\ l[2] # "ok"
  <2>1. PICK bad : bad = (\E k \in DOMAIN b.concurrency_limits :
                            \/ k \notin 1 .. MAX_CONCURRENCY_KEY_LEN
                            \/ b.concurrency_limits[k] \notin 1 .. I32Max)
    OBVIOUS
  <2>2. PICK l : l = <<bad, "ConcurrencyKeyOrLimitInvalid">>
    OBVIOUS
  <2>3. LimitChecks(b) = <<l>>
    BY <2>1, <2>2, Zenon DEF LimitChecks
  <2>4. l[2] = "ConcurrencyKeyOrLimitInvalid"
    BY <2>2
  <2> QED
    BY <2>3, <2>4
<1>3. PICK s : s = BuildChecks(b)
  OBVIOUS
<1>4. s = KnobChecks(b) \o HandlerAndMarkChecks(b) \o ReaperChecks(b) \o <<v>> \o <<l>>
  BY <1>1, <1>2, <1>3 DEF BuildChecks
<1>5. DOMAIN s = 1..19
  BY <1>4 DEF KnobChecks, HandlerAndMarkChecks, ReaperChecks
<1>6. \A i \in 1..19 : s[i][2] # "ok"
  BY <1>1, <1>2, <1>4 DEF KnobChecks, HandlerAndMarkChecks, ReaperChecks
<1>7. BuildError(b) = "ok" <=> \A i \in 1..19 : ~s[i][1]
  BY <1>3, <1>5, <1>6, NoFailure DEF BuildError
<1>8. \A i \in 1..11 : s[i] = KnobChecks(b)[i]
  BY <1>4 DEF KnobChecks, HandlerAndMarkChecks, ReaperChecks
<1>9. \A i \in 1..4 : s[11 + i] = HandlerAndMarkChecks(b)[i]
  BY <1>4 DEF KnobChecks, HandlerAndMarkChecks, ReaperChecks
<1>10. \A i \in 1..2 : s[15 + i] = ReaperChecks(b)[i]
  BY <1>4 DEF KnobChecks, HandlerAndMarkChecks, ReaperChecks
<1>11. s[18] = BackoffChecks(b)[1] /\ s[19] = LimitChecks(b)[1]
  BY <1>1, <1>2, <1>4 DEF KnobChecks, HandlerAndMarkChecks, ReaperChecks
<1>12. (\A i \in 1..19 : ~s[i][1]) <=>
        /\ \A i \in 1..11 : ~s[i][1]
        /\ \A i \in 1..4 : ~s[11 + i][1]
        /\ \A i \in 1..2 : ~s[15 + i][1]
        /\ ~s[18][1] /\ ~s[19][1]
  OBVIOUS
<1> QED
  BY <1>7, <1>8, <1>9, <1>10, <1>11, <1>12

\* The checks of build() on the timing of handlers, marks and the reaper: all of them passed.
LEMMA TimingChecksPass ==
  ASSUME NEW b, BuildError(b) = "ok"
  PROVE  /\ ~(HandlerTimeout(b) + Second > b.lease_timeout)
         /\ ~(MarkTimeout(b) > MarkBudget(b))
         /\ ~(ReaperInterval(b) > b.lease_timeout \div 2)
<1>1. /\ ~HandlerAndMarkChecks(b)[2][1] /\ ~HandlerAndMarkChecks(b)[4][1]
      /\ ~ReaperChecks(b)[2][1]
  BY BuildAccepts
<1>2. HandlerAndMarkChecks(b)[2][1] <=> HandlerTimeout(b) + Second > b.lease_timeout
  BY DEF HandlerAndMarkChecks
<1>3. HandlerAndMarkChecks(b)[4][1] <=> MarkTimeout(b) > MarkBudget(b)
  BY DEF HandlerAndMarkChecks
<1>4. ReaperChecks(b)[2][1] <=> ReaperInterval(b) > b.lease_timeout \div 2
  BY DEF ReaperChecks
<1> QED
  BY <1>1, <1>2, <1>3, <1>4

\* So a handler and its mark fit into the lease, and two reaper intervals too, whichever of
\* the knobs were set and whichever build() filled in.
LEMMA AcceptedTiming ==
  ASSUME NEW b \in Builders, BuildError(b) = "ok", worker = Worker(b)
  PROVE  WorkerInv
<1>1. /\ b.lease_timeout \in Nat
      /\ b.handler_timeout \in Nat \cup {Unset} /\ b.mark_timeout \in Nat \cup {Unset}
      /\ b.reaper_interval \in Nat \cup {Unset}
  BY TimingAssumption DEF TimingAssumption
<1>2. PICK l \in Nat : l = b.lease_timeout
  BY <1>1
<1>3. PICK h : h = HandlerTimeout(b)
  OBVIOUS
<1>4. PICK m : m = MarkTimeout(b)
  OBVIOUS
<1>5. PICK i : i = ReaperInterval(b)
  OBVIOUS
<1>6. h \in Nat
  <2>1. Max({(l * 4) \div 5, MIN_HANDLER_TIMEOUT}) \in Nat
    BY <1>2, MaxOfTwo DEF MIN_HANDLER_TIMEOUT, Second
  <2> QED
    BY <1>1, <1>2, <1>3, <2>1 DEF HandlerTimeout, Or, Unset
<1>7. MarkBudget(b) \in Nat /\ (h <= l => MarkBudget(b) = l - h)
  BY <1>2, <1>3, <1>6 DEF MarkBudget, CheckedSub
<1>8. m \in Nat
  BY <1>1, <1>4, <1>7 DEF MarkTimeout, Or, Unset, CheckedSub, Second, MIN_MARK_TIMEOUT
<1>9. i \in Nat
  <2>1. Max({l \div 4, MIN_REAPER_INTERVAL}) \in Nat
    BY <1>2, MaxOfTwo DEF MIN_REAPER_INTERVAL, Second
  <2> QED
    BY <1>1, <1>2, <1>5, <2>1 DEF ReaperInterval, Or, Unset
<1>10. h + m <= l
  BY <1>2, <1>3, <1>4, <1>6, <1>7, <1>8, TimingChecksPass DEF Second
<1>11. 2 * i <= l
  BY <1>2, <1>5, <1>9, TimingChecksPass
<1>12. /\ worker.lease_timeout = l /\ worker.handler_timeout = h
       /\ worker.mark_timeout = m /\ worker.reaper_interval = i
  BY <1>2, <1>3, <1>4, <1>5 DEF Worker
<1> QED
  BY <1>2, <1>6, <1>8, <1>9, <1>10, <1>11, <1>12 DEF WorkerInv

-----------------------------------------------------------------------------
\* The reaper.

\* A sweep that is not full took every stale row, so no row that is still running has
\* expired: the reaper may wait for its next tick.
LEMMA PartialSweep ==
  ASSUME NEW stale \in SUBSET Rows, NEW S, Sweep(stale, S), ~(Cardinality(S) >= ReaperBatch)
  PROVE  S = stale
<1>1. IsFiniteSet(Rows) /\ ReaperBatch \in Nat
  BY TimingAssumption DEF TimingAssumption
<1>2. IsFiniteSet(stale)
  BY <1>1, FS_Subset
<1>3. Cardinality(stale) \in Nat
  BY <1>2, FS_CardinalityType
<1>4. S \subseteq stale /\ Cardinality(S) = Min({Cardinality(stale), ReaperBatch})
  BY DEF Sweep
<1>5. Cardinality(S) = Cardinality(stale)
  BY <1>1, <1>3, <1>4, MinOfTwo
<1> QED
  BY <1>2, <1>4, <1>5, FS_Subset

-----------------------------------------------------------------------------
\* The inductive invariant, step by step.

\* What TimingInit sets up: an accepted configuration, and nothing claimed.
LEMMA InitTiming ==
  ASSUME TimingInit
  PROVE  TimingInv
<1>1. WorkerInv
  BY AcceptedTiming DEF TimingInit
<1>2. TypeOK
  BY <1>1 DEF TimingInit, TypeOK, WorkerInv
<1>3. ReaperInv /\ StaleBound
  BY <1>1 DEF TimingInit, ReaperInv, StaleBound, Running, WorkerInv
<1>4. \A r \in Rows : TaskInv(r)
  BY DEF TimingInit, TaskInv
<1> QED
  BY <1>1, <1>2, <1>3, <1>4 DEF TimingInv

\* A claim starts the lease and the task at the same moment.
LEMMA ClaimTiming ==
  ASSUME TimingInv, NEW r \in Rows, Claim(r)
  PROVE  TimingInv'
<1>1. /\ worker' = worker /\ now' = now /\ reaper' = reaper
      /\ row' = [row EXCEPT ![r] = [status |-> "running", expires |-> now + worker.lease_timeout]]
      /\ task' = [task EXCEPT ![r] = [pc |-> "claimed", since |-> now]]
  BY DEF Claim
<1>2. TypeOK /\ WorkerInv /\ ReaperInv /\ StaleBound /\ \A q \in Rows : TaskInv(q)
  BY DEF TimingInv
<1>3. Latency \in Nat
  BY TimingAssumption DEF TimingAssumption
<1>4. WorkerInv'
  BY <1>1, <1>2 DEF WorkerInv
<1>5. TypeOK'
  BY <1>1, <1>2 DEF TypeOK, WorkerInv, Live
<1>6. ReaperInv'
  BY <1>1, <1>2 DEF TypeOK, WorkerInv, ReaperInv, Running
<1>7. StaleBound'
  BY <1>1, <1>2 DEF TypeOK, WorkerInv, StaleBound, Running
<1>8. ASSUME NEW q \in Rows PROVE TaskInv(q)'
  <2>1. CASE q = r
    <3>1. task'[q] = [pc |-> "claimed", since |-> now] /\ row'[q].expires = now + worker.lease_timeout
      BY <1>1, <1>2, <2>1 DEF TypeOK
    <3> QED
      BY <1>1, <1>2, <1>3, <3>1 DEF TypeOK, WorkerInv, TaskInv
  <2>2. CASE q # r
    <3>1. task'[q] = task[q] /\ row'[q] = row[q]
      BY <1>1, <1>2, <2>2 DEF TypeOK
    <3> QED
      BY <1>1, <1>2, <3>1 DEF TaskInv
  <2> QED
    BY <2>1, <2>2
<1> QED
  BY <1>4, <1>5, <1>6, <1>7, <1>8 DEF TimingInv

\* A task that goes on to its next timer, or ends, leaves the lease and the reaper alone.
LEMMA TaskTiming ==
  ASSUME TimingInv, NEW r \in Rows,
         CallHandler(r) \/ HandlerEnds(r) \/ MarkTimesOut(r)
  PROVE  TimingInv'
<1>1. worker' = worker /\ now' = now /\ row' = row /\ reaper' = reaper
  BY DEF CallHandler, HandlerEnds, MarkTimesOut
<1>2. PICK to : /\ task' = [task EXCEPT ![r] = [pc |-> to, since |-> now]]
                /\ \/ task[r].pc = "claimed" /\ to = "handler"
                   \/ task[r].pc = "handler" /\ to = "mark"
                   \/ to = "gone"
  BY DEF CallHandler, HandlerEnds, MarkTimesOut
<1>3. TypeOK /\ WorkerInv /\ ReaperInv /\ StaleBound /\ \A q \in Rows : TaskInv(q)
  BY DEF TimingInv
<1>4. Latency \in Nat
  BY TimingAssumption DEF TimingAssumption
<1>5. WorkerInv'
  BY <1>1, <1>3 DEF WorkerInv
<1>6. TypeOK'
  BY <1>1, <1>2, <1>3 DEF TypeOK, Live
<1>7. ReaperInv' /\ StaleBound'
  BY <1>1, <1>3 DEF ReaperInv, StaleBound, Running
<1>8. ASSUME NEW q \in Rows PROVE TaskInv(q)'
  <2>1. CASE q = r
    <3>1. task'[q] = [pc |-> to, since |-> now]
      BY <1>2, <1>3, <2>1 DEF TypeOK
    <3>2. now \in Nat /\ task[q].since \in Nat /\ row[q].expires \in Nat
      BY <1>3 DEF TypeOK
    <3>3. TaskInv(q)
      BY <1>3
    <3> QED
      BY <1>1, <1>2, <1>3, <1>4, <2>1, <3>1, <3>2, <3>3 DEF WorkerInv, TaskInv
  <2>2. CASE q # r
    <3>1. task'[q] = task[q]
      BY <1>2, <1>3, <2>2 DEF TypeOK
    <3> QED
      BY <1>1, <1>3, <3>1 DEF TaskInv
  <2> QED
    BY <2>1, <2>2
<1> QED
  BY <1>5, <1>6, <1>7, <1>8 DEF TimingInv

\* A mark that commits only takes a row out of running.
LEMMA MarkTiming ==
  ASSUME TimingInv, NEW r \in Rows, MarkCommits(r)
  PROVE  TimingInv'
<1>1. /\ worker' = worker /\ now' = now /\ reaper' = reaper
      /\ row' = [row EXCEPT ![r].status = IF @ = "running" THEN "settled" ELSE @]
      /\ task' = [task EXCEPT ![r] = [pc |-> "gone", since |-> now]]
  BY DEF MarkCommits
<1>2. TypeOK /\ WorkerInv /\ ReaperInv /\ StaleBound /\ \A q \in Rows : TaskInv(q)
  BY DEF TimingInv
<1>3. \A q \in Rows : /\ row'[q].expires = row[q].expires
                      /\ row'[q].status = "running" => row[q].status = "running"
  BY <1>1, <1>2 DEF TypeOK
<1>4. WorkerInv'
  BY <1>1, <1>2 DEF WorkerInv
<1>5. TypeOK'
  BY <1>1, <1>2 DEF TypeOK, Live
<1>6. ReaperInv' /\ StaleBound'
  BY <1>1, <1>2, <1>3 DEF ReaperInv, StaleBound, Running
<1>7. ASSUME NEW q \in Rows PROVE TaskInv(q)'
  <2>1. task'[q] = task[q] \/ task'[q].pc = "gone"
    BY <1>1, <1>2 DEF TypeOK
  <2> QED
    BY <1>1, <1>2, <1>3, <2>1 DEF TaskInv
<1> QED
  BY <1>4, <1>5, <1>6, <1>7 DEF TimingInv

\* A crash ends every task; the leases and the reaper of the other replica go on.
LEMMA CrashTiming ==
  ASSUME TimingInv, Crash
  PROVE  TimingInv'
<1>1. /\ worker' = worker /\ now' = now /\ row' = row /\ reaper' = reaper
      /\ task' = [r \in Rows |->
            IF task[r].pc \in Live THEN [pc |-> "crashed", since |-> now] ELSE task[r]]
  BY DEF Crash
<1>2. TypeOK /\ WorkerInv /\ ReaperInv /\ StaleBound /\ \A q \in Rows : TaskInv(q)
  BY DEF TimingInv
<1>3. WorkerInv'
  BY <1>1, <1>2 DEF WorkerInv
<1>4. TypeOK'
  BY <1>1, <1>2 DEF TypeOK, Live
<1>5. ReaperInv' /\ StaleBound'
  BY <1>1, <1>2 DEF ReaperInv, StaleBound, Running
<1>6. ASSUME NEW q \in Rows PROVE TaskInv(q)'
  <2>1. task'[q].pc \notin Live
    BY <1>1 DEF Live
  <2> QED
    BY <2>1 DEF TaskInv, Live
<1> QED
  BY <1>3, <1>4, <1>5, <1>6 DEF TimingInv

\* A sweep at the reaper's tick, or right after a full one: the next tick is one interval
\* away, and once a sweep is not full no row that is running has expired.
LEMMA ReaperTiming ==
  ASSUME TimingInv, ReaperTick
  PROVE  TimingInv'
<1>1. TypeOK /\ WorkerInv /\ ReaperInv /\ StaleBound /\ \A q \in Rows : TaskInv(q)
  BY DEF TimingInv
<1>2. PICK stale : stale = {r \in Running : row[r].expires < now}
  OBVIOUS
<1>3. PICK S \in SUBSET Running :
        /\ Sweep(stale, S)
        /\ row' = [r \in Rows |-> IF r \in S THEN [row[r] EXCEPT !.status = "recovered"] ELSE row[r]]
        /\ reaper' = [next |-> IF reaper.skip THEN reaper.next ELSE now + worker.reaper_interval,
                      skip |-> Cardinality(S) >= ReaperBatch]
  BY <1>2 DEF ReaperTick
<1>4. worker' = worker /\ now' = now /\ task' = task
  BY DEF ReaperTick
<1>5. \A q \in Rows : /\ row'[q].expires = row[q].expires
                      /\ row'[q].status = "running" => row[q].status = "running" /\ q \notin S
  BY <1>1, <1>3 DEF TypeOK
<1>6. PICK full \in BOOLEAN : full = (Cardinality(S) >= ReaperBatch)
  <2>1. (Cardinality(S) >= ReaperBatch) \in BOOLEAN
    BY SMT
  <2> QED
    BY <2>1, Zenon
<1>7. reaper' = [next |-> now + worker.reaper_interval, skip |-> full]
  BY <1>1, <1>3, <1>6 DEF ReaperInv
<1>8. WorkerInv'
  BY <1>1, <1>4 DEF WorkerInv
<1>9. TypeOK'
  <2>1. row' \in [Rows -> [status : {"queued", "running", "settled", "recovered"}, expires : Nat]]
    BY <1>1, <1>3 DEF TypeOK
  <2> QED
    BY <1>1, <1>4, <1>7, <2>1 DEF TypeOK, WorkerInv
<1>10. ReaperInv'
  <2>1. ASSUME ~full, NEW q \in Running'
        PROVE  reaper'.next <= row'[q].expires + worker'.reaper_interval
    <3>1. stale \in SUBSET Rows
      BY <1>2 DEF Running
    <3>2. S = stale
      BY <1>3, <1>6, <2>1, <3>1, PartialSweep
    <3>3. q \in Running /\ q \in Rows /\ row'[q].expires = row[q].expires /\ q \notin stale
      BY <1>5, <2>1, <3>2 DEF Running
    <3>4. row[q].expires \in Nat /\ now \in Nat /\ worker.reaper_interval \in Nat
      BY <1>1, <3>3 DEF TypeOK, WorkerInv
    <3>5. now <= row[q].expires
      BY <1>2, <3>3, <3>4
    <3> QED
      BY <1>4, <1>7, <3>3, <3>4, <3>5
  <2>2. reaper'.next = now' + worker'.reaper_interval /\ now' <= reaper'.next
    BY <1>1, <1>4, <1>7 DEF TypeOK, WorkerInv
  <2>3. reaper'.next <= now' + worker'.reaper_interval
    BY <1>1, <1>4, <1>7 DEF TypeOK, WorkerInv
  <2> QED
    BY <1>7, <2>1, <2>2, <2>3 DEF ReaperInv
<1>11. StaleBound'
  BY <1>1, <1>4, <1>5 DEF StaleBound, Running
<1>12. ASSUME NEW q \in Rows PROVE TaskInv(q)'
  BY <1>1, <1>4, <1>5 DEF TaskInv
<1> QED
  BY <1>8, <1>9, <1>10, <1>11, <1>12 DEF TimingInv

\* Time passes by one unit: nothing was due, so no timer is overrun by it.
LEMMA TickTiming ==
  ASSUME Step = 1, TimingInv, Tick
  PROVE  TimingInv'
<1>1. /\ worker' = worker /\ now' = now + 1 /\ row' = row /\ task' = task /\ reaper' = reaper
      /\ ~reaper.skip /\ now < reaper.next /\ \A r \in Rows : ~Due(r)
  BY DEF Tick
<1>2. TypeOK /\ WorkerInv /\ ReaperInv /\ StaleBound /\ \A q \in Rows : TaskInv(q)
  BY DEF TimingInv
<1>3. Latency \in Nat
  BY TimingAssumption DEF TimingAssumption
<1>4. WorkerInv'
  BY <1>1, <1>2 DEF WorkerInv
<1>5. TypeOK'
  BY <1>1, <1>2 DEF TypeOK
<1>6. ReaperInv'
  BY <1>1, <1>2 DEF TypeOK, WorkerInv, ReaperInv, Running
<1>7. StaleBound'
  <2> SUFFICES ASSUME NEW q \in Running'
               PROVE  2 * now' <= 2 * row'[q].expires + worker'.lease_timeout
    BY DEF StaleBound
  <2>1. q \in Rows /\ q \in Running
    BY <1>1 DEF Running
  <2>2. now + 1 <= row[q].expires + worker.reaper_interval
    BY <1>1, <1>2, <2>1 DEF TypeOK, WorkerInv, ReaperInv
  <2> QED
    BY <1>1, <1>2, <2>1, <2>2 DEF TypeOK, WorkerInv
<1>8. ASSUME NEW q \in Rows PROVE TaskInv(q)'
  <2>1. ~Due(q) /\ TaskInv(q)
    BY <1>1, <1>2
  <2>2. now \in Nat /\ task[q].since \in Nat
    BY <1>2 DEF TypeOK
  <2>3. worker.handler_timeout \in Nat /\ worker.mark_timeout \in Nat
    BY <1>2 DEF WorkerInv
  <2>4. /\ task[q].pc = "claimed" => now + 1 <= task[q].since + Latency
        /\ task[q].pc = "handler" => now + 1 <= task[q].since + worker.handler_timeout
        /\ task[q].pc = "mark" => now + 1 <= task[q].since + worker.mark_timeout
    BY <1>3, <2>1, <2>2, <2>3 DEF Due
  <2> QED
    BY <1>1, <2>1, <2>4 DEF TaskInv
<1> QED
  BY <1>4, <1>5, <1>6, <1>7, <1>8 DEF TimingInv

-----------------------------------------------------------------------------

\* TimingInv holds throughout: the timers of claims, handlers and marks add up to what the
\* lease allows, and the reaper is never further behind than one interval.
THEOREM TimingInvariance ==
  ASSUME Step = 1
  PROVE  TimingSpec => []TimingInv
<1>1. TimingInit => TimingInv
  BY InitTiming
<1>2. ASSUME TimingInv, [TimingNext]_timingVars PROVE TimingInv'
  <2>1. CASE UNCHANGED timingVars
    BY <1>2, <2>1 DEF timingVars, TimingInv, TypeOK, WorkerInv, ReaperInv, StaleBound, TaskInv, Running
  <2>2. CASE Finished
    BY <2>1, <2>2 DEF Finished
  <2> QED
    BY <1>2, <2>1, <2>2, ClaimTiming, TaskTiming, MarkTiming, CrashTiming, ReaperTiming,
       TickTiming DEF TimingNext
<1> QED
  BY <1>1, <1>2, PTL DEF TimingSpec

\* A worker that is alive never works on a row whose lease has expired, whatever timeouts
\* were given to the builder, as long as calling the handler takes no longer than the slack
\* that build() left between the timeouts and the lease.
THEOREM LeaseSuffices ==
  ASSUME Step = 1
  PROVE  TimingSpec => []LeaseCoversAttempt
<1>1. TimingInv => LeaseCoversAttempt
  <2> SUFFICES ASSUME TimingInv, NEW r \in Rows, Latency <= Slack, task[r].pc \in Live
               PROVE  now <= row[r].expires
    BY DEF LeaseCoversAttempt
  <2>1. TypeOK /\ WorkerInv /\ TaskInv(r)
    BY DEF TimingInv
  <2>2. now \in Nat /\ task[r].since \in Nat /\ row[r].expires \in Nat
    BY <2>1 DEF TypeOK
  <2>3. Latency \in Nat
    BY TimingAssumption DEF TimingAssumption
  <2>4. CASE task[r].pc = "claimed"
    BY <2>1, <2>2, <2>3, <2>4 DEF WorkerInv, TaskInv, Slack
  <2>5. CASE task[r].pc = "handler"
    BY <2>1, <2>2, <2>3, <2>5 DEF WorkerInv, TaskInv, Slack
  <2>6. CASE task[r].pc = "mark"
    BY <2>1, <2>2, <2>3, <2>6 DEF WorkerInv, TaskInv, Slack
  <2> QED
    BY <2>4, <2>5, <2>6 DEF Live
<1> QED
  BY <1>1, TimingInvariance, PTL

\* No row stays running for longer than 1.5 lease_timeouts, with any number of rows, any
\* batch size of the reaper and any reaper_interval that build() accepts.
THEOREM RecoveryIsTimely ==
  ASSUME Step = 1
  PROVE  TimingSpec => []StaleBound
<1>1. TimingInv => StaleBound
  BY DEF TimingInv
<1> QED
  BY <1>1, TimingInvariance, PTL

-----------------------------------------------------------------------------
\* The powers of a backoff policy.

\* Induction, on a set of natural numbers.
LEMMA SetInduction ==
  ASSUME NEW T \in SUBSET Nat, 0 \in T, \A n \in T : n + 1 \in T
  PROVE  T = Nat
<1> SUFFICES ASSUME Nat \ T # {} PROVE FALSE
  OBVIOUS
<1>1. PICK rest : rest = Nat \ T
  OBVIOUS
<1>2. PICK m : m = Min(rest)
  OBVIOUS
<1>3. rest \in SUBSET Nat /\ rest # {}
  BY <1>1
<1>4. m \in rest /\ \A k \in rest : m <= k
  BY <1>2, <1>3, Smallest
<1>5. m - 1 \notin rest
  BY <1>1, <1>4
<1>6. m \in Nat /\ m # 0
  BY <1>1, <1>4
<1>7. m - 1 \in T
  BY <1>1, <1>5, <1>6
<1> QED
  BY <1>1, <1>4, <1>6, <1>7

\* The powers of a policy up to the k-th, one from the other.
Powers(g, p, k) ==
    /\ g[0] = AsSecs(p.base)
    /\ \A i \in 0..(k - 1) : g[i + 1] = NextPower(g[i], p.factor)

\* They exist, up to any exponent.
LEMMA PowersExist ==
  ASSUME NEW p, NEW k \in Nat
  PROVE  \E g : Powers(g, p, k)
<1>1. PICK T : T = {n \in Nat : \E g : Powers(g, p, n)}
  OBVIOUS
<1>2. 0 \in T
  <2>1. Powers([i \in 0..0 |-> AsSecs(p.base)], p, 0)
    BY DEF Powers
  <2> QED
    BY <1>1, <2>1
<1>3. ASSUME NEW n \in T PROVE n + 1 \in T
  <2>1. n \in Nat
    BY <1>1
  <2>2. PICK g : Powers(g, p, n)
    BY <1>1
  <2>3. PICK h : h = [i \in 0..(n + 1) |-> IF i = n + 1 THEN NextPower(g[n], p.factor) ELSE g[i]]
    OBVIOUS
  <2>4. h[0] = AsSecs(p.base)
    BY <2>1, <2>2, <2>3 DEF Powers
  <2>5. ASSUME NEW i \in 0..((n + 1) - 1) PROVE h[i + 1] = NextPower(h[i], p.factor)
    <3>1. h[i] = g[i]
      BY <2>1, <2>3
    <3>2. CASE i = n
      BY <2>1, <2>3, <3>1, <3>2
    <3>3. CASE i # n
      <4>1. i \in 0..(n - 1) /\ h[i + 1] = g[i + 1]
        BY <2>1, <2>3, <3>3
      <4> QED
        BY <2>2, <3>1, <4>1 DEF Powers
    <3> QED
      BY <3>2, <3>3
  <2>6. Powers(h, p, n + 1)
    BY <2>4, <2>5 DEF Powers
  <2> QED
    BY <1>1, <2>1, <2>6
<1>4. T \in SUBSET Nat
  BY <1>1
<1>5. T = Nat
  BY <1>2, <1>3, <1>4, SetInduction
<1> QED
  BY <1>1, <1>5

\* Two lists of powers agree as far as both go.
LEMMA PowersAgree ==
  ASSUME NEW p, NEW k \in Nat, NEW l \in Nat, NEW g, NEW h,
         Powers(g, p, k), Powers(h, p, l), NEW j \in Nat, j <= k, j <= l
  PROVE  g[j] = h[j]
<1>1. PICK T : T = {n \in Nat : (n <= k /\ n <= l) => g[n] = h[n]}
  OBVIOUS
<1>2. 0 \in T
  BY <1>1 DEF Powers
<1>3. ASSUME NEW n \in T PROVE n + 1 \in T
  <2> SUFFICES ASSUME n + 1 <= k, n + 1 <= l PROVE g[n + 1] = h[n + 1]
    BY <1>1
  <2>1. n \in Nat /\ n \in 0..(k - 1) /\ n \in 0..(l - 1)
    BY <1>1
  <2>2. g[n] = h[n]
    BY <1>1, <2>1
  <2> QED
    BY <2>1, <2>2 DEF Powers
<1>4. T \in SUBSET Nat
  BY <1>1
<1>5. T = Nat
  BY <1>2, <1>3, <1>4, SetInduction
<1> QED
  BY <1>1, <1>5

\* So Powi, which the model defines by recursion, satisfies its own equation.
LEMMA PowiDef ==
  ASSUME NEW p
  PROVE  /\ Powi(p)[0] = AsSecs(p.base)
         /\ \A n \in Nat : Powi(p)[n + 1] = NextPower(Powi(p)[n], p.factor)
<1> DEFINE Body(f) == [n \in Nat |-> IF n = 0 THEN AsSecs(p.base) ELSE NextPower(f[n - 1], p.factor)]
           G(n) == CHOOSE g : Powers(g, p, n)
           F == [n \in Nat |-> G(n)[n]]
<1>1. ASSUME NEW n \in Nat PROVE Powers(G(n), p, n)
  BY PowersExist, Zenon
<1>2. ASSUME NEW n \in Nat PROVE F[n] = G(n)[n]
  OBVIOUS
<1> HIDE DEF G, F
<1>3. ASSUME NEW n \in Nat
      PROVE  F[n] = IF n = 0 THEN AsSecs(p.base) ELSE NextPower(F[n - 1], p.factor)
  <2>1. CASE n = 0
    BY <1>1, <1>2, <2>1 DEF Powers
  <2>2. CASE n # 0
    <3>1. PICK m \in Nat : n = m + 1 /\ m = n - 1
      BY <2>2
    <3>2. Powers(G(n), p, n) /\ Powers(G(m), p, m)
      BY <1>1
    <3>3. G(n)[m] = G(m)[m]
      BY <3>1, <3>2, PowersAgree
    <3>4. G(n)[m + 1] = NextPower(G(n)[m], p.factor)
      <4>1. m \in 0..(n - 1)
        BY <3>1
      <4> QED
        BY <3>2, <4>1, Zenon DEF Powers
    <3>5. F[n] = NextPower(F[m], p.factor)
      BY <1>2, <3>1, <3>3, <3>4
    <3>6. F[n] = NextPower(F[n - 1], p.factor)
      BY <3>1, <3>5, Zenon
    <3> QED
      BY <2>2, <3>6, Zenon
  <2> QED
    BY <2>1, <2>2
<1>4. F = Body(F)
  <2>1. F = [n \in Nat |-> F[n]]
    BY DEF F
  <2> QED
    BY <1>3, <2>1
<1>5. Powi(p) = CHOOSE f : f = Body(f)
  BY DEF Powi
<1>6. Powi(p) = Body(Powi(p))
  <2> HIDE DEF Body
  <2> QED
    BY <1>4, <1>5, Zenon
<1>7. PICK f : f = Powi(p)
  OBVIOUS
<1>8. f = [n \in Nat |-> IF n = 0 THEN AsSecs(p.base) ELSE NextPower(f[n - 1], p.factor)]
  BY <1>6, <1>7
<1>9. ASSUME NEW n \in Nat PROVE f[n + 1] = NextPower(f[n], p.factor)
  <2>1. n + 1 \in Nat /\ n + 1 # 0 /\ (n + 1) - 1 = n
    OBVIOUS
  <2> QED
    BY <1>8, <2>1
<1>10. f[0] = AsSecs(p.base)
  BY <1>8
<1> QED
  BY <1>7, <1>9, <1>10

-----------------------------------------------------------------------------
\* Floats.

\* What the floats are, as far as the arithmetic below needs it.
LEMMA Floats ==
  /\ DurationMax \in Nat /\ FloatExact \in Nat /\ FloatMax \in Nat /\ I32Max \in Nat
  /\ FloatUlp \in Nat /\ FloatUlp > 0 /\ FloatMax > 0 /\ I32Max > 0
  /\ MAX_BACKOFF_CAP \in Nat
  /\ MAX_BACKOFF_CAP <= FloatExact /\ FloatExact < DurationMax /\ DurationMax < FloatMax
BY FloatAssumption DEF FloatAssumption, MAX_BACKOFF_CAP, Hour, Second

\* Division by a positive number, and the products that it leaves, stay natural.
LEMMA Quotient ==
  ASSUME NEW a \in Nat, NEW b \in Nat, b > 0
  PROVE  a \div b \in Nat
OBVIOUS

\* A product of durations or counts is one.
LEMMA Product ==
  ASSUME NEW a \in Nat, NEW b \in Nat
  PROVE  a * b \in Nat
OBVIOUS

\* Multiplication is monotonic.
LEMMA ProductGrows ==
  ASSUME NEW a \in Nat, NEW b \in Nat, NEW c \in Nat, b <= c
  PROVE  a * b <= a * c
<1>1. PICK d \in Nat : c = b + d
  <2>1. c - b \in Nat /\ c = b + (c - b)
    OBVIOUS
  <2> QED
    BY <2>1
<1>2. a * c = a * b + a * d
  BY <1>1
<1>3. a * b \in Nat /\ a * d \in Nat
  BY Product
<1> QED
  BY <1>2, <1>3

\* A larger divisor does not make a larger quotient.
LEMMA QuotientShrinks ==
  ASSUME NEW a \in Nat, NEW b \in Nat, b > 0
  PROVE  a \div (b + 1) <= a \div b
<1>1. PICK q \in Nat : q = a \div b
  BY Quotient
<1>2. PICK r \in Nat : r = a \div (b + 1)
  BY Quotient
<1> SUFFICES ASSUME r > q PROVE FALSE
  BY <1>1, <1>2
<1>3. a < b * (q + 1)
  BY <1>1
<1>4. (b + 1) * r <= a
  BY <1>2
<1>5. b * (q + 1) <= b * r
  BY ProductGrows
<1>6. (b + 1) * r = b * r + r
  OBVIOUS
<1>7. b * r \in Nat /\ b * (q + 1) \in Nat
  BY Product
<1> QED
  BY <1>3, <1>4, <1>5, <1>6, <1>7

\* as_secs_f64 of a Duration is a float, and exact for every cap that validate accepts.
LEMMA AsSecsType ==
  ASSUME NEW d \in Nat
  PROVE  AsSecs(d) \in Nat /\ (d <= MAX_BACKOFF_CAP => AsSecs(d) = d)
<1>1. FloatUlp \div 2 \in Nat
  BY Floats
<1>2. PICK q \in Nat : q = (d + FloatUlp \div 2) \div FloatUlp
  BY <1>1, Floats, Quotient
<1>3. q * FloatUlp \in Nat
  BY Floats, Product
<1> QED
  BY <1>2, <1>3, Floats DEF AsSecs

\* A share of a float is a float; from 100% on it is no less, or infinite.
LEMMA PercentGrows ==
  ASSUME NEW x \in Nat, NEW p \in Nat
  PROVE  /\ Percent(x, p) \in Nat
         /\ p >= 100 => Percent(x, p) = FloatMax \/ Percent(x, p) >= x
<1>1. PICK q \in Nat, r \in Nat : q = x \div 100 /\ r = x % 100 /\ x = 100 * q + r
  OBVIOUS
<1>2. q * p \in Nat /\ r * p \in Nat
  BY Product
<1>3. PICK s \in Nat : s = (r * p) \div 100
  BY <1>2
<1>4. Percent(x, p) = FloatMax \/ Percent(x, p) = q * p + s
  BY <1>1, <1>3 DEF Percent
<1>5. ASSUME p >= 100 PROVE q * 100 <= q * p /\ r <= s
  <2>1. q * 100 <= q * p /\ r * 100 <= r * p
    BY <1>5, ProductGrows
  <2> QED
    BY <1>2, <1>3, <2>1
<1> QED
  BY <1>1, <1>2, <1>4, <1>5, Floats

\* All of a float is that float, unless it is as good as infinite.
LEMMA PercentOfAll ==
  ASSUME NEW x \in Nat
  PROVE  Percent(x, 100) = IF x \div 100 >= FloatMax \div 100 - 1 THEN FloatMax ELSE x
BY Floats DEF Percent

-----------------------------------------------------------------------------
\* next() without jitter.

\* What the policies that validate accepts have in common.
ValidPolicy(p) ==
    /\ p \in BackoffPolicy
    /\ p.cap \in 1..MAX_BACKOFF_CAP
    /\ p.kind = "Exponential" => p.factor > 100 /\ p.jitter \in 0..100

\* validate accepts a policy exactly if none of its checks fails.
LEMMA ValidateAccepts ==
  ASSUME NEW p
  PROVE  Validate(p) = "ok" <=>
            /\ ~(p.kind = "Exponential" /\ (p.factor = NaN \/ p.factor <= 100))
            /\ ~(p.kind = "Exponential" /\ p.jitter \notin 0 .. 100)
            /\ ~(p.cap = 0) /\ ~(p.cap > MAX_BACKOFF_CAP) /\ ~(p.base < MIN_BACKOFF_BASE)
<1>1. PICK s : s = <<
        <<p.kind = "Exponential" /\ (p.factor = NaN \/ p.factor <= 100), "factor">>,
        <<p.kind = "Exponential" /\ p.jitter \notin 0 .. 100, "jitter">>,
        <<p.cap = 0, "cap">>,
        <<p.cap > MAX_BACKOFF_CAP, "cap">>,
        <<p.base < MIN_BACKOFF_BASE, "base">> >>
  OBVIOUS
<1>2. DOMAIN s = 1..5 /\ \A i \in 1..5 : s[i][2] # "ok"
  BY <1>1
<1>3. FirstFailure(s) = "ok" <=> \A i \in 1..5 : ~s[i][1]
  BY <1>2, NoFailure
<1>4. (\A i \in 1..5 : ~s[i][1]) <=> ~s[1][1] /\ ~s[2][1] /\ ~s[3][1] /\ ~s[4][1] /\ ~s[5][1]
  OBVIOUS
<1>5. /\ s[1][1] <=> (p.kind = "Exponential" /\ (p.factor = NaN \/ p.factor <= 100))
      /\ s[2][1] <=> (p.kind = "Exponential" /\ p.jitter \notin 0 .. 100)
      /\ s[3][1] <=> p.cap = 0
      /\ s[4][1] <=> p.cap > MAX_BACKOFF_CAP
      /\ s[5][1] <=> p.base < MIN_BACKOFF_BASE
  BY <1>1
<1>6. Validate(p) = FirstFailure(s)
  BY <1>1 DEF Validate
<1> QED
  BY <1>3, <1>4, <1>5, <1>6

\* So its cap and its ratios are in their ranges.
LEMMA ValidatedPolicy ==
  ASSUME NEW p \in BackoffPolicy, Validate(p) = "ok"
  PROVE  ValidPolicy(p)
<1>1. /\ ~(p.kind = "Exponential" /\ (p.factor = NaN \/ p.factor <= 100))
      /\ ~(p.kind = "Exponential" /\ p.jitter \notin 0 .. 100)
      /\ p.cap # 0 /\ ~(p.cap > MAX_BACKOFF_CAP)
  BY ValidateAccepts
<1>2. p.cap \in Nat /\ p.factor \in Int
  BY DEF BackoffPolicy
<1>3. p.cap \in 1..MAX_BACKOFF_CAP
  BY <1>1, <1>2, Floats
<1>4. ~(p.factor <= 100) => p.factor > 100
  BY <1>2
<1> QED
  BY <1>1, <1>3, <1>4, Zenon DEF ValidPolicy

\* The powers of an accepted policy are floats.
LEMMA PowiType ==
  ASSUME NEW p, ValidPolicy(p), p.kind = "Exponential", NEW n \in Nat
  PROVE  Powi(p)[n] \in Nat
<1>1. PICK T : T = {k \in Nat : Powi(p)[k] \in Nat}
  OBVIOUS
<1>2. p.base \in Nat /\ p.factor \in Nat
  BY DEF ValidPolicy, BackoffPolicy
<1>3. 0 \in T
  BY <1>1, <1>2, AsSecsType, PowiDef
<1>4. ASSUME NEW k \in T PROVE k + 1 \in T
  <2>1. PICK x \in Nat : x = Powi(p)[k]
    BY <1>1
  <2>2. Percent(x, p.factor) \in Nat
    BY <1>2, PercentGrows
  <2>3. NextPower(x, p.factor) \in Nat
    BY <2>2, Floats DEF NextPower
  <2>4. k \in Nat /\ k + 1 \in Nat
    BY <1>1
  <2>5. Powi(p)[k + 1] = NextPower(x, p.factor)
    BY <2>1, <2>4, PowiDef
  <2> QED
    BY <1>1, <2>3, <2>4, <2>5
<1>5. T \in SUBSET Nat
  BY <1>1
<1>6. T = Nat
  BY <1>3, <1>4, <1>5, SetInduction
<1> QED
  BY <1>1, <1>6

\* What next() computes before it clamps is a float, which does not shrink from one attempt
\* to the next unless it is infinite.
LEMMA LinearGrows ==
  ASSUME NEW x \in Nat, NEW b \in Nat, NEW n \in Nat
  PROVE  /\ Plus(Times(x, n), b) \in Nat
         /\ \/ Plus(Times(x, n + 1), b) >= FloatMax
            \/ Plus(Times(x, n), b) <= Plus(Times(x, n + 1), b)
<1>1. FloatMax \in Nat
  BY Floats
<1>2. x * n \in Nat /\ x * (n + 1) \in Nat
  BY Product
<1>3. x * n <= x * (n + 1)
  BY ProductGrows
<1>4. Times(x, n) \in Nat /\ Times(x, n + 1) \in Nat
  BY <1>1, <1>2 DEF Times
<1>5. Plus(Times(x, n), b) \in Nat
  BY <1>1, <1>4 DEF Plus
<1>6. CASE x >= FloatMax \div (n + 1)
  <2>1. Times(x, n + 1) = FloatMax
    BY <1>6 DEF Times
  <2>2. Plus(Times(x, n + 1), b) = FloatMax
    BY <1>1, <2>1 DEF Plus
  <2> QED
    BY <1>1, <1>5, <2>2
<1>7. CASE ~(x >= FloatMax \div (n + 1))
  <2>1. Times(x, n + 1) = x * (n + 1)
    BY <1>7 DEF Times
  <2>2. Times(x, n) = x * n
    <3>1. CASE n = 0
      BY <3>1 DEF Times
    <3>2. CASE n > 0
      <4>1. PICK q \in Nat : q = FloatMax \div n
        BY <1>1, <3>2, Quotient
      <4>2. PICK r \in Nat : r = FloatMax \div (n + 1)
        BY <1>1, Quotient
      <4>3. r <= q
        BY <1>1, <3>2, <4>1, <4>2, QuotientShrinks
      <4>4. ~(x >= q)
        BY <1>7, <4>2, <4>3
      <4> QED
        BY <4>1, <4>4 DEF Times
    <3> QED
      BY <3>1, <3>2
  <2>3. PICK y \in Nat : y = x * n
    BY <1>2
  <2>4. PICK z \in Nat : z = x * (n + 1)
    BY <1>2
  <2>5. y <= z
    BY <1>3, <2>3, <2>4
  <2>6. Plus(z, b) >= FloatMax \/ Plus(y, b) <= Plus(z, b)
    BY <1>1, <2>5 DEF Plus
  <2> QED
    BY <1>5, <2>1, <2>2, <2>3, <2>4, <2>6
<1> QED
  BY <1>6, <1>7

\* The powers of an accepted policy do not fall, up to where the float overflows.
LEMMA PowerGrows ==
  ASSUME NEW p, ValidPolicy(p), p.kind = "Exponential", NEW n \in Nat
  PROVE  Powi(p)[n + 1] >= FloatMax \/ Powi(p)[n] <= Powi(p)[n + 1]
<1>1. PICK x \in Nat : x = Powi(p)[n]
  BY PowiType
<1>2. Powi(p)[n + 1] = NextPower(x, p.factor)
  BY <1>1, PowiDef
<1>3. p.factor \in Nat /\ p.factor >= 100
  BY DEF ValidPolicy, BackoffPolicy
<1>4. PICK y \in Nat : y = Percent(x, p.factor)
  BY <1>3, PercentGrows
<1>5. y = FloatMax \/ y >= x
  BY <1>3, <1>4, PercentGrows
<1> QED
  BY <1>1, <1>2, <1>4, <1>5, Floats DEF NextPower

\* Nor does the delay before the clamp, for either kind of policy.
LEMMA RawGrows ==
  ASSUME NEW p, ValidPolicy(p), NEW n \in Nat
  PROVE  /\ RawSecs(p, n) \in Nat
         /\ RawSecs(p, n + 1) >= FloatMax \/ RawSecs(p, n) <= RawSecs(p, n + 1)
<1>1. p.increment \in Nat /\ p.base \in Nat /\ p.kind \in {"Linear", "Exponential"}
  BY DEF ValidPolicy, BackoffPolicy
<1>2. CASE p.kind = "Linear"
  <2>1. PICK x \in Nat, b \in Nat : x = AsSecs(p.increment) /\ b = AsSecs(p.base)
    BY <1>1, AsSecsType
  <2>2. RawSecs(p, n) = Plus(Times(x, n), b) /\ RawSecs(p, n + 1) = Plus(Times(x, n + 1), b)
    BY <1>2, <2>1 DEF RawSecs
  <2> QED
    BY <2>2, LinearGrows
<1>3. CASE p.kind = "Exponential"
  <2>1. p.factor # NaN
    BY <1>3 DEF ValidPolicy, BackoffPolicy, NaN
  <2>2. PICK k \in Nat : k = Min({n, I32Max})
    BY Floats, MinOfTwo
  <2>3. PICK l \in Nat : l = Min({n + 1, I32Max})
    BY Floats, MinOfTwo
  <2>4. l = k \/ l = k + 1
    BY <2>2, <2>3, Floats, MinOfTwo
  <2>5. RawSecs(p, n) = Powi(p)[k] /\ RawSecs(p, n + 1) = Powi(p)[l]
    BY <1>3, <2>1, <2>2, <2>3 DEF RawSecs
  <2>6. Powi(p)[k] \in Nat
    BY <1>3, PowiType
  <2>7. CASE l = k
    BY <2>5, <2>6, <2>7
  <2>8. CASE l = k + 1
    BY <1>3, <2>5, <2>6, <2>8, PowerGrows
  <2> QED
    BY <2>4, <2>7, <2>8
<1> QED
  BY <1>1, <1>2, <1>3

\* So the delay before jitter is within the cap and never shrinks: an infinite power is
\* clamped to the cap, which is the largest delay there is.
LEMMA ClampedGrows ==
  ASSUME NEW p, ValidPolicy(p), NEW n \in Nat
  PROVE  /\ ClampedSecs(p, n) \in 0..p.cap
         /\ ClampedSecs(p, n) <= ClampedSecs(p, n + 1)
<1>1. PICK c \in Nat : c = p.cap /\ c = AsSecs(p.cap)
  <2>1. p.cap \in Nat /\ p.cap <= MAX_BACKOFF_CAP
    BY Floats DEF ValidPolicy
  <2> QED
    BY <2>1, AsSecsType
<1>2. PICK x \in Nat : x = RawSecs(p, n)
  BY RawGrows
<1>3. PICK y \in Nat : y = RawSecs(p, n + 1)
  BY RawGrows
<1>4. y >= FloatMax \/ x <= y
  BY <1>2, <1>3, RawGrows
<1>5. PICK i \in Nat : i = Min({x, c})
  BY MinOfTwo
<1>6. PICK j \in Nat : j = Min({y, c})
  BY MinOfTwo
<1>7. ClampedSecs(p, n) = IF x < FloatMax THEN i ELSE c
  BY <1>1, <1>2, <1>5 DEF ClampedSecs, IsFinite
<1>8. ClampedSecs(p, n + 1) = IF y < FloatMax THEN j ELSE c
  BY <1>1, <1>3, <1>6 DEF ClampedSecs, IsFinite
<1>9. i <= c /\ j <= c /\ (x <= y => i <= j)
  BY <1>5, <1>6, MinOfTwo
<1> QED
  BY <1>1, <1>4, <1>7, <1>8, <1>9, Floats

-----------------------------------------------------------------------------
\* next() and compute_retry_delay.

\* What apply_jitter makes of a float is a float; without jitter it is all of it.
LEMMA JitterType ==
  ASSUME NEW p, ValidPolicy(p), NEW x \in Nat, NEW s \in ApplyJitter(p, x)
  PROVE  /\ s \in Nat
         /\ p.kind = "Linear" => s = x
         /\ (p.kind # "Linear" /\ p.jitter = 0) => s = Percent(x, 100)
<1>1. CASE p.kind = "Linear"
  BY <1>1 DEF ApplyJitter
<1>2. CASE p.kind # "Linear"
  <2>1. p.kind = "Exponential"
    BY <1>2 DEF ValidPolicy, BackoffPolicy
  <2>2. PICK j \in 0..100 : j = p.jitter
    BY <2>1 DEF ValidPolicy
  <2>3. p.jitter # NaN /\ Min({p.jitter, 100}) = j
    BY <2>2, MinOfTwo DEF NaN
  <2>4. PICK delta \in {-j, 0, j} : s = Percent(x, 100 + delta)
    BY <1>2, <2>3 DEF ApplyJitter, Draws
  <2>5. 100 + delta \in Nat
    BY <2>4
  <2>6. s \in Nat
    BY <2>4, <2>5, PercentGrows
  <2>7. ASSUME p.jitter = 0 PROVE s = Percent(x, 100)
    <3>1. delta = 0
      BY <2>2, <2>4, <2>7
    <3>2. 100 + delta = 100
      BY <3>1
    <3> QED
      BY <2>4, <3>2
  <2> QED
    BY <1>2, <2>6, <2>7
<1> QED
  BY <1>1, <1>2

\* A delay of next() is what the jitter left, clamped to the cap once more: a Duration that
\* from_secs_f64 accepts.
LEMMA NextDelayValue ==
  ASSUME NEW p, ValidPolicy(p), NEW n \in Nat, NEW d \in NextDelay(p, n)
  PROVE  \E s \in ApplyJitter(p, ClampedSecs(p, n)) :
            /\ s \in Nat
            /\ d = IF s <= p.cap THEN s ELSE p.cap
<1>1. PICK s \in ApplyJitter(p, ClampedSecs(p, n)) :
        d = IF s = Panic THEN Panic ELSE FromSecs(Min({s, AsSecs(p.cap)}))
  BY DEF NextDelay
<1>2. p.cap \in Nat /\ p.cap <= MAX_BACKOFF_CAP
  BY Floats DEF ValidPolicy
<1>3. PICK x \in Nat : x = ClampedSecs(p, n)
  BY <1>2, ClampedGrows
<1>4. s \in Nat
  BY <1>1, <1>3, JitterType
<1>5. PICK m \in Nat : m = Min({s, AsSecs(p.cap)}) /\ m = IF s <= p.cap THEN s ELSE p.cap
  <2>1. AsSecs(p.cap) = p.cap
    BY <1>2, AsSecsType
  <2> QED
    BY <1>2, <1>4, <2>1, MinOfTwo
<1>6. m <= DurationMax
  BY <1>2, <1>4, <1>5, Floats
<1>7. d = m
  BY <1>1, <1>4, <1>5, <1>6, Floats DEF FromSecs, Panic
<1> QED
  BY <1>1, <1>4, <1>5, <1>7

\* next_delay stays within the policy's cap, whatever is drawn.
LEMMA DelayWithinCap ==
  ASSUME NEW p, ValidPolicy(p), NEW n \in Nat, NEW d \in NextDelay(p, n)
  PROVE  d \in 0..p.cap
<1>1. p.cap \in Nat
  BY Floats DEF ValidPolicy
<1> QED
  BY <1>1, NextDelayValue

\* Without jitter the delays grow with the attempts.
LEMMA DelayGrows ==
  ASSUME NEW p, ValidPolicy(p), p.jitter = 0, NEW n \in Nat,
         NEW d \in NextDelay(p, n), NEW e \in NextDelay(p, n + 1)
  PROVE  d <= e
<1>1. p.cap \in Nat
  BY Floats DEF ValidPolicy
<1>2. PICK x \in Nat : x = ClampedSecs(p, n)
  BY <1>1, ClampedGrows
<1>3. PICK y \in Nat : y = ClampedSecs(p, n + 1)
  BY <1>1, ClampedGrows
<1>4. x <= y
  BY <1>2, <1>3, ClampedGrows
<1>5. PICK s \in ApplyJitter(p, x) : s \in Nat /\ d = IF s <= p.cap THEN s ELSE p.cap
  BY <1>2, NextDelayValue
<1>6. PICK t \in ApplyJitter(p, y) : t \in Nat /\ e = IF t <= p.cap THEN t ELSE p.cap
  BY <1>3, NextDelayValue
<1>7. s <= t
  <2>1. CASE p.kind = "Linear"
    BY <1>4, <1>5, <1>6, <2>1, JitterType
  <2>2. CASE p.kind # "Linear"
    <3>1. s = Percent(x, 100) /\ t = Percent(y, 100)
      BY <1>5, <1>6, <2>2, JitterType
    <3>2. s = IF x \div 100 >= FloatMax \div 100 - 1 THEN FloatMax ELSE x
      BY <3>1, PercentOfAll
    <3>3. t = IF y \div 100 >= FloatMax \div 100 - 1 THEN FloatMax ELSE y
      BY <3>1, PercentOfAll
    <3> QED
      BY <1>4, <3>2, <3>3, Floats
  <2> QED
    BY <2>1, <2>2
<1> QED
  BY <1>1, <1>5, <1>6, <1>7

\* An override is clamped, unless the poll interval exceeds the ceiling.
LEMMA ClampWithin ==
  ASSUME NEW x \in Nat, NEW poll \in Nat, poll <= MAX_RETRY_IN
  PROVE  Clamp(x, Max({poll, MIN_RETRY_IN}), MAX_RETRY_IN)
            \in Max({poll, MIN_RETRY_IN}) .. MAX_RETRY_IN
<1>1. MAX_RETRY_IN \in Nat /\ MIN_RETRY_IN \in Nat /\ MIN_RETRY_IN <= MAX_RETRY_IN
  BY DEF MAX_RETRY_IN, MIN_RETRY_IN, Hour, Second
<1>2. PICK floor \in Nat : floor = Max({poll, MIN_RETRY_IN}) /\ floor <= MAX_RETRY_IN
  BY <1>1, MaxOfTwo
<1>3. PICK y \in Nat : y = Max({x, floor}) /\ floor <= y
  BY MaxOfTwo
<1>4. Min({y, MAX_RETRY_IN}) \in floor .. MAX_RETRY_IN
  BY <1>1, <1>2, <1>3, MinOfTwo
<1> QED
  BY <1>1, <1>2, <1>3, <1>4 DEF Clamp

-----------------------------------------------------------------------------
\* RetrySchedule.

\* A worker retries with a policy that validate accepted: the builder's, or the default.
LEMMA AcceptedPolicy ==
  ASSUME NEW b, b.retry_backoff \in BackoffPolicy, BuildError(b) = "ok"
  PROVE  ValidPolicy(RetryBackoff(b)) /\ Worker(b).retry_backoff = RetryBackoff(b)
<1>1. ~BackoffChecks(b)[1][1]
  BY BuildAccepts
<1>2. PICK p : p = RetryBackoff(b)
  OBVIOUS
<1>3. Validate(p) = "ok"
  BY <1>1, <1>2 DEF BackoffChecks
<1>4. p \in BackoffPolicy
  BY <1>2 DEF RetryBackoff, DefaultBackoff, Exponential, BackoffPolicy, Second
<1>5. Worker(b).retry_backoff = p
  BY <1>2 DEF Worker
<1> QED
  BY <1>2, <1>3, <1>4, <1>5, ValidatedPolicy

\* What the knobs hold.
LEMMA KnobTypes ==
  ASSUME BuilderInv
  PROVE  /\ builder.lease_timeout \in Nat /\ builder.poll_interval \in Nat
         /\ builder.retry_backoff \in BackoffPolicy
BY KnobAssumption DEF KnobAssumption, BuilderInv

\* A new builder satisfies the schedule's invariant.
LEMMA InitSchedule ==
  ASSUME RetryInit
  PROVE  ScheduleInv
<1>1. DOMAIN builder = DOMAIN NewBuilder
  BY DEF RetryInit, Required, NewBuilder
<1>2. /\ builder.lease_timeout = NewBuilder.lease_timeout
      /\ builder.poll_interval = NewBuilder.poll_interval
      /\ builder.retry_backoff = NewBuilder.retry_backoff
  BY DEF RetryInit, Required, NewBuilder
<1>3. BuilderInv
  BY <1>1, <1>2 DEF BuilderInv, Tried
<1> QED
  BY <1>3 DEF RetryInit, ScheduleInv, DelayInv

\* A setter, or concurrency_limits: the knobs that matter hold what was tried.
LEMMA ConfigureSchedule ==
  ASSUME ScheduleInv, Configure
  PROVE  ScheduleInv'
<1>1. BuilderInv /\ DelayInv /\ attempts \in Nat /\ override \in Overrides \cup {NoOverride}
  BY DEF ScheduleInv
<1>2. result = "none" /\ UNCHANGED <<result, attempts, override, delay>>
  BY DEF Configure
<1>3. attempts = 0 /\ override = NoOverride
  BY <1>1, <1>2 DEF DelayInv
<1>4. DelayInv'
  BY <1>2, <1>3 DEF DelayInv
<1>5. ASSUME NEW knob \in DOMAIN Knobs, NEW v \in Knobs[knob], builder' = SetKnob(builder, knob, v)
      PROVE  BuilderInv'
  <2>1. builder' = [builder EXCEPT ![knob] = v]
    BY <1>5 DEF SetKnob
  <2>2. v \in Tried(knob)
    BY <1>5 DEF Tried
  <2>3. DOMAIN builder = DOMAIN NewBuilder
    BY <1>1 DEF BuilderInv
  <2>4. DOMAIN builder' = DOMAIN NewBuilder
    BY <2>1, <2>3
  <2>5. ASSUME NEW k \in {"lease_timeout", "poll_interval", "retry_backoff"}
        PROVE  builder'[k] \in Tried(k)
    <3>1. k \in DOMAIN builder
      BY <2>3 DEF NewBuilder
    <3>2. (builder'[k] = v /\ k = knob) \/ builder'[k] = builder[k]
      BY <2>1, <3>1
    <3>3. builder[k] \in Tried(k)
      BY <1>1 DEF BuilderInv
    <3> QED
      BY <2>2, <3>2, <3>3
  <2> QED
    BY <2>4, <2>5 DEF BuilderInv, Tried
<1>6. ASSUME NEW l \in Limits, builder' = AddLimit(builder, l[1], l[2])
      PROVE  BuilderInv'
  <2>1. PICK limits : builder' = [builder EXCEPT !["concurrency_limits"] = limits]
    BY <1>6 DEF AddLimit
  <2>2. DOMAIN builder' = DOMAIN builder
    BY <2>1
  <2>3. ASSUME NEW k \in {"lease_timeout", "poll_interval", "retry_backoff"}
        PROVE  builder'[k] = builder[k]
    <3>1. k \in DOMAIN builder
      BY <1>1 DEF BuilderInv, NewBuilder
    <3> QED
      BY <2>1, <3>1
  <2> QED
    BY <1>1, <2>2, <2>3 DEF BuilderInv, Tried
<1>7. BuilderInv'
  BY <1>5, <1>6 DEF Configure
<1> QED
  BY <1>1, <1>2, <1>4, <1>7 DEF ScheduleInv

\* build(), whether it accepts or rejects the builder, keeps it.
LEMMA BuildSchedule ==
  ASSUME ScheduleInv, Build
  PROVE  ScheduleInv'
<1>1. BuilderInv /\ DelayInv /\ attempts \in Nat /\ override \in Overrides \cup {NoOverride}
  BY DEF ScheduleInv
<1>2. /\ result = "none" /\ result' = BuildError(builder)
      /\ UNCHANGED <<builder, attempts, override, delay>>
  BY DEF Build
<1>3. attempts = 0 /\ override = NoOverride
  BY <1>1, <1>2 DEF DelayInv
<1>4. DelayInv'
  BY <1>2, <1>3 DEF DelayInv
<1>5. BuilderInv' /\ BuildError(builder)' = BuildError(builder)
  BY <1>1, <1>2 DEF BuilderInv
<1> QED
  BY <1>1, <1>2, <1>4, <1>5 DEF ScheduleInv

\* A retry: its delay is one of those that compute_retry_delay may return.
LEMMA RetrySchedules ==
  ASSUME ScheduleInv, NEW retry_in \in Overrides \cup {NoOverride}, Retry(retry_in)
  PROVE  ScheduleInv'
<1>1. BuilderInv /\ attempts \in Nat /\ result \in {"none", BuildError(builder)}
  BY DEF ScheduleInv
<1>2. /\ result = "ok" /\ attempts' = attempts + 1 /\ override' = retry_in
      /\ UNCHANGED <<builder, result>>
      /\ delay' \in ComputeRetryDelay(retry_in, Worker(builder).retry_backoff,
                                      builder.poll_interval, attempts')
  BY DEF Retry
<1>3. DelayInv'
  BY <1>1, <1>2 DEF DelayInv
<1>4. BuilderInv' /\ BuildError(builder)' = BuildError(builder)
  BY <1>1, <1>2 DEF BuilderInv
<1> QED
  BY <1>1, <1>2, <1>3, <1>4 DEF ScheduleInv

\* ScheduleInv holds throughout.
THEOREM ScheduleInvariance == RetrySpec => []ScheduleInv
<1>1. RetryInit => ScheduleInv
  BY InitSchedule
<1>2. ASSUME ScheduleInv, [RetryNext]_retryVars PROVE ScheduleInv'
  <2>1. CASE UNCHANGED retryVars
    BY <1>2, <2>1 DEF retryVars, ScheduleInv, BuilderInv, DelayInv
  <2> QED
    BY <1>2, <2>1, ConfigureSchedule, BuildSchedule, RetrySchedules DEF RetryNext
<1> QED
  BY <1>1, <1>2, PTL DEF RetrySpec

-----------------------------------------------------------------------------
\* What follows from it.

\* With a policy that build() accepted, no attempt, no power that overflows and no jitter
\* makes next() panic or exceed the policy's cap.
THEOREM PolicyWithinCap == RetrySpec => []PolicyDelayWithinCap
<1>1. ScheduleInv => PolicyDelayWithinCap
  <2> SUFFICES ASSUME ScheduleInv, attempts > 0, override = NoOverride
               PROVE  delay \in 0 .. Worker(builder).retry_backoff.cap
    BY DEF PolicyDelayWithinCap
  <2>1. attempts \in Nat /\ BuilderInv /\ DelayInv /\ result \in {"none", BuildError(builder)}
    BY DEF ScheduleInv
  <2>2. PICK p : p = Worker(builder).retry_backoff
    OBVIOUS
  <2>3. result = "ok" /\ delay \in NextDelay(p, attempts)
    BY <2>1, <2>2 DEF DelayInv, ComputeRetryDelay
  <2>4. BuildError(builder) = "ok"
    BY <2>1, <2>3
  <2>5. ValidPolicy(p)
    BY <2>1, <2>2, <2>4, KnobTypes, AcceptedPolicy
  <2> QED
    BY <2>1, <2>2, <2>3, <2>5, DelayWithinCap
<1> QED
  BY <1>1, ScheduleInvariance, PTL

\* Without jitter no attempt waits less than the one before it, for any policy that build()
\* accepted and any number of attempts, also beyond the power that overflows.
THEOREM DelaysNeverShrink == RetrySpec => NeverSooner
<1>1. ASSUME ScheduleInv, [RetryNext]_retryVars,
             attempts > 0, attempts' > attempts, override = NoOverride,
             override' = NoOverride, Worker(builder).retry_backoff.jitter = 0
      PROVE  delay' >= delay
  <2>1. attempts \in Nat /\ BuilderInv /\ DelayInv /\ result \in {"none", BuildError(builder)}
    BY <1>1 DEF ScheduleInv
  <2>2. PICK p : p = Worker(builder).retry_backoff
    OBVIOUS
  <2>3. attempts' # attempts
    BY <1>1, <2>1
  <2>4. PICK retry_in \in Overrides \cup {NoOverride} : Retry(retry_in)
    BY <1>1, <2>3 DEF RetryNext, Configure, Build, retryVars
  <2>5. attempts' = attempts + 1 /\ override' = retry_in
    BY <2>4 DEF Retry
  <2>6. delay' \in ComputeRetryDelay(retry_in, p, builder.poll_interval, attempts')
    BY <2>2, <2>4 DEF Retry
  <2>7. delay' \in NextDelay(p, attempts + 1)
    BY <1>1, <2>5, <2>6 DEF ComputeRetryDelay
  <2>8. result = "ok" /\ delay \in NextDelay(p, attempts)
    BY <1>1, <2>1, <2>2 DEF DelayInv, ComputeRetryDelay
  <2>9. BuildError(builder) = "ok"
    BY <2>1, <2>8
  <2>10. ValidPolicy(p)
    BY <2>1, <2>2, <2>9, KnobTypes, AcceptedPolicy
  <2>11. p.jitter = 0
    BY <1>1, <2>2
  <2>12. delay <= delay'
    BY <2>1, <2>7, <2>8, <2>10, <2>11, DelayGrows
  <2>13. p.cap \in Nat /\ delay \in 0..p.cap /\ delay' \in 0..p.cap
    BY <2>1, <2>7, <2>8, <2>10, DelayWithinCap DEF ValidPolicy, BackoffPolicy
  <2> QED
    BY <2>12, <2>13
<1> QED
  BY <1>1, ScheduleInvariance, PTL DEF RetrySpec, NeverSooner

\* Where no caller sets a poll_interval above 24h, a retry_in is applied within its floor and
\* ceiling, and Ord::clamp does not panic.
THEOREM OverridesClamped ==
  ASSUME \A v \in Tried("poll_interval") : v <= MAX_RETRY_IN
  PROVE  RetrySpec => []OverrideIsClamped
<1>1. ScheduleInv => OverrideIsClamped
  <2> SUFFICES ASSUME ScheduleInv, override # NoOverride
               PROVE  delay \in Max({builder.poll_interval, MIN_RETRY_IN}) .. MAX_RETRY_IN
    BY DEF OverrideIsClamped
  <2>1. BuilderInv /\ DelayInv /\ override \in Overrides
    BY DEF ScheduleInv
  <2>2. delay = Clamp(override, Max({builder.poll_interval, MIN_RETRY_IN}), MAX_RETRY_IN)
    BY <2>1 DEF DelayInv, ComputeRetryDelay
  <2>3. builder.poll_interval \in Nat /\ builder.poll_interval <= MAX_RETRY_IN
    BY <2>1, KnobTypes DEF BuilderInv
  <2>4. override \in Nat
    BY <2>1, KnobAssumption DEF KnobAssumption
  <2> QED
    BY <2>2, <2>3, <2>4, ClampWithin
<1> QED
  BY <1>1, ScheduleInvariance, PTL

\* The default policy is one that validate accepts.
LEMMA DefaultIsValid == Validate(DefaultBackoff) = "ok"
<1>1. PICK p : p = DefaultBackoff
  OBVIOUS
<1>2. /\ p.kind = "Exponential" /\ p.factor = 200 /\ p.jitter = 20
      /\ p.cap = 300000 /\ p.base = 1000
  BY <1>1 DEF DefaultBackoff, Exponential, Second
<1>3. ~(p.factor = NaN \/ p.factor <= 100) /\ ~(p.jitter \notin 0 .. 100)
  BY <1>2 DEF NaN
<1>4. ~(p.cap = 0) /\ ~(p.cap > MAX_BACKOFF_CAP) /\ ~(p.base < MIN_BACKOFF_BASE)
  BY <1>2 DEF MAX_BACKOFF_CAP, MIN_BACKOFF_BASE, Hour, Second
<1> QED
  BY <1>1, <1>3, <1>4, ValidateAccepts

\* A builder with nothing set but what is required and the lease.
LeaseOnly(b, lease) ==
    /\ b.handler = TRUE /\ b.queue = 1 /\ b.max_attempts = 3 /\ b.batch_size = 32
    /\ b.poll_interval = 1000 /\ b.pool = 2 * AvailableParallelism + 2
    /\ b.concurrency = Unset /\ b.handler_timeout = Unset /\ b.mark_timeout = Unset
    /\ b.reaper_interval = Unset /\ b.concurrency_limits = <<>>
    /\ b.retry_backoff = NoBackoff /\ b.lease_timeout = lease

\* It is the one LeaseAlone speaks of.
LEMMA OnlyLease ==
  ASSUME NEW lease
  PROVE  LeaseOnly([Required EXCEPT !.lease_timeout = lease], lease)
<1>1. PICK r : r = Required
  OBVIOUS
<1>2. r = [queue |-> 1, pool |-> 2 * AvailableParallelism + 2, handler |-> TRUE,
           max_attempts |-> 3, lease_timeout |-> 30 * Second, batch_size |-> 32,
           poll_interval |-> Second, concurrency |-> Unset, concurrency_limits |-> <<>>,
           handler_timeout |-> Unset, mark_timeout |-> Unset, reaper_interval |-> Unset,
           retry_backoff |-> NoBackoff]
  BY <1>1 DEF Required, NewBuilder
<1>3. PICK b : b = [r EXCEPT !.lease_timeout = lease]
  OBVIOUS
<1>4. b = [queue |-> 1, pool |-> 2 * AvailableParallelism + 2, handler |-> TRUE,
           max_attempts |-> 3, lease_timeout |-> lease, batch_size |-> 32,
           poll_interval |-> Second, concurrency |-> Unset, concurrency_limits |-> <<>>,
           handler_timeout |-> Unset, mark_timeout |-> Unset, reaper_interval |-> Unset,
           retry_backoff |-> NoBackoff]
  BY <1>2, <1>3
<1>5. LeaseOnly(b, lease)
  BY <1>4 DEF LeaseOnly, Second
<1> QED
  BY <1>1, <1>3, <1>5

\* Its pool is just large enough, with any parallelism and also where u32 saturates.
LEMMA PoolSuffices ==
  ASSUME NEW b, b.concurrency = Unset, b.pool = 2 * AvailableParallelism + 2
  PROVE  ~(b.pool < PoolFloor(b)) /\ b.pool # Unset /\ Concurrency(b) # 0
<1>1. PICK n \in Nat : n = AvailableParallelism /\ n # 0
  BY ConfigAssumption DEF ConfigAssumption
<1>2. PICK u \in Nat : u = U32Max
  BY ConfigAssumption DEF ConfigAssumption
<1>3. Concurrency(b) = n
  BY <1>1 DEF Concurrency, Or
<1>4. PICK x \in Nat : x = Saturate(n) /\ x <= n
  BY <1>2, MinOfTwo DEF Saturate
<1>5. PICK y \in Nat : y = Saturate(2 * x) /\ y <= 2 * x
  BY <1>2, MinOfTwo DEF Saturate
<1>6. PICK z \in Nat : z = Saturate(y + 2) /\ z <= y + 2
  BY <1>2, MinOfTwo DEF Saturate
<1>7. PoolFloor(b) = z
  BY <1>3, <1>4, <1>5, <1>6 DEF PoolFloor
<1> QED
  BY <1>1, <1>3, <1>4, <1>5, <1>6, <1>7 DEF Unset

\* The checks of build() on single knobs, one by one.
LEMMA KnobCheck ==
  ASSUME NEW b
  PROVE  /\ KnobChecks(b)[1][1] <=> ~b.handler
         /\ KnobChecks(b)[2][1] <=> b.queue \notin 1 .. MAX_QUEUE_LEN
         /\ KnobChecks(b)[3][1] <=> b.max_attempts = 0
         /\ KnobChecks(b)[4][1] <=> b.lease_timeout < MIN_LEASE_TIMEOUT
         /\ KnobChecks(b)[5][1] <=> b.lease_timeout < 2 * MIN_REAPER_INTERVAL
         /\ KnobChecks(b)[6][1] <=> b.batch_size \notin BATCH_SIZE_MIN .. BATCH_SIZE_MAX
         /\ KnobChecks(b)[7][1] <=> b.poll_interval < MIN_POLL_INTERVAL
         /\ KnobChecks(b)[8][1] <=> b.lease_timeout < 5 * b.poll_interval
         /\ KnobChecks(b)[9][1] <=> b.pool = Unset
         /\ KnobChecks(b)[10][1] <=> Concurrency(b) = 0
         /\ KnobChecks(b)[11][1] <=> b.pool < PoolFloor(b)
<1>1. KnobChecks(b)[1][1] <=> ~b.handler
  BY DEF KnobChecks
<1>2. KnobChecks(b)[2][1] <=> b.queue \notin 1 .. MAX_QUEUE_LEN
  BY DEF KnobChecks
<1>3. KnobChecks(b)[3][1] <=> b.max_attempts = 0
  BY DEF KnobChecks
<1>4. KnobChecks(b)[4][1] <=> b.lease_timeout < MIN_LEASE_TIMEOUT
  BY DEF KnobChecks
<1>5. KnobChecks(b)[5][1] <=> b.lease_timeout < 2 * MIN_REAPER_INTERVAL
  BY DEF KnobChecks
<1>6. KnobChecks(b)[6][1] <=> b.batch_size \notin BATCH_SIZE_MIN .. BATCH_SIZE_MAX
  BY DEF KnobChecks
<1>7. KnobChecks(b)[7][1] <=> b.poll_interval < MIN_POLL_INTERVAL
  BY DEF KnobChecks
<1>8. KnobChecks(b)[8][1] <=> b.lease_timeout < 5 * b.poll_interval
  BY DEF KnobChecks
<1>9. KnobChecks(b)[9][1] <=> b.pool = Unset
  BY DEF KnobChecks
<1>10. KnobChecks(b)[10][1] <=> Concurrency(b) = 0
  BY DEF KnobChecks
<1>11. KnobChecks(b)[11][1] <=> b.pool < PoolFloor(b)
  BY DEF KnobChecks
<1> QED
  BY <1>1, <1>2, <1>3, <1>4, <1>5, <1>6, <1>7, <1>8, <1>9, <1>10, <1>11

\* The knobs at their defaults pass the checks of their own.
LEMMA OtherKnobsPass ==
  ASSUME NEW b, NEW lease \in Nat, lease >= 5500, LeaseOnly(b, lease), NEW n \in 1..11
  PROVE  ~KnobChecks(b)[n][1]
<1>1. /\ b.handler = TRUE /\ b.queue = 1 /\ b.max_attempts = 3 /\ b.batch_size = 32
      /\ b.poll_interval = 1000 /\ b.lease_timeout = lease
  BY DEF LeaseOnly
<1>2. ~(b.pool < PoolFloor(b)) /\ b.pool # Unset /\ Concurrency(b) # 0
  BY PoolSuffices DEF LeaseOnly
<1>3. /\ ~(~b.handler) /\ ~(b.queue \notin 1 .. MAX_QUEUE_LEN) /\ ~(b.max_attempts = 0)
      /\ ~(b.batch_size \notin BATCH_SIZE_MIN .. BATCH_SIZE_MAX)
  BY <1>1 DEF MAX_QUEUE_LEN, BATCH_SIZE_MIN, BATCH_SIZE_MAX
<1>4. /\ ~(b.lease_timeout < MIN_LEASE_TIMEOUT) /\ ~(b.lease_timeout < 2 * MIN_REAPER_INTERVAL)
      /\ ~(b.poll_interval < MIN_POLL_INTERVAL) /\ ~(b.lease_timeout < 5 * b.poll_interval)
  BY <1>1 DEF MIN_LEASE_TIMEOUT, MIN_REAPER_INTERVAL, MIN_POLL_INTERVAL, Second
<1>5. ~KnobChecks(b)[1][1] /\ ~KnobChecks(b)[2][1] /\ ~KnobChecks(b)[3][1] /\ ~KnobChecks(b)[6][1]
  BY ONLY <1>3, KnobCheck
<1>6. ~KnobChecks(b)[4][1] /\ ~KnobChecks(b)[5][1] /\ ~KnobChecks(b)[7][1] /\ ~KnobChecks(b)[8][1]
  BY ONLY <1>4, KnobCheck
<1>7. ~KnobChecks(b)[9][1] /\ ~KnobChecks(b)[10][1] /\ ~KnobChecks(b)[11][1]
  BY ONLY <1>2, KnobCheck
<1> QED
  BY <1>5, <1>6, <1>7

\* The checks of the policy and of the limits pass a builder that sets nothing but the lease.
LEMMA OtherChecksPass ==
  ASSUME NEW b, NEW lease, LeaseOnly(b, lease)
  PROVE  ~BackoffChecks(b)[1][1] /\ ~LimitChecks(b)[1][1]
<1>1. RetryBackoff(b) = DefaultBackoff
  BY DEF LeaseOnly, RetryBackoff
<1>2. ~BackoffChecks(b)[1][1]
  BY <1>1, DefaultIsValid DEF BackoffChecks
<1>3. DOMAIN b.concurrency_limits = {}
  BY DEF LeaseOnly
<1>4. ~LimitChecks(b)[1][1]
  BY <1>3 DEF LimitChecks
<1> QED
  BY <1>2, <1>4

\* The arithmetic of the derived timeouts: 80% of the lease for the handler, what is left but
\* one second for the mark, a quarter of the lease for the reaper, each with its floor.
LEMMA DerivedTimeouts ==
  ASSUME NEW k \in Nat, NEW h \in Nat, NEW budget \in Nat, NEW m \in Nat, NEW i \in Nat,
         h = IF 4 * k >= 1000 THEN 4 * k ELSE 1000,
         budget = IF 5 * k < h THEN 0 ELSE 5 * k - h,
         m = IF budget < 1000 THEN 100 ELSE budget - 1000,
         i = IF (5 * k) \div 4 >= 1000 THEN (5 * k) \div 4 ELSE 1000
  PROVE  /\ (h + 1000 <= 5 * k /\ m >= 100) => 5 * k >= 5500
         /\ 5 * k >= 5500 => /\ h >= 1000 /\ h + 1000 <= 5 * k
                             /\ m >= 100 /\ m <= budget
                             /\ i >= 1000 /\ i <= (5 * k) \div 2
OBVIOUS

\* They satisfy build()'s rules exactly from a lease of 5.5s on.
LEMMA LeaseThreshold ==
  ASSUME NEW b, NEW lease \in Nat, lease % 5 = 0, LeaseOnly(b, lease)
  PROVE  BuildError(b) = "ok" <=> lease >= 5500
<1>1. /\ b.handler_timeout = Unset /\ b.mark_timeout = Unset
      /\ b.reaper_interval = Unset /\ b.lease_timeout = lease
  BY DEF LeaseOnly
<1>2. PICK k \in Nat : lease = 5 * k
  <2>1. lease \div 5 \in Nat /\ lease = 5 * (lease \div 5)
    OBVIOUS
  <2> QED
    BY <2>1
<1>3. PICK h \in Nat : h = HandlerTimeout(b) /\ h = IF 4 * k >= 1000 THEN 4 * k ELSE 1000
  <2>1. (lease * 4) \div 5 = 4 * k
    BY <1>2
  <2>2. Max({4 * k, 1000}) = IF 4 * k >= 1000 THEN 4 * k ELSE 1000
    BY MaxOfTwo
  <2>3. HandlerTimeout(b) = Max({(lease * 4) \div 5, 1000})
    BY <1>1 DEF HandlerTimeout, Or, MIN_HANDLER_TIMEOUT, Second
  <2> QED
    BY <2>1, <2>2, <2>3
<1>4. PICK budget \in Nat : budget = MarkBudget(b) /\ budget = IF 5 * k < h THEN 0 ELSE 5 * k - h
  BY <1>1, <1>2, <1>3 DEF MarkBudget, CheckedSub
<1>5. PICK m \in Nat : m = MarkTimeout(b) /\ m = IF budget < 1000 THEN 100 ELSE budget - 1000
  <2>1. (IF budget < 1000 THEN 100 ELSE budget - 1000) \in Nat
    OBVIOUS
  <2>2. MarkTimeout(b) = IF budget < 1000 THEN 100 ELSE budget - 1000
    <3>1. MarkTimeout(b) = CheckedSub(budget, Second, MIN_MARK_TIMEOUT)
      BY <1>1, <1>4 DEF MarkTimeout, Or
    <3> QED
      BY <3>1 DEF CheckedSub, Second, MIN_MARK_TIMEOUT
  <2> QED
    BY <2>1, <2>2
<1>6. PICK i \in Nat : /\ i = ReaperInterval(b)
                       /\ i = IF (5 * k) \div 4 >= 1000 THEN (5 * k) \div 4 ELSE 1000
  <2>1. PICK q \in Nat : q = (5 * k) \div 4
    OBVIOUS
  <2>2. Max({q, 1000}) = IF q >= 1000 THEN q ELSE 1000
    BY MaxOfTwo
  <2>3. ReaperInterval(b) = Max({q, 1000})
    BY <1>1, <1>2, <2>1 DEF ReaperInterval, Or, MIN_REAPER_INTERVAL, Second
  <2> QED
    BY <2>1, <2>2, <2>3
<1>7. /\ (h + 1000 <= lease /\ m >= 100) => lease >= 5500
      /\ lease >= 5500 => /\ h >= 1000 /\ h + 1000 <= lease /\ m >= 100 /\ m <= budget
                          /\ i >= 1000 /\ i <= lease \div 2
  BY <1>2, <1>3, <1>4, <1>5, <1>6, DerivedTimeouts
<1>8. (\A n \in 1..4 : ~HandlerAndMarkChecks(b)[n][1]) <=>
        h >= 1000 /\ h + 1000 <= lease /\ m >= 100 /\ m <= budget
  <2>1. PICK s : s = HandlerAndMarkChecks(b)
    OBVIOUS
  <2>2. (\A n \in 1..4 : ~s[n][1]) <=> ~s[1][1] /\ ~s[2][1] /\ ~s[3][1] /\ ~s[4][1]
    OBVIOUS
  <2>3. /\ s[1][1] <=> HandlerTimeout(b) < MIN_HANDLER_TIMEOUT
        /\ s[2][1] <=> HandlerTimeout(b) + Second > b.lease_timeout
        /\ s[3][1] <=> MarkTimeout(b) < MIN_MARK_TIMEOUT
        /\ s[4][1] <=> MarkTimeout(b) > MarkBudget(b)
    BY <2>1 DEF HandlerAndMarkChecks
  <2>4. ~s[1][1] <=> h >= 1000
    BY <1>3, <2>3 DEF MIN_HANDLER_TIMEOUT, Second
  <2>5. ~s[2][1] <=> h + 1000 <= lease
    BY <1>1, <1>3, <2>3 DEF Second
  <2>6. ~s[3][1] <=> m >= 100
    BY <1>5, <2>3 DEF MIN_MARK_TIMEOUT
  <2>7. ~s[4][1] <=> m <= budget
    BY <1>4, <1>5, <2>3
  <2> QED
    BY <2>1, <2>2, <2>4, <2>5, <2>6, <2>7
<1>9. (\A n \in 1..2 : ~ReaperChecks(b)[n][1]) <=> i >= 1000 /\ i <= lease \div 2
  <2>1. PICK s : s = ReaperChecks(b)
    OBVIOUS
  <2>2. (\A n \in 1..2 : ~s[n][1]) <=> ~s[1][1] /\ ~s[2][1]
    OBVIOUS
  <2>3. /\ s[1][1] <=> ReaperInterval(b) < MIN_REAPER_INTERVAL
        /\ s[2][1] <=> ReaperInterval(b) > b.lease_timeout \div 2
    BY <2>1 DEF ReaperChecks
  <2>4. PICK half \in Nat : half = lease \div 2
    OBVIOUS
  <2>5. ~s[1][1] <=> i >= 1000
    BY <1>6, <2>3 DEF MIN_REAPER_INTERVAL, Second
  <2>6. ~s[2][1] <=> i <= half
    BY <1>1, <1>6, <2>3, <2>4
  <2> QED
    BY <2>1, <2>2, <2>4, <2>5, <2>6
<1>10. ASSUME lease >= 5500, NEW n \in 1..11 PROVE ~KnobChecks(b)[n][1]
  BY <1>10, OtherKnobsPass
<1>11. ~BackoffChecks(b)[1][1] /\ ~LimitChecks(b)[1][1]
  BY OtherChecksPass
<1>12. ASSUME BuildError(b) = "ok" PROVE lease >= 5500
  <2>1. \A n \in 1..4 : ~HandlerAndMarkChecks(b)[n][1]
    BY <1>12, BuildAccepts
  <2> QED
    BY <1>7, <1>8, <2>1
<1>13. ASSUME lease >= 5500 PROVE BuildError(b) = "ok"
  <2>1. \A n \in 1..4 : ~HandlerAndMarkChecks(b)[n][1]
    BY <1>7, <1>8, <1>13
  <2>2. \A n \in 1..2 : ~ReaperChecks(b)[n][1]
    BY <1>7, <1>9, <1>13
  <2>3. \A n \in 1..11 : ~KnobChecks(b)[n][1]
    BY <1>10, <1>13
  <2> QED
    BY <1>11, <2>1, <2>2, <2>3, BuildAccepts
<1> QED
  BY <1>12, <1>13

\* With lease_timeout as the only timing knob: below 5s the default handler_timeout leaves no
\* second for the mark, below 5.5s the default mark_timeout falls under its own floor.
LeaseAlone ==
    (result # "none" /\ builder = [Required EXCEPT !.lease_timeout = builder.lease_timeout])
        => (result = "ok" <=> builder.lease_timeout >= 5500)

\* What build() really accepts when lease_timeout, of whole 5ms, of which 80% is a whole
\* number of milliseconds, is the only timing knob that is set, on any machine: 5.5s or more.
\* (The README's table gives a floor of 1s and rules that ask for 2s; the clamp of the default
\* mark_timeout that it describes would admit 5s.)
THEOREM LeaseAloneFrom5500 ==
  ASSUME \A v \in Tried("lease_timeout") : v % 5 = 0
  PROVE  RetrySpec => []LeaseAlone
<1>1. ScheduleInv => LeaseAlone
  <2> SUFFICES ASSUME ScheduleInv, result # "none",
                      builder = [Required EXCEPT !.lease_timeout = builder.lease_timeout]
               PROVE  result = "ok" <=> builder.lease_timeout >= 5500
    BY DEF LeaseAlone
  <2>1. BuilderInv /\ result = BuildError(builder)
    BY DEF ScheduleInv
  <2>2. builder.lease_timeout \in Nat /\ builder.lease_timeout % 5 = 0
    BY <2>1, KnobTypes DEF BuilderInv
  <2>3. LeaseOnly(builder, builder.lease_timeout)
    <3>1. PICK lease : lease = builder.lease_timeout
      OBVIOUS
    <3>2. builder = [Required EXCEPT !.lease_timeout = lease]
      BY <3>1
    <3> QED
      BY <3>1, <3>2, OnlyLease
  <2> QED
    BY <2>1, <2>2, <2>3, LeaseThreshold
<1> QED
  BY <1>1, ScheduleInvariance, PTL

=============================================================================
