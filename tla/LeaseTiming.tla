---------------------------- MODULE LeaseTiming ----------------------------
(***************************************************************************)
(* What the timing rules of build() buy: claims, handlers, marks and the   *)
(* reaper of a worker on one clock.  A lease runs from the claim's now().  *)
(* handler_timeout runs from the first poll of the job's task, which comes *)
(* Latency later at most: the claim's reply, the decoding of the batch and *)
(* the JoinSet's mutex lie in between.  mark_timeout runs from the end of  *)
(* the handler.                                                            *)
(*                                                                         *)
(* Time advances by Step and never past an event that is due, so timers    *)
(* are punctual; statements take no time.  Each row is claimed once.       *)
(***************************************************************************)
EXTENDS WorkerConfig

CONSTANTS
    Rows,
    Builders,       \* builders, of which those that build() accepts are explored
    Step,           \* the clock's granularity
    Latency,        \* the most that passes between a claim and the call of the handler
    ClaimWindow,    \* the last moment at which a row is claimed
    ReaperBatch     \* REAPER_BATCH_SIZE

ASSUME TimingAssumption ==
    /\ {Step, Latency, ClaimWindow} \subseteq Nat /\ Step > 0
    /\ ReaperBatch \in Nat \ {0} /\ IsFiniteSet(Rows)
    /\ \A b \in Builders :
        /\ b.lease_timeout \in Nat
        /\ {b.handler_timeout, b.mark_timeout, b.reaper_interval} \subseteq Nat \cup {Unset}

VARIABLES
    worker,         \* the configuration
    now,
    row,            \* the columns status and lease_expires_at
    task,           \* what the worker does with the row, and since when
    reaper          \* the time of the next tick, and skip_next_tick

timingVars == <<worker, now, row, task, reaper>>

Live == {"claimed", "handler", "mark"}
Running == {r \in Rows : row[r].status = "running"}

-----------------------------------------------------------------------------

\* The reaper's ticks have any phase relative to the claims.
TimingInit ==
    /\ \E b \in Builders : BuildError(b) = "ok" /\ worker = Worker(b)
    /\ now = 0
    /\ row = [r \in Rows |-> [status |-> "queued", expires |-> 0]]
    /\ task = [r \in Rows |-> [pc |-> "none", since |-> 0]]
    /\ \E t \in 0 .. worker.reaper_interval :
        t % Step = 0 /\ reaper = [next |-> t, skip |-> FALSE]

\* Mutant: the lease is the handler's timeout.
ClaimForHandler(r) ==
    /\ now <= ClaimWindow
    /\ row[r].status = "queued"
    /\ row' = [row EXCEPT ![r] = [status |-> "running", expires |-> now + worker.handler_timeout]]
    /\ task' = [task EXCEPT ![r] = [pc |-> "claimed", since |-> now]]
    /\ UNCHANGED <<worker, now, reaper>>

Claim(r) ==
    /\ now <= ClaimWindow
    /\ row[r].status = "queued"
    /\ row' = [row EXCEPT ![r] = [status |-> "running", expires |-> now + worker.lease_timeout]]
    /\ task' = [task EXCEPT ![r] = [pc |-> "claimed", since |-> now]]
    /\ UNCHANGED <<worker, now, reaper>>

\* handle_job is polled and calls the handler.
CallHandler(r) ==
    /\ task[r].pc = "claimed"
    /\ task' = [task EXCEPT ![r] = [pc |-> "handler", since |-> now]]
    /\ UNCHANGED <<worker, now, row, reaper>>

\* The handler returns, panics, or its timeout elapses; the mark is sent.
HandlerEnds(r) ==
    /\ task[r].pc = "handler"
    /\ task' = [task EXCEPT ![r] = [pc |-> "mark", since |-> now]]
    /\ UNCHANGED <<worker, now, row, reaper>>

\* The mark commits; it settles the row unless the reaper took it.
MarkCommits(r) ==
    /\ task[r].pc = "mark"
    /\ row' = [row EXCEPT ![r].status = IF @ = "running" THEN "settled" ELSE @]
    /\ task' = [task EXCEPT ![r] = [pc |-> "gone", since |-> now]]
    /\ UNCHANGED <<worker, now, reaper>>

\* mark_timeout elapses.
MarkTimesOut(r) ==
    /\ task[r].pc = "mark"
    /\ now - task[r].since >= worker.mark_timeout
    /\ task' = [task EXCEPT ![r] = [pc |-> "gone", since |-> now]]
    /\ UNCHANGED <<worker, now, row, reaper>>

\* The process dies with everything it holds; the sweeping goes on elsewhere, by a
\* replica with the same configuration.
Crash ==
    /\ \E r \in Rows : task[r].pc \in Live
    /\ task' = [r \in Rows |->
        IF task[r].pc \in Live THEN [pc |-> "crashed", since |-> now] ELSE task[r]]
    /\ UNCHANGED <<worker, now, row, reaper>>

\* The rows of one sweep: those longest expired first, up to the batch size.
Sweep(stale, S) ==
    /\ S \subseteq stale
    /\ Cardinality(S) = Min({Cardinality(stale), ReaperBatch})
    /\ \A r \in S, q \in stale \ S : row[r].expires <= row[q].expires

\* Mutant: a full batch does not make the next sweep follow at once.
ReaperTickOnce ==
    /\ reaper.skip \/ now >= reaper.next
    /\ \E S \in SUBSET Running :
        /\ Sweep({r \in Running : row[r].expires < now}, S)
        /\ row' = [r \in Rows |-> IF r \in S THEN [row[r] EXCEPT !.status = "recovered"] ELSE row[r]]
        /\ reaper' = [next |-> now + worker.reaper_interval, skip |-> FALSE]
    /\ UNCHANGED <<worker, now, task>>

\* One sweep; a full batch makes the next one follow at once.
ReaperTick ==
    /\ reaper.skip \/ now >= reaper.next
    /\ \E S \in SUBSET Running :
        /\ Sweep({r \in Running : row[r].expires < now}, S)
        /\ row' = [r \in Rows |-> IF r \in S THEN [row[r] EXCEPT !.status = "recovered"] ELSE row[r]]
        /\ reaper' = [next |-> IF reaper.skip THEN reaper.next ELSE now + worker.reaper_interval,
                      skip |-> Cardinality(S) >= ReaperBatch]
    /\ UNCHANGED <<worker, now, task>>

\* What is due now and must happen before time passes.
Due(r) ==
    \/ task[r].pc = "claimed" /\ now - task[r].since >= Latency
    \/ task[r].pc = "handler" /\ now - task[r].since >= worker.handler_timeout
    \/ task[r].pc = "mark" /\ now - task[r].since >= worker.mark_timeout

Tick ==
    /\ ~reaper.skip /\ now < reaper.next
    /\ \A r \in Rows : ~Due(r)
    /\ Running # {} \/ now < ClaimWindow
    /\ now' = now + Step
    /\ UNCHANGED <<worker, row, task, reaper>>

\* All rows have left running and none will be claimed any more.
Finished == Running = {} /\ now >= ClaimWindow /\ UNCHANGED timingVars

TimingNext ==
    \/ \E r \in Rows : \/ Claim(r) \/ CallHandler(r) \/ HandlerEnds(r)
                       \/ MarkCommits(r) \/ MarkTimesOut(r)
    \/ Crash
    \/ ReaperTick
    \/ Tick
    \/ Finished

TimingSpec == TimingInit /\ [][TimingNext]_timingVars

-----------------------------------------------------------------------------

\* What the timing rules leave for everything between the claim and the handler's call.
Slack == worker.lease_timeout - worker.handler_timeout - worker.mark_timeout

\* As long as calling the handler takes no longer than the slack that build() left, a
\* worker that is alive never works on a row whose lease has expired, so the reaper
\* takes no row away from a handler or a mark under way.
LeaseCoversAttempt ==
    \A r \in Rows :
        (Latency <= Slack /\ task[r].pc \in Live) => now <= row[r].expires

\* A row leaves running at the latest 1.5 lease_timeouts after its claim, even if its
\* worker died and more rows are stale than fit into a sweep (BuildError's
\* ReaperIntervalTooLong; the reaper's adaptive re-sweep).
StaleBound ==
    \A r \in Running : 2 * now <= 2 * row[r].expires + worker.lease_timeout

-----------------------------------------------------------------------------
\* What the two rest on.

TypeOK ==
    /\ now \in Nat
    /\ row \in [Rows -> [status : {"queued", "running", "settled", "recovered"}, expires : Nat]]
    /\ task \in [Rows -> [pc : Live \cup {"none", "gone", "crashed"}, since : Nat]]
    /\ reaper \in [next : Nat, skip : BOOLEAN]

\* The rules of build() that matter here.
WorkerInv ==
    /\ {worker.lease_timeout, worker.handler_timeout, worker.mark_timeout,
        worker.reaper_interval} \subseteq Nat
    /\ worker.handler_timeout + worker.mark_timeout <= worker.lease_timeout
    /\ 2 * worker.reaper_interval <= worker.lease_timeout

\* A task is where it is for no longer than its timer allows, and came there that much
\* after the claim, from which the lease counts.
TaskInv(r) ==
    LET t == task[r]
        sinceClaim(late) == t.since + worker.lease_timeout <= row[r].expires + late
    IN  /\ t.pc = "claimed" => now <= t.since + Latency /\ sinceClaim(0)
        /\ t.pc = "handler" => now <= t.since + worker.handler_timeout /\ sinceClaim(Latency)
        /\ t.pc = "mark" => /\ now <= t.since + worker.mark_timeout
                           /\ sinceClaim(Latency + worker.handler_timeout)

\* Between the ticks no row has been stale for longer than since the last one: its sweeps
\* went on until one was not full, and no time passed between them.
ReaperInv ==
    /\ now <= reaper.next /\ reaper.next <= now + worker.reaper_interval
    /\ reaper.skip => reaper.next = now + worker.reaper_interval
    /\ ~reaper.skip => \A r \in Running : reaper.next <= row[r].expires + worker.reaper_interval

TimingInv ==
    TypeOK /\ WorkerInv /\ ReaperInv /\ StaleBound /\ \A r \in Rows : TaskInv(r)
=============================================================================
