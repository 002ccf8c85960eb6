------------------------------ MODULE WorkQueue ------------------------------
(***************************************************************************)
(* The jobs table of one queue together with the workers that drive it.    *)
(* Every SQL statement is one atomic step of the table: each is a single   *)
(* statement that locks its rows and re-evaluates its WHERE on the locked  *)
(* version.  Everything between two statements is an await point and       *)
(* interleaves with the other workers, their reapers and the clock.        *)
(*                                                                         *)
(* The clock is abstracted to the two comparisons the statements make      *)
(* with now(): `due` is run_at <= now(), `expired` is                      *)
(* lease_expires_at < now().  Either becomes true at an arbitrary later    *)
(* moment, so that every ratio of leases, backoffs and pauses is covered.  *)
(***************************************************************************)
EXTENDS Integers, FiniteSets

CONSTANTS
  Jobs,          \* row ids; never reused (GENERATED ALWAYS AS IDENTITY)
  Workers,       \* worker deployments; one that restarts keeps its name
  MaxAttempts,   \* max_attempts configured in each worker
  PanicPolicy,   \* "Retry" or "Dead" in each worker
  Decodes        \* the jobs whose payload each worker's codec can decode

ASSUME ConfigAssumption ==
  /\ MaxAttempts \in [Workers -> Nat \ {0}]
  /\ PanicPolicy \in [Workers -> {"Retry", "Dead"}]
  /\ Decodes \in [Workers -> SUBSET Jobs]

VARIABLES
  jobs,       \* the table: one row per job, "absent" before it is pushed
  issued,     \* lease tokens generated so far for each row
  tasks,      \* claimed rows in the memory of a live worker
  late,       \* mark statements that may still commit, with no one waiting
  invoked,    \* history: <<job, attempt>> whose handler was called
  succeeded   \* history: <<job, attempt>> whose handler returned Ok

vars == <<jobs, issued, tasks, late, invoked, succeeded>>

NoToken == 0

Status == {"queued", "running", "awaiting_retry", "done", "dead"}

Row == [status : Status \cup {"absent", "purged"},
        attempts : Nat, max_attempts : Nat,
        lease_token : Nat, expired : BOOLEAN, due : BOOLEAN,
        attempted : BOOLEAN, finished : BOOLEAN]

\* What a mark_* statement is to make of the row.
Op == {"done", "retry", "dead"}

\* `decode`: returned by the claim, in claim_and_decode or before the spawn;
\* `handler`: handle_job awaits the handler; `mark`: it awaits mark_<op>.
Task == [worker : Workers, job : Jobs, token : Nat,
         attempts : Nat, max_attempts : Nat,
         pc : {"decode", "handler", "mark"}, op : Op \cup {"none"}]

Stmt == [job : Jobs, token : Nat, op : Op]

AbsentRow ==
  [status |-> "absent", attempts |-> 0, max_attempts |-> 0,
   lease_token |-> NoToken, expired |-> FALSE, due |-> FALSE,
   attempted |-> FALSE, finished |-> FALSE]

-----------------------------------------------------------------------------
\* The statements, as functions of a row.

\* INSERT: the column defaults; `d` is whether run_at has already passed.
Inserted(d) == [AbsentRow EXCEPT !.status = "queued", !.due = d]

\* Mutant: every row that is due and not running may be claimed.
EligibleUnlessRunning(r) == r.status # "running" /\ r.due

Eligible(r) == r.status \in {"queued", "awaiting_retry"} /\ r.due

Claimed(r, max_attempts, token) ==
  [r EXCEPT !.status = "running", !.attempts = r.attempts + 1,
            !.max_attempts = max_attempts, !.attempted = TRUE,
            !.lease_token = token, !.expired = FALSE]

\* Mutant: the guard checks the status only.
HoldsByStatus(r, token) == r.status = "running"

\* The fencing guard shared by the three mark statements.
Holds(r, token) == r.status = "running" /\ r.lease_token = token

Released(r) == [r EXCEPT !.lease_token = NoToken, !.expired = FALSE]

mark_done(r) == [Released(r) EXCEPT !.status = "done", !.finished = TRUE]

mark_dead(r) == [Released(r) EXCEPT !.status = "dead", !.finished = TRUE]

\* Mutant: the retry keeps the lease columns.
mark_retry_leased(r, d) == [r EXCEPT !.status = "awaiting_retry", !.due = d]

\* run_at = now() + delay: `d` is whether it has passed when the row is visible.
mark_retry(r, d) == [Released(r) EXCEPT !.status = "awaiting_retry", !.due = d]

Marked(r, op, d) ==
  CASE op = "done"  -> mark_done(r)
    [] op = "retry" -> mark_retry(r, d)
    [] op = "dead"  -> mark_dead(r)

\* Mutant: the reaper leaves rows without attempts to their worker.
StaleRetriable(r) == r.status = "running" /\ r.expired /\ r.attempts < r.max_attempts

Stale(r) == r.status = "running" /\ r.expired

\* Mutant: off by one in the reaper's CASE.
ReapedLate(r) ==
  IF r.attempts > r.max_attempts
  THEN mark_dead(r)
  ELSE [Released(r) EXCEPT !.status = "awaiting_retry"]

\* run_at is left alone: a reaped row is due at once.
Reaped(r) ==
  IF r.attempts >= r.max_attempts
  THEN mark_dead(r)
  ELSE [Released(r) EXCEPT !.status = "awaiting_retry"]

Terminal(r) == r.status \in {"done", "dead"}

\* DELETE; the fields of a purged row are only history.
Purged(r) == [r EXCEPT !.status = "purged"]

-----------------------------------------------------------------------------
\* Producers, the clock and retention.

\* push / push_batch / push_at, at the commit of the caller's transaction.
Push(S, d) ==
  /\ S # {}
  /\ \A j \in S : jobs[j].status = "absent"
  /\ jobs' = [j \in Jobs |-> IF j \in S THEN Inserted(d) ELSE jobs[j]]
  /\ UNCHANGED <<issued, tasks, late, invoked, succeeded>>

BecomeDue(j) ==
  /\ jobs[j].status \in {"queued", "awaiting_retry"}
  /\ ~jobs[j].due
  /\ jobs' = [jobs EXCEPT ![j].due = TRUE]
  /\ UNCHANGED <<issued, tasks, late, invoked, succeeded>>

LeaseExpire(j) ==
  /\ jobs[j].status = "running"
  /\ ~jobs[j].expired
  /\ jobs' = [jobs EXCEPT ![j].expired = TRUE]
  /\ UNCHANGED <<issued, tasks, late, invoked, succeeded>>

\* One chunk of purge_done or purge_dead; any terminal row may be old enough.
Purge(S) ==
  /\ S # {}
  /\ \E st \in {"done", "dead"} : \A j \in S : jobs[j].status = st
  /\ jobs' = [j \in Jobs |-> IF j \in S THEN Purged(jobs[j]) ELSE jobs[j]]
  /\ UNCHANGED <<issued, tasks, late, invoked, succeeded>>

-----------------------------------------------------------------------------
\* Reaper: one sweep, of any subset of the stale rows (LIMIT, SKIP LOCKED).

Reap(S) ==
  /\ \A j \in S : Stale(jobs[j])
  /\ jobs' = [j \in Jobs |-> IF j \in S THEN Reaped(jobs[j]) ELSE jobs[j]]
  /\ UNCHANGED <<issued, tasks, late, invoked, succeeded>>

-----------------------------------------------------------------------------
\* A worker's poll loop: claim, decode, spawn.

TasksOf(w) == {t \in tasks : t.worker = w}

Batch(w) == {t \in TasksOf(w) : t.pc = "decode"}

\* Any subset of the eligible rows: LIMIT and SKIP LOCKED; often none at all.
ClaimCommit(w, S) ==
  /\ \A j \in S : Eligible(jobs[j])
  /\ jobs' = [j \in Jobs |->
                IF j \in S THEN Claimed(jobs[j], MaxAttempts[w], issued[j] + 1)
                           ELSE jobs[j]]
  /\ issued' = [j \in Jobs |-> IF j \in S THEN issued[j] + 1 ELSE issued[j]]

\* Mutant: the worker is handed the row as it was before the UPDATE.
OldTask(w, j) ==
  [worker |-> w, job |-> j, token |-> issued[j] + 1,
   attempts |-> jobs[j].attempts + 1, max_attempts |-> jobs[j].max_attempts,
   pc |-> "decode", op |-> "none"]

\* RETURNING: the row as the claim left it, copied into the worker.
NewTask(w, j) ==
  [worker |-> w, job |-> j, token |-> issued[j] + 1,
   attempts |-> jobs[j].attempts + 1, max_attempts |-> MaxAttempts[w],
   pc |-> "decode", op |-> "none"]

\* The poll loop claims again only when it is done with the previous batch.
Claim(w, S) ==
  /\ Batch(w) = {}
  /\ ClaimCommit(w, S)
  /\ tasks' = tasks \cup {NewTask(w, j) : j \in S}
  /\ UNCHANGED <<late, invoked, succeeded>>

\* The claim commits but its rows never reach the poll loop: the connection
\* fails after the commit, or the shutdown arm of the select! drops the future.
ClaimUnanswered(w, S) ==
  /\ Batch(w) = {}
  /\ ClaimCommit(w, S)
  /\ UNCHANGED <<tasks, late, invoked, succeeded>>

\* The task has a mark statement to run: its verdict, or mark_dead for a row
\* that does not decode.
Undecodable(t) == t.pc = "decode" /\ t.job \notin Decodes[t.worker]

StmtOf(t) == [job |-> t.job, token |-> t.token,
              op |-> IF t.pc = "mark" THEN t.op ELSE "dead"]

\* The table after a mark statement ran (0 or 1 rows affected).
MarkCommit(m) ==
  \/ /\ ~Holds(jobs[m.job], m.token)
     /\ UNCHANGED jobs
  \/ /\ Holds(jobs[m.job], m.token)
     /\ \E d \in BOOLEAN :
          jobs' = [jobs EXCEPT ![m.job] = Marked(@, m.op, d)]

\* The client stops waiting for a mark statement: it may have never been sent,
\* or be on its way to the server, where it commits later.
MarkAbandon(m) == late' \in {late, late \cup {m}}

\* Codec error or panic: mark_dead with the row's token, then drop the row.
RejectRow(t) ==
  /\ Undecodable(t)
  /\ MarkCommit(StmtOf(t))
  /\ tasks' = tasks \ {t}
  /\ UNCHANGED <<issued, late, invoked, succeeded>>

\* That mark_dead fails: logged, the row is dropped all the same.
RejectRowFails(t) ==
  /\ Undecodable(t)
  /\ MarkAbandon(StmtOf(t))
  /\ tasks' = tasks \ {t}
  /\ UNCHANGED <<jobs, issued, invoked, succeeded>>

\* Once the whole batch is decoded, every surviving row becomes a handle_job
\* task; handle_job calls the handler first thing.
Spawn(w) ==
  /\ Batch(w) # {}
  /\ \A t \in Batch(w) : ~Undecodable(t)
  /\ tasks' = (tasks \ Batch(w))
                \cup {[t EXCEPT !.pc = "handler"] : t \in Batch(w)}
  /\ invoked' = invoked \cup {<<t.job, t.attempts>> : t \in Batch(w)}
  /\ UNCHANGED <<jobs, issued, late, succeeded>>

\* The shutdown arm of the select! drops claim_and_decode with its batch.
DropBatch(w) ==
  /\ Batch(w) # {}
  /\ tasks' = tasks \ Batch(w)
  /\ \/ UNCHANGED late
     \/ \E t \in Batch(w) : Undecodable(t) /\ late' = late \cup {StmtOf(t)}
  /\ UNCHANGED <<jobs, issued, invoked, succeeded>>

-----------------------------------------------------------------------------
\* handle_job: the handler's outcome, the verdict, the mark.

Outcome == {"ok", "retry", "abort", "timeout", "panic"}

\* A timeout is a synthesized Retry; a panic follows the panic policy.
Retriable(t, o) ==
  \/ o \in {"retry", "timeout"}
  \/ o = "panic" /\ PanicPolicy[t.worker] = "Retry"

\* Mutant: off by one in apply_handler_result_state.
VerdictLate(t, o) ==
  IF o = "ok" THEN "done"
  ELSE IF Retriable(t, o) /\ t.attempts <= t.max_attempts THEN "retry"
  ELSE "dead"

Verdict(t, o) ==
  IF o = "ok" THEN "done"
  ELSE IF Retriable(t, o) /\ t.attempts < t.max_attempts THEN "retry"
  ELSE "dead"

HandlerReturn(t, o) ==
  /\ t.pc = "handler"
  /\ tasks' = (tasks \ {t}) \cup {[t EXCEPT !.pc = "mark", !.op = Verdict(t, o)]}
  /\ succeeded' = IF o = "ok" THEN succeeded \cup {<<t.job, t.attempts>>}
                              ELSE succeeded
  /\ UNCHANGED <<jobs, issued, late, invoked>>

\* The task ends without a mark: aborted by shutdown, or the handler panicked
\* before it returned its future.
HandlerLost(t) ==
  /\ t.pc = "handler"
  /\ tasks' = tasks \ {t}
  /\ UNCHANGED <<jobs, issued, late, invoked, succeeded>>

\* The mark commits and its rows_affected reaches the task.
MarkAnswered(t) ==
  /\ t.pc = "mark"
  /\ MarkCommit(StmtOf(t))
  /\ tasks' = tasks \ {t}
  /\ UNCHANGED <<issued, late, invoked, succeeded>>

\* Mutant: the task tries again after mark_timeout.
MarkRetried(t) ==
  /\ t.pc = "mark"
  /\ MarkAbandon(StmtOf(t))
  /\ UNCHANGED <<jobs, issued, tasks, invoked, succeeded>>

\* mark_timeout elapses, the statement fails, or shutdown aborts the task.
MarkUnanswered(t) ==
  /\ t.pc = "mark"
  /\ MarkAbandon(StmtOf(t))
  /\ tasks' = tasks \ {t}
  /\ UNCHANGED <<jobs, issued, invoked, succeeded>>

\* A statement nobody waits for reaches the table.
LateMark(m) ==
  /\ MarkCommit(m)
  /\ late' = late \ {m}
  /\ UNCHANGED <<issued, tasks, invoked, succeeded>>

\* The process dies and restarts with empty memory.  Its rows stay `running`.
\* Of the statements its tasks had sent, any may still commit; the poll loop
\* has at most one of them.
Crash(w) ==
  /\ TasksOf(w) # {}
  /\ tasks' = tasks \ TasksOf(w)
  /\ \E M \in SUBSET {t \in TasksOf(w) : t.pc = "mark" \/ Undecodable(t)} :
       /\ \A t, u \in M : t.pc = "decode" /\ u.pc = "decode" => t = u
       /\ late' = late \cup {StmtOf(t) : t \in M}
  /\ UNCHANGED <<jobs, issued, invoked, succeeded>>

-----------------------------------------------------------------------------
Init ==
  /\ jobs = [j \in Jobs |-> AbsentRow]
  /\ issued = [j \in Jobs |-> 0]
  /\ tasks = {}
  /\ late = {}
  /\ invoked = {}
  /\ succeeded = {}

Store ==
  \/ \E S \in SUBSET Jobs, d \in BOOLEAN : Push(S, d)
  \/ \E j \in Jobs : BecomeDue(j) \/ LeaseExpire(j)
  \/ \E S \in SUBSET Jobs : Purge(S) \/ Reap(S)

Poll(w) ==
  \/ \E S \in SUBSET Jobs : Claim(w, S) \/ ClaimUnanswered(w, S)
  \/ Spawn(w) \/ DropBatch(w)

HandleJob(t) ==
  \/ RejectRow(t) \/ RejectRowFails(t)
  \/ \E o \in Outcome : HandlerReturn(t, o)
  \/ HandlerLost(t) \/ MarkAnswered(t) \/ MarkUnanswered(t)

Next ==
  \/ Store
  \/ \E w \in Workers : Poll(w) \/ Crash(w)
  \/ \E t \in tasks : HandleJob(t)
  \/ \E m \in late : LateMark(m)

Spec == Init /\ [][Next]_vars

-----------------------------------------------------------------------------
\* Fairness.  Some worker polls, a poll loop works off the batch it claimed, the
\* reaper ticks and time passes.  Handlers need not return, marks
\* need not succeed, and no abandoned statement need ever commit.
Fairness ==
  /\ \A j \in Jobs : WF_vars(BecomeDue(j)) /\ WF_vars(LeaseExpire(j))
  /\ WF_vars(\E S \in SUBSET Jobs : Reap(S))
  /\ WF_vars(\E w \in Workers, S \in SUBSET Jobs :
               Claim(w, S) \/ ClaimUnanswered(w, S))
  /\ \A w \in Workers :
       WF_vars(Spawn(w) \/ DropBatch(w)
               \/ \E t \in Batch(w) : RejectRow(t) \/ RejectRowFails(t))

FairSpec == Spec /\ Fairness

-----------------------------------------------------------------------------
\* Properties.

TypeOK ==
  /\ jobs \in [Jobs -> Row]
  /\ issued \in [Jobs -> Nat]
  /\ tasks \subseteq Task
  /\ late \subseteq Stmt
  /\ invoked \subseteq Jobs \X Nat
  /\ succeeded \subseteq Jobs \X Nat

\* jobs_status_invariants, for one row; a lease_expires_at that is NULL is never
\* in the past.
StatusInv(j) ==
  LET r == jobs[j] IN
  /\ r.status = "queued" =>
       /\ r.attempts = 0 /\ ~r.attempted /\ ~r.finished
       /\ r.lease_token = NoToken /\ ~r.expired
  /\ r.status = "running" =>
       r.attempts > 0 /\ r.attempted /\ ~r.finished /\ r.lease_token # NoToken
  /\ r.status = "awaiting_retry" =>
       /\ r.attempts > 0 /\ r.attempted /\ ~r.finished
       /\ r.lease_token = NoToken /\ ~r.expired
  /\ r.status \in {"done", "dead"} =>
       r.finished /\ r.lease_token = NoToken /\ ~r.expired

\* The CHECK constraint jobs_status_invariants holds of every row whatever
\* statement ran last: the constraint, whose violation is_fatal_sqlx treats as
\* fatal, never stops a worker.
StatusInvariants == \A j \in Jobs : StatusInv(j)

\* handle_job decides dead-or-retry from the attempts and max_attempts it was
\* handed at the claim.  As long as its token still opens the row, those copies
\* are the row's, so the decision is the one the reaper would take.
CopyIsCurrent ==
  \A t \in tasks :
    Holds(jobs[t.job], t.token) =>
      /\ t.attempts = jobs[t.job].attempts
      /\ t.max_attempts = jobs[t.job].max_attempts

\* A row waits for another attempt only while it has one left, whoever sent it
\* back (mark_retry of a live, late or fenced task, or the reaper), and no row
\* is attempted more often than the most generous worker allows.
RetryBudget ==
  \A j \in Jobs :
    /\ jobs[j].status = "awaiting_retry" => jobs[j].attempts < jobs[j].max_attempts
    /\ jobs[j].attempts > 0 => \E w \in Workers : jobs[j].attempts <= MaxAttempts[w]

\* A row is done only if the handler of its last attempt returned Ok: the late
\* mark_done of an attempt the reaper already gave up never completes the row
\* that another attempt now holds.
DoneByLastAttempt ==
  \A j \in Jobs :
    jobs[j].status = "done" => <<j, jobs[j].attempts>> \in succeeded

\* No lease is held twice: the rows a claim returns, the tasks spawned from
\* them and the statements a crash or a timeout leaves behind never give two
\* parties the token of one lease, so each attempt is settled at most once.
SameLease(x, y) == x.job = y.job /\ x.token = y.token

SoleHolder ==
  /\ \A t, u \in tasks : SameLease(t, u) => t = u
  /\ \A m, n \in late : SameLease(m, n) => m = n
  /\ \A t \in tasks, m \in late : ~SameLease(t, m)

\* What the guarantees above rest on, for a row, a task and a statement in
\* flight: tokens are never issued twice; a task's copies are current while its
\* token is; a verdict of `done` or `retry` on its way to the table is still
\* the right one if its token still opens the row.
RowInv(j) ==
  LET r == jobs[j] IN
  /\ r.lease_token <= issued[j]
  /\ r.status \in {"absent", "queued"} => r.attempts = 0 /\ r.max_attempts = 0
  /\ r.status = "running" => r.attempts > 0
  /\ r.attempts > 0 => \E w \in Workers : r.max_attempts = MaxAttempts[w]
  /\ r.attempts > 0 => \E w \in Workers : r.attempts <= MaxAttempts[w]
  /\ r.status = "awaiting_retry" => r.attempts < r.max_attempts
  /\ r.status = "done" => <<j, r.attempts>> \in succeeded

TaskInv(t) ==
  LET r == jobs[t.job] IN
  /\ t.token \in 1..issued[t.job]
  /\ t.attempts \in 1..r.attempts
  /\ Holds(r, t.token) => t.attempts = r.attempts /\ t.max_attempts = r.max_attempts
  /\ t.op = "none" <=> t.pc # "mark"
  /\ t.op = "done" => <<t.job, t.attempts>> \in succeeded
  /\ t.op = "retry" => t.attempts < t.max_attempts

StmtInv(m) ==
  LET r == jobs[m.job] IN
  /\ m.token \in 1..issued[m.job]
  /\ Holds(r, m.token) /\ m.op = "done" => <<m.job, r.attempts>> \in succeeded
  /\ Holds(r, m.token) /\ m.op = "retry" => r.attempts < r.max_attempts

IInv ==
  /\ TypeOK
  /\ StatusInvariants
  /\ SoleHolder
  /\ \A j \in Jobs : RowInv(j)
  /\ \A t \in tasks : TaskInv(t)
  /\ \A m \in late : StmtInv(m)

\* One lease per attempt: tokens are issued as attempts are counted, so the tasks of
\* different leases work on different attempts, and an attempt has succeeded only if its
\* own handler has returned.
AttemptInv ==
  /\ \A j \in Jobs :
       /\ issued[j] = jobs[j].attempts
       /\ jobs[j].status = "running" => jobs[j].lease_token = jobs[j].attempts
  /\ \A t \in tasks :
       /\ t.token = t.attempts
       /\ t.op # "done" => <<t.job, t.attempts>> \notin succeeded
  /\ \A a \in succeeded : a[2] \in 1..jobs[a[1]].attempts

\* What can be said of an attempt: it has no task left; it finished its row; its lease is
\* over.
Gone(a) ==
  /\ a \in Jobs \X Nat /\ a[2] \in 1..jobs[a[1]].attempts
  /\ \A t \in tasks : <<t.job, t.attempts>> # a
Finished(a) == jobs[a[1]].status \in {"done", "purged"} /\ jobs[a[1]].attempts = a[2]
Overtaken(a) == jobs[a[1]].status = "running" => jobs[a[1]].attempts > a[2]

\* Once done or dead, a row changes only by being purged.
TerminalIsFinal ==
  [][\A j \in Jobs : Terminal(jobs[j]) =>
       jobs'[j] = jobs[j] \/ jobs'[j].status = "purged"]_vars

\* Every pushed job is eventually done, dead-lettered or purged, whatever
\* crashes, lost replies, stuck handlers and failed marks happen on the way.
EveryJobSettles ==
  \A j \in Jobs :
    jobs[j].status = "queued" ~> jobs[j].status \in {"done", "dead", "purged"}

\* lib.rs: "A handler may be invoked one or more times for a single logical
\* job": no job whose payload every worker decodes ends up dead, with no worker
\* left that has it in memory and could still call its handler, without one call.
AtLeastOnce ==
  \A j \in Jobs :
    (/\ jobs[j].status = "dead" /\ (\A w \in Workers : j \in Decodes[w])
     /\ \A t \in tasks : t.job # j)
      => \E n \in 1..jobs[j].attempts : <<j, n>> \in invoked

-----------------------------------------------------------------------------
\* The table implements the life of a job that JobLifecycle promises.

PhaseOf(status) ==
  CASE status = "absent" -> "absent"
    [] status \in {"queued", "awaiting_retry"} -> "waiting"
    [] status = "running" -> "attempt"
    [] status = "done" -> "done"
    [] status = "dead" -> "dead"
    [] status = "purged" -> "gone"

Lifecycle == INSTANCE JobLifecycle WITH
  Budgets <- {MaxAttempts[w] : w \in Workers},
  phase   <- [j \in Jobs |-> PhaseOf(jobs[j].status)],
  attempt <- [j \in Jobs |-> jobs[j].attempts],
  budget  <- [j \in Jobs |-> jobs[j].max_attempts],
  ok      <- succeeded

\* Every statement of claim.rs, mark.rs, reaper.rs, pusher.rs and purge.rs, run
\* by any worker at any time, is one step of a job's promised life or none.
RefinesLifecycle == Lifecycle!Spec

=============================================================================
