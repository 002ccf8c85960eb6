---------------------------- MODULE WorkerProcess ----------------------------
(***************************************************************************)
(* One started worker seen from inside its process: the poll loop, the     *)
(* reaper loop, the handle_job tasks in the JoinSet, the permits and key    *)
(* slots they own, and the WorkerHandle that stops them.                   *)
(*                                                                         *)
(* A step is what a tokio task does between two points where another       *)
(* thread can observe or change shared state.  What the database answers   *)
(* is left open: see WorkQueue for what the statements do to the table.    *)
(***************************************************************************)
EXTENDS Integers, FiniteSets

CONSTANTS
  Rows,             \* claims: a job claimed a second time is another member
  KeyOf,            \* their concurrency_key; NoKey: NULL, or no limit configured
  NoKey,
  Limit,            \* concurrency_limits: a function on the configured keys
  Concurrency,      \* permits of the semaphore
  BatchSize,
  MaxClaimErrors,   \* limits::MAX_CONSECUTIVE_CLAIM_ERRORS
  PanicThreshold    \* REAPER_PANIC_ESCALATION_THRESHOLD

Keys == DOMAIN Limit

ASSUME ProcessAssumption ==
  /\ IsFiniteSet(Rows)
  /\ KeyOf \in [Rows -> Keys \cup {NoKey}] /\ NoKey \notin Keys
  /\ Limit \in [Keys -> Nat \ {0}]
  /\ {Concurrency, BatchSize, MaxClaimErrors, PanicThreshold} \subseteq Nat \ {0}

VARIABLES
  cancelled,   \* the CancellationToken `shutdown`
  asked,       \* history: the owner of the worker asked it to stop
  free,        \* permits available in the semaphore
  running,     \* concurrency_running: the per-key counter of slots in use
  poll,        \* the poll loop: where it is, what it owns
  reaper,      \* the reaper loop and its count of consecutive panics
  task,        \* the handle_job task of each row, and its place in the JoinSet
  lock,        \* who holds the mutex around the JoinSet
  errors,      \* last_fatal and last_panic_escalation: which of them are set
  stats,       \* AtomicStats: the rows each kind of counter has counted
  handle       \* the WorkerHandle: which method runs, and where it is

vars == <<cancelled, asked, free, running, poll, reaper, task, lock, errors,
          stats, handle>>

\* `settled` stands for the counter that handle_job bumps when its mark is over:
\* completed, failed, fenced_out or mark_timed_out.
Counter == {"timed_out", "settled", "aborted"}

\* `none`: not spawned; `handler`, `mark`: what handle_job awaits; `ended`: it
\* returned or was cancelled (`res`) and drops what it owns; `joined`: taken
\* out of the JoinSet.  `abort`: JoinSet::abort_all was called on it.
TaskState ==
  [st : {"none", "handler", "mark", "ended", "joined"},
   owns : SUBSET {"permit", "slot"}, abort : BOOLEAN,
   res : {"none", "returned", "cancelled"}]

\* The rows whose task is executing, and those the JoinSet still contains.
Live == {r \in Rows : task[r].st \in {"handler", "mark"}}

InSet == {r \in Rows : task[r].st \in {"handler", "mark", "ended"}}

\* A task can be joined once everything its future owned is dropped.
Joinable(r) == task[r].st = "ended" /\ task[r].owns = {}

WithKey(S, k) == {r \in S : KeyOf[r] = k}

-----------------------------------------------------------------------------
\* The poll loop.  Where it awaits it can be aborted; `lock` and `spawn` are
\* reached within the poll that received the claim's rows.

PollAt(pc) == poll.pc = pc

NoHeadroom == [k \in Keys |-> 0]

\* An iteration ends, or the loop: what they hold goes out of scope.
Emptied(pc) ==
  [poll EXCEPT !.pc = pc, !.permits = 0, !.rows = {}, !.headroom = NoHeadroom,
               !.errors = IF pc = "exit" THEN 0 ELSE @]

\* Mutant: the permits of an abandoned iteration are forgotten.
PollGoesKeepingPermits(pc) == poll' = Emptied(pc) /\ free' = free

\* Its permits return to the semaphore.
PollGoes(pc) == poll' = Emptied(pc) /\ free' = free + poll.permits

Tick ==
  /\ PollAt("tick") /\ ~poll.abort
  /\ poll' = [poll EXCEPT !.pc = "permit"]
  /\ UNCHANGED <<cancelled, asked, free, running, reaper, task, lock, errors,
                 stats, handle>>

\* Mutant: takes a whole batch of permits, available or not.
AcquireBatch ==
  /\ PollAt("permit") /\ ~poll.abort /\ free > 0
  /\ poll' = [poll EXCEPT !.pc = "snapshot", !.permits = BatchSize]
  /\ free' = free - BatchSize
  /\ UNCHANGED <<cancelled, asked, running, reaper, task, lock, errors, stats,
                 handle>>

\* acquire_owned for the first permit, then try_acquire_owned up to batch_size.
AcquirePermits ==
  /\ PollAt("permit") /\ ~poll.abort /\ free > 0
  /\ LET want == IF free < BatchSize THEN free ELSE BatchSize IN
       /\ poll' = [poll EXCEPT !.pc = "snapshot", !.permits = want]
       /\ free' = free - want
  /\ UNCHANGED <<cancelled, asked, running, reaper, task, lock, errors, stats,
                 handle>>

\* Mutant: the configured limit itself is taken for the headroom.
FullHeadroom == [k \in Keys |-> Limit[k]]

\* limit.saturating_sub(used), per configured key.
Headroom == [k \in Keys |-> IF running[k] < Limit[k] THEN Limit[k] - running[k] ELSE 0]

SnapshotHeadroom ==
  /\ PollAt("snapshot")
  /\ poll' = [poll EXCEPT !.pc = "claim", !.headroom = Headroom]
  /\ UNCHANGED <<cancelled, asked, free, running, reaper, task, lock, errors,
                 stats, handle>>

\* Mutant: the claim's LIMIT is batch_size, not the permits at hand.
ClaimableByBatch(R) ==
  /\ R \subseteq {r \in Rows : task[r].st = "none"}
  /\ Cardinality(R) <= BatchSize
  /\ \A k \in Keys : Cardinality(WithKey(R, k)) <= poll.headroom[k]

\* What claim_and_decode may return: LIMIT $2, and per configured key
\* LIMIT LEAST(h, $2); with no configured key, the plain claim.
Claimable(R) ==
  /\ R \subseteq {r \in Rows : task[r].st = "none"}
  /\ Cardinality(R) <= poll.permits
  /\ \A k \in Keys : Cardinality(WithKey(R, k)) <= poll.headroom[k]

ClaimReturns(R) ==
  /\ PollAt("claim") /\ ~poll.abort
  /\ Claimable(R)
  /\ \/ /\ R = {}
        /\ poll' = [Emptied("tick") EXCEPT !.errors = 0]
        /\ free' = free + poll.permits
     \/ /\ R # {}
        /\ poll' = [poll EXCEPT !.pc = "lock", !.rows = R, !.headroom = NoHeadroom,
                                !.errors = 0]
        /\ UNCHANGED free
  /\ UNCHANGED <<cancelled, asked, running, reaper, task, lock, errors, stats,
                 handle>>

\* A fatal error, or the last of too many others in a row, stops the worker.
ClaimFails(fatal) ==
  /\ PollAt("claim") /\ ~poll.abort
  /\ free' = free + poll.permits
  /\ LET n == poll.errors + 1
         stop == fatal \/ n >= MaxClaimErrors
     IN /\ poll' = [Emptied(IF stop THEN "exit" ELSE "tick") EXCEPT
                      !.errors = IF stop THEN 0 ELSE n]
        /\ errors' = IF stop THEN errors \cup {"Fatal"} ELSE errors
        /\ cancelled' = (cancelled \/ stop)
  /\ UNCHANGED <<asked, running, reaper, task, lock, stats, handle>>

\* Mutant: the loop notices a cancellation only when it is aborted.
PollStopsIfAborted ==
  /\ cancelled /\ poll.abort
  /\ PollAt("tick") \/ PollAt("permit") \/ PollAt("claim")
  /\ PollGoes("exit")
  /\ UNCHANGED <<cancelled, asked, running, reaper, task, lock, errors, stats,
                 handle>>

\* The shutdown arms of the three select!s.
PollStops ==
  /\ cancelled
  /\ PollAt("tick") \/ PollAt("permit") \/ PollAt("claim")
  /\ PollGoes("exit")
  /\ UNCHANGED <<cancelled, asked, running, reaper, task, lock, errors, stats,
                 handle>>

\* AbortHandle::abort takes effect at an await point.
PollAborted ==
  /\ poll.abort
  /\ poll.pc \in {"tick", "permit", "claim", "lock"}
  /\ PollGoes("exit")
  /\ UNCHANGED <<cancelled, asked, running, reaper, task, lock, errors, stats,
                 handle>>

LockTasks ==
  /\ PollAt("lock") /\ lock = "free"
  /\ lock' = "poll"
  /\ poll' = [poll EXCEPT !.pc = "spawn"]
  /\ UNCHANGED <<cancelled, asked, free, running, reaper, task, errors, stats,
                 handle>>

\* One turn of `for (row, permit) in rows.zip(permits)`: KeySlotGuard::acquire
\* for a configured key, then JoinSet::spawn.
Slotted(r) == KeyOf[r] \in Keys

SpawnTask(r) ==
  /\ PollAt("spawn") /\ r \in poll.rows /\ poll.permits > 0
  /\ running' = IF Slotted(r) THEN [running EXCEPT ![KeyOf[r]] = @ + 1] ELSE running
  /\ task' = [task EXCEPT ![r].st = "handler",
                          ![r].owns = IF Slotted(r) THEN {"permit", "slot"}
                                                    ELSE {"permit"}]
  /\ poll' = [poll EXCEPT !.rows = @ \ {r}, !.permits = @ - 1]
  /\ UNCHANGED <<cancelled, asked, free, reaper, lock, errors, stats, handle>>

\* The zip is exhausted: surplus permits, and rows without a permit, are dropped.
SpawnEnds ==
  /\ PollAt("spawn") /\ (poll.rows = {} \/ poll.permits = 0)
  /\ PollGoes("tick")
  /\ lock' = "free"
  /\ UNCHANGED <<cancelled, asked, running, reaper, task, errors, stats, handle>>

-----------------------------------------------------------------------------
\* handle_job.

\* The handler returned or panicked, or handler_timeout elapsed, which is counted
\* at once: handle_job awaits the mark.
HandlerEnds(r, elapsed) ==
  /\ task[r].st = "handler"
  /\ task' = [task EXCEPT ![r].st = "mark"]
  /\ stats' = IF elapsed THEN [stats EXCEPT !["timed_out"] = @ \cup {r}] ELSE stats
  /\ UNCHANGED <<cancelled, asked, free, running, poll, reaper, lock, errors, handle>>

\* The mark returned, or its timeout fired, and the outcome is counted (an SQL
\* error is not); handle_job returns without another await.
JobEnds(r, counters) ==
  /\ task' = [task EXCEPT ![r].st = "ended", ![r].res = "returned"]
  /\ stats' = [c \in Counter |-> IF c \in counters THEN stats[c] \cup {r} ELSE stats[c]]
  /\ UNCHANGED <<cancelled, asked, free, running, poll, reaper, lock, errors, handle>>

MarkEnds(r) ==
  /\ task[r].st = "mark"
  /\ JobEnds(r, {"settled"}) \/ JobEnds(r, {})

\* handler.call panics before it returns a future: the whole task panics.
HandlerCallPanics(r) ==
  /\ task[r].st = "handler"
  /\ JobEnds(r, {})

TaskAborted(r) ==
  /\ task[r].abort /\ r \in Live
  /\ task' = [task EXCEPT ![r].st = "ended", ![r].res = "cancelled"]
  /\ UNCHANGED <<cancelled, asked, free, running, poll, reaper, lock, errors,
                 stats, handle>>

\* Mutant: the permit of a finished task does not return to the semaphore.
ForgetPermit(r) ==
  /\ task[r].st = "ended" /\ "permit" \in task[r].owns
  /\ task' = [task EXCEPT ![r].owns = @ \ {"permit"}]
  /\ UNCHANGED <<cancelled, asked, free, running, poll, reaper, lock, errors,
                 stats, handle>>

\* Drop of OwnedSemaphorePermit.
DropPermit(r) ==
  /\ task[r].st = "ended" /\ "permit" \in task[r].owns
  /\ task' = [task EXCEPT ![r].owns = @ \ {"permit"}]
  /\ free' = free + 1
  /\ UNCHANGED <<cancelled, asked, running, poll, reaper, lock, errors, stats, handle>>

\* Mutant: the slot is released by code that an aborted task does not reach.
DropSlotOnReturn(r) ==
  /\ task[r].st = "ended" /\ "slot" \in task[r].owns
  /\ task' = [task EXCEPT ![r].owns = @ \ {"slot"}]
  /\ running' = IF task[r].res = "cancelled" THEN running
                ELSE [running EXCEPT ![KeyOf[r]] = IF @ > 0 THEN @ - 1 ELSE 0]
  /\ UNCHANGED <<cancelled, asked, free, poll, reaper, lock, errors, stats, handle>>

\* Drop of KeySlotGuard: n.saturating_sub(1).
DropSlot(r) ==
  /\ task[r].st = "ended" /\ "slot" \in task[r].owns
  /\ task' = [task EXCEPT ![r].owns = @ \ {"slot"}]
  /\ running' = [running EXCEPT ![KeyOf[r]] = IF @ > 0 THEN @ - 1 ELSE 0]
  /\ UNCHANGED <<cancelled, asked, free, poll, reaper, lock, errors, stats, handle>>

-----------------------------------------------------------------------------
\* The reaper loop.

ReaperGoes(pc, panics) ==
  /\ reaper' = [reaper EXCEPT !.pc = pc, !.panics = panics]
  /\ UNCHANGED <<asked, free, running, poll, task, lock, stats, handle>>

ReaperTick ==
  /\ reaper.pc = "tick" /\ ~reaper.abort
  /\ ReaperGoes("reap", reaper.panics)
  /\ UNCHANGED <<cancelled, errors>>

\* A full batch skips the next tick; a failed sweep waits for it.
ReapReturns(full) ==
  /\ reaper.pc = "reap" /\ ~reaper.abort
  /\ ReaperGoes(IF full THEN "reap" ELSE "tick", 0)
  /\ UNCHANGED <<cancelled, errors>>

ReapFatal ==
  /\ reaper.pc = "reap" /\ ~reaper.abort
  /\ ReaperGoes("exit", 0)
  /\ errors' = errors \cup {"Fatal"}
  /\ cancelled' = TRUE

\* Mutant: the escalation cancels the worker but is not recorded.
ReapPanicsSilently ==
  /\ reaper.pc = "reap" /\ ~reaper.abort
  /\ LET n == reaper.panics + 1
         stop == n >= PanicThreshold
     IN /\ IF stop THEN ReaperGoes("exit", 0) ELSE ReaperGoes("tick", n)
        /\ cancelled' = (cancelled \/ stop)
  /\ UNCHANGED errors

ReapPanics ==
  /\ reaper.pc = "reap" /\ ~reaper.abort
  /\ LET n == reaper.panics + 1
         stop == n >= PanicThreshold
     IN /\ IF stop THEN ReaperGoes("exit", 0) ELSE ReaperGoes("tick", n)
        /\ errors' = IF stop THEN errors \cup {"ReaperPanicEscalation"} ELSE errors
        /\ cancelled' = (cancelled \/ stop)

ReaperStops ==
  /\ cancelled \/ reaper.abort
  /\ reaper.pc \in {"tick", "reap"}
  /\ ReaperGoes("exit", 0)
  /\ UNCHANGED <<cancelled, errors>>

-----------------------------------------------------------------------------
\* WorkerHandle.  `clean`: the soft drain saw both loops exit in time.

HandleGoes(pc) == handle' = [handle EXCEPT !.pc = pc]

\* cancel(), or the parent of shutdown_token.
Cancel ==
  /\ handle.pc = "held" \/ handle.method = "join"
  /\ ~asked
  /\ cancelled' = TRUE /\ asked' = TRUE
  /\ UNCHANGED <<free, running, poll, reaper, task, lock, errors, stats, handle>>

Join ==
  /\ handle.pc = "held"
  /\ handle' = [handle EXCEPT !.method = "join", !.pc = "await"]
  /\ UNCHANGED <<cancelled, asked, free, running, poll, reaper, task, lock,
                 errors, stats>>

Shutdown ==
  /\ handle.pc = "held"
  /\ handle' = [handle EXCEPT !.method = "shutdown", !.pc = "await"]
  /\ cancelled' = TRUE /\ asked' = TRUE
  /\ UNCHANGED <<free, running, poll, reaper, task, lock, errors, stats>>

DropHandle ==
  /\ handle.pc = "held"
  /\ handle' = [handle EXCEPT !.method = "drop", !.pc = "returned"]
  /\ cancelled' = TRUE /\ asked' = TRUE
  /\ poll' = [poll EXCEPT !.abort = TRUE]
  /\ reaper' = [reaper EXCEPT !.abort = TRUE]
  /\ UNCHANGED <<free, running, task, lock, errors, stats>>

\* Mutant: only the reaper loop is awaited.
ReaperExited ==
  /\ handle.pc = "await"
  /\ reaper.pc = "exit"
  /\ handle' = [handle EXCEPT !.pc = "drain", !.clean = TRUE]
  /\ UNCHANGED <<cancelled, asked, free, running, poll, reaper, task, lock,
                 errors, stats>>

\* Both loops have exited; shutdown aborts them all the same.
LoopsExited ==
  /\ handle.pc = "await"
  /\ poll.pc = "exit" /\ reaper.pc = "exit"
  /\ handle' = [handle EXCEPT !.pc = "drain", !.clean = TRUE]
  /\ UNCHANGED <<cancelled, asked, free, running, poll, reaper, task, lock,
                 errors, stats>>

\* timeout / 2 elapsed first.
SoftDrainTimesOut ==
  /\ handle.method = "shutdown" /\ handle.pc = "await"
  /\ HandleGoes("drain")
  /\ poll' = [poll EXCEPT !.abort = TRUE]
  /\ reaper' = [reaper EXCEPT !.abort = TRUE]
  /\ UNCHANGED <<cancelled, asked, free, running, task, lock, errors, stats>>

\* drain_handlers and drain_handlers_until lock the JoinSet and join.
HandleLocks ==
  /\ handle.pc = "drain" /\ lock = "free"
  /\ lock' = "handle"
  /\ HandleGoes("draining")
  /\ UNCHANGED <<cancelled, asked, free, running, poll, reaper, task, errors, stats>>

Joined(S) == task' = [r \in Rows |-> IF r \in S THEN [task[r] EXCEPT !.st = "joined"]
                                               ELSE task[r]]

DrainJoins(r) ==
  /\ handle.pc = "draining" /\ Joinable(r)
  /\ Joined({r})
  /\ UNCHANGED <<cancelled, asked, free, running, poll, reaper, lock, errors,
                 stats, handle>>

\* Mutant: shutdown drains without a deadline.
DrainEndsEmpty ==
  /\ handle.pc = "draining"
  /\ InSet = {}
  /\ lock' = "free"
  /\ HandleGoes(IF handle.method = "join" THEN "result" ELSE "abort")
  /\ UNCHANGED <<cancelled, asked, free, running, poll, reaper, task, errors, stats>>

\* The set is empty or, in shutdown, the deadline passed.
DrainEnds ==
  /\ handle.pc = "draining"
  /\ InSet = {} \/ handle.method = "shutdown"
  /\ lock' = "free"
  /\ HandleGoes(IF handle.method = "join" THEN "result" ELSE "abort")
  /\ UNCHANGED <<cancelled, asked, free, running, poll, reaper, task, errors, stats>>

\* abort_remaining_handlers: join what is ready, abort the rest.
AbortHandlers ==
  /\ handle.pc = "abort" /\ lock = "free"
  /\ LET ready == {r \in Rows : Joinable(r)}
         rest == InSet \ ready
     IN /\ task' = [r \in Rows |->
                      IF r \in ready THEN [task[r] EXCEPT !.st = "joined"]
                      ELSE IF r \in rest THEN [task[r] EXCEPT !.abort = TRUE]
                      ELSE task[r]]
        /\ HandleGoes(IF rest = {} THEN "result" ELSE "grace")
        /\ lock' = IF rest = {} THEN "free" ELSE "handle"
  /\ UNCHANGED <<cancelled, asked, free, running, poll, reaper, errors, stats>>

\* Mutant: every task that was left when abort_all ran counts as aborted.
GraceCountsAll(r) ==
  /\ handle.pc = "grace" /\ Joinable(r)
  /\ Joined({r})
  /\ handle' = [handle EXCEPT !.aborted = @ \cup {r}]
  /\ UNCHANGED <<cancelled, asked, free, running, poll, reaper, lock, errors, stats>>

\* Only a task that was cancelled counts as aborted.
GraceJoins(r) ==
  /\ handle.pc = "grace" /\ Joinable(r)
  /\ Joined({r})
  /\ handle' = [handle EXCEPT !.aborted =
                  IF task[r].res = "cancelled" THEN @ \cup {r} ELSE @]
  /\ UNCHANGED <<cancelled, asked, free, running, poll, reaper, lock, errors, stats>>

\* The set is empty, or the grace second is over.
GraceEnds ==
  /\ handle.pc = "grace"
  /\ lock' = "free"
  /\ stats' = [stats EXCEPT !["aborted"] = @ \cup handle.aborted]
  /\ handle' = [handle EXCEPT !.pc = "result", !.aborted = {}]
  /\ UNCHANGED <<cancelled, asked, free, running, poll, reaper, task, errors>>

\* Fatal takes precedence over ReaperPanicEscalation.
Verdict == IF "Fatal" \in errors THEN "Fatal"
           ELSE IF "ReaperPanicEscalation" \in errors THEN "ReaperPanicEscalation"
           ELSE "Ok"

HandleReturns ==
  /\ handle.pc = "result"
  /\ handle' = [handle EXCEPT !.pc = "returned", !.result = Verdict]
  /\ UNCHANGED <<cancelled, asked, free, running, poll, reaper, task, lock,
                 errors, stats>>

\* The future of join or shutdown is dropped half-way.  It had taken `inner` out of the
\* handle, so Drop finds nothing to do: the loops are detached, neither told to stop nor
\* aborted by it, and the mutex is released if the future held it.
DropFuture ==
  /\ handle.pc \notin {"held", "returned", "abandoned"}
  /\ handle' = [handle EXCEPT !.pc = "abandoned", !.aborted = {}]
  /\ lock' = IF lock = "handle" THEN "free" ELSE lock
  /\ UNCHANGED <<cancelled, asked, free, running, poll, reaper, task, errors, stats>>

-----------------------------------------------------------------------------
Init ==
  /\ cancelled = FALSE /\ asked = FALSE
  /\ free = Concurrency
  /\ running = [k \in Keys |-> 0]
  /\ poll = [pc |-> "tick", permits |-> 0, headroom |-> NoHeadroom,
             rows |-> {}, errors |-> 0, abort |-> FALSE]
  /\ reaper = [pc |-> "tick", panics |-> 0, abort |-> FALSE]
  /\ task = [r \in Rows |-> [st |-> "none", owns |-> {}, abort |-> FALSE,
                             res |-> "none"]]
  /\ lock = "free"
  /\ errors = {}
  /\ stats = [c \in Counter |-> {}]
  /\ handle = [method |-> "none", pc |-> "held", clean |-> FALSE,
               aborted |-> {}, result |-> "none"]

PollLoop ==
  \/ Tick \/ AcquirePermits \/ SnapshotHeadroom
  \/ \E R \in SUBSET Rows : ClaimReturns(R)
  \/ \E fatal \in BOOLEAN : ClaimFails(fatal)
  \/ PollStops \/ PollAborted
  \/ LockTasks \/ SpawnEnds \/ \E r \in Rows : SpawnTask(r)

HandleJob(r) ==
  \/ \E elapsed \in BOOLEAN : HandlerEnds(r, elapsed)
  \/ MarkEnds(r) \/ HandlerCallPanics(r) \/ TaskAborted(r)

Drops(r) == DropPermit(r) \/ DropSlot(r)

ReaperLoop ==
  \/ ReaperTick \/ ReapFatal \/ ReapPanics \/ ReaperStops
  \/ \E full \in BOOLEAN : ReapReturns(full)

\* A method of the handle that is under way.
HandleWaits ==
  \/ LoopsExited \/ SoftDrainTimesOut \/ HandleLocks \/ DrainEnds
  \/ AbortHandlers \/ GraceEnds \/ HandleReturns
  \/ \E r \in Rows : DrainJoins(r) \/ GraceJoins(r)

\* Everything has come to rest.
Stopped ==
  /\ handle.pc \in {"returned", "abandoned"} /\ poll.pc = "exit" /\ reaper.pc = "exit"
  /\ \A r \in Rows : r \notin Live /\ task[r].owns = {}
  /\ UNCHANGED vars

Next ==
  \/ PollLoop \/ ReaperLoop \/ HandleWaits
  \/ \E r \in Rows : HandleJob(r) \/ Drops(r)
  \/ Cancel \/ Join \/ Shutdown \/ DropHandle \/ DropFuture
  \/ Stopped

Spec == Init /\ [][Next]_vars

-----------------------------------------------------------------------------
\* Fairness.  Each loop runs when it can; select! chooses at random between arms
\* that are ready, so a cancelled loop does not ignore its shutdown arm for
\* ever; timers fire; a task that is aborted or has returned is dropped.
LoopFairness ==
  /\ WF_vars(PollLoop) /\ SF_vars(PollStops)
  /\ WF_vars(ReaperLoop) /\ SF_vars(ReaperStops)
  /\ WF_vars(HandleWaits)
  /\ \A r \in Rows : WF_vars(Drops(r)) /\ WF_vars(TaskAborted(r))

\* A handler ends by itself or by handler_timeout, a mark by mark_timeout: an assumption
\* of the properties that need it, since a handler that blocks its thread meets neither.
JobFairness == \A r \in Rows : WF_vars(HandleJob(r))

FairSpec == Spec /\ LoopFairness

-----------------------------------------------------------------------------
\* Properties.

TypeOK ==
  /\ cancelled \in BOOLEAN /\ asked \in BOOLEAN
  /\ free \in Nat
  /\ running \in [Keys -> Nat]
  /\ poll \in [pc : {"tick", "permit", "snapshot", "claim", "lock", "spawn", "exit"},
               permits : Nat, headroom : [Keys -> Nat], rows : SUBSET Rows,
               errors : Nat, abort : BOOLEAN]
  /\ reaper \in [pc : {"tick", "reap", "exit"}, panics : Nat, abort : BOOLEAN]
  /\ task \in [Rows -> TaskState]
  /\ lock \in {"free", "poll", "handle"}
  /\ errors \subseteq {"Fatal", "ReaperPanicEscalation"}
  /\ stats \in [Counter -> SUBSET Rows]
  /\ handle \in [method : {"none", "join", "shutdown", "drop"},
                 pc : {"held", "await", "drain", "draining", "abort", "grace",
                       "result", "returned", "abandoned"},
                 clean : BOOLEAN, aborted : SUBSET Rows,
                 result : {"none", "Ok", "Fatal", "ReaperPanicEscalation"}]

\* For a configured key at most `limit` handler tasks execute at once, although
\* the headroom the claim was given is a snapshot taken before the claim, and
\* slots are taken only when its rows are spawned.
KeyLimit == \A k \in Keys : Cardinality(WithKey(Live, k)) <= Limit[k]

\* The in-memory counter is exact on every path (return, panic of the task,
\* abort): it counts the tasks that own a slot, no slot is lost or released
\* twice, and its saturating subtraction never saturates.
SlotsExact ==
  \A k \in Keys :
    running[k] = Cardinality({r \in WithKey(Rows, k) : "slot" \in task[r].owns})

\* No permit is lost or made up: free ones, those of the poll loop and those of
\* the tasks are always `concurrency` in all.
PermitsExact ==
  free + poll.permits + Cardinality({r \in Rows : "permit" \in task[r].owns})
    = Concurrency

\* poll_loop's "CRITICAL invariant": every row of a batch pairs with a permit, so
\* the zip drops no row it claimed.
RowsHavePermits == Cardinality(poll.rows) <= poll.permits

\* How shutdown's Stats count a job: a task that finishes while abort_all runs is
\* counted by its outcome and not as aborted too; timed_out is counted when
\* handler_timeout elapses, before the mark, so what is counted there has left its
\* handler and may be counted once more, as settled or, if its mark is aborted, as
\* aborted; no task is counted under an outcome before it has ended.
CountedOnce ==
  /\ stats["settled"] \cap stats["aborted"] = {}
  /\ \A r \in stats["timed_out"] : task[r].st \notin {"none", "handler"}
  /\ \A r \in stats["settled"] \cup stats["aborted"] : task[r].st \in {"ended", "joined"}

\* When join returns, every handler has ended and its task was joined; when
\* shutdown returns after both loops left in time, no handler runs that was not
\* told to abort, and none will be started.
DrainIsComplete ==
  handle.pc = "returned" /\ handle.clean =>
    /\ poll.pc = "exit"
    /\ \A r \in Live : task[r].abort
    /\ handle.method = "join" => InSet = {}

\* A worker that stopped by itself says so: join returns Ok only if its owner
\* asked for the stop, and whatever error stopped a loop is what is returned.
ErrorsSurface ==
  /\ cancelled => asked \/ errors # {}
  /\ handle.pc = "returned" /\ handle.clean => handle.result = Verdict

\* What the guarantees above rest on.  A task owns its permit, and its slot if its key is
\* limited, from the spawn until its future is dropped, and its result is unknown until it
\* ends; only what returned is settled, only what was cancelled is aborted.
OwnedAtSpawn(r) == IF Slotted(r) THEN {"permit", "slot"} ELSE {"permit"}

TaskInv(r) ==
  LET t == task[r] IN
  /\ t.st \in {"none", "joined"} => t.owns = {}
  /\ t.st \in {"handler", "mark"} => t.owns = OwnedAtSpawn(r)
  /\ "slot" \in t.owns => Slotted(r)
  /\ t.st \in {"none", "handler", "mark"} => t.res = "none"
  /\ r \in stats["timed_out"] => t.st \notin {"none", "handler"}
  /\ r \in stats["settled"] => t.res = "returned"
  /\ r \in stats["aborted"] \cup handle.aborted => t.res = "cancelled"

\* The slots in use and those the claimed rows will take fit the limits together, and so
\* do, while the claim runs, the slots in use and the headroom it was given.
PollInv ==
  /\ \A r \in poll.rows : task[r].st = "none"
  /\ poll.rows # {} => poll.pc \in {"lock", "spawn"}
  /\ poll.permits > 0 => poll.pc \in {"snapshot", "claim", "lock", "spawn"}
  /\ \A k \in Keys : running[k] + Cardinality(WithKey(poll.rows, k)) <= Limit[k]
  /\ poll.pc = "claim" => \A k \in Keys : running[k] + poll.headroom[k] <= Limit[k]
  /\ poll.pc = "spawn" <=> lock = "poll"

\* How far a method of the handle has come says what it has already seen to.
HandleInv ==
  /\ handle.pc \in {"draining", "grace"} <=> lock = "handle"
  /\ handle.method = "none" <=> handle.pc = "held"
  /\ handle.method = "drop" => handle.pc = "returned" /\ ~handle.clean
  /\ handle.pc \in {"held", "await"} => ~handle.clean
  /\ handle.clean => poll.pc = "exit" /\ reaper.pc = "exit"
  /\ handle.method = "join" =>
       /\ handle.pc \in {"await", "drain", "draining", "result", "returned", "abandoned"}
       /\ handle.pc \in {"drain", "draining", "result", "returned"} => handle.clean
       /\ handle.pc \in {"result", "returned"} => InSet = {}
  /\ handle.method = "shutdown" /\ handle.clean
       /\ handle.pc \in {"grace", "result", "returned"} => \A r \in Live : task[r].abort

IInv ==
  /\ TypeOK
  /\ \A r \in Rows : TaskInv(r)
  /\ PollInv /\ HandleInv
  /\ PermitsExact /\ SlotsExact /\ RowsHavePermits /\ ErrorsSurface

\* If handlers and marks end, by themselves or by their timeouts, join returns once the
\* worker is cancelled, unless its future is dropped.
JoinReturns ==
  JobFairness =>
    ((handle.method = "join" /\ cancelled) ~> handle.pc \in {"returned", "abandoned"})

\* shutdown returns even if no handler ever does, unless its future is dropped.
ShutdownReturns == (handle.method = "shutdown") ~> handle.pc \in {"returned", "abandoned"}

\* A cancelled worker comes to rest whatever becomes of its handle and of its handlers:
\* both loops leave although the future that awaited them, and held the mutex one of them
\* needs, was dropped half-way.
LoopsStop == cancelled ~> (poll.pc = "exit" /\ reaper.pc = "exit")

\* If handlers and marks end, a poll loop out of permits gets one again, or stops.
PermitsComeBack == JobFairness => ((poll.pc = "permit") ~> (poll.pc # "permit"))

=============================================================================
