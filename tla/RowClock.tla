------------------------------ MODULE RowClock ------------------------------
(***************************************************************************)
(* The timestamps of one row of pgwq.jobs.  now() is the instant at which  *)
(* a statement's transaction began, while its WHERE clause is evaluated,   *)
(* and its update made, on the row it finds later, when it gets a          *)
(* connection's attention, the CPU and the locks.  So a statement may      *)
(* write an older time over the work of a younger one.  The CHECK          *)
(* jobs_temporal rejects the rows such an overlap could produce; a         *)
(* rejected claim or sweep has SQLSTATE class 23, which stops the worker.  *)
(*                                                                         *)
(* The server's clock never goes back.  A row's lease token is its attempt *)
(* number: each claim draws a fresh one.                                   *)
(***************************************************************************)
EXTENDS Integers, FiniteSets

CONSTANTS
  Lease,        \* lease_timeout
  RetryDelay,   \* what mark_retry adds to now()
  MaxAttempts,
  Schedules,    \* run_at of a push, relative to the transaction's now()
  StmtMax,      \* the most time from a statement's now() to its effect
  MaxStmts,     \* statements in flight at once
  Horizon       \* the last instant

ASSUME ClockAssumption ==
  /\ Lease \in Nat \ {0} /\ RetryDelay \in Nat \ {0} /\ MaxAttempts \in Nat \ {0}
  /\ Schedules \subseteq Int /\ StmtMax \in Nat /\ MaxStmts \in Nat /\ Horizon \in Nat

VARIABLES
  clock,    \* the server's
  row,      \* the row of pgwq.jobs
  stmts,    \* the statements in flight
  held,     \* the tokens whose claim was answered and whose mark was not sent
  raised    \* the kinds of statement a CHECK has rejected

vars == <<clock, row, stmts, held, raised>>

NULL == -1

NoRow == [status |-> "none", attempts |-> 0, created_at |-> NULL, updated_at |-> NULL,
          run_at |-> NULL, first_attempted_at |-> NULL, last_attempted_at |-> NULL,
          finished_at |-> NULL, lease_token |-> NULL, lease_expires_at |-> NULL]

Init ==
  /\ clock = 0 /\ row = NoRow
  /\ stmts = {} /\ held = {} /\ raised = {}

Coalesce(x, y) == IF x = NULL THEN y ELSE x
AtLeast(x, y) == x = NULL \/ x >= y

\* CHECK jobs_temporal.
Temporal(r) ==
  /\ AtLeast(r.first_attempted_at, r.created_at)
  /\ AtLeast(r.last_attempted_at, Coalesce(r.first_attempted_at, r.created_at))
  /\ AtLeast(r.finished_at, Coalesce(r.last_attempted_at, r.created_at))
  /\ r.updated_at >= r.created_at
  /\ r.run_at >= r.created_at

\* CHECK jobs_status_invariants.
StatusInvariants(r) ==
  /\ (r.status = "running") <=> (r.lease_token # NULL)
  /\ (r.status = "running") <=> (r.lease_expires_at # NULL)
  /\ (r.status \in {"done", "dead"}) <=> (r.finished_at # NULL)
  /\ r.status = "queued" => /\ r.attempts = 0
                            /\ r.first_attempted_at = NULL /\ r.last_attempted_at = NULL
  /\ r.status \in {"running", "awaiting_retry"} =>
       r.attempts > 0 /\ r.first_attempted_at # NULL /\ r.last_attempted_at # NULL

-----------------------------------------------------------------------------

\* The WHERE clauses, on the row as the statement finds it.
Holds(r, s) == r.status = "running" /\ r.lease_token = s.token

\* Mutant: the lease is not looked at.
AnyRunning(r, s) == r.status = "running"

Stale(r, s) == r.status = "running" /\ r.lease_expires_at < s.now

\* Mutant: the due time is not looked at.
ReadyAnyTime(r, s) == r.status \in {"queued", "awaiting_retry"}

Ready(r, s) == r.status \in {"queued", "awaiting_retry"} /\ r.run_at <= s.now

Finds(r, s) ==
  CASE s.kind = "push"  -> r.status = "none"
    [] s.kind = "claim" -> Ready(r, s)
    [] s.kind = "reap"  -> Stale(r, s)
    [] OTHER            -> Holds(r, s)

Inserted(s) ==
  [NoRow EXCEPT !.status = "queued", !.created_at = s.now, !.updated_at = s.now,
                !.run_at = s.now + s.delay]

Claimed(r, s) ==
  [r EXCEPT !.status = "running", !.attempts = @ + 1,
            !.last_attempted_at = s.now,
            !.first_attempted_at = Coalesce(@, s.now),
            !.lease_token = r.attempts + 1,
            !.lease_expires_at = s.now + Lease]

Unleased(r) == [r EXCEPT !.lease_token = NULL, !.lease_expires_at = NULL]

Finished(r, s, status) ==
  [Unleased(r) EXCEPT !.status = status, !.finished_at = s.now]

\* mark_retry moves run_at; the reaper's sweep leaves it.
Retried(r, s) == [Unleased(r) EXCEPT !.status = "awaiting_retry", !.run_at = s.now + s.delay]
Reaped(r, s) ==
  IF r.attempts >= MaxAttempts
  THEN Finished(r, s, "dead")
  ELSE [Unleased(r) EXCEPT !.status = "awaiting_retry"]

\* set_updated_at.
Touched(r, s) == [r EXCEPT !.updated_at = s.now]

Written(r, s) ==
  CASE s.kind = "push"  -> Inserted(s)
    [] s.kind = "claim" -> Touched(Claimed(r, s), s)
    [] s.kind = "reap"  -> Touched(Reaped(r, s), s)
    [] s.kind = "retry" -> Touched(Retried(r, s), s)
    [] OTHER            -> Touched(Finished(r, s, s.kind), s)

-----------------------------------------------------------------------------

Send(kind, token, delay) ==
  /\ Cardinality(stmts) < MaxStmts
  /\ stmts' = stmts \cup {[kind |-> kind, now |-> clock, token |-> token, delay |-> delay]}
  /\ UNCHANGED <<clock, row, raised>>

\* The caller's transaction begins; it inserts the row, with a default or an explicit run_at.
SendPush ==
  /\ row = NoRow /\ \A s \in stmts : s.kind # "push"
  /\ \E d \in Schedules : Send("push", NULL, d)
  /\ UNCHANGED held

SendClaim == Send("claim", NULL, 0) /\ UNCHANGED held
SendReap == Send("reap", NULL, 0) /\ UNCHANGED held

\* A worker that was given the row settles it once: mark_done, mark_dead or mark_retry.
SendMark(token) ==
  /\ \/ \E kind \in {"done", "dead"} : Send(kind, token, 0)
     \/ Send("retry", token, RetryDelay)
  /\ held' = held \ {token}

\* A worker that was given the row is gone.
Forget(token) ==
  /\ held' = held \ {token}
  /\ UNCHANGED <<clock, row, stmts, raised>>

\* A statement takes effect: on no row, on the row, or it is rejected.
Execute(s) ==
  LET new == Written(row, s)
      valid == Temporal(new) /\ StatusInvariants(new)
  IN  /\ stmts' = stmts \ {s}
      /\ \/ ~Finds(row, s) /\ UNCHANGED <<row, held, raised>>
         \/ /\ Finds(row, s) /\ valid
            /\ row' = new
            /\ held' = IF s.kind = "claim" THEN held \cup {new.lease_token} ELSE held
            /\ UNCHANGED raised
         \/ /\ Finds(row, s) /\ ~valid
            /\ raised' = raised \cup {s.kind}
            /\ UNCHANGED <<row, held>>
      /\ UNCHANGED clock

\* Time passes, for no statement more than StmtMax.
Tick ==
  /\ clock < Horizon
  /\ \A s \in stmts : clock < s.now + StmtMax
  /\ clock' = clock + 1
  /\ UNCHANGED <<row, stmts, held, raised>>

Next ==
  \/ SendPush \/ SendClaim \/ SendReap
  \/ \E token \in held : SendMark(token) \/ Forget(token)
  \/ \E s \in stmts : Execute(s)
  \/ Tick

Spec == Init /\ [][Next]_vars

-----------------------------------------------------------------------------

\* Only a push into the past is ever rejected.  A claim, a sweep or a mark is made on a
\* row whose times are not later than its own now(), whatever statements overlap it, so
\* the CHECK that would stop a worker is never met.  It takes a StmtMax of at most Lease + 1.
OnlyPushIsRejected == raised \subseteq {"push"}

\* Attempts follow one another: the start recorded for a claim is later than the start
\* of the one before it, whatever statements overlap.  It takes a StmtMax of at most Lease.
AttemptsAdvance ==
  [][row'.attempts > row.attempts /\ row.attempts > 0
       => row'.last_attempted_at > row.last_attempted_at]_vars

-----------------------------------------------------------------------------
\* What they rest on.

Kinds == {"push", "claim", "reap", "done", "dead", "retry"}
Time == Nat \cup {NULL}

Row == [status : {"queued", "running", "awaiting_retry", "done", "dead"}, attempts : Nat,
        created_at : Nat, updated_at : Nat, run_at : Nat, first_attempted_at : Time,
        last_attempted_at : Time, finished_at : Time, lease_token : Nat \cup {NULL},
        lease_expires_at : Time]

Stmt == [kind : Kinds, now : Nat, token : Nat \cup {NULL}, delay : Int]

\* A row satisfies its CHECKs.  A lease is the last attempt's, and runs from its start.  A
\* row that waits for another attempt became due after the start of the last one, or that
\* attempt's lease has run out.
RowInv(r) ==
  /\ r \in Row
  /\ Temporal(r) /\ StatusInvariants(r)
  /\ r.last_attempted_at <= clock
  /\ r.status = "running" => /\ r.lease_token = r.attempts
                             /\ r.lease_expires_at = r.last_attempted_at + Lease
  /\ r.status = "awaiting_retry" => \/ r.run_at > r.last_attempted_at
                                    \/ clock > r.last_attempted_at + Lease

\* A statement is as old as StmtMax at most.  A mark that still holds its row began after
\* the attempt it settles.
StmtInv(s) ==
  /\ s \in Stmt
  /\ s.now <= clock /\ clock <= s.now + StmtMax
  /\ s.kind \in {"done", "dead", "retry"} => /\ s.token \in 1..row.attempts
                                             /\ Holds(row, s) => s.now >= row.last_attempted_at
  /\ s.kind = "retry" => s.delay = RetryDelay

IInv ==
  /\ clock \in Nat
  /\ row = NoRow \/ RowInv(row)
  /\ \A s \in stmts : StmtInv(s)
  /\ held \subseteq 1..row.attempts
  /\ OnlyPushIsRejected
=============================================================================
