-------------------------- MODULE WorkQueueProofs --------------------------
(***************************************************************************)
(* Proofs about WorkQueue, for any number of jobs and workers and any      *)
(* configuration of max_attempts, panic policies and codecs.               *)
(***************************************************************************)
EXTENDS WorkQueue, TLAPS

\* The statements keep a row a row, and each changes only the columns it sets.
LEMMA InsertedRow ==
  ASSUME NEW d \in BOOLEAN
  PROVE  /\ Inserted(d) \in Row
         /\ Inserted(d).status = "queued" /\ Inserted(d).attempts = 0
         /\ Inserted(d).max_attempts = 0
         /\ Inserted(d).lease_token = NoToken /\ Inserted(d).expired = FALSE
         /\ ~Inserted(d).attempted /\ ~Inserted(d).finished
BY DEF Inserted, AbsentRow, Row, Status, NoToken

\* The claim of claim_batch_raw, as seen by the next reader of the row.
Taken(r, n, k, c) ==
  /\ c \in Row
  /\ c.status = "running" /\ c.attempts = r.attempts + 1
  /\ c.max_attempts = n /\ c.lease_token = k
  /\ c.attempted = TRUE /\ c.finished = r.finished

\* What CLAIM_SQL leaves in a row it took.
LEMMA ClaimedRow ==
  ASSUME NEW r \in Row, NEW n \in Nat, NEW k \in Nat
  PROVE  Taken(r, n, k, Claimed(r, n, k))
<1> DEFINE a == r.attempts + 1
<1>1. a \in Nat
  BY DEF Row
<1> HIDE DEF a
<1> DEFINE c == [r EXCEPT !.status = "running", !.attempts = a,
                          !.max_attempts = n, !.attempted = TRUE,
                          !.lease_token = k, !.expired = FALSE]
<1>2. c \in Row
  BY <1>1 DEF Row, Status
<1>3. /\ c.status = "running" /\ c.attempts = a /\ c.max_attempts = n
      /\ c.lease_token = k /\ c.attempted = TRUE /\ c.finished = r.finished
  BY <1>1 DEF Row, Status
<1>4. Claimed(r, n, k) = c
  BY DEF Claimed, a
<1> QED
  BY <1>2, <1>3, <1>4 DEF a, Taken

\* A mark statement of mark.rs settles the attempt and releases the lease.
Settled(r, op, c) ==
  /\ c \in Row
  /\ c.attempts = r.attempts /\ c.max_attempts = r.max_attempts
  /\ c.lease_token = NoToken /\ c.expired = FALSE /\ c.attempted = r.attempted
  /\ \/ op = "done" /\ c.status = "done" /\ c.finished = TRUE
     \/ op = "retry" /\ c.status = "awaiting_retry" /\ c.finished = r.finished
     \/ op = "dead" /\ c.status = "dead" /\ c.finished = TRUE

\* What a mark or the reaper's UPDATE leaves in a row it matched.
LEMMA MarkedRow ==
  ASSUME NEW r \in Row, NEW op \in Op, NEW d \in BOOLEAN
  PROVE  Settled(r, op, Marked(r, op, d))
<1>1. CASE op = "done"
  BY <1>1 DEF Settled, Marked, mark_done, Released, Row, Status, NoToken
<1>2. CASE op = "retry"
  BY <1>2 DEF Settled, Marked, mark_retry, Released, Row, Status, NoToken
<1>3. CASE op = "dead"
  BY <1>3 DEF Settled, Marked, mark_dead, Released, Row, Status, NoToken
<1> QED
  BY <1>1, <1>2, <1>3 DEF Op

\* The reaper's UPDATE settles the attempt by the row's own columns.
LEMMA ReapedRow ==
  ASSUME NEW r \in Row
  PROVE  /\ Reaped(r) \in Row
         /\ Reaped(r).attempts = r.attempts
         /\ Reaped(r).max_attempts = r.max_attempts
         /\ Reaped(r).lease_token = NoToken /\ Reaped(r).expired = FALSE
         /\ Reaped(r).attempted = r.attempted
         /\ \/ /\ r.attempts >= r.max_attempts
               /\ Reaped(r).status = "dead" /\ Reaped(r).finished = TRUE
            \/ /\ r.attempts < r.max_attempts
               /\ Reaped(r).status = "awaiting_retry"
               /\ Reaped(r).finished = r.finished
<1>1. CASE r.attempts >= r.max_attempts
  BY <1>1 DEF Reaped, mark_dead, Released, Row, Status, NoToken
<1>2. CASE ~(r.attempts >= r.max_attempts)
  <2> DEFINE c == [Released(r) EXCEPT !.status = "awaiting_retry"]
  <2>1. /\ c \in Row /\ c.status = "awaiting_retry"
        /\ c.attempts = r.attempts /\ c.max_attempts = r.max_attempts
        /\ c.lease_token = NoToken /\ c.expired = FALSE
        /\ c.attempted = r.attempted /\ c.finished = r.finished
    BY DEF Released, Row, Status, NoToken
  <2>2. Reaped(r) = c /\ r.attempts < r.max_attempts
    BY <1>2 DEF Reaped, Row
  <2> QED
    BY <2>1, <2>2
<1> QED
  BY <1>1, <1>2

\* DELETE of purge_terminal.
LEMMA PurgedRow ==
  ASSUME NEW r \in Row
  PROVE  /\ Purged(r) \in Row
         /\ Purged(r).status = "purged"
         /\ Purged(r).attempts = r.attempts
         /\ Purged(r).max_attempts = r.max_attempts
         /\ Purged(r).lease_token = r.lease_token
BY DEF Purged, Row, Status

-----------------------------------------------------------------------------
\* A step keeps the holders of the leases issued so far on job j: the row grows
\* only newer, and no token that was issued before opens it unless it already
\* did and the row still counts the same attempt.
Keeps(j) ==
  /\ issued'[j] >= issued[j]
  /\ jobs'[j].attempts >= jobs[j].attempts
  /\ \A k \in 1..issued[j] :
       Holds(jobs'[j], k) =>
         /\ Holds(jobs[j], k)
         /\ jobs'[j].attempts = jobs[j].attempts
         /\ jobs'[j].max_attempts = jobs[j].max_attempts

\* Such a step leaves what every task believes as right as it was: what a stale
\* holder believes can no longer matter, what the current one does is still true.
LEMMA TaskKept ==
  ASSUME TypeOK, TypeOK', \A j \in Jobs : Keeps(j), succeeded \subseteq succeeded',
         NEW t \in Task, TaskInv(t)
  PROVE  TaskInv(t)'
<1>1. t.job \in Jobs /\ Keeps(t.job)
  BY DEF Task
<1>2. /\ t.token \in 1..issued[t.job] /\ t.token \in 1..issued'[t.job]
      /\ t.attempts \in 1..jobs'[t.job].attempts
  BY <1>1 DEF TaskInv, Keeps, Task, TypeOK, Row
<1>3. Holds(jobs'[t.job], t.token) => /\ Holds(jobs[t.job], t.token)
                                      /\ jobs'[t.job].attempts = jobs[t.job].attempts
                                      /\ jobs'[t.job].max_attempts = jobs[t.job].max_attempts
  BY <1>1, <1>2 DEF Keeps
<1> QED
  BY <1>2, <1>3 DEF TaskInv

\* The same of a statement in flight.
LEMMA StmtKept ==
  ASSUME TypeOK, TypeOK', \A j \in Jobs : Keeps(j), succeeded \subseteq succeeded',
         NEW m \in Stmt, StmtInv(m)
  PROVE  StmtInv(m)'
<1>1. m.job \in Jobs /\ Keeps(m.job)
  BY DEF Stmt
<1>2. m.token \in 1..issued[m.job] /\ m.token \in 1..issued'[m.job]
  BY <1>1 DEF StmtInv, Keeps, Stmt, TypeOK
<1>3. Holds(jobs'[m.job], m.token) => /\ Holds(jobs[m.job], m.token)
                                      /\ jobs'[m.job].attempts = jobs[m.job].attempts
                                      /\ jobs'[m.job].max_attempts = jobs[m.job].max_attempts
  BY <1>1, <1>2 DEF Keeps
<1> QED
  BY <1>2, <1>3 DEF StmtInv

\* The statement a task has to run is right as long as its token is current.
LEMMA StmtOfTask ==
  ASSUME IInv, NEW t \in tasks, t.pc = "mark" \/ Undecodable(t)
  PROVE  StmtOf(t) \in Stmt /\ StmtInv(StmtOf(t))
<1>1. t \in Task /\ TaskInv(t)
  BY DEF IInv, TypeOK
<1>2. CASE t.pc = "mark"
  <2>1. StmtOf(t) = [job |-> t.job, token |-> t.token, op |-> t.op]
    BY <1>2 DEF StmtOf
  <2>2. t.op \in Op
    BY <1>1, <1>2 DEF TaskInv, Task
  <2> QED
    BY <1>1, <2>1, <2>2 DEF Stmt, StmtInv, TaskInv, Task
<1>3. CASE t.pc # "mark"
  <2>1. StmtOf(t) = [job |-> t.job, token |-> t.token, op |-> "dead"]
    BY <1>3 DEF StmtOf
  <2> QED
    BY <1>1, <2>1 DEF Stmt, StmtInv, TaskInv, Task, Op
<1> QED
  BY <1>2, <1>3

\* A step that changes the table row by row, ends tasks and leaves behind at
\* most the statements of the tasks it ended preserves IInv.
LEMMA EndStep ==
  ASSUME IInv, UNCHANGED <<issued, invoked, succeeded>>,
         jobs' \in [Jobs -> Row],
         \A j \in Jobs : RowInv(j)' /\ StatusInv(j)' /\ Keeps(j),
         tasks' \subseteq tasks,
         \A m \in late' : \/ m \in late
                          \/ \E t \in tasks \ tasks' :
                               /\ t.pc = "mark" \/ Undecodable(t)
                               /\ m = StmtOf(t)
  PROVE  IInv'
<1>0. TypeOK
  BY DEF IInv
<1>1. \A m \in late' : m \in Stmt /\ StmtInv(m)
  BY StmtOfTask DEF IInv, TypeOK
<1>2. TypeOK'
  BY <1>1 DEF IInv, TypeOK
<1>3. \A t \in tasks' : TaskInv(t)'
  <2>1. \A t \in tasks' : t \in Task /\ TaskInv(t)
    BY DEF IInv, TypeOK
  <2> QED
    BY <1>0, <1>2, <2>1, TaskKept
<1>4. \A m \in late' : StmtInv(m)'
  BY <1>0, <1>1, <1>2, StmtKept
<1>5. SoleHolder'
  <2>1. \A t \in tasks : StmtOf(t).job = t.job /\ StmtOf(t).token = t.token
    BY DEF StmtOf
  <2>2. \A t, u \in tasks' : SameLease(t, u) => t = u
    BY DEF IInv, SoleHolder
  <2>3. ASSUME NEW m \in late', NEW n \in late', SameLease(m, n)
        PROVE  m = n
    BY <2>1, <2>3 DEF IInv, SoleHolder, SameLease
  <2>4. ASSUME NEW t \in tasks', NEW m \in late'
        PROVE  ~SameLease(t, m)
    BY <2>1 DEF IInv, SoleHolder, SameLease
  <2> QED
    BY <2>2, <2>3, <2>4 DEF SoleHolder, SameLease
<1> QED
  BY <1>2, <1>3, <1>4, <1>5 DEF IInv, StatusInvariants

\* A step of the table alone preserves IInv if it does so row by row.
LEMMA TableStep ==
  ASSUME IInv, UNCHANGED <<issued, tasks, late, invoked, succeeded>>,
         jobs' \in [Jobs -> Row],
         \A j \in Jobs : RowInv(j)' /\ StatusInv(j)' /\ Keeps(j)
  PROVE  IInv'
BY EndStep

-----------------------------------------------------------------------------
\* The pusher's INSERTs preserve IInv.
LEMMA PushStep ==
  ASSUME IInv, NEW S \in SUBSET Jobs, NEW d \in BOOLEAN, Push(S, d)
  PROVE  IInv'
<1>1. jobs' \in [Jobs -> Row]
  BY InsertedRow DEF Push, IInv, TypeOK
<1>2. ASSUME NEW j \in Jobs
      PROVE  RowInv(j)' /\ StatusInv(j)' /\ Keeps(j)
  <2>0. RowInv(j) /\ StatusInv(j) /\ jobs[j] \in Row /\ issued[j] \in Nat
    BY DEF IInv, TypeOK, StatusInvariants
  <2>1. CASE j \in S
    <3>1. jobs'[j] = Inserted(d) /\ jobs[j].status = "absent" /\ issued' = issued
      BY <2>1 DEF Push
    <3>2. /\ jobs'[j].status = "queued" /\ jobs'[j].attempts = 0 /\ jobs'[j].max_attempts = 0
          /\ jobs'[j].lease_token = 0
      BY <3>1, InsertedRow DEF NoToken
    <3>3. RowInv(j)'
      BY <2>0, <3>1, <3>2 DEF RowInv
    <3>4. Keeps(j)
      BY <2>0, <3>1, <3>2 DEF RowInv, Keeps, Holds
    <3>5. StatusInv(j)'
      BY <3>1, InsertedRow DEF StatusInv
    <3> QED
      BY <3>3, <3>4, <3>5
  <2>2. CASE j \notin S
    BY <2>0, <2>2 DEF Push, RowInv, StatusInv, Keeps, Row
  <2> QED
    BY <2>1, <2>2
<1> QED
  BY <1>1, <1>2, TableStep DEF Push

\* The clock preserves IInv.
LEMMA ClockStep ==
  ASSUME IInv, NEW j \in Jobs, BecomeDue(j) \/ LeaseExpire(j)
  PROVE  IInv'
<1>0. jobs[j] \in Row /\ jobs \in [Jobs -> Row]
  BY DEF IInv, TypeOK
<1>1. jobs' \in [Jobs -> Row]
  <2>1. CASE BecomeDue(j)
    <3>1. [jobs[j] EXCEPT !.due = TRUE] \in Row
      BY <1>0 DEF Row
    <3> QED
      BY <1>0, <2>1, <3>1 DEF BecomeDue
  <2>2. CASE LeaseExpire(j)
    <3>1. [jobs[j] EXCEPT !.expired = TRUE] \in Row
      BY <1>0 DEF Row
    <3> QED
      BY <1>0, <2>2, <3>1 DEF LeaseExpire
  <2> QED
    BY <2>1, <2>2
<1>2. ASSUME NEW i \in Jobs
      PROVE  RowInv(i)' /\ StatusInv(i)' /\ Keeps(i)
  <2>0. RowInv(i) /\ StatusInv(i) /\ jobs[i] \in Row /\ issued[i] \in Nat
    BY DEF IInv, TypeOK, StatusInvariants
  <2>1. /\ jobs'[i].status = jobs[i].status
        /\ jobs'[i].attempts = jobs[i].attempts
        /\ jobs'[i].max_attempts = jobs[i].max_attempts
        /\ jobs'[i].lease_token = jobs[i].lease_token
        /\ jobs'[i].attempted = jobs[i].attempted
        /\ jobs'[i].finished = jobs[i].finished
        /\ jobs'[i].expired = jobs[i].expired \/ jobs[i].status = "running"
        /\ issued' = issued /\ succeeded' = succeeded
    BY <2>0 DEF BecomeDue, LeaseExpire, IInv, TypeOK, Row
  <2> QED
    BY <2>0, <2>1 DEF RowInv, StatusInv, Keeps, Holds, Row
<1> QED
  BY <1>1, <1>2, TableStep DEF BecomeDue, LeaseExpire

\* A chunk of purge_terminal preserves IInv.
LEMMA PurgeStep ==
  ASSUME IInv, NEW S \in SUBSET Jobs, Purge(S)
  PROVE  IInv'
<1>1. jobs' \in [Jobs -> Row]
  BY PurgedRow DEF Purge, IInv, TypeOK
<1>2. ASSUME NEW j \in Jobs
      PROVE  RowInv(j)' /\ StatusInv(j)' /\ Keeps(j)
  <2>0. RowInv(j) /\ StatusInv(j) /\ jobs[j] \in Row /\ issued[j] \in Nat
    BY DEF IInv, TypeOK, StatusInvariants
  <2>1. CASE j \in S
    <3>1. /\ jobs'[j] = Purged(jobs[j]) /\ jobs[j].status \in {"done", "dead"}
          /\ issued' = issued
      BY <2>1 DEF Purge
    <3> QED
      BY <2>0, <3>1, PurgedRow DEF RowInv, StatusInv, Keeps, Holds, Row
  <2>2. CASE j \notin S
    BY <2>0, <2>2 DEF Purge, RowInv, StatusInv, Keeps, Row
  <2> QED
    BY <2>1, <2>2
<1> QED
  BY <1>1, <1>2, TableStep DEF Purge

\* A sweep of the reaper preserves IInv.
LEMMA ReapStep ==
  ASSUME IInv, NEW S \in SUBSET Jobs, Reap(S)
  PROVE  IInv'
<1>1. jobs' \in [Jobs -> Row]
  BY ReapedRow DEF Reap, IInv, TypeOK
<1>2. ASSUME NEW j \in Jobs
      PROVE  RowInv(j)' /\ StatusInv(j)' /\ Keeps(j)
  <2>0. RowInv(j) /\ StatusInv(j) /\ jobs[j] \in Row /\ issued[j] \in Nat
    BY DEF IInv, TypeOK, StatusInvariants
  <2>1. CASE j \in S
    <3>1. jobs'[j] = Reaped(jobs[j]) /\ jobs[j].status = "running" /\ issued' = issued
      BY <2>1 DEF Reap, Stale
    <3>2. /\ jobs'[j].attempts = jobs[j].attempts
          /\ jobs'[j].max_attempts = jobs[j].max_attempts
          /\ jobs'[j].lease_token = NoToken /\ jobs'[j].expired = FALSE
          /\ jobs'[j].attempted = jobs[j].attempted
          /\ \/ /\ jobs[j].attempts >= jobs[j].max_attempts
                /\ jobs'[j].status = "dead" /\ jobs'[j].finished = TRUE
             \/ /\ jobs[j].attempts < jobs[j].max_attempts
                /\ jobs'[j].status = "awaiting_retry"
                /\ jobs'[j].finished = jobs[j].finished
      <4>1. PICK r \in Row : r = jobs[j]
        BY <2>0
      <4>2. PICK c : c = Reaped(r)
        OBVIOUS
      <4>3. /\ c.attempts = r.attempts /\ c.max_attempts = r.max_attempts
            /\ c.lease_token = NoToken /\ c.expired = FALSE /\ c.attempted = r.attempted
            /\ \/ r.attempts >= r.max_attempts /\ c.status = "dead" /\ c.finished = TRUE
               \/ /\ r.attempts < r.max_attempts
                  /\ c.status = "awaiting_retry" /\ c.finished = r.finished
        BY ONLY <4>2, ReapedRow, r \in Row
      <4>4. jobs'[j] = c
        BY <3>1, <4>1, <4>2
      <4> QED
        BY <4>1, <4>3, <4>4
    <3>3. RowInv(j)'
      BY <2>0, <3>1, <3>2 DEF RowInv, Row, NoToken, Reap
    <3>4. StatusInv(j)'
      BY <2>0, <3>1, <3>2 DEF StatusInv
    <3> QED
      BY <2>0, <3>1, <3>2, <3>3, <3>4 DEF Keeps, Holds, Row
  <2>2. CASE j \notin S
    BY <2>0, <2>2 DEF Reap, RowInv, StatusInv, Keeps, Row
  <2> QED
    BY <2>1, <2>2
<1> QED
  BY <1>1, <1>2, TableStep DEF Reap

-----------------------------------------------------------------------------
\* What a mark statement, current or late, does to the table: its guard lets it
\* through only if the verdict it carries is still the right one.
LEMMA MarkRows ==
  ASSUME IInv, NEW m \in Stmt, StmtInv(m), MarkCommit(m),
         UNCHANGED <<issued, succeeded>>
  PROVE  /\ jobs' \in [Jobs -> Row]
         /\ \A j \in Jobs : RowInv(j)' /\ StatusInv(j)' /\ Keeps(j)
<1>0. /\ jobs \in [Jobs -> Row] /\ issued \in [Jobs -> Nat]
      /\ m.job \in Jobs /\ m.op \in Op
  BY DEF IInv, TypeOK, Stmt
<1>1. CASE UNCHANGED jobs
  BY <1>0, <1>1 DEF IInv, StatusInvariants, RowInv, StatusInv, Keeps, Row
<1>2. ASSUME Holds(jobs[m.job], m.token), NEW d \in BOOLEAN,
             jobs' = [jobs EXCEPT ![m.job] = Marked(@, m.op, d)]
      PROVE  /\ jobs' \in [Jobs -> Row]
             /\ \A j \in Jobs : RowInv(j)' /\ StatusInv(j)' /\ Keeps(j)
  <2> DEFINE r == jobs[m.job]
  <2>1. r \in Row /\ jobs'[m.job] = Marked(r, m.op, d)
    BY <1>0, <1>2
  <2>1a. Settled(r, m.op, jobs'[m.job])
    BY <1>0, <2>1, MarkedRow
  <2>2. jobs' \in [Jobs -> Row]
    BY <1>0, <1>2, <2>1, <2>1a DEF Settled
  <2>3. ASSUME NEW j \in Jobs, j # m.job
        PROVE  RowInv(j)' /\ StatusInv(j)' /\ Keeps(j)
    <3>1. jobs'[j] = jobs[j] /\ jobs[j] \in Row /\ issued[j] \in Nat
      BY <1>0, <1>2, <2>3
    <3>2. RowInv(j) /\ StatusInv(j)
      BY DEF IInv, StatusInvariants
    <3>3. RowInv(j)' /\ StatusInv(j)'
      BY <3>1, <3>2 DEF RowInv, StatusInv
    <3>4. Keeps(j)
      BY <3>1 DEF Keeps, Row
    <3> QED
      BY <3>3, <3>4
  <2>4. RowInv(m.job)' /\ StatusInv(m.job)' /\ Keeps(m.job)
    <3>0. RowInv(m.job) /\ StatusInv(m.job) /\ r.status = "running"
      BY <1>0, <1>2 DEF IInv, StatusInvariants, Holds
    <3>2. /\ m.op = "done" => <<m.job, r.attempts>> \in succeeded
          /\ m.op = "retry" => r.attempts < r.max_attempts
      BY <1>2 DEF StmtInv
    <3>3. RowInv(m.job)'
      <4>1. /\ jobs'[m.job].attempts = r.attempts /\ jobs'[m.job].max_attempts = r.max_attempts
            /\ jobs'[m.job].lease_token = 0
            /\ \/ m.op = "done" /\ jobs'[m.job].status = "done"
               \/ m.op = "retry" /\ jobs'[m.job].status = "awaiting_retry"
               \/ m.op = "dead" /\ jobs'[m.job].status = "dead"
        BY <2>1a DEF Settled, NoToken
      <4>2. /\ r.attempts > 0 => \E w \in Workers : r.max_attempts = MaxAttempts[w]
            /\ r.attempts > 0 => \E w \in Workers : r.attempts <= MaxAttempts[w]
        BY <3>0 DEF RowInv
      <4>3. issued'[m.job] \in Nat /\ succeeded' = succeeded
        BY <1>0
      <4> QED
        BY <3>2, <4>1, <4>2, <4>3 DEF RowInv
    <3>4. StatusInv(m.job)'
      BY <2>1a, <3>0 DEF StatusInv, Settled
    <3>5. Keeps(m.job)
      <4>1. jobs'[m.job].attempts = r.attempts /\ r.attempts \in Nat
        BY <2>1, <2>1a DEF Settled, Row
      <4>2. jobs'[m.job].status # "running"
        BY <2>1a DEF Settled
      <4>3. issued'[m.job] = issued[m.job] /\ issued[m.job] \in Nat
        BY <1>0
      <4> QED
        BY <4>1, <4>2, <4>3 DEF Keeps, Holds
    <3> QED
      BY <3>3, <3>4, <3>5
  <2> QED
    BY <2>2, <2>3, <2>4
<1> QED
  BY <1>1, <1>2 DEF MarkCommit

\* The steps that run a mark statement preserve IInv.
LEMMA MarkStep ==
  ASSUME IInv
  PROVE  /\ \A t \in tasks : RejectRow(t) \/ MarkAnswered(t) => IInv'
         /\ \A m \in late : LateMark(m) => IInv'
<1>1. ASSUME NEW t \in tasks, RejectRow(t) \/ MarkAnswered(t)
      PROVE  IInv'
  <2>1. t.pc = "mark" \/ Undecodable(t)
    BY <1>1 DEF RejectRow, MarkAnswered
  <2>2. MarkCommit(StmtOf(t)) /\ UNCHANGED <<issued, late, invoked, succeeded>>
    BY <1>1 DEF RejectRow, MarkAnswered
  <2>3. tasks' \subseteq tasks
    BY <1>1 DEF RejectRow, MarkAnswered
  <2> QED
    BY <2>1, <2>2, <2>3, StmtOfTask, MarkRows, EndStep
<1>2. ASSUME NEW m \in late, LateMark(m)
      PROVE  IInv'
  <2>1. m \in Stmt /\ StmtInv(m)
    BY DEF IInv, TypeOK
  <2> QED
    BY <1>2, <2>1, MarkRows, EndStep DEF LateMark
<1> QED
  BY <1>1, <1>2

\* The steps that give up a task, or a whole worker, preserve IInv: the lease
\* goes from the task to at most one statement in flight.
LEMMA GiveUpStep ==
  ASSUME IInv
  PROVE  /\ \A t \in tasks :
              RejectRowFails(t) \/ HandlerLost(t) \/ MarkUnanswered(t) => IInv'
         /\ \A w \in Workers : DropBatch(w) \/ Crash(w) => IInv'
<1>0. UNCHANGED jobs /\ UNCHANGED <<issued, succeeded>>
        => /\ jobs' \in [Jobs -> Row]
           /\ \A j \in Jobs : RowInv(j)' /\ StatusInv(j)' /\ Keeps(j)
  BY DEF IInv, TypeOK, StatusInvariants, RowInv, StatusInv, Keeps, Row
<1>1. ASSUME NEW t \in tasks,
             RejectRowFails(t) \/ HandlerLost(t) \/ MarkUnanswered(t)
      PROVE  IInv'
  <2>1. UNCHANGED <<jobs, issued, invoked, succeeded>> /\ tasks' = tasks \ {t}
    BY <1>1 DEF RejectRowFails, HandlerLost, MarkUnanswered
  <2>2. \/ late' = late
        \/ (t.pc = "mark" \/ Undecodable(t)) /\ late' = late \cup {StmtOf(t)}
    BY <1>1 DEF RejectRowFails, HandlerLost, MarkUnanswered, MarkAbandon
  <2> QED
    BY <1>0, <2>1, <2>2, EndStep
<1>2. ASSUME NEW w \in Workers, DropBatch(w)
      PROVE  IInv'
  <2>1. /\ UNCHANGED <<jobs, issued, invoked, succeeded>>
        /\ tasks' = tasks \ Batch(w) /\ Batch(w) \subseteq tasks
    BY <1>2 DEF DropBatch, Batch, TasksOf
  <2>2. \/ late' = late
        \/ \E t \in Batch(w) : Undecodable(t) /\ late' = late \cup {StmtOf(t)}
    BY <1>2 DEF DropBatch
  <2> QED
    BY <1>0, <2>1, <2>2, EndStep
<1>3. ASSUME NEW w \in Workers, Crash(w)
      PROVE  IInv'
  <2>1. /\ UNCHANGED <<jobs, issued, invoked, succeeded>>
        /\ tasks' = tasks \ TasksOf(w) /\ TasksOf(w) \subseteq tasks
    BY <1>3 DEF Crash, TasksOf
  <2>2. PICK M \in SUBSET {t \in TasksOf(w) : t.pc = "mark" \/ Undecodable(t)} :
          late' = late \cup {StmtOf(t) : t \in M}
    BY <1>3 DEF Crash
  <2> QED
    BY <1>0, <2>1, <2>2, EndStep
<1> QED
  BY <1>1, <1>2, <1>3

-----------------------------------------------------------------------------
\* What the claim of job j by worker w leaves in the row: a token above all that
\* were issued before, one attempt more, and the claimant's max_attempts.
Claims(w, j) ==
  /\ Taken(jobs[j], MaxAttempts[w], issued[j] + 1, jobs'[j])
  /\ issued'[j] = issued[j] + 1

\* A claim keeps all earlier holders out of the rows it takes.
LEMMA ClaimRows ==
  ASSUME IInv, NEW w \in Workers, NEW S \in SUBSET Jobs, ClaimCommit(w, S),
         UNCHANGED succeeded
  PROVE  /\ jobs' \in [Jobs -> Row] /\ issued' \in [Jobs -> Nat]
         /\ \A j \in Jobs : RowInv(j)' /\ StatusInv(j)' /\ Keeps(j)
         /\ \A j \in S : Claims(w, j)
<1>0. /\ jobs \in [Jobs -> Row] /\ issued \in [Jobs -> Nat]
      /\ MaxAttempts[w] \in Nat \ {0}
  BY ConfigAssumption DEF IInv, TypeOK, ConfigAssumption
<1>1. ASSUME NEW j \in S
      PROVE  Claims(w, j)
  <2> DEFINE k == issued[j] + 1
  <2>1. k \in Nat /\ jobs[j] \in Row
    BY <1>0
  <2>2. jobs'[j] = Claimed(jobs[j], MaxAttempts[w], k) /\ issued'[j] = k
    BY <1>0 DEF ClaimCommit
  <2> HIDE DEF k
  <2>3. Taken(jobs[j], MaxAttempts[w], k, jobs'[j])
    BY <1>0, <2>1, <2>2, ClaimedRow
  <2> QED
    BY <2>2, <2>3 DEF k, Claims
<1>2. ASSUME NEW j \in Jobs \ S
      PROVE  jobs'[j] = jobs[j] /\ issued'[j] = issued[j]
  BY <1>2 DEF ClaimCommit
<1>3. jobs' \in [Jobs -> Row] /\ issued' \in [Jobs -> Nat]
  <2>1. jobs' = [j \in Jobs |-> jobs'[j]] /\ issued' = [j \in Jobs |-> issued'[j]]
    BY DEF ClaimCommit
  <2>2. \A j \in Jobs : jobs'[j] \in Row /\ issued'[j] \in Nat
    <3>1. ASSUME NEW j \in S
          PROVE  jobs'[j] \in Row /\ issued'[j] \in Nat
      <4>1. Claims(w, j) /\ issued[j] \in Nat
        BY <1>0, <1>1
      <4> QED
        BY <4>1 DEF Claims, Taken
    <3> QED
      BY <1>0, <1>2, <3>1
  <2> QED
    BY <2>1, <2>2
<1>4. ASSUME NEW j \in Jobs
      PROVE  RowInv(j)' /\ StatusInv(j)' /\ Keeps(j)
  <2>0. RowInv(j) /\ StatusInv(j) /\ jobs[j] \in Row /\ issued[j] \in Nat
    BY <1>0 DEF IInv, StatusInvariants
  <2>1. CASE j \in S
    <3>0. Claims(w, j)
      BY <1>1, <2>1
    <3>1. jobs[j].status \in {"queued", "awaiting_retry"}
      BY <2>1 DEF ClaimCommit, Eligible
    <3>2. RowInv(j)'
      <4>1. \E v \in Workers : jobs[j].attempts + 1 <= MaxAttempts[v]
        <5>1. CASE jobs[j].status = "queued"
          BY <1>0, <2>0, <5>1 DEF StatusInv
        <5>2. CASE jobs[j].status = "awaiting_retry"
          <6>1. PICK v \in Workers : jobs[j].max_attempts = MaxAttempts[v]
            BY <2>0, <5>2 DEF StatusInv, RowInv
          <6>2. jobs[j].attempts < jobs[j].max_attempts
            BY <2>0, <5>2 DEF RowInv
          <6> QED
            BY <2>0, <6>1, <6>2 DEF Row
        <5> QED
          BY <3>1, <5>1, <5>2
      <4> QED
        BY <1>0, <2>0, <3>0, <4>1 DEF Claims, Taken, RowInv, Row
    <3>3. StatusInv(j)'
      BY <2>0, <3>0, <3>1 DEF Claims, Taken, StatusInv, Row, NoToken
    <3>4. Keeps(j)
      BY <2>0, <3>0 DEF Claims, Taken, Keeps, Holds, Row
    <3> QED
      BY <3>2, <3>3, <3>4
  <2>2. CASE j \notin S
    <3>1. jobs'[j] = jobs[j] /\ issued'[j] = issued[j] /\ succeeded' = succeeded
      BY <1>2, <2>2
    <3>2. RowInv(j)' /\ StatusInv(j)'
      BY <2>0, <3>1 DEF RowInv, StatusInv
    <3>3. Keeps(j)
      BY <2>0, <3>1 DEF Keeps, Row
    <3> QED
      BY <3>2, <3>3
  <2> QED
    BY <2>1, <2>2
<1> QED
  BY <1>1, <1>3, <1>4

\* A claim preserves IInv, whether or not its rows reach the worker.
LEMMA ClaimStep ==
  ASSUME IInv, NEW w \in Workers, NEW S \in SUBSET Jobs,
         Claim(w, S) \/ ClaimUnanswered(w, S)
  PROVE  IInv'
<1> DEFINE N == {NewTask(w, j) : j \in S}
<1>0. /\ ClaimCommit(w, S) /\ UNCHANGED <<late, invoked, succeeded>>
      /\ tasks' \subseteq tasks \cup N
  BY DEF Claim, ClaimUnanswered
<1>1. /\ jobs' \in [Jobs -> Row] /\ issued' \in [Jobs -> Nat]
      /\ \A j \in Jobs : RowInv(j)' /\ StatusInv(j)' /\ Keeps(j)
      /\ \A j \in S : Claims(w, j)
  BY <1>0, ClaimRows
<1>2. ASSUME NEW j \in S, NEW t, t = NewTask(w, j)
      PROVE  /\ t \in Task /\ TaskInv(t)'
             /\ t.job = j /\ t.token = issued[j] + 1
  <2> DEFINE a == jobs[j].attempts + 1
             k == issued[j] + 1
  <2>1. /\ a \in Nat \ {0} /\ k \in Nat \ {0} /\ MaxAttempts[w] \in Nat
    BY ConfigAssumption DEF IInv, TypeOK, Row, ConfigAssumption
  <2>2. t = [worker |-> w, job |-> j, token |-> k, attempts |-> a,
             max_attempts |-> MaxAttempts[w], pc |-> "decode", op |-> "none"]
    BY <1>2 DEF NewTask
  <2>3. issued'[j] = k /\ jobs'[j].attempts = a /\ jobs'[j].max_attempts = MaxAttempts[w]
    BY <1>1 DEF Claims, Taken
  <2> HIDE DEF a, k
  <2>4. t \in Task /\ t.job = j /\ t.token = k
    BY <2>1, <2>2 DEF Task
  <2>5. /\ t.attempts = a /\ t.max_attempts = MaxAttempts[w]
        /\ t.pc = "decode" /\ t.op = "none"
    BY <2>2
  <2>6. TaskInv(t)'
    BY <2>1, <2>3, <2>4, <2>5 DEF TaskInv
  <2> QED
    BY <2>4, <2>6 DEF k
<1>3. TypeOK'
  BY <1>0, <1>1, <1>2 DEF IInv, TypeOK
<1>4. \A t \in tasks' : TaskInv(t)'
  <2>1. \A t \in tasks : t \in Task /\ TaskInv(t)
    BY DEF IInv, TypeOK
  <2>2. \A t \in tasks : TaskInv(t)'
    BY <1>0, <1>1, <1>3, <2>1, TaskKept DEF IInv
  <2> QED
    BY <1>0, <1>2, <2>2
<1>5. \A m \in late' : StmtInv(m)'
  <2>1. \A m \in late : m \in Stmt /\ StmtInv(m)
    BY DEF IInv, TypeOK
  <2> QED
    BY <1>0, <1>1, <1>3, <2>1, StmtKept DEF IInv
<1>6. SoleHolder'
  <2>1. \A t \in tasks : t.job \in Jobs /\ t.token \in 1..issued[t.job]
    BY DEF IInv, TypeOK, Task, TaskInv
  <2>2. \A m \in late : m.job \in Jobs /\ m.token \in 1..issued[m.job]
    BY DEF IInv, TypeOK, Stmt, StmtInv
  <2>3. \A t \in N : t.job \in S /\ t.token = issued[t.job] + 1
                     /\ t = NewTask(w, t.job)
    BY <1>2
  <2>4. \A j \in Jobs : issued[j] \in Nat
    BY DEF IInv, TypeOK
  <2>5. \A t \in N, u \in tasks \cup late : ~SameLease(t, u)
    BY <2>1, <2>2, <2>3, <2>4 DEF SameLease
  <2>6. \A t, u \in N : SameLease(t, u) => t = u
    BY <2>3 DEF SameLease
  <2>7. \A t, u : SameLease(t, u) <=> SameLease(u, t)
    BY DEF SameLease
  <2>8. \A t, u \in tasks \cup N : SameLease(t, u) => t = u
    BY <2>5, <2>6, <2>7 DEF IInv, SoleHolder
  <2>9. \A t \in tasks \cup N, m \in late : ~SameLease(t, m)
    BY <2>5 DEF IInv, SoleHolder
  <2> QED
    BY <1>0, <2>8, <2>9 DEF IInv, SoleHolder, SameLease
<1> QED
  BY <1>1, <1>3, <1>4, <1>5, <1>6 DEF IInv, StatusInvariants

-----------------------------------------------------------------------------
\* A task that moves on keeps its lease: replacing tasks one for one by tasks
\* with the same lease preserves IInv.
LEMMA AdvanceStep ==
  ASSUME IInv, UNCHANGED <<jobs, issued, late>>,
         invoked' \subseteq Jobs \X Nat, succeeded' \subseteq Jobs \X Nat,
         succeeded \subseteq succeeded',
         NEW T \in SUBSET tasks, NEW f \in [T -> Task],
         tasks' = (tasks \ T) \cup {f[t] : t \in T},
         \A t \in T : SameLease(f[t], t) /\ TaskInv(f[t])'
  PROVE  IInv'
<1>0. TypeOK
  BY DEF IInv
<1>1. TypeOK'
  BY DEF IInv, TypeOK
<1>2. \A j \in Jobs : RowInv(j)' /\ StatusInv(j)' /\ Keeps(j)
  BY DEF IInv, TypeOK, StatusInvariants, RowInv, StatusInv, Keeps, Row
<1>3. \A t \in tasks' : TaskInv(t)'
  <2>1. \A t \in tasks : t \in Task /\ TaskInv(t)
    BY DEF IInv, TypeOK
  <2>2. \A t \in tasks : TaskInv(t)'
    BY <1>0, <1>1, <1>2, <2>1, TaskKept
  <2> QED
    BY <2>2
<1>4. \A m \in late' : StmtInv(m)'
  <2>1. \A m \in late : m \in Stmt /\ StmtInv(m)
    BY DEF IInv, TypeOK
  <2> QED
    BY <1>0, <1>1, <1>2, <2>1, StmtKept
<1>5. SoleHolder'
  <2>1. ASSUME NEW t \in tasks', NEW u \in tasks', SameLease(t, u)
        PROVE  t = u
    <3>1. PICK x \in tasks : SameLease(t, x) /\ t = IF x \in T THEN f[x] ELSE x
      BY DEF SameLease
    <3>2. PICK y \in tasks : SameLease(u, y) /\ u = IF y \in T THEN f[y] ELSE y
      BY DEF SameLease
    <3>3. x = y
      <4>1. SameLease(x, y)
        BY <2>1, <3>1, <3>2 DEF SameLease
      <4> QED
        BY <4>1 DEF IInv, SoleHolder
    <3> QED
      BY <3>1, <3>2, <3>3
  <2>2. ASSUME NEW t \in tasks', NEW m \in late
        PROVE  ~SameLease(t, m)
    <3>1. PICK x \in tasks : SameLease(t, x)
      BY DEF SameLease
    <3> QED
      BY <3>1 DEF IInv, SoleHolder, SameLease
  <2> QED
    BY <2>1, <2>2 DEF IInv, SoleHolder, SameLease
<1> QED
  BY <1>1, <1>2, <1>3, <1>4, <1>5 DEF IInv, StatusInvariants

\* Spawning the decoded batch preserves IInv.
LEMMA SpawnStep ==
  ASSUME IInv, NEW w \in Workers, Spawn(w)
  PROVE  IInv'
<1>0. PICK T : T = Batch(w)
  OBVIOUS
<1>0a. PICK f : f = [t \in T |-> [t EXCEPT !.pc = "handler"]]
  OBVIOUS
<1>1. T \in SUBSET tasks /\ tasks \subseteq Task
  BY <1>0 DEF Batch, TasksOf, IInv, TypeOK
<1>2. ASSUME NEW t \in T
      PROVE  /\ f[t] \in Task /\ SameLease(f[t], t)
             /\ f[t].pc = "handler" /\ f[t].op = t.op /\ t.pc = "decode"
             /\ f[t].attempts = t.attempts /\ f[t].max_attempts = t.max_attempts
  BY <1>0, <1>0a, <1>1 DEF Task, SameLease, Batch
<1>3. ASSUME NEW t \in T
      PROVE  TaskInv(f[t])'
  <2>1. TaskInv(t)
    BY <1>1 DEF IInv
  <2> QED
    BY <1>2, <2>1 DEF TaskInv, SameLease, Spawn
<1>4. invoked' \subseteq Jobs \X Nat
  BY <1>0, <1>1 DEF Spawn, IInv, TypeOK, Task
<1>5. f \in [T -> Task] /\ tasks' = (tasks \ T) \cup {f[t] : t \in T}
  <2>1. {f[t] : t \in T} = {[t EXCEPT !.pc = "handler"] : t \in T}
    BY <1>0a
  <2>2. f \in [T -> Task]
    BY <1>0a, <1>2
  <2> QED
    BY <1>0, <2>1, <2>2 DEF Spawn
<1>6. /\ UNCHANGED <<jobs, issued, late>> /\ succeeded \subseteq succeeded'
      /\ succeeded' \subseteq Jobs \X Nat
  BY DEF Spawn, IInv, TypeOK
<1> QED
  BY <1>1, <1>2, <1>3, <1>4, <1>5, <1>6, AdvanceStep

\* The verdict on an attempt preserves IInv: `done` only of a handler that
\* returned Ok, `retry` only with an attempt left.
LEMMA ReturnStep ==
  ASSUME IInv, NEW t \in tasks, NEW o \in Outcome, HandlerReturn(t, o)
  PROVE  IInv'
<1>0. t \in Task /\ TaskInv(t) /\ tasks \subseteq Task
  BY DEF IInv, TypeOK
<1>1. PICK v : v = Verdict(t, o)
  OBVIOUS
<1>2. /\ v \in Op
      /\ v = "done" => o = "ok"
      /\ v = "retry" => t.attempts < t.max_attempts
  BY <1>1 DEF Verdict, Op
<1>3. PICK u : u = [t EXCEPT !.pc = "mark", !.op = v]
  OBVIOUS
<1>4. /\ u \in Task /\ SameLease(u, t) /\ u.pc = "mark" /\ u.op = v
      /\ u.attempts = t.attempts /\ u.max_attempts = t.max_attempts
  BY <1>0, <1>2, <1>3 DEF Task, SameLease
<1>5. /\ UNCHANGED <<jobs, issued, late, invoked>>
      /\ succeeded \subseteq succeeded'
      /\ o = "ok" => <<t.job, t.attempts>> \in succeeded'
      /\ succeeded' \subseteq Jobs \X Nat
      /\ tasks' = (tasks \ {t}) \cup {u}
  BY <1>0, <1>1, <1>3 DEF HandlerReturn, IInv, TypeOK, Task
<1>6. TaskInv(u)'
  BY <1>0, <1>2, <1>4, <1>5 DEF TaskInv, SameLease, Op
<1>7. PICK f : f = [x \in {t} |-> u]
  OBVIOUS
<1>8. f \in [{t} -> Task] /\ f[t] = u /\ {f[x] : x \in {t}} = {u}
  BY <1>4, <1>7
<1>9. \A x \in {t} : SameLease(f[x], x) /\ TaskInv(f[x])'
  BY <1>4, <1>6, <1>8
<1>10. invoked' \subseteq Jobs \X Nat /\ {t} \in SUBSET tasks
  BY <1>5 DEF IInv, TypeOK
<1> QED
  BY <1>5, <1>8, <1>9, <1>10, AdvanceStep

-----------------------------------------------------------------------------
\* The initial table and memories satisfy IInv.
LEMMA InitInv == Init => IInv
BY DEF Init, IInv, TypeOK, StatusInvariants, StatusInv, SoleHolder, RowInv,
       AbsentRow, Row, NoToken

\* Every step of every actor preserves IInv.
LEMMA NextInv == IInv /\ [Next]_vars => IInv'
<1> SUFFICES ASSUME IInv, [Next]_vars
             PROVE  IInv'
  OBVIOUS
<1>1. CASE Store
  BY <1>1, PushStep, ClockStep, PurgeStep, ReapStep DEF Store
<1>2. ASSUME NEW w \in Workers, Poll(w) \/ Crash(w)
      PROVE  IInv'
  BY <1>2, ClaimStep, SpawnStep, GiveUpStep DEF Poll
<1>3. ASSUME NEW t \in tasks, HandleJob(t)
      PROVE  IInv'
  BY <1>3, MarkStep, GiveUpStep, ReturnStep DEF HandleJob
<1>4. ASSUME NEW m \in late, LateMark(m)
      PROVE  IInv'
  BY <1>4, MarkStep
<1>5. CASE UNCHANGED vars
  BY <1>5 DEF vars, IInv, TypeOK, StatusInvariants, StatusInv, SoleHolder,
              SameLease, RowInv, TaskInv, StmtInv, Holds
<1> QED
  BY <1>1, <1>2, <1>3, <1>4, <1>5 DEF Next

\* The inductive invariant of the queue: see IInv.
THEOREM Invariance == Spec => []IInv
BY InitInv, NextInv, PTL DEF Spec

\* Every variable keeps its type; in particular claims never run out of tokens
\* and attempts stay counted.
THEOREM TypeCorrect == Spec => []TypeOK
<1>1. IInv => TypeOK
  BY DEF IInv
<1> QED
  BY <1>1, Invariance, PTL

\* The CHECK constraint jobs_status_invariants is never violated, for any number
\* of jobs and workers in any interleaving.
THEOREM ConstraintHolds == Spec => []StatusInvariants
<1>1. IInv => StatusInvariants
  BY DEF IInv
<1> QED
  BY <1>1, Invariance, PTL

\* A task whose token is current decides from current attempts and max_attempts.
THEOREM CopiesAreCurrent == Spec => []CopyIsCurrent
<1>1. IInv => CopyIsCurrent
  BY DEF IInv, CopyIsCurrent, TaskInv
<1> QED
  BY <1>1, Invariance, PTL

\* No row is sent back without an attempt left, or attempted more often than the
\* most generous worker allows.
THEOREM BudgetIsKept == Spec => []RetryBudget
<1>1. IInv => RetryBudget
  BY DEF IInv, RetryBudget, RowInv
<1> QED
  BY <1>1, Invariance, PTL

\* A done row was completed by its last attempt, never by a fenced-out one.
THEOREM DoneIsEarned == Spec => []DoneByLastAttempt
<1>1. IInv => DoneByLastAttempt
  BY DEF IInv, DoneByLastAttempt, RowInv
<1> QED
  BY <1>1, Invariance, PTL

\* No two parties ever hold the same lease.
THEOREM LeaseIsExclusive == Spec => []SoleHolder
<1>1. IInv => SoleHolder
  BY DEF IInv
<1> QED
  BY <1>1, Invariance, PTL

-----------------------------------------------------------------------------
\* What a step may make of a row that is done or dead.
Stays(j) == jobs'[j] = jobs[j] \/ jobs'[j].status = "purged"

\* No statement but the DELETE of purge_terminal touches a row that is done or dead.
LEMMA TerminalStep ==
  ASSUME IInv, [Next]_vars, NEW j \in Jobs, Terminal(jobs[j])
  PROVE  Stays(j)
<1>0. jobs \in [Jobs -> Row] /\ jobs[j] \in Row
  BY DEF IInv, TypeOK
<1>1. jobs[j].status \in {"done", "dead"}
  BY DEF Terminal
<1>2. ASSUME NEW S \in SUBSET Jobs, NEW d \in BOOLEAN, Push(S, d)
      PROVE  Stays(j)
  BY <1>1, <1>2 DEF Stays, Push
<1>3. ASSUME NEW i \in Jobs, BecomeDue(i) \/ LeaseExpire(i)
      PROVE  Stays(j)
  <2>1. i # j
    BY <1>1, <1>3 DEF BecomeDue, LeaseExpire
  <2> QED
    BY <1>0, <1>3, <2>1 DEF Stays, BecomeDue, LeaseExpire
<1>4. ASSUME NEW S \in SUBSET Jobs, Purge(S)
      PROVE  Stays(j)
  BY <1>0, <1>4, PurgedRow DEF Stays, Purge
<1>5. ASSUME NEW S \in SUBSET Jobs, Reap(S)
      PROVE  Stays(j)
  BY <1>1, <1>5 DEF Stays, Reap, Stale
<1>6. ASSUME NEW w \in Workers, NEW S \in SUBSET Jobs, ClaimCommit(w, S)
      PROVE  Stays(j)
  BY <1>1, <1>6 DEF Stays, ClaimCommit, Eligible
<1>7. ASSUME NEW m \in Stmt, MarkCommit(m)
      PROVE  Stays(j)
  <2>1. Holds(jobs[m.job], m.token) => m.job # j
    BY <1>1 DEF Holds
  <2> QED
    BY <1>0, <1>7, <2>1 DEF Stays, MarkCommit
<1>8. CASE UNCHANGED jobs
  BY <1>8 DEF Stays
<1>9. CASE Store
  BY <1>2, <1>3, <1>4, <1>5, <1>9 DEF Store
<1>10. ASSUME NEW w \in Workers, Poll(w) \/ Crash(w)
       PROVE  Stays(j)
  BY <1>6, <1>8, <1>10
     DEF Poll, Crash, Claim, ClaimUnanswered, Spawn, DropBatch
<1>11. ASSUME NEW t \in tasks, HandleJob(t)
       PROVE  Stays(j)
  <2>1. CASE RejectRow(t) \/ MarkAnswered(t)
    <3>1. StmtOf(t) \in Stmt /\ MarkCommit(StmtOf(t))
      BY <2>1, StmtOfTask DEF RejectRow, MarkAnswered
    <3> QED
      BY <1>7, <3>1
  <2> QED
    BY <1>8, <1>11, <2>1
       DEF HandleJob, RejectRowFails, HandlerReturn, HandlerLost, MarkUnanswered
<1>12. ASSUME NEW m \in late, LateMark(m)
       PROVE  Stays(j)
  <2>1. m \in Stmt
    BY DEF IInv, TypeOK
  <2> QED
    BY <1>7, <1>12, <2>1 DEF LateMark
<1> QED
  BY <1>8, <1>9, <1>10, <1>11, <1>12 DEF Next, vars

\* No statement but the DELETE of purge_terminal touches a row that is done or
\* dead, however late it arrives.
THEOREM TerminalRowsStay == Spec => TerminalIsFinal
<1>1. IInv /\ [Next]_vars
        => [\A j \in Jobs : Terminal(jobs[j]) =>
              jobs'[j] = jobs[j] \/ jobs'[j].status = "purged"]_vars
  BY TerminalStep DEF Stays
<1> QED
  BY <1>1, Invariance, PTL DEF Spec, TerminalIsFinal

-----------------------------------------------------------------------------
\* The refinement of JobLifecycle, statement by statement.

\* The phase of a job, by the status of its row.
LEMMA Phases ==
  /\ PhaseOf("absent") = "absent"
  /\ PhaseOf("queued") = "waiting" /\ PhaseOf("awaiting_retry") = "waiting"
  /\ PhaseOf("running") = "attempt"
  /\ PhaseOf("done") = "done" /\ PhaseOf("dead") = "dead" /\ PhaseOf("purged") = "gone"
BY DEF PhaseOf

\* What the abstract job sees of a row: Shows(j, p, a, b) says that after the step row j is in
\* phase p, at attempt a of budget b.
Shows(j, p, a, b) ==
  /\ PhaseOf(jobs'[j].status) = p
  /\ jobs'[j].attempts = a /\ jobs'[j].max_attempts = b

\* A row shows what it showed.
Same(j) == Shows(j, PhaseOf(jobs[j].status), jobs[j].attempts, jobs[j].max_attempts)

\* A step that shows nothing new of any row is a stutter of the lifecycle.
LEMMA StutterMap ==
  ASSUME \A j \in Jobs : Same(j), UNCHANGED succeeded
  PROVE  UNCHANGED Lifecycle!vars
BY DEF Same, Shows, Lifecycle!vars

\* Absent rows that become waiting ones enqueue jobs.
LEMMA EnqueueMap ==
  ASSUME NEW S \in SUBSET Jobs, \A j \in S : jobs[j].status = "absent",
         \A j \in S : Shows(j, "waiting", jobs[j].attempts, jobs[j].max_attempts),
         \A j \in Jobs \ S : Same(j), UNCHANGED succeeded
  PROVE  Lifecycle!Next
<1>1. Lifecycle!Enqueue(S)
  BY Phases DEF Lifecycle!Enqueue, Lifecycle!Move, Same, Shows
<1> QED
  BY <1>1 DEF Lifecycle!Next

\* Waiting rows that become running ones with one attempt more start attempts.
LEMMA StartMap ==
  ASSUME NEW S \in SUBSET Jobs, \A j \in S : jobs[j].status \in {"queued", "awaiting_retry"},
         NEW w \in Workers,
         \A j \in S : Shows(j, "attempt", jobs[j].attempts + 1, MaxAttempts[w]),
         \A j \in Jobs \ S : Same(j), UNCHANGED succeeded
  PROVE  Lifecycle!Next
<1>1. Lifecycle!Start(S, MaxAttempts[w])
  BY Phases DEF Lifecycle!Start, Lifecycle!Move, Same, Shows
<1> QED
  BY <1>1 DEF Lifecycle!Next

\* Running rows that become dead ones, or waiting ones with budget left, fail attempts.
LEMMA FailMap ==
  ASSUME NEW S \in SUBSET Jobs, NEW D \in SUBSET S,
         \A j \in S : jobs[j].status = "running",
         \A j \in S \ D : jobs[j].attempts < jobs[j].max_attempts,
         \A j \in S : Shows(j, IF j \in D THEN "dead" ELSE "waiting", jobs[j].attempts,
                            jobs[j].max_attempts),
         \A j \in Jobs \ S : Same(j), UNCHANGED succeeded
  PROVE  Lifecycle!Next
<1>1. Lifecycle!Fail(S, D)
  BY Phases DEF Lifecycle!Fail, Same, Shows
<1> QED
  BY <1>1 DEF Lifecycle!Next

\* A running row whose current attempt succeeded completes its job.
LEMMA CompleteMap ==
  ASSUME NEW i \in Jobs, jobs[i].status = "running", <<i, jobs[i].attempts>> \in succeeded,
         Shows(i, "done", jobs[i].attempts, jobs[i].max_attempts),
         \A j \in Jobs \ {i} : Same(j), UNCHANGED succeeded
  PROVE  Lifecycle!Next
<1>1. Lifecycle!Complete(i)
  BY Phases DEF Lifecycle!Complete, Lifecycle!Move, Same, Shows
<1> QED
  BY <1>1 DEF Lifecycle!Next

\* The success of an attempt the row has counted is a report.
LEMMA ReportMap ==
  ASSUME NEW i \in Jobs, NEW n \in 1..jobs[i].attempts,
         \A j \in Jobs : Same(j), succeeded' = succeeded \cup {<<i, n>>}
  PROVE  Lifecycle!Next
<1>1. Lifecycle!Report(i, n)
  BY Phases DEF Lifecycle!Report, Same, Shows
<1> QED
  BY <1>1 DEF Lifecycle!Next

\* Rows of one terminal status that are deleted are forgotten jobs.
LEMMA ForgetMap ==
  ASSUME NEW S \in SUBSET Jobs, NEW st \in {"done", "dead"}, \A j \in S : jobs[j].status = st,
         \A j \in S : Shows(j, "gone", jobs[j].attempts, jobs[j].max_attempts),
         \A j \in Jobs \ S : Same(j), UNCHANGED succeeded
  PROVE  Lifecycle!Next
<1>1. Lifecycle!Forget(S)
  BY Phases DEF Lifecycle!Forget, Lifecycle!Move, Same, Shows
<1> QED
  BY <1>1 DEF Lifecycle!Next

\* A row that did not change shows what it showed.
LEMMA Unmoved ==
  ASSUME NEW j \in Jobs, jobs'[j] = jobs[j]
  PROVE  Same(j)
BY DEF Same, Shows

\* What a step of the table is to the lifecycle: one of its steps, or none.
Simulates == Lifecycle!Next \/ UNCHANGED Lifecycle!vars

\* The initial table shows jobs nobody has pushed.
LEMMA InitMap == Init => Lifecycle!Init
<1> SUFFICES ASSUME Init PROVE Lifecycle!Init
  OBVIOUS
<1>1. \A j \in Jobs : /\ jobs[j].status = "absent" /\ jobs[j].attempts = 0
                      /\ jobs[j].max_attempts = 0
  BY DEF Init, AbsentRow
<1> QED
  BY <1>1, Phases DEF Init, Lifecycle!Init

\* The INSERTs of the pusher enqueue jobs, the clock shows nothing, a sweep of the
\* reaper fails attempts and a chunk of the purge forgets finished jobs.
LEMMA StoreMap ==
  ASSUME IInv, Store
  PROVE  Simulates
<1>0. jobs \in [Jobs -> Row]
  BY DEF IInv, TypeOK
<1>1. ASSUME NEW S \in SUBSET Jobs, NEW d \in BOOLEAN, Push(S, d)
      PROVE  Simulates
  <2>1. UNCHANGED succeeded /\ \A j \in S : jobs[j].status = "absent"
    BY <1>1 DEF Push
  <2>2. ASSUME NEW j \in S
        PROVE  Shows(j, "waiting", jobs[j].attempts, jobs[j].max_attempts)
    <3>1. jobs'[j] = Inserted(d)
      BY <1>1 DEF Push
    <3>2. jobs[j].attempts = 0 /\ jobs[j].max_attempts = 0
      BY <2>1 DEF IInv, RowInv
    <3> QED
      BY <3>1, <3>2, InsertedRow, Phases DEF Shows
  <2>3. \A j \in Jobs \ S : Same(j)
    BY <1>1, Unmoved DEF Push
  <2> QED
    BY <2>1, <2>2, <2>3, EnqueueMap DEF Simulates
<1>2. ASSUME NEW i \in Jobs, BecomeDue(i) \/ LeaseExpire(i)
      PROVE  Simulates
  <2>1. \A j \in Jobs : /\ jobs'[j].status = jobs[j].status
                        /\ jobs'[j].attempts = jobs[j].attempts
                        /\ jobs'[j].max_attempts = jobs[j].max_attempts
    BY <1>0, <1>2 DEF BecomeDue, LeaseExpire, Row
  <2>2. \A j \in Jobs : Same(j)
    BY <2>1 DEF Same, Shows
  <2>3. UNCHANGED succeeded
    BY <1>2 DEF BecomeDue, LeaseExpire
  <2> QED
    BY <2>2, <2>3, StutterMap DEF Simulates
<1>3. ASSUME NEW S \in SUBSET Jobs, Purge(S)
      PROVE  Simulates
  <2>1. PICK st \in {"done", "dead"} : \A j \in S : jobs[j].status = st
    BY <1>3 DEF Purge
  <2>2. ASSUME NEW j \in S
        PROVE  Shows(j, "gone", jobs[j].attempts, jobs[j].max_attempts)
    <3>1. jobs'[j] = Purged(jobs[j]) /\ jobs[j] \in Row
      BY <1>0, <1>3 DEF Purge
    <3> QED
      BY <3>1, PurgedRow, Phases DEF Shows
  <2>3. UNCHANGED succeeded /\ \A j \in Jobs \ S : Same(j)
    BY <1>3, Unmoved DEF Purge
  <2> QED
    BY <2>1, <2>2, <2>3, ForgetMap DEF Simulates
<1>4. ASSUME NEW S \in SUBSET Jobs, Reap(S)
      PROVE  Simulates
  <2>1. PICK D : D = {j \in S : jobs[j].attempts >= jobs[j].max_attempts}
    OBVIOUS
  <2>2. ASSUME NEW j \in S
        PROVE  Shows(j, IF j \in D THEN "dead" ELSE "waiting", jobs[j].attempts,
                     jobs[j].max_attempts)
    <3>1. jobs'[j] = Reaped(jobs[j]) /\ jobs[j] \in Row
      BY <1>0, <1>4 DEF Reap
    <3>2. /\ jobs'[j].attempts = jobs[j].attempts
          /\ jobs'[j].max_attempts = jobs[j].max_attempts
          /\ j \in D => jobs'[j].status = "dead"
          /\ j \notin D => jobs'[j].status = "awaiting_retry"
      <4>1. /\ jobs'[j].attempts = jobs[j].attempts
            /\ jobs'[j].max_attempts = jobs[j].max_attempts
            /\ \/ /\ jobs[j].attempts >= jobs[j].max_attempts
                  /\ jobs'[j].status = "dead"
               \/ /\ jobs[j].attempts < jobs[j].max_attempts
                  /\ jobs'[j].status = "awaiting_retry"
        BY <3>1, ReapedRow
      <4>2. jobs[j].attempts \in Nat /\ jobs[j].max_attempts \in Nat
        BY <3>1 DEF Row
      <4> QED
        BY <2>1, <4>1, <4>2
    <3> QED
      BY <3>2, Phases DEF Shows
  <2>3. /\ \A j \in S : jobs[j].status = "running"
        /\ \A j \in S \ D : jobs[j].attempts < jobs[j].max_attempts
        /\ D \in SUBSET S
    BY <1>0, <1>4, <2>1 DEF Reap, Stale, Row
  <2>4. UNCHANGED succeeded /\ \A j \in Jobs \ S : Same(j)
    BY <1>4, Unmoved DEF Reap
  <2> QED
    BY <2>2, <2>3, <2>4, FailMap DEF Simulates
<1> QED
  BY <1>1, <1>2, <1>3, <1>4 DEF Store

\* A claim starts an attempt of every row it takes, with the claimant's budget.
LEMMA ClaimMap ==
  ASSUME IInv, NEW w \in Workers, NEW S \in SUBSET Jobs, ClaimCommit(w, S),
         UNCHANGED succeeded
  PROVE  Simulates
<1>1. ASSUME NEW j \in S
      PROVE  /\ jobs[j].status \in {"queued", "awaiting_retry"}
             /\ Shows(j, "attempt", jobs[j].attempts + 1, MaxAttempts[w])
  <2>1. Claims(w, j)
    BY ClaimRows
  <2>2. Shows(j, "attempt", jobs[j].attempts + 1, MaxAttempts[w])
    BY <2>1, Phases DEF Claims, Taken, Shows
  <2> QED
    BY <2>2 DEF ClaimCommit, Eligible
<1>2. \A j \in Jobs \ S : Same(j)
  BY Unmoved DEF ClaimCommit
<1> QED
  BY <1>1, <1>2, StartMap DEF Simulates

\* A mark statement, whenever it arrives, ends the current attempt by its verdict
\* or, if its token no longer opens the row, is nothing to the lifecycle.
LEMMA MarkMap ==
  ASSUME IInv, NEW m \in Stmt, StmtInv(m), MarkCommit(m), UNCHANGED succeeded
  PROVE  Simulates
<1>0. jobs \in [Jobs -> Row] /\ m.job \in Jobs /\ m.op \in Op
  BY DEF IInv, TypeOK, Stmt
<1>1. CASE UNCHANGED jobs
  BY <1>1, Unmoved, StutterMap DEF Simulates
<1>2. ASSUME Holds(jobs[m.job], m.token), NEW d \in BOOLEAN,
             jobs' = [jobs EXCEPT ![m.job] = Marked(@, m.op, d)]
      PROVE  Simulates
  <2>1. PICK i : i = m.job
    OBVIOUS
  <2>2. i \in Jobs /\ jobs[i] \in Row /\ jobs[i].status = "running"
    BY <1>0, <1>2, <2>1 DEF Holds
  <2>3. Settled(jobs[i], m.op, jobs'[i])
    BY <1>0, <1>2, <2>1, <2>2, MarkedRow
  <2>4. \A j \in Jobs \ {i} : Same(j)
    BY <1>0, <1>2, <2>1, Unmoved
  <2>5. CASE m.op = "done"
    <3>1. <<i, jobs[i].attempts>> \in succeeded
      BY <1>2, <2>1, <2>5 DEF StmtInv
    <3>2. Shows(i, "done", jobs[i].attempts, jobs[i].max_attempts)
      BY <2>3, <2>5, Phases DEF Settled, Shows
    <3> QED
      BY <2>2, <2>4, <3>1, <3>2, CompleteMap DEF Simulates
  <2>6. CASE m.op # "done"
    <3>1. PICK D : D = IF m.op = "dead" THEN {i} ELSE {}
      OBVIOUS
    <3>2. m.op = "retry" => jobs[i].attempts < jobs[i].max_attempts
      BY <1>2, <2>1 DEF StmtInv
    <3>3. /\ jobs'[i].attempts = jobs[i].attempts
          /\ jobs'[i].max_attempts = jobs[i].max_attempts
          /\ i \in D => jobs'[i].status = "dead"
          /\ i \notin D => /\ jobs'[i].status = "awaiting_retry"
                           /\ jobs[i].attempts < jobs[i].max_attempts
      BY <2>3, <2>6, <3>1, <3>2 DEF Settled
    <3>4. Shows(i, IF i \in D THEN "dead" ELSE "waiting", jobs[i].attempts,
                jobs[i].max_attempts)
      BY <3>3, Phases DEF Shows
    <3>5. PICK S : S = {i}
      OBVIOUS
    <3>6. /\ S \in SUBSET Jobs /\ D \in SUBSET S
          /\ \A j \in S : jobs[j].status = "running"
          /\ \A j \in S \ D : jobs[j].attempts < jobs[j].max_attempts
          /\ \A j \in S : Shows(j, IF j \in D THEN "dead" ELSE "waiting",
                                jobs[j].attempts, jobs[j].max_attempts)
          /\ \A j \in Jobs \ S : Same(j)
      BY <2>2, <2>4, <3>1, <3>3, <3>4, <3>5
    <3> QED
      BY <3>6, FailMap DEF Simulates
  <2> QED
    BY <2>5, <2>6
<1> QED
  BY <1>1, <1>2 DEF MarkCommit

\* A handler that returns Ok reports its attempt, current or not; any other
\* outcome is the worker's own business until its mark arrives.
LEMMA ReturnMap ==
  ASSUME IInv, NEW t \in tasks, NEW o \in Outcome, HandlerReturn(t, o)
  PROVE  Simulates
<1>1. \A j \in Jobs : Same(j)
  BY Unmoved DEF HandlerReturn
<1>2. CASE o = "ok"
  <2>1. t.job \in Jobs /\ t.attempts \in 1..jobs[t.job].attempts
    BY DEF IInv, TypeOK, Task, TaskInv
  <2>2. succeeded' = succeeded \cup {<<t.job, t.attempts>>}
    BY <1>2 DEF HandlerReturn
  <2> QED
    BY <1>1, <2>1, <2>2, ReportMap DEF Simulates
<1>3. CASE o # "ok"
  BY <1>1, <1>3, StutterMap DEF Simulates, HandlerReturn
<1> QED
  BY <1>2, <1>3

\* Every step of every actor is one step of the lifecycle, or none.
LEMMA NextMap == IInv /\ [Next]_vars => [Lifecycle!Next]_(Lifecycle!vars)
<1> SUFFICES ASSUME IInv, [Next]_vars
             PROVE  Simulates
  BY DEF Simulates
<1>0. UNCHANGED <<jobs, succeeded>> => Simulates
  BY Unmoved, StutterMap DEF Simulates
<1>1. CASE Store
  BY <1>1, StoreMap
<1>2. ASSUME NEW w \in Workers, Poll(w) \/ Crash(w)
      PROVE  Simulates
  <2>1. ASSUME NEW S \in SUBSET Jobs, Claim(w, S) \/ ClaimUnanswered(w, S)
        PROVE  Simulates
    BY <2>1, ClaimMap DEF Claim, ClaimUnanswered
  <2> QED
    BY <1>0, <1>2, <2>1 DEF Poll, Spawn, DropBatch, Crash
<1>3. ASSUME NEW t \in tasks, HandleJob(t)
      PROVE  Simulates
  <2>1. CASE RejectRow(t) \/ MarkAnswered(t)
    <3>1. StmtOf(t) \in Stmt /\ StmtInv(StmtOf(t))
      BY <2>1, StmtOfTask DEF RejectRow, MarkAnswered
    <3>2. MarkCommit(StmtOf(t)) /\ UNCHANGED succeeded
      BY <2>1 DEF RejectRow, MarkAnswered
    <3> QED
      BY <3>1, <3>2, MarkMap
  <2> QED
    BY <1>0, <1>3, <2>1, ReturnMap
       DEF HandleJob, RejectRowFails, HandlerLost, MarkUnanswered
<1>4. ASSUME NEW m \in late, LateMark(m)
      PROVE  Simulates
  <2>1. m \in Stmt /\ StmtInv(m) /\ MarkCommit(m) /\ UNCHANGED succeeded
    BY <1>4 DEF IInv, TypeOK, LateMark
  <2> QED
    BY <2>1, MarkMap
<1>5. CASE UNCHANGED vars
  BY <1>0, <1>5 DEF vars
<1> QED
  BY <1>1, <1>2, <1>3, <1>4, <1>5 DEF Next

\* The table with its workers, reapers, late statements and crashes implements the
\* life of a job that JobLifecycle promises, for any number of jobs and workers.
THEOREM LifecycleIsImplemented == Spec => RefinesLifecycle
BY InitMap, NextMap, Invariance, PTL DEF Spec, RefinesLifecycle, Lifecycle!Spec

-----------------------------------------------------------------------------
\* One lease per attempt.

\* What a step may make of a row, as attempts and leases go: it leaves them alone, takes
\* the row out of `running` for good, or claims a waiting row, with the next attempt.
Moves(j) ==
  \/ /\ issued'[j] = issued[j] /\ jobs'[j].attempts = jobs[j].attempts
     /\ \/ /\ jobs'[j].status = jobs[j].status
           /\ jobs'[j].lease_token = jobs[j].lease_token
        \/ /\ jobs'[j].status # "running" /\ jobs[j].status # "purged"
           /\ jobs[j].status = "done" => jobs'[j].status = "purged"
  \/ /\ jobs[j].status \in {"queued", "awaiting_retry"} /\ jobs'[j].status = "running"
     /\ jobs'[j].attempts = jobs[j].attempts + 1
     /\ issued'[j] = issued[j] + 1 /\ jobs'[j].lease_token = issued[j] + 1

\* Every task is one that was there, perhaps with its verdict, or has the row's next lease.
TasksMove ==
  \A u \in tasks' :
    \/ \E t \in tasks : /\ SameLease(u, t) /\ u.attempts = t.attempts
                        /\ t.op \in {"none", u.op}
    \/ u.token = issued[u.job] + 1 /\ u.attempts = jobs[u.job].attempts + 1

\* Only the handler of a live task reports success, and its verdict is then `done`.
Reports ==
  /\ succeeded \subseteq succeeded'
  /\ \A a \in succeeded' \ succeeded :
       /\ \E t \in tasks : a = <<t.job, t.attempts>> /\ t.op = "none"
       /\ \A u \in tasks' : a = <<u.job, u.attempts>> => u.op = "done"

Steps == (\A j \in Jobs : Moves(j)) /\ TasksMove /\ Reports

\* Attempts are never taken back.
LEMMA MovesOn ==
  ASSUME NEW j, Moves(j), jobs[j].attempts \in Nat, jobs'[j].attempts \in Nat
  PROVE  jobs'[j].attempts >= jobs[j].attempts
BY DEF Moves

\* Two tasks of one attempt are one task.
LEMMA OneTask ==
  ASSUME IInv, AttemptInv, NEW t \in tasks, NEW u \in tasks,
         t.job = u.job, t.attempts = u.attempts
  PROVE  t = u
BY DEF IInv, SoleHolder, SameLease, AttemptInv

\* Such a step preserves AttemptInv.
LEMMA AttemptStep ==
  ASSUME IInv, AttemptInv, IInv', Steps
  PROVE  AttemptInv'
<1>0. /\ \A j \in Jobs : jobs[j].attempts \in Nat /\ issued[j] \in Nat
      /\ \A j \in Jobs : jobs'[j].attempts \in Nat
      /\ tasks \subseteq Task /\ tasks' \subseteq Task /\ succeeded \subseteq Jobs \X Nat
  BY DEF IInv, TypeOK, Row
<1>1. ASSUME NEW j \in Jobs
      PROVE  /\ issued'[j] = jobs'[j].attempts /\ jobs'[j].attempts >= jobs[j].attempts
             /\ jobs'[j].status = "running" => jobs'[j].lease_token = jobs'[j].attempts
  <2>1. Moves(j) /\ issued[j] = jobs[j].attempts /\ jobs[j].attempts \in Nat
    BY <1>0 DEF Steps, AttemptInv
  <2>2. jobs[j].status = "running" => jobs[j].lease_token = jobs[j].attempts
    BY DEF AttemptInv
  <2> QED
    BY <2>1, <2>2 DEF Moves
<1>2. ASSUME NEW u \in tasks'
      PROVE  u.token = u.attempts /\ (u.op # "done" => <<u.job, u.attempts>> \notin succeeded')
  <2>1. u.job \in Jobs /\ u.attempts \in Nat
    BY <1>0 DEF Task
  <2>2. u.op # "done" => <<u.job, u.attempts>> \notin succeeded' \ succeeded
    BY DEF Steps, Reports
  <2>3. CASE \E t \in tasks : /\ SameLease(u, t) /\ u.attempts = t.attempts
                              /\ t.op \in {"none", u.op}
    BY <2>2, <2>3 DEF AttemptInv, SameLease
  <2>4. CASE u.token = issued[u.job] + 1 /\ u.attempts = jobs[u.job].attempts + 1
    <3>1. u.token = u.attempts
      BY <2>1, <2>4 DEF AttemptInv
    <3>2. ASSUME <<u.job, u.attempts>> \in succeeded PROVE FALSE
      <4>1. u.attempts \in 1..jobs[u.job].attempts
        BY <3>2 DEF AttemptInv
      <4> QED
        BY <1>0, <2>1, <2>4, <4>1
    <3> QED
      BY <2>2, <3>1, <3>2
  <2> QED
    BY <2>3, <2>4 DEF Steps, TasksMove
<1>3. ASSUME NEW a \in succeeded'
      PROVE  a[2] \in 1..jobs'[a[1]].attempts
  <2>1. a[1] \in Jobs /\ a[2] \in 1..jobs[a[1]].attempts
    <3>1. CASE a \in succeeded
      BY <1>0, <3>1 DEF AttemptInv
    <3>2. CASE a \notin succeeded
      <4>1. PICK t \in tasks : a = <<t.job, t.attempts>>
        BY <3>2 DEF Steps, Reports
      <4> QED
        BY <1>0, <4>1 DEF IInv, TaskInv, Task
    <3> QED
      BY <3>1, <3>2
  <2> QED
    BY <1>0, <1>1, <2>1
<1> QED
  BY <1>1, <1>2, <1>3 DEF AttemptInv

\* A row whose leases and attempts are left alone.
LEMMA MoveKept ==
  ASSUME NEW j \in Jobs, issued'[j] = issued[j], jobs'[j] = jobs[j]
  PROVE  Moves(j)
BY DEF Moves

\* Tasks that only end, and successes that do not change.
LEMMA TasksEnd ==
  ASSUME tasks' \subseteq tasks, UNCHANGED succeeded
  PROVE  TasksMove /\ Reports
BY DEF TasksMove, Reports, SameLease

\* The statements of producers, the clock, retention and the reaper.
LEMMA StoreSteps ==
  ASSUME IInv, Store
  PROVE  Steps
<1>0. jobs \in [Jobs -> Row]
  BY DEF IInv, TypeOK
<1>1. TasksMove /\ Reports /\ UNCHANGED issued
  <2>1. UNCHANGED <<issued, tasks, succeeded>>
    BY DEF Store, Push, BecomeDue, LeaseExpire, Purge, Reap
  <2> QED
    BY <2>1, TasksEnd
<1>2. ASSUME NEW j \in Jobs
      PROVE  Moves(j)
  <2>1. ASSUME NEW S \in SUBSET Jobs, NEW d \in BOOLEAN, Push(S, d)
        PROVE  Moves(j)
    <3>1. CASE j \in S
      <4>1. jobs'[j] = Inserted(d) /\ jobs[j].status = "absent"
        BY <2>1, <3>1 DEF Push
      <4>2. jobs[j].attempts = 0
        BY <4>1 DEF IInv, RowInv
      <4> QED
        BY <1>1, <4>1, <4>2, InsertedRow DEF Moves
    <3>2. CASE j \notin S
      BY <1>1, <2>1, <3>2, MoveKept DEF Push
    <3> QED
      BY <3>1, <3>2
  <2>2. ASSUME NEW i \in Jobs, BecomeDue(i) \/ LeaseExpire(i)
        PROVE  Moves(j)
    <3>1. /\ jobs'[j].status = jobs[j].status /\ jobs'[j].attempts = jobs[j].attempts
          /\ jobs'[j].lease_token = jobs[j].lease_token
      BY <1>0, <2>2 DEF BecomeDue, LeaseExpire, Row
    <3> QED
      BY <1>1, <3>1 DEF Moves
  <2>3. ASSUME NEW S \in SUBSET Jobs, Purge(S)
        PROVE  Moves(j)
    <3>1. CASE j \in S
      <4>1. jobs'[j] = Purged(jobs[j]) /\ jobs[j] \in Row /\ jobs[j].status \in {"done", "dead"}
        BY <1>0, <2>3, <3>1 DEF Purge
      <4> QED
        BY <1>1, <4>1, PurgedRow DEF Moves
    <3>2. CASE j \notin S
      BY <1>1, <2>3, <3>2, MoveKept DEF Purge
    <3> QED
      BY <3>1, <3>2
  <2>4. ASSUME NEW S \in SUBSET Jobs, Reap(S)
        PROVE  Moves(j)
    <3>1. CASE j \in S
      <4>1. jobs'[j] = Reaped(jobs[j]) /\ jobs[j] \in Row /\ jobs[j].status = "running"
        BY <1>0, <2>4, <3>1 DEF Reap, Stale
      <4>2. jobs'[j].attempts = jobs[j].attempts /\ jobs'[j].status # "running"
        BY <4>1, ReapedRow
      <4> QED
        BY <1>1, <4>1, <4>2 DEF Moves
    <3>2. CASE j \notin S
      BY <1>1, <2>4, <3>2, MoveKept DEF Reap
    <3> QED
      BY <3>1, <3>2
  <2> QED
    BY <2>1, <2>2, <2>3, <2>4 DEF Store
<1> QED
  BY <1>1, <1>2 DEF Steps

\* A mark statement takes its row out of `running`, or does nothing.
LEMMA MarkMoves ==
  ASSUME IInv, NEW m \in Stmt, MarkCommit(m), UNCHANGED issued, NEW j \in Jobs
  PROVE  Moves(j)
<1>0. jobs \in [Jobs -> Row] /\ m.job \in Jobs /\ m.op \in Op
  BY DEF IInv, TypeOK, Stmt
<1>1. CASE UNCHANGED jobs
  BY <1>1, MoveKept
<1>2. ASSUME Holds(jobs[m.job], m.token), NEW d \in BOOLEAN,
             jobs' = [jobs EXCEPT ![m.job] = Marked(@, m.op, d)]
      PROVE  Moves(j)
  <2>1. CASE j = m.job
    <3>1. Settled(jobs[j], m.op, jobs'[j]) /\ jobs[j].status = "running"
      BY <1>0, <1>2, <2>1, MarkedRow DEF Holds
    <3> QED
      BY <3>1 DEF Settled, Moves
  <2>2. CASE j # m.job
    BY <1>0, <1>2, <2>2, MoveKept
  <2> QED
    BY <2>1, <2>2
<1> QED
  BY <1>1, <1>2 DEF MarkCommit

\* A claim gives every row it takes the next attempt and the next lease, and the worker, if
\* it learns of them, tasks to match.
LEMMA ClaimSteps ==
  ASSUME IInv, NEW w \in Workers, NEW S \in SUBSET Jobs,
         Claim(w, S) \/ ClaimUnanswered(w, S)
  PROVE  Steps
<1>1. /\ ClaimCommit(w, S) /\ UNCHANGED succeeded
      /\ tasks' \subseteq tasks \cup {NewTask(w, j) : j \in S}
  BY DEF Claim, ClaimUnanswered
<1>2. ASSUME NEW j \in Jobs
      PROVE  Moves(j)
  <2>1. CASE j \in S
    <3>1. Claims(w, j) /\ jobs[j].status \in {"queued", "awaiting_retry"}
      BY <1>1, <2>1, ClaimRows DEF ClaimCommit, Eligible
    <3> QED
      BY <3>1 DEF Claims, Taken, Moves
  <2>2. CASE j \notin S
    BY <1>1, <2>2, MoveKept DEF ClaimCommit
  <2> QED
    BY <2>1, <2>2
<1>3. TasksMove
  <2>1. ASSUME NEW u \in tasks'
        PROVE  \/ u \in tasks
               \/ u.token = issued[u.job] + 1 /\ u.attempts = jobs[u.job].attempts + 1
    <3>1. ASSUME NEW j \in S, u = NewTask(w, j)
          PROVE  u.token = issued[u.job] + 1 /\ u.attempts = jobs[u.job].attempts + 1
      BY <3>1 DEF NewTask
    <3> QED
      BY <1>1, <3>1
  <2> QED
    BY <2>1 DEF TasksMove, SameLease
<1> QED
  BY <1>1, <1>2, <1>3 DEF Steps, Reports

\* Tasks that move on keep their attempts.
LEMMA TasksAdvance ==
  ASSUME UNCHANGED <<jobs, issued, succeeded>>,
         \A u \in tasks' : \E t \in tasks :
           SameLease(u, t) /\ u.attempts = t.attempts /\ u.op = t.op
  PROVE  Steps
<1>1. TasksMove /\ Reports
  BY DEF TasksMove, Reports, SameLease
<1> QED
  BY <1>1, MoveKept DEF Steps

\* A handler's return: the verdict is `done` exactly when it reports success.
LEMMA ReturnSteps ==
  ASSUME IInv, AttemptInv, NEW t \in tasks, NEW o \in Outcome, HandlerReturn(t, o)
  PROVE  Steps
<1>1. PICK v : v = Verdict(t, o)
  OBVIOUS
<1>2. PICK u : u = [t EXCEPT !.pc = "mark", !.op = v]
  OBVIOUS
<1>3. t \in Task /\ v \in Op /\ (v = "done" <=> o = "ok")
  BY <1>1 DEF IInv, TypeOK, Verdict, Op
<1>4. SameLease(u, t) /\ u.attempts = t.attempts /\ u.job = t.job /\ u.op = v
  BY <1>2, <1>3 DEF Task, SameLease
<1>5. t.op = "none"
  BY DEF HandlerReturn, IInv, TaskInv
<1>6. /\ tasks' = (tasks \ {t}) \cup {u} /\ UNCHANGED <<jobs, issued>>
      /\ succeeded' = IF o = "ok" THEN succeeded \cup {<<t.job, t.attempts>>} ELSE succeeded
  BY <1>1, <1>2 DEF HandlerReturn
<1>7. TasksMove
  BY <1>4, <1>5, <1>6 DEF TasksMove, SameLease
<1>8. Reports
  <2>1. ASSUME NEW x \in tasks', o = "ok", <<x.job, x.attempts>> = <<t.job, t.attempts>>
        PROVE  x.op = "done"
    <3>1. x \notin tasks \ {t}
      BY <2>1, OneTask
    <3> QED
      BY <1>3, <1>4, <1>6, <2>1, <3>1
  <2> QED
    BY <1>5, <1>6, <2>1 DEF Reports
<1> QED
  BY <1>6, <1>7, <1>8, MoveKept DEF Steps

\* Every step of the queue is such a step.
LEMMA NextSteps ==
  ASSUME IInv, AttemptInv, [Next]_vars
  PROVE  Steps
<1>0. UNCHANGED <<jobs, issued, succeeded>> /\ tasks' \subseteq tasks => Steps
  BY TasksEnd, MoveKept DEF Steps
<1>1. CASE Store
  BY <1>1, StoreSteps
<1>2. ASSUME NEW w \in Workers, Poll(w) \/ Crash(w)
      PROVE  Steps
  <2>1. CASE Spawn(w)
    <3>1. ASSUME NEW t \in Task, NEW u, u = [t EXCEPT !.pc = "handler"]
          PROVE  SameLease(u, t) /\ u.attempts = t.attempts /\ u.op = t.op
      BY <3>1 DEF Task, SameLease
    <3>2. Batch(w) \subseteq tasks /\ tasks \subseteq Task
      BY DEF Batch, TasksOf, IInv, TypeOK
    <3>3. ASSUME NEW u \in tasks'
          PROVE  \E t \in tasks : SameLease(u, t) /\ u.attempts = t.attempts /\ u.op = t.op
      <4>1. CASE u \in tasks
        BY <4>1 DEF SameLease
      <4>2. CASE \E t \in Batch(w) : u = [t EXCEPT !.pc = "handler"]
        BY <3>1, <3>2, <4>2
      <4> QED
        BY <2>1, <4>1, <4>2 DEF Spawn
    <3>4. UNCHANGED <<jobs, issued, succeeded>>
      BY <2>1 DEF Spawn
    <3> QED
      BY <3>3, <3>4, TasksAdvance
  <2> QED
    BY <1>0, <1>2, <2>1, ClaimSteps DEF Poll, DropBatch, Crash
<1>3. ASSUME NEW t \in tasks, HandleJob(t)
      PROVE  Steps
  <2>1. CASE RejectRow(t) \/ MarkAnswered(t)
    <3>1. StmtOf(t) \in Stmt
      BY <2>1, StmtOfTask DEF RejectRow, MarkAnswered
    <3>2. /\ MarkCommit(StmtOf(t)) /\ UNCHANGED <<issued, succeeded>>
          /\ tasks' \subseteq tasks
      BY <2>1 DEF RejectRow, MarkAnswered
    <3> QED
      BY <3>1, <3>2, MarkMoves, TasksEnd DEF Steps
  <2> QED
    BY <1>0, <1>3, <2>1, ReturnSteps
       DEF HandleJob, RejectRowFails, HandlerLost, MarkUnanswered
<1>4. ASSUME NEW m \in late, LateMark(m)
      PROVE  Steps
  <2>1. /\ m \in Stmt /\ MarkCommit(m) /\ UNCHANGED <<issued, succeeded>>
        /\ tasks' \subseteq tasks
    BY <1>4 DEF IInv, TypeOK, LateMark
  <2> QED
    BY <2>1, MarkMoves, TasksEnd DEF Steps
<1>5. CASE UNCHANGED vars
  BY <1>0, <1>5 DEF vars
<1> QED
  BY <1>1, <1>2, <1>3, <1>4, <1>5 DEF Next

\* One lease per attempt, for any number of jobs and workers: see AttemptInv.
THEOREM LeaseIsAttempt == Spec => []AttemptInv
<1>1. Init => AttemptInv
  <2> SUFFICES ASSUME Init PROVE AttemptInv
    OBVIOUS
  <2>1. \A j \in Jobs : issued[j] = 0 /\ jobs[j].attempts = 0 /\ jobs[j].status = "absent"
    BY DEF Init, AbsentRow
  <2>2. tasks = {} /\ succeeded = {}
    BY DEF Init
  <2> QED
    BY <2>1, <2>2 DEF AttemptInv
<1>2. IInv /\ IInv' /\ AttemptInv /\ [Next]_vars => AttemptInv'
  BY NextSteps, AttemptStep
<1> QED
  BY <1>1, <1>2, Invariance, PTL DEF Spec

-----------------------------------------------------------------------------
\* What Gone, Finished and Overtaken say of an attempt stays so, and an attempt without a task does not succeed any more.
LEMMA GoneStays ==
  ASSUME IInv, AttemptInv, IInv', Steps, NEW a, Gone(a)
  PROVE  /\ Gone(a)'
         /\ Finished(a) => Finished(a)'
         /\ Overtaken(a) => Overtaken(a)'
         /\ a \notin succeeded => a \notin succeeded'
<1>0. /\ a[1] \in Jobs /\ a[2] \in Nat /\ a = <<a[1], a[2]>>
      /\ jobs[a[1]].attempts \in Nat /\ jobs'[a[1]].attempts \in Nat
      /\ a[2] \in 1..jobs[a[1]].attempts
  BY DEF Gone, IInv, TypeOK, Row
<1>1. Moves(a[1])
  BY <1>0 DEF Steps
<1>2. jobs'[a[1]].attempts >= jobs[a[1]].attempts
  BY <1>0, <1>1 DEF Moves
<1>3. ASSUME NEW u \in tasks'
      PROVE  <<u.job, u.attempts>> # a
  <2>1. CASE \E t \in tasks : SameLease(u, t) /\ u.attempts = t.attempts
    BY <2>1 DEF Gone, SameLease
  <2>2. CASE u.attempts = jobs[u.job].attempts + 1
    BY <1>0, <2>2
  <2> QED
    BY <2>1, <2>2 DEF Steps, TasksMove
<1>4. Gone(a)'
  BY <1>0, <1>2, <1>3 DEF Gone
<1>5. Finished(a) => Finished(a)'
  BY <1>0, <1>1 DEF Finished, Moves
<1>6. Overtaken(a) => Overtaken(a)'
  BY <1>0, <1>1 DEF Overtaken, Moves
<1>7. a \notin succeeded => a \notin succeeded'
  BY DEF Steps, Reports, Gone
<1> QED
  BY <1>4, <1>5, <1>6, <1>7

=============================================================================
