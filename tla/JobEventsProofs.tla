-------------------------- MODULE JobEventsProofs --------------------------
(***************************************************************************)
(* Proofs about JobEvents, for any number of jobs and workers: an attempt  *)
(* is reported at most once and as it ended, by the events and by the      *)
(* counters, whatever happens between a statement and its answer.          *)
(***************************************************************************)
EXTENDS JobEvents, WorkQueueProofs

\* Counting and emitting change nothing in the table: every step is one of the queue.
LEMMA EventIsStep ==
  ASSUME [EventNext]_allVars
  PROVE  [Next]_vars
<1>1. ASSUME NEW t \in tasks, NEW o \in Outcome, Returns(t, o)
      PROVE  HandleJob(t)
  BY <1>1 DEF Returns, HandleJob
<1>2. ASSUME NEW t \in tasks, MarkExecuted(t) \/ MarkGivenUp(t)
      PROVE  HandleJob(t)
  BY <1>2 DEF MarkExecuted, MarkGivenUp, HandleJob
<1>3. ASSUME NEW w \in Workers, NEW S \in SUBSET Jobs, Swept(w, S)
      PROVE  Store
  BY <1>3 DEF Swept, Store
<1>4. ASSUME NEW r \in answers, Delivered(r) \/ Lost(r)
      PROVE  UNCHANGED vars
  BY <1>4 DEF Delivered, Lost
<1>5. ASSUME NEW w \in Workers, Restart(w)
      PROVE  Crash(w)
  BY <1>5 DEF Restart
<1>6. ASSUME NEW t \in tasks, RejectRow(t) \/ RejectRowFails(t) \/ HandlerLost(t)
      PROVE  HandleJob(t)
  BY <1>6 DEF HandleJob
<1>7. ASSUME NEW S \in SUBSET Jobs, NEW d \in BOOLEAN, Push(S, d)
      PROVE  Store
  BY <1>7 DEF Store
<1>8. ASSUME NEW S \in SUBSET Jobs, Purge(S)
      PROVE  Store
  BY <1>8 DEF Store
<1>9. ASSUME NEW j \in Jobs, BecomeDue(j) \/ LeaseExpire(j)
      PROVE  Store
  BY <1>9 DEF Store
<1>10. CASE UNCHANGED allVars
  BY <1>10 DEF allVars
<1> QED
  BY <1>1, <1>2, <1>3, <1>4, <1>5, <1>6, <1>7, <1>8, <1>9, <1>10 DEF EventNext, Next

\* The queue with its events and counters is the queue.
THEOREM EventsOnlyWatch == EventSpec => Spec
<1>1. EventInit => Init
  BY DEF EventInit
<1>2. [EventNext]_allVars => [Next]_vars
  BY EventIsStep
<1> QED
  BY <1>1, <1>2, PTL DEF EventSpec, Spec

\* So every statement it runs is still a step of the life JobLifecycle promises.
THEOREM EventsRefineLifecycle == EventSpec => RefinesLifecycle
BY EventsOnlyWatch, LifecycleIsImplemented, PTL

-----------------------------------------------------------------------------
\* How an attempt ends.

\* What a step may do to a running row: leave it running, or end its attempt, as done only
\* when no task is left that works on it.
Ends(j) ==
  jobs[j].status = "running" /\ jobs'[j].status # "running" =>
    /\ jobs'[j].status \in Fate
    /\ jobs'[j].status = "done" =>
         \A t \in tasks' : <<t.job, t.attempts>> # <<j, jobs[j].attempts>>

\* A row that keeps its status.
LEMMA EndsNot ==
  ASSUME NEW j, jobs'[j].status = jobs[j].status \/ jobs[j].status # "running"
  PROVE  Ends(j)
BY DEF Ends

\* The mark of a task or of a statement left behind, which no other task's lease covers.
LEMMA MarkEnds ==
  ASSUME IInv, AttemptInv, NEW m \in Stmt, MarkCommit(m), tasks' \subseteq tasks,
         \A t \in tasks' : ~SameLease(t, m), NEW j \in Jobs
  PROVE  Ends(j)
<1>0. jobs \in [Jobs -> Row] /\ m.job \in Jobs /\ m.op \in Op
  BY DEF IInv, TypeOK, Stmt
<1>1. CASE UNCHANGED jobs
  BY <1>1, EndsNot
<1>2. ASSUME Holds(jobs[m.job], m.token), NEW d \in BOOLEAN,
             jobs' = [jobs EXCEPT ![m.job] = Marked(@, m.op, d)]
      PROVE  Ends(j)
  <2>1. CASE j = m.job
    <3>1. Settled(jobs[j], m.op, jobs'[j])
      BY <1>0, <1>2, <2>1, MarkedRow
    <3>2. jobs'[j].status \in Fate
      BY <3>1 DEF Settled, Fate
    <3>3. m.token = jobs[j].attempts
      BY <1>2, <2>1 DEF Holds, AttemptInv
    <3>4. ASSUME NEW t \in tasks', t.job = j, t.attempts = jobs[j].attempts
          PROVE  FALSE
      <4>1. t.token = t.attempts
        BY DEF AttemptInv
      <4> QED
        BY <2>1, <3>3, <3>4, <4>1 DEF SameLease
    <3> QED
      BY <3>2, <3>4 DEF Ends
  <2>2. CASE j # m.job
    BY <1>0, <1>2, <2>2, EndsNot
  <2> QED
    BY <2>1, <2>2
<1> QED
  BY <1>1, <1>2 DEF MarkCommit

\* The statements of producers, the clock, retention and the reaper.
LEMMA StoreEnds ==
  ASSUME IInv, Store, NEW j \in Jobs
  PROVE  Ends(j)
<1>0. jobs \in [Jobs -> Row]
  BY DEF IInv, TypeOK
<1>1. ASSUME NEW S \in SUBSET Jobs, NEW d \in BOOLEAN, Push(S, d)
      PROVE  Ends(j)
  BY <1>1, EndsNot DEF Push
<1>2. ASSUME NEW i \in Jobs, BecomeDue(i) \/ LeaseExpire(i)
      PROVE  Ends(j)
  <2>1. jobs'[j].status = jobs[j].status
    BY <1>0, <1>2 DEF BecomeDue, LeaseExpire, Row
  <2> QED
    BY <2>1, EndsNot
<1>3. ASSUME NEW S \in SUBSET Jobs, Purge(S)
      PROVE  Ends(j)
  BY <1>3, EndsNot DEF Purge
<1>4. ASSUME NEW S \in SUBSET Jobs, Reap(S)
      PROVE  Ends(j)
  <2>1. CASE j \in S
    <3>1. jobs'[j] = Reaped(jobs[j]) /\ jobs[j] \in Row
      BY <1>0, <1>4, <2>1 DEF Reap
    <3>2. jobs'[j].status \in {"dead", "awaiting_retry"}
      BY <3>1, ReapedRow
    <3> QED
      BY <3>2 DEF Ends, Fate
  <2>2. CASE j \notin S
    BY <1>4, <2>2, EndsNot DEF Reap
  <2> QED
    BY <2>1, <2>2
<1> QED
  BY <1>1, <1>2, <1>3, <1>4 DEF Store

\* Every step of the queue ends attempts that way only.
LEMMA NextEnds ==
  ASSUME IInv, AttemptInv, [Next]_vars, NEW j \in Jobs
  PROVE  Ends(j)
<1>1. CASE Store
  BY <1>1, StoreEnds
<1>2. ASSUME NEW w \in Workers, Poll(w) \/ Crash(w)
      PROVE  Ends(j)
  <2>1. ASSUME NEW S \in SUBSET Jobs, ClaimCommit(w, S)
        PROVE  Ends(j)
    BY <2>1, EndsNot DEF ClaimCommit, Eligible
  <2> QED
    BY <1>2, <2>1, EndsNot DEF Poll, Claim, ClaimUnanswered, Spawn, DropBatch, Crash
<1>3. ASSUME NEW t \in tasks, HandleJob(t)
      PROVE  Ends(j)
  <2>1. CASE RejectRow(t) \/ MarkAnswered(t)
    <3>1. StmtOf(t) \in Stmt
      BY <2>1, StmtOfTask DEF RejectRow, MarkAnswered
    <3>2. MarkCommit(StmtOf(t)) /\ tasks' = tasks \ {t}
      BY <2>1 DEF RejectRow, MarkAnswered
    <3>3. SameLease(StmtOf(t), t)
      BY DEF StmtOf, SameLease
    <3>4. \A u \in tasks' : ~SameLease(u, StmtOf(t))
      BY <3>2, <3>3 DEF IInv, SoleHolder, SameLease
    <3> QED
      BY <3>1, <3>2, <3>4, MarkEnds
  <2> QED
    BY <1>3, <2>1, EndsNot
       DEF HandleJob, RejectRowFails, HandlerReturn, HandlerLost, MarkUnanswered
<1>4. ASSUME NEW m \in late, LateMark(m)
      PROVE  Ends(j)
  <2>1. m \in Stmt /\ MarkCommit(m) /\ tasks' = tasks
    BY <1>4 DEF IInv, TypeOK, LateMark
  <2>2. \A t \in tasks' : ~SameLease(t, m)
    BY <2>1 DEF IInv, SoleHolder
  <2> QED
    BY <2>1, <2>2, MarkEnds
<1>5. CASE UNCHANGED vars
  BY <1>5, EndsNot DEF vars
<1> QED
  BY <1>1, <1>2, <1>3, <1>4, <1>5 DEF Next

-----------------------------------------------------------------------------
\* What is known of an attempt stays so.

\* A step of the table, and the record of the attempts it ends.
Turns ==
  /\ IInv /\ AttemptInv /\ IInv' /\ AttemptInv'
  /\ Steps /\ \A j \in Jobs : Ends(j)
  /\ ended' = ended \cup Ended

\* Every step of EventNext is one.
LEMMA EventTurns ==
  ASSUME IInv, AttemptInv, [EventNext]_allVars
  PROVE  Turns
<1>1. [Next]_vars
  BY EventIsStep
<1>2. IInv' /\ AttemptInv' /\ Steps
  BY <1>1, NextInv, NextSteps, AttemptStep
<1>3. ended' = ended \cup Ended
  <2>1. CASE UNCHANGED allVars
    <3>1. Ended = {}
      BY <2>1 DEF Ended, allVars, vars
    <3> QED
      BY <2>1, <3>1 DEF allVars, eventVars
  <2> QED
    BY <2>1 DEF EventNext
<1> QED
  BY <1>1, <1>2, <1>3, NextEnds DEF Turns

\* What an attempt that ends leaves in the record.
LEMMA EndedMember ==
  ASSUME NEW x
  PROVE  x \in Ended <=>
           \E j \in Jobs : /\ jobs[j].status = "running" /\ jobs'[j].status # "running"
                           /\ x = <<j, jobs[j].attempts, jobs'[j].status>>
BY DEF Ended

\* A row whose attempt ends keeps its attempts.
LEMMA EndKeeps ==
  ASSUME Turns, NEW j \in Jobs, jobs[j].status = "running", jobs'[j].status # "running"
  PROVE  /\ jobs[j].attempts \in Nat /\ jobs[j].attempts > 0
         /\ jobs'[j].attempts = jobs[j].attempts
         /\ jobs'[j].status \in Fate
<1>1. jobs[j].attempts \in Nat /\ jobs[j].attempts > 0
  BY DEF Turns, IInv, TypeOK, Row, RowInv
<1>2. Moves(j) /\ Ends(j)
  BY DEF Turns, Steps
<1> QED
  BY <1>1, <1>2 DEF Moves, Ends

\* An attempt that is over does not end again.
LEMMA EndedOnce ==
  ASSUME Turns, NEW a \in Jobs \X Nat, Overtaken(a), NEW to, EndedAs(a, to)'
  PROVE  EndedAs(a, to)
<1>1. ASSUME <<a[1], a[2], to>> \in Ended
      PROVE  FALSE
  <2>1. PICK j \in Jobs : /\ jobs[j].status = "running"
                          /\ <<a[1], a[2], to>> = <<j, jobs[j].attempts, jobs'[j].status>>
    BY <1>1, EndedMember
  <2>2. a[1] = j /\ a[2] = jobs[j].attempts /\ jobs[j].attempts \in Nat
    BY <2>1 DEF Turns, IInv, TypeOK, Row
  <2> QED
    BY <2>1, <2>2 DEF Overtaken
<1> QED
  BY <1>1 DEF Turns, EndedAs

\* The record of ended attempts.
LEMMA EndedStep ==
  ASSUME EndedInv, Turns
  PROVE  EndedInv'
<1>1. ASSUME NEW x \in Ended
      PROVE  /\ x \in Jobs \X Nat \X Fate
             /\ x[2] \in 1..jobs'[x[1]].attempts /\ Overtaken(<<x[1], x[2]>>)'
             /\ ~Overtaken(<<x[1], x[2]>>)
             /\ \A y \in Ended : x[1] = y[1] => x = y
             /\ \A t \in tasks' : x # <<t.job, t.attempts, "done">>
  <2>1. PICK j \in Jobs : /\ jobs[j].status = "running" /\ jobs'[j].status # "running"
                          /\ x = <<j, jobs[j].attempts, jobs'[j].status>>
    BY EndedMember
  <2>2. /\ jobs[j].attempts \in Nat /\ jobs[j].attempts > 0
        /\ jobs'[j].attempts = jobs[j].attempts /\ jobs'[j].status \in Fate
    BY <2>1, EndKeeps
  <2>3. x[1] = j /\ x[2] = jobs[j].attempts /\ x[3] = jobs'[j].status
    BY <2>1
  <2>4. ASSUME NEW y \in Ended, x[1] = y[1]
        PROVE  x = y
    BY <2>1, <2>4, EndedMember
  <2>5. ASSUME NEW t \in tasks', x = <<t.job, t.attempts, "done">>
        PROVE  FALSE
    BY <2>1, <2>5 DEF Turns, Ends
  <2>6. x \in Jobs \X Nat \X Fate
    BY <2>1, <2>2
  <2>7. Overtaken(<<x[1], x[2]>>)' /\ ~Overtaken(<<x[1], x[2]>>)
    BY <2>1, <2>2, <2>3 DEF Overtaken
  <2> QED
    BY <2>2, <2>3, <2>4, <2>5, <2>6, <2>7
<1>2. ASSUME NEW x \in ended
      PROVE  /\ x \in Jobs \X Nat \X Fate
             /\ x[2] \in 1..jobs'[x[1]].attempts /\ Overtaken(<<x[1], x[2]>>)'
             /\ Overtaken(<<x[1], x[2]>>)
  <2>1. PICK j \in Jobs, n \in Nat : x[1] = j /\ x[2] = n
    BY DEF EndedInv
  <2>2. /\ x \in Jobs \X Nat \X Fate /\ n \in 1..jobs[j].attempts
        /\ jobs[j].status = "running" => jobs[j].attempts > n
        /\ Overtaken(<<x[1], x[2]>>)
    BY <2>1 DEF EndedInv, Overtaken
  <2>3. Moves(j) /\ jobs[j].attempts \in Nat /\ jobs'[j].attempts \in Nat
    BY DEF Turns, Steps, IInv, TypeOK, Row
  <2>4. n \in 1..jobs'[j].attempts /\ (jobs'[j].status = "running" => jobs'[j].attempts > n)
    BY <2>2, <2>3 DEF Moves
  <2> QED
    BY <2>1, <2>2, <2>4 DEF Overtaken
<1>3. ended' = ended \cup Ended
  BY DEF Turns
<1>4. ASSUME NEW x \in ended', NEW y \in ended', x[1] = y[1], x[2] = y[2]
      PROVE  x = y
  <2>1. CASE x \in ended /\ y \in ended
    BY <1>4, <2>1 DEF EndedInv
  <2>2. CASE x \in Ended /\ y \in Ended
    BY <1>1, <1>4, <2>2
  <2>3. CASE x \in ended /\ y \in Ended
    BY <1>1, <1>2, <1>4, <2>3
  <2>4. CASE x \in Ended /\ y \in ended
    BY <1>1, <1>2, <1>4, <2>4
  <2> QED
    BY <1>3, <2>1, <2>2, <2>3, <2>4
<1>5. ASSUME NEW u \in tasks', <<u.job, u.attempts, "done">> \in ended
      PROVE  FALSE
  <2>1. CASE \E t \in tasks : SameLease(u, t) /\ u.attempts = t.attempts
    BY <1>5, <2>1 DEF EndedInv, EndedAs, SameLease
  <2>2. CASE u.attempts = jobs[u.job].attempts + 1
    <3>1. u.attempts \in 1..jobs[u.job].attempts /\ u.job \in Jobs
      BY <1>5 DEF EndedInv
    <3>2. jobs[u.job].attempts \in Nat
      BY <3>1 DEF Turns, IInv, TypeOK, Row
    <3> QED
      BY <2>2, <3>1, <3>2
  <2> QED
    BY <2>1, <2>2 DEF Turns, Steps, TasksMove
<1>6. \A t \in tasks' : ~EndedAs(<<t.job, t.attempts>>, "done")'
  BY <1>1, <1>3, <1>5 DEF EndedAs
<1> QED
  BY <1>1, <1>2, <1>3, <1>4, <1>6 DEF EndedInv

-----------------------------------------------------------------------------
\* What an answer tells and what a counter says, each for itself.

Told(r) ==
  /\ r.source = "worker" => Gone(r.attempt)
  /\ r.source = "reaper" => r.affected
  /\ r.to = "done" => r.attempt \in succeeded
  /\ r.affected => EndedAs(r.attempt, r.to)
  /\ ~r.affected => Overtaken(r.attempt) /\ ~EndedAs(r.attempt, "done")

Known(c, a) ==
  /\ Gone(a)
  /\ c = "completed" => a \in succeeded /\ EndedAs(a, "done")
  /\ c = "failed" => EndedAs(a, "awaiting_retry") \/ EndedAs(a, "dead")
  /\ c = "fenced_out" => Overtaken(a) /\ ~EndedAs(a, "done")

\* The record and the successes only grow.
LEMMA RecordGrows ==
  ASSUME Turns
  PROVE  /\ succeeded \subseteq succeeded'
         /\ \A a, to : EndedAs(a, to) => EndedAs(a, to)'
BY DEF Turns, Steps, Reports, EndedAs

\* An answer stays true while it is on its way, whatever becomes of the row.
LEMMA ToldStays ==
  ASSUME Turns, NEW r \in Reply, Told(r)
  PROVE  Told(r)'
<1>1. r.attempt \in Jobs \X Nat /\ r.source \in {"worker", "reaper"}
  BY DEF Reply, Source
<1>2. r.source = "worker" => Gone(r.attempt)'
  BY GoneStays DEF Told, Turns
<1>3. ~r.affected => Overtaken(r.attempt)' /\ ~EndedAs(r.attempt, "done")'
  BY <1>1, GoneStays, EndedOnce DEF Told, Turns
<1> QED
  BY <1>2, <1>3, RecordGrows DEF Told

\* So does what a counter says of an attempt.
LEMMA KnownStays ==
  ASSUME Turns, NEW c, NEW a, Known(c, a)
  PROVE  Known(c, a)'
<1>1. a \in Jobs \X Nat /\ Gone(a)'
  BY GoneStays DEF Known, Turns, Gone
<1>2. c = "fenced_out" => Overtaken(a)' /\ ~EndedAs(a, "done")'
  BY <1>1, GoneStays, EndedOnce DEF Known, Turns
<1> QED
  BY <1>1, <1>2, RecordGrows DEF Known

\* A handler that timed out stays so.
LEMMA TimedOutStays ==
  ASSUME Turns, NEW a, TimedOutInv(a)
  PROVE  TimedOutInv(a)'
<1>0. /\ a[1] \in Jobs /\ a[2] \in Nat /\ a = <<a[1], a[2]>>
      /\ jobs[a[1]].attempts \in Nat /\ jobs'[a[1]].attempts \in Nat
      /\ a[2] \in 1..jobs[a[1]].attempts
  BY DEF TimedOutInv, Turns, IInv, TypeOK, Row
<1>1. a[2] \in 1..jobs'[a[1]].attempts
  BY <1>0 DEF Turns, Steps, Moves
<1>2. a \notin succeeded'
  BY DEF Turns, Steps, Reports, TimedOutInv
<1>3. ASSUME NEW u \in tasks', <<u.job, u.attempts>> = a
      PROVE  u.op # "none"
  <2>1. CASE \E t \in tasks : /\ SameLease(u, t) /\ u.attempts = t.attempts
                              /\ t.op \in {"none", u.op}
    BY <1>3, <2>1 DEF TimedOutInv, SameLease
  <2>2. CASE u.attempts = jobs[u.job].attempts + 1
    BY <1>0, <1>3, <2>2
  <2> QED
    BY <2>1, <2>2 DEF Turns, Steps, TasksMove
<1> QED
  BY <1>1, <1>2, <1>3 DEF TimedOutInv

-----------------------------------------------------------------------------
\* Answers come and go.

\* The answers of a step: what they tell is true, an affected one ends the attempt now, one
\* to a worker is about a task it had, and no two are about the same attempt.
NewAnswers(N) ==
  /\ answers' \subseteq answers \cup N /\ N \subseteq Reply
  /\ \A r \in N : /\ Told(r)'
                  /\ r.affected => ~Overtaken(r.attempt)
                  /\ r.source = "worker" => ~Gone(r.attempt)
  /\ \A r, s \in N : r.attempt = s.attempt => r = s

\* An attempt in the record is over.
LEMMA RecordOver ==
  ASSUME EndedInv, NEW a \in Jobs \X Nat, NEW to, EndedAs(a, to)
  PROVE  Overtaken(a)
<1>1. PICK x \in ended : x = <<a[1], a[2], to>>
  BY DEF EndedAs
<1>2. Overtaken(<<x[1], x[2]>>)
  BY DEF EndedInv
<1> QED
  BY <1>1, <1>2 DEF Overtaken

\* Every answer on its way is true, and alone.
LEMMA AnswersStep ==
  ASSUME EventInv, Turns, NEW N, NewAnswers(N)
  PROVE  answers' \subseteq Reply /\ \A r \in answers' : AnswerInv(r)'
<1>1. ASSUME NEW r \in answers
      PROVE  /\ r \in Reply /\ Told(r)' /\ r.attempt \in Jobs \X Nat
             /\ r.affected => Overtaken(r.attempt)
             /\ r.source = "worker" => Gone(r.attempt)
  <2>1. r \in Reply /\ Told(r) /\ r.attempt \in Jobs \X Nat
    BY DEF EventInv, AnswerInv, Told, Reply
  <2>2. EndedInv
    BY DEF EventInv
  <2>3. r.affected => Overtaken(r.attempt)
    BY <2>1, <2>2, RecordOver DEF Told
  <2> QED
    BY <2>1, <2>3, ToldStays DEF Told
<1>2. ASSUME NEW r \in answers', NEW s \in answers', s.attempt = r.attempt,
             \/ s.affected /\ r.affected
             \/ s.source = "worker" /\ r.source = "worker"
      PROVE  s = r
  <2>1. CASE r \in answers /\ s \in answers
    BY <1>2, <2>1 DEF EventInv, AnswerInv
  <2>2. CASE r \in N /\ s \in N
    BY <1>2, <2>2 DEF NewAnswers
  <2>3. CASE r \in answers /\ s \in N
    BY <1>1, <1>2, <2>3 DEF NewAnswers
  <2>4. CASE r \in N /\ s \in answers
    BY <1>1, <1>2, <2>4 DEF NewAnswers
  <2> QED
    BY <2>1, <2>2, <2>3, <2>4 DEF NewAnswers
<1>3. ASSUME NEW r \in answers'
      PROVE  r \in Reply /\ Told(r)'
  BY <1>1 DEF NewAnswers
<1>4. ASSUME NEW r \in answers'
      PROVE  AnswerInv(r)'
  BY <1>2, <1>3 DEF AnswerInv, Told
<1> QED
  BY <1>3, <1>4

\* The events emitted so far stay true.
LEMMA EventsStep ==
  ASSUME EventInv, Turns, NEW N, NewAnswers(N), UNCHANGED events
  PROVE  \A e \in events' : EmittedInv(e)'
<1> SUFFICES ASSUME NEW e \in events PROVE EmittedInv(e)'
  OBVIOUS
<1>1. EmittedInv(e) /\ EndedInv /\ e.attempt \in Jobs \X Nat
  BY DEF EventInv, EventRecord
<1>2. EndedAs(e.attempt, e.to)' /\ Overtaken(e.attempt)
  BY <1>1, RecordOver, RecordGrows DEF EmittedInv
<1>3. ASSUME NEW r \in answers', r.affected
      PROVE  r.attempt # e.attempt
  BY <1>1, <1>2, <1>3 DEF EmittedInv, NewAnswers
<1> QED
  BY <1>1, <1>2, <1>3 DEF EmittedInv

\* So do the counters.
LEMMA StatsStep ==
  ASSUME EventInv, Turns, NEW N, NewAnswers(N),
         \A w \in Workers, c \in Marks : stats'[w][c] \subseteq stats[w][c]
  PROVE  \A w \in Workers, c \in Marks : \A a \in stats'[w][c] : CountedInv(w, c, a)'
<1> SUFFICES ASSUME NEW w \in Workers, NEW c \in Marks, NEW a \in stats'[w][c]
             PROVE  CountedInv(w, c, a)'
  OBVIOUS
<1>1. CountedInv(w, c, a) /\ Known(c, a)
  BY DEF EventInv, CountedInv, Known
<1>2. Known(c, a)'
  BY <1>1, KnownStays
<1>3. ASSUME NEW r \in answers', r.source = "worker"
      PROVE  r.attempt # a
  BY <1>1, <1>3 DEF CountedInv, NewAnswers
<1>4. ASSUME NEW v \in Workers, NEW d \in Marks, a \in stats'[v][d]
      PROVE  v = w /\ d = c
  BY <1>1, <1>4 DEF CountedInv
<1> QED
  BY <1>2, <1>3, <1>4 DEF CountedInv, Known

-----------------------------------------------------------------------------
\* Counting.

StatsType == [Workers -> [Counters -> SUBSET (Jobs \X Nat)]]

\* fetch_add on one counter of one worker.
LEMMA BumpValue ==
  ASSUME stats \in StatsType, NEW w \in Workers, NEW c \in Counters, NEW a \in Jobs \X Nat,
         Bump(w, c, a)
  PROVE  /\ stats' \in StatsType
         /\ \A v \in Workers, d \in Counters :
              \A b : b \in stats'[v][d] <=> b \in stats[v][d] \/ (v = w /\ d = c /\ b = a)
<1>1. /\ stats' \in StatsType
      /\ \A v \in Workers, d \in Counters :
           stats'[v][d] = IF v = w /\ d = c THEN stats[v][d] \cup {a} ELSE stats[v][d]
  BY DEF Bump, StatsType
<1>2. ASSUME NEW v \in Workers, NEW d \in Counters, NEW b
      PROVE  b \in stats'[v][d] <=> b \in stats[v][d] \/ (v = w /\ d = c /\ b = a)
  <2>1. CASE v = w /\ d = c
    BY <1>1, <2>1
  <2>2. CASE ~(v = w /\ d = c)
    <3>1. stats'[v][d] = stats[v][d]
      BY <1>1, <2>2
    <3> QED
      BY <2>2, <3>1
  <2> QED
    BY <2>1, <2>2
<1> QED
  BY <1>1, <1>2

\* The counters of marks, and timed_out.
LEMMA MarkCounters ==
  Marks \subseteq Counters /\ "timed_out" \in Counters \ Marks
BY DEF Marks, Counters

\* timed_out goes on being true where it does not grow.
LEMMA TimedOutStep ==
  ASSUME EventInv, Turns,
         \A w \in Workers : stats'[w]["timed_out"] \subseteq stats[w]["timed_out"]
  PROVE  \A w \in Workers : \A a \in stats'[w]["timed_out"] : TimedOutInv(a)'
BY TimedOutStays DEF EventInv

\* A mark is counted: for the first time, and with no answer on its way.
LEMMA CountStep ==
  ASSUME EventInv, Turns, answers' \subseteq answers,
         NEW w \in Workers, NEW c \in Marks, NEW a, Known(c, a)', Bump(w, c, a),
         \A r \in answers' : r.source = "worker" => r.attempt # a,
         \A v \in Workers, d \in Marks : a \notin stats[v][d]
  PROVE  /\ stats' \in StatsType
         /\ \A v \in Workers, d \in Marks : \A b \in stats'[v][d] : CountedInv(v, d, b)'
         /\ \A v \in Workers : \A b \in stats'[v]["timed_out"] : TimedOutInv(b)'
<1>1. a \in Jobs \X Nat /\ stats \in StatsType
  BY DEF Known, Gone, EventInv, StatsType
<1>2. /\ stats' \in StatsType
      /\ \A v \in Workers, d \in Counters :
           \A b : b \in stats'[v][d] <=> b \in stats[v][d] \/ (v = w /\ d = c /\ b = a)
  BY <1>1, BumpValue, MarkCounters
<1>3. \A v \in Workers, d \in Marks : \A b :
        b \in stats'[v][d] <=> b \in stats[v][d] \/ (v = w /\ d = c /\ b = a)
  BY <1>2, MarkCounters
<1>4. ASSUME NEW v \in Workers, NEW d \in Marks, NEW b \in stats'[v][d]
      PROVE  CountedInv(v, d, b)'
  <2>1. CASE b = a
    <3>1. v = w /\ d = c
      BY <1>3, <2>1
    <3> QED
      BY <1>3, <2>1, <3>1 DEF CountedInv, Known
  <2>2. CASE b # a
    <3>1. b \in stats[v][d]
      BY <1>3, <2>2
    <3>2. CountedInv(v, d, b) /\ Known(d, b)
      BY <3>1 DEF EventInv, CountedInv, Known
    <3>3. Known(d, b)'
      BY <3>2, KnownStays
    <3>4. \A x \in Workers, y \in Marks : b \in stats'[x][y] => x = v /\ y = d
      BY <1>3, <2>2, <3>2 DEF CountedInv
    <3> QED
      BY <3>2, <3>3, <3>4 DEF CountedInv, Known
  <2> QED
    BY <2>1, <2>2
<1>5. \A v \in Workers : stats'[v]["timed_out"] \subseteq stats[v]["timed_out"]
  BY <1>2, MarkCounters
<1> QED
  BY <1>2, <1>4, <1>5, TimedOutStep

-----------------------------------------------------------------------------
\* The steps.

\* An attempt of a task that is there was never counted or answered to its worker.
LEMMA TaskOpen ==
  ASSUME EventInv, NEW t \in tasks, NEW a, a = <<t.job, t.attempts>>
  PROVE  /\ a \in Jobs \X Nat /\ ~Gone(a)
         /\ \A v \in Workers, d \in Marks : a \notin stats[v][d]
         /\ \A r \in answers : r.source = "worker" => r.attempt # a
<1>1. a \in Jobs \X Nat /\ ~Gone(a)
  BY DEF EventInv, IInv, TypeOK, Task, Gone
<1> QED
  BY <1>1 DEF EventInv, CountedInv, AnswerInv

\* A step that ends a task leaves none of its attempt.
LEMMA TaskOver ==
  ASSUME EventInv, Turns, NEW t \in tasks, tasks' = tasks \ {t}, NEW a, a = <<t.job, t.attempts>>
  PROVE  Gone(a)'
<1>1. /\ t.job \in Jobs /\ t.attempts \in Nat /\ t.attempts \in 1..jobs[t.job].attempts
      /\ jobs[t.job].attempts \in Nat /\ jobs'[t.job].attempts \in Nat
  BY DEF Turns, IInv, TypeOK, Task, TaskInv, Row
<1>2. jobs'[t.job].attempts >= jobs[t.job].attempts
  BY <1>1 DEF Turns, Steps, Moves
<1>3. ASSUME NEW u \in tasks'
      PROVE  <<u.job, u.attempts>> # a
  BY OneTask DEF Turns
<1> QED
  BY <1>1, <1>2, <1>3 DEF Gone

\* Steps that emit and count nothing.
LEMMA QuietStep ==
  ASSUME EventInv, Turns, UNCHANGED events, NEW N, NewAnswers(N), stats' \in StatsType,
         \A w \in Workers, c \in Counters : stats'[w][c] \subseteq stats[w][c]
  PROVE  EventInv'
<1>1. IInv' /\ AttemptInv' /\ EndedInv'
  BY EndedStep DEF Turns, EventInv
<1>2. answers' \subseteq Reply /\ \A r \in answers' : AnswerInv(r)'
  BY AnswersStep
<1>3. \A e \in events' : EmittedInv(e)'
  BY EventsStep
<1>4. \A w \in Workers, c \in Marks : \A a \in stats'[w][c] : CountedInv(w, c, a)'
  BY StatsStep, MarkCounters
<1>5. \A w \in Workers : \A a \in stats'[w]["timed_out"] : TimedOutInv(a)'
  BY TimedOutStep, MarkCounters
<1>6. events' \subseteq EventRecord
  BY DEF EventInv
<1> QED
  BY <1>1, <1>2, <1>3, <1>4, <1>5, <1>6 DEF EventInv, StatsType

\* No answer is new.
LEMMA NoneNew ==
  ASSUME answers' \subseteq answers
  PROVE  NewAnswers({})
BY DEF NewAnswers

\* A handler's return: a timeout is counted, and is no success.
LEMMA ReturnsStep ==
  ASSUME EventInv, Turns, NEW t \in tasks, NEW o \in Outcome, Returns(t, o)
  PROVE  EventInv'
<1>0. stats \in StatsType
  BY DEF EventInv, StatsType
<1>1. CASE UNCHANGED stats
  BY <1>0, <1>1, NoneNew, QuietStep DEF Returns
<1>2. CASE o = "timeout"
  <2>1. PICK a : a = <<t.job, t.attempts>>
    OBVIOUS
  <2>2. Bump(t.worker, "timed_out", a) /\ UNCHANGED <<answers, events>> /\ HandlerReturn(t, o)
    BY <1>2, <2>1 DEF Returns
  <2>3. a \in Jobs \X Nat /\ t.worker \in Workers /\ t \in Task
    BY <2>1 DEF EventInv, IInv, TypeOK, Task
  <2>4. /\ stats' \in StatsType
        /\ \A v \in Workers, d \in Counters :
             \A b : b \in stats'[v][d] <=>
                      b \in stats[v][d] \/ (v = t.worker /\ d = "timed_out" /\ b = a)
    BY <1>0, <2>2, <2>3, BumpValue, MarkCounters
  <2>5. TimedOutInv(a)'
    <3>1. t.op = "none" /\ a \notin succeeded /\ t.attempts \in 1..jobs[t.job].attempts
      BY <2>1, <2>2 DEF EventInv, IInv, TaskInv, HandlerReturn, AttemptInv
    <3>2. PICK v : v = Verdict(t, o)
      OBVIOUS
    <3>3. PICK u : u = [t EXCEPT !.pc = "mark", !.op = v]
      OBVIOUS
    <3>4. v # "none"
      BY <3>2 DEF Verdict
    <3>5. u.op = v
      BY <2>3, <3>3 DEF Task
    <3>6. tasks' = (tasks \ {t}) \cup {u} /\ UNCHANGED <<jobs, succeeded>>
      BY <1>2, <2>2, <3>2, <3>3 DEF HandlerReturn
    <3>7. ASSUME NEW x \in tasks', <<x.job, x.attempts>> = a
          PROVE  x.op # "none"
      <4>1. x \notin tasks \ {t}
        BY <2>1, <3>7, OneTask DEF Turns
      <4> QED
        BY <3>4, <3>5, <3>6, <4>1
    <3> QED
      BY <2>1, <2>3, <3>1, <3>6, <3>7 DEF TimedOutInv
  <2>6. \A v \in Workers : \A b \in stats'[v]["timed_out"] : TimedOutInv(b)'
    <3>1. ASSUME NEW v \in Workers, NEW b \in stats'[v]["timed_out"], b # a
          PROVE  TimedOutInv(b)
      BY <2>4, <3>1, MarkCounters DEF EventInv
    <3> QED
      BY <2>5, <3>1, TimedOutStays
  <2>7. \A v \in Workers, d \in Marks : stats'[v][d] \subseteq stats[v][d]
    BY <2>4, MarkCounters
  <2>8. IInv' /\ AttemptInv' /\ EndedInv'
    BY EndedStep DEF Turns, EventInv
  <2>9. NewAnswers({})
    BY <2>2, NoneNew
  <2>10. answers' \subseteq Reply /\ \A r \in answers' : AnswerInv(r)'
    BY <2>9, AnswersStep
  <2>11. \A e \in events' : EmittedInv(e)'
    BY <2>2, <2>9, EventsStep
  <2>12. \A w \in Workers, c \in Marks : \A b \in stats'[w][c] : CountedInv(w, c, b)'
    BY <2>7, <2>9, StatsStep
  <2> QED
    BY <2>2, <2>4, <2>6, <2>8, <2>10, <2>11, <2>12 DEF EventInv, StatsType
<1> QED
  BY <1>1, <1>2 DEF Returns

\* The mark of a handler's result: its rows_affected tells what became of the attempt.
LEMMA MarkExecutedStep ==
  ASSUME EventInv, Turns, NEW t \in tasks, MarkExecuted(t)
  PROVE  EventInv'
<1>1. PICK a : a = <<t.job, t.attempts>>
  OBVIOUS
<1>2. PICK r : r = Answer(t.worker, t.job, t.attempts, "worker", Holds(jobs[t.job], t.token))
  OBVIOUS
<1>3. /\ MarkAnswered(t) /\ MarkCommit(StmtOf(t)) /\ tasks' = tasks \ {t} /\ t.pc = "mark"
      /\ answers' = answers \cup {r} /\ UNCHANGED <<stats, events, succeeded>>
  BY <1>2 DEF MarkExecuted, MarkAnswered
<1>4. /\ t \in Task /\ TaskInv(t) /\ t.token = t.attempts /\ t.job \in Jobs
      /\ jobs \in [Jobs -> Row] /\ jobs[t.job].attempts \in Nat /\ t.attempts \in Nat
      /\ jobs[t.job].status = "running" => jobs[t.job].lease_token = jobs[t.job].attempts
      /\ t.op \in Op
  BY <1>3 DEF EventInv, IInv, TypeOK, Task, Row, AttemptInv, TaskInv
<1>5. Gone(a)' /\ ~Gone(a) /\ a \in Jobs \X Nat
  BY <1>1, <1>3, TaskOver, TaskOpen
<1>6. NewAnswers({r})
  <2>1. CASE Holds(jobs[t.job], t.token)
    <3>1. PICK to : to = jobs'[t.job].status
      OBVIOUS
    <3>2. r = [worker |-> t.worker, attempt |-> a, source |-> "worker", affected |-> TRUE,
               to |-> to]
      BY <1>1, <1>2, <2>1, <3>1 DEF Answer
    <3>3. PICK d \in BOOLEAN : jobs' = [jobs EXCEPT ![t.job] = Marked(@, t.op, d)]
      BY <1>3, <2>1 DEF MarkCommit, StmtOf
    <3>4. Settled(jobs[t.job], t.op, jobs'[t.job])
      BY <1>4, <3>3, MarkedRow
    <3>5. to \in Fate /\ (to = "done" => t.op = "done") /\ to # "running"
      BY <3>1, <3>4 DEF Settled, Fate
    <3>6. jobs[t.job].status = "running" /\ jobs[t.job].attempts = t.attempts
      BY <1>4, <2>1 DEF Holds, TaskInv
    <3>7. EndedAs(a, to)'
      <4>1. <<t.job, t.attempts, to>> \in Ended
        BY <1>4, <3>1, <3>5, <3>6, EndedMember
      <4> QED
        BY <1>1, <4>1 DEF EndedAs, Turns
    <3>8. to = "done" => a \in succeeded'
      BY <1>1, <1>3, <1>4, <3>5 DEF TaskInv
    <3>9. ~Overtaken(a)
      BY <1>1, <1>4, <3>6 DEF Overtaken
    <3>10. /\ r \in Reply /\ r.attempt = a /\ r.to = to /\ r.affected = TRUE
           /\ r.source = "worker"
      BY <1>4, <1>5, <3>2, <3>5 DEF Reply, Source, Task
    <3>11. Told(r)'
      BY <1>5, <3>7, <3>8, <3>10 DEF Told
    <3> QED
      BY <1>3, <1>5, <3>9, <3>10, <3>11 DEF NewAnswers
  <2>2. CASE ~Holds(jobs[t.job], t.token)
    <3>1. r = [worker |-> t.worker, attempt |-> a, source |-> "worker", affected |-> FALSE,
               to |-> "none"]
      <4>1. Holds(jobs[t.job], t.token) = FALSE
        BY <2>2 DEF Holds
      <4>2. r = Answer(t.worker, t.job, t.attempts, "worker", FALSE)
        BY <1>2, <4>1
      <4> QED
        BY <1>1, <4>2 DEF Answer
    <3>2. UNCHANGED jobs
      BY <1>3, <2>2 DEF MarkCommit, StmtOf
    <3>3. Overtaken(a)
      BY <1>1, <1>4, <2>2 DEF Overtaken, Holds, TaskInv
    <3>4. Overtaken(a)'
      BY <3>2, <3>3 DEF Overtaken
    <3>5. ~EndedAs(a, "done")
      BY <1>1 DEF EventInv, EndedInv
    <3>6. ~EndedAs(a, "done")'
      BY <1>5, <3>3, <3>5, EndedOnce
    <3>7. /\ r \in Reply /\ r.attempt = a /\ r.to = "none" /\ r.affected = FALSE
          /\ r.source = "worker"
      BY <1>4, <1>5, <3>1 DEF Reply, Source, Task
    <3>8. Told(r)'
      BY <1>5, <3>4, <3>6, <3>7 DEF Told
    <3> QED
      BY <1>3, <1>5, <3>7, <3>8 DEF NewAnswers
  <2> QED
    BY <2>1, <2>2
<1> QED
  BY <1>3, <1>6, QuietStep DEF EventInv, StatsType

\* A sweep of the reaper: each row it returns is an attempt that it ended.
LEMMA SweptStep ==
  ASSUME EventInv, Turns, NEW w \in Workers, NEW S \in SUBSET Jobs, Swept(w, S)
  PROVE  EventInv'
<1>1. PICK N : N = {Answer(w, j, jobs[j].attempts, "reaper", TRUE) : j \in S}
  OBVIOUS
<1>2. /\ Reap(S) /\ answers' = answers \cup N /\ UNCHANGED <<stats, events>>
      /\ jobs \in [Jobs -> Row]
  BY <1>1 DEF Swept, EventInv, IInv, TypeOK
<1>3. ASSUME NEW j \in S, NEW a, a = <<j, jobs[j].attempts>>, NEW to, to = jobs'[j].status
      PROVE  /\ a \in Jobs \X Nat /\ to \in {"dead", "awaiting_retry"}
             /\ EndedAs(a, to)' /\ ~Overtaken(a)
  <2>1. /\ j \in Jobs /\ jobs[j] \in Row /\ jobs[j].status = "running"
        /\ jobs[j].attempts \in Nat /\ jobs'[j] = Reaped(jobs[j])
    BY <1>2 DEF Reap, Stale, Row
  <2>2. to \in {"dead", "awaiting_retry"}
    BY <1>3, <2>1, ReapedRow
  <2>3. <<j, jobs[j].attempts, to>> \in Ended
    BY <1>3, <2>1, <2>2, EndedMember
  <2>4. a[1] = j /\ a[2] = jobs[j].attempts /\ a \in Jobs \X Nat
    BY <1>3, <2>1
  <2>5. EndedAs(a, to)'
    BY <2>3, <2>4 DEF EndedAs, Turns
  <2>6. ~Overtaken(a)
    BY <2>1, <2>4 DEF Overtaken
  <2> QED
    BY <2>2, <2>4, <2>5, <2>6
<1>4. ASSUME NEW r \in N
      PROVE  /\ r \in Reply /\ Told(r)' /\ r.affected = TRUE /\ r.source = "reaper"
             /\ ~Overtaken(r.attempt)
             /\ \A s \in N : r.attempt = s.attempt => r = s
  <2>1. PICK j \in S : r = Answer(w, j, jobs[j].attempts, "reaper", TRUE)
    BY <1>1
  <2>2. PICK a, to : a = <<j, jobs[j].attempts>> /\ to = jobs'[j].status
    OBVIOUS
  <2>3. r = [worker |-> w, attempt |-> a, source |-> "reaper", affected |-> TRUE, to |-> to]
    BY <2>1, <2>2 DEF Answer
  <2>4. /\ a \in Jobs \X Nat /\ to \in {"dead", "awaiting_retry"}
        /\ EndedAs(a, to)' /\ ~Overtaken(a)
    BY <1>3, <2>2
  <2>5. /\ r \in Reply /\ r.attempt = a /\ r.to = to /\ r.affected = TRUE
        /\ r.source = "reaper"
    BY <2>3, <2>4 DEF Reply, Source, Fate
  <2>6. Told(r)'
    BY <2>4, <2>5 DEF Told
  <2>7. ASSUME NEW s \in N, r.attempt = s.attempt
        PROVE  r = s
    <3>1. PICK i \in S : s = Answer(w, i, jobs[i].attempts, "reaper", TRUE)
      BY <1>1
    <3>2. s.attempt = <<i, jobs[i].attempts>>
      BY <3>1 DEF Answer
    <3>3. r.attempt = <<j, jobs[j].attempts>>
      BY <2>2, <2>5
    <3>4. i = j
      BY <2>7, <3>2, <3>3
    <3> QED
      BY <2>1, <3>1, <3>4
  <2> QED
    BY <2>4, <2>5, <2>6, <2>7
<1>5. NewAnswers(N)
  BY <1>2, <1>4 DEF NewAnswers
<1> QED
  BY <1>2, <1>5, QuietStep DEF EventInv, StatsType

\* A mark without an answer: mark_timed_out, or nothing, is counted.
LEMMA MarkGivenUpStep ==
  ASSUME EventInv, Turns, NEW t \in tasks, MarkGivenUp(t)
  PROVE  EventInv'
<1>0. UNCHANGED <<answers, events>> /\ stats \in StatsType /\ tasks' = tasks \ {t}
  BY DEF MarkGivenUp, MarkUnanswered, EventInv, StatsType
<1>1. NewAnswers({})
  BY <1>0, NoneNew
<1>2. CASE UNCHANGED stats
  BY <1>0, <1>1, <1>2, QuietStep
<1>3. PICK a : a = <<t.job, t.attempts>>
  OBVIOUS
<1>4. CASE Bump(t.worker, "mark_timed_out", a)
  <2>1. /\ \A v \in Workers, d \in Marks : a \notin stats[v][d]
        /\ \A r \in answers' : r.source = "worker" => r.attempt # a
    BY <1>0, <1>3, TaskOpen
  <2>2. Known("mark_timed_out", a)'
    BY <1>0, <1>3, TaskOver DEF Known
  <2>3. t.worker \in Workers /\ "mark_timed_out" \in Marks
    BY DEF EventInv, IInv, TypeOK, Task, Marks
  <2>4. /\ stats' \in StatsType
        /\ \A v \in Workers, d \in Marks : \A b \in stats'[v][d] : CountedInv(v, d, b)'
        /\ \A v \in Workers : \A b \in stats'[v]["timed_out"] : TimedOutInv(b)'
    BY <1>0, <1>4, <2>1, <2>2, <2>3, CountStep
  <2>5. IInv' /\ AttemptInv' /\ EndedInv'
    BY EndedStep DEF Turns, EventInv
  <2>6. answers' \subseteq Reply /\ \A r \in answers' : AnswerInv(r)'
    BY <1>1, AnswersStep
  <2>7. \A e \in events' : EmittedInv(e)'
    BY <1>0, <1>1, EventsStep
  <2> QED
    BY <1>0, <2>4, <2>5, <2>6, <2>7 DEF EventInv, StatsType
<1> QED
  BY <1>2, <1>3, <1>4 DEF MarkGivenUp

\* The answer arrives: it is counted once and emitted once, as what it says.
LEMMA DeliveredStep ==
  ASSUME EventInv, Turns, NEW r \in answers, Delivered(r)
  PROVE  EventInv'
<1>0. /\ answers' = answers \ {r} /\ stats \in StatsType
      /\ r \in Reply /\ AnswerInv(r) /\ r.attempt \in Jobs \X Nat /\ r.worker \in Workers
      /\ r.source \in Source /\ r.affected \in BOOLEAN
  BY DEF Delivered, EventInv, StatsType, Reply
<1>1. Told(r)'
  BY <1>0, ToldStays DEF AnswerInv, Told
<1>2. NewAnswers({})
  BY <1>0, NoneNew
<1>3. IInv' /\ AttemptInv' /\ EndedInv'
  BY EndedStep DEF Turns, EventInv
<1>4. answers' \subseteq Reply /\ \A s \in answers' : AnswerInv(s)'
  BY <1>2, AnswersStep
<1>5. /\ stats' \in StatsType
      /\ \A v \in Workers, d \in Marks : \A b \in stats'[v][d] : CountedInv(v, d, b)'
      /\ \A v \in Workers : \A b \in stats'[v]["timed_out"] : TimedOutInv(b)'
  <2>1. CASE r.source = "reaper"
    <3>1. UNCHANGED stats
      BY <2>1 DEF Delivered, Counter
    <3> QED
      BY <1>0, <1>2, <3>1, StatsStep, TimedOutStep
  <2>2. CASE r.source = "worker"
    <3>1. PICK c : c = Counter(r)
      OBVIOUS
    <3>2. c \in Marks /\ Known(c, r.attempt)'
      <4>1. CASE ~r.affected
        <5>1. c = "fenced_out"
          BY <2>2, <3>1, <4>1 DEF Counter
        <5> QED
          BY <1>1, <2>2, <4>1, <5>1 DEF Known, Told, Marks
      <4>2. CASE r.affected /\ r.to = "done"
        <5>1. c = "completed"
          BY <2>2, <3>1, <4>2 DEF Counter
        <5> QED
          BY <1>1, <2>2, <4>2, <5>1 DEF Known, Told, Marks
      <4>3. CASE r.affected /\ r.to # "done"
        <5>1. c = "failed"
          BY <2>2, <3>1, <4>3 DEF Counter
        <5>2. EndedAs(r.attempt, r.to)'
          BY <1>1, <4>3 DEF Told
        <5>3. r.to \in Fate
          BY <1>3, <5>2 DEF EndedInv, EndedAs
        <5> QED
          BY <1>1, <2>2, <4>3, <5>1, <5>2, <5>3 DEF Known, Told, Marks, Fate
      <4> QED
        BY <1>0, <4>1, <4>2, <4>3
    <3>3. Bump(r.worker, c, r.attempt)
      BY <3>1, <3>2 DEF Delivered, Marks
    <3>4. \A s \in answers' : s.source = "worker" => s.attempt # r.attempt
      BY <1>0, <2>2 DEF AnswerInv
    <3>5. \A v \in Workers, d \in Marks : r.attempt \notin stats[v][d]
      BY <2>2 DEF EventInv, CountedInv
    <3> QED
      BY <1>0, <3>2, <3>3, <3>4, <3>5, CountStep
  <2> QED
    BY <1>0, <2>1, <2>2 DEF Source
<1>6. /\ events' \subseteq EventRecord
      /\ \A e \in events' : EmittedInv(e)'
  <2>1. CASE ~r.affected
    <3>1. UNCHANGED events
      BY <2>1 DEF Delivered, Emitted
    <3> QED
      BY <1>2, <3>1, EventsStep DEF EventInv
  <2>2. CASE r.affected
    <3>1. PICK n : n = Event(r)
      OBVIOUS
    <3>2. events' = events \cup {n}
      BY <2>2, <3>1 DEF Delivered, Emitted
    <3>3. n.attempt = r.attempt /\ n.to = r.to
      BY <3>1 DEF Event
    <3>4. EndedAs(r.attempt, r.to)'
      BY <1>1, <2>2 DEF Told
    <3>5. r.to \in Fate
      BY <1>3, <3>4 DEF EndedInv, EndedAs
    <3>6. n \in EventRecord
      BY <1>0, <3>1, <3>5 DEF Event, EventRecord
    <3>7. \A e \in events : e.attempt # r.attempt
      BY <2>2 DEF EventInv, EmittedInv
    <3>8. \A s \in answers' : s.affected => s.attempt # r.attempt
      BY <1>0, <2>2 DEF AnswerInv
    <3>9. EmittedInv(n)'
      BY <3>2, <3>3, <3>4, <3>7, <3>8 DEF EmittedInv
    <3>10. ASSUME NEW e \in events
           PROVE  EmittedInv(e)'
      <4>1. EmittedInv(e)
        BY DEF EventInv
      <4> QED
        BY <1>0, <3>2, <3>3, <3>7, <4>1, RecordGrows DEF EmittedInv
    <3> QED
      BY <3>2, <3>6, <3>9, <3>10 DEF EventInv
  <2> QED
    BY <2>1, <2>2
<1> QED
  BY <1>3, <1>4, <1>5, <1>6 DEF EventInv, StatsType

\* A worker that restarts has empty counters, and gets no answer any more.
LEMMA RestartStep ==
  ASSUME EventInv, Turns, NEW w \in Workers, Restart(w)
  PROVE  EventInv'
<1>1. answers' \subseteq answers /\ UNCHANGED events
  BY DEF Restart
<1>2. stats \in StatsType /\ stats' = [stats EXCEPT ![w] = Fresh]
  BY DEF Restart, EventInv, StatsType
<1>3. Fresh \in [Counters -> SUBSET (Jobs \X Nat)] /\ \A c \in Counters : Fresh[c] = {}
  BY DEF Fresh
<1>4. stats' \in StatsType
  BY <1>2, <1>3 DEF StatsType
<1>5. \A v \in Workers : stats'[v] = IF v = w THEN Fresh ELSE stats[v]
  BY <1>2 DEF StatsType
<1>6. ASSUME NEW v \in Workers, NEW c \in Counters
      PROVE  stats'[v][c] \subseteq stats[v][c]
  BY <1>3, <1>5
<1> QED
  BY <1>1, <1>4, <1>6, NoneNew, QuietStep

\* Every step of the queue, of the answers and of the clock keeps EventInv.
LEMMA EventNextInv == EventInv /\ [EventNext]_allVars => EventInv'
<1> SUFFICES ASSUME EventInv, [EventNext]_allVars PROVE EventInv'
  OBVIOUS
<1>0. Turns /\ stats \in StatsType
  BY EventTurns DEF EventInv, StatsType
<1>1. CASE UNCHANGED <<stats, answers, events>>
  BY <1>0, <1>1, NoneNew, QuietStep
<1>2. ASSUME NEW t \in tasks, NEW o \in Outcome, Returns(t, o)
      PROVE  EventInv'
  BY <1>0, <1>2, ReturnsStep
<1>3. ASSUME NEW t \in tasks, MarkExecuted(t) \/ MarkGivenUp(t)
      PROVE  EventInv'
  BY <1>0, <1>3, MarkExecutedStep, MarkGivenUpStep
<1>4. ASSUME NEW w \in Workers, NEW S \in SUBSET Jobs, Swept(w, S)
      PROVE  EventInv'
  BY <1>0, <1>4, SweptStep
<1>5. ASSUME NEW r \in answers, Delivered(r)
      PROVE  EventInv'
  BY <1>0, <1>5, DeliveredStep
<1>6. ASSUME NEW r \in answers, Lost(r)
      PROVE  EventInv'
  <2>1. answers' \subseteq answers /\ UNCHANGED <<stats, events>>
    BY <1>6 DEF Lost
  <2> QED
    BY <1>0, <2>1, NoneNew, QuietStep
<1>7. ASSUME NEW w \in Workers, Restart(w)
      PROVE  EventInv'
  BY <1>0, <1>7, RestartStep
<1> QED
  BY <1>1, <1>2, <1>3, <1>4, <1>5, <1>6, <1>7 DEF EventNext, allVars, eventVars

\* Nothing is counted, emitted or on its way before the first push.
LEMMA EventInitInv == EventInit => EventInv
<1> SUFFICES ASSUME EventInit PROVE EventInv
  OBVIOUS
<1>1. IInv /\ AttemptInv /\ tasks = {}
  BY InitInv DEF EventInit, Init, AttemptInv, AbsentRow
<1>2. EndedInv
  BY <1>1 DEF EventInit, EndedInv
<1>3. Fresh \in [Counters -> SUBSET (Jobs \X Nat)] /\ \A c \in Counters : Fresh[c] = {}
  BY DEF Fresh
<1>4. stats \in [Workers -> [Counters -> SUBSET (Jobs \X Nat)]]
  BY <1>3 DEF EventInit
<1>5. \A w \in Workers, c \in Counters : stats[w][c] = {}
  BY <1>3 DEF EventInit
<1> QED
  BY <1>1, <1>2, <1>4, <1>5, MarkCounters DEF EventInit, EventInv

\* The inductive invariant of events, counters and answers: see EventInv.
THEOREM EventInvariance == EventSpec => []EventInv
BY EventInitInv, EventNextInv, PTL DEF EventSpec

\* emit_transition: of each attempt at most one event, emitted or on its way, reports the end,
\* and it says what became of the attempt, for any number of jobs, workers and restarts: see EventsTrue.
THEOREM EventsAreTrue == EventSpec => []EventsTrue
<1>1. EventInv => EventsTrue
  <2> SUFFICES ASSUME EventInv PROVE EventsTrue
    OBVIOUS
  <2>1. PICK sent, way : /\ sent = Transitions(events)
                         /\ way = Transitions(UNION {Emitted(r) : r \in answers})
    OBVIOUS
  <2>0. sent \subseteq events
    BY <2>1 DEF Transitions
  <2>2. ASSUME NEW e \in way
        PROVE  \E r \in answers : /\ r.affected /\ e.attempt = r.attempt /\ e.to = r.to
                                  /\ e = Event(r)
    <3>1. PICK r \in answers : e \in Emitted(r)
      BY <2>1 DEF Transitions
    <3> QED
      BY <3>1 DEF Emitted, Event
  <2>3. \A r \in answers : AnswerInv(r)
    BY DEF EventInv
  <2>4. \A e \in sent \cup way : <<e.attempt[1], e.attempt[2], e.to>> \in ended
    BY <2>0, <2>2, <2>3 DEF EventInv, EmittedInv, AnswerInv, EndedAs
  <2>5. ASSUME NEW e \in sent, NEW f \in way PROVE e.attempt # f.attempt
    <3>1. PICK r \in answers : r.affected /\ f.attempt = r.attempt
      BY <2>2
    <3>2. EmittedInv(e)
      BY <2>0 DEF EventInv
    <3> QED
      BY <3>1, <3>2 DEF EmittedInv
  <2>6. \A e, f \in sent : e.attempt = f.attempt => e = f
    BY <2>0 DEF EventInv, EmittedInv
  <2>7. ASSUME NEW e \in way, NEW f \in way, e.attempt = f.attempt
        PROVE  e = f
    <3>1. PICK r \in answers : r.affected /\ e.attempt = r.attempt /\ e = Event(r)
      BY <2>2
    <3>2. PICK s \in answers : s.affected /\ f.attempt = s.attempt /\ f = Event(s)
      BY <2>2
    <3>3. r = s
      BY <2>3, <2>7, <3>1, <3>2 DEF AnswerInv
    <3> QED
      BY <3>1, <3>2, <3>3
  <2> QED
    BY <2>1, <2>4, <2>5, <2>6, <2>7 DEF EventsTrue
<1> QED
  BY <1>1, EventInvariance, PTL

\* AtomicStats: over all workers, an attempt is in one counter of the marks at most, and in
\* the one for what its mark did: see StatsTrue.
THEOREM CountersAreTrue == EventSpec => []StatsTrue
<1>1. EventInv => StatsTrue
  <2> SUFFICES ASSUME EventInv PROVE StatsTrue
    OBVIOUS
  <2>1. \A w \in Workers, c \in Marks : \A a \in stats[w][c] : CountedInv(w, c, a)
    BY DEF EventInv
  <2>2. \A w \in Workers : \A a \in stats[w]["timed_out"] : a \notin succeeded
    BY DEF EventInv, TimedOutInv
  <2>3. ASSUME NEW w \in Workers
        PROVE  /\ \A a \in stats[w]["completed"] :
                    a \in succeeded /\ <<a[1], a[2], "done">> \in ended
               /\ \A a \in stats[w]["failed"] :
                    \/ <<a[1], a[2], "awaiting_retry">> \in ended
                    \/ <<a[1], a[2], "dead">> \in ended
               /\ \A a \in stats[w]["fenced_out"] : <<a[1], a[2], "done">> \notin ended
    BY <2>1 DEF CountedInv, EndedAs, Marks
  <2>4. ASSUME NEW v \in Workers, NEW w \in Workers, NEW c \in Marks, NEW d \in Marks,
               <<v, c>> # <<w, d>>
        PROVE  stats[v][c] \cap stats[w][d] = {}
    BY <2>1, <2>4 DEF CountedInv
  <2> QED
    BY <2>2, <2>3, <2>4 DEF StatsTrue
<1> QED
  BY <1>1, EventInvariance, PTL

=============================================================================
