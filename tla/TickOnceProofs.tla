--------------------------- MODULE TickOnceProofs ---------------------------
(***************************************************************************)
(* Proofs about TickOnce, for any number of jobs, of started workers and   *)
(* of callers of tick_once: the table is as safe with this second driver   *)
(* as without it, and a call's TickStats are true.                         *)
(***************************************************************************)
EXTENDS TickOnce, WorkQueueProofs, FiniteSetTheorems

\* One job of the batch is called: a task moves on, and the table does not change.
LEMMA CallStep ==
  ASSUME IInv, NEW t \in tasks, TickCall(t)
  PROVE  IInv' /\ Steps
<1>0. t \in Task /\ TaskInv(t) /\ tasks \subseteq Task /\ t.pc = "decode"
  BY DEF IInv, TypeOK, TickCall
<1>1. PICK u : u = [t EXCEPT !.pc = "handler"]
  OBVIOUS
<1>2. /\ u \in Task /\ SameLease(u, t) /\ u.pc = "handler" /\ u.op = t.op
      /\ u.attempts = t.attempts /\ u.max_attempts = t.max_attempts
  BY <1>0, <1>1 DEF Task, SameLease
<1>3. /\ tasks' = (tasks \ {t}) \cup {u} /\ UNCHANGED <<jobs, issued, late, succeeded>>
      /\ invoked' = invoked \cup {<<t.job, t.attempts>>}
  BY <1>1 DEF TickCall, Attempt
<1>4. TaskInv(u)'
  BY <1>0, <1>2, <1>3 DEF TaskInv, SameLease
<1>5. PICK f : f = [x \in {t} |-> u]
  OBVIOUS
<1>6. /\ f \in [{t} -> Task] /\ {f[x] : x \in {t}} = {u} /\ {t} \in SUBSET tasks
      /\ \A x \in {t} : SameLease(f[x], x) /\ TaskInv(f[x])'
  BY <1>2, <1>4, <1>5
<1>7. invoked' \subseteq Jobs \X Nat /\ succeeded' \subseteq Jobs \X Nat
  BY <1>0, <1>3 DEF IInv, TypeOK, Task
<1>8. IInv'
  BY <1>3, <1>6, <1>7, AdvanceStep
<1>9. ASSUME NEW x \in tasks'
      PROVE  \E y \in tasks : SameLease(x, y) /\ x.attempts = y.attempts /\ x.op = y.op
  BY <1>2, <1>3 DEF SameLease
<1> QED
  BY <1>3, <1>8, <1>9, TasksAdvance

\* Every other step of a call is a step of a worker, as far as the table goes.
LEMMA TickIsStep ==
  ASSUME [TickNext]_tickVars
  PROVE  [Next]_vars \/ \E t \in tasks : TickCall(t)
<1>1. ASSUME NEW w \in Tickers, Ticker(w)
      PROVE  [Next]_vars
  <2>1. w \in Workers
    BY TickerAssumption DEF TickerAssumption
  <2> QED
    BY <1>1, <2>1 DEF Ticker, TickClaim, TickClaimFails, TickDecoded, TickReturns,
                      TickUnwinds, Next, Poll
<1>2. ASSUME NEW t \in tasks, TickTask(t)
      PROVE  [Next]_vars \/ TickCall(t)
  <2>1. CASE TickReject(t) \/ TickHandlerReturn(t) \/ TickMarkAnswered(t) \/ TickMarkFails(t)
    <3>1. HandleJob(t)
      BY <2>1 DEF TickReject, TickHandlerReturn, TickMarkAnswered, TickMarkFails,
                  HandleJob, Outcome
    <3> QED
      BY <3>1 DEF Next
  <2> QED
    BY <1>2, <2>1 DEF TickTask
<1>3. CASE UNCHANGED tickVars
  BY <1>3 DEF tickVars
<1> QED
  BY <1>1, <1>2, <1>3 DEF TickNext, Started, Next

\* The table keeps its invariants under tick_once.
LEMMA TickSteps ==
  ASSUME IInv, AttemptInv, [TickNext]_tickVars
  PROVE  IInv' /\ AttemptInv' /\ Steps
BY TickIsStep, CallStep, NextInv, NextSteps, AttemptStep

-----------------------------------------------------------------------------
\* CallInv and TickStatsTrue of one worker, attempt by attempt.
Counts(st) ==
  /\ \A c \in Results : \A a \in st[c] : Gone(a)
  /\ \A a \in st["completed"] : Finished(a)
  /\ \A a \in st["failed"] : a \notin succeeded
  /\ \A a \in st["fenced_out"] : Overtaken(a)
  /\ \A c, d \in Results : \A a \in st[c] : a \in st[d] => c = d

Opens(w, st) ==
  /\ \A a : a \in st["claimed"] <=> \/ \E c \in Results : a \in st[c]
                                    \/ \E t \in TasksOf(w) : a = Attempt(t)
  /\ \A t \in Batch(w) : ~Undecodable(t)
  /\ \A t, u \in TasksOf(w) : t.pc # "decode" /\ u.pc # "decode" => t = u

Waits(w) ==
  /\ tick[w].pc = "none" => TasksOf(w) = {}
  /\ tick[w].pc # "loop" => tick[w].stats = NoStats /\ TasksOf(w) = Batch(w)

KeepsRows(w) ==
  /\ tick[w].pc = "decode" =>
       \A a : a \in Decoded(w) <=> \E t \in TasksOf(w) : a = Attempt(t) /\ t.job \in Decodes[w]
  /\ tick[w].pc = "loop" => tick[w].stats["claimed"] = Decoded(w)

Truth(w) ==
  /\ Waits(w) /\ KeepsRows(w)
  /\ tick[w].pc = "loop" => Counts(tick[w].stats) /\ Opens(w, tick[w].stats)

\* The counters, by name.
LEMMA ResultCounters ==
  /\ Results = {"completed", "failed", "fenced_out", "unmarked"}
  /\ Counters = Results \cup {"claimed"} /\ "claimed" \notin Results
BY DEF Counters, Results

\* Attempt by attempt, it is what TickInv says.
LEMMA TruthIsTickInv ==
  ASSUME IInv, AttemptInv, tick \in [Tickers -> Call], \A w \in Tickers : Truth(w)
  PROVE  TickInv
<1>1. ASSUME NEW w \in Tickers
      PROVE  CallInv(w)
  <2>1. Truth(w)
    OBVIOUS
  <2>2. ASSUME tick[w].pc = "loop"
        PROVE  /\ \A t \in Batch(w) : ~Undecodable(t)
               /\ \A t, u \in TasksOf(w) : t.pc # "decode" /\ u.pc # "decode" => t = u
               /\ \A c \in Results : \A a \in tick[w].stats[c] :
                    a[2] \in 1..jobs[a[1]].attempts /\ \A t \in tasks : Attempt(t) # a
    <3>1. Counts(tick[w].stats) /\ Opens(w, tick[w].stats)
      BY <2>1, <2>2 DEF Truth
    <3> QED
      BY <3>1, ResultCounters DEF Counts, Opens, Gone, Attempt
  <2>3. ASSUME tick[w].pc = "decode"
        PROVE  Decoded(w) = {a \in Open(w) : a[1] \in Decodes[w]}
    <3>1. \A a : a \in Decoded(w) <=>
                 \E t \in TasksOf(w) : a = Attempt(t) /\ t.job \in Decodes[w]
      BY <2>1, <2>3 DEF Truth, KeepsRows
    <3>2. \A t : Attempt(t)[1] = t.job
      BY DEF Attempt
    <3> QED
      BY <3>1, <3>2 DEF Open
  <2> QED
    BY <2>1, <2>2, <2>3 DEF Truth, Waits, KeepsRows, CallInv
<1>2. ASSUME NEW w \in Tickers, tick[w].pc = "loop", NEW st, st = tick[w].stats
      PROVE  /\ \A a \in st["completed"] : /\ jobs[a[1]].status \in {"done", "purged"}
                                           /\ jobs[a[1]].attempts = a[2]
             /\ st["failed"] \cap succeeded = {}
             /\ \A a \in st["fenced_out"] :
                  jobs[a[1]].status = "running" => jobs[a[1]].attempts > a[2]
             /\ Decoded(w) = Counted(st) \cup Open(w)
             /\ Counted(st) \subseteq st["claimed"]
             /\ \A c, d \in Results : c # d => st[c] \cap st[d] = {}
             /\ Cardinality({t \in TasksOf(w) : t.pc # "decode"}) <= 1
  <2>1. Counts(st) /\ Opens(w, st)
    BY <1>2 DEF Truth
  <2>2. /\ \A a \in st["completed"] : /\ jobs[a[1]].status \in {"done", "purged"}
                                      /\ jobs[a[1]].attempts = a[2]
        /\ st["failed"] \cap succeeded = {}
        /\ \A a \in st["fenced_out"] :
             jobs[a[1]].status = "running" => jobs[a[1]].attempts > a[2]
        /\ \A c, d \in Results : c # d => st[c] \cap st[d] = {}
    BY <2>1, ResultCounters DEF Counts, Finished, Overtaken
  <2>3. st["claimed"] = Counted(st) \cup Open(w) /\ st["claimed"] = Decoded(w)
    <3>1. \A a : a \in Counted(st) <=> \E c \in Results : a \in st[c]
      BY DEF Counted
    <3>2. \A a : a \in Open(w) <=> \E t \in TasksOf(w) : a = Attempt(t)
      BY DEF Open
    <3>3. \A a : a \in st["claimed"] <=> a \in Counted(st) \/ a \in Open(w)
      BY <2>1, <3>1, <3>2 DEF Opens
    <3>4. st["claimed"] = Decoded(w)
      BY <1>2 DEF Truth, KeepsRows
    <3> QED
      BY <3>3, <3>4
  <2>4. Cardinality({t \in TasksOf(w) : t.pc # "decode"}) <= 1
    <3>1. PICK H : H = {t \in TasksOf(w) : t.pc # "decode"}
      OBVIOUS
    <3>2. \A t, u \in H : t = u
      BY <2>1, <3>1 DEF Opens
    <3>3. CASE H = {}
      <4>1. Cardinality(H) = 0
        BY <3>3, FS_EmptySet
      <4> QED
        BY <3>1, <4>1
    <3>4. ASSUME NEW t \in H
          PROVE  Cardinality(H) <= 1
      <4>1. H = {t}
        BY <3>2
      <4>2. Cardinality(H) = 1
        BY <4>1, FS_Singleton
      <4> QED
        BY <4>2
    <3> QED
      BY <3>1, <3>3, <3>4
  <2> QED
    BY <2>2, <2>3, <2>4
<1>3. TickStatsTrue
  BY <1>2 DEF TickStatsTrue
<1> QED
  BY <1>1, <1>3 DEF TickInv

-----------------------------------------------------------------------------
\* What was counted stays true, whatever anyone does to the table.
LEMMA CountsStay ==
  ASSUME IInv, AttemptInv, IInv', Steps, NEW st, Counts(st)
  PROVE  Counts(st)'
<1>1. \A c \in Results : \A a \in st[c] : Gone(a)
  BY DEF Counts
<1>2. /\ \A c \in Results : \A a \in st[c] : Gone(a)'
      /\ \A a \in st["completed"] : Finished(a)'
      /\ \A a \in st["failed"] : a \notin succeeded'
      /\ \A a \in st["fenced_out"] : Overtaken(a)'
  BY <1>1, GoneStays, ResultCounters DEF Counts
<1>3. \A c, d \in Results : \A a \in st[c] : a \in st[d] => c = d
  BY DEF Counts
<1> QED
  BY <1>2, <1>3 DEF Counts

\* A step that leaves a call and its tasks alone leaves its truth.
LEMMA TruthStays ==
  ASSUME IInv, AttemptInv, IInv', Steps, NEW w \in Tickers, Truth(w),
         tick'[w] = tick[w], TasksOf(w)' = TasksOf(w)
  PROVE  Truth(w)'
<1>1. Batch(w)' = Batch(w)
  BY DEF Batch
<1>2. Waits(w)' /\ KeepsRows(w)'
  BY <1>1 DEF Truth, Waits, KeepsRows, Decoded, Attempt
<1>3. ASSUME tick[w].pc = "loop"
      PROVE  Counts(tick[w].stats)' /\ Opens(w, tick[w].stats)'
  <2>1. PICK st : st = tick[w].stats
    OBVIOUS
  <2>2. Counts(st) /\ Opens(w, st) /\ st = tick'[w].stats
    BY <1>3, <2>1 DEF Truth
  <2>3. Counts(st)'
    BY <2>2, CountsStay
  <2>4. Opens(w, st)'
    BY <1>1, <2>2 DEF Opens, Undecodable, Attempt
  <2> QED
    BY <2>2, <2>3, <2>4
<1> QED
  BY <1>2, <1>3 DEF Truth

\* The claim of a call: the tasks it begins with.
LEMMA TruthOfClaim ==
  ASSUME IInv, NEW w \in Tickers, tick \in [Tickers -> Call], Truth(w),
         NEW S \in SUBSET Jobs, TickClaim(w, S)
  PROVE  Truth(w)' /\ tick' \in [Tickers -> Call]
<1>1. tick[w].pc = "none" /\ TasksOf(w) = {}
  BY DEF TickClaim, Truth, Waits
<1>2. PICK R : R = {Attempt(NewTask(w, j)) : j \in S}
  OBVIOUS
<1>3. /\ tick' \in [Tickers -> Call] /\ tick'[w].pc = "decode"
      /\ tick'[w].stats = NoStats /\ tick'[w].returned = R
  <2>1. R \in SUBSET (Jobs \X Nat)
    BY <1>2 DEF Attempt, NewTask, IInv, TypeOK, Row
  <2>2. NoStats \in [Counters -> SUBSET (Jobs \X Nat)]
    BY DEF NoStats
  <2>3. [pc |-> "decode", stats |-> NoStats, returned |-> R] \in Call
    BY <2>1, <2>2 DEF Call
  <2> QED
    BY <1>2, <2>3 DEF TickClaim
<1>4. tasks' = tasks \cup {NewTask(w, j) : j \in S}
  BY DEF TickClaim, Claim
<1>5. \A j : NewTask(w, j).pc = "decode" /\ NewTask(w, j).worker = w
  BY DEF NewTask
<1>6. \A t \in TasksOf(w)' : t.pc = "decode"
  BY <1>1, <1>4, <1>5 DEF TasksOf
<1>7. TasksOf(w)' = Batch(w)'
  BY <1>6 DEF Batch
<1>8. ASSUME NEW a
      PROVE  a \in Decoded(w)' <=>
               \E t \in TasksOf(w)' : a = Attempt(t)' /\ t.job \in Decodes[w]
  <2>1. TasksOf(w)' = {NewTask(w, j) : j \in S}
    BY <1>1, <1>4, <1>5 DEF TasksOf
  <2>2. a \in Decoded(w)' <=> a \in R /\ a[1] \in Decodes[w]
    BY <1>3 DEF Decoded
  <2>3. \A t : Attempt(t)' = Attempt(t) /\ Attempt(t)[1] = t.job
    BY DEF Attempt
  <2> QED
    BY <1>2, <2>1, <2>2, <2>3
<1> QED
  BY <1>7, <1>8, <1>3 DEF Truth, Waits, KeepsRows

\* The rows that decode are what the call has claimed.
LEMMA TruthOfDecoded ==
  ASSUME IInv, NEW w \in Tickers, tick \in [Tickers -> Call], Truth(w), TickDecoded(w)
  PROVE  Truth(w)' /\ tick' \in [Tickers -> Call]
<1>1. /\ tick[w] \in Call /\ tick[w].pc = "decode" /\ TasksOf(w) = Batch(w)
      /\ tick[w].stats = NoStats /\ tick[w].stats \in [Counters -> SUBSET (Jobs \X Nat)]
  BY DEF TickDecoded, Truth, Waits, Call
<1>2. PICK A : A = {Attempt(t) : t \in Batch(w)}
  OBVIOUS
<1>3. A \in SUBSET (Jobs \X Nat)
  BY <1>2 DEF Batch, TasksOf, Attempt, IInv, TypeOK, Task
<1>4. PICK st : st = [NoStats EXCEPT !["claimed"] = A]
  OBVIOUS
<1>5. /\ st \in [Counters -> SUBSET (Jobs \X Nat)] /\ st["claimed"] = A
      /\ \A c \in Results : st[c] = {}
  BY <1>1, <1>3, <1>4, ResultCounters DEF NoStats
<1>6. tick' = [tick EXCEPT ![w] = [pc |-> "loop", stats |-> st,
                                   returned |-> tick[w].returned]]
  BY <1>2, <1>4 DEF TickDecoded
<1>7. /\ tick' \in [Tickers -> Call] /\ tick'[w].pc = "loop" /\ tick'[w].stats = st
      /\ tick'[w].returned = tick[w].returned
  BY <1>1, <1>5, <1>6 DEF Call
<1>8. UNCHANGED <<jobs, tasks, succeeded>>
  BY DEF TickDecoded, vars
<1>9. TasksOf(w)' = TasksOf(w) /\ Batch(w)' = Batch(w)
  BY <1>8 DEF TasksOf, Batch
<1>10. Counts(st)'
  BY <1>5, ResultCounters DEF Counts
<1>11. Opens(w, st)'
  <2>1. \A t \in Batch(w) : ~Undecodable(t) /\ t.pc = "decode"
    BY DEF TickDecoded, Batch
  <2>2. \A a : a \in A <=> \E t \in TasksOf(w) : a = Attempt(t)
    BY <1>1, <1>2
  <2> QED
    BY <1>1, <1>5, <1>9, <2>1, <2>2 DEF Opens, Undecodable, Attempt
<1>12. st["claimed"] = Decoded(w)'
  <2>1. Decoded(w)' = Decoded(w)
    BY <1>7 DEF Decoded
  <2>2. \A t \in TasksOf(w) : t.job \in Decodes[w]
    BY <1>1 DEF TickDecoded, Undecodable, Batch, TasksOf
  <2>3. \A a : a \in Decoded(w) <=>
               \E t \in TasksOf(w) : a = Attempt(t) /\ t.job \in Decodes[w]
    BY <1>1 DEF Truth, KeepsRows
  <2>4. \A a : a \in Decoded(w) <=> a \in A
    BY <1>1, <1>2, <2>2, <2>3
  <2>5. Decoded(w) = A
    BY <1>3, <2>4 DEF Decoded
  <2> QED
    BY <1>5, <2>1, <2>5
<1> QED
  BY <1>7, <1>10, <1>11, <1>12 DEF Truth, Waits, KeepsRows

\* A call that ends, in whatever way, leaves nothing behind.
LEMMA TruthOfEnd ==
  ASSUME NEW w \in Tickers, tick \in [Tickers -> Call],
         tick' = [tick EXCEPT ![w] = NoCall], TasksOf(w)' = {}
  PROVE  Truth(w)' /\ tick' \in [Tickers -> Call]
<1>1. NoCall \in Call /\ NoCall.pc = "none" /\ NoCall.stats = NoStats
  BY DEF NoCall, Call, NoStats
<1>2. tick' \in [Tickers -> Call] /\ tick'[w] = NoCall
  BY <1>1
<1> QED
  BY <1>1, <1>2 DEF Truth, Waits, KeepsRows, Batch

\* A row that does not decode leaves the batch before anything is counted.
LEMMA TruthOfReject ==
  ASSUME IInv, NEW t \in tasks, t.worker \in Tickers, Truth(t.worker), TickReject(t)
  PROVE  Truth(t.worker)'
<1>1. PICK w : w = t.worker
  OBVIOUS
<1>2. Undecodable(t) /\ tasks' = tasks \ {t} /\ UNCHANGED tick
  BY DEF TickReject, RejectRow, RejectRowFails
<1>3. t \in TasksOf(w) /\ t \in Batch(w)
  BY <1>1, <1>2 DEF TasksOf, Batch, Undecodable
<1>4. tick[w].pc # "loop" /\ tick[w].pc # "none"
  BY <1>1, <1>2, <1>3 DEF Truth, Waits, Opens
<1>5. \A x \in TasksOf(w) : x.pc = "decode"
  BY <1>1, <1>4 DEF Truth, Waits, Batch
<1>6. TasksOf(w)' \subseteq TasksOf(w)
  BY <1>2 DEF TasksOf
<1>7. TasksOf(w)' = Batch(w)'
  BY <1>5, <1>6 DEF Batch
<1>8. tick[w].stats = NoStats
  BY <1>1, <1>4 DEF Truth, Waits
<1>9. ASSUME tick[w].pc = "decode", NEW a
      PROVE  a \in Decoded(w)' <=>
               \E x \in TasksOf(w)' : a = Attempt(x)' /\ x.job \in Decodes[w]
  <2>1. TasksOf(w)' = TasksOf(w) \ {t} /\ t.job \notin Decodes[w]
    BY <1>1, <1>2 DEF TasksOf, Undecodable
  <2>2. a \in Decoded(w) <=> \E x \in TasksOf(w) : a = Attempt(x) /\ x.job \in Decodes[w]
    BY <1>1, <1>9 DEF Truth, KeepsRows
  <2>3. Decoded(w)' = Decoded(w) /\ \A x : Attempt(x)' = Attempt(x)
    BY <1>2 DEF Decoded, Attempt
  <2> QED
    BY <2>1, <2>2, <2>3
<1>10. Truth(w)'
  BY <1>2, <1>4, <1>7, <1>8, <1>9 DEF Truth, Waits, KeepsRows
<1> QED
  BY <1>1, <1>10

\* The job the call is at moves on, from the batch to its handler and on to its mark, while
\* the others wait.
LEMMA TruthOfMove ==
  ASSUME IInv, AttemptInv, IInv', Steps, NEW w \in Tickers, Truth(w),
         NEW t \in TasksOf(w), NEW u, tasks' = (tasks \ {t}) \cup {u},
         u.worker = w, Attempt(u) = Attempt(t), u.pc # "decode",
         \A x \in TasksOf(w) \ {t} : x.pc = "decode",
         tick[w].pc = "loop", tick'[w] = tick[w]
  PROVE  Truth(w)'
<1>1. PICK st : st = tick[w].stats
  OBVIOUS
<1>2. Counts(st) /\ Opens(w, st)
  BY <1>1 DEF Truth
<1>3. Counts(st)'
  BY <1>2, CountsStay
<1>4. TasksOf(w)' = (TasksOf(w) \ {t}) \cup {u}
  BY DEF TasksOf
<1>5. \A x \in Batch(w)' : x \in Batch(w)
  BY <1>4 DEF Batch
<1>6. \A a : (\E x \in TasksOf(w)' : a = Attempt(x)) <=> (\E x \in TasksOf(w) : a = Attempt(x))
  BY <1>4
<1>7. \A x, y \in TasksOf(w)' : x.pc # "decode" /\ y.pc # "decode" => x = y
  BY <1>4
<1>8. \A x \in Batch(w)' : ~Undecodable(x)
  BY <1>2, <1>5 DEF Opens
<1>9. Opens(w, st)'
  BY <1>2, <1>6, <1>7, <1>8 DEF Opens, Undecodable, Attempt
<1>10. KeepsRows(w)'
  BY DEF Truth, KeepsRows, Decoded
<1> QED
  BY <1>1, <1>3, <1>9, <1>10 DEF Truth, Waits

\* The job is settled, in the counter that says what became of it.
LEMMA TruthOfCount ==
  ASSUME IInv, AttemptInv, IInv', Steps, tick \in [Tickers -> Call],
         NEW t \in tasks, t.worker \in Tickers, Truth(t.worker),
         tick[t.worker].pc = "loop", tasks' = tasks \ {t},
         NEW c \in Results, Count(t, c),
         c = "completed" => Finished(Attempt(t))',
         c = "failed" => Attempt(t) \notin succeeded',
         c = "fenced_out" => Overtaken(Attempt(t))'
  PROVE  Truth(t.worker)' /\ tick' \in [Tickers -> Call]
<1>1. PICK w, a, st : w = t.worker /\ a = Attempt(t) /\ st = tick[w].stats
  OBVIOUS
<1>2. /\ t \in Task /\ t \in TasksOf(w) /\ w \in Tickers /\ a \in Jobs \X Nat
      /\ a[1] = t.job /\ a[2] = t.attempts /\ a[2] \in 1..jobs[a[1]].attempts
  BY <1>1 DEF IInv, TypeOK, Task, TasksOf, TaskInv, Attempt
<1>3. /\ Counts(st) /\ Opens(w, st) /\ tick[w] \in Call /\ tick[w].pc = "loop"
      /\ st \in [Counters -> SUBSET (Jobs \X Nat)]
  BY <1>1, <1>2 DEF Truth, Call
<1>4. c \in Counters /\ c # "claimed"
  BY ResultCounters
<1>5. PICK n : n = [st EXCEPT ![c] = @ \cup {a}]
  OBVIOUS
<1>6. /\ n \in [Counters -> SUBSET (Jobs \X Nat)] /\ n[c] = st[c] \cup {a}
      /\ \A d \in Counters : d # c => n[d] = st[d]
  BY <1>2, <1>3, <1>4, <1>5
<1>7. /\ tick' \in [Tickers -> Call] /\ tick'[w].pc = "loop" /\ tick'[w].stats = n
      /\ tick'[w].returned = tick[w].returned
  <2>1. tick' = [tick EXCEPT ![w].stats[c] = @ \cup {a}]
    BY <1>1 DEF Count
  <2>2. tick' = [tick EXCEPT ![w] = [tick[w] EXCEPT !.stats = n]]
    BY <1>1, <1>2, <1>5, <2>1
  <2>3. [tick[w] EXCEPT !.stats = n] 
          = [pc |-> tick[w].pc, stats |-> n, returned |-> tick[w].returned]
    BY <1>3 DEF Call
  <2>4. [pc |-> tick[w].pc, stats |-> n, returned |-> tick[w].returned] \in Call
    BY <1>3, <1>6 DEF Call
  <2> QED
    BY <1>2, <1>3, <2>2, <2>3, <2>4
<1>8. Gone(a)'
  <2>1. ASSUME NEW x \in tasks', Attempt(x) = a
        PROVE  FALSE
    <3>1. x \in tasks /\ x # t
      OBVIOUS
    <3>2. x.job = t.job /\ x.attempts = t.attempts
      BY <1>1, <2>1 DEF Attempt
    <3> QED
      BY <3>1, <3>2, OneTask
  <2>2. /\ jobs[a[1]].attempts \in Nat /\ jobs'[a[1]].attempts \in Nat
        /\ jobs'[a[1]].attempts >= jobs[a[1]].attempts
    <3>1. a[1] \in Jobs /\ Moves(a[1])
      BY <1>2 DEF Steps
    <3>2. jobs[a[1]].attempts \in Nat /\ jobs'[a[1]].attempts \in Nat
      BY <3>1 DEF IInv, TypeOK, Row
    <3> QED
      BY <3>1, <3>2, MovesOn
  <2>3. a[2] \in 1..jobs'[a[1]].attempts
    BY <1>2, <2>2
  <2> QED
    BY <1>2, <2>1, <2>3 DEF Gone, Attempt
<1>9. \A d \in Results : a \notin st[d]
  <2>1. ~Gone(a)
    BY <1>1 DEF Gone, Attempt
  <2>2. \A d \in Results : \A x \in st[d] : Gone(x)
    BY <1>3 DEF Counts
  <2> QED
    BY <2>1, <2>2
<1>10. Counts(st)'
  BY <1>3, CountsStay
<1>11. Counts(n)'
  <2>1. \A d \in Results : \A x \in n[d] : x \in st[d] \/ (x = a /\ d = c)
    BY <1>4, <1>6, ResultCounters
  <2>2. \A d \in Results : \A x \in n[d] : Gone(x)'
    BY <1>8, <1>10, <2>1 DEF Counts
  <2>3. /\ \A x \in n["completed"] : Finished(x)'
        /\ \A x \in n["failed"] : x \notin succeeded'
        /\ \A x \in n["fenced_out"] : Overtaken(x)'
    BY <1>1, <1>10, <2>1, ResultCounters DEF Counts
  <2>4. \A d, e \in Results : \A x \in n[d] : x \in n[e] => d = e
    BY <1>3, <1>9, <2>1 DEF Counts
  <2> QED
    BY <2>2, <2>3, <2>4 DEF Counts
<1>12. Opens(w, n)'
  <2>1. TasksOf(w)' = TasksOf(w) \ {t} /\ Batch(w)' \subseteq Batch(w)
    BY DEF TasksOf, Batch
  <2>2. \A x : x \in n["claimed"] <=> \/ \E d \in Results : x \in n[d]
                                      \/ \E y \in TasksOf(w)' : x = Attempt(y)
    <3>1. n["claimed"] = st["claimed"]
      BY <1>4, <1>6, ResultCounters
    <3>2. \A x : (\E d \in Results : x \in n[d])
                   <=> (\E d \in Results : x \in st[d]) \/ x = a
      BY <1>4, <1>6, ResultCounters
    <3>3. \A x : (\E y \in TasksOf(w) : x = Attempt(y))
                   <=> (\E y \in TasksOf(w)' : x = Attempt(y)) \/ x = a
      BY <1>1, <1>2, <2>1
    <3> QED
      BY <1>3, <3>1, <3>2, <3>3 DEF Opens
  <2> QED
    BY <1>3, <2>1, <2>2 DEF Opens, Undecodable, Attempt
<1>13. KeepsRows(w)'
  <2>1. n["claimed"] = st["claimed"] /\ st["claimed"] = Decoded(w)
    BY <1>1, <1>3, <1>4, <1>6, ResultCounters DEF Truth, KeepsRows
  <2>2. Decoded(w)' = Decoded(w)
    BY <1>7 DEF Decoded
  <2> QED
    BY <1>7, <2>1, <2>2 DEF KeepsRows
<1> QED
  BY <1>1, <1>7, <1>11, <1>12, <1>13 DEF Truth, Waits

-----------------------------------------------------------------------------
\* A step changes only tasks of worker v.
Only(v) ==
  /\ \A x \in tasks : x \notin tasks' => x.worker = v
  /\ \A x \in tasks' : x \notin tasks => x.worker = v

\* Then the tasks of the other workers are what they were.
LEMMA OthersStay ==
  ASSUME NEW v, Only(v), NEW w, w # v
  PROVE  TasksOf(w)' = TasksOf(w)
BY DEF Only, TasksOf

\* A poll loop, a crash or a call of tick_once concerns the tasks of its worker.
LEMMA PollOnly ==
  ASSUME IInv, NEW v \in Workers, Poll(v) \/ Crash(v)
  PROVE  Only(v)
<1>0. tasks \subseteq Task /\ Batch(v) \subseteq tasks
  BY DEF IInv, TypeOK, Batch, TasksOf
<1>1. ASSUME NEW S \in SUBSET Jobs, Claim(v, S) \/ ClaimUnanswered(v, S)
      PROVE  Only(v)
  <2>1. tasks \subseteq tasks' /\ tasks' \subseteq tasks \cup {NewTask(v, j) : j \in S}
    BY <1>1 DEF Claim, ClaimUnanswered
  <2>2. \A j \in S : NewTask(v, j).worker = v
    BY DEF NewTask
  <2> QED
    BY <2>1, <2>2 DEF Only
<1>2. CASE Spawn(v)
  <2>1. \A t \in Batch(v) : [t EXCEPT !.pc = "handler"].worker = v /\ t.worker = v
    BY <1>0 DEF Batch, TasksOf, Task
  <2>2. tasks' = (tasks \ Batch(v)) \cup {[t EXCEPT !.pc = "handler"] : t \in Batch(v)}
    BY <1>2 DEF Spawn
  <2>3. \A x \in tasks' : x \notin tasks => x.worker = v
    BY <2>1, <2>2
  <2>4. \A x \in tasks : x \notin tasks' => x \in Batch(v)
    BY <2>2
  <2> QED
    BY <2>1, <2>3, <2>4 DEF Only
<1>3. CASE DropBatch(v) \/ Crash(v)
  <2>1. tasks' = tasks \ Batch(v) \/ tasks' = tasks \ TasksOf(v)
    BY <1>3 DEF DropBatch, Crash
  <2> QED
    BY <2>1 DEF Only, Batch, TasksOf
<1> QED
  BY <1>1, <1>2, <1>3 DEF Poll

\* A task's own step concerns the tasks of its worker.
LEMMA TaskOnly ==
  ASSUME IInv, NEW t \in tasks, HandleJob(t) \/ TickCall(t)
  PROVE  Only(t.worker)
<1>0. t \in Task
  BY DEF IInv, TypeOK
<1>1. CASE tasks' = tasks \ {t}
  BY <1>1 DEF Only
<1>2. ASSUME NEW o \in Outcome, HandlerReturn(t, o)
      PROVE  Only(t.worker)
  <2>1. PICK u : u = [t EXCEPT !.pc = "mark", !.op = Verdict(t, o)]
    OBVIOUS
  <2>2. u.worker = t.worker
    BY <1>0, <2>1 DEF Task
  <2> QED
    BY <1>2, <2>1, <2>2 DEF HandlerReturn, Only
<1>3. CASE TickCall(t)
  <2>1. PICK u : u = [t EXCEPT !.pc = "handler"]
    OBVIOUS
  <2>2. u.worker = t.worker
    BY <1>0, <2>1 DEF Task
  <2> QED
    BY <1>3, <2>1, <2>2 DEF TickCall, Only
<1> QED
  BY <1>1, <1>2, <1>3 DEF HandleJob, RejectRow, RejectRowFails, HandlerLost,
                          MarkAnswered, MarkUnanswered

\* The steps of a call other than those of its tasks keep it true.
LEMMA TickerTruth ==
  ASSUME IInv, AttemptInv, IInv', Steps, tick \in [Tickers -> Call],
         NEW w \in Tickers, Truth(w), Ticker(w)
  PROVE  Truth(w)' /\ tick' \in [Tickers -> Call]
<1>1. ASSUME NEW S \in SUBSET Jobs, TickClaim(w, S)
      PROVE  Truth(w)' /\ tick' \in [Tickers -> Call]
  BY <1>1, TruthOfClaim
<1>2. ASSUME NEW S \in SUBSET Jobs, TickClaimFails(w, S)
      PROVE  Truth(w)' /\ tick' \in [Tickers -> Call]
  <2>1. UNCHANGED <<tick, tasks>>
    BY <1>2 DEF TickClaimFails, ClaimUnanswered
  <2>2. TasksOf(w)' = TasksOf(w)
    BY <2>1 DEF TasksOf
  <2> QED
    BY <2>1, <2>2, TruthStays
<1>3. CASE TickDecoded(w)
  BY <1>3, TruthOfDecoded
<1>4. CASE TickReturns(w) \/ TickUnwinds(w)
  <2>1. TasksOf(w)' = {}
    BY <1>4 DEF TickReturns, TickUnwinds, Crash, TasksOf, vars
  <2>2. tick' = [tick EXCEPT ![w] = NoCall]
    BY <1>4 DEF TickReturns, TickUnwinds
  <2> QED
    BY <2>1, <2>2, TruthOfEnd
<1> QED
  BY <1>1, <1>2, <1>3, <1>4 DEF Ticker

\* A task whose handler was called belongs to a call in its loop, and is alone in that.
LEMMA Handled ==
  ASSUME NEW t \in tasks, t.worker \in Tickers, Truth(t.worker), t.pc # "decode"
  PROVE  /\ tick[t.worker].pc = "loop"
         /\ \A x \in TasksOf(t.worker) \ {t} : x.pc = "decode"
<1>1. PICK w : w = t.worker
  OBVIOUS
<1>2. t \in TasksOf(w) /\ t \notin Batch(w)
  BY <1>1 DEF TasksOf, Batch
<1>3. tick[w].pc = "loop"
  BY <1>1, <1>2 DEF Truth, Waits
<1>4. \A x, y \in TasksOf(w) : x.pc # "decode" /\ y.pc # "decode" => x = y
  BY <1>1, <1>3 DEF Truth, Opens
<1> QED
  BY <1>1, <1>2, <1>3, <1>4

\* The counter of flip_done_tick, flip_retry_tick and flip_dead_tick says what the mark did.
LEMMA MarkTruth ==
  ASSUME IInv, AttemptInv, NEW t \in tasks, MarkAnswered(t), NEW c, c = CountedAs(t)
  PROVE  /\ c \in Results
         /\ c = "completed" => Finished(Attempt(t))'
         /\ c = "failed" => Attempt(t) \notin succeeded'
         /\ c = "fenced_out" => Overtaken(Attempt(t))'
<1>0. /\ t \in Task /\ TaskInv(t) /\ t.pc = "mark" /\ MarkCommit(StmtOf(t))
      /\ succeeded' = succeeded /\ jobs \in [Jobs -> Row]
  BY DEF IInv, TypeOK, MarkAnswered
<1>1. PICK j : j = t.job /\ Attempt(t)[1] = j /\ Attempt(t)[2] = t.attempts
  BY DEF Attempt
<1>2. /\ j \in Jobs /\ jobs[j] \in Row /\ jobs[j].attempts \in Nat
      /\ t.attempts \in 1..jobs[j].attempts /\ t.token = t.attempts
      /\ jobs[j].status = "running" => jobs[j].lease_token = jobs[j].attempts
  BY <1>0, <1>1 DEF Task, TaskInv, AttemptInv, Row
<1>3. StmtOf(t).job = j /\ StmtOf(t).token = t.token /\ StmtOf(t).op = t.op
  BY <1>0, <1>1 DEF StmtOf
<1>4. CASE ~Holds(jobs[j], t.token)
  <2>1. UNCHANGED jobs
    BY <1>0, <1>3, <1>4 DEF MarkCommit
  <2>2. c = "fenced_out"
    BY <1>1, <1>4 DEF CountedAs
  <2>3. jobs[j].status = "running" => jobs[j].attempts > t.attempts
    BY <1>2, <1>4 DEF Holds
  <2>4. Overtaken(Attempt(t))'
    BY <1>1, <2>1, <2>3 DEF Overtaken, Attempt
  <2> QED
    BY <2>2, <2>4, ResultCounters
<1>5. CASE Holds(jobs[j], t.token) /\ t.op = "done"
  <2>1. c = "completed"
    BY <1>1, <1>5 DEF CountedAs
  <2>2. PICK d \in BOOLEAN : jobs' = [jobs EXCEPT ![j] = Marked(@, "done", d)]
    BY <1>0, <1>3, <1>5 DEF MarkCommit
  <2>3. Settled(jobs[j], "done", jobs'[j])
    BY <1>0, <1>2, <2>2, MarkedRow DEF Op
  <2>4. jobs[j].attempts = t.attempts
    BY <1>0, <1>1, <1>5 DEF TaskInv
  <2>5. Finished(Attempt(t))'
    BY <1>1, <2>3, <2>4 DEF Settled, Finished, Attempt
  <2> QED
    BY <2>1, <2>5, ResultCounters
<1>6. CASE Holds(jobs[j], t.token) /\ t.op # "done"
  <2>1. c = "failed"
    BY <1>1, <1>6 DEF CountedAs
  <2>2. Attempt(t) \notin succeeded'
    BY <1>0, <1>6 DEF AttemptInv, Attempt
  <2> QED
    BY <2>1, <2>2, ResultCounters
<1> QED
  BY <1>4, <1>5, <1>6

\* The steps of a call's tasks keep it true.
LEMMA TickTaskTruth ==
  ASSUME IInv, AttemptInv, IInv', Steps, tick \in [Tickers -> Call],
         NEW t \in tasks, t.worker \in Tickers, Truth(t.worker), TickTask(t)
  PROVE  Truth(t.worker)' /\ tick' \in [Tickers -> Call]
<1>0. t \in Task /\ t \in TasksOf(t.worker)
  BY DEF IInv, TypeOK, TasksOf
<1>1. CASE TickReject(t)
  BY <1>1, TruthOfReject DEF TickReject
<1>2. CASE TickCall(t)
  <2>1. PICK u : u = [t EXCEPT !.pc = "handler"]
    OBVIOUS
  <2>2. u.worker = t.worker /\ Attempt(u) = Attempt(t) /\ u.pc # "decode"
    BY <1>0, <2>1 DEF Task, Attempt
  <2>3. /\ tasks' = (tasks \ {t}) \cup {u} /\ UNCHANGED tick /\ tick[t.worker].pc = "loop"
        /\ TasksOf(t.worker) = Batch(t.worker)
    BY <1>2, <2>1 DEF TickCall
  <2>4. \A x \in TasksOf(t.worker) \ {t} : x.pc = "decode"
    BY <2>3 DEF Batch
  <2> QED
    BY <1>0, <2>2, <2>3, <2>4, TruthOfMove
<1>3. CASE TickHandlerReturn(t)
  <2>1. PICK o \in Outcome : HandlerReturn(t, o)
    BY <1>3 DEF TickHandlerReturn, Outcome
  <2>2. PICK u : u = [t EXCEPT !.pc = "mark", !.op = Verdict(t, o)]
    OBVIOUS
  <2>3. u.worker = t.worker /\ Attempt(u) = Attempt(t) /\ u.pc # "decode"
    BY <1>0, <2>2 DEF Task, Attempt
  <2>4. tasks' = (tasks \ {t}) \cup {u} /\ UNCHANGED tick /\ t.pc # "decode"
    BY <1>3, <2>1, <2>2 DEF HandlerReturn, TickHandlerReturn
  <2>5. /\ tick[t.worker].pc = "loop"
        /\ \A x \in TasksOf(t.worker) \ {t} : x.pc = "decode"
    BY <2>4, Handled
  <2> QED
    BY <1>0, <2>3, <2>4, <2>5, TruthOfMove
<1>4. CASE TickMarkAnswered(t)
  <2>1. MarkAnswered(t) /\ Count(t, CountedAs(t))
    BY <1>4 DEF TickMarkAnswered
  <2>2. PICK c : c = CountedAs(t)
    OBVIOUS
  <2>3. tasks' = tasks \ {t} /\ t.pc # "decode"
    BY <2>1 DEF MarkAnswered
  <2>4. /\ c \in Results
        /\ c = "completed" => Finished(Attempt(t))'
        /\ c = "failed" => Attempt(t) \notin succeeded'
        /\ c = "fenced_out" => Overtaken(Attempt(t))'
    BY <2>1, <2>2, MarkTruth
  <2>5. tick[t.worker].pc = "loop" /\ Count(t, c)
    BY <2>1, <2>2, <2>3, Handled
  <2> QED
    BY <2>3, <2>4, <2>5, TruthOfCount
<1>5. CASE TickMarkFails(t)
  <2>1. tasks' = tasks \ {t} /\ t.pc # "decode" /\ Count(t, "unmarked")
    BY <1>5 DEF TickMarkFails, MarkUnanswered
  <2>2. tick[t.worker].pc = "loop"
    BY <2>1, Handled
  <2> QED
    BY <2>1, <2>2, TruthOfCount, ResultCounters
<1> QED
  BY <1>1, <1>2, <1>3, <1>4, <1>5 DEF TickTask

\* Every step of TickNext preserves that, for every worker.
TruthInv ==
  /\ IInv /\ AttemptInv
  /\ tick \in [Tickers -> Call] /\ \A w \in Tickers : Truth(w)

\* Every step of tick_once and of the workers beside it keeps the counters true.
LEMMA TruthNext == TruthInv /\ [TickNext]_tickVars => TruthInv'
<1> SUFFICES ASSUME TruthInv, [TickNext]_tickVars
             PROVE  TruthInv'
  OBVIOUS
<1>1. /\ IInv /\ AttemptInv /\ tick \in [Tickers -> Call]
      /\ \A w \in Tickers : Truth(w)
  BY DEF TruthInv
<1>2. IInv' /\ AttemptInv' /\ Steps
  BY <1>1, TickSteps
<1> DEFINE Goal == tick' \in [Tickers -> Call] /\ \A w \in Tickers : Truth(w)'
<1>3. ASSUME NEW w \in Tickers, Ticker(w)
      PROVE  Goal
  <2>1. Truth(w)' /\ tick' \in [Tickers -> Call]
    BY <1>1, <1>2, <1>3, TickerTruth
  <2>2. Only(w)
    <3>1. w \in Workers
      BY TickerAssumption DEF TickerAssumption
    <3>2. Poll(w) \/ Crash(w) \/ UNCHANGED tasks
      BY <1>3 DEF Ticker, TickClaim, TickClaimFails, TickDecoded, TickReturns, TickUnwinds,
                  Poll, vars
    <3> QED
      BY <1>1, <3>1, <3>2, PollOnly DEF Only
  <2>3. ASSUME NEW v \in Tickers, v # w
        PROVE  tick'[v] = tick[v] /\ TasksOf(v)' = TasksOf(v)
    <3>1. TasksOf(v)' = TasksOf(v)
      BY <2>2, <2>3, OthersStay
    <3>2. tick'[v] = tick[v]
      BY <1>1, <1>3, <2>3 DEF Ticker, TickClaim, TickClaimFails, TickDecoded, TickReturns,
                              TickUnwinds
    <3> QED
      BY <3>1, <3>2
  <2>4. \A v \in Tickers : v # w => Truth(v)'
    BY <1>1, <1>2, <2>3, TruthStays
  <2> QED
    BY <2>1, <2>4
<1>4. ASSUME NEW t \in tasks, t.worker \in Tickers, TickTask(t)
      PROVE  Goal
  <2>1. Truth(t.worker)' /\ tick' \in [Tickers -> Call]
    BY <1>1, <1>2, <1>4, TickTaskTruth
  <2>2. Only(t.worker)
    <3>1. HandleJob(t) \/ TickCall(t)
      BY <1>4 DEF TickTask, TickReject, TickHandlerReturn, TickMarkAnswered, TickMarkFails,
                  HandleJob, Outcome
    <3> QED
      BY <1>1, <3>1, TaskOnly
  <2>3. ASSUME NEW v \in Tickers, v # t.worker
        PROVE  tick'[v] = tick[v] /\ TasksOf(v)' = TasksOf(v)
    <3>1. TasksOf(v)' = TasksOf(v)
      BY <2>2, <2>3, OthersStay
    <3>2. tick'[v] = tick[v]
      BY <1>1, <1>4, <2>3 DEF TickTask, TickReject, TickCall, TickHandlerReturn,
                              TickMarkAnswered, TickMarkFails, Count
    <3> QED
      BY <3>1, <3>2
  <2>4. \A v \in Tickers : v # t.worker => Truth(v)'
    BY <1>1, <1>2, <2>3, TruthStays
  <2> QED
    BY <2>1, <2>4
<1>5. ASSUME UNCHANGED tick,
             \/ UNCHANGED tasks
             \/ \E v \in Started : Poll(v) \/ Crash(v)
             \/ \E t \in tasks : t.worker \in Started /\ HandleJob(t)
      PROVE  Goal
  <2>1. ASSUME NEW w \in Tickers
        PROVE  TasksOf(w)' = TasksOf(w)
    <3>1. CASE UNCHANGED tasks
      BY <3>1 DEF TasksOf
    <3>2. ASSUME NEW v \in Started, Poll(v) \/ Crash(v)
          PROVE  TasksOf(w)' = TasksOf(w)
      BY <1>1, <3>2, PollOnly, OthersStay DEF Started
    <3>3. ASSUME NEW t \in tasks, t.worker \in Started, HandleJob(t)
          PROVE  TasksOf(w)' = TasksOf(w)
      BY <1>1, <3>3, TaskOnly, OthersStay DEF Started
    <3> QED
      BY <1>5, <3>1, <3>2, <3>3
  <2> QED
    BY <1>1, <1>2, <1>5, <2>1, TruthStays
<1>6. Goal
  <2>1. UNCHANGED tick /\ (Store \/ \E m \in late : LateMark(m)) => Goal
    <3>1. Store \/ (\E m \in late : LateMark(m)) => UNCHANGED tasks
      BY DEF Store, Push, BecomeDue, LeaseExpire, Purge, Reap, LateMark
    <3> QED
      BY <1>5, <3>1
  <2>2. UNCHANGED tickVars => Goal
    BY <1>5 DEF tickVars, vars
  <2> QED
    BY <1>3, <1>4, <1>5, <2>1, <2>2 DEF TickNext
<1> QED
  BY <1>2, <1>6 DEF TruthInv

\* The inductive invariant of the queue with callers of tick_once: see TickInv.
THEOREM TickInvariance == TickSpec => []TickInv
<1>1. TickInit => TruthInv
  <2> SUFFICES ASSUME TickInit PROVE TruthInv
    OBVIOUS
  <2>1. IInv /\ AttemptInv
    BY InitInv DEF TickInit, Init, AttemptInv, AbsentRow
  <2>2. NoCall \in Call /\ NoCall.pc = "none" /\ NoCall.stats = NoStats
    BY DEF NoCall, Call, NoStats
  <2>3. tick \in [Tickers -> Call] /\ \A w \in Tickers : tick[w] = NoCall
    BY <2>2 DEF TickInit
  <2>4. \A w : TasksOf(w) = {} /\ Batch(w) = {}
    BY DEF TickInit, Init, TasksOf, Batch
  <2>5. \A w \in Tickers : Truth(w)
    BY <2>2, <2>3, <2>4 DEF Truth, Waits, KeepsRows
  <2> QED
    BY <2>1, <2>3, <2>5 DEF TruthInv
<1>2. TruthInv => TickInv
  BY TruthIsTickInv DEF TruthInv
<1> QED
  BY <1>1, <1>2, TruthNext, PTL DEF TickSpec

\* The table is as safe under tick_once as under started workers: see IInv.
THEOREM TableSafeUnderTick == TickSpec => []IInv
<1>1. TickInv => IInv
  BY DEF TickInv
<1> QED
  BY <1>1, TickInvariance, PTL

\* The TickStats of a call in progress say what became of every row it claimed, whatever
\* reapers, started workers and other calls did to those rows meanwhile.
THEOREM StatsAreTrue == TickSpec => []TickStatsTrue
<1>1. TickInv => TickStatsTrue
  BY DEF TickInv
<1> QED
  BY <1>1, TickInvariance, PTL

\* With tick_once as a second driver the table still implements the life of a job: a call
\* that unwinds, is dropped or counts a fenced mark is at most a step of that life.
THEOREM TickImplementsLifecycle == TickSpec => RefinesLifecycle
<1>1. TickInit => Lifecycle!Init
  BY InitMap DEF TickInit
<1>2. IInv /\ [TickNext]_tickVars => [Lifecycle!Next]_(Lifecycle!vars)
  <2>1. ASSUME NEW t \in tasks, TickCall(t)
        PROVE  UNCHANGED Lifecycle!vars
    BY <2>1, Unmoved, StutterMap DEF TickCall
  <2> QED
    BY <2>1, TickIsStep, NextMap
<1> QED
  BY <1>1, <1>2, TableSafeUnderTick, PTL DEF TickSpec, RefinesLifecycle, Lifecycle!Spec

\* Nor does a call of tick_once touch a row that is done or dead.
THEOREM TerminalRowsStayUnderTick == TickSpec => TerminalIsFinal
<1>1. IInv /\ [TickNext]_tickVars
        => [\A j \in Jobs : Terminal(jobs[j]) =>
              jobs'[j] = jobs[j] \/ jobs'[j].status = "purged"]_vars
  <2>1. ASSUME NEW t \in tasks, TickCall(t)
        PROVE  UNCHANGED jobs
    BY <2>1 DEF TickCall
  <2> QED
    BY <2>1, TickIsStep, TerminalStep DEF Stays
<1> QED
  BY <1>1, TableSafeUnderTick, PTL DEF TickSpec, TerminalIsFinal

=============================================================================
