----------------------------- MODULE JobEvents -----------------------------
(***************************************************************************)
(* What an operator sees of WorkQueue: the counters of Stats and the       *)
(* pgwq.state.transition events.  A statement's effect on the table and    *)
(* its answer are two moments: in between the row may be claimed again, or *)
(* the worker that waits for the answer may die or be aborted.             *)
(***************************************************************************)
EXTENDS WorkQueue

VARIABLES
  stats,     \* AtomicStats of each worker; a counter is the set of attempts it counts
  answers,   \* answers on their way to the worker that issued the statement
  events,    \* the transition events emitted
  ended      \* history: how each attempt ended in the table

eventVars == <<stats, answers, events, ended>>
allVars == <<vars, eventVars>>

Counters == {"completed", "failed", "fenced_out", "timed_out", "mark_timed_out"}

Fresh == [c \in Counters |-> {}]

EventInit ==
  /\ Init
  /\ stats = [w \in Workers |-> Fresh]
  /\ answers = {} /\ events = {} /\ ended = {}

Bump(w, counter, a) == stats' = [stats EXCEPT ![w][counter] = @ \cup {a}]

\* The transitions out of `running` that a step makes.
Ended ==
  {<<j, jobs[j].attempts, jobs'[j].status>> :
     j \in {k \in Jobs : jobs[k].status = "running" /\ jobs'[k].status # "running"}}

Answer(w, j, attempts, source, affected) ==
  [worker |-> w, attempt |-> <<j, attempts>>, source |-> source, affected |-> affected,
   to |-> IF affected THEN jobs'[j].status ELSE "none"]

-----------------------------------------------------------------------------

Returns(t, o) ==
  /\ HandlerReturn(t, o)
  /\ IF o = "timeout" THEN Bump(t.worker, "timed_out", <<t.job, t.attempts>>)
                      ELSE UNCHANGED stats
  /\ UNCHANGED <<answers, events>>

\* mark_*, of a handler's result: rows_affected is on its way.
MarkExecuted(t) ==
  /\ MarkAnswered(t)
  /\ answers' = answers \cup
       {Answer(t.worker, t.job, t.attempts, "worker", Holds(jobs[t.job], t.token))}
  /\ UNCHANGED <<stats, events>>

\* mark_timeout is counted; a failed statement, or an aborted task, is not.
MarkGivenUp(t) ==
  /\ MarkUnanswered(t)
  /\ Bump(t.worker, "mark_timed_out", <<t.job, t.attempts>>) \/ UNCHANGED stats
  /\ UNCHANGED <<answers, events>>

\* A sweep by the reaper of w.
Swept(w, S) ==
  /\ Reap(S)
  /\ answers' = answers \cup {Answer(w, j, jobs[j].attempts, "reaper", TRUE) : j \in S}
  /\ UNCHANGED <<stats, events>>

\* Mutant: rows_affected is not looked at.
CounterBlindly(r) ==
  IF r.source = "worker" THEN (IF r.to \in {"done", "none"} THEN "completed" ELSE "failed")
  ELSE "none"

\* The counter of flip_done_state, flip_retry_state and flip_dead_state; the reaper has none.
Counter(r) ==
  IF r.source = "reaper" THEN "none"
  ELSE IF ~r.affected THEN "fenced_out"
  ELSE IF r.to = "done" THEN "completed" ELSE "failed"

\* The TransitionContext of every caller says lost_race: false.
Event(r) == [attempt |-> r.attempt, to |-> r.to, source |-> r.source, lost_race |-> FALSE]

\* Mutant: a lost race emits the event of a transition.
EmittedAlways(r) == {Event(r)}

\* emit_transition, if the statement affected the row; a lost race is only logged.
Emitted(r) == IF r.affected THEN {Event(r)} ELSE {}

\* The answer arrives: count, then emit, with no await in between.
Delivered(r) ==
  /\ answers' = answers \ {r}
  /\ IF Counter(r) = "none" THEN UNCHANGED stats ELSE Bump(r.worker, Counter(r), r.attempt)
  /\ events' = events \cup Emitted(r)
  /\ UNCHANGED <<vars>>

\* The task that waits is aborted, or the connection is lost.
Lost(r) ==
  /\ answers' = answers \ {r}
  /\ UNCHANGED <<vars, stats, events>>

Restart(w) ==
  /\ Crash(w)
  /\ answers' = {r \in answers : r.worker # w}
  /\ stats' = [stats EXCEPT ![w] = Fresh]
  /\ UNCHANGED <<events>>

\* mark_dead of a row that does not decode is only logged: no counter, no event.
EventNext ==
  /\ \/ \E t \in tasks :
          \/ \E o \in Outcome : Returns(t, o)
          \/ MarkExecuted(t) \/ MarkGivenUp(t)
     \/ \E w \in Workers, S \in SUBSET Jobs : Swept(w, S)
     \/ \E r \in answers : Delivered(r) \/ Lost(r)
     \/ \E w \in Workers : Restart(w)
     \/ /\ \/ \E S \in SUBSET Jobs, d \in BOOLEAN : Push(S, d)
           \/ \E S \in SUBSET Jobs : Purge(S)
           \/ \E j \in Jobs : BecomeDue(j) \/ LeaseExpire(j)
           \/ \E w \in Workers : Poll(w)
           \/ \E t \in tasks : RejectRow(t) \/ RejectRowFails(t) \/ HandlerLost(t)
           \/ \E m \in late : LateMark(m)
        /\ UNCHANGED <<stats, answers, events>>
  /\ ended' = ended \cup Ended

EventSpec == EventInit /\ [][EventNext]_allVars

FairEventSpec == EventSpec /\ Fairness

-----------------------------------------------------------------------------

\* The events that say a row changed its state; one with lost_race says it did not.
Transitions(E) == {e \in E : ~e.lost_race}

\* Each attempt is settled once, so at most one event says so, from a worker or from a
\* reaper, emitted or on its way, and that event says what became of the row, even when
\* the row has since been claimed again.  (Of events with lost_race nothing is said.)
EventsTrue ==
  LET sent == Transitions(events)
      onTheWay == Transitions(UNION {Emitted(r) : r \in answers})
  IN  /\ \A e \in sent \cup onTheWay : <<e.attempt[1], e.attempt[2], e.to>> \in ended
      /\ \A e \in sent, f \in onTheWay : e.attempt # f.attempt
      /\ \A e, f \in sent : e.attempt = f.attempt => e = f
      /\ \A e, f \in onTheWay : e.attempt = f.attempt => e = f

Marks == {"completed", "failed", "fenced_out", "mark_timed_out"}

\* The counters of all workers together: an attempt whose mark was answered is counted once,
\* by one worker, in the counter for what the mark did; a handler that timed out completes
\* nothing.  (timed_out is counted beside the counter of its mark.)
StatsTrue ==
  LET counted(c) == UNION {stats[w][c] : w \in Workers}
  IN  /\ \A a \in counted("completed") : a \in succeeded /\ <<a[1], a[2], "done">> \in ended
      /\ \A a \in counted("failed") :
           {<<a[1], a[2], "awaiting_retry">>, <<a[1], a[2], "dead">>} \cap ended # {}
      /\ \A a \in counted("fenced_out") : <<a[1], a[2], "done">> \notin ended
      /\ \A v, w \in Workers, c, d \in Marks :
           <<v, c>> # <<w, d>> => stats[v][c] \cap stats[w][d] = {}
      /\ counted("timed_out") \cap succeeded = {}

-----------------------------------------------------------------------------
\* What the two rest on.

Fate == {"awaiting_retry", "done", "dead"}

Source == {"worker", "reaper"}

Reply == [worker : Workers, attempt : Jobs \X Nat, source : Source,
          affected : BOOLEAN, to : Fate \cup {"none"}]

EventRecord == [attempt : Jobs \X Nat, to : Fate, source : Source, lost_race : {FALSE}]

EndedAs(a, to) == <<a[1], a[2], to>> \in ended

\* An attempt ends once, and its lease with it; a task that is still there has not
\* completed its row.
EndedInv ==
  /\ ended \subseteq Jobs \X Nat \X Fate
  /\ \A x \in ended : x[2] \in 1..jobs[x[1]].attempts /\ Overtaken(<<x[1], x[2]>>)
  /\ \A x, y \in ended : x[1] = y[1] /\ x[2] = y[2] => x = y
  /\ \A t \in tasks : ~EndedAs(<<t.job, t.attempts>>, "done")

\* An answer still tells what the statement did; a worker is answered once per attempt, when
\* the task is over, and one answer at most says that it ended the attempt.
AnswerInv(r) ==
  /\ r.source = "worker" => Gone(r.attempt)
  /\ r.source = "reaper" => r.affected
  /\ r.to = "done" => r.attempt \in succeeded
  /\ r.affected => EndedAs(r.attempt, r.to)
  /\ ~r.affected => Overtaken(r.attempt) /\ ~EndedAs(r.attempt, "done")
  /\ \A s \in answers : s.attempt = r.attempt =>
       /\ s.affected /\ r.affected => s = r
       /\ s.source = "worker" /\ r.source = "worker" => s = r

\* An event stands for an answer that was delivered.
EmittedInv(e) ==
  /\ EndedAs(e.attempt, e.to)
  /\ \A r \in answers : r.affected => r.attempt # e.attempt
  /\ \A f \in events : f.attempt = e.attempt => f = e

\* So does an attempt in a counter of the marks, but for mark_timed_out: no answer then.
CountedInv(w, c, a) ==
  /\ Gone(a)
  /\ \A r \in answers : r.source = "worker" => r.attempt # a
  /\ c = "completed" => a \in succeeded /\ EndedAs(a, "done")
  /\ c = "failed" => EndedAs(a, "awaiting_retry") \/ EndedAs(a, "dead")
  /\ c = "fenced_out" => Overtaken(a) /\ ~EndedAs(a, "done")
  /\ \A v \in Workers, d \in Marks : a \in stats[v][d] => v = w /\ d = c

\* A handler that timed out has its verdict, and does not report success later.
TimedOutInv(a) ==
  /\ a \in Jobs \X Nat /\ a[2] \in 1..jobs[a[1]].attempts /\ a \notin succeeded
  /\ \A t \in tasks : <<t.job, t.attempts>> = a => t.op # "none"

EventInv ==
  /\ IInv /\ AttemptInv
  /\ stats \in [Workers -> [Counters -> SUBSET (Jobs \X Nat)]]
  /\ answers \subseteq Reply
  /\ events \subseteq EventRecord
  /\ EndedInv
  /\ \A r \in answers : AnswerInv(r)
  /\ \A e \in events : EmittedInv(e)
  /\ \A w \in Workers, c \in Marks : \A a \in stats[w][c] : CountedInv(w, c, a)
  /\ \A w \in Workers : \A a \in stats[w]["timed_out"] : TimedOutInv(a)
=============================================================================
