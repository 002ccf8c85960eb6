------------------------------ MODULE TickOnce ------------------------------
(***************************************************************************)
(* Worker::tick_once, the second driver of the table: a call claims a      *)
(* batch, decodes all of it, then runs the handlers one after the other in *)
(* the caller's task.  Nothing is spawned, nothing has a timeout, and a    *)
(* handler's panic unwinds the whole call.  It shares the table with       *)
(* started workers, whose reapers recover what a call leaves behind.       *)
(***************************************************************************)
EXTENDS WorkQueue

CONSTANT Tickers    \* the workers that are driven by tick_once

ASSUME TickerAssumption == Tickers \subseteq Workers

\* The call in progress: where it is, and TickStats; each counter is the set of
\* <<job, attempt>> it counts.  `unmarked` is not in TickStats: the marks that failed.
\* `returned` is history: the rows the claim returned.
VARIABLE tick

tickVars == <<tick, vars>>

Counters == {"claimed", "completed", "failed", "fenced_out", "unmarked"}
NoStats == [c \in Counters |-> {}]
NoCall == [pc |-> "none", stats |-> NoStats, returned |-> {}]

Started == Workers \ Tickers
Attempt(t) == <<t.job, t.attempts>>

TickInit == Init /\ tick = [w \in Tickers |-> NoCall]

\* claim_and_decode: the claim, with no headroom.
TickClaim(w, S) ==
  /\ tick[w].pc = "none"
  /\ Claim(w, S)
  /\ tick' = [tick EXCEPT ![w] = [pc |-> "decode", stats |-> NoStats,
                                  returned |-> {Attempt(NewTask(w, j)) : j \in S}]]

\* The claim's error is the call's.
TickClaimFails(w, S) ==
  /\ tick[w].pc = "none"
  /\ ClaimUnanswered(w, S)
  /\ UNCHANGED tick

TickReject(t) ==
  /\ RejectRow(t) \/ RejectRowFails(t)
  /\ UNCHANGED tick

\* Every row left decodes: they are counted, and the loop over them begins.
TickDecoded(w) ==
  /\ tick[w].pc = "decode"
  /\ \A t \in Batch(w) : ~Undecodable(t)
  /\ LET claimed == {Attempt(t) : t \in Batch(w)}
     IN  tick' = [tick EXCEPT ![w] =
                    [pc |-> "loop", stats |-> [NoStats EXCEPT !["claimed"] = claimed],
                     returned |-> tick[w].returned]]
  /\ UNCHANGED vars

\* Mutant: the job handled is not taken off the batch.
TickCallKept(t) ==
  /\ tick[t.worker].pc = "loop" /\ t.pc = "decode"
  /\ TasksOf(t.worker) = Batch(t.worker)
  /\ tasks' = tasks \cup {[t EXCEPT !.pc = "handler"]}
  /\ invoked' = invoked \cup {Attempt(t)}
  /\ UNCHANGED <<jobs, issued, late, succeeded, tick>>

\* The next job, once the previous one is settled.
TickCall(t) ==
  /\ tick[t.worker].pc = "loop" /\ t.pc = "decode"
  /\ TasksOf(t.worker) = Batch(t.worker)
  /\ tasks' = (tasks \ {t}) \cup {[t EXCEPT !.pc = "handler"]}
  /\ invoked' = invoked \cup {Attempt(t)}
  /\ UNCHANGED <<jobs, issued, late, succeeded, tick>>

TickHandlerReturn(t) ==
  /\ \E o \in {"ok", "retry", "abort"} : HandlerReturn(t, o)
  /\ UNCHANGED tick

\* Mutant: rows_affected is not looked at.
CountedBlindly(t) == IF t.op = "done" THEN "completed" ELSE "failed"

\* flip_done_tick, flip_retry_tick, flip_dead_tick: the counter for rows_affected.
CountedAs(t) ==
  IF ~Holds(jobs[t.job], t.token) THEN "fenced_out"
  ELSE IF t.op = "done" THEN "completed" ELSE "failed"

Count(t, counter) ==
  tick' = [tick EXCEPT ![t.worker].stats[counter] = @ \cup {Attempt(t)}]

TickMarkAnswered(t) == MarkAnswered(t) /\ Count(t, CountedAs(t))

\* The mark's error is logged; its row is counted nowhere.
TickMarkFails(t) == MarkUnanswered(t) /\ Count(t, "unmarked")

TickReturns(w) ==
  /\ tick[w].pc = "loop" /\ TasksOf(w) = {}
  /\ tick' = [tick EXCEPT ![w] = NoCall]
  /\ UNCHANGED vars

\* A handler panics, the caller drops the future, or the process dies: the rest of the
\* batch is forgotten.
TickUnwinds(w) ==
  /\ Crash(w)
  /\ tick' = [tick EXCEPT ![w] = NoCall]

Ticker(w) ==
  \/ \E S \in SUBSET Jobs : TickClaim(w, S) \/ TickClaimFails(w, S)
  \/ TickDecoded(w) \/ TickReturns(w) \/ TickUnwinds(w)

TickTask(t) ==
  \/ TickReject(t) \/ TickCall(t) \/ TickHandlerReturn(t)
  \/ TickMarkAnswered(t) \/ TickMarkFails(t)

TickNext ==
  \/ \E w \in Tickers : Ticker(w)
  \/ \E t \in tasks : t.worker \in Tickers /\ TickTask(t)
  \/ /\ \/ Store
        \/ \E w \in Started : Poll(w) \/ Crash(w)
        \/ \E t \in tasks : t.worker \in Started /\ HandleJob(t)
        \/ \E m \in late : LateMark(m)
     /\ UNCHANGED tick

TickSpec == TickInit /\ [][TickNext]_tickVars

\* As in WorkQueue, for the started workers only: no call of tick_once need ever be made,
\* return or finish its batch.  Sweeps and claims are of rows they may touch.
TickFairness ==
  /\ \A j \in Jobs : WF_vars(BecomeDue(j)) /\ WF_vars(LeaseExpire(j))
  /\ WF_vars(\E S \in SUBSET {j \in Jobs : Stale(jobs[j])} : Reap(S))
  /\ WF_vars(\E w \in Started, S \in SUBSET {j \in Jobs : Eligible(jobs[j])} :
               Claim(w, S) \/ ClaimUnanswered(w, S))
  /\ \A w \in Started :
       WF_vars(Spawn(w) \/ DropBatch(w)
               \/ \E t \in Batch(w) : RejectRow(t) \/ RejectRowFails(t))

FairTickSpec == TickSpec /\ TickFairness

-----------------------------------------------------------------------------

\* The counters of what became of a row, the attempts they count, and those still to come;
\* of the rows the claim returned, those that decode.
Results == Counters \ {"claimed"}
Counted(stats) == UNION {stats[c] : c \in Results}
Open(w) == {Attempt(t) : t \in TasksOf(w)}
Decoded(w) == {a \in tick[w].returned : a[1] \in Decodes[w]}

\* The settled rows of a call, one after the other: what its counters say is what happened
\* to the table.  A completed attempt is the one that finished its row; a failed one did
\* not succeed; a fenced one no longer holds its row; every row that the claim returned and
\* that decodes is counted once, failed to be marked, or is still to be handled, nothing
\* else is, and at most one is being handled; no result is of a row that is not claimed.
TickStatsTrue ==
  \A w \in Tickers :
    LET s == tick[w].stats
    IN  tick[w].pc = "loop" =>
          /\ \A a \in s["completed"] : /\ jobs[a[1]].status \in {"done", "purged"}
                                       /\ jobs[a[1]].attempts = a[2]
          /\ s["failed"] \cap succeeded = {}
          /\ \A a \in s["fenced_out"] :
               jobs[a[1]].status = "running" => jobs[a[1]].attempts > a[2]
          /\ Decoded(w) = Counted(s) \cup Open(w)
          /\ Counted(s) \subseteq s["claimed"]
          /\ \A c, d \in Results : c # d => s[c] \cap s[d] = {}
          /\ Cardinality({t \in TasksOf(w) : t.pc # "decode"}) <= 1

\* TickStats::claimed as its doc has it: the number of rows that the SQL of claim_batch
\* returned.  (tick_once counts the rows that are left when claim_and_decode has dropped
\* those that do not decode.)
ClaimedIsReturned ==
  \A w \in Tickers : tick[w].pc = "loop" => tick[w].stats["claimed"] = tick[w].returned

\* What TickStatsTrue rests on: a worker between two calls has no tasks, and one that decodes has
\* counted nothing and lost no row that decodes; the loop runs over rows that decode; and an
\* attempt it has counted, or given up, has no task anywhere.
Call == [pc : {"none", "decode", "loop"}, stats : [Counters -> SUBSET (Jobs \X Nat)],
         returned : SUBSET (Jobs \X Nat)]

CallInv(w) ==
  /\ tick[w].pc = "none" => TasksOf(w) = {}
  /\ tick[w].pc # "loop" => tick[w].stats = NoStats /\ TasksOf(w) = Batch(w)
  /\ tick[w].pc = "decode" => Decoded(w) = {a \in Open(w) : a[1] \in Decodes[w]}
  /\ tick[w].pc = "loop" =>
       /\ tick[w].stats["claimed"] = Decoded(w)
       /\ \A t \in Batch(w) : ~Undecodable(t)
       /\ \A t, u \in TasksOf(w) : t.pc # "decode" /\ u.pc # "decode" => t = u
       /\ \A c \in Results : \A a \in tick[w].stats[c] :
            /\ a[2] \in 1..jobs[a[1]].attempts
            /\ \A t \in tasks : Attempt(t) # a

TickInv ==
  /\ IInv /\ AttemptInv
  /\ tick \in [Tickers -> Call]
  /\ TickStatsTrue
  /\ \A w \in Tickers : CallInv(w)

\* A call of tick_once that hangs in a handler, panics or is dropped with rows left in its
\* batch strands none of them: each is settled in the end by the started workers.
NoRowStranded ==
  \A j \in Jobs :
    jobs[j].status = "queued" ~> jobs[j].status \in {"done", "dead", "purged"}
=============================================================================
