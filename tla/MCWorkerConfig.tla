--------------------------- MODULE MCWorkerConfig ---------------------------
(***************************************************************************)
(* What follows from a configuration that build() accepts: the retries of  *)
(* one job, or the leases of the rows of one worker.  The two share no     *)
(* state, so either is explored with the other at its end.                 *)
(***************************************************************************)
EXTENDS MCRetrySchedule, LeaseTiming, TLC

Timed(lease, handler, mark, interval) ==
    [Required EXCEPT !.lease_timeout = lease, !.handler_timeout = handler,
                     !.mark_timeout = mark, !.reaper_interval = interval, !.poll_interval = 100]

\* Every combination around the rules; build() decides which of them are explored.
MCBuilders ==
    {Timed(lease, handler, mark, interval) :
        lease \in {2000, 4000}, handler \in {1000, 2000, 3000},
        mark \in {500, 1000, 2000}, interval \in {Unset, 1000, 2000, 2500}}

RowSymmetry == Permutations(Rows)

\* build() has failed.
RetryOver ==
    /\ builder = NewBuilder /\ calls = 0 /\ result = BuildError(builder)
    /\ attempts = 0 /\ override = NoOverride /\ delay = NoDelay

\* Every row is settled.
TimingOver ==
    /\ worker = Worker(Required) /\ now = ClaimWindow
    /\ row = [r \in Rows |-> [status |-> "settled", expires |-> now]]
    /\ task = [r \in Rows |-> [pc |-> "gone", since |-> now]]
    /\ reaper = [next |-> now + worker.reaper_interval, skip |-> FALSE]

ConfigInit == (RetryInit /\ TimingOver) \/ (TimingInit /\ RetryOver)

ConfigNext == (RetryNext /\ UNCHANGED timingVars) \/ (TimingNext /\ UNCHANGED retryVars)

ConfigSpec == ConfigInit /\ [][ConfigNext]_<<retryVars, timingVars>>
=============================================================================
