---------------------------- MODULE KeyedClaim ----------------------------
(***************************************************************************)
(* How the poll loop picks rows: the headroom of each key, the two stages  *)
(* of SQL_KEYED (rank on the statement's snapshot, then lock) and the      *)
(* tasks that use the keys up.  SQL_PLAIN is the case of a worker without  *)
(* limits.  Rows are claimed in the order of run_at and id while the       *)
(* reaper, retries and other transactions change and lock them.  Rows      *)
(* that do not decode are the matter of WorkQueue.                         *)
(***************************************************************************)
EXTENDS Integers, FiniteSets, FiniteSetsExt

CONSTANTS
    Jobs,
    Id,             \* the rows' ids: a number per job
    KeyOf, NoKey,   \* concurrency_key, NULL
    Limit,          \* concurrency_limits: a function on the configured keys
    Concurrency, BatchSize,
    MaxAttempts,
    RunAts,         \* the values of run_at
    MaxForeign      \* bound on the transactions of others that lock rows

ASSUME KeyAssumption ==
    /\ IsFiniteSet(Jobs) /\ \A j \in Jobs : Id[j] \in Nat
    /\ \A i, j \in Jobs : i # j => Id[i] # Id[j]
    /\ NoKey \notin DOMAIN Limit
    /\ \A k \in DOMAIN Limit : Limit[k] \in Nat \ {0}
    /\ {Concurrency, BatchSize, MaxAttempts} \subseteq Nat \ {0}
    /\ RunAts \subseteq Nat

VARIABLES
    row,            \* status, run_at and attempts; "ready" is claimable and due
    live,           \* the worker's tasks, each a job and the attempt it was claimed for
    poll,           \* the poll loop: pc, permits asked for, headroom, ranked rows, batch
    foreign         \* the rows another transaction has locked; how many there were

vars == <<row, live, poll, foreign>>

-----------------------------------------------------------------------------
(* The claim statements, as functions of a table *)

Ready == {j \in Jobs : row[j].status = "ready"}

\* ORDER BY run_at, id
Before(i, j) == row[i].run_at < row[j].run_at \/ (row[i].run_at = row[j].run_at /\ Id[i] < Id[j])

\* ORDER BY ... LIMIT n
First(S, n) == {j \in S : Cardinality({i \in S : Before(i, j)}) < n}

Keyed(k) == {j \in Ready : KeyOf[j] = k}
Unlimited(h) == {j \in Ready : KeyOf[j] \notin DOMAIN h}

\* Mutant: the LIMIT is applied before the keys are looked at.
RankedLimitFirst(h, want) ==
    {j \in First(Ready, want) : KeyOf[j] \in DOMAIN h => j \in First(Keyed(KeyOf[j]), h[KeyOf[j]])}

\* Mutant: the LATERAL forgets the headroom.
RankedByBatch(h, want) ==
    (UNION {First(Keyed(k), want) : k \in DOMAIN h}) \cup First(Unlimited(h), want)

\* eligible_keyed and eligible_unlimited; with no limits only the latter, as in SQL_PLAIN.
Ranked(h, want) ==
    (UNION {First(Keyed(k), Min({h[k], want})) : k \in DOMAIN h}) \cup First(Unlimited(h), want)

\* locked: the candidates that are still eligible in their newest version and that
\* nobody else has locked, in order, up to the LIMIT.
Locked(candidates, want, busy) == First((candidates \cap Ready) \ busy, want)

-----------------------------------------------------------------------------
(* The worker *)

OfKey(tasks, k) == {t \in tasks : KeyOf[t[1]] = k}
Tasks(k) == Cardinality(OfKey(live, k))
Free == Concurrency - Cardinality(live)

\* limit.saturating_sub(used) for every configured key
Headroom == [k \in DOMAIN Limit |-> Max({Limit[k] - Tasks(k), 0})]

NoHeadroom == [k \in DOMAIN Limit |-> 0]
Idle == [pc |-> "idle", want |-> 0, headroom |-> NoHeadroom, ids |-> {}, batch |-> {}]

Init ==
    /\ \E at \in [Jobs -> RunAts] :
        row = [j \in Jobs |-> [status |-> "ready", run_at |-> at[j], attempts |-> 0]]
    /\ live = {}
    /\ poll = Idle
    /\ foreign = [locked |-> {}, count |-> 0]

\* Permits, then the headroom snapshot.
PollTick ==
    /\ poll.pc = "idle" /\ Free > 0
    /\ poll' = [pc |-> "send", want |-> Min({Free, BatchSize}), headroom |-> Headroom, ids |-> {},
                batch |-> {}]
    /\ UNCHANGED <<row, live, foreign>>

\* The statement takes its snapshot and ranks the candidates.
Rank ==
    /\ poll.pc = "send"
    /\ poll' = [poll EXCEPT !.pc = "rank", !.ids = Ranked(poll.headroom, poll.want)]
    /\ UNCHANGED <<row, live, foreign>>

\* The UPDATE of a claim.
Claimed(r) == [status |-> "running", run_at |-> r.run_at, attempts |-> r.attempts + 1]

\* It locks what it can, updates it and returns it.
Lock ==
    /\ poll.pc = "rank"
    /\ LET ids == Locked(poll.ids, poll.want, foreign.locked) IN
        /\ row' = [j \in Jobs |-> IF j \in ids THEN Claimed(row[j]) ELSE row[j]]
        /\ poll' = [poll EXCEPT !.pc = "spawn", !.ids = {},
                                !.batch = {<<j, row[j].attempts + 1>> : j \in ids}]
    /\ UNCHANGED <<live, foreign>>

\* Each claimed row becomes a task, which counts for its key.
Spawn ==
    /\ poll.pc = "spawn"
    /\ live' = live \cup poll.batch
    /\ poll' = Idle
    /\ UNCHANGED <<row, foreign>>

\* The claim fails or its reply is lost: nothing is spawned.
ClaimFails ==
    /\ poll.pc \in {"send", "rank", "spawn"}
    /\ poll' = Idle
    /\ UNCHANGED <<row, live, foreign>>

\* A row waits for another attempt, with a run_at of its own, or is dead.
Retried(r, at) ==
    [r EXCEPT !.status = IF r.attempts < MaxAttempts THEN "waiting" ELSE "settled", !.run_at = at]

\* A task ends.  Its mark settles the row, retries it, or has no effect (fenced out,
\* timed out, failed).
TaskEnds(j) ==
    /\ \E t \in live : t[1] = j /\ live' = live \ {t}
    /\ \/ row[j].status = "running" /\ row' = [row EXCEPT ![j].status = "settled"]
       \/ row[j].status = "running" /\ \E at \in RunAts : row' = [row EXCEPT ![j] = Retried(@, at)]
       \/ UNCHANGED row
    /\ UNCHANGED <<poll, foreign>>

\* The lease of a running row has expired; its task may still be there.
Reap(j) ==
    /\ row[j].status = "running"
    /\ row' = [row EXCEPT ![j] = Retried(@, @.run_at)]
    /\ UNCHANGED <<live, poll, foreign>>

BecomeDue(j) ==
    /\ row[j].status = "waiting"
    /\ row' = [row EXCEPT ![j].status = "ready"]
    /\ UNCHANGED <<live, poll, foreign>>

\* Another transaction locks rows that are waiting to be claimed: an earlier claim whose
\* connection was lost, a tick_once, an operator.  It commits a claim or rolls back.
ForeignLocks ==
    /\ foreign.locked = {} /\ foreign.count < MaxForeign
    /\ \E S \in SUBSET Ready : S # {} /\ foreign' = [locked |-> S, count |-> foreign.count + 1]
    /\ UNCHANGED <<row, live, poll>>

ForeignEnds ==
    /\ foreign.locked # {}
    /\ \/ UNCHANGED row
       \/ row' = [j \in Jobs |-> IF j \in foreign.locked THEN Claimed(row[j]) ELSE row[j]]
    /\ foreign' = [foreign EXCEPT !.locked = {}]
    /\ UNCHANGED <<live, poll>>

Poll == PollTick \/ Rank \/ Lock \/ Spawn

Next ==
    \/ Poll \/ ClaimFails
    \/ \E j \in Jobs : TaskEnds(j) \/ Reap(j) \/ BecomeDue(j)
    \/ ForeignLocks \/ ForeignEnds

Spec == Init /\ [][Next]_vars

\* The loop runs on; claims may fail, but not always (after MAX_CONSECUTIVE_CLAIM_ERRORS
\* the worker would stop); delays and transactions of others end; leases expire.  Handlers
\* of jobs with a limited key may hang for ever, the others end by themselves or by their
\* timeout.
Hanging == {j \in Jobs : KeyOf[j] \in DOMAIN Limit}

FairSpec ==
    /\ Spec
    /\ WF_vars(PollTick) /\ SF_vars(Rank) /\ SF_vars(Lock) /\ SF_vars(Spawn)
    /\ WF_vars(ForeignEnds)
    /\ \A j \in Jobs : WF_vars(BecomeDue(j)) /\ WF_vars(Reap(j))
    /\ \A j \in Jobs \ Hanging : WF_vars(TaskEnds(j))

-----------------------------------------------------------------------------

\* From the table to the tasks: the tasks of a limited key and the rows claimed for it
\* never exceed its limit, although tasks end, rows are reaped under their tasks and
\* re-claimed, and ranking, locking and spawning see different moments.
KeyLimitHolds ==
    \A k \in DOMAIN Limit :
        Tasks(k) + Cardinality(OfKey(poll.batch, k)) <= Limit[k]

\* The admission the README describes: walk the due rows in (run_at, id) order and take
\* each one whose key still has headroom, until the batch is full.
Admits(S, j, h, want) ==
    /\ Cardinality(S) < want
    /\ KeyOf[j] \in DOMAIN h => Cardinality({i \in S : KeyOf[i] = KeyOf[j]}) < h[KeyOf[j]]

\* How many due rows come before a row.
Position(j) == Cardinality({i \in Ready : Before(i, j)})

\* The walk has taken S and comes to the row at position n.
WalkTo(S, n, h, want) == S \cup {j \in Ready : Position(j) = n /\ Admits(S, j, h, want)}

Greedy(h, want) ==
    LET walk[n \in Nat] == IF n = 0 THEN {} ELSE WalkTo(walk[n - 1], n - 1, h, want)
    IN  walk[Cardinality(Ready)]

\* On a table that nobody else is changing the two stages of SQL_KEYED select exactly
\* what the one-pass admission in (run_at, id) order does.
SelectsGreedily ==
    poll.pc = "send" =>
        Locked(Ranked(poll.headroom, poll.want), poll.want, {}) = Greedy(poll.headroom, poll.want)

\* No head-of-line blocking: a due job without a limited key is claimed or settled in the
\* end, even if handlers of limited keys hang for ever and their rows come first.  It rests
\* on the limits of those keys adding up to less than the concurrency (1 and 2 in the run):
\* otherwise hanging handlers may hold every permit.
OthersProgress ==
    \A j \in Jobs \ Hanging : row[j].status = "ready" ~> row[j].status # "ready"

-----------------------------------------------------------------------------
\* What KeyLimitHolds rests on.

Row == [status : {"ready", "running", "waiting", "settled"}, run_at : Nat, attempts : Nat]

TypeOK ==
    /\ row \in [Jobs -> Row]
    /\ live \subseteq Jobs \X Nat /\ IsFiniteSet(live)
    /\ poll \in [pc : {"idle", "send", "rank", "spawn"}, want : Nat,
                 headroom : [DOMAIN Limit -> Nat], ids : SUBSET Jobs, batch : SUBSET (Jobs \X Nat)]
    /\ IsFiniteSet(poll.batch)
    /\ foreign \in [locked : SUBSET Jobs, count : Nat]

\* A task has an attempt of its own.
AttemptInv ==
    /\ live \cap poll.batch = {}
    /\ \A t \in live \cup poll.batch : t[2] <= row[t[1]].attempts

\* While a claim is under way the headroom is room for tasks that end meanwhile or not, for
\* only this loop adds any; and no more rows of a key are ranked than that.
HeadroomInv ==
    \A k \in DOMAIN Limit :
        /\ poll.pc \in {"send", "rank"} => Tasks(k) + poll.headroom[k] <= Limit[k]
        /\ poll.pc = "rank" => Cardinality({j \in poll.ids : KeyOf[j] = k}) <= poll.headroom[k]

ClaimInv ==
    /\ TypeOK /\ AttemptInv /\ HeadroomInv /\ KeyLimitHolds
    /\ poll.pc # "spawn" => poll.batch = {}
=============================================================================
