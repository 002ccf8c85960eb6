------------------------ MODULE WorkerProcessProofs ------------------------
(***************************************************************************)
(* Proofs about WorkerProcess, for any number of claimed rows, any keys    *)
(* with any limits, any concurrency, batch size and error thresholds.      *)
(***************************************************************************)
EXTENDS WorkerProcess, FiniteSetTheorems, TLAPS

\* The rows whose task owns a permit, and those that own a slot of a key.
PermitOwners == {r \in Rows : "permit" \in task[r].owns}

SlotOwners(k) == {r \in WithKey(Rows, k) : "slot" \in task[r].owns}

-----------------------------------------------------------------------------
\* Counting rows.

\* A set of claimed rows is finite.
LEMMA RowsCount ==
  ASSUME NEW S \in SUBSET Rows
  PROVE  IsFiniteSet(S) /\ Cardinality(S) \in Nat
BY FS_Subset, FS_CardinalityType, ProcessAssumption

\* One more, one less: what a spawn and a drop do to the sets that are counted.
LEMMA OneMore ==
  ASSUME NEW S \in SUBSET Rows, NEW r \in Rows \ S
  PROVE  Cardinality(S \cup {r}) = Cardinality(S) + 1
BY RowsCount, FS_AddElement

\* Removing one element of a finite set lowers its size by one: a task that
\* leaves the JoinSet, a guard that is dropped.
LEMMA OneLess ==
  ASSUME NEW S \in SUBSET Rows, NEW r \in S
  PROVE  Cardinality(S) > 0 /\ Cardinality(S \ {r}) = Cardinality(S) - 1
<1>1. Cardinality(S \ {r}) = Cardinality(S) - 1 /\ Cardinality(S) \in Nat
  BY RowsCount, FS_RemoveElement
<1>2. Cardinality(S) # 0
  BY RowsCount, FS_EmptySet
<1> QED
  BY <1>1, <1>2

\* The rows of a key among some rows.
LEMMA KeyCount ==
  ASSUME NEW S \in SUBSET Rows, NEW k \in Keys
  PROVE  /\ WithKey(S, k) \in SUBSET Rows
         /\ Cardinality(WithKey(S, k)) \in Nat
         /\ S = {} => Cardinality(WithKey(S, k)) = 0
<1>1. WithKey(S, k) \in SUBSET Rows
  BY DEF WithKey
<1>2. S = {} => WithKey(S, k) = {}
  BY DEF WithKey
<1> QED
  BY <1>1, <1>2, RowsCount, FS_EmptySet

-----------------------------------------------------------------------------
\* What a step that leaves some part of the process alone keeps.

\* Every task still owns what it owned, and no permit changed hands except between the poll
\* loop and the semaphore.
LEMMA CountFrame ==
  ASSUME IInv, UNCHANGED running,
         free' + poll'.permits = free + poll.permits,
         \A r \in Rows : task'[r].owns = task[r].owns
  PROVE  PermitsExact' /\ SlotsExact'
<1>1. PermitOwners' = PermitOwners
  BY DEF PermitOwners
<1>2. ASSUME NEW k \in Keys
      PROVE  SlotOwners(k)' = SlotOwners(k)
  BY DEF SlotOwners, WithKey
<1>3. PermitsExact'
  BY <1>1 DEF IInv, PermitsExact, PermitOwners
<1>4. SlotsExact'
  BY <1>2 DEF IInv, SlotsExact, SlotOwners
<1> QED
  BY <1>3, <1>4

\* Nothing happened to the tasks, their counters or the list of aborted ones.
LEMMA TaskFrame ==
  ASSUME IInv, UNCHANGED <<task, stats>>, handle'.aborted \subseteq handle.aborted
  PROVE  \A r \in Rows : TaskInv(r)'
<1> SUFFICES ASSUME NEW r \in Rows PROVE TaskInv(r)'
  OBVIOUS
<1>1. TaskInv(r)
  BY DEF IInv
<1> QED
  BY <1>1 DEF TaskInv

\* The poll loop did not move, and the rows it holds are not spawned.
LEMMA PollFrame ==
  ASSUME IInv, UNCHANGED <<poll, running>>,
         lock' = "poll" <=> lock = "poll",
         \A r \in poll.rows : task'[r].st = task[r].st
  PROVE  PollInv' /\ RowsHavePermits'
BY DEF IInv, PollInv, RowsHavePermits

\* The handle did not move and no task was added, and a loop that was seen to exit stays so.
LEMMA HandleFrame ==
  ASSUME IInv, UNCHANGED handle,
         lock' = "handle" <=> lock = "handle",
         handle.clean =>
           /\ poll'.pc = poll.pc /\ reaper'.pc = reaper.pc
           /\ InSet' \subseteq InSet /\ Live' \subseteq Live
           /\ \A r \in Live' : task'[r].abort = task[r].abort
  PROVE  HandleInv'
<1>1. HandleInv
  BY DEF IInv
<1> QED
  BY <1>1 DEF HandleInv

\* Nobody was cancelled, no error was recorded and no method of the handle returned.
LEMMA ErrorFrame ==
  ASSUME IInv, UNCHANGED <<cancelled, asked, errors>>,
         handle'.pc = "returned" /\ handle'.clean =>
           handle.pc = "returned" /\ handle.clean /\ handle'.result = handle.result
  PROVE  ErrorsSurface'
BY DEF IInv, ErrorsSurface, Verdict

-----------------------------------------------------------------------------
\* The steps of the poll loop.

\* The poll loop's wakeup, before a permit is asked for.
LEMMA TickStep == IInv /\ Tick => IInv'
<1> SUFFICES ASSUME IInv, Tick PROVE IInv'
  OBVIOUS
<1> USE DEF Tick, PollAt
<1>1. TypeOK'
  BY DEF IInv, TypeOK
<1>2. PollInv' /\ RowsHavePermits'
  BY DEF IInv, TypeOK, PollInv, RowsHavePermits
<1>3. HandleInv'
  BY HandleFrame DEF IInv, TypeOK, HandleInv, InSet, Live
<1>4. PermitsExact' /\ SlotsExact'
  BY CountFrame DEF IInv, TypeOK
<1> QED
  BY <1>1, <1>2, <1>3, <1>4, TaskFrame, ErrorFrame DEF IInv

\* Taking the first permit and as many more as are free (worker.rs poll loop).
LEMMA AcquirePermitsStep == IInv /\ AcquirePermits => IInv'
<1> DEFINE want == IF free < BatchSize THEN free ELSE BatchSize
<1>1. SUFFICES ASSUME IInv, AcquirePermits PROVE IInv'
  OBVIOUS
<1>2. /\ want \in Nat /\ want <= free
      /\ poll' = [poll EXCEPT !.pc = "snapshot", !.permits = want]
      /\ free' = free - want /\ free' \in Nat
      /\ UNCHANGED <<cancelled, asked, running, reaper, task, lock, errors, stats, handle>>
  BY <1>1, ProcessAssumption DEF IInv, TypeOK, AcquirePermits
<1> HIDE DEF want
<1>3. /\ poll.pc = "permit" /\ poll.permits = 0 /\ poll.rows = {}
      /\ poll' = [pc |-> "snapshot", permits |-> want, headroom |-> poll.headroom,
                  rows |-> {}, errors |-> poll.errors, abort |-> poll.abort]
  <2>1. poll.pc = "permit" /\ poll.permits = 0 /\ poll.rows = {}
    BY <1>1 DEF IInv, TypeOK, PollInv, AcquirePermits, PollAt
  <2> QED
    BY <1>1, <1>2, <2>1 DEF IInv, TypeOK
<1>4. TypeOK'
  BY <1>1, <1>2, <1>3 DEF IInv, TypeOK
<1>5. PollInv' /\ RowsHavePermits'
  <2>1. RowsHavePermits'
    BY <1>2, <1>3, FS_EmptySet DEF RowsHavePermits
  <2> QED
    BY <1>1, <1>2, <1>3, <2>1 DEF IInv, TypeOK, PollInv
<1>6. HandleInv'
  BY <1>1, <1>2, <1>3, HandleFrame DEF IInv, TypeOK, HandleInv, InSet, Live
<1>7. PermitsExact' /\ SlotsExact'
  BY <1>1, <1>2, <1>3, CountFrame DEF IInv, TypeOK
<1> QED
  BY <1>1, <1>2, <1>4, <1>5, <1>6, <1>7, TaskFrame, ErrorFrame DEF IInv

\* limit.saturating_sub(used) never saturates, so the headroom and the slots in use add up to
\* the limit.
LEMMA SnapshotStep == IInv /\ SnapshotHeadroom => IInv'
<1>1. SUFFICES ASSUME IInv, SnapshotHeadroom PROVE IInv'
  OBVIOUS
<1>2. /\ Headroom \in [Keys -> Nat]
      /\ \A k \in Keys : running[k] + Headroom[k] <= Limit[k]
  <2>1. ASSUME NEW k \in Keys
        PROVE  running[k] \in Nat /\ running[k] <= Limit[k] /\ Limit[k] \in Nat
    <3>1. /\ running[k] \in Nat /\ Limit[k] \in Nat
          /\ Cardinality(WithKey(poll.rows, k)) \in Nat
      BY <1>1, KeyCount, ProcessAssumption DEF IInv, TypeOK
    <3> QED
      BY <1>1, <3>1 DEF IInv, PollInv
  <2> QED
    BY <2>1 DEF Headroom
<1>3. /\ poll.pc = "snapshot"
      /\ poll' = [pc |-> "claim", permits |-> poll.permits, headroom |-> Headroom,
                  rows |-> poll.rows, errors |-> poll.errors, abort |-> poll.abort]
      /\ UNCHANGED <<cancelled, asked, free, running, reaper, task, lock, errors, stats, handle>>
  BY <1>1 DEF IInv, TypeOK, SnapshotHeadroom, PollAt
<1>4. TypeOK'
  BY <1>1, <1>2, <1>3 DEF IInv, TypeOK
<1>5. PollInv' /\ RowsHavePermits'
  BY <1>1, <1>2, <1>3 DEF IInv, TypeOK, PollInv, RowsHavePermits
<1>6. HandleInv'
  BY <1>1, <1>3, HandleFrame DEF IInv, TypeOK, HandleInv, InSet, Live
<1>7. PermitsExact' /\ SlotsExact'
  BY <1>1, <1>3, CountFrame DEF IInv, TypeOK
<1> QED
  BY <1>1, <1>3, <1>4, <1>5, <1>6, <1>7, TaskFrame, ErrorFrame DEF IInv

\* What is left of the poll loop's state when an iteration ends.
LEMMA EmptiedRecord ==
  ASSUME IInv, NEW pc \in {"tick", "exit"}, NEW n \in Nat
  PROVE  /\ NoHeadroom \in [Keys -> Nat]
         /\ [Emptied(pc) EXCEPT !.errors = n]
              = [pc |-> pc, permits |-> 0, headroom |-> NoHeadroom, rows |-> {},
                 errors |-> n, abort |-> poll.abort]
<1>0. poll \in [pc : {"tick", "permit", "snapshot", "claim", "lock", "spawn", "exit"},
                permits : Nat, headroom : [Keys -> Nat], rows : SUBSET Rows,
                errors : Nat, abort : BOOLEAN]
  BY DEF IInv, TypeOK
<1>1. NoHeadroom \in [Keys -> Nat]
  BY DEF NoHeadroom
<1>2. PICK e \in Nat : e = IF pc = "exit" THEN 0 ELSE poll.errors
  BY <1>0
<1>3. Emptied(pc) = [pc |-> pc, permits |-> 0, headroom |-> NoHeadroom, rows |-> {},
                     errors |-> e, abort |-> poll.abort]
  <2>1. Emptied(pc) = [poll EXCEPT !.pc = pc, !.permits = 0, !.rows = {},
                                   !.headroom = NoHeadroom, !.errors = e]
    BY <1>2 DEF Emptied
  <2> QED
    BY <1>0, <1>1, <2>1
<1> QED
  BY <1>1, <1>3

\* An iteration that ends without rows to spawn gives its permits back, whether its claim
\* returned none, failed or was dropped, and whatever rows it had claimed.
LEMMA PollLeaves ==
  ASSUME IInv, poll.pc # "exit",
         NEW pc \in {"tick", "exit"}, NEW n \in Nat,
         poll' = [pc |-> pc, permits |-> 0, headroom |-> NoHeadroom, rows |-> {},
                  errors |-> n, abort |-> poll.abort],
         free' = free + poll.permits,
         lock' = IF poll.pc = "spawn" THEN "free" ELSE lock,
         UNCHANGED <<running, reaper, task, stats, handle>>,
         cancelled' \in BOOLEAN, asked' \in BOOLEAN,
         errors' \subseteq {"Fatal", "ReaperPanicEscalation"},
         ErrorsSurface'
  PROVE  IInv'
<1>1. /\ poll'.pc = pc /\ poll'.permits = 0 /\ poll'.headroom = NoHeadroom
      /\ poll'.rows = {} /\ poll'.errors = n /\ poll'.abort = poll.abort
  OBVIOUS
<1>2. TypeOK'
  <2>1. NoHeadroom \in [Keys -> Nat]
    BY EmptiedRecord
  <2> QED
    BY <2>1 DEF IInv, TypeOK
<1>3. RowsHavePermits'
  BY <1>1, FS_EmptySet DEF RowsHavePermits
<1>4. PollInv'
  <2>1. ASSUME NEW k \in Keys
        PROVE  running[k] + Cardinality(WithKey({}, k)) <= Limit[k]
    <3>1. /\ running[k] \in Nat /\ Limit[k] \in Nat
          /\ Cardinality(WithKey(poll.rows, k)) \in Nat
          /\ Cardinality(WithKey({}, k)) = 0
      BY KeyCount, ProcessAssumption DEF IInv, TypeOK
    <3> QED
      BY <3>1 DEF IInv, PollInv
  <2>2. poll'.pc = "spawn" <=> lock' = "poll"
    BY <1>1 DEF IInv, TypeOK, PollInv
  <2> QED
    BY <1>1, <2>1, <2>2 DEF PollInv
<1>5. HandleInv'
  BY <1>1, HandleFrame DEF IInv, TypeOK, PollInv, HandleInv, InSet, Live
<1>6. PermitsExact' /\ SlotsExact'
  BY <1>1, CountFrame DEF IInv, TypeOK
<1> QED
  BY <1>2, <1>3, <1>4, <1>5, <1>6, TaskFrame DEF IInv

\* However stale the headroom was, the rows of a claim fit beside the slots in use: nothing
\* but a spawn takes a slot, and spawns wait for the claim.
LEMMA ClaimReturnsStep ==
  ASSUME IInv, NEW R \in SUBSET Rows, ClaimReturns(R)
  PROVE  IInv'
<1>1. poll.pc = "claim" /\ poll.rows = {}
  BY DEF IInv, TypeOK, PollInv, ClaimReturns, PollAt
<1>2. CASE R = {}
  <2>1. /\ poll' = [Emptied("tick") EXCEPT !.errors = 0]
        /\ free' = free + poll.permits
        /\ UNCHANGED <<cancelled, asked, running, reaper, task, lock, errors, stats, handle>>
    BY <1>2 DEF ClaimReturns
  <2>2. poll' = [pc |-> "tick", permits |-> 0, headroom |-> NoHeadroom, rows |-> {},
                 errors |-> 0, abort |-> poll.abort]
    BY <2>1, EmptiedRecord
  <2> QED
    BY <1>1, <2>1, <2>2, PollLeaves, ErrorFrame DEF IInv, TypeOK
<1>3. CASE R # {}
  <2>0. NoHeadroom \in [Keys -> Nat]
    BY DEF NoHeadroom
  <2>1. /\ poll' = [pc |-> "lock", permits |-> poll.permits, headroom |-> NoHeadroom,
                    rows |-> R, errors |-> 0, abort |-> poll.abort]
        /\ UNCHANGED <<cancelled, asked, free, running, reaper, task, lock, errors, stats,
                       handle>>
    BY <1>3 DEF IInv, TypeOK, ClaimReturns
  <2>2. TypeOK'
    BY <2>0, <2>1 DEF IInv, TypeOK
  <2>3. RowsHavePermits'
    BY <2>1 DEF RowsHavePermits, ClaimReturns, Claimable
  <2>4. PollInv'
    <3>1. ASSUME NEW k \in Keys
          PROVE  running[k] + Cardinality(WithKey(R, k)) <= Limit[k]
      <4>1. /\ running[k] \in Nat /\ Limit[k] \in Nat /\ poll.headroom[k] \in Nat
            /\ Cardinality(WithKey(R, k)) \in Nat
        BY KeyCount, ProcessAssumption DEF IInv, TypeOK
      <4> QED
        BY <1>1, <4>1 DEF IInv, PollInv, ClaimReturns, Claimable
    <3>2. lock # "poll" /\ \A r \in R : task[r].st = "none"
      BY <1>1 DEF IInv, PollInv, ClaimReturns, Claimable
    <3> QED
      BY <2>1, <3>1, <3>2 DEF PollInv
  <2>5. HandleInv'
    BY <1>1, <2>1, HandleFrame DEF IInv, TypeOK, HandleInv, InSet, Live
  <2>6. PermitsExact' /\ SlotsExact'
    BY <2>1, CountFrame DEF IInv, TypeOK
  <2> QED
    BY <2>1, <2>2, <2>3, <2>4, <2>5, <2>6, TaskFrame, ErrorFrame DEF IInv
<1> QED
  BY <1>2, <1>3

\* A claim that fails, for now or for good, gives every permit of its iteration back.
LEMMA ClaimFailsStep ==
  ASSUME IInv, NEW fatal \in BOOLEAN, ClaimFails(fatal)
  PROVE  IInv'
<1>1. poll.pc = "claim" /\ poll.rows = {} /\ poll.errors + 1 \in Nat /\ poll.errors \in Nat
  BY DEF IInv, TypeOK, PollInv, ClaimFails, PollAt
<1>2. PICK pc \in {"tick", "exit"}, n \in Nat :
        poll' = [Emptied(pc) EXCEPT !.errors = n]
  <2>1. CASE fatal \/ poll.errors + 1 >= MaxClaimErrors
    BY <2>1 DEF ClaimFails
  <2>2. CASE ~(fatal \/ poll.errors + 1 >= MaxClaimErrors)
    BY <1>1, <2>2 DEF ClaimFails
  <2> QED
    BY <2>1, <2>2
<1>3. poll' = [pc |-> pc, permits |-> 0, headroom |-> NoHeadroom, rows |-> {},
               errors |-> n, abort |-> poll.abort]
  BY <1>2, EmptiedRecord
<1>4. ErrorsSurface'
  <2>1. ~handle.clean /\ UNCHANGED <<handle, asked>>
    BY <1>1 DEF IInv, HandleInv, ClaimFails
  <2> QED
    BY <2>1 DEF IInv, ErrorsSurface, ClaimFails
<1>5. cancelled' \in BOOLEAN /\ errors' \subseteq {"Fatal", "ReaperPanicEscalation"}
  BY DEF IInv, TypeOK, ClaimFails
<1>6. /\ free' = free + poll.permits
      /\ UNCHANGED <<asked, running, reaper, task, lock, stats, handle>>
  BY DEF ClaimFails
<1> QED
  BY <1>1, <1>3, <1>4, <1>5, <1>6, PollLeaves DEF IInv, TypeOK

\* The poll loop leaves an iteration, by its end, by cancellation or by an abort: what permits
\* it still held are free again, and the lock of the tasks with them.
LEMMA PollGoesStep ==
  ASSUME IInv, PollStops \/ PollAborted \/ SpawnEnds
  PROVE  IInv'
<1>1. PICK pc \in {"tick", "exit"} : PollGoes(pc)
  BY DEF PollStops, PollAborted, SpawnEnds
<1>2. /\ poll.pc # "exit" /\ poll.errors \in Nat
      /\ lock' = IF poll.pc = "spawn" THEN "free" ELSE lock
      /\ UNCHANGED <<cancelled, asked, running, reaper, task, errors, stats, handle>>
  BY DEF IInv, TypeOK, PollStops, PollAborted, SpawnEnds, PollAt
<1>3. PICK n \in Nat : n = IF pc = "exit" THEN 0 ELSE poll.errors
  BY <1>2
<1>4. /\ poll' = [pc |-> pc, permits |-> 0, headroom |-> NoHeadroom, rows |-> {},
                  errors |-> n, abort |-> poll.abort]
      /\ free' = free + poll.permits
  BY <1>1, <1>3 DEF IInv, TypeOK, PollGoes, Emptied
<1> QED
  BY <1>2, <1>4, PollLeaves, ErrorFrame DEF IInv, TypeOK

\* The poll loop takes the lock of the tasks, to spawn the rows it claimed.
LEMMA LockTasksStep == IInv /\ LockTasks => IInv'
<1> SUFFICES ASSUME IInv, LockTasks PROVE IInv'
  OBVIOUS
<1> USE DEF LockTasks, PollAt
<1>1. TypeOK'
  BY DEF IInv, TypeOK
<1>2. PollInv' /\ RowsHavePermits'
  BY DEF IInv, TypeOK, PollInv, RowsHavePermits
<1>3. HandleInv'
  BY HandleFrame DEF IInv, TypeOK, HandleInv, InSet, Live
<1>4. PermitsExact' /\ SlotsExact'
  BY CountFrame DEF IInv, TypeOK
<1> QED
  BY <1>1, <1>2, <1>3, <1>4, TaskFrame, ErrorFrame DEF IInv

\* A spawn hands one permit and, for a limited key, one slot to the task of the row: the
\* counter moves with the owners, and what the claim reserved becomes what is in use.
LEMMA SpawnTaskStep ==
  ASSUME IInv, NEW r \in Rows, SpawnTask(r)
  PROVE  IInv'
<1> DEFINE owned == OwnedAtSpawn(r)
<1>1. /\ poll.pc = "spawn" /\ r \in poll.rows /\ poll.permits > 0 /\ poll.permits \in Nat
      /\ task[r].st = "none" /\ task[r].owns = {} /\ poll.permits - 1 \in Nat
      /\ poll.rows \subseteq Rows
  BY DEF IInv, TypeOK, PollInv, TaskInv, SpawnTask, PollAt
<1>2. /\ poll' = [pc |-> "spawn", permits |-> poll.permits - 1, headroom |-> poll.headroom,
                  rows |-> poll.rows \ {r}, errors |-> poll.errors, abort |-> poll.abort]
      /\ UNCHANGED <<cancelled, asked, free, reaper, lock, errors, stats, handle>>
  BY <1>1 DEF IInv, TypeOK, SpawnTask
<1>3. /\ task' = [task EXCEPT ![r].st = "handler", ![r].owns = owned]
      /\ owned \subseteq {"permit", "slot"}
  BY DEF SpawnTask, OwnedAtSpawn
<1> HIDE DEF owned
<1>4. \A q \in Rows : q # r => task'[q] = task[q]
  BY <1>3 DEF IInv, TypeOK
<1>5. /\ task'[r].st = "handler" /\ task'[r].owns = owned
      /\ task'[r].abort = task[r].abort /\ task'[r].res = task[r].res
  BY <1>3 DEF IInv, TypeOK, TaskState
<1>6. running' \in [Keys -> Nat]
  BY DEF IInv, TypeOK, SpawnTask, Slotted
<1>7. TypeOK'
  <2>1. DOMAIN task' = Rows /\ task' = [q \in Rows |-> task'[q]]
    BY <1>3 DEF IInv, TypeOK
  <2>2. [task[r] EXCEPT !.st = "handler", !.owns = owned] \in TaskState
    <3>1. task[r] \in TaskState /\ owned \in SUBSET {"permit", "slot"}
      BY <1>3 DEF IInv, TypeOK
    <3> QED
      BY <3>1 DEF TaskState
  <2>3. task'[r] = [task[r] EXCEPT !.st = "handler", !.owns = owned]
    BY <1>3 DEF IInv, TypeOK
  <2>4. task' \in [Rows -> TaskState]
    BY <1>4, <2>1, <2>2, <2>3 DEF IInv, TypeOK
  <2> QED
    BY <1>1, <1>2, <1>6, <2>4 DEF IInv, TypeOK
<1>8. ASSUME NEW q \in Rows PROVE TaskInv(q)'
  <2>1. TaskInv(q)
    BY DEF IInv
  <2>2. CASE q = r
    BY <1>1, <1>2, <1>5, <2>1, <2>2 DEF TaskInv, OwnedAtSpawn, Slotted, owned
  <2>3. CASE q # r
    BY <1>2, <1>4, <2>1, <2>3 DEF TaskInv, OwnedAtSpawn, Slotted
  <2> QED
    BY <2>2, <2>3
<1>9. RowsHavePermits'
  <2>1. Cardinality(poll.rows \ {r}) = Cardinality(poll.rows) - 1
    BY <1>1, OneLess
  <2>2. Cardinality(poll.rows) \in Nat
    BY <1>1, RowsCount
  <2> QED
    BY <1>1, <1>2, <2>1, <2>2 DEF IInv, RowsHavePermits
<1>10. PollInv'
  <2>1. ASSUME NEW k \in Keys
        PROVE  running'[k] + Cardinality(WithKey(poll.rows \ {r}, k)) <= Limit[k]
    <3>1. /\ running[k] \in Nat /\ Limit[k] \in Nat
          /\ Cardinality(WithKey(poll.rows, k)) \in Nat
          /\ WithKey(poll.rows, k) \in SUBSET Rows
          /\ running[k] + Cardinality(WithKey(poll.rows, k)) <= Limit[k]
      BY <1>1, KeyCount, ProcessAssumption DEF IInv, TypeOK, PollInv
    <3>2. CASE KeyOf[r] = k
      <4>1. running'[k] = running[k] + 1
        BY <3>2 DEF IInv, TypeOK, SpawnTask, Slotted
      <4>2. r \in WithKey(poll.rows, k)
            /\ WithKey(poll.rows \ {r}, k) = WithKey(poll.rows, k) \ {r}
        BY <1>1, <3>2 DEF WithKey
      <4>3. Cardinality(WithKey(poll.rows \ {r}, k)) = Cardinality(WithKey(poll.rows, k)) - 1
        BY <3>1, <4>2, OneLess
      <4> QED
        BY <3>1, <4>1, <4>3
    <3>3. CASE KeyOf[r] # k
      <4>1. running'[k] = running[k]
        BY <3>3 DEF IInv, TypeOK, SpawnTask, Slotted
      <4>2. WithKey(poll.rows \ {r}, k) = WithKey(poll.rows, k)
        BY <3>3 DEF WithKey
      <4> QED
        BY <3>1, <4>1, <4>2
    <3> QED
      BY <3>2, <3>3
  <2>2. \A q \in poll.rows \ {r} : task'[q].st = "none"
    BY <1>1, <1>4 DEF IInv, PollInv
  <2>3. lock = "poll"
    BY <1>1 DEF IInv, PollInv
  <2> QED
    BY <1>1, <1>2, <2>1, <2>2, <2>3 DEF PollInv
<1>11. HandleInv'
  BY <1>1, <1>2, HandleFrame DEF IInv, HandleInv
<1>12. PermitsExact'
  <2>1. PermitOwners' = PermitOwners \cup {r} /\ r \notin PermitOwners
    BY <1>1, <1>4, <1>5 DEF PermitOwners, OwnedAtSpawn, owned
  <2>2. PermitOwners \in SUBSET Rows /\ Cardinality(PermitOwners) \in Nat
    BY RowsCount DEF PermitOwners
  <2>3. Cardinality(PermitOwners') = Cardinality(PermitOwners) + 1
    BY <2>1, <2>2, OneMore
  <2> QED
    BY <1>1, <1>2, <2>2, <2>3 DEF IInv, TypeOK, PermitsExact, PermitOwners
<1>13. SlotsExact'
  <2>1. ASSUME NEW k \in Keys
        PROVE  running'[k] = Cardinality(SlotOwners(k)')
    <3>1. /\ running[k] \in Nat /\ SlotOwners(k) \in SUBSET Rows
          /\ running[k] = Cardinality(SlotOwners(k))
      BY DEF IInv, TypeOK, SlotsExact, SlotOwners, WithKey
    <3>2. CASE KeyOf[r] = k
      <4>1. running'[k] = running[k] + 1
        BY <3>2 DEF IInv, TypeOK, SpawnTask, Slotted
      <4>2. SlotOwners(k)' = SlotOwners(k) \cup {r} /\ r \notin SlotOwners(k)
        BY <1>1, <1>4, <1>5, <3>2 DEF SlotOwners, WithKey, OwnedAtSpawn, Slotted, owned
      <4> QED
        BY <3>1, <4>1, <4>2, OneMore
    <3>3. CASE KeyOf[r] # k
      <4>1. running'[k] = running[k]
        BY <3>3 DEF IInv, TypeOK, SpawnTask, Slotted
      <4>2. SlotOwners(k)' = SlotOwners(k)
        BY <1>4, <3>3 DEF SlotOwners, WithKey
      <4> QED
        BY <3>1, <4>1, <4>2
    <3> QED
      BY <3>2, <3>3
  <2> QED
    BY <2>1 DEF SlotsExact, SlotOwners
<1> QED
  BY <1>2, <1>7, <1>8, <1>9, <1>10, <1>11, <1>12, <1>13, ErrorFrame DEF IInv

-----------------------------------------------------------------------------
\* The steps of handle_job.

\* A task that runs goes on to its mark, or ends, still owning what it was spawned with; the
\* end of its handler may be counted as timed out, its outcome only if it returned.
LEMMA JobMoves ==
  ASSUME IInv, NEW r \in Live, NEW st \in {"mark", "ended"},
         NEW res \in {"none", "returned", "cancelled"}, st = "mark" => res = "none",
         task' = [task EXCEPT ![r] = [st |-> st, owns |-> task[r].owns,
                                      abort |-> task[r].abort, res |-> res]],
         NEW settled \in SUBSET {r}, settled # {} => res = "returned",
         NEW timed \in SUBSET {r},
         stats' = [stats EXCEPT !["settled"] = @ \cup settled, !["timed_out"] = @ \cup timed],
         UNCHANGED <<cancelled, asked, free, running, poll, reaper, lock, errors, handle>>
  PROVE  IInv'
<1>1. /\ r \in Rows /\ task \in [Rows -> TaskState] /\ task[r].st \in {"handler", "mark"}
      /\ task[r].owns \in SUBSET {"permit", "slot"} /\ task[r].abort \in BOOLEAN
      /\ task[r].res = "none"
  <2>1. r \in Rows /\ task \in [Rows -> TaskState] /\ task[r].st \in {"handler", "mark"}
    BY DEF IInv, TypeOK, Live
  <2> QED
    BY <2>1 DEF IInv, TaskInv, TaskState
<1>2. [st |-> st, owns |-> task[r].owns, abort |-> task[r].abort, res |-> res] \in TaskState
  BY <1>1 DEF TaskState
<1>3. /\ task' \in [Rows -> TaskState]
      /\ \A q \in Rows : q # r => task'[q] = task[q]
      /\ task'[r].st = st /\ task'[r].owns = task[r].owns
      /\ task'[r].abort = task[r].abort /\ task'[r].res = res
  BY <1>1, <1>2
<1>4. stats' \in [Counter -> SUBSET Rows] /\ stats'["aborted"] = stats["aborted"]
      /\ stats'["settled"] = stats["settled"] \cup settled
      /\ stats'["timed_out"] = stats["timed_out"] \cup timed
  BY <1>1 DEF IInv, TypeOK, Counter
<1>5. TypeOK'
  BY <1>3, <1>4 DEF IInv, TypeOK
<1>6. ASSUME NEW q \in Rows PROVE TaskInv(q)'
  <2>1. TaskInv(q)
    BY DEF IInv
  <2>2. CASE q = r
    BY <1>1, <1>3, <1>4, <2>1, <2>2 DEF TaskInv, OwnedAtSpawn, Slotted
  <2>3. CASE q # r
    BY <1>3, <1>4, <2>1, <2>3 DEF TaskInv, OwnedAtSpawn, Slotted
  <2> QED
    BY <2>2, <2>3
<1>7. PollInv' /\ RowsHavePermits'
  <2>1. \A q \in poll.rows : task'[q].st = task[q].st
    BY <1>1, <1>3 DEF IInv, TypeOK, PollInv
  <2> QED
    BY <2>1, PollFrame
<1>8. HandleInv'
  <2>1. InSet' \subseteq InSet /\ Live' \subseteq Live
        /\ \A q \in Live' : task'[q].abort = task[q].abort
    BY <1>1, <1>3 DEF InSet, Live
  <2> QED
    BY <2>1, HandleFrame
<1>9. PermitsExact' /\ SlotsExact'
  <2>1. \A q \in Rows : task'[q].owns = task[q].owns
    BY <1>3
  <2>2. free' + poll'.permits = free + poll.permits
    OBVIOUS
  <2> QED
    BY <2>1, <2>2, CountFrame
<1> QED
  BY <1>5, <1>6, <1>7, <1>8, <1>9, ErrorFrame DEF IInv

\* A step of one handle_job task: it runs, marks, counts itself or panics.
LEMMA HandleJobStep ==
  ASSUME IInv, NEW r \in Rows, HandleJob(r)
  PROVE  IInv'
<1>1. /\ r \in Live /\ task \in [Rows -> TaskState] /\ stats \in [Counter -> SUBSET Rows]
      /\ task[r] = [st |-> task[r].st, owns |-> task[r].owns, abort |-> task[r].abort,
                    res |-> task[r].res]
      /\ task[r].res = "none"
  <2>1. r \in Live /\ task \in [Rows -> TaskState] /\ stats \in [Counter -> SUBSET Rows]
    BY DEF IInv, TypeOK, Live, HandleJob, HandlerEnds, MarkEnds, HandlerCallPanics, TaskAborted
  <2> QED
    BY <2>1 DEF IInv, TaskInv, TaskState, Live
<1>2. ASSUME NEW elapsed \in BOOLEAN, HandlerEnds(r, elapsed) PROVE IInv'
  <2>0. PICK st \in {"mark", "ended"}, res \in {"none", "returned", "cancelled"},
             settled \in SUBSET {r}, timed \in SUBSET {r} :
          st = "mark" /\ res = "none" /\ settled = {} /\ timed = IF elapsed THEN {r} ELSE {}
    OBVIOUS
  <2>1. task' = [task EXCEPT ![r] = [st |-> st, owns |-> task[r].owns,
                                     abort |-> task[r].abort, res |-> res]]
    <3>1. [task[r] EXCEPT !.st = "mark"]
            = [st |-> st, owns |-> task[r].owns, abort |-> task[r].abort, res |-> res]
      BY <1>1, <2>0
    <3> QED
      BY <1>2, <3>1 DEF HandlerEnds
  <2>2. stats' = [stats EXCEPT !["settled"] = @ \cup settled, !["timed_out"] = @ \cup timed]
    BY <1>1, <1>2, <2>0 DEF HandlerEnds, Counter
  <2>3. UNCHANGED <<cancelled, asked, free, running, poll, reaper, lock, errors, handle>>
    BY <1>2 DEF HandlerEnds
  <2> QED
    BY <1>1, <2>0, <2>1, <2>2, <2>3, JobMoves
<1>3. CASE MarkEnds(r) \/ HandlerCallPanics(r)
  <2>1. PICK c \in SUBSET {"settled"} : JobEnds(r, c)
    BY <1>3 DEF MarkEnds, HandlerCallPanics
  <2>2. task' = [task EXCEPT ![r] = [st |-> "ended", owns |-> task[r].owns,
                                     abort |-> task[r].abort, res |-> "returned"]]
    BY <1>1, <2>1 DEF JobEnds
  <2>3. PICK settled \in SUBSET {r}, timed \in SUBSET {r} :
          stats' = [stats EXCEPT !["settled"] = @ \cup settled, !["timed_out"] = @ \cup timed]
    <3>1. CASE c = {}
      <4>1. stats' = [stats EXCEPT !["settled"] = @ \cup {}, !["timed_out"] = @ \cup {}]
        BY <1>1, <2>1, <3>1 DEF JobEnds, Counter
      <4> QED
        BY <4>1
    <3>2. CASE c = {"settled"}
      <4>1. stats' = [stats EXCEPT !["settled"] = @ \cup {r}, !["timed_out"] = @ \cup {}]
        BY <1>1, <2>1, <3>2 DEF JobEnds, Counter
      <4> QED
        BY <4>1
    <3> QED
      BY <3>1, <3>2
  <2> QED
    BY <1>1, <2>1, <2>2, <2>3, JobMoves DEF JobEnds
<1>4. CASE TaskAborted(r)
  <2>1. task' = [task EXCEPT ![r] = [st |-> "ended", owns |-> task[r].owns,
                                     abort |-> task[r].abort, res |-> "cancelled"]]
    BY <1>1, <1>4 DEF TaskAborted
  <2>2. PICK settled \in SUBSET {r}, timed \in SUBSET {r} :
          /\ settled = {}
          /\ stats' = [stats EXCEPT !["settled"] = @ \cup settled, !["timed_out"] = @ \cup timed]
    <3>1. stats' = [stats EXCEPT !["settled"] = @ \cup {}, !["timed_out"] = @ \cup {}]
      BY <1>1, <1>4 DEF TaskAborted, Counter
    <3> QED
      BY <3>1
  <2>3. UNCHANGED <<cancelled, asked, free, running, poll, reaper, lock, errors, handle>>
    BY <1>4 DEF TaskAborted
  <2> QED
    BY <1>1, <2>1, <2>2, <2>3, JobMoves
<1> QED
  BY <1>2, <1>3, <1>4 DEF HandleJob

-----------------------------------------------------------------------------
\* What an ended task owned is dropped.

\* The end of a task: its permit and its slot guard are dropped.
LEMMA DropPermitStep ==
  ASSUME IInv, NEW r \in Rows, DropPermit(r)
  PROVE  IInv'
<1>1. /\ task \in [Rows -> TaskState] /\ task[r] \in TaskState
      /\ task[r].st = "ended" /\ "permit" \in task[r].owns
      /\ task' = [task EXCEPT ![r].owns = @ \ {"permit"}]
      /\ free' = free + 1
      /\ UNCHANGED <<cancelled, asked, running, poll, reaper, lock, errors, stats, handle>>
  BY DEF IInv, TypeOK, DropPermit
<1>2. /\ \A q \in Rows : q # r => task'[q] = task[q]
      /\ task'[r] = [task[r] EXCEPT !.owns = @ \ {"permit"}]
  BY <1>1
<1>3. [task[r] EXCEPT !.owns = @ \ {"permit"}] \in TaskState
  BY <1>1 DEF TaskState
<1>4. task' \in [Rows -> TaskState]
  BY <1>1, <1>3
<1>5. /\ task'[r].st = "ended" /\ task'[r].owns = task[r].owns \ {"permit"}
      /\ task'[r].abort = task[r].abort /\ task'[r].res = task[r].res
  BY <1>1, <1>2 DEF TaskState
<1>6. TypeOK'
  BY <1>1, <1>4 DEF IInv, TypeOK
<1>7. ASSUME NEW q \in Rows PROVE TaskInv(q)'
  <2>1. TaskInv(q)
    BY DEF IInv
  <2>2. CASE q = r
    BY <1>1, <1>5, <2>1, <2>2 DEF TaskInv, Slotted
  <2>3. CASE q # r
    BY <1>1, <1>2, <2>1, <2>3 DEF TaskInv, OwnedAtSpawn, Slotted
  <2> QED
    BY <2>2, <2>3
<1>8. PollInv' /\ RowsHavePermits'
  <2>1. \A q \in poll.rows : task'[q].st = task[q].st
    BY <1>1, <1>2, <1>5 DEF IInv, TypeOK
  <2> QED
    BY <1>1, <2>1, PollFrame
<1>9. HandleInv'
  <2>1. InSet' \subseteq InSet /\ Live' \subseteq Live
        /\ \A q \in Live' : task'[q].abort = task[q].abort
    BY <1>1, <1>2, <1>5 DEF InSet, Live
  <2> QED
    BY <1>1, <2>1, HandleFrame
<1>10. PermitsExact'
  <2>1. PermitOwners' = PermitOwners \ {r} /\ r \in PermitOwners
    BY <1>1, <1>2, <1>5 DEF PermitOwners
  <2>2. PermitOwners \in SUBSET Rows /\ Cardinality(PermitOwners) \in Nat
    BY RowsCount DEF PermitOwners
  <2>3. Cardinality(PermitOwners') = Cardinality(PermitOwners) - 1
    BY <2>1, <2>2, OneLess
  <2> QED
    BY <1>1, <2>2, <2>3 DEF IInv, TypeOK, PermitsExact, PermitOwners
<1>11. SlotsExact'
  <2>1. \A k \in Keys : SlotOwners(k)' = SlotOwners(k)
    BY <1>1, <1>2, <1>5 DEF SlotOwners, WithKey
  <2> QED
    BY <1>1, <2>1 DEF IInv, SlotsExact, SlotOwners
<1> QED
  BY <1>1, <1>6, <1>7, <1>8, <1>9, <1>10, <1>11, ErrorFrame DEF IInv

\* n.saturating_sub(1) never saturates: the task that drops its slot is one of those counted.
LEMMA DropSlotStep ==
  ASSUME IInv, NEW r \in Rows, DropSlot(r)
  PROVE  IInv'
<1> DEFINE k0 == KeyOf[r]
<1>1. /\ task \in [Rows -> TaskState] /\ task[r] \in TaskState
      /\ task[r].st = "ended" /\ "slot" \in task[r].owns
      /\ task' = [task EXCEPT ![r].owns = @ \ {"slot"}]
      /\ running' = [running EXCEPT ![k0] = IF @ > 0 THEN @ - 1 ELSE 0]
      /\ UNCHANGED <<cancelled, asked, free, poll, reaper, lock, errors, stats, handle>>
  BY DEF IInv, TypeOK, DropSlot
<1>2. /\ \A q \in Rows : q # r => task'[q] = task[q]
      /\ task'[r] = [task[r] EXCEPT !.owns = @ \ {"slot"}]
  BY <1>1
<1>3. [task[r] EXCEPT !.owns = @ \ {"slot"}] \in TaskState
  BY <1>1 DEF TaskState
<1>4. task' \in [Rows -> TaskState]
  BY <1>1, <1>3
<1>5. /\ task'[r].st = "ended" /\ task'[r].owns = task[r].owns \ {"slot"}
      /\ task'[r].abort = task[r].abort /\ task'[r].res = task[r].res
  BY <1>1, <1>2 DEF TaskState
<1>6. k0 \in Keys /\ SlotOwners(k0) \in SUBSET Rows /\ r \in SlotOwners(k0)
  BY <1>1 DEF IInv, TaskInv, Slotted, SlotOwners, WithKey
<1>7. /\ running \in [Keys -> Nat] /\ running[k0] = Cardinality(SlotOwners(k0))
      /\ running[k0] > 0
  <2>1. running \in [Keys -> Nat] /\ running[k0] = Cardinality(SlotOwners(k0))
    BY <1>6 DEF IInv, TypeOK, SlotsExact, SlotOwners
  <2> QED
    BY <1>6, <2>1, OneLess
<1> HIDE DEF k0
<1>8. /\ running' \in [Keys -> Nat] /\ running'[k0] = running[k0] - 1
      /\ \A k \in Keys : k # k0 => running'[k] = running[k]
  BY <1>1, <1>6, <1>7
<1>9. TypeOK'
  BY <1>1, <1>4, <1>8 DEF IInv, TypeOK
<1>10. ASSUME NEW q \in Rows PROVE TaskInv(q)'
  <2>1. TaskInv(q)
    BY DEF IInv
  <2>2. CASE q = r
    BY <1>1, <1>5, <2>1, <2>2 DEF TaskInv, Slotted
  <2>3. CASE q # r
    BY <1>1, <1>2, <2>1, <2>3 DEF TaskInv, OwnedAtSpawn, Slotted
  <2> QED
    BY <2>2, <2>3
<1>11. PollInv' /\ RowsHavePermits'
  <2>1. \A q \in poll.rows : task'[q].st = task[q].st
    BY <1>1, <1>2, <1>5 DEF IInv, TypeOK
  <2>2. ASSUME NEW k \in Keys, NEW n \in Nat, running[k] + n <= Limit[k]
        PROVE  running'[k] + n <= Limit[k]
    <3>1. running[k] \in Nat /\ running'[k] \in Nat /\ running'[k] <= running[k]
      BY <1>7, <1>8
    <3> QED
      BY <2>2, <3>1, ProcessAssumption
  <2>3. ASSUME NEW k \in Keys
        PROVE  Cardinality(WithKey(poll.rows, k)) \in Nat /\ poll.headroom[k] \in Nat
    BY KeyCount DEF IInv, TypeOK
  <2> QED
    BY <1>1, <2>1, <2>2, <2>3 DEF IInv, PollInv, RowsHavePermits
<1>12. HandleInv'
  <2>1. InSet' \subseteq InSet /\ Live' \subseteq Live
        /\ \A q \in Live' : task'[q].abort = task[q].abort
    BY <1>1, <1>2, <1>5 DEF InSet, Live
  <2> QED
    BY <1>1, <2>1, HandleFrame
<1>13. PermitsExact'
  <2>1. PermitOwners' = PermitOwners
    BY <1>1, <1>2, <1>5 DEF PermitOwners
  <2> QED
    BY <1>1, <2>1 DEF IInv, PermitsExact, PermitOwners
<1>14. SlotsExact'
  <2>1. ASSUME NEW k \in Keys
        PROVE  running'[k] = Cardinality(SlotOwners(k)')
    <3>1. CASE k = k0
      <4>1. SlotOwners(k0)' = SlotOwners(k0) \ {r}
        BY <1>1, <1>2, <1>5, <1>6 DEF SlotOwners, WithKey
      <4> QED
        BY <1>6, <1>7, <1>8, <3>1, <4>1, OneLess
    <3>2. CASE k # k0
      <4>1. SlotOwners(k)' = SlotOwners(k)
        BY <1>2, <3>2 DEF SlotOwners, WithKey, k0
      <4> QED
        BY <1>8, <3>2, <4>1 DEF IInv, SlotsExact, SlotOwners
    <3> QED
      BY <3>1, <3>2
  <2> QED
    BY <2>1 DEF SlotsExact, SlotOwners
<1> QED
  BY <1>1, <1>9, <1>10, <1>11, <1>12, <1>13, <1>14, ErrorFrame DEF IInv

-----------------------------------------------------------------------------
\* The steps of the reaper loop.

\* The reaper loop touches no permit, slot, task or row.
LEMMA ReaperMoves ==
  ASSUME IInv, reaper.pc # "exit",
         reaper' \in [pc : {"tick", "reap", "exit"}, panics : Nat, abort : BOOLEAN],
         UNCHANGED <<asked, free, running, poll, task, lock, stats, handle>>,
         cancelled' \in BOOLEAN, errors' \subseteq {"Fatal", "ReaperPanicEscalation"},
         cancelled' => cancelled \/ errors' # {}, errors \subseteq errors'
  PROVE  IInv'
<1>1. TypeOK'
  BY DEF IInv, TypeOK
<1>2. ~handle.clean
  BY DEF IInv, HandleInv
<1>3. HandleInv'
  BY <1>2, HandleFrame
<1>4. PollInv' /\ RowsHavePermits'
  BY PollFrame
<1>5. PermitsExact' /\ SlotsExact'
  BY CountFrame
<1>6. ErrorsSurface'
  BY <1>2 DEF IInv, ErrorsSurface
<1> QED
  BY <1>1, <1>3, <1>4, <1>5, <1>6, TaskFrame DEF IInv

\* The reaper loop's tick, statement and exit.
LEMMA ReaperLoopStep == IInv /\ ReaperLoop => IInv'
<1> SUFFICES ASSUME IInv, ReaperLoop PROVE IInv'
  OBVIOUS
<1>1. reaper.pc # "exit"
  BY DEF ReaperLoop, ReaperTick, ReapFatal, ReapPanics, ReaperStops, ReapReturns
<1>2. ASSUME NEW pc \in {"tick", "reap", "exit"}, NEW n \in Nat, ReaperGoes(pc, n)
      PROVE  /\ reaper' \in [pc : {"tick", "reap", "exit"}, panics : Nat, abort : BOOLEAN]
             /\ UNCHANGED <<asked, free, running, poll, task, lock, stats, handle>>
  BY <1>2 DEF IInv, TypeOK, ReaperGoes
<1>3. reaper.panics \in Nat /\ reaper.panics + 1 \in Nat /\ cancelled \in BOOLEAN
      /\ errors \subseteq {"Fatal", "ReaperPanicEscalation"}
  BY DEF IInv, TypeOK
<1>4. CASE ReaperTick \/ ReaperStops \/ \E full \in BOOLEAN : ReapReturns(full)
  <2>1. PICK pc \in {"tick", "reap", "exit"}, n \in Nat : ReaperGoes(pc, n)
    BY <1>3, <1>4 DEF ReaperTick, ReaperStops, ReapReturns
  <2>2. UNCHANGED <<cancelled, errors>>
    BY <1>4 DEF ReaperTick, ReaperStops, ReapReturns
  <2> QED
    BY <1>1, <1>2, <1>3, <2>1, <2>2, ReaperMoves
<1>5. CASE ReapFatal
  <2>1. /\ ReaperGoes("exit", 0) /\ cancelled' = TRUE
        /\ errors' = errors \cup {"Fatal"}
    BY <1>5 DEF ReapFatal
  <2> QED
    BY <1>1, <1>2, <1>3, <2>1, ReaperMoves
<1>6. CASE ReapPanics
  <2>1. PICK pc \in {"tick", "reap", "exit"}, n \in Nat : ReaperGoes(pc, n)
    BY <1>3, <1>6 DEF ReapPanics
  <2>2. /\ cancelled' \in BOOLEAN /\ errors \subseteq errors'
        /\ errors' \subseteq {"Fatal", "ReaperPanicEscalation"}
        /\ cancelled' => cancelled \/ errors' # {}
    BY <1>3, <1>6 DEF ReapPanics
  <2> QED
    BY <1>1, <1>2, <2>1, <2>2, ReaperMoves
<1> QED
  BY <1>4, <1>5, <1>6 DEF ReaperLoop

-----------------------------------------------------------------------------
\* The steps of the WorkerHandle.

\* The handle as a record, what a step of it that touches no task does to the rest, and what
\* it does to the handle itself.
HandleState ==
  [method : {"none", "join", "shutdown", "drop"},
   pc : {"held", "await", "drain", "draining", "abort", "grace", "result", "returned",
         "abandoned"},
   clean : BOOLEAN, aborted : SUBSET Rows,
   result : {"none", "Ok", "Fatal", "ReaperPanicEscalation"}]

LoopsTold ==
  /\ UNCHANGED <<free, running, task, stats, errors>>
  /\ cancelled' \in BOOLEAN /\ asked' \in BOOLEAN
  /\ cancelled' => cancelled \/ asked'
  /\ asked => asked'
  /\ poll' = poll \/ poll' = [poll EXCEPT !.abort = TRUE]
  /\ reaper' = reaper \/ reaper' = [reaper EXCEPT !.abort = TRUE]
  /\ lock' \in {"free", "poll", "handle"} /\ (lock' = "poll" <=> lock = "poll")

HandleOn ==
  /\ handle' \in HandleState /\ handle'.aborted \subseteq handle.aborted
  /\ handle'.pc = "returned" => handle'.result = Verdict \/ ~handle'.clean \/ handle' = handle

\* The handle moves on without touching a task.
LEMMA HandleMoves ==
  ASSUME IInv, LoopsTold, HandleOn, HandleInv'
  PROVE  IInv'
<1>0. /\ UNCHANGED <<free, running, task, stats, errors>>
      /\ poll' = poll \/ poll' = [poll EXCEPT !.abort = TRUE]
      /\ reaper' = reaper \/ reaper' = [reaper EXCEPT !.abort = TRUE]
      /\ handle'.aborted \subseteq handle.aborted /\ (lock' = "poll" <=> lock = "poll")
  BY DEF LoopsTold, HandleOn
<1>1. /\ poll'.pc = poll.pc /\ poll'.permits = poll.permits /\ poll'.rows = poll.rows
      /\ poll'.headroom = poll.headroom
  BY <1>0 DEF IInv, TypeOK
<1>2. TypeOK'
  <2>1. /\ poll' \in [pc : {"tick", "permit", "snapshot", "claim", "lock", "spawn", "exit"},
                      permits : Nat, headroom : [Keys -> Nat], rows : SUBSET Rows,
                      errors : Nat, abort : BOOLEAN]
        /\ reaper' \in [pc : {"tick", "reap", "exit"}, panics : Nat, abort : BOOLEAN]
    BY <1>0 DEF IInv, TypeOK
  <2> QED
    BY <1>0, <2>1 DEF IInv, TypeOK, LoopsTold, HandleOn, HandleState
<1>3. PollInv' /\ RowsHavePermits'
  BY <1>0, <1>1 DEF IInv, PollInv, RowsHavePermits
<1>4. PermitsExact' /\ SlotsExact'
  BY <1>0, <1>1, CountFrame DEF IInv, TypeOK
<1>5. \A r \in Rows : TaskInv(r)'
  BY <1>0, <1>2, TaskFrame DEF IInv, TypeOK
<1>6. ErrorsSurface'
  BY <1>0 DEF IInv, ErrorsSurface, Verdict, LoopsTold, HandleOn
<1> QED
  BY <1>2, <1>3, <1>4, <1>5, <1>6 DEF IInv

\* The handle as the record of its fields.
LEMMA HandleRecord ==
  ASSUME IInv
  PROVE  /\ handle = [method |-> handle.method, pc |-> handle.pc, clean |-> handle.clean,
                      aborted |-> handle.aborted, result |-> handle.result]
         /\ handle.method \in {"none", "join", "shutdown", "drop"}
         /\ handle.pc \in {"held", "await", "drain", "draining", "abort", "grace",
                           "result", "returned", "abandoned"}
         /\ handle.clean \in BOOLEAN
         /\ handle.result \in {"none", "Ok", "Fatal", "ReaperPanicEscalation"}
         /\ cancelled \in BOOLEAN /\ asked \in BOOLEAN /\ lock \in {"free", "poll", "handle"}
         /\ handle.aborted \in SUBSET Rows
BY DEF IInv, TypeOK

\* The cancellation token fires.
LEMMA CancelStep == IInv /\ Cancel => IInv'
<1> SUFFICES ASSUME IInv, Cancel PROVE IInv'
  OBVIOUS
<1>1. HandleInv'
  BY HandleFrame DEF Cancel, InSet, Live
<1>2. LoopsTold
  BY HandleRecord DEF Cancel, LoopsTold
<1>3. HandleOn
  BY HandleRecord DEF Cancel, HandleOn, HandleState, IInv, TypeOK
<1> QED
  BY <1>1, <1>2, <1>3, HandleMoves

\* join, shutdown and drop begin with the handle in the hands of its owner.
LEMMA HandleBegins ==
  ASSUME IInv, Join \/ Shutdown \/ DropHandle
  PROVE  IInv'
<1>1. /\ handle.pc = "held" /\ ~handle.clean /\ lock # "handle"
      /\ UNCHANGED <<free, running, task, lock, errors, stats>>
      /\ poll' = poll \/ poll' = [poll EXCEPT !.abort = TRUE]
      /\ reaper' = reaper \/ reaper' = [reaper EXCEPT !.abort = TRUE]
  BY DEF IInv, HandleInv, Join, Shutdown, DropHandle
<1>2. /\ cancelled' \in BOOLEAN /\ asked' \in BOOLEAN
      /\ cancelled' => cancelled \/ asked'
      /\ asked => asked'
  <2>1. CASE Join
    BY <2>1, HandleRecord DEF Join
  <2>2. CASE Shutdown \/ DropHandle
    BY <2>2 DEF Shutdown, DropHandle
  <2> QED
    BY <2>1, <2>2
<1>3. PICK method \in {"join", "shutdown", "drop"} :
        handle' = [method |-> method, pc |-> IF method = "drop" THEN "returned" ELSE "await",
                   clean |-> FALSE, aborted |-> handle.aborted, result |-> handle.result]
  <2>1. PICK m \in {"join", "shutdown", "drop"} :
          handle' = [handle EXCEPT !.method = m,
                                   !.pc = IF m = "drop" THEN "returned" ELSE "await"]
    BY DEF Join, Shutdown, DropHandle
  <2> QED
    BY <1>1, <2>1, HandleRecord
<1>4. HandleInv'
  BY <1>1, <1>3 DEF HandleInv
<1>5. LoopsTold
  BY <1>1, <1>2, HandleRecord DEF LoopsTold
<1>6. HandleOn
  BY <1>3, HandleRecord DEF HandleOn, HandleState
<1> QED
  BY <1>4, <1>5, <1>6, HandleMoves

\* The soft drain ends: with both loops gone, or with both aborted.
LEMMA SoftDrainStep ==
  ASSUME IInv, LoopsExited \/ SoftDrainTimesOut
  PROVE  IInv'
<1>1. CASE LoopsExited
  <2>1. /\ handle.pc = "await" /\ poll.pc = "exit" /\ reaper.pc = "exit"
        /\ UNCHANGED <<cancelled, asked, free, running, poll, reaper, task, lock, errors, stats>>
        /\ handle' = [handle EXCEPT !.pc = "drain", !.clean = TRUE]
    BY <1>1 DEF LoopsExited
  <2>2. handle' = [method |-> handle.method, pc |-> "drain", clean |-> TRUE,
                   aborted |-> handle.aborted, result |-> handle.result]
    BY <2>1, HandleRecord
  <2>3. HandleInv'
    BY <2>1, <2>2, HandleRecord DEF IInv, HandleInv
  <2>4. LoopsTold
    BY <2>1, HandleRecord DEF LoopsTold
  <2>5. HandleOn
    BY <2>2, HandleRecord DEF HandleOn, HandleState
  <2> QED
    BY <2>3, <2>4, <2>5, HandleMoves
<1>2. CASE SoftDrainTimesOut
  <2>1. /\ handle.pc = "await" /\ handle.method = "shutdown"
        /\ UNCHANGED <<cancelled, asked, free, running, task, lock, errors, stats>>
        /\ poll' = [poll EXCEPT !.abort = TRUE] /\ reaper' = [reaper EXCEPT !.abort = TRUE]
        /\ handle' = [handle EXCEPT !.pc = "drain"]
    BY <1>2 DEF SoftDrainTimesOut, HandleGoes
  <2>2. ~handle.clean /\ lock # "handle"
    BY <2>1 DEF IInv, HandleInv
  <2>3. handle' = [method |-> "shutdown", pc |-> "drain", clean |-> FALSE,
                   aborted |-> handle.aborted, result |-> handle.result]
    BY <2>1, <2>2, HandleRecord
  <2>4. HandleInv'
    BY <2>1, <2>2, <2>3 DEF HandleInv
  <2>5. LoopsTold
    BY <2>1, HandleRecord DEF LoopsTold
  <2>6. HandleOn
    BY <2>3, HandleRecord DEF HandleOn, HandleState
  <2> QED
    BY <2>4, <2>5, <2>6, HandleMoves
<1> QED
  BY <1>1, <1>2

\* The drain takes the mutex, and gives it back when the set is empty or time is up.
LEMMA DrainStep ==
  ASSUME IInv, HandleLocks \/ DrainEnds
  PROVE  IInv'
<1>1. CASE HandleLocks
  <2>1. /\ handle.pc = "drain" /\ lock = "free" /\ lock' = "handle"
        /\ UNCHANGED <<cancelled, asked, free, running, poll, reaper, task, errors, stats>>
        /\ handle' = [handle EXCEPT !.pc = "draining"]
    BY <1>1 DEF HandleLocks, HandleGoes
  <2>2. handle' = [method |-> handle.method, pc |-> "draining", clean |-> handle.clean,
                   aborted |-> handle.aborted, result |-> handle.result]
    BY <2>1, HandleRecord
  <2>3. HandleInv'
    BY <2>1, <2>2, HandleRecord DEF IInv, HandleInv
  <2>4. LoopsTold
    BY <2>1, HandleRecord DEF LoopsTold
  <2>5. HandleOn
    BY <2>2, HandleRecord DEF HandleOn, HandleState
  <2> QED
    BY <2>3, <2>4, <2>5, HandleMoves
<1>2. CASE DrainEnds
  <2> DEFINE pc == IF handle.method = "join" THEN "result" ELSE "abort"
  <2>1. /\ handle.pc = "draining" /\ lock' = "free"
        /\ InSet = {} \/ handle.method = "shutdown"
        /\ UNCHANGED <<cancelled, asked, free, running, poll, reaper, task, errors, stats>>
        /\ handle' = [handle EXCEPT !.pc = pc]
    BY <1>2 DEF DrainEnds, HandleGoes
  <2>2. lock = "handle" /\ handle.method # "none" /\ handle.method # "drop"
    BY <2>1 DEF IInv, HandleInv
  <2>3. handle' = [method |-> handle.method, pc |-> pc, clean |-> handle.clean,
                   aborted |-> handle.aborted, result |-> handle.result]
    BY <2>1, HandleRecord
  <2>4. HandleInv'
    <3>1. InSet' = InSet
      BY <2>1 DEF InSet
    <3> QED
      BY <2>1, <2>2, <2>3, <3>1, HandleRecord DEF IInv, HandleInv
  <2>5. LoopsTold
    BY <2>1, <2>2, HandleRecord DEF LoopsTold
  <2>6. HandleOn
    BY <2>3, HandleRecord DEF HandleOn, HandleState
  <2> QED
    BY <2>4, <2>5, <2>6, HandleMoves
<1> QED
  BY <1>1, <1>2

\* What the handle returns is the verdict on the errors the loops left behind.
LEMMA HandleReturnsStep == IInv /\ HandleReturns => IInv'
<1> SUFFICES ASSUME IInv, HandleReturns PROVE IInv'
  OBVIOUS
<1>1. /\ handle.pc = "result"
      /\ UNCHANGED <<cancelled, asked, free, running, poll, reaper, task, lock, errors, stats>>
      /\ handle' = [handle EXCEPT !.pc = "returned", !.result = Verdict]
  BY DEF HandleReturns
<1>2. PICK result \in {"none", "Ok", "Fatal", "ReaperPanicEscalation"} : result = Verdict
  BY DEF Verdict
<1>3. handle' = [method |-> handle.method, pc |-> "returned", clean |-> handle.clean,
                 aborted |-> handle.aborted, result |-> result]
  BY <1>1, <1>2, HandleRecord
<1>4. HandleInv'
  <2>1. InSet' = InSet /\ Live' = Live
    BY <1>1 DEF InSet, Live
  <2> QED
    BY <1>1, <1>3, <2>1, HandleRecord DEF IInv, HandleInv
<1>5. LoopsTold
  BY <1>1, HandleRecord DEF LoopsTold
<1>6. HandleOn
  BY <1>2, <1>3, HandleRecord DEF HandleOn, HandleState
<1> QED
  BY <1>4, <1>5, <1>6, HandleMoves

\* The shutdown future is dropped before it completed.
LEMMA DropFutureStep == IInv /\ DropFuture => IInv'
<1> SUFFICES ASSUME IInv, DropFuture PROVE IInv'
  OBVIOUS
<1>1. /\ handle.pc \notin {"held", "returned", "abandoned"}
      /\ lock' = IF lock = "handle" THEN "free" ELSE lock
      /\ UNCHANGED <<cancelled, asked, free, running, poll, reaper, task, errors, stats>>
      /\ handle' = [handle EXCEPT !.pc = "abandoned", !.aborted = {}]
  BY DEF DropFuture
<1>2. handle' = [method |-> handle.method, pc |-> "abandoned", clean |-> handle.clean,
                 aborted |-> {}, result |-> handle.result]
  BY <1>1, HandleRecord
<1>3. HandleInv'
  BY <1>1, <1>2, HandleRecord DEF IInv, HandleInv
<1>4. LoopsTold
  BY <1>1, HandleRecord DEF LoopsTold
<1>5. HandleOn
  BY <1>2, HandleRecord DEF HandleOn, HandleState
<1> QED
  BY <1>3, <1>4, <1>5, HandleMoves

\* The handle takes tasks that own nothing out of the JoinSet, and may tell others to abort.
LEMMA TasksLeave ==
  ASSUME IInv,
         NEW S \in SUBSET {r \in Rows : Joinable(r)}, NEW A \in SUBSET InSet,
         S \cap A = {},
         task' = [r \in Rows |-> task'[r]],
         \A r \in Rows : task'[r] = IF r \in S THEN [task[r] EXCEPT !.st = "joined"]
                                    ELSE IF r \in A THEN [task[r] EXCEPT !.abort = TRUE]
                                    ELSE task[r],
         lock' = "poll" <=> lock = "poll",
         \A r \in handle'.aborted : r \in handle.aborted \/ task[r].res = "cancelled",
         UNCHANGED <<cancelled, asked, free, running, poll, reaper, errors, stats>>
  PROVE  /\ task' \in [Rows -> TaskState]
         /\ \A r \in Rows : TaskInv(r)'
         /\ PollInv' /\ RowsHavePermits' /\ PermitsExact' /\ SlotsExact'
         /\ InSet' = InSet \ S /\ Live' = Live
         /\ \A r \in Live : task'[r].abort = IF r \in A THEN TRUE ELSE task[r].abort
<1>1. ASSUME NEW r \in Rows
      PROVE  /\ task'[r] \in TaskState
             /\ task'[r].owns = task[r].owns /\ task'[r].res = task[r].res
             /\ task'[r].st = IF r \in S THEN "joined" ELSE task[r].st
             /\ task'[r].abort = IF r \in A THEN TRUE ELSE task[r].abort
             /\ r \in S => task[r].st = "ended" /\ task[r].owns = {}
  <2>1. task[r] \in TaskState /\ TaskInv(r)
    BY DEF IInv, TypeOK
  <2>2. CASE r \in S
    <3>1. task'[r] = [task[r] EXCEPT !.st = "joined"] /\ Joinable(r) /\ r \notin A
      BY <2>2
    <3> QED
      BY <2>1, <2>2, <3>1 DEF TaskState, Joinable
  <2>3. CASE r \notin S /\ r \in A
    <3>1. task'[r] = [task[r] EXCEPT !.abort = TRUE]
      BY <2>3
    <3> QED
      BY <2>1, <2>3, <3>1 DEF TaskState
  <2>4. CASE r \notin S /\ r \notin A
    BY <2>1, <2>4
  <2> QED
    BY <2>2, <2>3, <2>4
<1>2. task' \in [Rows -> TaskState]
  BY <1>1
<1>3. ASSUME NEW r \in Rows PROVE TaskInv(r)'
  <2>1. TaskInv(r)
    BY DEF IInv
  <2>2. r \in handle'.aborted => task[r].res = "cancelled"
    BY <2>1 DEF TaskInv
  <2>3. CASE r \in S
    <3>1. task'[r].st = "joined" /\ task'[r].owns = {} /\ task'[r].res = task[r].res
      BY <1>1, <2>3
    <3> QED
      BY <2>1, <2>2, <3>1 DEF TaskInv
  <2>4. CASE r \notin S
    BY <1>1, <2>1, <2>2, <2>4 DEF TaskInv, OwnedAtSpawn, Slotted
  <2> QED
    BY <2>3, <2>4
<1>4. PollInv' /\ RowsHavePermits'
  <2>1. \A r \in poll.rows : task'[r].st = task[r].st
    BY <1>1 DEF IInv, TypeOK, PollInv
  <2> QED
    BY <2>1, PollFrame
<1>5. PermitsExact' /\ SlotsExact'
  BY <1>1, CountFrame
<1>6. InSet' = InSet \ S
  BY <1>1 DEF InSet
<1>7. Live' = Live
  <2>1. \A r \in Rows : task'[r].st \in {"handler", "mark"} <=> task[r].st \in {"handler", "mark"}
    BY <1>1
  <2> QED
    BY <2>1 DEF Live
<1>8. \A r \in Live : task'[r].abort = IF r \in A THEN TRUE ELSE task[r].abort
  BY <1>1 DEF Live
<1> QED
  BY <1>2, <1>3, <1>4, <1>5, <1>6, <1>7, <1>8

\* A task that has ended leaves the set; of those that were cancelled, a list is kept.
LEMMA DrainJoinsStep ==
  ASSUME IInv, NEW r \in Rows, DrainJoins(r) \/ GraceJoins(r)
  PROVE  IInv'
<1>1. PICK S : S = {r}
  OBVIOUS
<1>2. PICK A : A = {}
  OBVIOUS
<1>3. /\ S \in SUBSET {q \in Rows : Joinable(q)} /\ A \in SUBSET InSet /\ S \cap A = {}
      /\ task' = [q \in Rows |-> task'[q]]
      /\ \A q \in Rows : task'[q] = IF q \in S THEN [task[q] EXCEPT !.st = "joined"]
                                    ELSE IF q \in A THEN [task[q] EXCEPT !.abort = TRUE]
                                    ELSE task[q]
      /\ UNCHANGED <<cancelled, asked, free, running, poll, reaper, lock, errors, stats>>
  BY <1>1, <1>2 DEF DrainJoins, GraceJoins, Joined
<1>4. PICK a \in SUBSET Rows :
        /\ handle' = [handle EXCEPT !.aborted = a]
        /\ \A q \in a : q \in handle.aborted \/ task[q].res = "cancelled"
  <2>1. handle.aborted \in SUBSET Rows
    BY DEF IInv, TypeOK
  <2>2. CASE UNCHANGED handle
    <3>1. handle' = [handle EXCEPT !.aborted = handle.aborted]
      BY <2>2, HandleRecord
    <3> QED
      BY <2>1, <3>1
  <2>3. CASE handle' = [handle EXCEPT !.aborted =
                          IF task[r].res = "cancelled" THEN @ \cup {r} ELSE @]
    <3> DEFINE a == IF task[r].res = "cancelled" THEN handle.aborted \cup {r}
                                                 ELSE handle.aborted
    <3>1. a \in SUBSET Rows /\ \A q \in a : q \in handle.aborted \/ task[q].res = "cancelled"
      BY <2>1
    <3>2. handle' = [handle EXCEPT !.aborted = a]
      BY <2>3
    <3> HIDE DEF a
    <3> QED
      BY <3>1, <3>2
  <2> QED
    BY <2>2, <2>3 DEF DrainJoins, GraceJoins
<1>5. /\ handle'.method = handle.method /\ handle'.pc = handle.pc
      /\ handle'.clean = handle.clean /\ handle'.aborted = a
      /\ handle'.result = handle.result
  BY <1>4, HandleRecord
<1>6. /\ task' \in [Rows -> TaskState]
      /\ \A q \in Rows : TaskInv(q)'
      /\ PollInv' /\ RowsHavePermits' /\ PermitsExact' /\ SlotsExact'
      /\ InSet' = InSet \ S /\ Live' = Live
      /\ \A q \in Live : task'[q].abort = IF q \in A THEN TRUE ELSE task[q].abort
  <2>1. \A q \in handle'.aborted : q \in handle.aborted \/ task[q].res = "cancelled"
    BY <1>4, <1>5
  <2> QED
    BY <1>3, <2>1, TasksLeave
<1>7. TypeOK'
  BY <1>3, <1>4, <1>6 DEF IInv, TypeOK
<1>8. HandleInv'
  BY <1>2, <1>3, <1>5, <1>6 DEF IInv, HandleInv
<1>9. ErrorsSurface'
  BY <1>3, <1>5, ErrorFrame
<1> QED
  BY <1>6, <1>7, <1>8, <1>9 DEF IInv

\* After abort_remaining_handlers every task that is left was told to abort.
LEMMA AbortHandlersStep == IInv /\ AbortHandlers => IInv'
<1> SUFFICES ASSUME IInv, AbortHandlers PROVE IInv'
  OBVIOUS
<1> DEFINE ready == {r \in Rows : Joinable(r)}
           rest == InSet \ ready
           pc == IF rest = {} THEN "result" ELSE "grace"
<1>1. /\ handle.pc = "abort" /\ lock = "free"
      /\ task' = [r \in Rows |-> task'[r]]
      /\ \A r \in Rows : task'[r] = IF r \in ready THEN [task[r] EXCEPT !.st = "joined"]
                                    ELSE IF r \in rest THEN [task[r] EXCEPT !.abort = TRUE]
                                    ELSE task[r]
      /\ handle' = [handle EXCEPT !.pc = pc]
      /\ lock' = IF rest = {} THEN "free" ELSE "handle"
      /\ UNCHANGED <<cancelled, asked, free, running, poll, reaper, errors, stats>>
  BY DEF AbortHandlers, HandleGoes
<1>2. /\ ready \in SUBSET {r \in Rows : Joinable(r)}
      /\ rest \in SUBSET InSet /\ ready \cap rest = {}
      /\ \A r \in Live : r \in rest
      /\ pc \in {"result", "grace"} /\ (pc = "grace" <=> rest # {})
  BY DEF Live, InSet, Joinable
<1> HIDE DEF ready, rest, pc
<1>3. /\ handle'.method = handle.method /\ handle'.pc = pc
      /\ handle'.clean = handle.clean /\ handle'.aborted = handle.aborted
      /\ handle'.result = handle.result
  BY <1>1, HandleRecord
<1>4. /\ task' \in [Rows -> TaskState]
      /\ \A q \in Rows : TaskInv(q)'
      /\ PollInv' /\ RowsHavePermits' /\ PermitsExact' /\ SlotsExact'
      /\ Live' = Live
      /\ \A q \in Live : task'[q].abort = IF q \in rest THEN TRUE ELSE task[q].abort
  <2>1. /\ lock' = "poll" <=> lock = "poll"
        /\ \A q \in handle'.aborted : q \in handle.aborted \/ task[q].res = "cancelled"
        /\ UNCHANGED <<cancelled, asked, free, running, poll, reaper, errors, stats>>
    BY <1>1, <1>3
  <2>2. /\ task' = [r \in Rows |-> task'[r]]
        /\ \A r \in Rows : task'[r] = IF r \in ready THEN [task[r] EXCEPT !.st = "joined"]
                                      ELSE IF r \in rest THEN [task[r] EXCEPT !.abort = TRUE]
                                      ELSE task[r]
    BY <1>1
  <2> QED
    BY <1>2, <2>1, <2>2, TasksLeave
<1>5. TypeOK'
  BY <1>1, <1>2, <1>4 DEF IInv, TypeOK
<1>6. HandleInv'
  <2>1. handle.method = "shutdown" /\ (lock' = "handle" <=> rest # {})
    BY <1>1, HandleRecord DEF IInv, HandleInv
  <2>2. \A r \in Live' : task'[r].abort
    BY <1>2, <1>4
  <2>3. handle.clean => poll.pc = "exit" /\ reaper.pc = "exit"
    BY DEF IInv, HandleInv
  <2> QED
    BY <1>1, <1>2, <1>3, <2>1, <2>2, <2>3 DEF HandleInv
<1>7. ErrorsSurface'
  BY <1>1, <1>2, <1>3, ErrorFrame
<1> QED
  BY <1>4, <1>5, <1>6, <1>7 DEF IInv

\* The grace second is over: the cancelled tasks on the list are counted.
LEMMA GraceEndsStep == IInv /\ GraceEnds => IInv'
<1> SUFFICES ASSUME IInv, GraceEnds PROVE IInv'
  OBVIOUS
<1>1. /\ handle.pc = "grace" /\ lock' = "free"
      /\ stats' = [stats EXCEPT !["aborted"] = @ \cup handle.aborted]
      /\ handle' = [handle EXCEPT !.pc = "result", !.aborted = {}]
      /\ UNCHANGED <<cancelled, asked, free, running, poll, reaper, task, errors>>
  BY DEF GraceEnds
<1>2. /\ handle'.method = handle.method /\ handle'.pc = "result"
      /\ handle'.clean = handle.clean /\ handle'.aborted = {}
      /\ handle'.result = handle.result
  BY <1>1, HandleRecord
<1>3. /\ stats' \in [Counter -> SUBSET Rows] /\ stats'["settled"] = stats["settled"]
      /\ stats'["timed_out"] = stats["timed_out"]
      /\ stats'["aborted"] = stats["aborted"] \cup handle.aborted
  BY <1>1 DEF IInv, TypeOK, Counter
<1>4. lock = "handle" /\ handle.method = "shutdown"
  BY <1>1, HandleRecord DEF IInv, HandleInv
<1>5. TypeOK'
  BY <1>1, <1>3 DEF IInv, TypeOK
<1>6. ASSUME NEW r \in Rows PROVE TaskInv(r)'
  <2>1. TaskInv(r)
    BY DEF IInv
  <2> QED
    BY <1>1, <1>2, <1>3, <2>1 DEF TaskInv, OwnedAtSpawn, Slotted
<1>7. HandleInv'
  <2>1. Live' = Live
    BY <1>1 DEF Live
  <2> QED
    BY <1>1, <1>2, <1>4, <2>1 DEF IInv, HandleInv
<1>8. PollInv' /\ RowsHavePermits'
  BY <1>1, <1>4, PollFrame
<1>9. PermitsExact' /\ SlotsExact'
  BY <1>1, CountFrame
<1>10. ErrorsSurface'
  BY <1>1, <1>2, ErrorFrame
<1> QED
  BY <1>5, <1>6, <1>7, <1>8, <1>9, <1>10 DEF IInv

-----------------------------------------------------------------------------
\* The invariant.

\* Worker::start begins with every permit free and no task.
LEMMA InitInv == Init => IInv
<1> SUFFICES ASSUME Init PROVE IInv
  OBVIOUS
<1>1. TypeOK
  BY ProcessAssumption DEF Init, TypeOK, TaskState, Counter, NoHeadroom
<1>2. ASSUME NEW r \in Rows PROVE TaskInv(r)
  BY DEF Init, TaskInv, Counter
<1>3. PollInv
  <2>1. ASSUME NEW k \in Keys
        PROVE  running[k] + Cardinality(WithKey(poll.rows, k)) <= Limit[k]
    <3>1. running[k] = 0 /\ poll.rows = {} /\ Limit[k] \in Nat
      BY ProcessAssumption DEF Init
    <3>2. Cardinality(WithKey({}, k)) = 0
      BY KeyCount
    <3>3. Cardinality(WithKey(poll.rows, k)) = 0
      BY <3>1, <3>2
    <3> QED
      BY ONLY <3>1, <3>3
  <2>2. poll.pc = "tick" /\ poll.rows = {} /\ poll.permits = 0 /\ lock = "free"
    BY DEF Init
  <2>3. /\ \A r \in poll.rows : task[r].st = "none"
        /\ poll.rows # {} => poll.pc \in {"lock", "spawn"}
        /\ poll.permits > 0 => poll.pc \in {"snapshot", "claim", "lock", "spawn"}
        /\ poll.pc = "claim" => \A k \in Keys : running[k] + poll.headroom[k] <= Limit[k]
        /\ poll.pc = "spawn" <=> lock = "poll"
    BY ONLY <2>2
  <2> QED
    BY ONLY <2>1, <2>3 DEF PollInv
<1>4. HandleInv
  BY DEF Init, HandleInv
<1>5. PermitsExact
  <2>1. PermitOwners = {}
    BY DEF Init, PermitOwners
  <2>2. free = Concurrency /\ poll.permits = 0 /\ Concurrency \in Nat
    BY ProcessAssumption DEF Init
  <2>3. Cardinality(PermitOwners) = 0
    BY <2>1, FS_EmptySet
  <2> QED
    BY <2>2, <2>3 DEF PermitsExact, PermitOwners
<1>6. SlotsExact
  <2>1. \A k \in Keys : SlotOwners(k) = {}
    BY DEF Init, SlotOwners, WithKey
  <2> QED
    BY <2>1, FS_EmptySet DEF Init, SlotsExact, SlotOwners
<1>7. RowsHavePermits
  BY FS_EmptySet DEF Init, RowsHavePermits
<1>8. ErrorsSurface
  BY DEF Init, ErrorsSurface
<1> QED
  BY <1>1, <1>2, <1>3, <1>4, <1>5, <1>6, <1>7, <1>8 DEF IInv

\* A step that changes nothing.
LEMMA StutterInv == IInv /\ UNCHANGED vars => IInv'
<1> SUFFICES ASSUME IInv, UNCHANGED vars PROVE IInv'
  OBVIOUS
<1> USE DEF vars
<1>1. TypeOK'
  BY DEF IInv, TypeOK
<1>2. HandleInv'
  BY HandleFrame DEF InSet, Live
<1> QED
  BY <1>1, <1>2, TaskFrame, PollFrame, CountFrame, ErrorFrame DEF IInv

\* Every step of the process keeps the invariant.
LEMMA NextInv == IInv /\ [Next]_vars => IInv'
<1> SUFFICES ASSUME IInv, [Next]_vars PROVE IInv'
  OBVIOUS
<1>1. CASE PollLoop
  BY <1>1, TickStep, AcquirePermitsStep, SnapshotStep, ClaimReturnsStep, ClaimFailsStep,
     PollGoesStep, LockTasksStep, SpawnTaskStep DEF PollLoop
<1>2. CASE ReaperLoop
  BY <1>2, ReaperLoopStep
<1>3. CASE HandleWaits
  BY <1>3, SoftDrainStep, DrainStep, AbortHandlersStep, GraceEndsStep, HandleReturnsStep,
     DrainJoinsStep DEF HandleWaits
<1>4. CASE \E r \in Rows : HandleJob(r) \/ Drops(r)
  BY <1>4, HandleJobStep, DropPermitStep, DropSlotStep DEF Drops
<1>5. CASE Cancel \/ Join \/ Shutdown \/ DropHandle \/ DropFuture
  BY <1>5, CancelStep, HandleBegins, DropFutureStep
<1>6. CASE Stopped \/ UNCHANGED vars
  BY <1>6, StutterInv DEF Stopped
<1> QED
  BY <1>1, <1>2, <1>3, <1>4, <1>5, <1>6 DEF Next

\* What every guarantee of the worker's process rests on holds after any interleaving of
\* poll_loop, reaper_loop, handle_job and the methods of WorkerHandle.
THEOREM Invariance == Spec => []IInv
BY InitInv, NextInv, PTL DEF Spec

\* Every reachable state is well typed: no permit count or key counter goes below zero.
THEOREM TypeCorrect == Spec => []TypeOK
<1>1. IInv => TypeOK
  BY DEF IInv
<1> QED
  BY <1>1, Invariance, PTL

\* KeySlotGuard: the counter of a key is the number of tasks that own one of its slots,
\* however they ended.
THEOREM SlotsAreExact == Spec => []SlotsExact
<1>1. IInv => SlotsExact
  BY DEF IInv
<1> QED
  BY <1>1, Invariance, PTL

\* Permits are neither lost nor made up by an iteration that is abandoned, a task that is
\* aborted or a loop that exits.
THEOREM PermitsAreExact == Spec => []PermitsExact
<1>1. IInv => PermitsExact
  BY DEF IInv
<1> QED
  BY <1>1, Invariance, PTL

\* poll_loop's "CRITICAL invariant": the zip never drops a claimed row.
THEOREM RowsPairWithPermits == Spec => []RowsHavePermits
<1>1. IInv => RowsHavePermits
  BY DEF IInv
<1> QED
  BY <1>1, Invariance, PTL

\* concurrency_limits: no more handlers of a key execute than its limit, although the claim
\* works with a snapshot of the counters.
THEOREM KeyLimitIsKept == Spec => []KeyLimit
<1>1. IInv => KeyLimit
  <2> SUFFICES ASSUME IInv, NEW k \in Keys
               PROVE  Cardinality(WithKey(Live, k)) <= Limit[k]
    BY DEF KeyLimit
  <2>1. WithKey(Live, k) \in SUBSET SlotOwners(k)
    BY DEF IInv, TaskInv, OwnedAtSpawn, Slotted, WithKey, Live, SlotOwners
  <2>2. SlotOwners(k) \in SUBSET Rows
    BY DEF SlotOwners, WithKey
  <2>3. /\ Cardinality(WithKey(Live, k)) <= Cardinality(SlotOwners(k))
        /\ Cardinality(WithKey(Live, k)) \in Nat
    <3>1. IsFiniteSet(SlotOwners(k)) /\ WithKey(Live, k) \in SUBSET Rows
      BY <2>1, <2>2, RowsCount
    <3> QED
      BY <2>1, <3>1, FS_Subset, RowsCount
  <2>4. /\ running[k] = Cardinality(SlotOwners(k)) /\ running[k] \in Nat /\ Limit[k] \in Nat
        /\ Cardinality(WithKey(poll.rows, k)) \in Nat
        /\ running[k] + Cardinality(WithKey(poll.rows, k)) <= Limit[k]
    <3>1. running[k] = Cardinality(SlotOwners(k))
      BY DEF IInv, SlotsExact, SlotOwners
    <3> QED
      BY <3>1, KeyCount, ProcessAssumption DEF IInv, TypeOK, PollInv
  <2> QED
    BY <2>3, <2>4
<1> QED
  BY <1>1, Invariance, PTL

\* Stats: no job is counted as settled by handle_job and as aborted by shutdown; what is
\* counted as timed out has left its handler, what is counted by an outcome has ended.
THEOREM CountedOnceOnly == Spec => []CountedOnce
<1>1. IInv => CountedOnce
  <2> SUFFICES ASSUME IInv PROVE CountedOnce
    OBVIOUS
  <2>1. stats \in [Counter -> SUBSET Rows]
    BY DEF IInv, TypeOK
  <2>2. ASSUME NEW r \in Rows
        PROVE  /\ r \in stats["timed_out"] => task[r].st \notin {"none", "handler"}
               /\ r \in stats["settled"] => task[r].res = "returned"
               /\ r \in stats["aborted"] => task[r].res = "cancelled"
               /\ task[r].res # "none" => task[r].st \in {"ended", "joined"}
    BY DEF IInv, TypeOK, TaskState, TaskInv
  <2> QED
    BY <2>1, <2>2 DEF CountedOnce, Counter
<1> QED
  BY <1>1, Invariance, PTL

\* join returns only when every handler has ended and was joined; shutdown, once both loops
\* left in time, only when every handler still running was told to abort.
THEOREM DrainCompletes == Spec => []DrainIsComplete
<1>1. IInv => DrainIsComplete
  <2> SUFFICES ASSUME IInv, handle.pc = "returned", handle.clean
               PROVE  /\ poll.pc = "exit"
                      /\ \A r \in Live : task[r].abort
                      /\ handle.method = "join" => InSet = {}
    BY DEF DrainIsComplete
  <2>1. handle.method \in {"join", "shutdown"}
    BY HandleRecord DEF IInv, HandleInv
  <2>2. Live \subseteq InSet
    BY DEF Live, InSet
  <2> QED
    BY <2>1, <2>2 DEF IInv, HandleInv
<1> QED
  BY <1>1, Invariance, PTL

\* A worker stops because its owner asked or because of an error, and the error is what
\* join or shutdown returns.
THEOREM ErrorsAreReported == Spec => []ErrorsSurface
<1>1. IInv => ErrorsSurface
  BY DEF IInv
<1> QED
  BY <1>1, Invariance, PTL

-----------------------------------------------------------------------------
\* Only the poll loop, with a claimed row and a permit in hand, starts a handler.
LEMMA OnlySpawnStarts ==
  ASSUME IInv, [Next]_vars, poll.pc # "spawn"
  PROVE  Live' \subseteq Live
<1>0. task \in [Rows -> TaskState]
  BY DEF IInv, TypeOK
<1>1. UNCHANGED task => Live' \subseteq Live
  BY DEF Live
<1>2. CASE PollLoop
  <2>1. UNCHANGED task
    BY <1>2 DEF PollLoop, PollAt, Tick, AcquirePermits, SnapshotHeadroom, ClaimReturns,
                ClaimFails, PollStops, PollAborted, LockTasks, SpawnEnds, SpawnTask
  <2> QED
    BY <1>1, <2>1
<1>3. CASE ReaperLoop
  <2>1. UNCHANGED task
    BY <1>3 DEF ReaperLoop, ReaperGoes, ReaperTick, ReapReturns, ReapFatal, ReapPanics, ReaperStops
  <2> QED
    BY <1>1, <2>1
<1>4. CASE HandleWaits
  <2>1. CASE LoopsExited \/ SoftDrainTimesOut \/ HandleLocks \/ DrainEnds \/ GraceEnds
             \/ HandleReturns
    BY <1>1, <2>1 DEF LoopsExited, SoftDrainTimesOut, HandleLocks, DrainEnds, GraceEnds,
                      HandleReturns
  <2>2. CASE AbortHandlers
    BY <1>0, <2>2 DEF AbortHandlers, Live, TaskState
  <2>3. ASSUME NEW r \in Rows, DrainJoins(r) \/ GraceJoins(r)
        PROVE  Live' \subseteq Live
    <3>1. Joined({r})
      BY <2>3 DEF DrainJoins, GraceJoins
    <3> QED
      BY <1>0, <3>1 DEF Joined, Live, TaskState
  <2> QED
    BY <1>4, <2>1, <2>2, <2>3 DEF HandleWaits
<1>5. ASSUME NEW r \in Rows, HandleJob(r) \/ Drops(r)
      PROVE  Live' \subseteq Live
  <2>1. CASE \E elapsed \in BOOLEAN : HandlerEnds(r, elapsed)
    BY <1>0, <2>1 DEF HandlerEnds, Live, TaskState
  <2>2. CASE MarkEnds(r) \/ HandlerCallPanics(r) \/ TaskAborted(r)
    BY <1>0, <2>2 DEF MarkEnds, HandlerCallPanics, TaskAborted, JobEnds, Live, TaskState
  <2>3. CASE Drops(r)
    BY <1>0, <2>3 DEF Drops, DropPermit, DropSlot, Live, TaskState
  <2> QED
    BY <1>5, <2>1, <2>2, <2>3 DEF HandleJob
<1>6. CASE Cancel \/ Join \/ Shutdown \/ DropHandle \/ DropFuture
  BY <1>1, <1>6 DEF Cancel, Join, Shutdown, DropHandle, DropFuture
<1>7. CASE Stopped \/ UNCHANGED vars
  BY <1>1, <1>7 DEF Stopped, vars
<1> QED
  BY <1>2, <1>3, <1>4, <1>5, <1>6, <1>7 DEF Next

\* Once join has returned, or shutdown has after both loops left in time, no handler starts.
NoneStarts == [][handle.pc = "returned" /\ handle.clean => Live' \subseteq Live]_vars

\* What DrainIsComplete sees when the method returns stays so: no claim that was under way at
\* the cancellation spawns a handler afterwards, and an aborted task does not come back.
THEOREM NoneStartsAfterReturn == Spec => NoneStarts
<1>1. IInv /\ [Next]_vars => [handle.pc = "returned" /\ handle.clean => Live' \subseteq Live]_vars
  <2>1. ASSUME IInv, handle.clean PROVE poll.pc # "spawn"
    BY <2>1 DEF IInv, HandleInv
  <2> QED
    BY <2>1, OnlySpawnStarts
<1> QED
  BY <1>1, Invariance, PTL DEF Spec, NoneStarts

=============================================================================
