--------------------------- MODULE RowClockProofs ---------------------------
(***************************************************************************)
(* Proofs about RowClock, for any lease, retry delay, number of attempts,  *)
(* schedule of pushes and number of statements in flight.                  *)
(***************************************************************************)
EXTENDS RowClock, TLAPS

\* What claim_batch_raw writes into a row.
LEMMA ClaimWrites ==
  ASSUME NEW r \in Row, NEW s \in Stmt, NEW n, n = Touched(Claimed(r, s), s)
  PROVE  /\ n \in Row /\ n.status = "running" /\ n.attempts = r.attempts + 1
         /\ n.created_at = r.created_at /\ n.updated_at = s.now /\ n.run_at = r.run_at
         /\ n.first_attempted_at = Coalesce(r.first_attempted_at, s.now)
         /\ n.last_attempted_at = s.now /\ n.finished_at = r.finished_at
         /\ n.lease_token = r.attempts + 1 /\ n.lease_expires_at = s.now + Lease
<1>1. PICK a, f, e : /\ a = r.attempts + 1 /\ f = Coalesce(r.first_attempted_at, s.now)
                     /\ e = s.now + Lease
  OBVIOUS
<1>2. a \in Nat /\ f \in Time /\ e \in Time /\ s.now \in Nat /\ s.now \in Time
  BY <1>1, ClockAssumption DEF Row, Stmt, Time, Coalesce, ClockAssumption
<1>3. n = [status |-> "running", attempts |-> a, created_at |-> r.created_at,
           updated_at |-> s.now, run_at |-> r.run_at, first_attempted_at |-> f,
           last_attempted_at |-> s.now, finished_at |-> r.finished_at,
           lease_token |-> a, lease_expires_at |-> e]
  BY <1>1 DEF Claimed, Touched, Row
<1>4. n \in Row
  BY <1>2, <1>3 DEF Row
<1> QED
  BY <1>1, <1>3, <1>4

\* What a statement that ends an attempt writes into a row: it leaves the attempt's own
\* times alone, clears the lease, and sets a status and what goes with it.
Ends(r, s, n, status, run_at, finished_at) ==
  /\ n \in Row /\ n.status = status /\ n.attempts = r.attempts
  /\ n.created_at = r.created_at /\ n.updated_at = s.now /\ n.run_at = run_at
  /\ n.first_attempted_at = r.first_attempted_at
  /\ n.last_attempted_at = r.last_attempted_at
  /\ n.finished_at = finished_at /\ n.lease_token = NULL /\ n.lease_expires_at = NULL

\* mark_done, mark_dead, and the reaper on a row out of attempts.
LEMMA FinishWrites ==
  ASSUME NEW r \in Row, NEW s \in Stmt, NEW st \in {"done", "dead"}
  PROVE  Ends(r, s, Touched(Finished(r, s, st), s), st, r.run_at, s.now)
<1>1. PICK n : n = Touched(Finished(r, s, st), s)
  OBVIOUS
<1>2. n = [status |-> st, attempts |-> r.attempts, created_at |-> r.created_at,
           updated_at |-> s.now, run_at |-> r.run_at,
           first_attempted_at |-> r.first_attempted_at,
           last_attempted_at |-> r.last_attempted_at, finished_at |-> s.now,
           lease_token |-> NULL, lease_expires_at |-> NULL]
  BY <1>1 DEF Finished, Unleased, Touched, Row
<1>3. n \in Row
  BY <1>2 DEF Row, Stmt, Time
<1> QED
  BY <1>1, <1>2, <1>3 DEF Ends

\* The reaper on a row with an attempt left.
LEMMA ReturnWrites ==
  ASSUME NEW r \in Row, NEW s \in Stmt
  PROVE  Ends(r, s, Touched([Unleased(r) EXCEPT !.status = "awaiting_retry"], s),
              "awaiting_retry", r.run_at, r.finished_at)
<1>1. PICK n : n = Touched([Unleased(r) EXCEPT !.status = "awaiting_retry"], s)
  OBVIOUS
<1>2. n = [status |-> "awaiting_retry", attempts |-> r.attempts,
           created_at |-> r.created_at, updated_at |-> s.now, run_at |-> r.run_at,
           first_attempted_at |-> r.first_attempted_at,
           last_attempted_at |-> r.last_attempted_at, finished_at |-> r.finished_at,
           lease_token |-> NULL, lease_expires_at |-> NULL]
  BY <1>1 DEF Unleased, Touched, Row
<1>3. n \in Row
  BY <1>2 DEF Row, Stmt, Time
<1> QED
  BY <1>1, <1>2, <1>3 DEF Ends

\* mark_retry, whose delay is never negative.
LEMMA RetryWrites ==
  ASSUME NEW r \in Row, NEW s \in Stmt, s.delay \in Nat
  PROVE  Ends(r, s, Touched(Retried(r, s), s), "awaiting_retry", s.now + s.delay,
              r.finished_at)
<1>1. PICK n, d : n = Touched(Retried(r, s), s) /\ d = s.now + s.delay
  OBVIOUS
<1>2. d \in Nat
  BY <1>1 DEF Stmt
<1>3. n = [status |-> "awaiting_retry", attempts |-> r.attempts,
           created_at |-> r.created_at, updated_at |-> s.now, run_at |-> d,
           first_attempted_at |-> r.first_attempted_at,
           last_attempted_at |-> r.last_attempted_at, finished_at |-> r.finished_at,
           lease_token |-> NULL, lease_expires_at |-> NULL]
  BY <1>1 DEF Retried, Unleased, Touched, Row
<1>4. n \in Row
  BY <1>2, <1>3 DEF Row, Stmt, Time
<1> QED
  BY <1>1, <1>3, <1>4 DEF Ends

\* The INSERT of push: only its run_at can lie before its created_at.
LEMMA PushWrites ==
  ASSUME clock \in Nat, NEW s \in Stmt, s.now <= clock, Temporal(Inserted(s))
  PROVE  RowInv(Inserted(s)) /\ Inserted(s).attempts = 0 /\ Inserted(s).status = "queued"
<1>1. PICK n, d : n = Inserted(s) /\ d = s.now + s.delay
  OBVIOUS
<1>2. n = [status |-> "queued", attempts |-> 0, created_at |-> s.now,
           updated_at |-> s.now, run_at |-> d, first_attempted_at |-> NULL,
           last_attempted_at |-> NULL, finished_at |-> NULL,
           lease_token |-> NULL, lease_expires_at |-> NULL]
  BY <1>1 DEF Inserted, NoRow
<1>3. d \in Nat
  <2>1. d >= s.now
    BY <1>1, <1>2 DEF Temporal
  <2> QED
    BY <1>1, <2>1 DEF Stmt
<1>4. n \in Row
  BY <1>2, <1>3 DEF Row, Stmt, Time
<1>5. StatusInvariants(n)
  BY <1>2 DEF StatusInvariants
<1>6. n.last_attempted_at <= clock
  BY <1>2 DEF NULL
<1> QED
  BY <1>1, <1>2, <1>4, <1>5, <1>6 DEF RowInv

-----------------------------------------------------------------------------
\* No holder of an older token comes to hold the row by what is written into it.
Keeps(r, n) ==
  /\ n.attempts >= r.attempts
  /\ \A k \in 1..r.attempts :
       n.status = "running" /\ n.lease_token = k =>
         /\ r.status = "running" /\ r.lease_token = k
         /\ n.last_attempted_at = r.last_attempted_at

\* The times of a row that was attempted, in order.
LEMMA Ordered ==
  ASSUME NEW r, RowInv(r), r.status \in {"running", "awaiting_retry"}
  PROVE  /\ r.attempts \in Nat \ {0} /\ r.created_at \in Nat /\ r.run_at \in Nat
         /\ r.first_attempted_at \in Nat /\ r.last_attempted_at \in Nat
         /\ r.created_at <= r.first_attempted_at
         /\ r.first_attempted_at <= r.last_attempted_at
         /\ r.finished_at = NULL /\ r.created_at <= r.run_at
<1>1. r \in Row /\ Temporal(r) /\ StatusInvariants(r)
  BY DEF RowInv
<1>2. r.first_attempted_at # NULL /\ r.last_attempted_at # NULL /\ r.attempts > 0
  BY <1>1 DEF StatusInvariants
<1>3. r.finished_at = NULL
  BY <1>1 DEF StatusInvariants
<1>4. /\ r.first_attempted_at \in Nat /\ r.last_attempted_at \in Nat /\ r.attempts \in Nat
      /\ r.created_at \in Nat /\ r.run_at \in Nat
  BY <1>1, <1>2 DEF Row, Time
<1> QED
  BY <1>1, <1>2, <1>3, <1>4 DEF Temporal, AtLeast, Coalesce

\* A statement that finds a leased row, not before the start of its attempt, can end the
\* attempt.
LEMMA EndIsSound ==
  ASSUME clock \in Nat, NEW r, RowInv(r), r.status = "running",
         NEW s \in Stmt, s.now >= r.last_attempted_at,
         NEW n, NEW st, NEW run_at, NEW finished_at,
         Ends(r, s, n, st, run_at, finished_at), run_at >= r.created_at,
         \/ st \in {"done", "dead"} /\ finished_at = s.now
         \/ /\ st = "awaiting_retry" /\ finished_at = r.finished_at
            /\ run_at > r.last_attempted_at \/ clock > r.last_attempted_at + Lease
  PROVE  RowInv(n) /\ Keeps(r, n)
<1>1. /\ r.attempts \in Nat \ {0} /\ r.created_at \in Nat /\ r.run_at \in Nat
      /\ r.first_attempted_at \in Nat /\ r.last_attempted_at \in Nat
      /\ r.created_at <= r.first_attempted_at
      /\ r.first_attempted_at <= r.last_attempted_at
      /\ r.finished_at = NULL /\ r.last_attempted_at <= clock
  BY Ordered DEF RowInv
<1>2. s.now \in Nat /\ s.now # NULL
  BY DEF Stmt, NULL
<1>3. Temporal(n)
  BY <1>1, <1>2 DEF Ends, Temporal, AtLeast, Coalesce, NULL
<1>4. StatusInvariants(n)
  BY <1>1, <1>2 DEF Ends, StatusInvariants, NULL
<1>5. RowInv(n)
  BY <1>1, <1>3, <1>4 DEF Ends, RowInv
<1>6. Keeps(r, n)
  BY <1>1 DEF Ends, Keeps
<1> QED
  BY <1>5, <1>6

\* A sweep's now() is later than the lease, hence than the start of the attempt.
LEMMA ReapIsSound ==
  ASSUME clock \in Nat, NEW r, RowInv(r), NEW s \in Stmt, s.now <= clock, Stale(r, s)
  PROVE  RowInv(Touched(Reaped(r, s), s)) /\ Keeps(r, Touched(Reaped(r, s), s))
<1>1. r \in Row /\ r.status = "running" /\ r.lease_expires_at = r.last_attempted_at + Lease
  BY DEF Stale, RowInv
<1>2. r.last_attempted_at \in Nat /\ s.now \in Nat /\ Lease \in Nat
  BY <1>1, Ordered, ClockAssumption DEF Stmt, ClockAssumption
<1>3. s.now > r.last_attempted_at + Lease /\ s.now >= r.last_attempted_at
  BY <1>1, <1>2 DEF Stale
<1>4. clock > r.last_attempted_at + Lease
  BY <1>2, <1>3
<1>5. r.run_at >= r.created_at
  BY DEF RowInv, Temporal
<1>6. CASE r.attempts >= MaxAttempts
  <2>1. Ends(r, s, Touched(Reaped(r, s), s), "dead", r.run_at, s.now)
    BY <1>1, <1>6, FinishWrites DEF Reaped
  <2> QED
    BY <1>1, <1>3, <1>5, <2>1, EndIsSound
<1>7. CASE ~(r.attempts >= MaxAttempts)
  <2>1. Ends(r, s, Touched(Reaped(r, s), s), "awaiting_retry", r.run_at, r.finished_at)
    BY <1>1, <1>7, ReturnWrites DEF Reaped
  <2> QED
    BY <1>1, <1>3, <1>4, <1>5, <2>1, EndIsSound
<1> QED
  BY <1>6, <1>7

\* A mark that holds its row was sent after the start of the attempt.
LEMMA MarkIsSound ==
  ASSUME clock \in Nat, NEW r, RowInv(r), NEW s \in Stmt, r.status = "running",
         s.now >= r.last_attempted_at, s.kind \in {"done", "dead", "retry"},
         s.kind = "retry" => s.delay = RetryDelay
  PROVE  RowInv(Written(r, s)) /\ Keeps(r, Written(r, s))
<1>1. r \in Row /\ r.run_at >= r.created_at
  BY DEF RowInv, Temporal
<1>2. CASE s.kind = "retry"
  <2>1. Written(r, s) = Touched(Retried(r, s), s)
    BY <1>2 DEF Written
  <2>2. /\ s.delay \in Nat /\ s.delay > 0 /\ s.now \in Nat
        /\ r.last_attempted_at \in Nat /\ r.created_at \in Nat
        /\ r.created_at <= r.last_attempted_at
    BY <1>2, ClockAssumption, Ordered DEF ClockAssumption, Stmt
  <2>3. Ends(r, s, Written(r, s), "awaiting_retry", s.now + s.delay, r.finished_at)
    BY <1>1, <2>1, <2>2, RetryWrites
  <2>4. s.now + s.delay > r.last_attempted_at /\ s.now + s.delay >= r.created_at
    BY <2>2
  <2> QED
    BY <2>3, <2>4, EndIsSound
<1>3. CASE s.kind \in {"done", "dead"}
  <2>1. Written(r, s) = Touched(Finished(r, s, s.kind), s)
    BY <1>3 DEF Written
  <2>2. Ends(r, s, Written(r, s), s.kind, r.run_at, s.now)
    BY <1>1, <1>3, <2>1, FinishWrites
  <2> QED
    BY <1>1, <1>3, <2>2, EndIsSound
<1> QED
  BY <1>2, <1>3

\* A claim that finds a row due was sent after the start of the attempt before it: either
\* the row became due after that, or the sweep that returned it waited for the lease, and
\* no claim takes effect longer than StmtMax after its now().
LEMMA ClaimIsLater ==
  ASSUME NEW r, RowInv(r), clock \in Nat, NEW s \in Stmt,
         clock <= s.now + StmtMax, Ready(r, s), r.attempts > 0
  PROVE  /\ StmtMax <= Lease + 1 => s.now >= r.last_attempted_at
         /\ StmtMax <= Lease => s.now > r.last_attempted_at
<1>1. r.status = "awaiting_retry"
  BY DEF Ready, RowInv, StatusInvariants
<1>2. /\ r.last_attempted_at \in Nat /\ r.run_at \in Nat /\ s.now \in Nat
      /\ Lease \in Nat /\ StmtMax \in Nat /\ r.run_at <= s.now
      /\ r.run_at > r.last_attempted_at \/ clock > r.last_attempted_at + Lease
  BY <1>1, Ordered, ClockAssumption DEF RowInv, Stmt, ClockAssumption, Ready
<1> QED
  BY <1>2

\* So the row a claim writes satisfies its CHECKs.
LEMMA ClaimIsSound ==
  ASSUME StmtMax <= Lease + 1, clock \in Nat, NEW r, RowInv(r), NEW s \in Stmt,
         s.now <= clock, clock <= s.now + StmtMax, Ready(r, s),
         NEW n, n = Touched(Claimed(r, s), s)
  PROVE  RowInv(n) /\ Keeps(r, n) /\ n.last_attempted_at = s.now
<1>1. /\ n \in Row /\ n.status = "running" /\ n.attempts = r.attempts + 1
      /\ n.created_at = r.created_at /\ n.updated_at = s.now /\ n.run_at = r.run_at
      /\ n.first_attempted_at = Coalesce(r.first_attempted_at, s.now)
      /\ n.last_attempted_at = s.now /\ n.finished_at = r.finished_at
      /\ n.lease_token = r.attempts + 1 /\ n.lease_expires_at = s.now + Lease
  BY ClaimWrites DEF RowInv
<1>2. /\ s.now \in Nat /\ Lease \in Nat /\ r.attempts \in Nat /\ r.created_at \in Nat
      /\ r.run_at \in Nat /\ r.run_at <= s.now /\ r.created_at <= r.run_at
  BY ClockAssumption DEF Stmt, RowInv, Row, Ready, Temporal, ClockAssumption
<1>3. /\ n.first_attempted_at \in Nat /\ r.created_at <= n.first_attempted_at
      /\ n.first_attempted_at <= s.now /\ r.finished_at = NULL
  <2>1. CASE r.status = "queued"
    <3>1. r.first_attempted_at = NULL /\ r.finished_at = NULL
      BY <2>1 DEF RowInv, StatusInvariants
    <3> QED
      BY <1>1, <1>2, <3>1 DEF Coalesce
  <2>2. CASE r.status = "awaiting_retry"
    <3>1. /\ r.first_attempted_at \in Nat /\ r.last_attempted_at \in Nat
          /\ r.created_at <= r.first_attempted_at /\ r.attempts \in Nat \ {0}
          /\ r.first_attempted_at <= r.last_attempted_at /\ r.finished_at = NULL
      BY <2>2, Ordered
    <3>2. s.now >= r.last_attempted_at
      BY <3>1, ClaimIsLater
    <3> QED
      BY <1>1, <1>2, <3>1, <3>2 DEF Coalesce, NULL
  <2> QED
    BY <2>1, <2>2 DEF Ready
<1>4. Temporal(n)
  BY <1>1, <1>2, <1>3 DEF Temporal, AtLeast, Coalesce, NULL
<1>5. StatusInvariants(n)
  BY <1>1, <1>2, <1>3 DEF StatusInvariants, NULL
<1>6. RowInv(n)
  BY <1>1, <1>2, <1>4, <1>5 DEF RowInv
<1>7. Keeps(r, n)
  BY <1>1, <1>2 DEF Keeps
<1> QED
  BY <1>1, <1>6, <1>7

-----------------------------------------------------------------------------
\* Whatever a statement finds, what it writes is sound, unless it is a push.
LEMMA WriteIsSound ==
  ASSUME StmtMax <= Lease + 1, IInv, NEW s \in stmts, Finds(row, s), s.kind # "push"
  PROVE  RowInv(row) /\ RowInv(Written(row, s)) /\ Keeps(row, Written(row, s))
<1>0. /\ clock \in Nat /\ s \in Stmt /\ s.now <= clock /\ clock <= s.now + StmtMax
      /\ s.kind \in Kinds /\ StmtInv(s)
  BY DEF IInv, StmtInv, Stmt
<1>1. /\ s.kind = "claim" => Ready(row, s)
      /\ s.kind = "reap" => Stale(row, s)
      /\ s.kind \in {"done", "dead", "retry"} => Holds(row, s)
  BY DEF Finds
<1>2. row.status # "none"
  BY <1>0, <1>1 DEF Ready, Stale, Holds, Kinds
<1>3. RowInv(row)
  BY <1>2 DEF IInv, NoRow
<1>4. CASE s.kind = "claim"
  <2>1. Written(row, s) = Touched(Claimed(row, s), s)
    BY <1>4 DEF Written
  <2> QED
    BY <1>0, <1>1, <1>3, <1>4, <2>1, ClaimIsSound
<1>5. CASE s.kind = "reap"
  <2>1. Written(row, s) = Touched(Reaped(row, s), s)
    BY <1>5 DEF Written
  <2> QED
    BY <1>0, <1>1, <1>3, <1>5, <2>1, ReapIsSound
<1>6. CASE s.kind \in {"done", "dead", "retry"}
  <2>1. row.status = "running" /\ s.now >= row.last_attempted_at
    BY <1>0, <1>1, <1>6 DEF StmtInv, Holds
  <2>2. s.kind = "retry" => s.delay = RetryDelay
    BY <1>0 DEF StmtInv
  <2> QED
    BY <1>0, <1>3, <1>6, <2>1, <2>2, MarkIsSound
<1> QED
  BY <1>0, <1>3, <1>4, <1>5, <1>6 DEF Kinds

\* A row that keeps its holders out keeps every statement in flight as right as it was.
LEMMA StmtKept ==
  ASSUME NEW m, StmtInv(m), row.attempts \in Nat, row'.attempts \in Nat, Keeps(row, row'),
         UNCHANGED clock
  PROVE  StmtInv(m)'
<1>1. m \in Stmt /\ m.now <= clock' /\ clock' <= m.now + StmtMax
  BY DEF StmtInv
<1>2. ASSUME m.kind \in {"done", "dead", "retry"}
      PROVE  m.token \in 1..row'.attempts /\ (Holds(row', m) => m.now >= row'.last_attempted_at)
  <2>1. m.token \in 1..row.attempts /\ (Holds(row, m) => m.now >= row.last_attempted_at)
    BY <1>2 DEF StmtInv
  <2>2. row'.attempts >= row.attempts
    BY DEF Keeps
  <2>3. m.token \in 1..row'.attempts
    BY <2>1, <2>2
  <2>4. Holds(row', m) => m.now >= row'.last_attempted_at
    BY <2>1 DEF Keeps, Holds
  <2> QED
    BY <2>3, <2>4
<1>3. m.kind = "retry" => m.delay = RetryDelay
  BY DEF StmtInv
<1> QED
  BY <1>1, <1>2, <1>3 DEF StmtInv, Holds

\* The attempts of the row, pushed or not.
LEMMA AttemptsType ==
  ASSUME IInv
  PROVE  row.attempts \in Nat
BY DEF IInv, RowInv, Row, NoRow

\* A statement's effect on the row preserves IInv.
LEMMA WriteStep ==
  ASSUME IInv, NEW s \in stmts, stmts' = stmts \ {s}, UNCHANGED <<clock, raised>>,
         RowInv(row'), Keeps(row, row'),
         held' \subseteq held \cup {row'.lease_token}, row'.lease_token \in 1..row'.attempts
           \/ held' = held
  PROVE  IInv'
<1>1. row.attempts \in Nat /\ row'.attempts \in Nat /\ row'.attempts >= row.attempts
  BY AttemptsType DEF RowInv, Row, Keeps
<1>2. \A m \in stmts' : StmtInv(m)'
  BY <1>1, StmtKept DEF IInv
<1>3. held' \subseteq 1..row'.attempts
  BY <1>1 DEF IInv
<1>4. RowInv(row)'
  BY DEF RowInv
<1> QED
  BY <1>2, <1>3, <1>4 DEF IInv, OnlyPushIsRejected

\* A statement that executes on the row (claim, mark or reap) with the NOW() its
\* transaction froze when it began.
LEMMA ExecuteStep ==
  ASSUME StmtMax <= Lease + 1, IInv, NEW s \in stmts, Execute(s)
  PROVE  IInv'
<1>0. s \in Stmt /\ clock \in Nat /\ s.now <= clock /\ UNCHANGED clock /\ stmts' = stmts \ {s}
  BY DEF IInv, StmtInv, Execute
<1>1. CASE UNCHANGED <<row, held>> /\ raised' \subseteq {"push"}
  <2>1. \A m \in stmts' : StmtInv(m)'
    BY <1>0, <1>1 DEF IInv, StmtInv, Holds
  <2> QED
    BY <1>0, <1>1, <2>1 DEF IInv, RowInv, OnlyPushIsRejected
<1>2. CASE ~Finds(row, s) /\ UNCHANGED <<row, held, raised>>
  BY <1>1, <1>2 DEF IInv, OnlyPushIsRejected
<1>3. CASE Finds(row, s) /\ s.kind = "push"
  <2>1. row.status = "none"
    BY <1>3 DEF Finds
  <2>2. row = NoRow
    BY <2>1 DEF IInv, RowInv, Row
  <2>3. CASE raised' = raised \cup {s.kind} /\ UNCHANGED <<row, held>>
    BY <1>1, <1>3, <2>3 DEF IInv, OnlyPushIsRejected
  <2>4. CASE /\ Temporal(Written(row, s)) /\ row' = Written(row, s)
             /\ UNCHANGED <<raised, held>>
    <3>1. row' = Inserted(s)
      BY <1>3, <2>4 DEF Written
    <3>2. RowInv(row') /\ row'.attempts = 0 /\ row'.status = "queued"
      BY <1>0, <2>4, <3>1, PushWrites
    <3>3. Keeps(row, row')
      BY <2>2, <3>2 DEF Keeps, NoRow
    <3> QED
      BY <1>0, <2>4, <3>2, <3>3, WriteStep
  <2> QED
    BY <1>3, <2>3, <2>4 DEF Execute
<1>4. CASE Finds(row, s) /\ s.kind # "push"
  <2>1. /\ RowInv(row) /\ RowInv(Written(row, s)) /\ Keeps(row, Written(row, s))
    BY <1>4, WriteIsSound
  <2>2. Temporal(Written(row, s)) /\ StatusInvariants(Written(row, s))
    BY <2>1 DEF RowInv
  <2>3. /\ row' = Written(row, s) /\ UNCHANGED raised
        /\ held' = IF s.kind = "claim" THEN held \cup {row'.lease_token} ELSE held
    BY <1>4, <2>2 DEF Execute
  <2>4. s.kind = "claim" => row'.lease_token \in 1..row'.attempts
    <3>1. SUFFICES ASSUME s.kind = "claim" PROVE row'.lease_token \in 1..row'.attempts
      OBVIOUS
    <3>2. row' = Touched(Claimed(row, s), s)
      BY <2>3, <3>1 DEF Written
    <3>3. row'.lease_token = row.attempts + 1 /\ row'.attempts = row.attempts + 1
      BY <1>0, <2>1, <3>2, ClaimWrites DEF RowInv
    <3> QED
      BY <3>3, AttemptsType
  <2> QED
    BY <1>0, <2>1, <2>3, <2>4, WriteStep
<1> QED
  BY <1>2, <1>3, <1>4 DEF Execute

\* Sending a statement preserves IInv: a mark is sent by a worker that was given the row.
LEMMA SendStep ==
  ASSUME IInv, NEW kind \in Kinds, NEW token \in Nat \cup {NULL}, NEW delay \in Int,
         Send(kind, token, delay), held' \subseteq held,
         kind \in {"done", "dead", "retry"} => token \in held,
         kind = "retry" => delay = RetryDelay
  PROVE  IInv'
<1>1. PICK s : s = [kind |-> kind, now |-> clock, token |-> token, delay |-> delay]
  OBVIOUS
<1>2. stmts' = stmts \cup {s} /\ UNCHANGED <<clock, row, raised>>
  BY <1>1 DEF Send
<1>3. /\ s \in Stmt /\ s.kind = kind /\ s.now = clock /\ s.token = token
      /\ s.delay = delay
  BY <1>1 DEF Stmt, IInv
<1>4. /\ s.now <= clock /\ clock <= s.now + StmtMax
  BY <1>3, ClockAssumption DEF IInv, ClockAssumption
<1>5. Holds(row, s) => s.now >= row.last_attempted_at
  <2>1. SUFFICES ASSUME row.status = "running" PROVE clock >= row.last_attempted_at
    BY <1>3 DEF Holds
  <2>2. RowInv(row) /\ clock \in Nat
    BY <2>1 DEF IInv, NoRow
  <2>3. row.last_attempted_at \in Nat
    BY <2>1, <2>2, Ordered
  <2> QED
    BY <2>2, <2>3 DEF RowInv
<1>6. kind \in {"done", "dead", "retry"} => s.token \in 1..row.attempts
  BY <1>3 DEF IInv
<1>7. StmtInv(s)
  BY <1>3, <1>4, <1>5, <1>6 DEF StmtInv
<1>8. \A m \in stmts' : StmtInv(m)'
  BY <1>2, <1>7 DEF IInv, StmtInv, Holds
<1> QED
  BY <1>2, <1>8 DEF IInv, RowInv, OnlyPushIsRejected

\* So does the passing of time.
LEMMA TickStep ==
  ASSUME IInv, Tick
  PROVE  IInv'
<1>1. /\ clock \in Nat /\ clock' = clock + 1 /\ UNCHANGED <<row, stmts, held, raised>>
  BY DEF IInv, Tick
<1>2. ASSUME NEW m \in stmts
      PROVE  StmtInv(m)'
  <2>1. StmtInv(m) /\ clock < m.now + StmtMax /\ m.now \in Nat /\ StmtMax \in Nat
    BY ClockAssumption DEF IInv, Tick, StmtInv, Stmt, ClockAssumption
  <2>2. m.now <= clock' /\ clock' <= m.now + StmtMax
    BY <1>1, <2>1 DEF StmtInv
  <2> QED
    BY <1>1, <2>1, <2>2 DEF StmtInv, Holds
<1>3. ASSUME RowInv(row)
      PROVE  RowInv(row)'
  <2>1. row.last_attempted_at \in Int /\ Lease \in Nat
    BY <1>3, ClockAssumption DEF RowInv, Row, Time, NULL, ClockAssumption
  <2>2. row.last_attempted_at <= clock'
    BY <1>1, <1>3, <2>1 DEF RowInv
  <2>3. clock > row.last_attempted_at + Lease => clock' > row.last_attempted_at + Lease
    BY <1>1, <2>1
  <2> QED
    BY <1>1, <1>3, <2>2, <2>3 DEF RowInv
<1> QED
  BY <1>1, <1>2, <1>3 DEF IInv, OnlyPushIsRejected

\* Every step preserves IInv, as long as no statement takes effect later than the lease
\* (and one tick) after its now().
LEMMA NextInv ==
  ASSUME StmtMax <= Lease + 1, IInv, [Next]_vars
  PROVE  IInv'
<1>1. CASE SendPush \/ SendClaim \/ SendReap
  <2>1. \E kind \in {"push", "claim", "reap"}, d \in Int : Send(kind, NULL, d)
    BY <1>1, ClockAssumption DEF SendPush, SendClaim, SendReap, ClockAssumption
  <2>2. PICK kind \in {"push", "claim", "reap"}, d \in Int : Send(kind, NULL, d)
    BY <2>1
  <2>3. held' = held
    BY <1>1 DEF SendPush, SendClaim, SendReap
  <2> QED
    BY <2>2, <2>3, SendStep DEF Kinds
<1>2. ASSUME NEW token \in held, SendMark(token)
      PROVE  IInv'
  <2>1. token \in Nat /\ held' \subseteq held
    BY <1>2, AttemptsType DEF IInv, SendMark
  <2>2. CASE \E kind \in {"done", "dead"} : Send(kind, token, 0)
    BY <2>1, <2>2, SendStep DEF Kinds
  <2>3. CASE Send("retry", token, RetryDelay)
    BY <2>1, <2>3, SendStep, ClockAssumption DEF Kinds, ClockAssumption
  <2> QED
    BY <1>2, <2>2, <2>3 DEF SendMark
<1>3. ASSUME NEW token \in held, Forget(token)
      PROVE  IInv'
  BY <1>3 DEF Forget, IInv, RowInv, StmtInv, Holds, OnlyPushIsRejected
<1>4. CASE UNCHANGED vars
  BY <1>4 DEF vars, IInv, RowInv, StmtInv, Holds, OnlyPushIsRejected
<1> QED
  BY <1>1, <1>2, <1>3, <1>4, ExecuteStep, TickStep DEF Next

\* The inductive invariant: see IInv.
THEOREM Invariance ==
  ASSUME StmtMax <= Lease + 1
  PROVE  Spec => []IInv
<1>1. Init => IInv
  BY DEF Init, IInv, NoRow, OnlyPushIsRejected
<1>2. IInv /\ [Next]_vars => IInv'
  BY NextInv
<1> QED
  BY <1>1, <1>2, PTL DEF Spec

\* No claim, sweep or mark is ever rejected by jobs_temporal or jobs_status_invariants,
\* whatever overlaps it, if none takes effect more than a lease (and one tick) after its
\* now().
THEOREM ChecksNeverStopAWorker ==
  ASSUME StmtMax <= Lease + 1
  PROVE  Spec => []OnlyPushIsRejected
<1>1. IInv => OnlyPushIsRejected
  BY DEF IInv
<1> QED
  BY <1>1, Invariance, PTL

\* The recorded starts of a job's attempts are strictly increasing, if no statement takes
\* effect more than a lease after its now().
THEOREM AttemptsFollowOneAnother ==
  ASSUME StmtMax <= Lease
  PROVE  Spec => AttemptsAdvance
<1>0. StmtMax <= Lease + 1
  BY ClockAssumption DEF ClockAssumption
<1>1. ASSUME IInv, [Next]_vars, row'.attempts > row.attempts, row.attempts > 0
      PROVE  row'.last_attempted_at > row.last_attempted_at
  <2>1. row.attempts \in Nat /\ row # NoRow /\ RowInv(row)
    BY <1>1, AttemptsType DEF IInv, NoRow
  <2>2. row' # row
    BY <1>1, <2>1
  <2>3. PICK s \in stmts : Execute(s) /\ row' # row
    BY <1>1, <2>2 DEF Next, vars, SendPush, SendClaim, SendReap, SendMark, Send, Forget, Tick
  <2>4. Finds(row, s) /\ row' = Written(row, s) /\ s \in Stmt /\ s.kind \in Kinds
    BY <1>1, <2>3 DEF Execute, IInv, StmtInv, Stmt
  <2>5. s.kind # "push"
    BY <2>1, <2>4 DEF Finds, RowInv, Row
  <2>6. s.kind # "reap"
    <3>1. SUFFICES ASSUME s.kind = "reap" PROVE FALSE
      OBVIOUS
    <3>2. row' = Touched(Reaped(row, s), s)
      BY <2>4, <3>1 DEF Written
    <3>3. row'.attempts = row.attempts
      <4>1. CASE row.attempts >= MaxAttempts
        BY <2>1, <2>4, <3>2, <4>1, FinishWrites DEF Reaped, Ends, RowInv
      <4>2. CASE ~(row.attempts >= MaxAttempts)
        BY <2>1, <2>4, <3>2, <4>2, ReturnWrites DEF Reaped, Ends, RowInv
      <4> QED
        BY <4>1, <4>2
    <3> QED
      BY <1>1, <2>1, <3>3
  <2>7. s.kind # "retry"
    <3>1. SUFFICES ASSUME s.kind = "retry" PROVE FALSE
      OBVIOUS
    <3>2. row' = Touched(Retried(row, s), s)
      BY <2>4, <3>1 DEF Written
    <3>3. s.delay \in Nat
      BY <1>1, <3>1, ClockAssumption DEF IInv, StmtInv, ClockAssumption
    <3>4. row'.attempts = row.attempts
      BY <2>1, <2>4, <3>2, <3>3, RetryWrites DEF Ends, RowInv
    <3> QED
      BY <1>1, <2>1, <3>4
  <2>8. s.kind \notin {"done", "dead"}
    <3>1. SUFFICES ASSUME s.kind \in {"done", "dead"} PROVE FALSE
      OBVIOUS
    <3>2. row' = Touched(Finished(row, s, s.kind), s)
      BY <2>4, <3>1 DEF Written
    <3>3. row'.attempts = row.attempts
      BY <2>1, <2>4, <3>1, <3>2, FinishWrites DEF Ends, RowInv
    <3> QED
      BY <1>1, <2>1, <3>3
  <2>9. s.kind = "claim"
    BY <2>4, <2>5, <2>6, <2>7, <2>8 DEF Kinds
  <2>10. Ready(row, s) /\ row' = Touched(Claimed(row, s), s)
    BY <2>4, <2>9 DEF Finds, Written
  <2>11. s.now > row.last_attempted_at
    BY <1>1, <2>1, <2>4, <2>10, ClaimIsLater DEF IInv, StmtInv
  <2> QED
    BY <2>1, <2>4, <2>10, <2>11, ClaimWrites DEF RowInv
<1>2. IInv /\ [Next]_vars
        => [row'.attempts > row.attempts /\ row.attempts > 0
              => row'.last_attempted_at > row.last_attempted_at]_vars
  BY <1>1
<1> QED
  BY <1>0, <1>2, Invariance, PTL DEF Spec, AttemptsAdvance
=============================================================================
