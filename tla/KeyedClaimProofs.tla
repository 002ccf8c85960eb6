-------------------------- MODULE KeyedClaimProofs --------------------------
(***************************************************************************)
(* Proofs about KeyedClaim, for any table, keys, limits, batch size and    *)
(* number of permits, and for any transactions of others.                  *)
(***************************************************************************)
EXTENDS KeyedClaim, TLAPS, FiniteSetTheorems, WellFoundedInduction

-----------------------------------------------------------------------------
\* ORDER BY ... LIMIT

\* The rows that come before a row.
Below(S, j) == {i \in S : Before(i, j)}

\* (run_at, id) orders the rows of the table totally, for ids are unique.
LEMMA TotalOrder ==
  ASSUME TypeOK, NEW i \in Jobs, NEW j \in Jobs
  PROVE  /\ ~Before(i, i)
         /\ i # j => Before(i, j) \/ Before(j, i)
         /\ \A l \in Jobs : Before(l, i) /\ Before(i, j) => Before(l, j)
<1>1. \A l \in Jobs : row[l].run_at \in Nat /\ Id[l] \in Nat
  BY KeyAssumption DEF KeyAssumption, TypeOK, Row
<1>2. i # j => Id[i] # Id[j]
  BY KeyAssumption DEF KeyAssumption
<1> QED
  BY <1>1, <1>2 DEF Before

\* A row that comes later has more rows before it.
LEMMA LaterHasMore ==
  ASSUME TypeOK, NEW S \in SUBSET Jobs, NEW i \in S, NEW j \in S
  PROVE  /\ IsFiniteSet(Below(S, i)) /\ Cardinality(Below(S, i)) \in Nat
         /\ Before(i, j) <=> Cardinality(Below(S, i)) < Cardinality(Below(S, j))
<1>1. \A x \in S : IsFiniteSet(Below(S, x)) /\ Cardinality(Below(S, x)) \in Nat
  <2> SUFFICES ASSUME NEW x \in S
               PROVE  IsFiniteSet(Below(S, x)) /\ Cardinality(Below(S, x)) \in Nat
    OBVIOUS
  <2>1. Below(S, x) \subseteq Jobs /\ IsFiniteSet(Jobs)
    BY KeyAssumption DEF KeyAssumption, Below
  <2> QED
    BY <2>1, FS_Subset, FS_CardinalityType
<1>2. ASSUME NEW x \in S, NEW y \in S, Before(x, y)
      PROVE  Cardinality(Below(S, x)) < Cardinality(Below(S, y))
  <2>1. x \notin Below(S, x)
    BY TotalOrder DEF Below
  <2>2. Below(S, x) \cup {x} \subseteq Below(S, y)
    <3>1. ASSUME NEW l \in Below(S, x) PROVE l \in Below(S, y)
      <4>1. l \in Jobs /\ l \in S /\ Before(l, x)
        BY DEF Below
      <4>2. Before(l, y)
        BY <1>2, <4>1, TotalOrder
      <4> QED
        BY <4>1, <4>2 DEF Below
    <3>2. x \in Below(S, y)
      BY <1>2 DEF Below
    <3> QED
      BY <3>1, <3>2
  <2>3. Cardinality(Below(S, x) \cup {x}) = Cardinality(Below(S, x)) + 1
    BY <1>1, <2>1, FS_AddElement
  <2>4. Cardinality(Below(S, x) \cup {x}) <= Cardinality(Below(S, y))
    BY <1>1, <2>2, FS_Subset
  <2> QED
    BY <1>1, <2>3, <2>4
<1>3. i # j => Before(i, j) \/ Before(j, i)
  BY TotalOrder
<1> QED
  BY <1>1, <1>2, <1>3

\* A non-empty set of natural numbers below a bound has a largest element.
LEMMA Largest ==
  ASSUME NEW T, T # {}, NEW rank, NEW n \in Nat, \A j \in T : rank[j] \in Nat /\ rank[j] < n
  PROVE  \E m \in T : \A j \in T : rank[j] <= rank[m]
<1>1. PICK gaps : gaps = {n - rank[j] : j \in T}
  OBVIOUS
<1>2. gaps \in SUBSET Nat /\ gaps # {}
  BY <1>1
<1>3. PICK x \in gaps : \A y \in gaps : ~(<<y, x>> \in OpToRel(<, Nat))
  BY <1>2, NatLessThanWellFounded, WFMin
<1>4. PICK m \in T : x = n - rank[m]
  BY <1>1, <1>3
<1>5. ASSUME NEW j \in T PROVE rank[j] <= rank[m]
  <2>1. PICK y \in gaps : y = n - rank[j]
    BY <1>1
  <2>2. ASSUME y < x PROVE FALSE
    <3>1. <<y, x>> \in OpToRel(<, Nat)
      BY <1>2, <1>3, <2>1, <2>2 DEF OpToRel
    <3> QED
      BY <1>3, <3>1
  <2>3. ~(y < x) /\ y \in Nat /\ x \in Nat /\ rank[j] \in Nat /\ rank[m] \in Nat
    BY <1>2, <2>2
  <2> QED
    BY <1>4, <2>1, <2>3
<1> QED
  BY <1>4, <1>5

\* LIMIT n lets through n rows at most.
LEMMA LimitBounds ==
  ASSUME TypeOK, NEW S \in SUBSET Jobs, NEW n \in Nat
  PROVE  IsFiniteSet(First(S, n)) /\ Cardinality(First(S, n)) <= n
<1>1. IsFiniteSet(S)
  BY KeyAssumption, FS_Subset DEF KeyAssumption
<1>2. PICK T : T = First(S, n)
  OBVIOUS
<1>3. T \subseteq S /\ \A j \in T : Cardinality(Below(S, j)) < n
  BY <1>2 DEF First, Below
<1>4. IsFiniteSet(T)
  BY <1>1, <1>3, FS_Subset
<1>5. \A j \in S : IsFiniteSet(Below(S, j)) /\ Cardinality(Below(S, j)) \in Nat
  BY LaterHasMore
<1>6. CASE T = {}
  BY <1>2, <1>6, FS_EmptySet
<1>7. CASE T # {}
  <2>1. PICK rank : rank = [j \in T |-> Cardinality(Below(S, j))]
    OBVIOUS
  <2>2. \A j \in T : rank[j] = Cardinality(Below(S, j)) /\ rank[j] \in Nat /\ rank[j] < n
    BY <1>3, <1>5, <2>1
  <2>3. PICK m \in T : \A j \in T : rank[j] <= rank[m]
    BY <1>7, <2>2, Largest
  <2>4. ASSUME NEW j \in T \ {m} PROVE Before(j, m)
    <3>1. SUFFICES ASSUME ~Before(j, m) PROVE FALSE
      OBVIOUS
    <3>2. j \in Jobs /\ m \in Jobs /\ j # m
      BY <1>3
    <3>3. Before(m, j)
      BY <3>1, <3>2, TotalOrder
    <3>4. rank[m] < rank[j]
      BY <1>3, <2>2, <3>3, LaterHasMore
    <3>5. rank[j] <= rank[m]
      BY <2>3
    <3> QED
      BY <2>2, <3>4, <3>5
  <2>5. T \ {m} \subseteq Below(S, m)
    BY <1>3, <2>4 DEF Below
  <2>6. Cardinality(T \ {m}) <= Cardinality(Below(S, m))
    <3>1. IsFiniteSet(Below(S, m))
      BY <1>3, <1>5
    <3> QED
      BY <2>5, <3>1, FS_Subset
  <2>7. Cardinality(T \ {m}) = Cardinality(T) - 1
    BY <1>4, <2>3, FS_RemoveElement
  <2>8. Cardinality(T) \in Nat
    BY <1>4, FS_CardinalityType
  <2>9. Cardinality(T) <= n
    BY <2>2, <2>3, <2>6, <2>7, <2>8
  <2> QED
    BY <1>2, <1>4, <2>9
<1> QED
  BY <1>6, <1>7

\* The smaller and the larger of two numbers.
LEMMA MinOfTwo ==
  ASSUME NEW a \in Int, NEW b \in Int
  PROVE  Min({a, b}) = IF a <= b THEN a ELSE b
BY DEF Min

\* saturating_sub
LEMMA MaxOfTwo ==
  ASSUME NEW a \in Int, NEW b \in Int
  PROVE  Max({a, b}) = IF a >= b THEN a ELSE b
BY DEF Max

\* The LATERAL of SQL_KEYED ranks no more rows of a key than it has headroom.
LEMMA RankedWithinHeadroom ==
  ASSUME TypeOK, NEW h \in [DOMAIN Limit -> Nat], NEW want \in Nat, NEW k \in DOMAIN Limit
  PROVE  LET ofKey == {j \in Ranked(h, want) : KeyOf[j] = k}
         IN  IsFiniteSet(ofKey) /\ Cardinality(ofKey) <= h[k]
<1>1. PICK n : n = Min({h[k], want})
  OBVIOUS
<1>2. n \in Nat /\ n <= h[k]
  BY <1>1, MinOfTwo
<1>3. PICK ofKey : ofKey = {j \in Ranked(h, want) : KeyOf[j] = k}
  OBVIOUS
<1>4. ofKey \subseteq First(Keyed(k), n)
  <2> SUFFICES ASSUME NEW j \in ofKey PROVE j \in First(Keyed(k), n)
    OBVIOUS
  <2>1. j \in Ranked(h, want) /\ KeyOf[j] = k
    BY <1>3
  <2>2. j \notin First(Unlimited(h), want)
    BY <2>1 DEF First, Unlimited
  <2>3. PICK l \in DOMAIN h : j \in First(Keyed(l), Min({h[l], want}))
    <3>1. PICK keyed : keyed = {First(Keyed(l), Min({h[l], want})) : l \in DOMAIN h}
      OBVIOUS
    <3>2. Ranked(h, want) = (UNION keyed) \cup First(Unlimited(h), want)
      BY <3>1, Zenon DEF Ranked
    <3>3. PICK U \in keyed : j \in U
      BY <2>1, <2>2, <3>2
    <3> QED
      BY <3>1, <3>3, Zenon
  <2>4. l = k
    BY <2>1, <2>3 DEF First, Keyed
  <2> QED
    BY <1>1, <2>3, <2>4
<1>5. Keyed(k) \in SUBSET Jobs
  BY DEF Keyed, Ready
<1>6. IsFiniteSet(First(Keyed(k), n)) /\ Cardinality(First(Keyed(k), n)) <= n
  BY <1>2, <1>5, LimitBounds
<1>7. IsFiniteSet(ofKey) /\ Cardinality(ofKey) <= Cardinality(First(Keyed(k), n))
  BY <1>4, <1>6, FS_Subset
<1>8. Cardinality(ofKey) \in Nat /\ Cardinality(First(Keyed(k), n)) \in Nat
  BY <1>6, <1>7, FS_CardinalityType
<1>9. Cardinality(ofKey) <= h[k]
  BY <1>2, <1>6, <1>7, <1>8
<1> QED
  BY <1>3, <1>7, <1>9

-----------------------------------------------------------------------------
\* Tasks of a key

\* Fewer tasks are fewer tasks of each key.
LEMMA FewerTasks ==
  ASSUME NEW T, IsFiniteSet(T), NEW S \in SUBSET T, NEW k
  PROVE  /\ IsFiniteSet(OfKey(S, k)) /\ IsFiniteSet(OfKey(T, k))
         /\ Cardinality(OfKey(S, k)) \in Nat /\ Cardinality(OfKey(T, k)) \in Nat
         /\ Cardinality(OfKey(S, k)) <= Cardinality(OfKey(T, k))
<1>1. OfKey(S, k) \subseteq OfKey(T, k) /\ OfKey(T, k) \subseteq T
  BY DEF OfKey
<1>2. IsFiniteSet(OfKey(T, k))
  BY <1>1, FS_Subset
<1>3. IsFiniteSet(OfKey(S, k)) /\ Cardinality(OfKey(S, k)) <= Cardinality(OfKey(T, k))
  BY <1>1, <1>2, FS_Subset
<1> QED
  BY <1>2, <1>3, FS_CardinalityType

\* A batch adds as many tasks of a key as it has.
LEMMA MoreTasks ==
  ASSUME NEW S, IsFiniteSet(S), NEW T, IsFiniteSet(T), NEW k
  PROVE  Cardinality(OfKey(S \cup T, k)) <= Cardinality(OfKey(S, k)) + Cardinality(OfKey(T, k))
<1>1. OfKey(S \cup T, k) = OfKey(S, k) \cup OfKey(T, k)
  BY DEF OfKey
<1>2. /\ IsFiniteSet(OfKey(S, k)) /\ IsFiniteSet(OfKey(T, k))
      /\ Cardinality(OfKey(S, k)) \in Nat /\ Cardinality(OfKey(T, k)) \in Nat
  BY FewerTasks
<1>3. Cardinality(OfKey(S, k) \cup OfKey(T, k))
        = Cardinality(OfKey(S, k)) + Cardinality(OfKey(T, k))
          - Cardinality(OfKey(S, k) \cap OfKey(T, k))
  BY <1>2, FS_Union
<1>4. Cardinality(OfKey(S, k) \cap OfKey(T, k)) \in Nat
  <2>1. IsFiniteSet(OfKey(S, k) \cap OfKey(T, k))
    BY <1>2, FS_Intersection
  <2> QED
    BY <2>1, FS_CardinalityType
<1>5. PICK a \in Nat, b \in Nat, c \in Nat :
        /\ a = Cardinality(OfKey(S, k)) /\ b = Cardinality(OfKey(T, k))
        /\ c = Cardinality(OfKey(S, k) \cap OfKey(T, k))
  BY <1>2, <1>4
<1>6. Cardinality(OfKey(S \cup T, k)) = a + b - c
  BY <1>1, <1>3, <1>5
<1> QED
  BY <1>5, <1>6

\* No batch, no tasks.
LEMMA NoBatch ==
  ASSUME NEW k
  PROVE  Cardinality(OfKey({}, k)) = 0
<1>1. OfKey({}, k) = {}
  BY DEF OfKey
<1> QED
  BY <1>1, FS_EmptySet

\* A claimed batch has one task per row.
LEMMA OneTaskPerRow ==
  ASSUME NEW ids, NEW attempt, NEW batch, NEW k, IsFiniteSet(ids),
         \A t \in batch : t[1] \in ids /\ t = <<t[1], attempt[t[1]]>>
  PROVE  /\ IsFiniteSet(batch)
         /\ Cardinality(OfKey(batch, k)) <= Cardinality({j \in ids : KeyOf[j] = k})
<1>1. PICK ofKey : ofKey = {j \in ids : KeyOf[j] = k}
  OBVIOUS
<1>2. IsFiniteSet(ofKey)
  BY <1>1, FS_Subset
<1>3. \A t \in batch : t[1] \in ids /\ t = <<t[1], attempt[t[1]]>>
  OBVIOUS
<1>4. IsFiniteSet(batch)
  <2>1. PICK f : f = [t \in batch |-> t[1]]
    OBVIOUS
  <2>2. f \in Injection(batch, ids)
    BY <1>3, <2>1 DEF Injection, IsInjective
  <2> QED
    BY <2>2, FS_Injection
<1>5. Cardinality(OfKey(batch, k)) <= Cardinality(ofKey)
  <2>1. PICK f : f = [t \in OfKey(batch, k) |-> t[1]]
    OBVIOUS
  <2>2. \A t \in OfKey(batch, k) : t \in batch /\ t[1] \in ofKey
    BY <1>1, <1>3 DEF OfKey
  <2>3. f \in Injection(OfKey(batch, k), ofKey)
    BY <1>3, <2>1, <2>2 DEF Injection, IsInjective
  <2> QED
    BY <1>2, <2>3, FS_Injection
<1> QED
  BY <1>1, <1>2, <1>4, <1>5

-----------------------------------------------------------------------------
\* The inductive invariant, step by step.

\* A step that neither polls nor adds tasks, and leaves the attempts of every row at least
\* what they were, keeps the invariant: tasks end, rows are reaped, locked and claimed by
\* others.
LEMMA OtherStep ==
  ASSUME ClaimInv, live' \subseteq live, poll' = poll, TypeOK',
         \A j \in Jobs : row'[j].attempts >= row[j].attempts
  PROVE  ClaimInv'
<1>1. TypeOK /\ AttemptInv /\ HeadroomInv /\ KeyLimitHolds /\ (poll.pc # "spawn" => poll.batch = {})
  BY DEF ClaimInv
<1>2. IsFiniteSet(live) /\ IsFiniteSet(poll.batch)
  BY <1>1 DEF TypeOK
<1>3. AttemptInv'
  <2>1. ASSUME NEW t \in live' \cup poll'.batch PROVE t[2] <= row'[t[1]].attempts
    <3>1. t \in Jobs \X Nat /\ t[2] <= row[t[1]].attempts
      BY <1>1, <2>1 DEF TypeOK, AttemptInv
    <3>2. row'[t[1]].attempts \in Nat /\ row[t[1]].attempts \in Nat
      BY <1>1, <3>1 DEF TypeOK, Row
    <3> QED
      BY <3>1, <3>2
  <2> QED
    BY <1>1, <2>1 DEF AttemptInv
<1>4. ASSUME NEW k \in DOMAIN Limit
      PROVE  /\ Tasks(k) \in Nat /\ Tasks(k)' \in Nat /\ Tasks(k)' <= Tasks(k)
             /\ Cardinality(OfKey(poll.batch, k)) \in Nat
             /\ poll.headroom[k] \in Nat /\ Limit[k] \in Nat
  <2>1. /\ Cardinality(OfKey(live, k)) \in Nat /\ Cardinality(OfKey(live', k)) \in Nat
        /\ Cardinality(OfKey(live', k)) <= Cardinality(OfKey(live, k))
    BY <1>2, FewerTasks
  <2>2. Cardinality(OfKey(poll.batch, k)) \in Nat
    BY <1>2, FewerTasks
  <2>3. poll.headroom[k] \in Nat /\ Limit[k] \in Nat
    BY <1>1, KeyAssumption DEF TypeOK, KeyAssumption
  <2> QED
    BY <2>1, <2>2, <2>3 DEF Tasks
<1>5. HeadroomInv'
  BY <1>1, <1>4 DEF HeadroomInv
<1>6. KeyLimitHolds'
  BY <1>1, <1>4 DEF KeyLimitHolds
<1> QED
  BY <1>1, <1>3, <1>5, <1>6 DEF ClaimInv

\* A claim's UPDATE of a row, by this worker or another transaction.
LEMMA ClaimedRow ==
  ASSUME NEW r \in Row
  PROVE  /\ Claimed(r) \in Row /\ r.attempts \in Nat
         /\ Claimed(r).attempts = r.attempts + 1 /\ Claimed(r).attempts >= r.attempts
<1>1. r.run_at \in Nat /\ r.attempts \in Nat
  BY DEF Row
<1>2. Claimed(r) \in Row
  BY <1>1 DEF Claimed, Row
<1>3. Claimed(r).attempts = r.attempts + 1
  BY DEF Claimed, Row
<1> QED
  BY <1>1, <1>2, <1>3

\* The same for the rows it finds.
LEMMA ClaimedRows ==
  ASSUME TypeOK, NEW S, row' = [j \in Jobs |-> IF j \in S THEN Claimed(row[j]) ELSE row[j]]
  PROVE  /\ row' \in [Jobs -> Row]
         /\ \A j \in Jobs : /\ row'[j].attempts >= row[j].attempts
                            /\ j \in S => row'[j].attempts = row[j].attempts + 1
<1>1. ASSUME NEW j \in Jobs
      PROVE  /\ row'[j] \in Row /\ row'[j].attempts >= row[j].attempts
             /\ j \in S => row'[j].attempts = row[j].attempts + 1
  <2>1. row[j] \in Row /\ row[j].attempts \in Nat
    BY DEF TypeOK, Row
  <2>2. CASE j \in S
    BY <2>1, <2>2, ClaimedRow
  <2>3. CASE j \notin S
    BY <2>1, <2>3
  <2> QED
    BY <2>2, <2>3
<1> QED
  BY <1>1

\* The end of a task, the reaper, the clock and the transactions of others.
LEMMA TableStep ==
  ASSUME ClaimInv,
         \/ \E j \in Jobs : TaskEnds(j) \/ Reap(j) \/ BecomeDue(j)
         \/ ForeignLocks \/ ForeignEnds
  PROVE  ClaimInv'
<1>1. TypeOK
  BY DEF ClaimInv
<1>2. IsFiniteSet(live) /\ live \subseteq Jobs \X Nat
  BY <1>1 DEF TypeOK
<1>3. RunAts \subseteq Nat
  BY KeyAssumption DEF KeyAssumption
<1>4. ASSUME NEW j \in Jobs, NEW r \in Row, r.attempts = row[j].attempts,
             row' = [row EXCEPT ![j] = r]
      PROVE  row' \in [Jobs -> Row] /\ \A i \in Jobs : row'[i].attempts = row[i].attempts
  BY <1>1, <1>4 DEF TypeOK
<1>5. ASSUME NEW r \in Row, NEW at \in Nat
      PROVE  Retried(r, at) \in Row /\ Retried(r, at).attempts = r.attempts
  BY <1>5 DEF Retried, Row
<1>6. ASSUME NEW r \in Row, NEW status \in {"ready", "settled"}
       PROVE  [r EXCEPT !.status = status] \in Row /\ [r EXCEPT !.status = status].attempts = r.attempts
  BY <1>6 DEF Row
<1>7. ASSUME NEW j \in Jobs, TaskEnds(j) PROVE ClaimInv'
  <2>1. PICK t \in live : live' = live \ {t}
    BY <1>7 DEF TaskEnds
  <2>2. IsFiniteSet(live')
    BY <1>2, <2>1, FS_Subset
  <2>3. /\ row' \in [Jobs -> Row]
        /\ \A i \in Jobs : row'[i].attempts = row[i].attempts
    <3>1. row[j] \in Row /\ row \in [Jobs -> Row]
      BY <1>1 DEF TypeOK
    <3>2. CASE row' = [row EXCEPT ![j].status = "settled"]
      <4>1. row' = [row EXCEPT ![j] = [row[j] EXCEPT !.status = "settled"]]
        BY <3>2
      <4> QED
        BY <1>4, <1>6, <3>1, <4>1
    <3>3. ASSUME NEW at \in RunAts, row' = [row EXCEPT ![j] = Retried(row[j], at)]
          PROVE  row' \in [Jobs -> Row] /\ \A i \in Jobs : row'[i].attempts = row[i].attempts
      BY <1>3, <1>4, <1>5, <3>1, <3>3
    <3> QED
      BY <1>7, <3>1, <3>2, <3>3 DEF TaskEnds
  <2>4. poll' = poll /\ foreign' = foreign
    BY <1>7 DEF TaskEnds
  <2>5. TypeOK'
    BY <1>1, <1>2, <2>1, <2>2, <2>3, <2>4 DEF TypeOK
  <2> QED
    BY <1>1, <2>1, <2>3, <2>4, <2>5, OtherStep DEF TypeOK, Row
<1>8. ASSUME NEW j \in Jobs, Reap(j) \/ BecomeDue(j) PROVE ClaimInv'
  <2>1. /\ row' \in [Jobs -> Row]
        /\ \A i \in Jobs : row'[i].attempts = row[i].attempts
    <3>1. row[j] \in Row /\ row[j].run_at \in Nat
      BY <1>1 DEF TypeOK, Row
    <3>2. CASE Reap(j)
      <4>1. row' = [row EXCEPT ![j] = Retried(row[j], row[j].run_at)]
        BY <3>2 DEF Reap
      <4> QED
        BY <1>4, <1>5, <3>1, <4>1
    <3>3. CASE BecomeDue(j)
      <4>1. row' = [row EXCEPT ![j] = [row[j] EXCEPT !.status = "ready"]]
        BY <3>3 DEF BecomeDue
      <4> QED
        BY <1>4, <1>6, <3>1, <4>1
    <3> QED
      BY <1>8, <3>2, <3>3
  <2>2. live' = live /\ poll' = poll /\ foreign' = foreign
    BY <1>8 DEF Reap, BecomeDue
  <2>3. TypeOK'
    BY <1>1, <2>1, <2>2 DEF TypeOK
  <2> QED
    BY <1>1, <2>1, <2>2, <2>3, OtherStep DEF TypeOK, Row
<1>9. CASE ForeignLocks
  <2>1. PICK S \in SUBSET Ready : foreign' = [locked |-> S, count |-> foreign.count + 1]
    BY <1>9 DEF ForeignLocks
  <2>2. live' = live /\ poll' = poll /\ row' = row
    BY <1>9 DEF ForeignLocks
  <2>3. TypeOK'
    BY <1>1, <2>1, <2>2 DEF TypeOK, Ready
  <2> QED
    BY <1>1, <2>2, <2>3, OtherStep DEF TypeOK, Row
<1>10. CASE ForeignEnds
  <2>1. /\ row' \in [Jobs -> Row]
        /\ \A i \in Jobs : row'[i].attempts >= row[i].attempts
    <3>1. row \in [Jobs -> Row]
      BY <1>1 DEF TypeOK
    <3>2. CASE row' = row
      BY <3>1, <3>2 DEF Row
    <3>3. CASE row' = [j \in Jobs |-> IF j \in foreign.locked THEN Claimed(row[j]) ELSE row[j]]
      BY <1>1, <3>3, ClaimedRows
    <3> QED
      BY <1>10, <3>2, <3>3 DEF ForeignEnds
  <2>2. live' = live /\ poll' = poll /\ foreign' = [foreign EXCEPT !.locked = {}]
    BY <1>10 DEF ForeignEnds
  <2>3. TypeOK'
    BY <1>1, <2>1, <2>2 DEF TypeOK
  <2> QED
    BY <2>1, <2>2, <2>3, OtherStep
<1> QED
  BY <1>7, <1>8, <1>9, <1>10

\* The headroom snapshot leaves room for the tasks there are.
LEMMA PollTickStep ==
  ASSUME ClaimInv, PollTick
  PROVE  ClaimInv'
<1>1. TypeOK /\ AttemptInv /\ HeadroomInv /\ KeyLimitHolds /\ (poll.pc # "spawn" => poll.batch = {})
  BY DEF ClaimInv
<1>2. PICK want, room :
        /\ want = Min({Free, BatchSize}) /\ room = Headroom
        /\ poll' = [pc |-> "send", want |-> want, headroom |-> room, ids |-> {}, batch |-> {}]
        /\ row' = row /\ live' = live /\ foreign' = foreign
  BY DEF PollTick
<1>3. IsFiniteSet(live) /\ Cardinality(live) \in Nat
  BY <1>1, FS_CardinalityType DEF TypeOK
<1>4. want \in Nat
  <2>1. Free \in Int /\ Free > 0 /\ BatchSize \in Nat
    BY <1>3, KeyAssumption DEF PollTick, Free, KeyAssumption
  <2> QED
    BY <1>2, <2>1, MinOfTwo
<1>5. ASSUME NEW k \in DOMAIN Limit
      PROVE  /\ room[k] \in Nat /\ Tasks(k) \in Nat /\ Limit[k] \in Nat
             /\ Tasks(k) + room[k] <= Limit[k] /\ Tasks(k) <= Limit[k]
  <2>1. Tasks(k) \in Nat
    BY <1>3, FewerTasks DEF Tasks
  <2>2. Limit[k] \in Nat
    BY KeyAssumption DEF KeyAssumption
  <2>3. poll.batch = {}
    BY <1>1 DEF PollTick
  <2>4. Cardinality(OfKey(poll.batch, k)) \in Nat
    BY <2>3, FS_EmptySet, FewerTasks
  <2>5. Tasks(k) <= Limit[k]
    BY <1>1, <2>1, <2>2, <2>4 DEF KeyLimitHolds
  <2>6. room[k] = Max({Limit[k] - Tasks(k), 0})
    BY <1>2 DEF Headroom
  <2> QED
    BY <2>1, <2>2, <2>5, <2>6, MaxOfTwo
<1>6. room \in [DOMAIN Limit -> Nat]
  <2>1. room = [k \in DOMAIN Limit |-> room[k]]
    BY <1>2 DEF Headroom
  <2> QED
    BY <1>5, <2>1
<1>7. TypeOK'
  BY <1>1, <1>2, <1>4, <1>6, FS_EmptySet DEF TypeOK
<1>8. AttemptInv'
  BY <1>1, <1>2 DEF AttemptInv
<1>9. \A k : Tasks(k)' = Tasks(k)
  BY <1>2 DEF Tasks
<1>10. HeadroomInv'
  BY <1>2, <1>5, <1>9 DEF HeadroomInv
<1>11. KeyLimitHolds'
  BY <1>2, <1>5, <1>9, NoBatch DEF KeyLimitHolds
<1> QED
  BY <1>2, <1>7, <1>8, <1>10, <1>11 DEF ClaimInv

\* Ranking takes no more rows of a key than the headroom.
LEMMA RankStep ==
  ASSUME ClaimInv, Rank
  PROVE  ClaimInv'
<1>1. TypeOK /\ AttemptInv /\ HeadroomInv /\ KeyLimitHolds /\ (poll.pc # "spawn" => poll.batch = {})
  BY DEF ClaimInv
<1>2. PICK ids : ids = Ranked(poll.headroom, poll.want)
  OBVIOUS
<1>3. /\ poll.pc = "send" /\ poll' = [poll EXCEPT !.pc = "rank", !.ids = ids]
      /\ row' = row /\ live' = live /\ foreign' = foreign
  BY <1>2 DEF Rank
<1>4. ids \subseteq Jobs
  BY <1>2 DEF Ranked, First, Keyed, Unlimited, Ready
<1>5. /\ poll' \in [pc : {"idle", "send", "rank", "spawn"}, want : Nat,
                   headroom : [DOMAIN Limit -> Nat], ids : SUBSET Jobs, batch : SUBSET (Jobs \X Nat)]
      /\ poll'.pc = "rank" /\ poll'.ids = ids /\ poll'.headroom = poll.headroom
      /\ poll'.batch = poll.batch
  BY <1>1, <1>3, <1>4 DEF TypeOK
<1>6. TypeOK'
  BY <1>1, <1>3, <1>5 DEF TypeOK
<1>7. AttemptInv'
  BY <1>1, <1>3, <1>5 DEF AttemptInv
<1>8. \A k : Tasks(k)' = Tasks(k)
  BY <1>3 DEF Tasks
<1>9. HeadroomInv'
  <2>1. ASSUME NEW k \in DOMAIN Limit
        PROVE  Cardinality({j \in ids : KeyOf[j] = k}) <= poll.headroom[k]
    BY <1>1, <1>2, RankedWithinHeadroom DEF TypeOK
  <2> QED
    BY <1>1, <1>3, <1>5, <1>8, <2>1 DEF HeadroomInv
<1>10. KeyLimitHolds'
  BY <1>1, <1>5, <1>8 DEF KeyLimitHolds
<1> QED
  BY <1>1, <1>3, <1>5, <1>6, <1>7, <1>9, <1>10 DEF ClaimInv

\* Locking claims some of the ranked rows, each for an attempt of its own.
LEMMA LockStep ==
  ASSUME ClaimInv, Lock
  PROVE  ClaimInv'
<1>1. TypeOK /\ AttemptInv /\ HeadroomInv /\ KeyLimitHolds /\ (poll.pc # "spawn" => poll.batch = {})
  BY DEF ClaimInv
<1>2. PICK ids : ids = Locked(poll.ids, poll.want, foreign.locked)
  OBVIOUS
<1>3. PICK batch : batch = {<<j, row[j].attempts + 1>> : j \in ids}
  OBVIOUS
<1>4. /\ poll.pc = "rank" /\ live' = live /\ foreign' = foreign
      /\ row' = [j \in Jobs |-> IF j \in ids THEN Claimed(row[j]) ELSE row[j]]
      /\ poll' = [poll EXCEPT !.pc = "spawn", !.ids = {}, !.batch = batch]
  BY <1>2, <1>3 DEF Lock
<1>5. ids \subseteq poll.ids /\ ids \subseteq Jobs
  BY <1>1, <1>2 DEF Locked, First, TypeOK
<1>6. /\ row' \in [Jobs -> Row]
      /\ \A j \in Jobs : /\ row'[j].attempts >= row[j].attempts
                         /\ j \in ids => row'[j].attempts = row[j].attempts + 1
  BY <1>1, <1>4, ClaimedRows
<1>7. \A j \in Jobs : row[j].attempts \in Nat /\ row'[j].attempts \in Nat
  BY <1>1, <1>6 DEF TypeOK, Row
<1>8. IsFiniteSet(ids) /\ IsFiniteSet(poll.ids)
  <2>1. IsFiniteSet(Jobs) /\ poll.ids \subseteq Jobs
    BY <1>1, KeyAssumption DEF TypeOK, KeyAssumption
  <2> QED
    BY <1>5, <2>1, FS_Subset
<1>9. PICK attempt : attempt = [j \in Jobs |-> row[j].attempts + 1]
  OBVIOUS
<1>10. \A t \in batch : t[1] \in ids /\ t = <<t[1], attempt[t[1]]>>
  BY <1>3, <1>5, <1>9
<1>11. /\ IsFiniteSet(batch)
       /\ \A k : Cardinality(OfKey(batch, k)) <= Cardinality({j \in ids : KeyOf[j] = k})
  <2>1. ASSUME NEW k
        PROVE  /\ IsFiniteSet(batch)
               /\ Cardinality(OfKey(batch, k)) <= Cardinality({j \in ids : KeyOf[j] = k})
    BY <1>8, <1>10, OneTaskPerRow
  <2> QED
    BY <2>1
<1>12. \A t \in batch : t \in Jobs \X Nat /\ t[2] = row[t[1]].attempts + 1 /\ t[1] \in ids
  BY <1>3, <1>5, <1>7
<1>13. /\ poll' \in [pc : {"idle", "send", "rank", "spawn"}, want : Nat,
                    headroom : [DOMAIN Limit -> Nat], ids : SUBSET Jobs, batch : SUBSET (Jobs \X Nat)]
       /\ poll'.pc = "spawn" /\ poll'.batch = batch
  BY <1>1, <1>4, <1>12 DEF TypeOK
<1>14. TypeOK'
  BY <1>1, <1>4, <1>6, <1>11, <1>13 DEF TypeOK
<1>15. AttemptInv'
  <2>1. ASSUME NEW t \in live PROVE t \in Jobs \X Nat /\ t[2] <= row[t[1]].attempts
    BY <1>1 DEF AttemptInv, TypeOK
  <2>2. ASSUME NEW t \in live PROVE t \notin batch /\ t[2] <= row'[t[1]].attempts
    <3>1. t[1] \in Jobs /\ t[2] \in Nat /\ t[2] <= row[t[1]].attempts
      BY <2>1
    <3>2. t[2] # row[t[1]].attempts + 1 /\ t[2] <= row'[t[1]].attempts
      BY <1>6, <1>7, <3>1
    <3> QED
      BY <1>12, <3>2
  <2>3. ASSUME NEW t \in batch PROVE t[2] <= row'[t[1]].attempts
    <3>1. t[1] \in Jobs /\ t[1] \in ids /\ t[2] = row[t[1]].attempts + 1
      BY <1>5, <1>12
    <3>2. row'[t[1]].attempts = row[t[1]].attempts + 1 /\ row'[t[1]].attempts \in Nat
      BY <1>6, <1>7, <3>1
    <3> QED
      BY <3>1, <3>2
  <2> QED
    BY <1>4, <1>13, <2>2, <2>3 DEF AttemptInv
<1>16. HeadroomInv'
  BY <1>13 DEF HeadroomInv
<1>17. KeyLimitHolds'
  <2> SUFFICES ASSUME NEW k \in DOMAIN Limit
               PROVE  Tasks(k)' + Cardinality(OfKey(poll'.batch, k)) <= Limit[k]
    BY DEF KeyLimitHolds
  <2>1. Tasks(k)' = Tasks(k) /\ Tasks(k) \in Nat
    BY <1>1, <1>4, FewerTasks DEF Tasks, TypeOK
  <2>2. PICK ofKey : ofKey = {j \in ids : KeyOf[j] = k}
    OBVIOUS
  <2>3. PICK ranked : ranked = {j \in poll.ids : KeyOf[j] = k}
    OBVIOUS
  <2>4. /\ Cardinality(OfKey(batch, k)) <= Cardinality(ofKey)
        /\ Cardinality(OfKey(batch, k)) \in Nat
    BY <1>11, <2>2, FewerTasks
  <2>5. IsFiniteSet(ranked) /\ ofKey \subseteq ranked
    BY <1>5, <1>8, <2>2, <2>3, FS_Subset
  <2>6. /\ Cardinality(ofKey) <= Cardinality(ranked)
        /\ Cardinality(ofKey) \in Nat /\ Cardinality(ranked) \in Nat
    BY <2>5, FS_Subset, FS_CardinalityType
  <2>7. Cardinality(ranked) <= poll.headroom[k] /\ Tasks(k) + poll.headroom[k] <= Limit[k]
    BY <1>1, <1>4, <2>3 DEF HeadroomInv
  <2>8. poll.headroom[k] \in Nat /\ Limit[k] \in Nat
    BY <1>1, KeyAssumption DEF TypeOK, KeyAssumption
  <2> QED
    BY <1>13, <2>1, <2>4, <2>6, <2>7, <2>8
<1> QED
  BY <1>13, <1>14, <1>15, <1>16, <1>17 DEF ClaimInv

\* The batch becomes tasks, or the claim fails or its reply is lost.
LEMMA SpawnStep ==
  ASSUME ClaimInv, Spawn \/ ClaimFails
  PROVE  ClaimInv'
<1>1. TypeOK /\ AttemptInv /\ HeadroomInv /\ KeyLimitHolds /\ (poll.pc # "spawn" => poll.batch = {})
  BY DEF ClaimInv
<1>2. /\ poll' = Idle /\ row' = row /\ foreign' = foreign
      /\ live' = live \/ live' = live \cup poll.batch
  BY DEF Spawn, ClaimFails
<1>3. IsFiniteSet(live) /\ IsFiniteSet(poll.batch) /\ IsFiniteSet(live')
  <2>1. IsFiniteSet(live) /\ IsFiniteSet(poll.batch)
    BY <1>1 DEF TypeOK
  <2>2. IsFiniteSet(live \cup poll.batch)
    BY <2>1, FS_Union
  <2> QED
    BY <1>2, <2>1, <2>2
<1>4. poll'.pc = "idle" /\ poll'.batch = {}
  BY <1>2 DEF Idle
<1>5. TypeOK'
  <2>1. NoHeadroom \in [DOMAIN Limit -> Nat]
    BY DEF NoHeadroom
  <2>2. poll' \in [pc : {"idle", "send", "rank", "spawn"}, want : Nat,
                  headroom : [DOMAIN Limit -> Nat], ids : SUBSET Jobs, batch : SUBSET (Jobs \X Nat)]
    BY <1>2, <2>1 DEF Idle
  <2>3. IsFiniteSet(poll'.batch) /\ live' \subseteq Jobs \X Nat
    BY <1>1, <1>2, <1>4, FS_EmptySet DEF TypeOK
  <2> QED
    BY <1>1, <1>2, <1>3, <2>2, <2>3 DEF TypeOK
<1>6. AttemptInv'
  BY <1>1, <1>2, <1>4 DEF AttemptInv
<1>7. HeadroomInv'
  BY <1>4 DEF HeadroomInv
<1>8. KeyLimitHolds'
  <2> SUFFICES ASSUME NEW k \in DOMAIN Limit
               PROVE  Tasks(k)' + Cardinality(OfKey(poll'.batch, k)) <= Limit[k]
    BY DEF KeyLimitHolds
  <2>1. /\ Cardinality(OfKey(live', k)) \in Nat /\ Cardinality(OfKey(live, k)) \in Nat
        /\ Cardinality(OfKey(poll.batch, k)) \in Nat
    BY <1>3, FewerTasks
  <2>2. Cardinality(OfKey(live', k))
          <= Cardinality(OfKey(live, k)) + Cardinality(OfKey(poll.batch, k))
    BY <1>2, <1>3, <2>1, MoreTasks
  <2>3. Cardinality(OfKey(live, k)) + Cardinality(OfKey(poll.batch, k)) <= Limit[k]
    BY <1>1 DEF KeyLimitHolds, Tasks
  <2>4. Limit[k] \in Nat
    BY KeyAssumption DEF KeyAssumption
  <2>5. Cardinality(OfKey(poll'.batch, k)) = 0
    BY <1>4, NoBatch
  <2> QED
    BY <2>1, <2>2, <2>3, <2>4, <2>5 DEF Tasks
<1> QED
  BY <1>4, <1>5, <1>6, <1>7, <1>8 DEF ClaimInv

-----------------------------------------------------------------------------

\* Headroom, ranking, locking and spawning fit together: see ClaimInv.
THEOREM ClaimInvariance == Spec => []ClaimInv
<1>1. Init => ClaimInv
  <2> SUFFICES ASSUME Init PROVE ClaimInv
    OBVIOUS
  <2>1. live = {} /\ poll = Idle /\ poll.pc = "idle" /\ poll.batch = {}
    BY DEF Init, Idle
  <2>2. row \in [Jobs -> Row]
    <3>1. PICK at \in [Jobs -> RunAts] :
            row = [j \in Jobs |-> [status |-> "ready", run_at |-> at[j], attempts |-> 0]]
      BY DEF Init
    <3>2. ASSUME NEW j \in Jobs
          PROVE  [status |-> "ready", run_at |-> at[j], attempts |-> 0] \in Row
      <4>1. at[j] \in Nat
        BY KeyAssumption DEF KeyAssumption
      <4> QED
        BY <4>1 DEF Row
    <3> QED
      BY <3>1, <3>2
  <2>3. TypeOK
    <3>1. NoHeadroom \in [DOMAIN Limit -> Nat]
      BY DEF NoHeadroom
    <3>2. poll \in [pc : {"idle", "send", "rank", "spawn"}, want : Nat,
                   headroom : [DOMAIN Limit -> Nat], ids : SUBSET Jobs,
                   batch : SUBSET (Jobs \X Nat)]
      BY <2>1, <3>1 DEF Idle
    <3>3. foreign \in [locked : SUBSET Jobs, count : Nat]
      BY DEF Init
    <3>4. IsFiniteSet(live) /\ IsFiniteSet(poll.batch) /\ live \subseteq Jobs \X Nat
      BY <2>1, FS_EmptySet
    <3> QED
      BY <2>2, <3>2, <3>3, <3>4 DEF TypeOK
  <2>4. ASSUME NEW k \in DOMAIN Limit
        PROVE  Tasks(k) + Cardinality(OfKey(poll.batch, k)) <= Limit[k]
    <3>1. Tasks(k) = 0 /\ Cardinality(OfKey(poll.batch, k)) = 0 /\ Limit[k] \in Nat
      BY <2>1, NoBatch, KeyAssumption DEF Tasks, KeyAssumption
    <3> QED
      BY <3>1
  <2> QED
    BY <2>1, <2>3, <2>4 DEF ClaimInv, AttemptInv, HeadroomInv, KeyLimitHolds
<1>2. ASSUME ClaimInv, [Next]_vars PROVE ClaimInv'
  <2>1. CASE UNCHANGED vars
    BY <1>2, <2>1 DEF vars, ClaimInv, TypeOK, AttemptInv, HeadroomInv, KeyLimitHolds, Tasks
  <2> QED
    BY <1>2, <2>1, PollTickStep, RankStep, LockStep, SpawnStep, TableStep DEF Next, Poll
<1> QED
  BY <1>1, <1>2, PTL DEF Spec

\* concurrency_limits from the table to the task: no key exceeds its limit, although its
\* headroom is read, its rows ranked, locked and spawned at different moments, for any number
\* of rows, keys, permits and competing transactions.
THEOREM LimitHolds == Spec => []KeyLimitHolds
<1>1. ClaimInv => KeyLimitHolds
  BY DEF ClaimInv
<1> QED
  BY <1>1, ClaimInvariance, PTL

-----------------------------------------------------------------------------
\* The selection: two stages against one pass.

\* Of the rows of a set, one is ranked lowest.
LEMMA Lowest ==
  ASSUME NEW T, T # {}, NEW rank, \A j \in T : rank[j] \in Nat
  PROVE  \E m \in T : \A j \in T : rank[m] <= rank[j]
<1>1. PICK ranks : ranks = {rank[j] : j \in T}
  OBVIOUS
<1>2. ranks \in SUBSET Nat /\ ranks # {}
  BY <1>1
<1>3. PICK x \in ranks : \A y \in ranks : ~(<<y, x>> \in OpToRel(<, Nat))
  BY <1>2, NatLessThanWellFounded, WFMin
<1>4. PICK m \in T : x = rank[m]
  BY <1>1, <1>3
<1>5. ASSUME NEW j \in T PROVE rank[m] <= rank[j]
  <2>1. PICK y \in ranks : y = rank[j]
    BY <1>1
  <2>2. ASSUME y < x PROVE FALSE
    <3>1. <<y, x>> \in OpToRel(<, Nat)
      BY <1>2, <1>3, <2>1, <2>2 DEF OpToRel
    <3> QED
      BY <1>3, <3>1
  <2>3. ~(y < x) /\ y \in Nat /\ x \in Nat
    BY <1>2, <2>2
  <2> QED
    BY <1>4, <2>1, <2>3
<1> QED
  BY <1>4, <1>5

\* A row that LIMIT n cuts off has n rows before it that are let through.
LEMMA CutOff ==
  ASSUME TypeOK, NEW S \in SUBSET Jobs, NEW n \in Nat, NEW j \in S, j \notin First(S, n)
  PROVE  n <= Cardinality(Below(First(S, n), j))
<1>1. PICK T : T = First(S, n)
  OBVIOUS
<1>2. T \subseteq S /\ \A x \in S : x \in T <=> Cardinality(Below(S, x)) < n
  BY <1>1 DEF First, Below
<1>3. \A x \in S : Cardinality(Below(S, x)) \in Nat
  BY LaterHasMore
<1>4. PICK rank : rank = [x \in S \ T |-> Cardinality(Below(S, x))]
  OBVIOUS
<1>5. \A x \in S \ T : rank[x] = Cardinality(Below(S, x)) /\ rank[x] \in Nat
  BY <1>3, <1>4
<1>6. PICK m \in S \ T : \A x \in S \ T : rank[m] <= rank[x]
  BY <1>1, <1>5, Lowest
<1>7. m = j \/ Before(m, j)
  <2>1. ASSUME Before(j, m) PROVE FALSE
    <3>1. rank[j] < rank[m]
      BY <1>1, <1>5, <2>1, LaterHasMore
    <3> QED
      BY <1>1, <1>5, <1>6, <3>1
  <2> QED
    BY <2>1, TotalOrder
<1>8. Below(S, m) \subseteq Below(T, j)
  <2> SUFFICES ASSUME NEW i \in Below(S, m) PROVE i \in Below(T, j)
    OBVIOUS
  <2>1. i \in S /\ i \in Jobs /\ Before(i, m)
    BY DEF Below
  <2>2. i \in T
    <3>1. ASSUME i \notin T PROVE FALSE
      <4>1. rank[i] < rank[m]
        BY <1>5, <2>1, <3>1, LaterHasMore
      <4>2. rank[m] <= rank[i]
        BY <1>6, <2>1, <3>1
      <4> QED
        BY <1>5, <2>1, <3>1, <4>1, <4>2
    <3> QED
      BY <3>1
  <2>3. Before(i, j)
    BY <1>7, <2>1, TotalOrder
  <2> QED
    BY <2>2, <2>3 DEF Below
<1>9. Cardinality(Below(S, m)) <= Cardinality(Below(T, j)) /\ Cardinality(Below(T, j)) \in Nat
  <2>1. Below(T, j) \subseteq Jobs /\ IsFiniteSet(Jobs)
    BY <1>2, KeyAssumption DEF KeyAssumption, Below
  <2>2. IsFiniteSet(Below(T, j))
    BY <2>1, FS_Subset
  <2> QED
    BY <1>8, <2>2, FS_Subset, FS_CardinalityType
<1>10. ~(Cardinality(Below(S, m)) < n)
  BY <1>2, <1>6
<1> QED
  BY <1>1, <1>3, <1>6, <1>9, <1>10

\* What SQL_KEYED ranks: a row of a limited key by its key, any other by the batch.
LEMMA RankedRow ==
  ASSUME NEW h, NEW want, NEW j
  PROVE  /\ Ranked(h, want) \subseteq Ready
         /\ KeyOf[j] \in DOMAIN h =>
              (j \in Ranked(h, want) <=> j \in First(Keyed(KeyOf[j]), Min({h[KeyOf[j]], want})))
         /\ KeyOf[j] \notin DOMAIN h => (j \in Ranked(h, want) <=> j \in First(Unlimited(h), want))
<1> DEFINE F(k) == First(Keyed(k), Min({h[k], want}))
           U == First(Unlimited(h), want)
<1>1. \A k : \A i \in F(k) : i \in Ready /\ KeyOf[i] = k
  BY DEF First, Keyed
<1>2. \A i \in U : i \in Ready /\ KeyOf[i] \notin DOMAIN h
  BY DEF First, Unlimited
<1>3. Ranked(h, want) = (UNION {F(k) : k \in DOMAIN h}) \cup U
  BY DEF Ranked
<1> HIDE DEF F, U
<1>4. \A i : i \in Ranked(h, want) <=> (\E k \in DOMAIN h : i \in F(k)) \/ i \in U
  BY <1>3
<1>5. Ranked(h, want) \subseteq Ready
  BY <1>1, <1>2, <1>4
<1>6. KeyOf[j] \in DOMAIN h => (j \in Ranked(h, want) <=> j \in F(KeyOf[j]))
  BY <1>1, <1>2, <1>4
<1>7. KeyOf[j] \notin DOMAIN h => (j \in Ranked(h, want) <=> j \in U)
  BY <1>1, <1>4
<1> QED
  BY <1>5, <1>6, <1>7 DEF F, U

\* Rows of the table are finitely many.
LEMMA Rows ==
  ASSUME NEW S \in SUBSET Jobs
  PROVE  /\ IsFiniteSet(S) /\ Cardinality(S) \in Nat
         /\ \A T \in SUBSET S : Cardinality(T) \in Nat /\ Cardinality(T) <= Cardinality(S)
<1>1. IsFiniteSet(S)
  BY KeyAssumption, FS_Subset DEF KeyAssumption
<1> QED
  BY <1>1, FS_Subset, FS_CardinalityType

\* A row that is selected is one that the walk admits after the selected rows before it.
LEMMA SelectedIsAdmitted ==
  ASSUME TypeOK, NEW h \in [DOMAIN Limit -> Nat], NEW want \in Nat, NEW j \in Ready,
         j \in First(Ranked(h, want), want)
  PROVE  Admits(Below(First(Ranked(h, want), want), j), j, h, want)
<1>1. PICK R : R = Ranked(h, want)
  OBVIOUS
<1>2. PICK G : G = First(R, want)
  OBVIOUS
<1>3. R \subseteq Ready /\ Ready \subseteq Jobs /\ G \subseteq R
  BY <1>1, <1>2, RankedRow DEF Ready, First
<1>4. j \in R /\ Cardinality(Below(R, j)) < want
  BY <1>1, <1>2 DEF First, Below
<1>5. Cardinality(Below(G, j)) < want
  <2>1. Below(R, j) \in SUBSET Jobs /\ Below(G, j) \in SUBSET Below(R, j)
    BY <1>3 DEF Below
  <2> QED
    BY <1>4, <2>1, Rows
<1>6. ASSUME KeyOf[j] \in DOMAIN h
      PROVE  Cardinality({i \in Below(G, j) : KeyOf[i] = KeyOf[j]}) < h[KeyOf[j]]
  <2>1. PICK k \in DOMAIN Limit : k = KeyOf[j] /\ h[k] \in Nat
    BY <1>6
  <2>2. PICK m : m = Min({h[k], want})
    OBVIOUS
  <2>3. m \in Nat /\ m <= h[k]
    BY <2>1, <2>2, MinOfTwo
  <2>4. j \in First(Keyed(k), m)
    BY <1>1, <1>4, <1>6, <2>1, <2>2, RankedRow
  <2>5. Cardinality(Below(Keyed(k), j)) < m
    BY <2>4 DEF First, Below
  <2>6. PICK T : T = {i \in Below(G, j) : KeyOf[i] = k}
    OBVIOUS
  <2>7. T \in SUBSET Below(Keyed(k), j) /\ Below(Keyed(k), j) \in SUBSET Jobs
    BY <1>3, <2>6 DEF Below, Keyed
  <2>8. Cardinality(T) < h[k]
    BY <2>1, <2>3, <2>5, <2>7, Rows
  <2> QED
    BY <2>1, <2>6, <2>8
<1> QED
  BY <1>1, <1>2, <1>5, <1>6 DEF Admits

\* And a row that the walk admits is selected.
LEMMA AdmittedIsSelected ==
  ASSUME TypeOK, NEW h \in [DOMAIN Limit -> Nat], NEW want \in Nat, NEW j \in Ready,
         Admits(Below(First(Ranked(h, want), want), j), j, h, want)
  PROVE  j \in First(Ranked(h, want), want)
<1>1. PICK R : R = Ranked(h, want)
  OBVIOUS
<1>2. PICK G : G = First(R, want)
  OBVIOUS
<1>3. R \subseteq Ready /\ Ready \subseteq Jobs /\ G \subseteq R
  BY <1>1, <1>2, RankedRow DEF Ready, First
<1>4. Cardinality(Below(G, j)) < want
  BY <1>1, <1>2 DEF Admits
<1>5. Below(G, j) \in SUBSET Jobs /\ Cardinality(Below(G, j)) \in Nat
  <2>1. Below(G, j) \in SUBSET Jobs
    BY <1>3 DEF Below
  <2> QED
    BY <2>1, Rows
<1>6. Below(R, j) = Below(G, j)
  <2>1. ASSUME NEW i \in R, Before(i, j), i \notin G PROVE FALSE
    <3>1. want <= Cardinality(Below(G, i))
      BY <1>2, <1>3, <2>1, CutOff
    <3>2. Below(G, i) \in SUBSET Below(G, j)
      <4> SUFFICES ASSUME NEW l \in Below(G, i) PROVE l \in Below(G, j)
        OBVIOUS
      <4>1. l \in G /\ l \in Jobs /\ i \in Jobs /\ j \in Jobs /\ Before(l, i)
        BY <1>3 DEF Below
      <4>2. Before(l, j)
        BY <2>1, <4>1, TotalOrder
      <4> QED
        BY <4>1, <4>2 DEF Below
    <3> QED
      BY <1>4, <1>5, <3>1, <3>2, Rows
  <2> QED
    BY <1>3, <2>1 DEF Below
<1>7. ASSUME KeyOf[j] \notin DOMAIN h PROVE j \in R
  <2>1. PICK F : F = First(Unlimited(h), want)
    OBVIOUS
  <2>2. j \in Unlimited(h) /\ Unlimited(h) \in SUBSET Jobs
    BY <1>3, <1>7 DEF Unlimited
  <2>3. F \subseteq R
    <3> SUFFICES ASSUME NEW i \in F PROVE i \in R
      OBVIOUS
    <3>1. KeyOf[i] \notin DOMAIN h
      BY <2>1 DEF First, Unlimited
    <3> QED
      BY <1>1, <2>1, <3>1, RankedRow
  <2>4. ASSUME j \notin F PROVE FALSE
    <3>1. want <= Cardinality(Below(F, j))
      BY <2>1, <2>2, <2>4, CutOff
    <3>2. Below(F, j) \in SUBSET Below(G, j)
      BY <1>6, <2>3 DEF Below
    <3> QED
      BY <1>4, <1>5, <3>1, <3>2, Rows
  <2> QED
    BY <1>1, <1>7, <2>1, <2>4, RankedRow
<1>8. ASSUME KeyOf[j] \in DOMAIN h PROVE j \in R
  <2>1. PICK k \in DOMAIN Limit : k = KeyOf[j] /\ h[k] \in Nat
    BY <1>8
  <2>2. PICK m : m = Min({h[k], want})
    OBVIOUS
  <2>3. m \in Nat /\ (m = h[k] \/ m = want)
    BY <2>1, <2>2, MinOfTwo
  <2>4. PICK F : F = First(Keyed(k), m)
    OBVIOUS
  <2>5. j \in Keyed(k) /\ Keyed(k) \in SUBSET Jobs
    BY <1>3, <2>1 DEF Keyed
  <2>6. ASSUME NEW i \in F PROVE i \in R /\ KeyOf[i] = k
    <3>1. KeyOf[i] = k
      BY <2>4 DEF First, Keyed
    <3>2. KeyOf[i] \in DOMAIN h
      BY <1>8, <2>1, <3>1
    <3> QED
      BY <1>1, <2>2, <2>4, <3>1, <3>2, RankedRow
  <2>7. PICK T : T = {i \in Below(G, j) : KeyOf[i] = k}
    OBVIOUS
  <2>8. Cardinality(T) < h[k]
    BY <1>1, <1>2, <1>8, <2>1, <2>7 DEF Admits
  <2>9. T \in SUBSET Below(G, j) /\ T \in SUBSET Jobs
    BY <1>5, <2>7
  <2>10. Cardinality(T) \in Nat /\ Cardinality(T) < want
    BY <1>4, <1>5, <2>9, Rows
  <2>11. ASSUME j \notin F PROVE FALSE
    <3>1. m <= Cardinality(Below(F, j))
      BY <2>3, <2>4, <2>5, <2>11, CutOff
    <3>2. Below(F, j) \in SUBSET T
      BY <1>6, <2>6, <2>7 DEF Below
    <3>3. Cardinality(Below(F, j)) \in Nat /\ Cardinality(Below(F, j)) <= Cardinality(T)
      BY <2>9, <3>2, Rows
    <3> QED
      BY <2>1, <2>3, <2>8, <2>10, <3>1, <3>3
  <2> QED
    BY <1>1, <1>8, <2>1, <2>2, <2>4, <2>11, RankedRow
<1>9. j \in R
  BY <1>7, <1>8
<1> QED
  BY <1>1, <1>2, <1>4, <1>6, <1>9 DEF First, Below

\* Induction, on a set of natural numbers.
LEMMA SetInduction ==
  ASSUME NEW T \in SUBSET Nat, 0 \in T, \A n \in T : n + 1 \in T
  PROVE  T = Nat
<1> SUFFICES ASSUME Nat \ T # {} PROVE FALSE
  OBVIOUS
<1>1. PICK rest : rest = Nat \ T
  OBVIOUS
<1>2. PICK id : id = [n \in rest |-> n]
  OBVIOUS
<1>3. \A n \in rest : id[n] = n /\ id[n] \in Nat
  BY <1>1, <1>2
<1>4. PICK m \in rest : \A n \in rest : id[m] <= id[n]
  BY <1>1, <1>3, Lowest
<1>5. \A n \in rest : m <= n
  BY <1>3, <1>4
<1>6. m \in Nat /\ m # 0 /\ m - 1 \notin rest
  BY <1>1, <1>4, <1>5
<1> QED
  BY <1>1, <1>4, <1>6

\* What the walk has taken when it comes to position n is what is selected of the rows
\* before that position.
LEMMA WalkStep ==
  ASSUME TypeOK, NEW h \in [DOMAIN Limit -> Nat], NEW want \in Nat, NEW G,
         G = First(Ranked(h, want), want), NEW n \in Nat
  PROVE  WalkTo({i \in G : Position(i) < n}, n, h, want) = {i \in G : Position(i) < n + 1}
<1>1. G \subseteq Ready /\ Ready \in SUBSET Jobs
  BY RankedRow DEF Ready, First
<1>2. \A i \in Ready : Position(i) \in Nat /\ Position(i) = Cardinality(Below(Ready, i))
  BY <1>1, LaterHasMore DEF Position, Below
<1>3. PICK S : S = {i \in G : Position(i) < n}
  OBVIOUS
<1>4. ASSUME NEW j \in Ready, Position(j) = n PROVE j \in G <=> Admits(S, j, h, want)
  <2>1. S = Below(G, j)
    <3>1. \A i \in G : Position(i) < n <=> Before(i, j)
      BY <1>1, <1>2, <1>4, LaterHasMore
    <3> QED
      BY <1>3, <3>1 DEF Below
  <2> QED
    BY <2>1, SelectedIsAdmitted, AdmittedIsSelected
<1>5. PICK L : L = {j \in Ready : Position(j) = n /\ Admits(S, j, h, want)}
  OBVIOUS
<1>6. L = {j \in G : Position(j) = n}
  BY <1>1, <1>4, <1>5
<1>7. S \cup L = {i \in G : Position(i) < n + 1}
  BY <1>1, <1>2, <1>3, <1>6
<1> QED
  BY <1>3, <1>5, <1>7 DEF WalkTo

\* The walk ends with exactly the rows that the two stages select.
LEMMA WalkSelects ==
  ASSUME TypeOK, NEW h \in [DOMAIN Limit -> Nat], NEW want \in Nat
  PROVE  Greedy(h, want) = First(Ranked(h, want), want)
<1> DEFINE Body(f) == [n \in Nat |-> IF n = 0 THEN {} ELSE WalkTo(f[n - 1], n - 1, h, want)]
           walk == CHOOSE f : f = Body(f)
<1>1. PICK G : G = First(Ranked(h, want), want)
  OBVIOUS
<1>2. G \subseteq Ready /\ Ready \in SUBSET Jobs
  BY <1>1, RankedRow DEF Ready, First
<1>3. \A i \in G : Position(i) \in Nat
  BY <1>2, LaterHasMore DEF Position, Below
<1>4. PICK W : W = [n \in Nat |-> {i \in G : Position(i) < n}]
  OBVIOUS
<1>5. ASSUME NEW n \in Nat PROVE W[n] = IF n = 0 THEN {} ELSE WalkTo(W[n - 1], n - 1, h, want)
  <2>1. CASE n = 0
    BY <1>3, <1>4, <2>1
  <2>2. CASE n # 0
    <3>1. PICK m \in Nat : m = n - 1 /\ n = m + 1
      BY <2>2
    <3>2. W[m] = {i \in G : Position(i) < m} /\ W[n] = {i \in G : Position(i) < m + 1}
      BY <1>4, <3>1
    <3>3. W[n] = WalkTo(W[m], m, h, want)
      BY <1>1, <3>2, WalkStep
    <3> QED
      BY <2>2, <3>1, <3>3, Zenon
  <2> QED
    BY <2>1, <2>2
<1>6. W = Body(W)
  <2>1. W = [n \in Nat |-> W[n]]
    BY <1>4
  <2> QED
    BY <1>5, <2>1
<1>7. walk = Body(walk)
  <2> HIDE DEF Body
  <2> QED
    BY <1>6, Zenon
<1>8. Greedy(h, want) = walk[Cardinality(Ready)]
  BY DEF Greedy
<1> HIDE DEF walk
<1>9. ASSUME NEW n \in Nat
      PROVE  walk[n] = IF n = 0 THEN {} ELSE WalkTo(walk[n - 1], n - 1, h, want)
  BY <1>7
<1>10. \A n \in Nat : walk[n] = W[n]
  <2>1. PICK T : T = {n \in Nat : walk[n] = W[n]}
    OBVIOUS
  <2>2. 0 \in T
    BY <1>5, <1>9, <2>1
  <2>3. ASSUME NEW n \in T PROVE n + 1 \in T
    <3>1. n \in Nat /\ walk[n] = W[n]
      BY <2>1
    <3>2. PICK l \in Nat : l = n + 1 /\ l # 0 /\ l - 1 = n
      BY <3>1
    <3>3. walk[l] = WalkTo(walk[l - 1], l - 1, h, want)
      BY <1>9, <3>2
    <3>4. W[l] = WalkTo(W[l - 1], l - 1, h, want)
      BY <1>5, <3>2
    <3>5. walk[l] = W[l]
      BY <3>1, <3>2, <3>3, <3>4, Zenon
    <3> QED
      BY <2>1, <3>2, <3>5
  <2>4. T = Nat
    BY <2>1, <2>2, <2>3, SetInduction
  <2> QED
    BY <2>1, <2>4
<1>11. PICK size : size = Cardinality(Ready) /\ size \in Nat
  BY <1>2, Rows
<1>12. ASSUME NEW i \in G PROVE Position(i) < size
  <2>1. PICK B : B = Below(Ready, i)
    OBVIOUS
  <2>2. i \in Ready /\ i \notin B /\ B \in SUBSET Jobs /\ B \cup {i} \in SUBSET Ready
    BY <1>2, <2>1, TotalOrder DEF Below
  <2>3. Cardinality(B \cup {i}) = Cardinality(B) + 1
    BY <2>2, Rows, FS_AddElement
  <2>4. Cardinality(B \cup {i}) <= size /\ Cardinality(B) \in Nat
    BY <1>2, <1>11, <2>2, Rows
  <2> QED
    BY <1>11, <2>1, <2>3, <2>4 DEF Position, Below
<1>13. W[size] = G
  BY <1>4, <1>11, <1>12
<1> QED
  BY <1>1, <1>8, <1>10, <1>11, <1>13

\* SQL_KEYED admits as a single pass would.  Ranking each key up to its headroom, the rest up
\* to the batch, and locking the first of them in order selects the rows that a walk through
\* the due rows in (run_at, id) order takes, for any table, any limits and any tasks: a cut
\* by key never costs a later row its place, and the common LIMIT never lets one overtake.
THEOREM SelectionIsGreedy == Spec => []SelectsGreedily
<1>1. ASSUME ClaimInv PROVE SelectsGreedily
  <2>1. TypeOK
    BY <1>1 DEF ClaimInv
  <2>2. PICK h, want : h = poll.headroom /\ want = poll.want
    OBVIOUS
  <2>3. h \in [DOMAIN Limit -> Nat] /\ want \in Nat
    BY <2>1, <2>2 DEF TypeOK
  <2>4. (Ranked(h, want) \cap Ready) \ {} = Ranked(h, want)
    BY RankedRow
  <2>5. Locked(Ranked(h, want), want, {}) = First(Ranked(h, want), want)
    BY <2>4 DEF Locked
  <2>6. Locked(Ranked(h, want), want, {}) = Greedy(h, want)
    BY <2>1, <2>3, <2>5, WalkSelects
  <2> QED
    BY <2>2, <2>6 DEF SelectsGreedily
<1> QED
  BY <1>1, ClaimInvariance, PTL

=============================================================================
