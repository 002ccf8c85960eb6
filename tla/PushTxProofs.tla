---------------------------- MODULE PushTxProofs ----------------------------
(***************************************************************************)
(* Proofs about PushTx, for any queues, items, batches, limits of a batch  *)
(* and numbers of calls and transactions.                                  *)
(***************************************************************************)
EXTENDS PushTx, TLAPS, FiniteSetTheorems, WellFoundedInduction

Ops == {"push", "push_at", "push_batch"}

-----------------------------------------------------------------------------
\* What the validation lets through.

\* A set of natural numbers has a minimum.
LEMMA Smallest ==
  ASSUME NEW T \in SUBSET Nat, T # {}
  PROVE  Min(T) \in T
<1>1. PICK x \in T : \A y \in T : ~(<<y, x>> \in OpToRel(<, Nat))
  BY NatLessThanWellFounded, WFMin
<1>2. ASSUME NEW y \in T PROVE x <= y
  <2>1. CASE y < x
    <3>1. <<y, x>> \in OpToRel(<, Nat)
      BY <2>1 DEF OpToRel
    <3> QED
      BY <1>1, <3>1
  <2> QED
    BY <2>1
<1> QED
  BY <1>2 DEF Min

\* The loop of push_batch ends without an error only if no item has one.
LEMMA LoopValidates ==
  ASSUME NEW items \in Seq(Items), LoopError(items) = "Ok"
  PROVE  \A i \in DOMAIN items : ItemError(items[i], i - 1) = "Ok"
<1>1. PICK failed : failed = {i \in DOMAIN items : ErrorAt(items, i) # "Ok"}
  OBVIOUS
<1>2. failed = {}
  <2>1. SUFFICES ASSUME failed # {} PROVE FALSE
    OBVIOUS
  <2>2. failed \in SUBSET Nat
    BY <1>1
  <2>3. Min(failed) \in failed
    BY <2>1, <2>2, Smallest
  <2> QED
    BY <1>1, <2>1, <2>3 DEF LoopError
<1>3. ASSUME NEW i \in DOMAIN items PROVE ErrorAt(items, i) = "Ok"
  BY <1>1, <1>2
<1> QED
  BY <1>3 DEF ErrorAt

\* validate_queue, validate_concurrency_key and encode_one are as strict as the CHECKs of
\* the table, so an item that passes them is accepted unless run_at lies in the past.
LEMMA ItemAccepted ==
  ASSUME NEW queue \in Queues, NEW item \in Items, NEW index,
         ValidQueue(queue), ItemError(item, index) = "Ok"
  PROVE  SchemaAccepts(queue, item, FALSE)
<1>1. /\ queue \in Nat /\ item.key \in Int /\ item.payload.size \in Nat
      /\ item.payload.encodes \in BOOLEAN
  BY PushAssumption DEF PushAssumption
<1>2. ValidKey(item.key)
  BY DEF ItemError
<1>3. item.payload.size <= MAX_PAYLOAD_BYTES
  BY <1>1, <1>2 DEF ItemError, EncodeError, MAX_PAYLOAD_BYTES
<1> QED
  BY <1>1, <1>2, <1>3 DEF SchemaAccepts, ValidQueue, ValidKey, NoKey, MAX_QUEUE_LEN,
     MAX_CONCURRENCY_KEY_LEN, MAX_PAYLOAD_BYTES

\* The input of a call: push and push_at have one item, only push_at a run_at.
Input(op, queue, items, past) ==
  /\ op \in Ops /\ queue \in Queues /\ items \in Seq(Items) /\ past \in BOOLEAN
  /\ op # "push_batch" => Len(items) = 1
  /\ op # "push_at" => past = FALSE

\* A call that is not refused has an item, and each of its items is accepted.
LEMMA ValidCall ==
  ASSUME NEW op, NEW queue, NEW items, NEW past, Input(op, queue, items, past),
         ValidationError(op, queue, items) = "Ok"
  PROVE  Len(items) > 0 /\ \A i \in DOMAIN items : SchemaAccepts(queue, items[i], FALSE)
<1>1. op \in Ops /\ queue \in Queues /\ items \in Seq(Items)
  BY DEF Input
<1>2. ValidQueue(queue)
  BY DEF ValidationError
<1>3. CASE op = "push_batch"
  <2>1. items # <<>> /\ LoopError(items) = "Ok"
    BY <1>2, <1>3 DEF ValidationError
  <2>2. ASSUME NEW i \in DOMAIN items PROVE SchemaAccepts(queue, items[i], FALSE)
    <3>1. items[i] \in Items /\ ItemError(items[i], i - 1) = "Ok"
      BY <1>1, <2>1, LoopValidates
    <3> QED
      BY <1>1, <1>2, <3>1, ItemAccepted
  <2>3. Len(items) > 0
    BY <1>1, <2>1
  <2> QED
    BY <2>2, <2>3
<1>4. CASE op # "push_batch"
  <2>1. Len(items) = 1 /\ ItemError(items[1], 0) = "Ok"
    BY <1>2, <1>4 DEF ValidationError, Input
  <2>2. DOMAIN items = {1} /\ items[1] \in Items
    BY <1>1, <2>1
  <2>3. SchemaAccepts(queue, items[1], FALSE)
    BY <1>1, <1>2, <2>1, <2>2, ItemAccepted
  <2>4. \A i \in DOMAIN items : SchemaAccepts(queue, items[i], FALSE)
    BY <2>2, <2>3, Zenon
  <2>5. Len(items) > 0
    BY <2>1
  <2> QED
    BY <2>4, <2>5
<1> QED
  BY <1>3, <1>4

\* So the server names a constraint only of a push_at.
LEMMA ConstraintFromPast ==
  ASSUME NEW op, NEW queue, NEW items, NEW past, Input(op, queue, items, past),
         ValidationError(op, queue, items) = "Ok",
         Classify(ServerError(queue, items, past)) = "Constraint"
  PROVE  op = "push_at"
<1>1. SUFFICES ASSUME op # "push_at" PROVE FALSE
  OBVIOUS
<1>2. past = FALSE
  BY <1>1 DEF Input
<1>3. \A i \in DOMAIN items : SchemaAccepts(queue, items[i], past)
  BY <1>2, ValidCall
<1>4. ServerError(queue, items, past) # "23514"
  BY <1>3 DEF ServerError
<1> QED
  BY <1>4 DEF Classify

-----------------------------------------------------------------------------
\* The rows of a call in a sequence of rows.

\* Rows of other calls, appended, do not matter.
LEMMA OthersAppended ==
  ASSUME NEW rows \in Seq(Row), NEW more \in Seq(Row), NEW c,
         \A p \in DOMAIN more : more[p].call # c.call
  PROVE  /\ At(rows \o more, c) = At(rows, c)
         /\ Whole(rows, c) => Whole(rows \o more, c)
<1>1. PICK both : both = rows \o more
  OBVIOUS
<1>2. /\ both \in Seq(Row) /\ Len(both) = Len(rows) + Len(more)
      /\ \A p \in 1..Len(rows) : both[p] = rows[p]
      /\ \A p \in Len(rows)+1 .. Len(both) : both[p] = more[p - Len(rows)]
  BY <1>1
<1>3. At(both, c) = At(rows, c)
  <2>1. ASSUME NEW p \in At(both, c) PROVE p \in At(rows, c)
    <3>1. p \in 1..Len(both) /\ both[p].call = c.call
      BY <1>2, <2>1 DEF At
    <3>2. CASE p > Len(rows)
      <4>1. p - Len(rows) \in DOMAIN more
        BY <1>2, <3>1, <3>2
      <4> QED
        BY <1>2, <3>1, <3>2, <4>1
    <3>3. CASE p <= Len(rows)
      BY <1>2, <3>1, <3>3 DEF At
    <3> QED
      BY <3>1, <3>2, <3>3
  <2>2. ASSUME NEW p \in At(rows, c) PROVE p \in At(both, c)
    BY <1>2 DEF At
  <2> QED
    BY <2>1, <2>2
<1>4. \A p \in At(rows, c) : both[p] = rows[p]
  BY <1>2 DEF At
<1>5. ASSUME Whole(rows, c) PROVE Whole(both, c)
  BY <1>3, <1>4, <1>5 DEF Whole
<1> QED
  BY <1>1, <1>3, <1>5

\* What is appended is what counts for a call without rows so far.
LEMMA OwnAppended ==
  ASSUME NEW rows \in Seq(Row), NEW more \in Seq(Row), NEW c, At(rows, c) = {}
  PROVE  /\ At(rows \o more, c) = {} <=> At(more, c) = {}
         /\ Whole(more, c) => Whole(rows \o more, c)
<1>1. PICK both : both = rows \o more
  OBVIOUS
<1>2. PICK n \in Nat : n = Len(rows)
  OBVIOUS
<1>3. /\ both \in Seq(Row) /\ Len(both) = n + Len(more)
      /\ \A p \in 1..n : both[p] = rows[p]
      /\ \A p \in n+1 .. Len(both) : both[p] = more[p - n]
  BY <1>1, <1>2
<1>4. ASSUME NEW p \in At(both, c)
      PROVE  p \in Nat /\ p > n /\ p - n \in At(more, c) /\ both[p] = more[p - n]
  <2>1. p \in 1..Len(both) /\ both[p].call = c.call
    BY <1>3, <1>4 DEF At
  <2>2. p > n
    BY <1>2, <1>3, <2>1 DEF At
  <2>3. p - n \in DOMAIN more /\ both[p] = more[p - n]
    BY <1>3, <2>1, <2>2
  <2> QED
    BY <2>1, <2>2, <2>3 DEF At
<1>5. ASSUME NEW q \in At(more, c)
      PROVE  q + n \in At(both, c) /\ both[q + n] = more[q]
  <2>1. q \in 1..Len(more) /\ more[q].call = c.call
    BY <1>5 DEF At
  <2>2. q + n \in DOMAIN both /\ both[q + n] = more[q]
    BY <1>3, <2>1
  <2> QED
    BY <2>1, <2>2 DEF At
<1>6. At(both, c) = {} <=> At(more, c) = {}
  BY <1>4, <1>5
<1>7. ASSUME Whole(more, c) PROVE Whole(both, c)
  <2>1. {both[p].index : p \in At(both, c)} = {more[p].index : p \in At(more, c)}
    <3>1. ASSUME NEW p \in At(both, c) PROVE \E q \in At(more, c) : both[p].index = more[q].index
      BY <1>4
    <3>2. ASSUME NEW q \in At(more, c) PROVE \E p \in At(both, c) : both[p].index = more[q].index
      BY <1>5
    <3> QED
      BY <3>1, <3>2
  <2>2. ASSUME NEW p \in At(both, c), NEW q \in At(both, c), p < q
        PROVE  both[p].index < both[q].index
    BY <1>4, <1>7, <2>2 DEF Whole
  <2>3. ASSUME NEW p \in At(both, c) PROVE both[p].tx = c.tx
    BY <1>4, <1>7 DEF Whole
  <2> QED
    BY <1>7, <2>1, <2>2, <2>3 DEF Whole
<1> QED
  BY <1>1, <1>6, <1>7

\* The one INSERT of a call has all of its rows.
LEMMA InsertIsWhole ==
  ASSUME TypeOK, NEW items \in Seq(Items), NEW c, c.call = Calls, c.tx = txno,
         c.items = Len(items)
  PROVE  /\ RowsOf(items) \in Seq(Row)
         /\ \A p \in DOMAIN RowsOf(items) : RowsOf(items)[p].call = c.call
         /\ Whole(RowsOf(items), c)
         /\ Len(items) > 0 => At(RowsOf(items), c) # {}
<1>1. Calls \in Nat /\ txno \in Nat
  BY FS_CardinalityType DEF TypeOK, Calls
<1>2. PICK rows : rows = RowsOf(items)
  OBVIOUS
<1>3. PICK k \in Nat : k = Calls
  BY <1>1
<1>4. rows = [i \in 1..Len(items) |-> [call |-> k, index |-> i, tx |-> txno]]
  BY <1>2, <1>3 DEF RowsOf
<1>5. rows \in Seq(Row) /\ DOMAIN rows = 1..Len(items)
  BY <1>1, <1>3, <1>4 DEF Row
<1>6. \A p \in 1..Len(items) : rows[p].call = k /\ rows[p].index = p /\ rows[p].tx = txno
  BY <1>4
<1>7. At(rows, c) = 1..Len(items)
  BY <1>3, <1>5, <1>6 DEF At
<1>8. {rows[p].index : p \in At(rows, c)} = 1..Len(items)
  BY <1>6, <1>7
<1>9. Whole(rows, c)
  BY <1>6, <1>7, <1>8 DEF Whole
<1> QED
  BY <1>2, <1>3, <1>5, <1>6, <1>7, <1>9

-----------------------------------------------------------------------------
\* A call is made: it gets the next number, and the others keep what they have.

\* The numbers of rows are numbers.
LEMMA RowNumbers ==
  ASSUME NEW rows \in Seq(Row)
  PROVE  \A p \in DOMAIN rows : rows[p].call \in Nat
<1>1. \A p \in DOMAIN rows : rows[p] \in Row
  OBVIOUS
<1> QED
  BY <1>1 DEF Row

\* The record of the call is new, and one call more has been made.
LEMMA Numbered ==
  ASSUME TypeOK, NumberInv, NEW c \in Logged, c.call = Calls, c.tx = txno, log' = log \cup {c}
  PROVE  /\ Calls \in Nat /\ Calls' = Calls + 1
         /\ log' \subseteq Logged /\ IsFiniteSet(log')
         /\ \A d \in log : d.call # c.call /\ d.call < Calls
         /\ \A p \in DOMAIN table : table[p].call # c.call
         /\ \A p \in DOMAIN pending : pending[p].call # c.call
         /\ \A d \in log' : d.call < Calls' /\ d.tx <= txs
         /\ \A d, e \in log' : d.call = e.call => d = e
<1>1. IsFiniteSet(log) /\ log \subseteq Logged
  BY DEF TypeOK
<1>2. Calls \in Nat
  BY <1>1, FS_CardinalityType DEF Calls
<1>3. PICK k \in Nat : k = Calls
  BY <1>2
<1>4. \A d \in log : d.call \in Nat /\ d.call < k /\ d.tx <= txs
  BY <1>1, <1>3 DEF NumberInv, Logged
<1>5. c \notin log
  BY <1>3, <1>4
<1>6. Cardinality(log \cup {c}) = k + 1 /\ IsFiniteSet(log \cup {c})
  BY <1>1, <1>3, <1>5, FS_AddElement DEF Calls
<1>7. Calls' = k + 1
  BY <1>6 DEF Calls
<1>8. \A p \in DOMAIN table : table[p].call \in Nat /\ table[p].call < k
  BY <1>3, RowNumbers DEF NumberInv, TypeOK
<1>9. \A p \in DOMAIN pending : pending[p].call \in Nat /\ pending[p].call < k
  BY <1>3, RowNumbers DEF NumberInv, TypeOK
<1>10. \A d \in log' : d.call < k + 1 /\ d.tx <= txs
  BY <1>3, <1>4 DEF TypeOK
<1>11. \A d, e \in log' : d.call = e.call => d = e
  BY <1>3, <1>4 DEF NumberInv
<1> QED
  BY <1>1, <1>3, <1>4, <1>6, <1>7, <1>8, <1>9, <1>10, <1>11

\* Appending rows of the next call keeps the numbers below the calls made.
LEMMA AppendedNumbers ==
  ASSUME NEW rows \in Seq(Row), NEW more \in Seq(Row), NEW k \in Nat,
         \A p \in DOMAIN rows : rows[p].call < k, \A p \in DOMAIN more : more[p].call = k
  PROVE  \A p \in DOMAIN (rows \o more) : (rows \o more)[p].call < k + 1
<1>1. PICK both : both = rows \o more
  OBVIOUS
<1>2. /\ both \in Seq(Row) /\ Len(both) = Len(rows) + Len(more)
      /\ \A p \in 1..Len(rows) : both[p] = rows[p]
      /\ \A p \in Len(rows)+1 .. Len(both) : both[p] = more[p - Len(rows)]
  BY <1>1
<1>3. ASSUME NEW p \in 1..Len(both) PROVE both[p].call < k + 1
  <2>1. CASE p <= Len(rows)
    <3>1. p \in DOMAIN rows /\ both[p] = rows[p]
      BY <1>2, <2>1
    <3> QED
      BY <3>1, RowNumbers
  <2>2. CASE p > Len(rows)
    <3>1. p - Len(rows) \in DOMAIN more /\ both[p] = more[p - Len(rows)]
      BY <1>2, <2>2
    <3> QED
      BY <3>1
  <2> QED
    BY <2>1, <2>2
<1> QED
  BY <1>1, <1>2, <1>3

\* A call that inserts nothing: refused, rejected or lost.  The transaction it is made in
\* stays as it is, or fails, or ends.
LEMMA CallWithoutRows ==
  ASSUME PushInv, NEW c \in Logged, c.call = Calls, c.tx = txno, log' = log \cup {c},
         c.error # "Ok", c.error = "Constraint" => c.op = "push_at",
         table' = table, writes' = writes, txs' = txs,
         \/ tx' = tx /\ txno' = txno /\ pending' = pending
         \/ tx' = "none" /\ tx = "none" /\ txno' = txno /\ pending' = <<>>
         \/ tx' = "failed" /\ tx \in {"open", "failed"} /\ txno' = txno /\ pending' = <<>>
         \/ tx' = "closed" /\ txno' = 0 /\ pending' = <<>>
  PROVE  PushInv'
<1>1. TypeOK /\ TxInv /\ NumberInv /\ ConstraintOnlyFromPast /\ \A d \in log : CallInv(d)
  BY DEF PushInv
<1>2. /\ Calls \in Nat /\ Calls' = Calls + 1
      /\ log' \subseteq Logged /\ IsFiniteSet(log')
      /\ \A d \in log : d.call # c.call /\ d.call < Calls
      /\ \A p \in DOMAIN table : table[p].call # c.call
      /\ \A p \in DOMAIN pending : pending[p].call # c.call
      /\ \A d \in log' : d.call < Calls' /\ d.tx <= txs
      /\ \A d, e \in log' : d.call = e.call => d = e
  BY <1>1, Numbered
<1>3. pending' = pending \/ pending' = <<>>
  OBVIOUS
<1>4. TypeOK'
  <2>1. pending' \in Seq(Row)
    <3>1. <<>> \in Seq(Row)
      OBVIOUS
    <3> QED
      BY <1>1, <1>3, <3>1 DEF TypeOK
  <2>2. tx' \in {"none", "open", "failed", "closed"} /\ txno' \in 0..txs'
    BY <1>1 DEF TypeOK
  <2> QED
    BY <1>1, <1>2, <2>1, <2>2 DEF TypeOK
<1>5. TxInv'
  BY <1>1 DEF TypeOK, TxInv
<1>6. NumberInv'
  <2>1. \A p \in DOMAIN table : table[p].call \in Nat /\ table[p].call < Calls
    BY <1>1, RowNumbers DEF NumberInv, TypeOK
  <2>2. \A p \in DOMAIN pending : pending[p].call \in Nat /\ pending[p].call < Calls
    BY <1>1, RowNumbers DEF NumberInv, TypeOK
  <2>3. \A p \in DOMAIN table' : table'[p].call < Calls'
    BY <1>2, <2>1
  <2>4. \A p \in DOMAIN pending' : pending'[p].call < Calls'
    BY <1>2, <1>3, <2>2
  <2> QED
    BY <1>2, <2>3, <2>4 DEF NumberInv
<1>7. ConstraintOnlyFromPast'
  BY <1>1 DEF ConstraintOnlyFromPast
<1>8. ASSUME NEW d \in log' PROVE CallInv(d)'
  <2>1. At(pending', d) = At(pending, d) \/ At(pending', d) = {}
    BY <1>3 DEF At
  <2>2. CASE d = c
    <3>1. At(table', d) = {} /\ At(pending', d) = {}
      BY <1>2, <1>3, <2>2 DEF At
    <3>2. txno \notin writes
      BY <1>1 DEF TxInv
    <3> QED
      BY <2>2, <3>1, <3>2 DEF CallInv
  <2>3. CASE d \in log
    <3>1. CallInv(d)
      BY <1>1, <2>3
    <3>2. tx' = "open" => tx = "open" /\ pending' = pending /\ txno' = txno
      BY <1>1 DEF TypeOK, TxInv
    <3>3. pending' # pending => At(pending', d) = {}
      BY <1>3 DEF At
    <3>4. pending' = pending => Whole(pending, d) = Whole(pending', d) /\ (txno' = txno \/ pending = <<>>)
      BY <1>1 DEF TxInv
    <3>5. txno \notin writes /\ (txno' = txno \/ txno' = 0)
      BY <1>1 DEF TxInv
    <3> QED
      BY <3>1, <3>2, <3>3, <3>4, <3>5 DEF CallInv, At
  <2> QED
    BY <2>2, <2>3
<1> QED
  BY <1>4, <1>5, <1>6, <1>7, <1>8 DEF PushInv

\* A call whose rows wait for the commit of the open transaction.
LEMMA CallInTransaction ==
  ASSUME PushInv, NEW c \in Logged, c.call = Calls, c.tx = txno, log' = log \cup {c},
         c.error = "Ok", c.items > 0, NEW more \in Seq(Row),
         \A p \in DOMAIN more : more[p].call = c.call, Whole(more, c), At(more, c) # {},
         tx = "open", pending' = pending \o more,
         table' = table, writes' = writes, txs' = txs, tx' = tx, txno' = txno
  PROVE  PushInv'
<1>1. TypeOK /\ TxInv /\ NumberInv /\ ConstraintOnlyFromPast /\ \A d \in log : CallInv(d)
  BY DEF PushInv
<1>2. /\ Calls \in Nat /\ Calls' = Calls + 1
      /\ log' \subseteq Logged /\ IsFiniteSet(log')
      /\ \A d \in log : d.call # c.call /\ d.call < Calls
      /\ \A p \in DOMAIN table : table[p].call # c.call
      /\ \A p \in DOMAIN pending : pending[p].call # c.call
      /\ \A d \in log' : d.call < Calls' /\ d.tx <= txs
      /\ \A d, e \in log' : d.call = e.call => d = e
  BY <1>1, Numbered
<1>3. pending \in Seq(Row) /\ table \in Seq(Row) /\ pending \o more \in Seq(Row)
  BY <1>1 DEF TypeOK
<1>4. TypeOK'
  BY <1>1, <1>2, <1>3 DEF TypeOK
<1>5. TxInv'
  BY <1>1 DEF TxInv
<1>6. NumberInv'
  <2>1. \A p \in DOMAIN table' : table'[p].call < Calls'
    BY <1>1, <1>2, <1>3, RowNumbers DEF NumberInv
  <2>2. \A p \in DOMAIN pending' : pending'[p].call < Calls'
    BY <1>1, <1>2, <1>3, RowNumbers, AppendedNumbers DEF NumberInv
  <2> QED
    BY <1>2, <2>1, <2>2 DEF NumberInv
<1>7. ConstraintOnlyFromPast'
  BY <1>1 DEF ConstraintOnlyFromPast
<1>8. ASSUME NEW d \in log' PROVE CallInv(d)'
  <2>1. CASE d = c
    <3>1. At(table, d) = {} /\ At(pending, d) = {}
      BY <1>2, <2>1 DEF At
    <3>2. At(pending', d) # {} /\ Whole(pending', d)
      BY <1>3, <2>1, <3>1, OwnAppended
    <3> QED
      BY <2>1, <3>1, <3>2 DEF CallInv
  <2>2. CASE d \in log
    <3>1. CallInv(d)
      BY <1>1, <2>2
    <3>2. \A p \in DOMAIN more : more[p].call # d.call
      BY <1>2, <2>2
    <3>3. At(pending', d) = At(pending, d) /\ (Whole(pending, d) => Whole(pending', d))
      BY <1>3, <3>2, OthersAppended
    <3> QED
      BY <3>1, <3>3 DEF CallInv
  <2> QED
    BY <2>1, <2>2
<1> QED
  BY <1>4, <1>5, <1>6, <1>7, <1>8 DEF PushInv

\* A call outside a transaction whose rows are committed, whether it is answered or not.
LEMMA CallCommits ==
  ASSUME PushInv, NEW c \in Logged, c.call = Calls, c.tx = txno, log' = log \cup {c},
         c.error \in {"Ok", "Transient"}, c.items > 0, NEW more \in Seq(Row),
         \A p \in DOMAIN more : more[p].call = c.call, Whole(more, c),
         tx = "none", table' = table \o more,
         pending' = <<>>, writes' = writes, txs' = txs, tx' \in {"none", "closed"}, txno' = 0
  PROVE  PushInv'
<1>1. TypeOK /\ TxInv /\ NumberInv /\ ConstraintOnlyFromPast /\ \A d \in log : CallInv(d)
  BY DEF PushInv
<1>2. /\ Calls \in Nat /\ Calls' = Calls + 1
      /\ log' \subseteq Logged /\ IsFiniteSet(log')
      /\ \A d \in log : d.call # c.call /\ d.call < Calls
      /\ \A p \in DOMAIN table : table[p].call # c.call
      /\ \A p \in DOMAIN pending : pending[p].call # c.call
      /\ \A d \in log' : d.call < Calls' /\ d.tx <= txs
      /\ \A d, e \in log' : d.call = e.call => d = e
  BY <1>1, Numbered
<1>3. table \in Seq(Row) /\ table \o more \in Seq(Row) /\ pending = <<>> /\ txno = 0
  BY <1>1 DEF TypeOK, TxInv
<1>4. TypeOK'
  <2>1. <<>> \in Seq(Row)
    OBVIOUS
  <2>2. txno' \in 0..txs'
    BY <1>1 DEF TypeOK
  <2> QED
    BY <1>1, <1>2, <1>3, <2>1, <2>2 DEF TypeOK
<1>5. TxInv'
  BY <1>1, <1>3 DEF TxInv
<1>6. NumberInv'
  <2>1. \A p \in DOMAIN table' : table'[p].call < Calls'
    BY <1>1, <1>2, <1>3, RowNumbers, AppendedNumbers DEF NumberInv
  <2>2. \A p \in DOMAIN pending' : pending'[p].call < Calls'
    OBVIOUS
  <2> QED
    BY <1>2, <2>1, <2>2 DEF NumberInv
<1>7. ConstraintOnlyFromPast'
  BY <1>1 DEF ConstraintOnlyFromPast
<1>8. ASSUME NEW d \in log' PROVE CallInv(d)'
  <2>1. At(pending', d) = {}
    BY DEF At
  <2>2. CASE d = c
    <3>1. At(table, d) = {}
      BY <1>2, <2>2 DEF At
    <3>2. Whole(table', d)
      BY <1>3, <2>2, <3>1, OwnAppended
    <3> QED
      BY <1>3, <2>1, <2>2, <3>2 DEF CallInv
  <2>3. CASE d \in log
    <3>1. CallInv(d)
      BY <1>1, <2>3
    <3>2. \A p \in DOMAIN more : more[p].call # d.call
      BY <1>2, <2>3
    <3>3. At(table', d) = At(table, d) /\ (Whole(table, d) => Whole(table', d))
      BY <1>3, <3>2, OthersAppended
    <3> QED
      BY <1>3, <2>1, <3>1, <3>3 DEF CallInv
  <2> QED
    BY <2>2, <2>3
<1> QED
  BY <1>4, <1>5, <1>6, <1>7, <1>8 DEF PushInv

-----------------------------------------------------------------------------
\* The inductive invariant, step by step.

\* A refusal is told by its error.
Refusals == (PushErrors \cup {"Ok"}) \ {"Constraint"}

\* The validation never answers with the error that the server's CHECKs cause.
LEMMA ErrorIsText ==
  ASSUME NEW op, NEW queue, NEW items
  PROVE  ValidationError(op, queue, items) \in Refusals
<1>1. \A item, index : ItemError(item, index) \in Refusals
  BY DEF ItemError, EncodeError, Refusals, PushErrors
<1>2. \A i : ErrorAt(items, i) \in Refusals
  BY <1>1 DEF ErrorAt, Refusals, PushErrors
<1>3. LoopError(items) \in Refusals
  BY <1>2 DEF LoopError, Refusals
<1> QED
  BY <1>1, <1>3 DEF ValidationError, Refusals, PushErrors

\* push, push_at and push_batch, however they end.
LEMMA CallStep ==
  ASSUME PushInv, NEW op, NEW queue, NEW items, NEW past, Input(op, queue, items, past),
         Call(op, queue, items, past), UNCHANGED txs
  PROVE  PushInv'
<1>1. op \in Ops /\ items \in Seq(Items) /\ TypeOK /\ TxInv
  BY DEF Input, PushInv
<1>2. Calls \in Nat /\ txno \in Nat
  BY <1>1, FS_CardinalityType DEF TypeOK, Calls
<1>3. CASE PushRefused(op, queue, items)
  <2>1. PICK error \in Refusals : error = ValidationError(op, queue, items)
    BY ErrorIsText
  <2>2. PICK c : c = [call |-> Calls, tx |-> txno, op |-> op, items |-> Len(items), error |-> error]
    OBVIOUS
  <2>3. c \in Logged
    BY <1>1, <1>2, <2>1, <2>2 DEF Logged, Ops, PushErrors, Refusals
  <2>4. /\ log' = log \cup {c} /\ error # "Ok" /\ tx' = tx /\ table' = table
        /\ pending' = pending /\ writes' = writes /\ txno' = txno
    BY <1>3, <2>1, <2>2 DEF PushRefused, Answer
  <2>5. /\ c.call = Calls /\ c.tx = txno /\ c.error # "Ok"
        /\ c.error = "Constraint" => c.op = "push_at"
    BY <2>1, <2>2, <2>4 DEF Refusals
  <2> QED
    BY <2>3, <2>4, <2>5, CallWithoutRows
<1>4. CASE PushRejected(op, queue, items, past)
  <2>1. PICK error : error = Classify(ServerError(queue, items, past))
    OBVIOUS
  <2>2. error \in {"Constraint", "Transient"} /\ (error = "Constraint" => op = "push_at")
    BY <1>4, <2>1, ConstraintFromPast DEF Classify, PushRejected
  <2>3. PICK c : c = [call |-> Calls, tx |-> txno, op |-> op, items |-> Len(items), error |-> error]
    OBVIOUS
  <2>4. c \in Logged
    BY <1>1, <1>2, <2>2, <2>3 DEF Logged, Ops, PushErrors, Refusals
  <2>5. /\ log' = log \cup {c} /\ table' = table /\ pending' = <<>>
        /\ writes' = writes /\ txno' = txno
        /\ tx' = IF tx = "none" THEN "none" ELSE "failed"
    BY <1>4, <2>1, <2>3 DEF PushRejected, Answer
  <2>6. tx # "closed"
    BY DEF Call
  <2>7. tx \in {"none", "open", "failed"}
    BY <1>1, <2>6 DEF TypeOK
  <2>8. /\ c.call = Calls /\ c.tx = txno /\ c.error # "Ok"
        /\ c.error = "Constraint" => c.op = "push_at"
    BY <2>2, <2>3
  <2> QED
    BY <2>4, <2>5, <2>7, <2>8, CallWithoutRows
<1>5. CASE PushInserts(op, queue, items, past)
  <2>1. PICK c : c = [call |-> Calls, tx |-> txno, op |-> op, items |-> Len(items), error |-> "Ok"]
    OBVIOUS
  <2>2. c \in Logged
    BY <1>1, <1>2, <2>1 DEF Logged, Ops, PushErrors, Refusals
  <2>3. Len(items) > 0
    BY <1>5, ValidCall DEF PushInserts
  <2>4. /\ c.call = Calls /\ c.tx = txno /\ c.error = "Ok" /\ c.items = Len(items)
        /\ c.items > 0
    BY <2>1, <2>3
  <2>5. PICK more : more = RowsOf(items)
    OBVIOUS
  <2>6. /\ more \in Seq(Row) /\ \A p \in DOMAIN more : more[p].call = c.call
        /\ Whole(more, c) /\ At(more, c) # {}
    BY <1>1, <2>3, <2>4, <2>5, InsertIsWhole
  <2>7. log' = log \cup {c} /\ tx' = tx /\ writes' = writes /\ txno' = txno
    BY <1>5, <2>1 DEF PushInserts, Answer
  <2>8. CASE tx = "open"
    <3>1. pending' = pending \o more /\ table' = table
      BY <1>5, <2>5, <2>8 DEF PushInserts, Insert
    <3> QED
      BY <2>2, <2>4, <2>6, <2>7, <2>8, <3>1, CallInTransaction
  <2>9. CASE tx # "open"
    <3>1. table' = table \o more /\ pending' = pending
      BY <1>5, <2>5, <2>9 DEF PushInserts, Insert
    <3>2. tx # "failed"
      BY <1>5 DEF PushInserts, ServerError
    <3>3. tx = "none" /\ txno = 0 /\ pending = <<>>
      BY <1>1, <2>9, <3>2 DEF TypeOK, TxInv, Call
    <3> QED
      BY <2>2, <2>4, <2>6, <2>7, <3>1, <3>3, CallCommits
  <2> QED
    BY <2>8, <2>9
<1>6. CASE PushUnanswered(op, queue, items, past)
  <2>1. PICK c : c = [call |-> Calls, tx |-> txno, op |-> op, items |-> Len(items),
                      error |-> "Transient"]
    OBVIOUS
  <2>2. c \in Logged
    BY <1>1, <1>2, <2>1 DEF Logged, Ops, PushErrors, Refusals
  <2>3. Len(items) > 0
    BY <1>6, ValidCall DEF PushUnanswered
  <2>4. /\ c.call = Calls /\ c.tx = txno /\ c.error = "Transient" /\ c.items = Len(items)
        /\ c.items > 0
    BY <2>1, <2>3
  <2>5. /\ log' = log \cup {c} /\ tx' = "closed" /\ pending' = <<>> /\ txno' = 0
        /\ writes' = writes
    BY <1>6, <2>1 DEF PushUnanswered, Answer, Classify
  <2>6. CASE table' = table
    BY <2>2, <2>4, <2>5, <2>6, CallWithoutRows
  <2>7. CASE tx = "none" /\ table' = table \o RowsOf(items)
    <3>1. PICK more : more = RowsOf(items)
      OBVIOUS
    <3>2. /\ more \in Seq(Row) /\ \A p \in DOMAIN more : more[p].call = c.call
          /\ Whole(more, c)
      BY <1>1, <2>4, <3>1, InsertIsWhole
    <3> QED
      BY <2>2, <2>4, <2>5, <2>7, <3>1, <3>2, CallCommits
  <2> QED
    BY <1>6, <2>6, <2>7 DEF PushUnanswered
<1> QED
  BY <1>3, <1>4, <1>5, <1>6 DEF Call

\* The caller commits: the rows of the transaction join the table with the caller's write.
LEMMA CommitStep ==
  ASSUME PushInv, Commit
  PROVE  PushInv'
<1>1. TypeOK /\ TxInv /\ NumberInv /\ ConstraintOnlyFromPast /\ \A d \in log : CallInv(d)
  BY DEF PushInv
<1>2. /\ tx = "open" /\ table' = table \o pending /\ writes' = writes \cup {txno}
      /\ tx' \in {"none", "closed"} /\ pending' = <<>> /\ txno' = 0 /\ txs' = txs /\ log' = log
  BY DEF Commit, End
<1>3. /\ table \in Seq(Row) /\ pending \in Seq(Row) /\ table \o pending \in Seq(Row)
      /\ txno \in 1..txs /\ txs \in Nat
  BY <1>1, <1>2 DEF TypeOK, TxInv
<1>4. TypeOK'
  <2>1. <<>> \in Seq(Row)
    OBVIOUS
  <2>2. writes' \subseteq 1..txs' /\ txno' \in 0..txs'
    BY <1>1, <1>2, <1>3 DEF TypeOK
  <2> QED
    BY <1>1, <1>2, <1>3, <2>1, <2>2 DEF TypeOK
<1>5. TxInv'
  BY <1>1, <1>2, <1>3 DEF TypeOK, TxInv
<1>6. NumberInv'
  <2>1. Calls' = Calls
    BY <1>2 DEF Calls
  <2>2. \A p \in DOMAIN table' : table'[p].call < Calls
    <3>1. PICK both : both = table \o pending
      OBVIOUS
    <3>2. /\ both \in Seq(Row) /\ Len(both) = Len(table) + Len(pending)
          /\ \A p \in 1..Len(table) : both[p] = table[p]
          /\ \A p \in Len(table)+1 .. Len(both) : both[p] = pending[p - Len(table)]
      BY <1>3, <3>1
    <3>3. ASSUME NEW p \in 1..Len(both)
          PROVE  \/ p \in DOMAIN table /\ both[p] = table[p]
                 \/ p - Len(table) \in DOMAIN pending /\ both[p] = pending[p - Len(table)]
      BY <1>3, <3>2
    <3> QED
      BY <1>1, <1>2, <3>1, <3>2, <3>3 DEF NumberInv
  <2> QED
    BY <1>1, <1>2, <2>1, <2>2 DEF NumberInv
<1>7. ConstraintOnlyFromPast'
  BY <1>1, <1>2 DEF ConstraintOnlyFromPast
<1>8. ASSUME NEW d \in log' PROVE CallInv(d)'
  <2>1. d \in log /\ CallInv(d) /\ At(pending', d) = {} /\ d.tx \in Nat
    BY <1>1, <1>2, <1>8 DEF At, TypeOK, Logged
  <2>2. CASE At(pending, d) = {}
    <3>1. \A p \in DOMAIN pending : pending[p].call # d.call
      BY <2>2 DEF At
    <3>2. At(table', d) = At(table, d) /\ (Whole(table, d) => Whole(table', d))
      BY <1>2, <1>3, <3>1, OthersAppended
    <3> QED
      BY <1>2, <1>3, <2>1, <2>2, <3>2 DEF CallInv
  <2>3. CASE At(pending, d) # {}
    <3>1. Whole(pending, d) /\ d.error = "Ok" /\ d.tx = txno /\ At(table, d) = {}
      BY <1>3, <2>1, <2>3 DEF CallInv
    <3>2. At(table', d) # {} /\ Whole(table', d)
      BY <1>2, <1>3, <2>3, <3>1, OwnAppended
    <3> QED
      BY <1>2, <2>1, <3>1, <3>2 DEF CallInv
  <2> QED
    BY <2>2, <2>3
<1> QED
  BY <1>4, <1>5, <1>6, <1>7, <1>8 DEF PushInv

\* The caller begins a transaction, rolls one back or connects again.
LEMMA CallerStep ==
  ASSUME PushInv, Begin \/ Rollback \/ Reconnect
  PROVE  PushInv'
<1>1. TypeOK /\ TxInv /\ NumberInv /\ ConstraintOnlyFromPast /\ \A d \in log : CallInv(d)
  BY DEF PushInv
<1>2. /\ table' = table /\ writes' = writes /\ log' = log /\ pending' = <<>>
      /\ \/ tx' = "open" /\ tx = "none" /\ txs' = txs + 1 /\ txno' = txs + 1
         \/ tx' \in {"none", "closed"} /\ txs' = txs /\ txno' = 0
  BY <1>1 DEF Begin, Rollback, Reconnect, End, TypeOK, TxInv
<1>3. txs \in Nat /\ writes \subseteq 1..txs /\ txno \notin writes
  BY <1>1 DEF TypeOK, TxInv
<1>4. TypeOK'
  <2>1. <<>> \in Seq(Row)
    OBVIOUS
  <2>2. txs' \in Nat /\ txno' \in 0..txs' /\ writes' \subseteq 1..txs'
    BY <1>2, <1>3
  <2> QED
    BY <1>1, <1>2, <2>1, <2>2 DEF TypeOK
<1>5. TxInv'
  BY <1>2, <1>3 DEF TxInv
<1>6. NumberInv'
  <2>1. Calls' = Calls /\ \A c \in log : c.tx \in Nat /\ c.tx <= txs
    BY <1>1, <1>2 DEF Calls, NumberInv, TypeOK, Logged
  <2> QED
    BY <1>1, <1>2, <1>3, <2>1 DEF NumberInv
<1>7. ConstraintOnlyFromPast'
  BY <1>1, <1>2 DEF ConstraintOnlyFromPast
<1>8. ASSUME NEW d \in log' PROVE CallInv(d)'
  <2>1. d \in log /\ CallInv(d) /\ At(pending', d) = {} /\ d.tx \in Nat /\ d.tx <= txs
    BY <1>1, <1>2, <1>8 DEF At, TypeOK, Logged, NumberInv
  <2>2. d.tx # 0 => d.tx # txno'
    BY <1>2, <1>3, <2>1
  <2>3. tx' = "open" => d.tx # txno'
    BY <1>2, <1>3, <2>1
  <2> QED
    BY <1>2, <1>3, <2>1, <2>2, <2>3 DEF CallInv
<1> QED
  BY <1>4, <1>5, <1>6, <1>7, <1>8 DEF PushInv

-----------------------------------------------------------------------------

\* Calls are numbered, and the rows of each are all in the table, all in the transaction
\* that is open, or nowhere: see PushInv.
THEOREM PushInvariance == Spec => []PushInv
<1>1. Init => PushInv
  <2> SUFFICES ASSUME Init PROVE PushInv
    OBVIOUS
  <2>1. <<>> \in Seq(Row) /\ IsFiniteSet({})
    BY FS_EmptySet
  <2> QED
    BY <2>1 DEF Init, PushInv, TypeOK, TxInv, NumberInv, ConstraintOnlyFromPast
<1>2. ASSUME PushInv, [Next]_vars PROVE PushInv'
  <2>1. CASE UNCHANGED vars
    BY <1>2, <2>1 DEF vars, PushInv, TypeOK, TxInv, NumberInv, ConstraintOnlyFromPast, CallInv,
       Calls
  <2>2. ASSUME NEW queue \in Queues, NEW item \in Items, NEW past \in BOOLEAN, UNCHANGED txs,
               Push(queue, item) \/ PushAt(queue, item, past)
        PROVE  PushInv'
    <3>1. <<item>> \in Seq(Items) /\ Len(<<item>>) = 1
      OBVIOUS
    <3>2. /\ Input("push", queue, <<item>>, FALSE)
          /\ Input("push_at", queue, <<item>>, past)
      BY <3>1 DEF Input, Ops
    <3> QED
      BY <1>2, <2>2, <3>2, CallStep DEF Push, PushAt
  <2>3. ASSUME NEW queue \in Queues, NEW items \in Batches, UNCHANGED txs, PushBatch(queue, items)
        PROVE  PushInv'
    <3>1. Input("push_batch", queue, items, FALSE)
      BY PushAssumption DEF PushAssumption, Input, Ops
    <3> QED
      BY <1>2, <2>3, <3>1, CallStep DEF PushBatch
  <2> QED
    BY <1>2, <2>1, <2>2, <2>3, CommitStep, CallerStep DEF Next
<1> QED
  BY <1>1, <1>2, PTL DEF Spec

\* push_batch is one INSERT: a call's rows reach the table together and in order, or not at
\* all, and not at all if the call failed for good, for any batches and limits.
THEOREM CallsAreAtomic == Spec => []CallIsAtomic
<1>1. PushInv => CallIsAtomic
  BY DEF PushInv, CallInv, CallIsAtomic, InTable, is_retriable
<1> QED
  BY <1>1, PushInvariance, PTL

\* A transaction's successful pushes are in the table if and only if the caller's own write
\* is, through failed statements, lost connections and rollbacks.
THEOREM RowsCommitWithWrite == Spec => []CommitsWithWrite
<1>1. PushInv => CommitsWithWrite
  BY DEF PushInv, CallInv, CommitsWithWrite, InTable
<1> QED
  BY <1>1, PushInvariance, PTL

\* The library's validation is at least as strict as the schema's CHECKs: PushError's
\* Constraint comes from a push_at into the past, and from nothing else.
THEOREM ValidationCoversChecks == Spec => []ConstraintOnlyFromPast
<1>1. PushInv => ConstraintOnlyFromPast
  BY DEF PushInv
<1> QED
  BY <1>1, PushInvariance, PTL

=============================================================================
