------------------------------- MODULE PushTx -------------------------------
(***************************************************************************)
(* Pusher: push, push_at and push_batch on the caller's connection, in or  *)
(* outside a transaction that also holds a write of the caller's own.      *)
(* Each call validates all of its input, then issues one INSERT.           *)
(*                                                                         *)
(* A text (queue name, concurrency key) is its length; a payload is        *)
(* whether the codec encodes it, and the size of its encoding.             *)
(***************************************************************************)
EXTENDS Integers, Sequences, FiniteSets, FiniteSetsExt

CONSTANTS
  Queues,     \* the queue names of the Pushers at hand
  Items,      \* the payloads and keys of single pushes
  Batches,    \* the sequences of items of batch pushes
  MAX_BATCH_SIZE, MAX_BATCH_BYTES,
  MaxCalls,   \* calls in one behaviour
  MaxTxs      \* transactions in one behaviour

ASSUME PushAssumption ==
  /\ Queues \subseteq Nat
  /\ \A item \in Items :
       item.payload.encodes \in BOOLEAN /\ item.payload.size \in Nat /\ item.key \in Int
  /\ Batches \subseteq Seq(Items)

VARIABLES
  tx,         \* the connection: no transaction, one open, one failed, or closed
  txno,       \* the transaction, 0 for none
  txs,        \* transactions begun so far
  table,      \* committed rows, in the order of their id
  pending,    \* rows of the open transaction
  writes,     \* the transactions whose write of the caller's is committed
  log         \* the calls made and what was returned

vars == <<tx, txno, txs, table, pending, writes, log>>

Calls == Cardinality(log)

MAX_PAYLOAD_BYTES == 1024 * 1024
MAX_QUEUE_LEN == 64
MAX_CONCURRENCY_KEY_LEN == 128

NoKey == -1

Init ==
  /\ tx = "none" /\ txno = 0 /\ txs = 0
  /\ table = <<>> /\ pending = <<>> /\ writes = {} /\ log = {}

-----------------------------------------------------------------------------

ValidQueue(queue) == queue \in 1..MAX_QUEUE_LEN

\* Mutant: the length is compared with the wrong limit.
LooseKey(key) == key = NoKey \/ key \in 1..MAX_PAYLOAD_BYTES

ValidKey(key) == key = NoKey \/ key \in 1..MAX_CONCURRENCY_KEY_LEN

\* encode_one, at an index that counts from 0.
EncodeError(payload, index) ==
  IF ~payload.encodes THEN (IF index = 0 THEN "Codec" ELSE "BatchCodec")
  ELSE IF payload.size > MAX_PAYLOAD_BYTES THEN "PayloadTooLarge"
  ELSE "Ok"

\* validate_concurrency_key, then encode_one.
ItemError(item, index) ==
  IF ~ValidKey(item.key) THEN "ConcurrencyKeyInvalid" ELSE EncodeError(item.payload, index)

\* total_bytes after the items up to the i-th.
Total(items, i) == MapThenSumSet(LAMBDA n : items[n].payload.size, 1..i)

\* The loop of push_batch: the first error, at an item or of the total so far.
ErrorAt(items, i) ==
  IF ItemError(items[i], i - 1) # "Ok" THEN ItemError(items[i], i - 1)
  ELSE IF Total(items, i) > MAX_BATCH_BYTES THEN "BatchPayloadTooLarge" ELSE "Ok"

LoopError(items) ==
  LET failed == {i \in DOMAIN items : ErrorAt(items, i) # "Ok"}
  IN  IF failed = {} THEN "Ok" ELSE ErrorAt(items, Min(failed))

ValidationError(op, queue, items) ==
  IF ~ValidQueue(queue) THEN "QueueNameInvalid"
  ELSE IF op # "push_batch" THEN ItemError(items[1], 0)
  ELSE IF items = <<>> THEN "BatchEmpty"
  ELSE IF Len(items) > MAX_BATCH_SIZE THEN "BatchTooLarge"
  ELSE LoopError(items)

-----------------------------------------------------------------------------

\* The CHECKs of pgwq.jobs that an INSERT can meet.
SchemaAccepts(queue, item, past) ==
  /\ queue > 0 /\ queue <= 64
  /\ item.payload.size <= 1048576
  /\ item.key = NoKey \/ (item.key >= 1 /\ item.key <= 128)
  /\ ~past

\* What the server makes of the INSERT: the SQLSTATE of its failure.
ServerError(queue, items, past) ==
  IF tx = "failed" THEN "25P02"
  ELSE IF \E i \in DOMAIN items : ~SchemaAccepts(queue, items[i], past) THEN "23514"
  ELSE "none"

\* From<sqlx::Error>.
Classify(cause) == IF cause = "23514" THEN "Constraint" ELSE "Transient"

is_retriable(error) == error = "Transient"

\* A row per item, in the order of the input, each with a public_id of its own: here the
\* call and the index.
RowsOf(items) == [i \in DOMAIN items |-> [call |-> Calls, index |-> i, tx |-> txno]]

\* Mutant: the Pusher inserts on a connection of its own.
InsertElsewhere(items) == table' = table \o RowsOf(items) /\ UNCHANGED pending

Insert(items) ==
  IF tx = "open"
  THEN pending' = pending \o RowsOf(items) /\ UNCHANGED table
  ELSE table' = table \o RowsOf(items) /\ UNCHANGED pending

Answer(op, items, error) ==
  log' = log \cup {[call |-> Calls, tx |-> txno, op |-> op, items |-> Len(items),
                    error |-> error]}

\* Mutant: push_batch inserts each item as soon as it has validated it.
PushOneByOne(op, queue, items) ==
  LET error == ValidationError(op, queue, items)
      valid == {i \in DOMAIN items : LoopError(SubSeq(items, 1, i)) = "Ok"}
  IN  /\ error # "Ok"
      /\ Insert(IF error \in {"BatchCodec", "ConcurrencyKeyInvalid"}
                THEN SubSeq(items, 1, Cardinality(valid)) ELSE <<>>)
      /\ Answer(op, items, error)
      /\ UNCHANGED <<tx, writes, txno>>

\* The input is refused before the connection is touched.
PushRefused(op, queue, items) ==
  LET error == ValidationError(op, queue, items)
  IN  /\ error # "Ok"
      /\ Answer(op, items, error)
      /\ UNCHANGED <<tx, table, pending, writes, txno>>

\* One INSERT.  In a transaction its rows wait for the commit.
PushInserts(op, queue, items, past) ==
  /\ ValidationError(op, queue, items) = "Ok"
  /\ ServerError(queue, items, past) = "none"
  /\ Insert(items)
  /\ Answer(op, items, "Ok")
  /\ UNCHANGED <<tx, writes, txno>>

\* The server rejects the statement, and with it the transaction it is in.
PushRejected(op, queue, items, past) ==
  LET cause == ServerError(queue, items, past)
  IN  /\ ValidationError(op, queue, items) = "Ok"
      /\ cause # "none"
      /\ Answer(op, items, Classify(cause))
      /\ tx' = IF tx = "none" THEN "none" ELSE "failed"
      /\ pending' = <<>>
      /\ UNCHANGED <<table, writes, txno>>

\* The connection is lost: a transaction is rolled back, but outside one the INSERT may
\* have been committed.
PushUnanswered(op, queue, items, past) ==
  /\ ValidationError(op, queue, items) = "Ok"
  /\ \/ UNCHANGED table
     \/ /\ tx = "none" /\ ServerError(queue, items, past) = "none"
        /\ table' = table \o RowsOf(items)
  /\ Answer(op, items, Classify("io"))
  /\ tx' = "closed" /\ pending' = <<>> /\ txno' = 0
  /\ UNCHANGED writes

Call(op, queue, items, past) ==
  /\ tx # "closed" /\ Calls < MaxCalls
  /\ \/ PushRefused(op, queue, items)
     \/ PushInserts(op, queue, items, past)
     \/ PushRejected(op, queue, items, past)
     \/ PushUnanswered(op, queue, items, past)

Push(queue, item) == Call("push", queue, <<item>>, FALSE)
PushAt(queue, item, past) == Call("push_at", queue, <<item>>, past)
PushBatch(queue, items) == Call("push_batch", queue, items, FALSE)

-----------------------------------------------------------------------------

\* The caller: a transaction begins with a write of its own; it is committed, answered or
\* not, or rolled back.  The COMMIT of a failed transaction is a ROLLBACK.
Begin ==
  /\ tx = "none" /\ txs < MaxTxs
  /\ tx' = "open" /\ txs' = txs + 1 /\ txno' = txs + 1
  /\ UNCHANGED <<table, pending, writes, log>>

End(next) == tx' = next /\ pending' = <<>> /\ txno' = 0 /\ UNCHANGED <<txs, log>>

Commit ==
  /\ tx = "open"
  /\ table' = table \o pending /\ writes' = writes \cup {txno}
  /\ End("none") \/ End("closed")

Rollback ==
  /\ tx \in {"open", "failed"}
  /\ End("none") \/ End("closed")
  /\ UNCHANGED <<table, writes>>

Reconnect ==
  /\ tx = "closed" /\ tx' = "none"
  /\ UNCHANGED <<table, pending, writes, txno, txs, log>>

Next ==
  \/ \E queue \in Queues :
       /\ \/ \E item \in Items : Push(queue, item)
          \/ \E item \in Items, past \in BOOLEAN : PushAt(queue, item, past)
          \/ \E items \in Batches : PushBatch(queue, items)
       /\ UNCHANGED txs
  \/ Begin \/ Commit \/ Rollback \/ Reconnect

Spec == Init /\ [][Next]_vars

-----------------------------------------------------------------------------

\* Where the rows of a call are, and whether these are all its rows, in the order of the
\* input.
At(rows, c) == {p \in DOMAIN rows : rows[p].call = c.call}

Whole(rows, c) ==
  /\ {rows[p].index : p \in At(rows, c)} = 1..c.items
  /\ \A p, q \in At(rows, c) : p < q => rows[p].index < rows[q].index
  /\ \A p \in At(rows, c) : rows[p].tx = c.tx

InTable(c) == At(table, c) # {}

\* A call's items reach the table together, in the order of the input, or not at all, and
\* not at all when the call returned an error a caller does not retry: push_batch is one
\* INSERT, issued when every item has been validated.
CallIsAtomic ==
  \A c \in log :
    /\ InTable(c) => Whole(table, c)
    /\ c.error # "Ok" /\ ~is_retriable(c.error) => ~InTable(c)

\* "Job insert and your business write commit atomically": of the calls made in a
\* transaction, those that returned Ok have their rows in the table exactly when the
\* caller's own write is committed, and the others have none.
CommitsWithWrite ==
  \A c \in log :
    c.tx # 0 /\ c.tx # txno =>
      (InTable(c) <=> (c.tx \in writes /\ c.error = "Ok"))

\* What the library's validation lets through the schema's CHECKs accept: a constraint is
\* met only by a push_at into the past.
ConstraintOnlyFromPast == \A c \in log : c.error = "Constraint" => c.op = "push_at"

-----------------------------------------------------------------------------
\* What the three rest on.

\* Without BatchPartial, which a single INSERT never causes.
PushErrors == {"QueueNameInvalid", "ConcurrencyKeyInvalid", "Codec", "BatchCodec",
               "PayloadTooLarge", "BatchEmpty", "BatchTooLarge", "BatchPayloadTooLarge",
               "Constraint", "Transient"}

Row == [call : Nat, index : Nat, tx : Nat]
Logged == [call : Nat, tx : Nat, op : {"push", "push_at", "push_batch"}, items : Nat,
           error : PushErrors \cup {"Ok"}]

TypeOK ==
  /\ tx \in {"none", "open", "failed", "closed"} /\ txs \in Nat /\ txno \in 0..txs
  /\ table \in Seq(Row) /\ pending \in Seq(Row)
  /\ writes \subseteq 1..txs
  /\ log \subseteq Logged /\ IsFiniteSet(log)

\* A transaction is open or failed; only an open one has rows waiting for its commit, and
\* its number is not used for anything committed.
TxInv ==
  /\ txno # 0 <=> tx \in {"open", "failed"}
  /\ txno \notin writes
  /\ tx # "open" => pending = <<>>

\* Calls are numbered as they are made.
NumberInv ==
  /\ \A c \in log : c.call < Calls /\ c.tx <= txs
  /\ \A c, d \in log : c.call = d.call => c = d
  /\ \A p \in DOMAIN table : table[p].call < Calls
  /\ \A p \in DOMAIN pending : pending[p].call < Calls

\* The rows of a call are all in the table or all in the open transaction, where those of
\* every successful call of that transaction are.
CallInv(c) ==
  /\ c.error = "Ok" => c.items > 0
  /\ At(table, c) # {} => Whole(table, c) /\ c.error \in {"Ok", "Transient"}
  /\ At(pending, c) # {} => Whole(pending, c) /\ c.error = "Ok" /\ c.tx = txno
  /\ c.tx # 0 /\ c.tx = txno => At(table, c) = {}
  /\ c.tx = txno /\ tx = "open" /\ c.error = "Ok" => At(pending, c) # {}
  /\ c.tx # 0 /\ c.tx # txno => (At(table, c) # {} <=> (c.tx \in writes /\ c.error = "Ok"))

PushInv ==
  TypeOK /\ TxInv /\ NumberInv /\ ConstraintOnlyFromPast /\ \A c \in log : CallInv(c)
=============================================================================
