---------------------------- MODULE MCPushTx ----------------------------
EXTENDS PushTx

Json(size) == [encodes |-> TRUE, size |-> size]
Item(payload, key) == [payload |-> payload, key |-> key]

Small == Item(Json(100), 5)
Full == Item(Json(MAX_PAYLOAD_BYTES), NoKey)
Rejected == Item([encodes |-> FALSE, size |-> 0], NoKey)
LongKey == Item(Json(1), MAX_CONCURRENCY_KEY_LEN + 1)

MCQueues == {0, MAX_QUEUE_LEN, MAX_QUEUE_LEN + 1}

\* Each side of every limit.
MCItems == {Small, Full, Rejected, LongKey, Item(Json(MAX_PAYLOAD_BYTES + 1), NoKey),
            Item(Json(0), 0), Item(Json(1), MAX_CONCURRENCY_KEY_LEN)}

\* At most three items, and two full payloads.
TwoPayloads == 2 * MAX_PAYLOAD_BYTES

MCBatches == {<<>>, <<Small>>, <<Small, Small>>, <<Rejected>>, <<Small, Rejected>>,
              <<Small, LongKey>>,
              <<Full, Full>>, <<Full, Full, Small>>, <<Small, Small, Small, Small>>}
=============================================================================
