------------------------------- MODULE Sharding -------------------------------
(***************************************************************************)
(* The ShardManager of src/blockchain/sharding/shard_manager.py with the   *)
(* CrossShardCommunication of cross_shard_communication.py that drives it. *)
(*                                                                         *)
(* The manager is the record m of its four attributes.  shard_metadata is  *)
(* a dict: a function whose domain is the live shard ids; its insertion    *)
(* order is the order of the shard numbers, since a new shard always takes *)
(* the number shard_count and shard_count never decreases.                 *)
(* shard_transactions and node_assignments are defaultdicts: total         *)
(* functions over every id the model can name, an absent key being the     *)
(* empty list or set.  A transaction is a model value with a sender; the   *)
(* integer of the sender's sha256 digest is the constant SenderHash.  A    *)
(* call that raises is a result with out = "raised": the effects of the    *)
(* steps before the raise stay.  A call that would need more than          *)
(* MaxShardCount shards has out = "bound" and is not taken.                *)
(***************************************************************************)
EXTENDS Integers, SequencesExt, FiniteSets

CONSTANTS
    Senders,                  \* transaction senders
    SenderHash,               \* Senders -> int(sha256(sender), 16), reduced
    Txs,                      \* transactions; each has a sender
    SenderOf,                 \* Txs -> Senders
    Nodes,                    \* node ids a caller assigns to shards
    Updates,                  \* state updates synchronize_state may carry
    InitialShardCount,        \* __init__'s shard_count
    MaxTransactionsPerShard,  \* __init__'s max_transactions_per_shard
    MaxShardCount,            \* bound on shard_count
    MaxQueue,                 \* bound on the length of message_queue
    Payloads,                 \* payloads of ShardMessageHandler messages
    Drift,                    \* validate_message's 300 s tolerance, in ticks
    MaxTime,                  \* bound on the clock
    HandlerShards             \* shard ids a caller addresses handler messages to

\* f"shard_{i}": distinct numbers give distinct names.
ShardName(i) == <<"shard", i>>
ShardIds == { ShardName(i) : i \in 0 .. MaxShardCount - 1 }
Index(sid) == sid[2]

NewMetadata == [transaction_count |-> 0, nodes |-> {}]

\* _initialize_shards and the two defaultdicts.
InitialManager ==
    [shard_count        |-> InitialShardCount,
     shard_metadata     |-> [s \in { ShardName(i) : i \in 0 .. InitialShardCount - 1 } |-> NewMetadata],
     shard_transactions |-> [s \in ShardIds |-> <<>>],
     node_assignments   |-> [s \in ShardIds |-> {}]]

Result(m, out) == [m |-> m, out |-> out]

\* Mutant of _create_new_shard: the new shard named after the number of
\* live shards instead of shard_count.
CreateNewShardByLen(m) ==
    LET new == ShardName(Cardinality(DOMAIN m.shard_metadata))
    IN  [m EXCEPT !.shard_metadata = (new :> NewMetadata) @@ @,
                  !.shard_count = @ + 1]

\* Mutant of _create_new_shard: the new shard numbered one past shard_count.
CreateNewShardOffByOne(m) ==
    [m EXCEPT !.shard_metadata = (ShardName(m.shard_count + 1) :> NewMetadata) @@ @,
              !.shard_count = @ + 1]

\* _create_new_shard: a fresh entry under shard_{shard_count}, then
\* shard_count += 1.
CreateNewShard(m) ==
    LET new == ShardName(m.shard_count)
    IN  [m EXCEPT !.shard_metadata = (new :> NewMetadata) @@ @,
                  !.shard_count = @ + 1]

\* The shard the sender's digest selects under the current shard_count.
SenderShard(m, tx) == ShardName(SenderHash[SenderOf[tx]] % m.shard_count)

\* assign_transaction_to_shard: append to the sender's shard if it is below
\* capacity, then bump its metadata count (a KeyError if that shard was
\* deleted, the append done); at capacity, create a new shard and retry
\* under the new modulus.
RECURSIVE AssignTransactionToShard(_, _)
AssignTransactionToShard(m, tx) ==
    LET sid      == SenderShard(m, tx)
        appended == [m EXCEPT !.shard_transactions[sid] = Append(@, tx)]
    IN  CASE Len(m.shard_transactions[sid]) < MaxTransactionsPerShard
               /\ sid \in DOMAIN m.shard_metadata ->
                 Result([appended EXCEPT !.shard_metadata[sid].transaction_count = @ + 1], "ok")
          [] Len(m.shard_transactions[sid]) < MaxTransactionsPerShard ->
                 Result(appended, "raised")
          [] m.shard_count = MaxShardCount -> Result(m, "bound")
          [] OTHER -> AssignTransactionToShard(CreateNewShard(m), tx)

\* assign_node_to_shard: the first live shard, in insertion order, with the
\* fewest nodes; min() of no shards raises ValueError.
AssignNodeToShard(m, node) ==
    LET live == DOMAIN m.shard_metadata
        load(s) == Cardinality(m.node_assignments[s])
        sid  == CHOOSE s \in live :
                    \A t \in live : load(s) < load(t) \/ (load(s) = load(t) /\ Index(s) <= Index(t))
    IN  IF live = {} THEN Result(m, "raised")
        ELSE Result([m EXCEPT !.node_assignments[sid] = @ \cup {node},
                              !.shard_metadata[sid].nodes = @ \cup {node}], "ok")

\* delete_shard's transaction loop: a Python for over the list of sid, which
\* sees the entries appended to that same list while it runs.
RECURSIVE RedistributeTransactions(_, _, _)
RedistributeTransactions(r, sid, i) ==
    IF r.out /= "ok" \/ i > Len(r.m.shard_transactions[sid]) THEN r
    ELSE RedistributeTransactions(
             AssignTransactionToShard(r.m, r.m.shard_transactions[sid][i]), sid, i + 1)

\* delete_shard's node loop, in the set's iteration order.
RECURSIVE RedistributeNodes(_, _)
RedistributeNodes(r, order) ==
    IF r.out /= "ok" \/ order = <<>> THEN r
    ELSE RedistributeNodes(AssignNodeToShard(r.m, Head(order)), Tail(order))

\* Mutant of delete_shard: the three entries deleted before the
\* redistribution.
DeleteShardFirst(m, sid, order) ==
    LET dropped == [m EXCEPT !.shard_metadata = [s \in DOMAIN @ \ {sid} |-> @[s]],
                             !.shard_transactions[sid] = <<>>,
                             !.node_assignments[sid] = {}]
        txs     == [i \in 1 .. Len(m.shard_transactions[sid]) |-> m.shard_transactions[sid][i]]
        RECURSIVE Each(_, _)
        Each(r, i) == IF r.out /= "ok" \/ i > Len(txs) THEN r
                      ELSE Each(AssignTransactionToShard(r.m, txs[i]), i + 1)
    IN  IF sid \notin DOMAIN m.shard_metadata THEN Result(m, "ok")
        ELSE RedistributeNodes(Each(Result(dropped, "ok"), 1), order)

\* delete_shard: nothing for an unknown id; otherwise redistribute the
\* transactions, then the nodes (while the shard is still live), then
\* delete the three entries.
DeleteShard(m, sid, order) ==
    LET moved == RedistributeNodes(RedistributeTransactions(Result(m, "ok"), sid, 1), order)
    IN  CASE sid \notin DOMAIN m.shard_metadata -> Result(m, "ok")
          [] moved.out /= "ok"                  -> moved
          [] OTHER -> Result([moved.m EXCEPT
                                !.shard_metadata = [s \in DOMAIN @ \ {sid} |-> @[s]],
                                !.shard_transactions[sid] = <<>>,
                                !.node_assignments[sid] = {}], "ok")

\* _generate_message_id: the digest of the json dump of the data.
MessageId(data) == [sha256 |-> data]

\* CrossShardCommunication.process_message: a cross-shard transaction whose
\* destination is live is handed to assign_transaction_to_shard; any other
\* message changes nothing.
ProcessMessageResult(m, msg) ==
    IF msg.type = "cross_shard_transaction" /\ msg.destination_shard \in DOMAIN m.shard_metadata
    THEN AssignTransactionToShard(m, msg.transaction)
    ELSE Result(m, "ok")

VARIABLES
    shard_count, shard_metadata, shard_transactions, node_assignments,
    message_queue,  \* CrossShardCommunication.message_queue
    submitted,      \* history: transactions an assignment call accepted
    handler_queue,  \* ShardMessageHandler.message_queue (a defaultdict)
    processed_messages,
    now,            \* time.time()
    created,        \* the handler messages the caller holds
    handled         \* history: messages whose callback returned

manager_vars == <<shard_count, shard_metadata, shard_transactions, node_assignments,
                  message_queue, submitted>>
handler_vars == <<handler_queue, processed_messages, now, created, handled>>
vars == <<manager_vars, handler_vars>>

Manager == [shard_count |-> shard_count, shard_metadata |-> shard_metadata,
            shard_transactions |-> shard_transactions, node_assignments |-> node_assignments]

SetManager(m) ==
    /\ shard_count' = m.shard_count
    /\ shard_metadata' = m.shard_metadata
    /\ shard_transactions' = m.shard_transactions
    /\ node_assignments' = m.node_assignments

Init ==
    /\ shard_count = InitialManager.shard_count
    /\ shard_metadata = InitialManager.shard_metadata
    /\ shard_transactions = InitialManager.shard_transactions
    /\ node_assignments = InitialManager.node_assignments
    /\ message_queue = <<>>
    /\ submitted = {}
    /\ handler_queue = [s \in ShardIds |-> <<>>]
    /\ processed_messages = {}
    /\ now = 0
    /\ created = {}
    /\ handled = {}

\* A caller assigns a transaction it has not had accepted yet.
SubmitTransaction(tx) ==
    LET r == AssignTransactionToShard(Manager, tx)
    IN  /\ tx \notin submitted
        /\ r.out /= "bound"
        /\ SetManager(r.m)
        /\ submitted' = IF r.out = "ok" THEN submitted \cup {tx} ELSE submitted
        /\ UNCHANGED <<message_queue, handler_vars>>

\* A caller assigns a node that no shard holds.
AssignNode(node) ==
    LET r == AssignNodeToShard(Manager, node)
    IN  /\ \A s \in ShardIds : node \notin node_assignments[s]
        /\ SetManager(r.m)
        /\ UNCHANGED <<message_queue, submitted, handler_vars>>

\* delete_shard(sid), the node set iterated in any order.
DeleteShardAction(sid) ==
    \E order \in SetToSeqs(node_assignments[sid]) :
        LET r == DeleteShard(Manager, sid, order)
        IN  /\ r.out /= "bound"
            /\ SetManager(r.m)
            /\ UNCHANGED <<message_queue, submitted, handler_vars>>

\* create_cross_shard_transaction of a transaction no shard has accepted yet:
\* append the message (its source shard is never read, and left out).
CreateCrossShardTransaction(dst, tx) ==
    /\ tx \notin submitted
    /\ Len(message_queue) < MaxQueue
    /\ message_queue' = Append(message_queue,
           [type |-> "cross_shard_transaction", destination_shard |-> dst,
            transaction |-> tx, message_id |-> MessageId(tx)])
    /\ UNCHANGED <<shard_count, shard_metadata, shard_transactions, node_assignments, submitted, handler_vars>>

\* synchronize_state: append a state_sync message.
SynchronizeState(dst, u) ==
    /\ Len(message_queue) < MaxQueue
    /\ message_queue' = Append(message_queue,
           [type |-> "state_sync", destination_shard |-> dst,
            state_update |-> u, message_id |-> MessageId(u)])
    /\ UNCHANGED <<shard_count, shard_metadata, shard_transactions, node_assignments, submitted, handler_vars>>

\* process_message of a message the caller holds: the queue keeps it.
ProcessMessage(i) ==
    LET msg == message_queue[i]
        r   == ProcessMessageResult(Manager, msg)
        delivered == msg.type = "cross_shard_transaction"
                       /\ msg.destination_shard \in DOMAIN shard_metadata
    IN  /\ r.out /= "bound"
        /\ SetManager(r.m)
        /\ submitted' = IF delivered /\ r.out = "ok" THEN submitted \cup {msg.transaction}
                                                     ELSE submitted
        /\ UNCHANGED <<message_queue, handler_vars>>

\* clear_processed_messages: empty the whole queue.
ClearProcessedMessages ==
    /\ message_queue' = <<>>
    /\ UNCHANGED <<shard_count, shard_metadata, shard_transactions, node_assignments, submitted, handler_vars>>

\* ShardMessageHandler.create_message: the id digests the type, the shards
\* and the payload, not the timestamp (type and source are fixed here).
CreateMessage(dst, p) ==
    [destination_shard |-> dst, timestamp |-> now, payload |-> p,
     message_id |-> MessageId(<<dst, p>>)]

\* validate_message: every required field is present in a created message;
\* a known id is a duplicate; a timestamp more than Drift away is refused.
ValidateMessage(msg, processed) ==
    /\ msg.message_id \notin processed
    /\ now - msg.timestamp <= Drift
    /\ msg.timestamp - now <= Drift

\* process_messages' loop: pop the head, hand a valid message to the
\* callback, then record its id.  raiseAt is the number of the callback
\* call that raises (0: none); the raise ends the call with that message
\* popped and not recorded.
RECURSIVE ProcessLoop(_, _, _, _)
ProcessLoop(q, processed, done, raiseAt) ==
    IF q = <<>> THEN [q |-> q, processed |-> processed, done |-> done]
    ELSE LET msg == Head(q) IN
         CASE ~ValidateMessage(msg, processed) ->
                  ProcessLoop(Tail(q), processed, done, raiseAt)
           [] raiseAt = 1 -> [q |-> Tail(q), processed |-> processed, done |-> done]
           [] OTHER -> ProcessLoop(Tail(q), processed \cup {msg.message_id},
                                   Append(done, msg), raiseAt - 1)

\* route_message: refuse a destination that is not a live shard, else queue.
RouteMessage(msg) ==
    /\ msg.destination_shard \in DOMAIN shard_metadata
    /\ Len(handler_queue[msg.destination_shard]) < MaxQueue
    /\ handler_queue' = [handler_queue EXCEPT ![msg.destination_shard] = Append(@, msg)]
    /\ created' = created \cup {msg}
    /\ UNCHANGED <<manager_vars, processed_messages, now, handled>>

\* The result of process_messages(sid, callback) when the raiseAt-th
\* callback call raises.
ProcessResult(sid, raiseAt) == ProcessLoop(handler_queue[sid], processed_messages, <<>>, raiseAt)

\* process_messages(sid, callback).
ProcessMessages(sid, raiseAt) ==
    LET r == ProcessResult(sid, raiseAt)
    IN  /\ handler_queue[sid] /= <<>>
        /\ handler_queue' = [handler_queue EXCEPT ![sid] = r.q]
        /\ processed_messages' = r.processed
        /\ handled' = handled \cup Range(r.done)
        /\ UNCHANGED <<manager_vars, now, created>>

\* ShardMessageHandler.clear_processed_messages.
ClearHandlerProcessedMessages ==
    /\ processed_messages /= {}
    /\ processed_messages' = {}
    /\ UNCHANGED <<manager_vars, handler_queue, now, created, handled>>

Tick ==
    /\ now < MaxTime
    /\ now' = now + 1
    /\ UNCHANGED <<manager_vars, handler_queue, processed_messages, created, handled>>

Next ==
    \/ \E tx \in Txs : SubmitTransaction(tx)
    \/ \E n \in Nodes : AssignNode(n)
    \/ \E sid \in ShardIds : DeleteShardAction(sid)
    \/ \E dst \in ShardIds, tx \in Txs : CreateCrossShardTransaction(dst, tx)
    \/ \E dst \in ShardIds, u \in Updates : SynchronizeState(dst, u)
    \/ \E i \in 1 .. Len(message_queue) : ProcessMessage(i)
    \/ ClearProcessedMessages
    \/ \E dst \in HandlerShards, p \in Payloads : RouteMessage(CreateMessage(dst, p))
    \/ \E msg \in created : RouteMessage(msg)
    \/ \E sid \in ShardIds, k \in 0 .. MaxQueue : ProcessMessages(sid, k)
    \/ ClearHandlerProcessedMessages
    \/ Tick

Spec == Init /\ [][Next]_vars

-----------------------------------------------------------------------------
(* Properties                                                              *)

TypeOK ==
    /\ shard_count \in InitialShardCount .. MaxShardCount
    /\ DOMAIN shard_metadata \subseteq ShardIds
    /\ \A s \in DOMAIN shard_metadata : Index(s) < shard_count
    /\ shard_transactions \in [ShardIds -> Seq(Txs)]
    /\ node_assignments \in [ShardIds -> SUBSET Nodes]
    /\ Len(message_queue) <= MaxQueue
    /\ submitted \subseteq Txs

\* The count in a live shard's metadata is the length of its transaction
\* list: assign_transaction_to_shard appends and counts together, the
\* capacity retry and delete_shard's redistribution included, and a new
\* shard never takes over the list of one that existed.
TxCountMatches ==
    \A s \in DOMAIN shard_metadata :
        shard_metadata[s].transaction_count = Len(shard_transactions[s])

\* delete_shard "redistributes its transactions and nodes": a deletion
\* leaves every node that a live shard held in some live shard.
LiveNodes == UNION { node_assignments[s] : s \in DOMAIN shard_metadata }
NodesNotLost == [][\A sid \in ShardIds : DeleteShardAction(sid) => LiveNodes' = LiveNodes]_vars

\* Every accepted transaction is held by a live shard, across capacity
\* retries and shard deletions.
TransactionsNotLost ==
    \A tx \in submitted : \E s \in DOMAIN shard_metadata : tx \in Range(shard_transactions[s])

\* A transaction accepted once is held once: redistribution never copies it.
NoTransactionTwice ==
    \A tx \in submitted :
        Cardinality(UNION { { <<s, i>> : i \in { j \in 1 .. Len(shard_transactions[s]) :
                                                      shard_transactions[s][j] = tx } } :
                            s \in DOMAIN shard_metadata }) <= 1

\* _handle_cross_shard_transaction "delivers the transaction to the
\* destination shard": after process_message of a cross-shard transaction
\* whose destination is live, the destination holds it.
DeliveredToDestination ==
    [][\A i \in 1 .. Len(message_queue) :
         ProcessMessage(i) /\ message_queue[i].type = "cross_shard_transaction"
           /\ message_queue[i].destination_shard \in DOMAIN shard_metadata
           => message_queue[i].transaction \in Range(shard_transactions'[message_queue[i].destination_shard])]_vars

\* ShardMessageHandler keeps processed_messages "for deduplication": no
\* message is handed to the callback twice, however often it is routed, and
\* whatever clear_processed_messages does in between.
HandledOnce ==
    [][\A sid \in ShardIds, k \in 0 .. MaxQueue :
         ProcessMessages(sid, k) => Range(ProcessResult(sid, k).done) \cap handled = {}]_vars

\* route_message only queues for a live shard, so the callback only sees
\* messages of live shards, even after delete_shard removes one.
HandledForLiveShard ==
    [][\A sid \in ShardIds, k \in 0 .. MaxQueue :
         ProcessMessages(sid, k) /\ ProcessResult(sid, k).done /= <<>> =>
             sid \in DOMAIN shard_metadata]_vars

\* process_messages drops no message: each one it pops is handed to the
\* callback, was handed to it before, or is stale.
Stale(msg) == now - msg.timestamp > Drift
NoMessageDropped ==
    [][\A sid \in ShardIds, k \in 0 .. MaxQueue :
         ProcessMessages(sid, k) =>
             \A i \in 1 .. Len(handler_queue[sid]) - Len(handler_queue'[sid]) :
                 handler_queue[sid][i] \in handled' \cup handled \/ Stale(handler_queue[sid][i])]_vars
==============================================================================
