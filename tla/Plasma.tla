-------------------------------- MODULE Plasma --------------------------------
(***************************************************************************)
(* The PlasmaOperator (src/layer2_solutions/sidechains/plasma/            *)
(* plasma_operator.py) and the PlasmaExitManager (plasma_exit.py) of one   *)
(* Plasma chain.                                                           *)
(*                                                                         *)
(* The operator batches pending transactions into numbered blocks, at most *)
(* one per block_interval_seconds; the exit manager queues exit requests   *)
(* and completes them oldest first.  The two classes share no state: an    *)
(* exit names a block number and nothing checks it against the operator's  *)
(* blocks.  The clock is now; every time.time() read of one call sees the  *)
(* same value.  A block hash is the digest of number, transactions and     *)
(* timestamp, the triple itself here.  added and requested are history     *)
(* variables: every transaction added and every exit requested, in order.  *)
(***************************************************************************)
EXTENDS Integers, SequencesExt

CONSTANTS
    Txs,            \* transaction dicts a caller adds
    Users,          \* user addresses requesting exits
    ExitAmounts,    \* amount values passed to request_exit
    BlockNumbers,   \* block_number values passed to request_exit
    BlockInterval,  \* block_interval_seconds
    MaxAdded,       \* bound on the transactions added
    MaxExits,       \* bound on the exits requested
    MaxTime         \* bound on the clock

VARIABLES pending_transactions, blocks, last_block_time, added,
          exit_queue, completed_exits, requested, now

operator_vars == <<pending_transactions, blocks, last_block_time, added>>
exit_vars == <<exit_queue, completed_exits, requested>>
vars == <<operator_vars, exit_vars, now>>

\* _calculate_block_hash: sha256 of number, transactions and timestamp.
CalculateBlockHash(b) == <<b.block_number, b.transactions, b.timestamp>>

Init ==
    /\ pending_transactions = <<>>
    /\ blocks = <<>>
    /\ last_block_time = 0
    /\ added = <<>>
    /\ exit_queue = <<>>
    /\ completed_exits = <<>>
    /\ requested = <<>>
    /\ now = 0

\* add_transaction: append to the pool, no check.
AddTransaction(tx) ==
    /\ Len(added) < MaxAdded
    /\ pending_transactions' = Append(pending_transactions, tx)
    /\ added' = Append(added, tx)
    /\ UNCHANGED <<blocks, last_block_time, exit_vars, now>>

\* Mutant of create_block: last_block_time not advanced.
CreateBlockNoTimeUpdate ==
    LET data == [block_number |-> Len(blocks) + 1,
                 transactions |-> pending_transactions, timestamp |-> now]
    IN  /\ pending_transactions /= <<>>
        /\ now - last_block_time >= BlockInterval
        /\ blocks' = Append(blocks, data @@ [block_hash |-> CalculateBlockHash(data)])
        /\ pending_transactions' = <<>>
        /\ UNCHANGED <<last_block_time, added, exit_vars, now>>

\* Mutant of create_block: the pool not cleared.
CreateBlockKeepsPending ==
    LET data == [block_number |-> Len(blocks) + 1,
                 transactions |-> pending_transactions, timestamp |-> now]
    IN  /\ pending_transactions /= <<>>
        /\ now - last_block_time >= BlockInterval
        /\ blocks' = Append(blocks, data @@ [block_hash |-> CalculateBlockHash(data)])
        /\ last_block_time' = now
        /\ UNCHANGED <<pending_transactions, added, exit_vars, now>>

\* create_block: nothing without pending transactions or before the
\* interval has passed since the last block; otherwise the pool becomes
\* block len(blocks) + 1 with its hash, the pool is emptied and the block
\* time recorded.
CreateBlock ==
    LET data == [block_number |-> Len(blocks) + 1,
                 transactions |-> pending_transactions, timestamp |-> now]
    IN  /\ pending_transactions /= <<>>
        /\ now - last_block_time >= BlockInterval
        /\ blocks' = Append(blocks, data @@ [block_hash |-> CalculateBlockHash(data)])
        /\ pending_transactions' = <<>>
        /\ last_block_time' = now
        /\ UNCHANGED <<added, exit_vars, now>>

\* request_exit: ValueError unless amount > 0; the request is queued with
\* status "pending".  Neither the block number nor the user is checked.
RequestExit(u, a, bn) ==
    /\ a > 0
    /\ Len(requested) < MaxExits
    /\ exit_queue' = Append(exit_queue, [user_address |-> u, amount |-> a,
                                         block_number |-> bn, status |-> "pending"])
    /\ requested' = Append(requested, [user_address |-> u, amount |-> a, block_number |-> bn])
    /\ UNCHANGED <<operator_vars, completed_exits, now>>

\* Mutant of process_exit: the status update left out.
ProcessExitNoStatus ==
    /\ exit_queue /= <<>>
    /\ exit_queue' = Tail(exit_queue)
    /\ completed_exits' = Append(completed_exits, Head(exit_queue))
    /\ UNCHANGED <<operator_vars, requested, now>>

\* Mutant of process_exit: pop() takes the newest request.
ProcessExitNewest ==
    /\ exit_queue /= <<>>
    /\ exit_queue' = Front(exit_queue)
    /\ completed_exits' = Append(completed_exits,
                                 [Last(exit_queue) EXCEPT !.status = "completed"])
    /\ UNCHANGED <<operator_vars, requested, now>>

\* process_exit: False on an empty queue; otherwise pop(0), mark it
\* completed and append it to the completed exits.
ProcessExit ==
    /\ exit_queue /= <<>>
    /\ exit_queue' = Tail(exit_queue)
    /\ completed_exits' = Append(completed_exits,
                                 [Head(exit_queue) EXCEPT !.status = "completed"])
    /\ UNCHANGED <<operator_vars, requested, now>>

\* verify_exit: whether a completed exit names this user and block.
VerifyExit(u, bn) ==
    \E i \in DOMAIN completed_exits :
        completed_exits[i].user_address = u /\ completed_exits[i].block_number = bn

Tick ==
    /\ now < MaxTime
    /\ now' = now + 1
    /\ UNCHANGED <<operator_vars, exit_vars>>

Next ==
    \/ \E tx \in Txs : AddTransaction(tx)
    \/ CreateBlock
    \/ \E u \in Users, a \in ExitAmounts, bn \in BlockNumbers : RequestExit(u, a, bn)
    \/ ProcessExit
    \/ Tick

Spec == Init /\ [][Next]_vars

-----------------------------------------------------------------------------
(* Properties                                                              *)

TypeOK ==
    /\ pending_transactions \in Seq(Txs)
    /\ \A i \in DOMAIN blocks : blocks[i].transactions \in Seq(Txs) \ {<<>>}
    /\ last_block_time \in 0 .. MaxTime
    /\ \A i \in DOMAIN exit_queue : exit_queue[i].status = "pending"
    /\ \A i \in DOMAIN completed_exits : completed_exits[i].status = "completed"
    /\ now \in 0 .. MaxTime

\* Every transaction ever added is in exactly one place: the blocks, in
\* order, followed by the pool, give back the sequence of additions.
TransactionsInOneBlock ==
    FlattenSeq([i \in DOMAIN blocks |-> blocks[i].transactions]) \o pending_transactions
      = added

\* Blocks are numbered 1, 2, ... in creation order and each is created at
\* least block_interval_seconds after the previous one (the first, after
\* the operator started).
BlocksSpaced ==
    \A i \in DOMAIN blocks :
        /\ blocks[i].block_number = i
        /\ blocks[i].timestamp - (IF i = 1 THEN 0 ELSE blocks[i - 1].timestamp) >= BlockInterval

\* Exits complete in the order they were requested: the completed exits,
\* then the queue, are the requests in order.
Request(e) == [user_address |-> e.user_address, amount |-> e.amount,
               block_number |-> e.block_number]
ExitsFifo ==
    [i \in DOMAIN completed_exits |-> Request(completed_exits[i])]
      \o [i \in DOMAIN exit_queue |-> Request(exit_queue[i])]
      = requested

\* An exit only withdraws from a block the operator has created, and a
\* user withdraws from one block at most once: whatever verify_exit vouches
\* for names a created block and a single completed exit.
ExitsBacked ==
    \A u \in Users, bn \in BlockNumbers :
        VerifyExit(u, bn) =>
            /\ bn \in 1 .. Len(blocks)
            /\ \A i, j \in DOMAIN completed_exits :
                 /\ completed_exits[i].user_address = u /\ completed_exits[i].block_number = bn
                 /\ completed_exits[j].user_address = u /\ completed_exits[j].block_number = bn
                 => i = j
==============================================================================
