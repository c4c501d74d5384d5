---------------------------- MODULE BatchProcessor ----------------------------
(***************************************************************************)
(* BatchProcessor of src/layer2_solutions/aggregator/batch_processor.py,   *)
(* driven by one caller thread.                                            *)
(*                                                                         *)
(* A transaction is its id; a dict without "id" is refused by             *)
(* add_transaction with no change and is left out.  process_batch reads    *)
(* the clock only as time.time() - last_batch_time against                 *)
(* timeout_seconds, so the clock is waited, that difference capped at the  *)
(* timeout: a tick past it is not observable.  A batch is the list of its  *)
(* transactions; its batch_id is its position and its timestamp is not     *)
(* read.  flushing is true while flush_pending_transactions is in its      *)
(* while loop, whose process_batch calls return False and spin until the  *)
(* clock reaches the timeout.                                              *)
(***************************************************************************)
EXTENDS Integers, Sequences, SequencesExt, TLC

CONSTANTS
    Txs,          \* transaction ids
    BatchSize,    \* batch_size
    Timeout,      \* timeout_seconds
    MaxAdded,     \* bound on add_transaction calls
    MaxBatches    \* bound on batches made outside a flush

VARIABLES pending, batches, waited, flushing, added

vars == <<pending, batches, waited, flushing, added>>

Init ==
    /\ pending = <<>>
    /\ batches = <<>>
    /\ waited = 0
    /\ flushing = FALSE
    /\ added = <<>>

\* add_transaction: appended to pending_transactions.
AddTransaction(t) ==
    /\ ~flushing
    /\ Len(added) < MaxAdded
    /\ pending' = Append(pending, t)
    /\ added' = Append(added, t)
    /\ UNCHANGED <<batches, waited, flushing>>

\* Mutant of process_batch's condition: the timeout branch left out.
BatchConditionsMetSizeOnly == Len(pending) >= BatchSize

\* process_batch goes on unless fewer than batch_size transactions wait
\* and the timeout has not passed.
BatchConditionsMet == ~(Len(pending) < BatchSize /\ waited < Timeout)

\* The batch: the first batch_size pending transactions, removed from
\* pending and appended to batches; last_batch_time is reset.
MakeBatch ==
    LET n == IF BatchSize < Len(pending) THEN BatchSize ELSE Len(pending)
    IN /\ batches' = Append(batches, SubSeq(pending, 1, n))
       /\ pending' = SubSeq(pending, n + 1, Len(pending))
       /\ waited' = 0

\* process_batch called by the caller; a False answer changes nothing.
ProcessBatch ==
    /\ ~flushing
    /\ Len(batches) < MaxBatches
    /\ BatchConditionsMet
    /\ MakeBatch
    /\ UNCHANGED <<flushing, added>>

\* flush_pending_transactions: the loop runs while transactions are pending.
FlushPendingTransactions ==
    /\ ~flushing
    /\ flushing' = (pending /= <<>>)
    /\ UNCHANGED <<pending, batches, waited, added>>

\* One process_batch call of the loop that makes a batch; the loop ends
\* once pending_transactions is empty.
FlushIteration ==
    /\ flushing
    /\ BatchConditionsMet
    /\ MakeBatch
    /\ flushing' = (pending' /= <<>>)
    /\ UNCHANGED added

\* time.time() advances.
Tick ==
    /\ waited < Timeout
    /\ waited' = waited + 1
    /\ UNCHANGED <<pending, batches, flushing, added>>

Next ==
    \/ \E t \in Txs : AddTransaction(t)
    \/ ProcessBatch
    \/ FlushPendingTransactions
    \/ FlushIteration
    \/ Tick

\* The clock runs, and the loop calls process_batch again and again.
Fairness == WF_vars(Tick) /\ WF_vars(FlushIteration)

Spec == Init /\ [][Next]_vars /\ Fairness

-----------------------------------------------------------------------------
(* Properties                                                              *)

TypeOK ==
    /\ pending \in Seq(Txs) /\ added \in Seq(Txs) /\ batches \in Seq(Seq(Txs))
    /\ Len(pending) <= MaxAdded
    /\ waited \in 0 .. Timeout
    /\ flushing \in BOOLEAN

\* A flush returns: once flush_pending_transactions has started its loop,
\* it eventually empties pending_transactions, by filling a batch or,
\* with fewer than batch_size left, by waiting out timeout_seconds.
FlushTerminates == flushing ~> ~flushing
==============================================================================
