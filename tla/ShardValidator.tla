---------------------------- MODULE ShardValidator ----------------------------
(***************************************************************************)
(* ShardValidator of src/blockchain/sharding/shard_validator.py.           *)
(*                                                                         *)
(* utxos is shard_state["utxos"], (tx_id, index) -> output record.         *)
(* _validate_state_transitions works on shard_state.copy(), a shallow      *)
(* copy: its "utxos" is the validator's own dict, so the deletions and     *)
(* insertions of the state-transition pass land in utxos.  A transaction   *)
(* or block record carries ok, whether the structure checks pass (the      *)
(* required fields are present, inputs and outputs are lists, the block    *)
(* timestamp is not in the future); _verify_signature always answers True. *)
(* results lists validate_block's answers, one per call.                  *)
(***************************************************************************)
EXTENDS Integers, Sequences, SequencesExt, Functions, TLC

CONSTANTS
    InitialUtxos,     \* shard_state["utxos"] at construction
    Blocks,           \* blocks validate_block is called with
    MaxValidations    \* bound on the number of calls

VARIABLES utxos, results

vars == <<utxos, results>>

Init ==
    /\ utxos = InitialUtxos
    /\ results = <<>>

\* The amounts of a list of UTXOs or outputs, duplicates counted each time.
AmountSum(s) == FoldLeft(LAMBDA acc, o : acc + o.amount, 0, s)

\* Mutant of validate_transaction: the input_sum check left out.
ValidateTransactionNoSum(tx) ==
    /\ tx.ok
    /\ \A i \in DOMAIN tx.inputs :
         tx.inputs[i] \in DOMAIN utxos /\ utxos[tx.inputs[i]].receiver = tx.sender

\* validate_transaction: structure, every input an unspent output of the
\* sender (input_sum adds an input listed twice twice), input_sum at least
\* output_sum plus fee.  It reads utxos and writes nothing.
ValidateTransaction(tx) ==
    /\ tx.ok
    /\ \A i \in DOMAIN tx.inputs :
         tx.inputs[i] \in DOMAIN utxos /\ utxos[tx.inputs[i]].receiver = tx.sender
    /\ AmountSum([i \in DOMAIN tx.inputs |-> utxos[tx.inputs[i]]]) >= AmountSum(tx.outputs) + tx.fee

\* _apply_transaction_to_state on dict u: del of each input in order, the
\* first missing key raising KeyError with the earlier deletions done;
\* then every output stored under (tx_id, index).
RECURSIVE DeleteInputs(_, _)
DeleteInputs(ins, u) ==
    IF ins = <<>> THEN [utxos |-> u, ok |-> TRUE]
    ELSE IF Head(ins) \notin DOMAIN u THEN [utxos |-> u, ok |-> FALSE]
    ELSE DeleteInputs(Tail(ins), Restrict(u, DOMAIN u \ {Head(ins)}))

ApplyTransactionToState(tx, u) ==
    LET d == DeleteInputs(tx.inputs, u)
    IN IF d.ok
       THEN [utxos |-> [o \in {<<tx.tx_id, j - 1>> : j \in DOMAIN tx.outputs} |-> tx.outputs[o[2] + 1]]
                       @@ d.utxos,
             ok |-> TRUE]
       ELSE d

\* _validate_state_transitions: the transactions applied in order to the
\* shared dict, stopping at the first that fails.
RECURSIVE ValidateStateTransitions(_, _)
ValidateStateTransitions(txs, u) ==
    IF txs = <<>> THEN [utxos |-> u, ok |-> TRUE]
    ELSE LET a == ApplyTransactionToState(Head(txs), u)
         IN IF a.ok THEN ValidateStateTransitions(Tail(txs), a.utxos) ELSE a

\* validate_block: structure, then every transaction validated against the
\* state as it is, then the state transitions, which change utxos.
ValidateBlock(b) ==
    /\ Len(results) < MaxValidations
    /\ IF b.ok /\ \A i \in DOMAIN b.transactions : ValidateTransaction(b.transactions[i])
       THEN LET st == ValidateStateTransitions(b.transactions, utxos)
            IN /\ utxos' = st.utxos
               /\ results' = Append(results, st.ok)
       ELSE /\ results' = Append(results, FALSE)
            /\ UNCHANGED utxos

Next == \E b \in Blocks : ValidateBlock(b)

Spec == Init /\ [][Next]_vars

-----------------------------------------------------------------------------
(* Properties                                                              *)

TypeOK ==
    /\ results \in Seq(BOOLEAN) /\ Len(results) <= MaxValidations
    /\ \A key \in DOMAIN utxos : utxos[key].amount \in Nat

\* The value held in a UTXO dict.
UtxoValue(u) == SumFunction([key \in DOMAIN u |-> u[key].amount])

\* Validation never creates value: whatever blocks were validated, in
\* whatever order, and although each validation applies its transactions
\* to the live dict (stopping half-way at a missing input, storing outputs
\* over an existing (tx_id, index) key), the UTXOs hold no more value than
\* at the start.
ShardValueNotCreated == UtxoValue(utxos) <= UtxoValue(InitialUtxos)

\* The docstring of _apply_transaction_to_state speaks of a temporary
\* state: a block validate_block rejects leaves shard_state as it was.
RejectedBlockLeavesStateUnchanged ==
    [][Len(results') > Len(results) /\ Last(results') = FALSE => utxos' = utxos]_vars
==============================================================================
