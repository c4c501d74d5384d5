------------------------------- MODULE ZKRollup -------------------------------
(***************************************************************************)
(* ZKRollupEngine of src/layer2_solutions/zk_rollups/zk_rollup_engine.py,  *)
(* with ZKProofGenerator (zk_proof_generator.py) and RollupVerifier        *)
(* (rollup_verifier.py), called as the file's own driver calls them.       *)
(*                                                                         *)
(* A transaction is a record of sender, receiver and amount.  SHA-256 is   *)
(* taken as collision free, so a hash is its preimage: the engine hashes   *)
(* json.dumps of the pending list, a text that starts with "[" and keeps   *)
(* every boundary; the generator hashes sender, receiver and amount of     *)
(* each transaction run together, a text with no brackets.  No text of one *)
(* kind equals one of the other, so the two are told apart by a tag.       *)
(* results lists submit_rollup's answers.                                  *)
(***************************************************************************)
EXTENDS Integers, Sequences, SequencesExt, TLC

CONSTANTS
    Txs,          \* transactions
    BatchSize,    \* batch_size
    MaxBatches,   \* bound on aggregate_transactions calls
    MaxSubmits    \* bound on submit_rollup calls

VARIABLES pending_transactions, processed_batches, results

vars == <<pending_transactions, processed_batches, results>>

Init ==
    /\ pending_transactions = <<>>
    /\ processed_batches = <<>>
    /\ results = <<>>

\* The batch hash of aggregate_transactions.
EngineHash(txs) == <<"json", txs>>

\* The batch hash of ZKProofGenerator.generate: the fields concatenated.
GeneratorHash(txs) ==
    <<"concat", FlattenSeq([i \in DOMAIN txs |-> <<txs[i].sender, txs[i].receiver, txs[i].amount>>])>>

\* ZKProofGenerator.generate (never called with an empty list here).
Generate(txs) ==
    [proof_data |-> <<"proof_for", GeneratorHash(txs)>>,
     public_inputs |-> [batch_hash |-> GeneratorHash(txs), transaction_count |-> Len(txs)]]

\* RollupVerifier.verify: structure, batch hash, proof data.
Verify(proof, batch_hash) ==
    /\ "proof_data" \in DOMAIN proof /\ "public_inputs" \in DOMAIN proof
    /\ proof.public_inputs.batch_hash = batch_hash
    /\ proof.proof_data = <<"proof_for", batch_hash>>

\* add_transaction: a full pending list drops the transaction.
AddTransaction(tx) ==
    /\ IF Len(pending_transactions) >= BatchSize
       THEN UNCHANGED pending_transactions
       ELSE pending_transactions' = Append(pending_transactions, tx)
    /\ UNCHANGED <<processed_batches, results>>

\* aggregate_transactions: an empty list raises ValueError; otherwise the
\* list and its hash are recorded and the list is cleared.
AggregateTransactions ==
    /\ pending_transactions /= <<>>
    /\ Len(processed_batches) < MaxBatches
    /\ processed_batches' = Append(processed_batches,
                                   [batch_hash |-> EngineHash(pending_transactions),
                                    transactions |-> pending_transactions])
    /\ pending_transactions' = <<>>
    /\ UNCHANGED results

\* generate_proof(batch_hash) for a recorded batch.
GenerateProof(i) ==
    [batch_hash |-> processed_batches[i].batch_hash,
     proof |-> Generate(processed_batches[i].transactions)]

\* submit_rollup(batch_hash, proof), as the driver calls it: with the dict
\* generate_proof returned, or with its "proof" entry.
SubmitRollup(i, passInner) ==
    /\ Len(results) < MaxSubmits
    /\ LET gp == GenerateProof(i)
           proof == IF passInner THEN gp.proof ELSE gp
       IN results' = Append(results, Verify(proof, gp.batch_hash))
    /\ UNCHANGED <<pending_transactions, processed_batches>>

Next ==
    \/ \E tx \in Txs : AddTransaction(tx)
    \/ AggregateTransactions
    \/ \E i \in DOMAIN processed_batches, passInner \in BOOLEAN : SubmitRollup(i, passInner)

Spec == Init /\ [][Next]_vars

-----------------------------------------------------------------------------
(* Properties                                                              *)

TypeOK ==
    /\ pending_transactions \in Seq(Txs) /\ Len(pending_transactions) <= BatchSize
    /\ \A i \in DOMAIN processed_batches : processed_batches[i].transactions \in Seq(Txs)
    /\ results \in Seq(BOOLEAN)

\* An aggregated batch can be rolled up: the proof generate_proof makes
\* for it passes RollupVerifier.verify against its batch hash, as the
\* driver's aggregate, generate, submit sequence expects.  The engine and
\* the generator hash different texts, so no proof ever matches.
AggregatedBatchesSubmittable ==
    \A i \in DOMAIN processed_batches :
        Verify(GenerateProof(i).proof, processed_batches[i].batch_hash)
==============================================================================
