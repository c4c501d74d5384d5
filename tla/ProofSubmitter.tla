---------------------------- MODULE ProofSubmitter ----------------------------
(***************************************************************************)
(* ProofSubmitter of src/layer2_solutions/aggregator/proof_submitter.py.   *)
(*                                                                         *)
(* A proof is batch id, transactions, state root and its hash; the         *)
(* sha256 of the three run together is taken as collision free, so the     *)
(* hash is the triple (a batch id's digits are followed by the "{" of the  *)
(* transactions dict, so no two triples run together alike).  The          *)
(* timestamp is not read and is left out.                                  *)
(***************************************************************************)
EXTENDS Integers, Sequences, TLC

CONSTANTS
    BatchIds,      \* batch ids callers pass
    TxSets,        \* transaction dicts
    Roots,         \* state roots
    MaxProofs      \* bound on generate_proof calls

VARIABLES submitted_proofs, pending_proofs, generated

vars == <<submitted_proofs, pending_proofs, generated>>

Init ==
    /\ submitted_proofs = <<>>
    /\ pending_proofs = <<>>
    /\ generated = 0

ProofHash(id, txs, root) == <<id, txs, root>>

\* generate_proof: the proof is queued at the end of pending_proofs.
GenerateProof(id, txs, root) ==
    /\ generated < MaxProofs
    /\ generated' = generated + 1
    /\ pending_proofs' = Append(pending_proofs,
                                [batch_id |-> id, transactions |-> txs, state_root |-> root,
                                 proof_hash |-> ProofHash(id, txs, root)])
    /\ UNCHANGED submitted_proofs

\* submit_proof: the head of pending_proofs moves to submitted_proofs; an
\* empty queue answers False.
SubmitProof ==
    /\ pending_proofs /= <<>>
    /\ submitted_proofs' = Append(submitted_proofs, Head(pending_proofs))
    /\ pending_proofs' = Tail(pending_proofs)
    /\ UNCHANGED generated

Next ==
    \/ \E id \in BatchIds, txs \in TxSets, root \in Roots : GenerateProof(id, txs, root)
    \/ SubmitProof

Spec == Init /\ [][Next]_vars

-----------------------------------------------------------------------------
(* Properties                                                              *)

TypeOK ==
    /\ generated \in 0 .. MaxProofs
    /\ Len(submitted_proofs) + Len(pending_proofs) = generated
==============================================================================
