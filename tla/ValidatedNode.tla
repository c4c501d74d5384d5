----------------------------- MODULE ValidatedNode -----------------------------
(***************************************************************************)
(* A node that admits blocks with the validators and applies them with     *)
(* the StateManager: for each candidate block, TransactionValidation       *)
(* (transaction_validation.py) checks every transaction and BlockValidation *)
(* (block_validation.py) its validate_transactions, both against the       *)
(* StateManager as blockchain_state, whose get_balance and get_nonce they  *)
(* call; then update_state applies the block.                              *)
(*                                                                         *)
(* BlockValidation.validate_block is not part of the pipeline: after the   *)
(* structure check it calls block.compute_hash(), which the Block class    *)
(* of block.py does not have (it has calculate_hash), so on a Block it     *)
(* raises AttributeError.                                                  *)
(*                                                                         *)
(* Every check reads the state as it is before the block: nothing carries  *)
(* the balance or the nonce from one transaction of the block to the next. *)
(***************************************************************************)
EXTENDS StateManager

TV == INSTANCE TransactionValidation

CONSTANTS
    Owner    \* account -> the key its holder signs with

\* The candidate block passes both validators against the current state.
Admitted(b) ==
    /\ \A i \in DOMAIN b : TV!ValidateTransaction(State, b[i])
    /\ TV!BlockValidateTransactions(State, b)

\* A block admitted and handed to update_state.
AdmitBlock ==
    /\ Len(applied) < MaxApplied
    /\ \E b \in Blocks : Admitted(b) /\ UpdateStateOf(b)

\* rollback_state of the last block applied, as in StateManager.
NodeNext == AdmitBlock \/ RollbackState

NodeSpec == Init /\ [][NodeNext]_vars

-----------------------------------------------------------------------------
(* Properties                                                              *)

\* "Validates the nonce to prevent replay attacks": no two transactions
\* applied, in one block or in two, share sender and nonce.  Each
\* transaction of a block is checked against the nonce from before the
\* block, so a signed transaction listed twice in one block passes twice.
AppliedNoncesUnique ==
    \A i, j \in DOMAIN applied :
        \A p \in DOMAIN applied[i].block, q \in DOMAIN applied[j].block :
            (<<i, p>> /= <<j, q>>
             /\ applied[i].block[p].sender = applied[j].block[q].sender)
                => applied[i].block[p].nonce /= applied[j].block[q].nonce

\* "Validates the digital signature": every applied transaction was signed
\* by its sender's key.  validate_signature verifies against the
\* sender_public_key the transaction carries, which nothing ties to the
\* sender, so a key holder can sign a transfer out of any account.
SpendsSignedByOwner ==
    \A i \in DOMAIN applied : \A p \in DOMAIN applied[i].block :
        applied[i].block[p].signed_by = Owner[applied[i].block[p].sender]
==============================================================================
