------------------------- MODULE TransactionValidation -------------------------
(***************************************************************************)
(* TransactionValidation of src/blockchain/transactions/                   *)
(* transaction_validation.py, and the transaction checks of BlockValidation *)
(* (src/blockchain/blocks/block_validation.py), as operators over the      *)
(* state they read.                                                        *)
(*                                                                         *)
(* st is the blockchain_state the validator was built with, read through   *)
(* get_balance and get_nonce: a record whose balances and nonces are dicts *)
(* (functions on the keys present), a missing key reading 0, as in         *)
(* StateManager.get_balance and get_nonce.                                 *)
(*                                                                         *)
(* RSA-PKCS1v15 over SHA-256 is taken as unforgeable: a transaction's      *)
(* signed_by is the key whose private half signed the hash of the          *)
(* transaction without its signature and sender_public_key, and verify     *)
(* with sender_public_key succeeds exactly when the two keys are equal.    *)
(* "signature" absent or not hex is signed_by = "none".                    *)
(***************************************************************************)
EXTENDS Integers

\* dict.get(key, 0)
GetOrZero(f, key) == IF key \in DOMAIN f THEN f[key] ELSE 0

TxFee(tx) == IF "fee" \in DOMAIN tx THEN tx.fee ELSE 0

\* validate_signature: verify under the key the transaction itself names;
\* any exception answers False.
ValidateSignature(tx) == tx.signed_by = tx.sender_public_key

\* validate_balance: get_balance(sender) >= amount + fee.
ValidateBalance(st, tx) == GetOrZero(st.balances, tx.sender) >= tx.amount + TxFee(tx)

\* validate_nonce: the nonce must be get_nonce(sender) + 1.
ValidateNonce(st, tx) == tx.nonce = GetOrZero(st.nonces, tx.sender) + 1

\* validate_transaction: signature, then balance, then nonce.
ValidateTransaction(st, tx) ==
    ValidateSignature(tx) /\ ValidateBalance(st, tx) /\ ValidateNonce(st, tx)

\* BlockValidation.validate_transaction: get_balance(sender) >= amount,
\* the fee not counted.
BlockValidateTransaction(st, tx) == GetOrZero(st.balances, tx.sender) >= tx.amount

\* BlockValidation.validate_transactions: every transaction of the block
\* against the same state.
BlockValidateTransactions(st, txs) ==
    \A i \in DOMAIN txs : BlockValidateTransaction(st, txs[i])
==============================================================================
