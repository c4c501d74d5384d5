------------------------------- MODULE UTXOSet -------------------------------
(***************************************************************************)
(* The UTXOSet of src/blockchain/state/utxo_set.py.                        *)
(*                                                                         *)
(* utxos maps a key <<tx_id, index>> to the dict stored there: an output   *)
(* [receiver, amount], or whatever else _add_utxo was handed.  A           *)
(* transaction is a record with sender, inputs (a sequence of              *)
(* [tx_id, index] references), outputs (a sequence of outputs) and an      *)
(* optional fee.  _get_transaction_id digests the whole transaction; a     *)
(* digest is collision-free, so the id is the transaction itself.          *)
(***************************************************************************)
EXTENDS Integers, SequencesExt, Functions

GetTransactionId(tx) == tx

\* The key of an input reference.
Key(ref) == <<ref.tx_id, ref.index>>

\* The keys enumerate(transaction["outputs"]) writes, 0-based.
OutputKeys(tx) == { <<GetTransactionId(tx), j - 1>> : j \in 1 .. Len(tx.outputs) }

Fee(tx) == IF "fee" \in DOMAIN tx THEN tx.fee ELSE 0

\* Value of a stored dict; a dict without "amount" carries none.
Amount(o) == IF "amount" \in DOMAIN o THEN o.amount ELSE 0

\* Mutants of apply_transaction: the input loop left out; the whole
\* transaction stored instead of the output.
ApplyTransactionKeepsInputs(utxos, tx) ==
    [k \in OutputKeys(tx) |-> tx.outputs[k[2] + 1]] @@ utxos
ApplyTransactionStoresTx(utxos, tx) ==
    LET spent == { Key(tx.inputs[i]) : i \in 1 .. Len(tx.inputs) }
    IN  [k \in OutputKeys(tx) |-> tx] @@ Restrict(utxos, DOMAIN utxos \ spent)

\* apply_transaction: pop every input key (absent keys are ignored), then
\* write every output under <<tx_id, index>>.
ApplyTransaction(utxos, tx) ==
    LET spent == { Key(tx.inputs[i]) : i \in 1 .. Len(tx.inputs) }
    IN  [k \in OutputKeys(tx) |-> tx.outputs[k[2] + 1]]
          @@ Restrict(utxos, DOMAIN utxos \ spent)

\* rollback_transaction: write each input reference back under its own key,
\* the reference dict itself as the value, then pop the outputs.
RollbackTransaction(utxos, tx) ==
    LET restored == [k \in { Key(tx.inputs[i]) : i \in 1 .. Len(tx.inputs) } |->
                       CHOOSE r \in { tx.inputs[i] : i \in 1 .. Len(tx.inputs) } : Key(r) = k]
        after    == restored @@ utxos
    IN  Restrict(after, DOMAIN after \ OutputKeys(tx))

\* validate_transaction: walk the inputs in order, returning "invalid" at
\* the first missing key or one owned by someone else; reading "receiver" of
\* a stored dict without one raises KeyError ("error").  Every input's
\* amount is summed, a key listed twice counted twice.
ValidateTransaction(utxos, tx) ==
    LET n        == Len(tx.inputs)
        stored(i) == utxos[Key(tx.inputs[i])]
        bad      == { i \in 1 .. n : \/ Key(tx.inputs[i]) \notin DOMAIN utxos
                                     \/ "receiver" \notin DOMAIN stored(i)
                                     \/ stored(i).receiver /= tx.sender }
        first    == CHOOSE i \in bad : \A j \in bad : i <= j
        inputSum  == SumFunction([i \in 1 .. n |-> stored(i).amount])
        outputSum == SumFunction([j \in 1 .. Len(tx.outputs) |-> tx.outputs[j].amount])
    IN  CASE bad /= {} /\ Key(tx.inputs[first]) \notin DOMAIN utxos -> "invalid"
          [] bad /= {} /\ "receiver" \notin DOMAIN stored(first)    -> "error"
          [] bad /= {}                                              -> "invalid"
          [] inputSum < outputSum + Fee(tx)                         -> "invalid"
          [] OTHER                                                  -> "valid"
==============================================================================
