------------------------------ MODULE UTXOLedger ------------------------------
(***************************************************************************)
(* A caller of UTXOSet: validate_transaction then apply_transaction, as    *)
(* utxo_set.py's own driver does, and rollback_transaction of the last     *)
(* applied transaction, the undo its docstring describes.  applied is the  *)
(* caller's stack of applied transactions; beside each it keeps the UTXO   *)
(* set from just before the apply (a history variable, read only by the    *)
(* properties).                                                            *)
(***************************************************************************)
EXTENDS UTXOSet

CONSTANTS
    InitialUtxos,   \* the initial_utxos handed to __init__
    Txs,            \* transactions a caller may submit
    MaxApplied      \* bound on the number of applied transactions

VARIABLES utxos, applied

vars == <<utxos, applied>>

Init ==
    /\ utxos = InitialUtxos
    /\ applied = <<>>

\* if utxo_set.validate_transaction(tx): utxo_set.apply_transaction(tx).
\* An invalid transaction, or one whose validation raises, changes nothing.
ApplyValidated ==
    /\ Len(applied) < MaxApplied
    /\ \E tx \in Txs :
         /\ ValidateTransaction(utxos, tx) = "valid"
         /\ utxos' = ApplyTransaction(utxos, tx)
         /\ applied' = Append(applied, [tx |-> tx, before |-> utxos])

\* rollback_transaction of the most recently applied transaction.
RollbackLast ==
    /\ applied /= <<>>
    /\ utxos' = RollbackTransaction(utxos, Last(applied).tx)
    /\ applied' = Front(applied)

Next == ApplyValidated \/ RollbackLast

Spec == Init /\ [][Next]_vars

-----------------------------------------------------------------------------
(* Properties                                                              *)

SpentKeys(tx) == { Key(tx.inputs[i]) : i \in 1 .. Len(tx.inputs) }

\* Every stored dict is an initial output, an output of a submitted
\* transaction, or an input reference of one.
StorableValues ==
    Range(InitialUtxos)
      \cup UNION { Range(tx.outputs) \cup Range(tx.inputs) : tx \in Txs }

TypeOK ==
    /\ \A k \in DOMAIN utxos : utxos[k] \in StorableValues
    /\ \A i \in 1 .. Len(applied) : applied[i].tx \in Txs
    /\ Len(applied) <= MaxApplied

\* Spec 3: no unspent output is consumed by two transactions that both stand
\* applied; validate_transaction must refuse a key an earlier applied
\* transaction already popped.
NoDoubleSpend ==
    \A i, j \in 1 .. Len(applied) :
        i < j => SpentKeys(applied[i].tx) \cap SpentKeys(applied[j].tx) = {}

\* Value is never created: the outputs standing in the set plus the fees of
\* the applied transactions never exceed the value the set started with.
TotalValue(u) == SumFunction([k \in DOMAIN u |-> Amount(u[k])])
FeesPaid == SumFunction([i \in 1 .. Len(applied) |-> Fee(applied[i].tx)])
ValueNotCreated == TotalValue(utxos) + FeesPaid <= TotalValue(InitialUtxos)

\* Spec 4.5: rolling back the last applied transaction restores the UTXO
\* set it was applied to, the spent outputs included.
RollbackRestoresUtxos == [][RollbackLast => utxos' = Last(applied).before]_vars
==============================================================================
