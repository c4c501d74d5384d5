--------------------------- MODULE TransactionPool ---------------------------
(***************************************************************************)
(* The TransactionPool of src/blockchain/transactions/transaction_pool.py. *)
(*                                                                         *)
(* The pool is a dict keyed by transaction hash; Python dicts keep         *)
(* insertion order, so it is a sequence without repetitions.  Every method *)
(* runs under self.lock, so each is one atomic step of its caller.  A      *)
(* transaction is a model value standing for its hash.                     *)
(***************************************************************************)
EXTENDS Integers, SequencesExt

CONSTANTS
    Txs,           \* transactions (by calculate_hash) that can be submitted
    Admissible,    \* those passing is_valid_transaction for the caller's balance
    MaxPoolSize    \* max_pool_size

ASSUME Admissible \subseteq Txs /\ MaxPoolSize \in Nat \ {0}

\* A capacity check off by one (`>` for `>=`), as a mutant of PoolAccepts.
PoolAcceptsWhenFull(pool, tx) ==
    /\ Len(pool) <= MaxPoolSize
    /\ tx \in Admissible
    /\ ~Contains(pool, tx)

\* add_transaction: full, invalid and duplicate transactions are discarded.
PoolAccepts(pool, tx) ==
    /\ Len(pool) < MaxPoolSize
    /\ tx \in Admissible
    /\ ~Contains(pool, tx)

AddTransaction(pool, tx) == IF PoolAccepts(pool, tx) THEN Append(pool, tx) ELSE pool

\* get_pending_transactions: the first max_count values in insertion order.
GetPendingTransactions(pool, max_count) ==
    SubSeq(pool, 1, IF Len(pool) < max_count THEN Len(pool) ELSE max_count)

\* remove_confirmed_transactions: delete every listed hash that is present.
RemoveConfirmedTransactions(pool, confirmed) ==
    SelectSeq(pool, LAMBDA tx : tx \notin confirmed)
==============================================================================
