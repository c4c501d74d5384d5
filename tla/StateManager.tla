----------------------------- MODULE StateManager -----------------------------
(***************************************************************************)
(* The StateManager of src/blockchain/state/state_manager.py, with the     *)
(* SmartContractEngine calls it makes (smart_contracts.py) and the UTXOSet *)
(* it updates.                                                             *)
(*                                                                         *)
(* balances and nonces are dicts: functions whose domain is the set of     *)
(* keys present, so a missing key is a KeyError and a new key is visible.  *)
(* A transaction is a dict: a record whose fields are its keys ("fee",     *)
(* "contract_code", "inputs" and "outputs" may be absent).  update_state   *)
(* and rollback_state catch every exception and stop where it was raised:  *)
(* the effects of the steps before it stay.  The contract state that exec  *)
(* leaves is abstracted to the marker "executed".                         *)
(*                                                                         *)
(* A caller applies blocks and rolls back the last one applied; applied is *)
(* its stack of blocks for which update_state returned True, each with the *)
(* state from just before (a history variable read only by properties).   *)
(***************************************************************************)
EXTENDS UTXOSet, TLC

CONSTANTS
    InitialBalances,   \* self.state["balances"] from the initial state file
    InitialNonces,     \* self.state["nonces"]
    InitialUtxos,      \* self.state["utxo_set"]
    InitialContracts,  \* self.state["smart_contracts"]: address -> contract
    Blocks,            \* blocks (sequences of transactions) a caller may apply
    MaxApplied,        \* bound on the number of applied blocks
    Deployments        \* <<code, creator>> pairs, character sequences, a
                       \* caller passes to smart_contract_engine.deploy_contract

VARIABLES balances, nonces, utxos, contracts, applied

vars == <<balances, nonces, utxos, contracts, applied>>

State == [balances |-> balances, nonces |-> nonces, utxos |-> utxos, contracts |-> contracts]

\* f[k] op= d, for a key k present in f.
Bump(f, k, d) == [f EXCEPT ![k] = @ + d]

\* The result of a step that may raise: the state when it stopped, and
\* whether it finished.
Ok(s)     == [st |-> s, ok |-> TRUE]
Raised(s) == [st |-> s, ok |-> FALSE]

\* Mutant of SmartContractEngine.execute: a call to an address with no
\* contract is skipped instead of raising.
ExecuteUnchecked(s, tx) ==
    IF tx.receiver \notin DOMAIN s.contracts THEN Ok(s)
    ELSE Ok([s EXCEPT !.contracts[tx.receiver].state = "executed"])

\* SmartContractEngine.execute: ValueError for an unknown contract address;
\* otherwise exec runs the contract code on its state.
Execute(s, tx) ==
    IF tx.receiver \notin DOMAIN s.contracts THEN Raised(s)
    ELSE Ok([s EXCEPT !.contracts[tx.receiver].state = "executed"])

\* SmartContractEngine.rollback: ValueError for an unknown address; the state
\* is restored only from a "backup_state", which nothing ever writes.
ContractRollback(s, tx) ==
    CASE tx.receiver \notin DOMAIN s.contracts                 -> Raised(s)
      [] "backup_state" \in DOMAIN s.contracts[tx.receiver]   ->
            Ok([s EXCEPT !.contracts[tx.receiver].state =
                           s.contracts[tx.receiver].backup_state])
      [] OTHER                                                -> Ok(s)

\* _compute_contract_address: sha256 of f"{contract_code}{creator}", as the
\* string it hashes (SHA-256 taken as injective on strings).
ComputeContractAddress(code, creator) == code \o creator

\* deploy_contract, called by a caller holding the manager's engine: the
\* entry under the address is (re)written with the creator, the code and
\* initial_state or {} (abstracted to "deployed"; the timestamp is left out).
DeployContract(code, creator) ==
    LET addr == ComputeContractAddress(code, creator) IN
    /\ contracts' = (addr :> [creator |-> creator, code |-> code, state |-> "deployed"]) @@ contracts
    /\ UNCHANGED <<balances, nonces, utxos, applied>>

\* Mutant of _process_transaction: the fee left out of the debit.
ProcessTransactionNoFee(s, tx) ==
    LET debited  == [s EXCEPT !.balances = Bump(@, tx.sender, -tx.amount)]
        bumped   == [debited EXCEPT !.nonces = Bump(@, tx.sender, 1)]
        credited == [bumped EXCEPT !.balances =
                        Bump(@ @@ (tx.receiver :> 0), tx.receiver, tx.amount)]
    IN  CASE tx.sender \notin DOMAIN s.balances -> Raised(s)
          [] tx.sender \notin DOMAIN s.nonces   -> Raised(debited)
          [] "contract_code" \in DOMAIN tx      -> Execute(credited, tx)
          [] OTHER                              -> Ok(credited)

\* _process_transaction: debit sender (KeyError if unknown), bump its nonce
\* (KeyError if it has none), create the receiver at 0 if absent and credit
\* it, then run the contract if the transaction carries code.
ProcessTransaction(s, tx) ==
    LET debited  == [s EXCEPT !.balances = Bump(@, tx.sender, -(tx.amount + Fee(tx)))]
        bumped   == [debited EXCEPT !.nonces = Bump(@, tx.sender, 1)]
        credited == [bumped EXCEPT !.balances =
                        Bump(@ @@ (tx.receiver :> 0), tx.receiver, tx.amount)]
    IN  CASE tx.sender \notin DOMAIN s.balances -> Raised(s)
          [] tx.sender \notin DOMAIN s.nonces   -> Raised(debited)
          [] "contract_code" \in DOMAIN tx      -> Execute(credited, tx)
          [] OTHER                              -> Ok(credited)

\* _update_utxo_set's loop body: transaction["inputs"] / ["outputs"] raise
\* KeyError on a transaction without them.
UpdateUtxo(s, tx) ==
    IF {"inputs", "outputs"} \subseteq DOMAIN tx
    THEN Ok([s EXCEPT !.utxos = ApplyTransaction(@, tx)])
    ELSE Raised(s)

\* Mutant of _rollback_transaction: the fee left out of the refund.
RollbackTransactionStateNoFee(s, tx) ==
    LET refunded == [s EXCEPT !.balances = Bump(@, tx.sender, tx.amount)]
        unbumped == [refunded EXCEPT !.nonces = Bump(@, tx.sender, -1)]
        reclaimed == [unbumped EXCEPT !.balances = Bump(@, tx.receiver, -tx.amount)]
    IN  CASE tx.sender \notin DOMAIN s.balances       -> Raised(s)
          [] tx.sender \notin DOMAIN s.nonces         -> Raised(refunded)
          [] tx.receiver \notin DOMAIN s.balances     -> Raised(unbumped)
          [] "contract_code" \in DOMAIN tx            -> ContractRollback(reclaimed, tx)
          [] OTHER                                    -> Ok(reclaimed)

\* _rollback_transaction: credit sender, decrement its nonce, debit the
\* receiver (each a KeyError on a missing key), then the contract rollback.
RollbackTransactionState(s, tx) ==
    LET refunded == [s EXCEPT !.balances = Bump(@, tx.sender, tx.amount + Fee(tx))]
        unbumped == [refunded EXCEPT !.nonces = Bump(@, tx.sender, -1)]
        reclaimed == [unbumped EXCEPT !.balances = Bump(@, tx.receiver, -tx.amount)]
    IN  CASE tx.sender \notin DOMAIN s.balances       -> Raised(s)
          [] tx.sender \notin DOMAIN s.nonces         -> Raised(refunded)
          [] tx.receiver \notin DOMAIN s.balances     -> Raised(unbumped)
          [] "contract_code" \in DOMAIN tx            -> ContractRollback(reclaimed, tx)
          [] OTHER                                    -> Ok(reclaimed)

\* The loop bodies: _process_transaction, _update_utxo_set's and
\* _rollback_transaction.
Step(kind, s, tx) ==
    CASE kind = "process"  -> ProcessTransaction(s, tx)
      [] kind = "utxo"     -> UpdateUtxo(s, tx)
      [] kind = "rollback" -> RollbackTransactionState(s, tx)

\* Run a loop body over txs in order, stopping at the first that raises.
RECURSIVE Steps(_, _, _)
Steps(kind, r, txs) ==
    IF txs = <<>> \/ ~r.ok THEN r
    ELSE Steps(kind, Step(kind, r.st, Head(txs)), Tail(txs))

\* update_state: process every transaction, then update the UTXO set.
UpdateStateResult(s, b) ==
    LET processed == Steps("process", Ok(s), b)
    IN  IF processed.ok THEN Steps("utxo", processed, b) ELSE processed

\* rollback_state: undo the transactions in reverse order; then
\* self.utxo_set.rollback_block(block) raises AttributeError (UTXOSet has no
\* such method), so the UTXO set is never rolled back.
RollbackStateResult(s, b) ==
    LET undone == Steps("rollback", Ok(s), Reverse(b))
    IN  Raised(undone.st)

Init ==
    /\ balances = InitialBalances
    /\ nonces = InitialNonces
    /\ utxos = InitialUtxos
    /\ contracts = InitialContracts
    /\ applied = <<>>

SetState(s) ==
    /\ balances' = s.balances
    /\ nonces' = s.nonces
    /\ utxos' = s.utxos
    /\ contracts' = s.contracts

\* update_state(b); the caller records the block if it returned True.
UpdateStateOf(b) ==
    LET r == UpdateStateResult(State, b) IN
    /\ SetState(r.st)
    /\ applied' = IF r.ok THEN Append(applied, [block |-> b, before |-> State])
                           ELSE applied

UpdateState ==
    /\ Len(applied) < MaxApplied
    /\ \E b \in Blocks : UpdateStateOf(b)

\* Mutant of the caller: rolls back the oldest applied block instead of the
\* newest, while popping the newest.
RollbackStateFirst ==
    /\ applied /= <<>>
    /\ SetState(RollbackStateResult(State, Head(applied).block).st)
    /\ applied' = Front(applied)

\* rollback_state(block) of the last block applied.
RollbackState ==
    /\ applied /= <<>>
    /\ SetState(RollbackStateResult(State, Last(applied).block).st)
    /\ applied' = Front(applied)

Next ==
    \/ UpdateState
    \/ RollbackState
    \/ \E d \in Deployments : DeployContract(d[1], d[2])

Spec == Init /\ [][Next]_vars

-----------------------------------------------------------------------------
(* Properties                                                              *)

TypeOK ==
    /\ balances \in [DOMAIN balances -> Int]
    /\ DOMAIN nonces \subseteq DOMAIN balances
    /\ nonces \in [DOMAIN nonces -> Nat]
    /\ DOMAIN contracts \subseteq
         DOMAIN InitialContracts \cup {ComputeContractAddress(d[1], d[2]) : d \in Deployments}
    /\ Len(applied) <= MaxApplied

\* Spec 4.5: rollback_state of the last applied block puts every balance and
\* nonce that existed before the block back to its value then, whatever
\* blocks were applied and rolled back in between.
RollbackRestoresAccounts ==
    [][RollbackState =>
         LET before == Last(applied).before IN
         /\ \A a \in DOMAIN before.balances : balances'[a] = before.balances[a]
         /\ \A a \in DOMAIN before.nonces : nonces'[a] = before.nonces[a]]_vars

\* No value is created or lost: the balances plus the fees of the applied
\* blocks always add up to the initial balances, across applies and rollbacks.
BlockFees(b) == SumFunction([i \in 1 .. Len(b) |-> Fee(b[i])])
FeesBurnt == SumFunction([i \in 1 .. Len(applied) |-> BlockFees(applied[i].block)])
BalancesConserved == SumFunction(balances) + FeesBurnt = SumFunction(InitialBalances)

\* Spec 5: a failed update_state leaves the state as it was (apply_block is
\* atomic; a half-applied block must never remain).
UpdateStateAtomic ==
    [][UpdateState /\ applied' = applied => State' = State]_vars

\* Spec 4.5 and 8: apply_block then rollback_block restores bit-identical
\* state: the balances and nonces dicts (keys included), the UTXO set and
\* the smart contracts' state are what they were before the block.
RollbackRestoresState == [][RollbackState => State' = Last(applied).before]_vars

\* Spec 4.3 and 8: every transaction of an applied block passed the dry run,
\* so no balance is ever negative (the double-spend scenario).
NoNegativeBalance == \A a \in DOMAIN balances : balances[a] >= 0

\* update_state returns True for a block only when every contract the block
\* calls was deployed before the block was applied: execute raises for an
\* unknown address and update_state reports the failure, whatever deploys,
\* applies and rollbacks came before.
AppliedCallsDeployed ==
    \A i \in 1 .. Len(applied) :
        \A tx \in Range(applied[i].block) :
            "contract_code" \in DOMAIN tx => tx.receiver \in DOMAIN applied[i].before.contracts

\* A deploy never changes a contract already deployed: deploy_contract
\* writes the entry under an address computed from the code and the creator
\* with no separator, so a redeploy resets an executed contract's state and
\* a second creator's code can land on a first creator's address.
DeployKeepsContracts ==
    [][\A d \in Deployments :
         DeployContract(d[1], d[2]) => \A a \in DOMAIN contracts : contracts'[a] = contracts[a]]_vars

==============================================================================
