------------------------------ MODULE SnapshotNode ------------------------------
(***************************************************************************)
(* StateSnapshot of src/blockchain/state/state_snapshot.py used with the   *)
(* StateManager it was written for: a caller applies and rolls back blocks *)
(* with the StateManager, snapshots state_manager.state at block heights,  *)
(* prunes old snapshots and rolls back to one.                             *)
(*                                                                         *)
(* state_manager.state shares its "balances" and "nonces" dicts with the   *)
(* manager.  Its "utxo_set" is the dict UTXOSet works on only when the     *)
(* initial one was non-empty: UTXOSet keeps initial_utxos or {}, a new     *)
(* dict for an empty one, and state["utxo_set"] then stays the empty dict  *)
(* of the file.  utxo_alias records which.                                 *)
(*                                                                         *)
(* json.dump writes the dict as it encodes it.  The keys read from the     *)
(* initial JSON file are strings; the keys UTXOSet adds are (tx_id, index) *)
(* tuples, and json.dump raises TypeError at the first one, leaving the    *)
(* text written so far: a file json.load refuses.  Without such keys the   *)
(* dump and load give back the same dicts.  A snapshot file is [ok, state] *)
(* with ok FALSE for a file cut short.                                     *)
(*                                                                         *)
(* rollback_to_snapshot sets state_manager.utxo_set to the loaded dict: a  *)
(* plain dict, without UTXOSet's apply_transaction; utxo_kind records it.  *)
(***************************************************************************)
EXTENDS StateManager, FiniteSets

CONSTANTS
    Heights,        \* block heights a caller snapshots at
    KeepLast,       \* keep_last_n values a caller passes
    MaxUpdates      \* bound on update_state calls

VARIABLES snapshots, taken, utxo_kind, utxo_alias, updates

snap_vars == <<snapshots, taken, utxo_kind, utxo_alias, updates>>
node_vars == <<vars, snap_vars>>

SnapInit ==
    /\ Init
    /\ snapshots = <<>> /\ taken = <<>>
    /\ utxo_kind = "UTXOSet"
    /\ utxo_alias = (InitialUtxos /= <<>>)
    /\ updates = 0

\* state_manager.state as the caller hands it to create_snapshot.
StateDict ==
    [State EXCEPT !.utxos = IF utxo_alias THEN utxos ELSE InitialUtxos]

\* json.dump succeeds when every UTXO key came from the JSON file.
Serializable(st) == DOMAIN st.utxos \subseteq DOMAIN InitialUtxos

\* update_state once utxo_set is a dict: the transactions are processed,
\* then _update_utxo_set raises AttributeError at its first transaction.
UpdateStateResultOnDict(s, b) ==
    LET processed == Steps("process", Ok(s), b)
    IN IF processed.ok /\ b /= <<>> THEN Raised(processed.st) ELSE processed

\* update_state(b), on whichever utxo_set the manager holds.
SnapUpdateState(b) ==
    /\ updates < MaxUpdates
    /\ updates' = updates + 1
    /\ LET r == IF utxo_kind = "UTXOSet" THEN UpdateStateResult(State, b)
                ELSE UpdateStateResultOnDict(State, b)
       IN /\ SetState(r.st)
          /\ applied' = IF r.ok THEN Append(applied, [block |-> b, before |-> State])
                                ELSE applied
    /\ UNCHANGED <<snapshots, taken, utxo_kind, utxo_alias>>

\* rollback_state, as in StateManager.
SnapRollbackState ==
    /\ RollbackState
    /\ UNCHANGED snap_vars

\* create_snapshot(state_manager.state, h): the file is overwritten; a
\* TypeError leaves it cut short.  taken records the manager's state and
\* the caller's stack of applied blocks at that height.
CreateSnapshot(h) ==
    /\ snapshots' = (h :> [ok |-> Serializable(StateDict), state |-> StateDict]) @@ snapshots
    /\ taken' = (h :> [st |-> State, applied |-> applied]) @@ taken
    /\ UNCHANGED <<vars, utxo_kind, utxo_alias, updates>>

\* cleanup_old_snapshots(n): all but the n highest removed when there are
\* more than n; snapshots[:-0] is empty, so n = 0 removes nothing.
CleanupOldSnapshots(n) ==
    LET hs == DOMAIN snapshots
        kept == IF Cardinality(hs) > n /\ n > 0
                THEN {h \in hs : Cardinality({g \in hs : g > h}) < n}
                ELSE hs
    IN /\ snapshots' = [h \in kept |-> snapshots[h]]
       /\ UNCHANGED <<vars, taken, utxo_kind, utxo_alias, updates>>

\* rollback_to_snapshot(h, state_manager): load_snapshot raises for a
\* missing or cut-short file before anything changes; otherwise state,
\* utxo_set, balances, nonces and contracts are the loaded dicts.  The
\* caller's stack of applied blocks goes back to the one at that height.
RollbackToSnapshot(h) ==
    /\ h \in DOMAIN snapshots
    /\ snapshots[h].ok
    /\ SetState(snapshots[h].state)
    /\ utxo_kind' = "dict"
    /\ utxo_alias' = TRUE
    /\ applied' = taken[h].applied
    /\ UNCHANGED <<snapshots, taken, updates>>

SnapNext ==
    \/ \E b \in Blocks : SnapUpdateState(b)
    \/ SnapRollbackState
    \/ \E h \in Heights : CreateSnapshot(h)
    \/ \E n \in KeepLast : CleanupOldSnapshots(n)
    \/ \E h \in Heights : RollbackToSnapshot(h)

SnapSpec == SnapInit /\ [][SnapNext]_node_vars

-----------------------------------------------------------------------------
(* Properties                                                              *)

SnapTypeOK ==
    /\ DOMAIN snapshots \subseteq Heights
    /\ \A h \in DOMAIN snapshots : snapshots[h].ok \in BOOLEAN
    /\ utxo_kind \in {"UTXOSet", "dict"} /\ utxo_alias \in BOOLEAN
    /\ updates \in 0 .. MaxUpdates

\* "Snapshots for recovery": every snapshot file create_snapshot leaves
\* can be loaded.  Once a block has added a (tx_id, index) UTXO to the
\* dict state["utxo_set"] shares, json.dump fails half-way.
SnapshotsLoadable == \A h \in DOMAIN snapshots : snapshots[h].ok

\* rollback_to_snapshot puts the manager back in the state it was in when
\* the snapshot was taken.  With an empty initial UTXO set the snapshot
\* holds the file's empty dict, not the UTXOs the blocks created.
RollbackRestoresSnapshot ==
    [][\A h \in Heights : RollbackToSnapshot(h) => State' = taken[h].st]_node_vars

\* After a rollback to a snapshot the manager still applies blocks:
\* update_state returns True for every block the StateManager as built
\* would apply from the same state.  The loaded utxo_set is a plain dict,
\* so _update_utxo_set raises after the balances have been changed.
UpdatesAfterSnapshotRollback ==
    [][\A b \in Blocks :
         SnapUpdateState(b) /\ UpdateStateResult(State, b).ok => Len(applied') > Len(applied)]_node_vars
==============================================================================
