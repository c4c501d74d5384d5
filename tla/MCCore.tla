------------------------------- MODULE MCCore -------------------------------
(***************************************************************************)
(* Model-checking harness for the transaction-side components: the UTXO  *)
(* ledger, the StateManager, the MempoolManager, the Merkle engine, a     *)
(* shard's ShardValidator, the wallet (multisig and balance tracker), the *)
(* key stores and backups, a node validating blocks before update_state,  *)
(* StateSnapshot over a StateManager, and the ShardManager.  They hold    *)
(* separate objects in the code, so each behaviour exercises one of them:  *)
(* mode, chosen in Init, names the component whose Next runs and the       *)
(* others keep their initial state; the state space is the sum of theirs.  *)
(*                                                                         *)
(* The fixtures (transactions, blocks, payloads, Merkle values) are those  *)
(* of the MC modules.  They are read through instances whose variables are *)
(* replaced by constants, since only their constant definitions are used.  *)
(***************************************************************************)
EXTENDS Integers, TLC

CONSTANTS alice, bob, carol, k, t0, x, y, w, d1, d2, d3, s1, s2, s3, t1, t2, n1, n2, u1, p1

VARIABLES mode,
          ul_utxos, ul_applied,
          sm_balances, sm_nonces, sm_utxos, sm_contracts, sm_applied,
          mempool, transaction_set, now,
          txs,
          sv_utxos, sv_results,
          wl_signatures, wl_authorized, wl_verifications, wl_balances, wl_saved, wl_calls,
          ks_files, ks_writing, ks_stored, ks_ops,
          wk_files, wk_writing, wk_stored, wk_ops,
          kr_files, kr_writing, kr_stored, kr_ops,
          vn_balances, vn_nonces, vn_utxos, vn_contracts, vn_applied,
          se_balances, se_nonces, se_utxos, se_contracts, se_applied,
          se_snapshots, se_taken, se_utxo_kind, se_utxo_alias, se_updates,
          sj_balances, sj_nonces, sj_utxos, sj_contracts, sj_applied,
          sj_snapshots, sj_taken, sj_utxo_kind, sj_utxo_alias, sj_updates,
          sh_shard_count, sh_shard_metadata, sh_shard_transactions, sh_node_assignments,
          sh_message_queue, sh_submitted, sh_handler_queue, sh_processed_messages,
          sh_now, sh_created, sh_handled,
          cn_balances, cn_nonces, cn_utxos, cn_contracts, cn_applied, cn_calls,
          db_dir, db_handle, db_archives, db_pc, db_target, db_now, db_backups, db_ops

ul_vars == <<ul_utxos, ul_applied>>
sm_vars == <<sm_balances, sm_nonces, sm_utxos, sm_contracts, sm_applied>>
mp_vars == <<mempool, transaction_set, now>>
mk_vars == <<txs>>
sv_vars == <<sv_utxos, sv_results>>
wl_vars == <<wl_signatures, wl_authorized, wl_verifications, wl_balances, wl_saved, wl_calls>>
ks_vars == <<ks_files, ks_writing, ks_stored, ks_ops>>
wk_vars == <<wk_files, wk_writing, wk_stored, wk_ops>>
kr_vars == <<kr_files, kr_writing, kr_stored, kr_ops>>
vn_vars == <<vn_balances, vn_nonces, vn_utxos, vn_contracts, vn_applied>>
se_vars == <<se_balances, se_nonces, se_utxos, se_contracts, se_applied,
             se_snapshots, se_taken, se_utxo_kind, se_utxo_alias, se_updates>>
sj_vars == <<sj_balances, sj_nonces, sj_utxos, sj_contracts, sj_applied,
             sj_snapshots, sj_taken, sj_utxo_kind, sj_utxo_alias, sj_updates>>
sh_vars == <<sh_shard_count, sh_shard_metadata, sh_shard_transactions, sh_node_assignments,
             sh_message_queue, sh_submitted, sh_handler_queue, sh_processed_messages,
             sh_now, sh_created, sh_handled>>
cn_vars == <<cn_balances, cn_nonces, cn_utxos, cn_contracts, cn_applied, cn_calls>>
db_vars == <<db_dir, db_handle, db_archives, db_pc, db_target, db_now, db_backups, db_ops>>
vars == <<mode, db_vars, cn_vars, ul_vars, sm_vars, mp_vars, mk_vars, sv_vars, wl_vars, ks_vars, wk_vars, kr_vars,
          vn_vars, se_vars, sj_vars, sh_vars>>

\* Fixture definitions of the MC modules.
ULFix == INSTANCE MCUTXOLedger WITH
           utxos <- <<>>, applied <- <<>>, InitialUtxos <- <<>>, Txs <- {}, MaxApplied <- 0
SMFix == INSTANCE MCStateManager WITH
           balances <- <<>>, nonces <- <<>>, utxos <- <<>>, contracts <- <<>>, applied <- <<>>,
           InitialBalances <- <<>>, InitialNonces <- <<>>, InitialUtxos <- <<>>,
           InitialContracts <- <<>>, Blocks <- {}, MaxApplied <- 0, Deployments <- {}
MPFix == INSTANCE MCMempool WITH
           mempool <- <<>>, transaction_set <- {}, now <- 0, Payloads <- {}, Fee <- <<>>,
           Key <- <<>>, MinFee <- 0, MaxTransactions <- 0, ExpirationTime <- 0, MaxTime <- 0
MKFix == INSTANCE MCMerkle WITH txs <- <<>>, TxValues <- {}, MaxLen <- 0

\* Validated applies and last-in rollbacks over conflicting, chained and
\* fee-paying spends and one naming the same output twice, up to four applied
\* transactions.
UL == INSTANCE UTXOLedger WITH
        utxos <- ul_utxos, applied <- ul_applied,
        InitialUtxos <- ULFix!MCInitialUtxos, Txs <- ULFix!AllTxs, MaxApplied <- 4

\* Blocks of one or two well-formed transfers, up to three applied.
SM == INSTANCE StateManager WITH
        balances <- sm_balances, nonces <- sm_nonces, utxos <- sm_utxos,
        contracts <- sm_contracts, applied <- sm_applied,
        InitialBalances <- SMFix!MCBalances, InitialNonces <- SMFix!MCNonces,
        InitialUtxos <- SMFix!MCUtxos, InitialContracts <- SMFix!MCContracts,
        Blocks <- SMFix!WellFormedBlocks, MaxApplied <- 3, Deployments <- {}

\* The same accounts and contract k, with deploys of two contracts whose
\* code and creator hash one string, and blocks calling k and that address.
CN == INSTANCE StateManager WITH
        balances <- cn_balances, nonces <- cn_nonces, utxos <- cn_utxos,
        contracts <- cn_contracts, applied <- cn_applied,
        InitialBalances <- SMFix!MCBalances, InitialNonces <- SMFix!MCNonces,
        InitialUtxos <- SMFix!MCUtxos, InitialContracts <- SMFix!MCContracts,
        Blocks <- SMFix!ContractBlocks, MaxApplied <- 2, Deployments <- SMFix!MCDeployments

\* A failed update_state leaves no record in applied, so the contracts
\* caller is bounded by its number of calls.
MaxContractCalls == 4
ContractCall ==
    /\ cn_calls < MaxContractCalls
    /\ CN!Next
    /\ cn_calls' = cn_calls + 1

\* Two keys, values keyed by strings, ints and tuples, three seconds.
DB == INSTANCE StateDB WITH
        dir <- db_dir, handle <- db_handle, archives <- db_archives, pc <- db_pc,
        target <- db_target, now <- db_now, backups <- db_backups, ops <- db_ops,
        Keys <- {"balances", "contracts"},
        Values <- {[keys |-> "str"], [keys |-> "int"], [keys |-> "tuple"]},
        None <- [keys |-> "none"], MaxTime <- 2, MaxOps <- 5

\* Three payloads, two of equal priority, a pool of three, a one-second expiry.
MP == INSTANCE Mempool WITH
        Payloads <- {x, y, w}, Fee <- MPFix!MCFee, Key <- MPFix!MCKey, MinFee <- 1,
        MaxTransactions <- 3, ExpirationTime <- 1, MaxTime <- 3

\* Lists of up to five transactions over sorted-key dicts and strings.
MK == INSTANCE Merkle WITH TxValues <- MKFix!MCTxValues, MaxLen <- 5

\* A shard holding alice's 2 and bob's 1 from transaction "g".
SVOut(r, a) == [receiver |-> r, amount |-> a]
SVInitialUtxos == (<<"g", 0>> :> SVOut(alice, 2)) @@ (<<"g", 1>> :> SVOut(bob, 1))
SVTx(ok, id, snd, ins, outs) ==
    [ok |-> ok, tx_id |-> id, sender |-> snd, inputs |-> ins, outputs |-> outs, fee |-> 0]
\* A payment and change, a payment, one input listed twice, bob reusing
\* tx_id "ta", bob overspending, a malformed spend, a spend of "ta"'s
\* first output, and a spend burning a fee.
SVTxs ==
    { SVTx(TRUE, "ta", alice, <<<<"g", 0>>>>, <<SVOut(bob, 1), SVOut(alice, 1)>>),
      SVTx(TRUE, "tb", bob, <<<<"g", 1>>>>, <<SVOut(alice, 1)>>),
      SVTx(TRUE, "tc", alice, <<<<"g", 0>>, <<"g", 0>>>>, <<SVOut(alice, 4)>>),
      SVTx(TRUE, "ta", bob, <<<<"g", 1>>>>, <<SVOut(bob, 1)>>),
      SVTx(TRUE, "td", bob, <<<<"g", 1>>>>, <<SVOut(bob, 2)>>),
      SVTx(FALSE, "te", alice, <<<<"g", 0>>>>, <<SVOut(bob, 2)>>),
      SVTx(TRUE, "tf", bob, <<<<"ta", 0>>>>, <<SVOut(alice, 1)>>),
      [SVTx(TRUE, "tg", alice, <<<<"g", 0>>>>, <<SVOut(bob, 1)>>) EXCEPT !.fee = 1] }
\* Blocks of one or two transactions (a transaction may be listed twice),
\* and one of bad structure.
SVBlocks ==
    {[ok |-> TRUE, transactions |-> <<t>>] : t \in SVTxs}
    \cup {[ok |-> TRUE, transactions |-> <<t, u>>] : t, u \in SVTxs}
    \cup {[ok |-> FALSE, transactions |-> <<>>]}

SV == INSTANCE ShardValidator WITH
        utxos <- sv_utxos, results <- sv_results,
        InitialUtxos <- SVInitialUtxos, Blocks <- SVBlocks, MaxValidations <- 3

\* A 2-of-2 wallet of alice and bob, carol outside it, one message; blocks
\* of one transfer, of a chain of two, and of a transfer then a transaction
\* with a field missing.
WLTx(ok, s, r, a) == [ok |-> ok, sender |-> s, receiver |-> r, amount |-> a]
WLBlocks ==
    { <<WLTx(TRUE, alice, bob, 2)>>,
      <<WLTx(TRUE, bob, carol, 1), WLTx(TRUE, carol, alice, 1)>>,
      <<WLTx(TRUE, alice, carol, 1), WLTx(FALSE, bob, bob, 0)>> }

WL == INSTANCE Wallet WITH
        signatures <- wl_signatures, authorized <- wl_authorized,
        verifications <- wl_verifications, balances <- wl_balances,
        saved <- wl_saved, tracker_calls <- wl_calls,
        Participants <- {alice, bob}, Outsiders <- {carol}, Messages <- {k},
        Required <- 2, MaxSignatures <- 2, MaxVerifications <- 1,
        Blocks <- WLBlocks, MaxBlockCalls <- 4

\* Two key names, two keys, two passwords, three stores: enough to
\* overwrite a name with another key or password and crash mid-way.
KS == INSTANCE KeyStorage WITH
        files <- ks_files, writing <- ks_writing, stored <- ks_stored, ops <- ks_ops,
        Names <- {"user1", "user2"}, PrivateKeys <- {x, y}, MaxOps <- 3
WK == INSTANCE WalletKeyStorage WITH
        files <- wk_files, writing <- wk_writing, stored <- wk_stored, ops <- wk_ops,
        Names <- {"user1", "user2"}, PrivateKeys <- {x, y}, Passwords <- {s1, s2}, MaxOps <- 3
KR == INSTANCE WalletKeyStorage WITH
        files <- kr_files, writing <- kr_writing, stored <- kr_stored, ops <- kr_ops,
        Names <- {"backup"}, PrivateKeys <- {x, y}, Passwords <- {s1, s2}, MaxOps <- 3

\* StateManager's accounts behind the validators: alice pays bob 2 with
\* nonce 1; bob's 1 is sent to alice under carol's key; alice pays carol
\* with her second nonce.
VNTx(s, r, a, n, key) ==
    [sender |-> s, receiver |-> r, amount |-> a, nonce |-> n,
     signed_by |-> key, sender_public_key |-> key, inputs |-> <<>>, outputs |-> <<>>]
VNOwner == (alice :> "ka") @@ (bob :> "kb") @@ (carol :> "kc")
VNTxs == {VNTx(alice, bob, 2, 1, "ka"), VNTx(bob, alice, 1, 1, "kc"), VNTx(alice, carol, 1, 2, "ka")}

VN == INSTANCE ValidatedNode WITH
        balances <- vn_balances, nonces <- vn_nonces, utxos <- vn_utxos,
        contracts <- vn_contracts, applied <- vn_applied,
        InitialBalances <- SMFix!MCBalances, InitialNonces <- SMFix!MCNonces,
        InitialUtxos <- SMFix!MCUtxos, InitialContracts <- SMFix!MCContracts,
        Blocks <- SMFix!BlocksOf(VNTxs), MaxApplied <- 2, Owner <- VNOwner, Deployments <- {}

\* Snapshots at heights 1 and 2 around alice's transfer and her contract
\* call that creates a UTXO, pruned with keep_last_n 0 or 1; once with an
\* empty initial UTXO set, once with one UTXO read from the JSON file (its
\* string key is the model value d1).
SE == INSTANCE SnapshotNode WITH
        balances <- se_balances, nonces <- se_nonces, utxos <- se_utxos,
        contracts <- se_contracts, applied <- se_applied,
        snapshots <- se_snapshots, taken <- se_taken, utxo_kind <- se_utxo_kind,
        utxo_alias <- se_utxo_alias, updates <- se_updates,
        InitialBalances <- SMFix!MCBalances, InitialNonces <- SMFix!MCNonces,
        InitialUtxos <- <<>>, InitialContracts <- SMFix!MCContracts,
        Blocks <- SMFix!BlocksOf({SMFix!A1, SMFix!A4}), MaxApplied <- 2, Deployments <- {},
        Heights <- {1, 2}, KeepLast <- {0, 1}, MaxUpdates <- 2
SJ == INSTANCE SnapshotNode WITH
        balances <- sj_balances, nonces <- sj_nonces, utxos <- sj_utxos,
        contracts <- sj_contracts, applied <- sj_applied,
        snapshots <- sj_snapshots, taken <- sj_taken, utxo_kind <- sj_utxo_kind,
        utxo_alias <- sj_utxo_alias, updates <- sj_updates,
        InitialBalances <- SMFix!MCBalances, InitialNonces <- SMFix!MCNonces,
        InitialUtxos <- (d1 :> SMFix!Out(alice, 2)), InitialContracts <- SMFix!MCContracts,
        Blocks <- SMFix!BlocksOf({SMFix!A1, SMFix!A4}), MaxApplied <- 2, Deployments <- {},
        Heights <- {1, 2}, KeepLast <- {0, 1}, MaxUpdates <- 2

\* The ShardManager, its cross-shard queue and a ShardMessageHandler: two
\* senders whose int(sha256(sender), 16) reduced mod 12 keeps every
\* residue mod 2, 3 and 4 (alice's digest even, bob's odd), one
\* transaction each, two nodes; two shards of two transactions that may
\* grow to four; a one-message queue; handler messages to shard_0 over a
\* clock of one tick with no drift allowed.
SH == INSTANCE Sharding WITH
        shard_count <- sh_shard_count, shard_metadata <- sh_shard_metadata,
        shard_transactions <- sh_shard_transactions, node_assignments <- sh_node_assignments,
        message_queue <- sh_message_queue, submitted <- sh_submitted,
        handler_queue <- sh_handler_queue, processed_messages <- sh_processed_messages,
        now <- sh_now, created <- sh_created, handled <- sh_handled,
        Senders <- {alice, bob}, SenderHash <- (alice :> 4) @@ (bob :> 7),
        Txs <- {t1, t2}, SenderOf <- (t1 :> alice) @@ (t2 :> bob), Nodes <- {n1, n2},
        Updates <- {u1}, InitialShardCount <- 2, MaxTransactionsPerShard <- 2,
        MaxShardCount <- 4, MaxQueue <- 1, Payloads <- {p1}, Drift <- 0, MaxTime <- 1,
        HandlerShards <- {<<"shard", 0>>}

Modes == {"utxo", "state", "mempool", "merkle", "validator", "wallet",
          "keys", "wallet_keys", "recovery", "node", "snapshot", "snapshot_json", "sharding",
          "contracts", "state_db"}

Init ==
    /\ mode \in Modes
    /\ UL!Init /\ SM!Init /\ MP!Init /\ MK!Init /\ SV!Init /\ WL!Init /\ KS!Init /\ WK!Init /\ KR!Init /\ VN!Init /\ SE!SnapInit /\ SJ!SnapInit /\ SH!Init /\ CN!Init /\ cn_calls = 0 /\ DB!Init

\* The components other than the one of mode m keep their state.
Frame(m) ==
    /\ UNCHANGED mode
    /\ m # "utxo"          => UNCHANGED ul_vars
    /\ m # "state"         => UNCHANGED sm_vars
    /\ m # "mempool"       => UNCHANGED mp_vars
    /\ m # "merkle"        => UNCHANGED mk_vars
    /\ m # "validator"     => UNCHANGED sv_vars
    /\ m # "wallet"        => UNCHANGED wl_vars
    /\ m # "keys"          => UNCHANGED ks_vars
    /\ m # "wallet_keys"   => UNCHANGED wk_vars
    /\ m # "recovery"      => UNCHANGED kr_vars
    /\ m # "node"          => UNCHANGED vn_vars
    /\ m # "snapshot"      => UNCHANGED se_vars
    /\ m # "snapshot_json" => UNCHANGED sj_vars
    /\ m # "sharding"      => UNCHANGED sh_vars
    /\ m # "contracts"     => UNCHANGED cn_vars
    /\ m # "state_db"      => UNCHANGED db_vars

\* A step A of the component of mode m.
Step(m, A) == mode = m /\ A /\ Frame(m)

Next ==
    \/ Step("utxo", UL!Next)
    \/ Step("state", SM!Next)
    \/ Step("mempool", MP!Next)
    \/ Step("merkle", MK!AddTx)
    \/ Step("validator", SV!Next)
    \/ Step("wallet", WL!Next)
    \/ Step("keys", KS!Next)
    \/ Step("wallet_keys", WK!Next)
    \/ Step("recovery", KR!RecoveryNext)
    \/ Step("node", VN!NodeNext)
    \/ Step("snapshot", SE!SnapNext)
    \/ Step("snapshot_json", SJ!SnapNext)
    \/ Step("sharding", SH!Next)
    \/ Step("contracts", ContractCall)
    \/ Step("state_db", DB!Next)

Spec == Init /\ [][Next]_vars

-----------------------------------------------------------------------------
(* The components' properties, checked in every behaviour.                 *)

TypeOK == mode \in Modes /\ UL!TypeOK /\ SM!TypeOK /\ MP!TypeOK /\ SV!TypeOK /\ WL!TypeOK
          /\ KS!TypeOK /\ WK!TypeOK /\ KR!TypeOK /\ VN!TypeOK
          /\ SE!TypeOK /\ SE!SnapTypeOK /\ SJ!TypeOK /\ SJ!SnapTypeOK /\ SH!TypeOK /\ CN!TypeOK /\ DB!TypeOK

\* utxo_set.py: no two standing transactions spend one output.
NoDoubleSpend == mode = "utxo" => UL!NoDoubleSpend

\* utxo_set.py: validated transactions never create value.
ValueNotCreated == mode = "utxo" => UL!ValueNotCreated

\* state_manager.py: balances plus burnt fees are constant.
BalancesConserved == mode = "state" => SM!BalancesConserved

\* smart_contracts.py: a block update_state accepts calls only contracts
\* deployed before it (see StateManager).
AppliedCallsDeployed == mode = "contracts" => CN!AppliedCallsDeployed

\* smart_contracts.py: a deploy leaves the deployed contracts alone (see
\* StateManager; violated, a redeploy or an address collision rewrites one).
DeployKeepsContracts == CN!DeployKeepsContracts

\* state_db.py: a restore brings back every backup of the file it names
\* (see StateDB; violated, two backups in one second share a file name).
ArchiveRecoverable == DB!ArchiveRecoverable

\* state_db.py: outside a restore the database directory exists (see
\* StateDB; violated, restore deletes it before unpacking a missing file).
DataNotLost == mode = "state_db" => DB!DataNotLost

\* state_manager.py: a rollback restores the balances and nonces before the block.
RollbackRestoresAccounts == SM!RollbackRestoresAccounts

\* merkle_proof.py: every generated proof verifies against the tree root.
ProofsVerify == mode = "merkle" => MK!ProofsVerify

\* block.py: a block of sorted-key dicts stores the tree's root.
BlockRootMatchesTree == mode = "merkle" => MK!BlockRootMatchesTree

\* cryptography/merkle_proof.py: the second tree builds the same root and proofs.
CryptoAgreesWithTree == mode = "merkle" => MK!CryptoAgreesWithTree

\* shard_validator.py: validating blocks never creates value.
ShardValueNotCreated == mode = "validator" => SV!ShardValueNotCreated

\* shard_validator.py: a rejected block leaves the shard's UTXOs unchanged.
RejectedBlockLeavesStateUnchanged == SV!RejectedBlockLeavesStateUnchanged

\* shard_manager.py: get_shard_metadata's transaction_count of every shard
\* is the number of transactions the shard holds.
TxCountMatches == mode = "sharding" => SH!TxCountMatches

\* shard_manager.py: every transaction an assignment accepted stays in
\* some shard.
TransactionsNotLost == mode = "sharding" => SH!TransactionsNotLost

\* shard_manager.py: delete_shard keeps every node assigned to some shard.
NodesNotLost == SH!NodesNotLost

\* cross_shard_communication.py: no transaction is assigned twice.
NoTransactionTwice == SH!NoTransactionTwice

\* cross_shard_communication.py: a message reaches its destination shard.
DeliveredToDestination == SH!DeliveredToDestination

\* shard_message_handler.py: a message's callback runs at most once.
HandledOnce == SH!HandledOnce

\* shard_message_handler.py: callbacks run only for live shards.
HandledForLiveShard == SH!HandledForLiveShard

\* shard_message_handler.py: a routed message is handled or still queued.
NoMessageDropped == SH!NoMessageDropped

\* utxo_set.py: rollback_transaction restores the outputs the transaction spent.
RollbackRestoresUtxos == UL!RollbackRestoresUtxos

\* state_manager.py: no balance goes below zero.
NoNegativeBalance == SM!NoNegativeBalance

\* mempool_manager.py: cleanup removes every expired entry.
CleanupRemovesExpired == MP!CleanupRemovesExpired

\* mempool_manager.py: get_transactions answers for every pool.
GetTransactionsAnswers == MP!GetTransactionsAnswers

\* The multisig wallet authorizes only what a quorum of its keys signed.
AuthorizedByQuorum == WL!AuthorizedByQuorum

\* A key store_key stored is retrieved, crashes of the process included.
StoredKeyRecoverable == KS!StoredKeyRecoverable /\ WK!BackupRecoverable

\* A backup backup_key made is recovered, crashes included.
BackupRecoverable == KR!BackupRecoverable

\* Validated blocks never apply one sender's nonce twice.
AppliedNoncesUnique == VN!AppliedNoncesUnique

\* Validated blocks only spend with the sender's own key.
SpendsSignedByOwner == VN!SpendsSignedByOwner

\* Validated blocks never overdraw an account.
AdmittedNoNegativeBalance == VN!NoNegativeBalance

\* Every snapshot file can be loaded back.
SnapshotsLoadable == SE!SnapshotsLoadable /\ SJ!SnapshotsLoadable

\* A rollback to a snapshot restores the state it was taken in.
RollbackRestoresSnapshot == SE!RollbackRestoresSnapshot /\ SJ!RollbackRestoresSnapshot

\* The manager still applies blocks after a rollback to a snapshot.
UpdatesAfterSnapshotRollback ==
    SE!UpdatesAfterSnapshotRollback /\ SJ!UpdatesAfterSnapshotRollback
==============================================================================
