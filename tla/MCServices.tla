------------------------------ MODULE MCServices ------------------------------
(***************************************************************************)
(* Model-checking harness for the layer-2 and service components.  The    *)
(* state channel managers, the settlement, the Plasma operator and exit    *)
(* manager, the sidechain managers, the staking and consensus helpers,     *)
(* governance, the aggregator's batch processor and proof submitter, and   *)
(* the zk-rollup engine, the reward token, the access tokens, the API authentication and the reserve audit share no state in the code, so each behaviour      *)
(* checks one of them: mode, chosen in Init, names the component whose     *)
(* Next runs, and the others stay at their initial state.  The state space *)
(* is the sum of the components' spaces, not their product.  Each         *)
(* component is an INSTANCE whose variables, its clock included, are       *)
(* renamed apart.                                                          *)
(***************************************************************************)
EXTENDS Integers, TLC

CONSTANTS a, b, c, tx1, tx2, v1, v2, s1, md1, d1, d2, v3, p1, p2,
          ServiceModes, \* the modes a cfg checks, a subset of Modes
          TokenClock    \* the access-token clock bound

VARIABLES mode,
          tp_channels, tp_deposits, tp_now,
          mp_channels, mp_lists, mp_built, mp_now,
          cs_channels, cs_settled, cs_deposited, cs_opens, cs_now,
          pending_transactions, blocks, last_block_time, added, now,
          exit_queue, completed_exits, requested,
          sidechains, next_chain_id, vlists, validator_states, authorized_validators,
          stakes, staked, unstaked, last_staked, st_calls, hstakes, chain, hadded, st_now,
          policy, order, stake, current_index, rounds, slashes, finalized,
          proposals, refundable_deposits, deposited, refunded, vproposals, ballots, gv_now,
          bp_pending, bp_batches, bp_waited, bp_flushing, bp_added,
          zk_pending, zk_batches, zk_results, ps_submitted, ps_pending, ps_generated,
          rt_supply, rt_balances, rt_calls,
          at_tokens, at_now, at_issued,
          aa_now, aa_held,
          ra_file, ra_pc, ra_local, ra_call, ra_done, ra_started, ra_reads

tp_vars == <<tp_channels, tp_deposits, tp_now>>
mp_vars == <<mp_channels, mp_lists, mp_built, mp_now>>
cs_vars == <<cs_channels, cs_settled, cs_deposited, cs_opens, cs_now>>
pl_vars == <<pending_transactions, blocks, last_block_time, added, now,
             exit_queue, completed_exits, requested>>
sc_vars == <<sidechains, next_chain_id, vlists, validator_states, authorized_validators>>
st_vars == <<stakes, staked, unstaked, last_staked, st_calls, hstakes, chain, hadded, st_now>>
pc_vars == <<policy, order, stake, current_index, rounds, slashes, finalized>>
gv_vars == <<proposals, refundable_deposits, deposited, refunded, vproposals, ballots, gv_now>>
bp_vars == <<bp_pending, bp_batches, bp_waited, bp_flushing, bp_added>>
zk_vars == <<zk_pending, zk_batches, zk_results>>
ps_vars == <<ps_submitted, ps_pending, ps_generated>>
rt_vars == <<rt_supply, rt_balances, rt_calls>>
at_vars == <<at_tokens, at_now, at_issued>>
aa_vars == <<aa_now, aa_held>>
ra_vars == <<ra_file, ra_pc, ra_local, ra_call, ra_done, ra_started, ra_reads>>
vars == <<mode, tp_vars, mp_vars, cs_vars, pl_vars, sc_vars, st_vars, pc_vars, gv_vars, bp_vars,
          zk_vars, ps_vars, rt_vars, at_vars, aa_vars, ra_vars>>

\* Two-party channels between a and b: deposits of 1 and 2, transfers of 1
\* and of -1 (the code does not check the sign), two transfers per channel,
\* one clock tick so that ids can collide and differ.
TP == INSTANCE TwoPartyChannels WITH
        channels <- tp_channels, deposits <- tp_deposits, now <- tp_now,
        Parties <- {a, b}, Pairs <- {<<a, b>>}, Deposits <- {1, 2},
        Amounts <- {1, -1},
        MaxTxs <- 2, MaxTime <- 1

\* Multi-party channels of a and b, positive transfers,
\* one transfer per channel, at most two lists built.
MP == INSTANCE MultiPartyChannels WITH
        channels <- mp_channels, lists <- mp_lists, built <- mp_built, now <- mp_now,
        Parties <- {a, b}, Rosters <- {<<a, b>>},
        BalanceLists <- {<<1, 1>>}, Amounts <- {1},
        MaxLists <- 2, MaxTxs <- 1, MaxTime <- 1

\* Settlement with final balances from -1 to 2 against deposits of 1 and 2.
CS == INSTANCE ChannelSettlement WITH
        channels <- cs_channels, settled_channels <- cs_settled,
        deposited <- cs_deposited, opens <- cs_opens, now <- cs_now,
        Parties <- {a, b}, Deposits <- {0, 1, 2}, Finals <- {-1, 0, 1},
        MaxOpens <- 2, MaxTime <- 1

\* Plasma: two transactions, a two-second block interval over a clock of
\* four, exits from blocks 1 and 2.
PL == INSTANCE Plasma WITH
        Txs <- {tx1, tx2}, Users <- {a}, ExitAmounts <- {0, 1},
        BlockNumbers <- {1, 2}, BlockInterval <- 2,
        MaxAdded <- 3, MaxExits <- 2, MaxTime <- 4

\* Sidechains: two chains over two validators, one bridge chain id.
SC == INSTANCE Sidechains WITH
        Validators <- {v1, v2}, ValidatorLists <- {<<v1>>},
        ChainIds <- {1}, States <- {s1}, Metadata <- {md1}, MaxChains <- 2

\* Staking: stakes of 1 (below min_stake) and 2, a lock of two seconds over
\* a clock of three, so top-ups happen before, at and after the lock ends;
\* two blocks mined over two data values.
ST == INSTANCE Staking WITH
        calls <- st_calls, now <- st_now,
        Addresses <- {a, b}, Amounts <- {1, 2}, MinStake <- 2, LockPeriod <- 2,
        Miners <- {c}, Data <- {d1, d2}, PosReward <- 3,
        MaxCalls <- 3, MaxBlocks <- 2, MaxTime <- 3

\* Consensus helpers: three validators for a pool of at most two, stakes
\* of 8 (below minimum_stake) and 16, a slashing_penalty of 1/4 (so two
\* slashes of a stake of 16 stay exact), downtimes at and above the
\* threshold, a finalization_threshold of 2/3 and vote lists of up to two.
PC == INSTANCE PosConsensus WITH
        Validators <- {v1, v2, v3}, Stakes <- {8, 16}, MinimumStake <- 16,
        MaxValidatorCount <- 2, SlashNum <- 1, SlashDen <- 4,
        DowntimeThreshold <- 300, Downtimes <- {300, 600},
        FtNum <- 2, FtDen <- 3, MaxVotes <- 2, MaxFinalized <- 1, MaxSlashes <- 2, MaxSelections <- 3

\* Governance: two proposal ids, deposits of 1 (below min_deposit) and 3
\* with a fee of 1, a refund time of two seconds; one proposal voted on in
\* a one-second voting period over a clock of three, stakes of 1 and -1.
GV == INSTANCE Governance WITH
        now <- gv_now,
        ProposalIds <- {p1, p2}, DepositValues <- {1, 3}, MinDeposit <- 2,
        SubmissionFee <- 1, RefundTime <- 2,
        StatusValues <- {"approved", "rejected", "expired"},
        VoteIds <- {p1}, VotingDuration <- 1, VoteStakes <- {1, -1}, MaxBallots <- 2, MaxTime <- 3

\* Batch processor: batches of two, a two-second timeout, three adds of
\* two transactions, two batches made outside a flush.
BP == INSTANCE BatchProcessor WITH
        pending <- bp_pending, batches <- bp_batches, waited <- bp_waited,
        flushing <- bp_flushing, added <- bp_added,
        Txs <- {tx1, tx2}, BatchSize <- 2, Timeout <- 2, MaxAdded <- 3, MaxBatches <- 2

\* zk-rollups: two transactions of a to b, batches of up to two, two
\* batches aggregated and two submissions.
ZK == INSTANCE ZKRollup WITH
        pending_transactions <- zk_pending, processed_batches <- zk_batches, results <- zk_results,
        Txs <- {[sender |-> a, receiver |-> b, amount |-> 1], [sender |-> a, receiver |-> b, amount |-> 2]},
        BatchSize <- 2, MaxBatches <- 2, MaxSubmits <- 2

\* Proof submitter: proofs of batch 1 and 2 over one transaction dict and
\* two state roots, three generated.
PS == INSTANCE ProofSubmitter WITH
        submitted_proofs <- ps_submitted, pending_proofs <- ps_pending, generated <- ps_generated,
        BatchIds <- {1, 2}, TxSets <- {tx1}, Roots <- {s1, md1}, MaxProofs <- 3

\* Reward token of a and b with a supply of 3: rewards of 1 and 2, so the
\* cap refuses one; transfers of 1 and of -1, a self-transfer included;
\* four calls.
RT == INSTANCE RewardToken WITH
        current_supply <- rt_supply, balances <- rt_balances, calls <- rt_calls,
        Addresses <- {a, b}, TotalSupply <- 3, Rewards <- {1, 2}, Amounts <- {1, -1},
        MaxCalls <- 4

\* Access tokens of users "u" and "u1" (ids whose one is a prefix of the
\* other), living 300 seconds as in access_token.py's example, over
\* TokenClock seconds of two-digit timestamps, the fixed width of the real
\* ten-digit ones.
AT == INSTANCE AccessToken WITH
        tokens <- at_tokens, now <- at_now, issued <- at_issued,
        Users <- {<<"u">>, <<"u", "1">>}, TokenExpirySeconds <- 300,
        StartTime <- 10, MaxTime <- 10 + TokenClock

\* auth.py's API_KEYS, a token life of one second (for 3600) over four
\* seconds, so tokens expire, sit on the boundary and stay fresh; headers
\* with the three keys, an unknown key and none.
AA == INSTANCE ApiAuth WITH
        now <- aa_now, held <- aa_held,
        ApiKeys <- {"key1", "key2", "key3"},
        Role <- ("key1" :> "superadmin") @@ ("key2" :> "admin") @@ ("key3" :> "viewer"),
        Secret <- ("key1" :> "secret1") @@ ("key2" :> "secret2") @@ ("key3" :> "secret3"),
        TokenExpiration <- 1, Headers <- {"key1", "key2", "key3", "key4", ""},
        NoHeader <- "", NoRole <- "none", MaxTime <- 3

\* Two callers of one reserve file holding USD deposits of 2 against
\* liabilities of 2, adding gold and removing the deposits, three calls.
RA == INSTANCE ReserveAudit WITH
        file <- ra_file, pc <- ra_pc, local <- ra_local, call <- ra_call,
        done <- ra_done, started <- ra_started, reads <- ra_reads,
        Reads <- {"audit", "list"},
        Procs <- {"r1", "r2"},
        Calls <- {[kind |-> "add", name |-> "Gold", value |-> 1],
                  [kind |-> "remove", name |-> "USD Deposits", value |-> 0]},
        InitialFile <- [complete |-> TRUE, total_liabilities |-> 2,
                        assets |-> <<[name |-> "USD Deposits", value |-> 2]>>],
        MaxCalls <- 3

Modes == {"two_party", "multi_party", "settlement", "plasma", "sidechains", "staking",
          "consensus", "governance", "batch", "zk_rollup", "proofs", "reward", "access_token", "api_auth", "reserve"}

Init ==
    /\ mode \in ServiceModes
    /\ TP!Init /\ MP!Init /\ CS!Init /\ PL!Init /\ SC!Init /\ ST!Init /\ PC!Init /\ GV!Init /\ BP!Init /\ ZK!Init /\ PS!Init /\ RT!Init /\ AT!Init /\ AA!Init /\ RA!Init

\* The components other than the one of mode m keep their state.
Frame(m) ==
    /\ UNCHANGED mode
    /\ m # "two_party"    => UNCHANGED tp_vars
    /\ m # "multi_party"  => UNCHANGED mp_vars
    /\ m # "settlement"   => UNCHANGED cs_vars
    /\ m # "plasma"       => UNCHANGED pl_vars
    /\ m # "sidechains"   => UNCHANGED sc_vars
    /\ m # "staking"      => UNCHANGED st_vars
    /\ m # "consensus"    => UNCHANGED pc_vars
    /\ m # "governance"   => UNCHANGED gv_vars
    /\ m # "batch"        => UNCHANGED bp_vars
    /\ m # "zk_rollup"    => UNCHANGED zk_vars
    /\ m # "proofs"       => UNCHANGED ps_vars
    /\ m # "reward"       => UNCHANGED rt_vars
    /\ m # "access_token" => UNCHANGED at_vars
    /\ m # "api_auth"     => UNCHANGED aa_vars
    /\ m # "reserve"      => UNCHANGED ra_vars

\* A step A of the component of mode m.
Step(m, A) == mode = m /\ A /\ Frame(m)

BatchStep(A) == Step("batch", A)

Next ==
    \/ Step("two_party", TP!Next)
    \/ Step("multi_party", MP!Next)
    \/ Step("settlement", CS!Next)
    \/ Step("plasma", PL!Next)
    \/ Step("sidechains", SC!Next)
    \/ Step("staking", ST!Next)
    \/ Step("consensus", PC!Next)
    \/ Step("governance", GV!Next)
    \/ BatchStep(BP!Next)
    \/ Step("zk_rollup", ZK!Next)
    \/ Step("proofs", PS!Next)
    \/ Step("reward", RT!Next)
    \/ Step("access_token", AT!Next)
    \/ Step("api_auth", AA!Next)
    \/ Step("reserve", RA!Next)

\* The fairness of BatchProcessor, in the batch behaviours.
Fairness == WF_vars(BatchStep(BP!Tick)) /\ WF_vars(BatchStep(BP!FlushIteration))

Spec == Init /\ [][Next]_vars /\ Fairness

-----------------------------------------------------------------------------
(* The components' properties, checked in every behaviour.                 *)

TypeOK ==
    /\ mode \in Modes
    /\ TP!TypeOK /\ MP!TypeOK /\ CS!TypeOK /\ PL!TypeOK /\ SC!TypeOK /\ ST!TypeOK /\ PC!TypeOK /\ GV!TypeOK /\ BP!TypeOK /\ ZK!TypeOK /\ PS!TypeOK /\ RT!TypeOK /\ AT!TypeOK /\ AA!TypeOK /\ RA!TypeOK

\* state_channel_manager.py: the recorded transfers account for a channel's
\* balance (see TwoPartyChannels).
ChannelBalanceMatchesHistory == TP!BalanceMatchesHistory

\* multi_party_channels.py: transfers conserve every balances list.
MultiPartyBalancesConserved == MP!BalancesConserved

\* channel_settlement.py: settlements never pay out more than was deposited.
SettlementNoValueCreated == CS!NoValueCreated

\* plasma_operator.py: every added transaction is in one block or the pool.
PlasmaTransactionsInOneBlock == PL!TransactionsInOneBlock

\* plasma_operator.py: blocks are numbered in order and spaced by the interval.
PlasmaBlocksSpaced == PL!BlocksSpaced

\* plasma_exit.py: exits complete in request order.
PlasmaExitsFifo == PL!ExitsFifo

\* staking_manager.py: stakes held are the stakes accepted less those returned.
StakeAccounting == ST!StakeAccounting

\* hybrid_mining.py: stakes are the amounts added plus the block rewards.
HybridStakeAccounting == ST!HybridStakeAccounting

\* validator_selection.py: round-robin never repeats a validator within a round.
RoundRobinFair == PC!RoundRobinFair

\* slashing_rules.py: slashing never zeroes a stake-weighted selection weight.
SelectionWeightsPositive == PC!SelectionWeightsPositive

\* proposal_submission.py: a deposit is refunded at most once.
DepositsAccounted == GV!DepositsAccounted

\* voting_mechanism.py: tallies count exactly the ballots cast in the period.
TalliesCountTimelyBallots == GV!TalliesCountTimelyBallots

\* reward_token.py: the balances sum to get_total_supply.
RewardSupplyMatchesBalances == RT!SupplyMatchesBalances

\* reward_token.py: no reward balance goes below zero.
RewardBalancesNonNegative == RT!NoNegativeRewardBalance

\* batch_processor.py: flush_pending_transactions eventually returns.
BatchFlushTerminates == BP!FlushTerminates

\* state_channel_manager.py: only the sender's transfers lower its side.
ChannelOnlySenderDebits == TP!OnlySenderDebits

\* multi_party_channels.py: a balance drops only by its owner's transfer.
MultiPartyOnlyOwnTransfersDebit == MP!OnlyOwnTransfersDebit

\* channel_settlement.py: each payout is within the channel balance.
SettlementPayoutsWithinChannel == CS!PayoutsWithinChannel

\* plasma_exit.py: exits are from created blocks, once per user and block.
PlasmaExitsBacked == PL!ExitsBacked

\* sidechain_manager.py: a change to one sidechain leaves the others alone.
SidechainsIsolated == SC!ChainsIsolated

\* staking_manager.py: staked tokens stay locked for lock_period.
StakeLockRespected == ST!LockRespected

\* hybrid_mining.py: every block's pow hash commits to the chain before it.
HybridBlocksCommitToHistory == ST!BlocksCommitToHistory

\* validator_selection.py: round-robin selection answers for a nonempty pool.
SelectionIndexInRange == PC!SelectionIndexInRange

\* slashing_rules.py: every pool validator meets minimum_stake.
PoolMeetsMinimum == PC!PoolMeetsMinimum

\* block_finalization.py: a finalized block has a two-thirds quorum of the pool.
FinalizedByQuorum == PC!FinalizedByQuorum

\* zk_rollup_engine.py: the proof made for an aggregated batch verifies.
ZKBatchesSubmittable == ZK!AggregatedBatchesSubmittable

\* voting_mechanism.py: a tally never goes below zero.
TalliesNonNegative == GV!TalliesNonNegative

\* auth.py: require_auth grants only a fresh token made for the key it comes
\* with, and only to an allowed role (see ApiAuth).
GrantsAuthorized == mode = "api_auth" => AA!GrantsAuthorized


\* reserve_audit.py: with no call under way the file holds every returned
\* add and remove (see ReserveAudit; violated, by a lost update or a crash
\* between truncation and write).
ReserveFileReflectsCalls == mode = "reserve" => RA!ReserveFileReflectsCalls

\* reserve_audit.py: every file that loads, and every audit and listing,
\* holds the initial assets with some returned calls applied in return
\* order (see ReserveAudit).
ReservesFromReturnedCalls == mode = "reserve" => RA!ReservesFromReturnedCalls

==============================================================================
