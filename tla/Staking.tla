------------------------------- MODULE Staking -------------------------------
(***************************************************************************)
(* The StakingManager of src/cryptocurrency/mining/pos/staking_manager.py  *)
(* and the HybridMining of src/cryptocurrency/mining/hybrid/               *)
(* hybrid_mining.py.  The two classes share no state.                      *)
(*                                                                         *)
(* stakes maps an address to its record {amount, timestamp}; the clock is  *)
(* now, and every time.time() read of one call sees the same value.        *)
(* staked and unstaked are history variables (the totals accepted by stake *)
(* and returned by unstake) and last_staked the time of an address's last  *)
(* stake call.                                                             *)
(*                                                                         *)
(* In HybridMining, hstakes is the stakes dict and chain the mined blocks. *)
(* proof_of_work searches nonces until sha256(block_data + nonce) has the  *)
(* difficulty prefix; the result depends on block_data alone, so the pow   *)
(* hash is modelled as the data itself.  proof_of_stake's random.choices   *)
(* may pick any staker (every weight is positive), so it is an \E.         *)
(* hadded is the history of the amounts add_stake accepted.                *)
(***************************************************************************)
EXTENDS Integers, Sequences, Functions, TLC

CONSTANTS
    Addresses,      \* staker addresses
    Amounts,        \* amount values passed to stake and add_stake
    MinStake,       \* StakingManager.min_stake
    LockPeriod,     \* StakingManager.lock_period
    Miners,         \* miner_address values passed to mine_block
    Data,           \* block_data values passed to mine_block
    PosReward,      \* block_reward * pos_weight
    MaxCalls,       \* bound on accepted stake and add_stake calls
    MaxBlocks,      \* bound on the mined blocks
    MaxTime         \* bound on the clock

VARIABLES stakes, staked, unstaked, last_staked, calls,
          hstakes, chain, hadded, now

manager_vars == <<stakes, staked, unstaked, last_staked>>
hybrid_vars == <<hstakes, chain, hadded>>
vars == <<manager_vars, hybrid_vars, calls, now>>

Init ==
    /\ stakes = <<>>
    /\ staked = 0
    /\ unstaked = 0
    /\ last_staked = <<>>
    /\ calls = 0
    /\ hstakes = <<>>
    /\ chain = <<>>
    /\ hadded = 0
    /\ now = 0

\* Mutant of stake: a new record written even for a known address.
StakeOverwrites(a, amt) ==
    /\ amt >= MinStake
    /\ calls < MaxCalls
    /\ stakes' = (a :> [amount |-> amt, timestamp |-> now]) @@ stakes
    /\ staked' = staked + amt
    /\ last_staked' = (a :> now) @@ last_staked
    /\ calls' = calls + 1
    /\ UNCHANGED <<unstaked, hybrid_vars, now>>

\* stake: ValueError below min_stake; a known address has the amount added
\* to its record and keeps its timestamp; a new one gets a record stamped
\* now.
Stake(a, amt) ==
    /\ amt >= MinStake
    /\ calls < MaxCalls
    /\ stakes' = IF a \in DOMAIN stakes
                 THEN [stakes EXCEPT ![a].amount = @ + amt]
                 ELSE (a :> [amount |-> amt, timestamp |-> now]) @@ stakes
    /\ staked' = staked + amt
    /\ last_staked' = (a :> now) @@ last_staked
    /\ calls' = calls + 1
    /\ UNCHANGED <<unstaked, hybrid_vars, now>>

\* unstake: ValueError for an unknown address or before lock_period has
\* passed since the record's timestamp; otherwise the record is deleted
\* and its amount returned.
Unstake(a) ==
    /\ a \in DOMAIN stakes
    /\ now - stakes[a].timestamp >= LockPeriod
    /\ unstaked' = unstaked + stakes[a].amount
    /\ stakes' = Restrict(stakes, DOMAIN stakes \ {a})
    /\ UNCHANGED <<staked, last_staked, calls, hybrid_vars, now>>

\* HybridMining.add_stake: ValueError unless amount > 0; otherwise added to
\* the address's stake, from 0.0 for a new one.
AddStake(a, amt) ==
    /\ amt > 0
    /\ calls < MaxCalls
    /\ hstakes' = IF a \in DOMAIN hstakes
                  THEN [hstakes EXCEPT ![a] = @ + amt]
                  ELSE (a :> amt) @@ hstakes
    /\ hadded' = hadded + amt
    /\ calls' = calls + 1
    /\ UNCHANGED <<manager_vars, chain, now>>

\* proof_of_work: the hash found for block_data.
PowHash(d) == d

\* Mutant of mine_block: the validator's stake set to the reward.
MineBlockResetsStake(m, d) ==
    /\ Len(chain) < MaxBlocks
    /\ hstakes /= <<>>
    /\ \E v \in DOMAIN hstakes :
         /\ chain' = Append(chain,
                [index |-> Len(chain) + 1, timestamp |-> now, miner |-> m,
                 validator |-> v, data |-> d, pow_hash |-> PowHash(d),
                 previous_hash |-> IF chain = <<>> THEN "0" ELSE chain[Len(chain)].pow_hash])
         /\ hstakes' = [hstakes EXCEPT ![v] = PosReward]
    /\ UNCHANGED <<manager_vars, hadded, calls, now>>

\* mine_block: proof of work, then proof_of_stake, which raises ValueError
\* with no stakes (the block is then not created); otherwise the block,
\* linked to the previous block's pow hash, is appended and the selected
\* validator's stake grows by block_reward * pos_weight.
MineBlock(m, d) ==
    /\ Len(chain) < MaxBlocks
    /\ hstakes /= <<>>
    /\ \E v \in DOMAIN hstakes :
         /\ chain' = Append(chain,
                [index |-> Len(chain) + 1, timestamp |-> now, miner |-> m,
                 validator |-> v, data |-> d, pow_hash |-> PowHash(d),
                 previous_hash |-> IF chain = <<>> THEN "0" ELSE chain[Len(chain)].pow_hash])
         /\ hstakes' = [hstakes EXCEPT ![v] = @ + PosReward]
    /\ UNCHANGED <<manager_vars, hadded, calls, now>>

Tick ==
    /\ now < MaxTime
    /\ now' = now + 1
    /\ UNCHANGED <<manager_vars, hybrid_vars, calls>>

Next ==
    \/ \E a \in Addresses, amt \in Amounts : Stake(a, amt) \/ AddStake(a, amt)
    \/ \E a \in Addresses : Unstake(a)
    \/ \E m \in Miners, d \in Data : MineBlock(m, d)
    \/ Tick

Spec == Init /\ [][Next]_vars

-----------------------------------------------------------------------------
(* Properties                                                              *)

TypeOK ==
    /\ DOMAIN stakes \subseteq Addresses
    /\ \A a \in DOMAIN stakes : stakes[a].timestamp \in 0 .. MaxTime
    /\ DOMAIN hstakes \subseteq Addresses
    /\ \A i \in DOMAIN chain : chain[i].validator \in Addresses /\ chain[i].miner \in Miners
    /\ calls \in 0 .. MaxCalls
    /\ now \in 0 .. MaxTime

\* Tokens are neither created nor lost by the StakingManager: the amounts
\* held are every accepted stake, top-ups of a known address included,
\* less every amount unstake returned.
StakeAccounting ==
    SumFunction([a \in DOMAIN stakes |-> stakes[a].amount]) = staked - unstaked

\* HybridMining stakes are the amounts added plus one block_reward *
\* pos_weight per mined block, credited to that block's validator.
HybridStakeAccounting ==
    SumFunction(hstakes) = hadded + PosReward * Len(chain)

\* "lock_period: Lock period for staked tokens": an address unstakes only
\* when its last stake call is at least lock_period old.  A top-up keeps
\* the first call's timestamp, so it is returned as soon as the first
\* stake's lock ends.
LockRespected ==
    [][\A a \in DOMAIN stakes :
         a \notin DOMAIN stakes' => now - last_staked[a] >= LockPeriod]_vars

\* Each block commits to the chain before it: no two blocks carry the same
\* pow hash.  proof_of_work hashes block_data alone, so mining the same
\* data twice repeats the hash.
BlocksCommitToHistory ==
    \A i, j \in DOMAIN chain : i /= j => chain[i].pow_hash /= chain[j].pow_hash
==============================================================================
