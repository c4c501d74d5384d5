----------------------------- MODULE PosConsensus -----------------------------
(***************************************************************************)
(* The consensus helpers of src/blockchain/consensus/: ValidatorSelection  *)
(* (validator_selection.py), SlashingRules (slashing_rules.py) and         *)
(* BlockFinalization (block_finalization.py).                              *)
(*                                                                         *)
(* The selection's validators dict is order (its keys in insertion order)  *)
(* and stake.  The caller slashes the dict get_validators returns, the     *)
(* selection's own dict, so the slashing actions change stake.  A penalty  *)
(* rate is SlashNum / SlashDen; stakes are integers in units small enough  *)
(* that MaxSlashes slashes stay exact.  rotation_policy comes from the     *)
(* configuration file, so Init chooses it.  rounds is a history variable:  *)
(* the selections made since the pool's membership last changed.           *)
(* finalized records each vote list finalize_block accepted, with the pool *)
(* at that time.  The log files are left out: writing one happens after   *)
(* the stake change and cannot undo it.                                    *)
(***************************************************************************)
EXTENDS Integers, Sequences, SequencesExt, FiniteSets

CONSTANTS
    Validators,         \* validator ids
    Stakes,             \* stake values passed to add_validator
    MinimumStake,       \* minimum_stake
    MaxValidatorCount,  \* max_validator_count
    SlashNum, SlashDen, \* slashing_penalty = SlashNum / SlashDen
    DowntimeThreshold,  \* downtime_threshold_seconds
    Downtimes,          \* downtime_seconds values passed to slash_for_downtime
    FtNum, FtDen,       \* finalization_threshold = FtNum / FtDen
    MaxVotes,           \* bound on the length of a votes list
    MaxFinalized,       \* bound on the finalized vote lists recorded
    MaxSlashes,         \* bound on the slashes applied
    MaxSelections       \* bound on the selections recorded in rounds

VARIABLES policy, order, stake, current_index, rounds, slashes, finalized

vars == <<policy, order, stake, current_index, rounds, slashes, finalized>>

Policies == {"round_robin", "stake_weighted"}

Init ==
    /\ policy \in Policies
    /\ order = <<>>
    /\ stake = [v \in {} |-> 0]
    /\ current_index = 0
    /\ rounds = <<>>
    /\ slashes = 0
    /\ finalized = {}

\* add_validator: raises when the pool already has max_validator_count
\* entries (even for an id already in it) or below minimum_stake; then
\* validators[id] = stake, which keeps a known id's place in the order.
AddValidator(v, s) ==
    /\ Len(order) < MaxValidatorCount
    /\ s >= MinimumStake
    /\ IF v \in DOMAIN stake
       THEN UNCHANGED <<order, rounds>>
       ELSE /\ order' = Append(order, v)
            /\ rounds' = <<>>
    /\ stake' = [x \in DOMAIN stake \cup {v} |-> IF x = v THEN s ELSE stake[x]]
    /\ UNCHANGED <<policy, current_index, slashes, finalized>>

\* remove_validator: deletes a known id; current_index is left as it was.
RemoveValidator(v) ==
    /\ v \in DOMAIN stake
    /\ order' = SelectSeq(order, LAMBDA x : x /= v)
    /\ stake' = [x \in DOMAIN stake \ {v} |-> stake[x]]
    /\ rounds' = <<>>
    /\ UNCHANGED <<policy, current_index, slashes, finalized>>

\* Mutant of _round_robin_selection: current_index not advanced.
RoundRobinSelectionStuck ==
    /\ policy = "round_robin"
    /\ order /= <<>>
    /\ current_index < Len(order)
    /\ Len(rounds) < MaxSelections
    /\ rounds' = Append(rounds, order[current_index + 1])
    /\ UNCHANGED <<policy, order, stake, current_index, slashes, finalized>>

\* select_validator under round_robin: raises with no validators, and
\* list(...)[current_index] raises IndexError (nothing changes) when a
\* removal left current_index past the end; otherwise the validator at
\* current_index is selected and the index advances modulo the pool size.
RoundRobinSelection ==
    /\ policy = "round_robin"
    /\ order /= <<>>
    /\ current_index < Len(order)
    /\ Len(rounds) < MaxSelections
    /\ rounds' = Append(rounds, order[current_index + 1])
    /\ current_index' = (current_index + 1) % Len(order)
    /\ UNCHANGED <<policy, order, stake, slashes, finalized>>

\* select_validator under stake_weighted: raises with no validators;
\* random.choices with weights stake / total_stake picks a validator of
\* positive weight.
StakeWeightedSelection ==
    /\ policy = "stake_weighted"
    /\ order /= <<>>
    /\ Len(rounds) < MaxSelections
    /\ \E v \in DOMAIN stake :
         /\ stake[v] > 0
         /\ rounds' = Append(rounds, v)
    /\ UNCHANGED <<policy, order, stake, current_index, slashes, finalized>>

\* The stake left after a penalty rate of num / den.
Slashed(s, num) == s - (s * num) \div SlashDen

\* Mutant of slash_for_double_signing: the penalty at four times the rate.
SlashForDoubleSigningFourfold(v) ==
    /\ v \in DOMAIN stake
    /\ slashes < MaxSlashes
    /\ stake' = [stake EXCEPT ![v] = Slashed(@, 4 * SlashNum)]
    /\ slashes' = slashes + 1
    /\ UNCHANGED <<policy, order, current_index, rounds, finalized>>

\* slash_for_double_signing: raises for an unknown validator; otherwise
\* the stake loses stake * double_signing_penalty, twice the rate.
SlashForDoubleSigning(v) ==
    /\ v \in DOMAIN stake
    /\ slashes < MaxSlashes
    /\ stake' = [stake EXCEPT ![v] = Slashed(@, 2 * SlashNum)]
    /\ slashes' = slashes + 1
    /\ UNCHANGED <<policy, order, current_index, rounds, finalized>>

\* slash_for_downtime: raises for an unknown validator; slashes at the
\* base rate only when downtime_seconds exceeds the threshold.
SlashForDowntime(v, d) ==
    /\ v \in DOMAIN stake
    /\ d > DowntimeThreshold
    /\ slashes < MaxSlashes
    /\ stake' = [stake EXCEPT ![v] = Slashed(@, SlashNum)]
    /\ slashes' = slashes + 1
    /\ UNCHANGED <<policy, order, current_index, rounds, finalized>>

\* finalize_block: finalized when the number of distinct voters reaches
\* int(len(votes) * finalization_threshold).
FinalizeBlock(votes) ==
    /\ Cardinality(finalized) < MaxFinalized
    /\ Cardinality(ToSet(votes)) >= (Len(votes) * FtNum) \div FtDen
    /\ finalized' = finalized \cup {[votes |-> votes, pool |-> DOMAIN stake]}
    /\ UNCHANGED <<policy, order, stake, current_index, rounds, slashes>>

Next ==
    \/ \E v \in Validators, s \in Stakes : AddValidator(v, s)
    \/ \E v \in Validators : RemoveValidator(v) \/ SlashForDoubleSigning(v)
    \/ \E v \in Validators, d \in Downtimes : SlashForDowntime(v, d)
    \/ RoundRobinSelection
    \/ StakeWeightedSelection
    \/ \E votes \in BoundedSeq(Validators, MaxVotes) : FinalizeBlock(votes)

Spec == Init /\ [][Next]_vars

-----------------------------------------------------------------------------
(* Properties                                                              *)

TypeOK ==
    /\ policy \in Policies
    /\ order \in Seq(Validators)
    /\ ToSet(order) = DOMAIN stake
    /\ Len(order) = Cardinality(DOMAIN stake)
    /\ current_index \in Nat
    /\ ToSet(rounds) \subseteq ToSet(order)
    /\ slashes \in 0 .. MaxSlashes

\* Round-robin rotation is fair: while the pool's membership is unchanged,
\* no validator is selected twice within any pool-size window of
\* consecutive selections, across stake updates of known validators.
RoundRobinFair ==
    policy = "round_robin" =>
        \A i, j \in DOMAIN rounds : i < j /\ j - i < Len(order) => rounds[i] /= rounds[j]

\* Slashing never takes a validator's whole stake, so stake-weighted
\* selection always has positive weights and total_stake is never zero.
\* The double-signing rate is twice slashing_penalty: this holds only
\* while slashing_penalty is below one half.
SelectionWeightsPositive ==
    \A v \in DOMAIN stake : stake[v] > 0

\* select_validator answers whenever the pool is not empty.  Removing a
\* validator leaves current_index as it was, so after removing the last
\* listed validator the round-robin index is past the end and every call
\* raises IndexError until a validator is added.
SelectionIndexInRange ==
    policy = "round_robin" /\ order /= <<>> => current_index < Len(order)

\* Every validator in the pool meets minimum_stake, the admission bound of
\* add_validator.  Slashing the pool's own dict lowers a stake below it and
\* the validator stays selectable.
PoolMeetsMinimum ==
    \A v \in DOMAIN stake : stake[v] >= MinimumStake

\* A finalized block has votes from more than two thirds of the pool.
\* finalize_block compares distinct voters with a fraction of the list's
\* own length, never with the pool: an empty list, or one vote by a
\* validator outside the pool, finalizes.
FinalizedByQuorum ==
    \A f \in finalized :
        3 * Cardinality(ToSet(f.votes) \cap f.pool) > 2 * Cardinality(f.pool)
==============================================================================
