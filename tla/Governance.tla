------------------------------ MODULE Governance ------------------------------
(***************************************************************************)
(* The governance classes of src/cryptocurrency/coin_features/governance/: *)
(* ProposalSubmission (proposal_submission.py) and VotingMechanism         *)
(* (voting_mechanism.py).  The two classes share no state.                 *)
(*                                                                         *)
(* proposals and refundable_deposits are the submission dicts; titles are  *)
(* left out.  deposited and refunded are history variables: the deposits  *)
(* (less the fee) accepted, and the amounts refund_deposit returned.       *)
(* vproposals is the voting dict; ballots records, in order, each          *)
(* cast_vote call on an existing proposal with a valid choice, accepted or *)
(* refused for lateness, with the time it was made.  The clock is now.     *)
(***************************************************************************)
EXTENDS Integers, Sequences, Functions, TLC

CONSTANTS
    ProposalIds,        \* proposal_id values
    DepositValues,      \* deposit values passed to submit_proposal
    MinDeposit,         \* min_deposit
    SubmissionFee,      \* submission_fee
    RefundTime,         \* deposit_refund_time
    StatusValues,       \* status values passed to update_status
    VoteIds,            \* proposal_id values passed to the voting mechanism
    VotingDuration,     \* voting_duration
    VoteStakes,         \* stake values passed to cast_vote
    MaxBallots,         \* bound on the ballots cast
    MaxTime             \* bound on the clock

VARIABLES proposals, refundable_deposits, deposited, refunded,
          vproposals, ballots, now

submission_vars == <<proposals, refundable_deposits, deposited, refunded>>
voting_vars == <<vproposals, ballots>>
vars == <<submission_vars, voting_vars, now>>

Init ==
    /\ proposals = <<>>
    /\ refundable_deposits = <<>>
    /\ deposited = 0
    /\ refunded = 0
    /\ vproposals = <<>>
    /\ ballots = <<>>
    /\ now = 0

\* submit_proposal: ValueError for a known id or a deposit below
\* min_deposit; otherwise the proposal is pending and deposit - fee is
\* both its recorded deposit and its refundable deposit.
SubmitProposal(id, dep) ==
    /\ id \notin DOMAIN proposals
    /\ dep >= MinDeposit
    /\ proposals' = (id :> [deposit |-> dep - SubmissionFee, submitted_at |-> now,
                            status |-> "pending"]) @@ proposals
    /\ refundable_deposits' = (id :> dep - SubmissionFee) @@ refundable_deposits
    /\ deposited' = deposited + dep - SubmissionFee
    /\ UNCHANGED <<refunded, voting_vars, now>>

\* update_status: ValueError for an unknown id; any status is written.
UpdateStatus(id, st) ==
    /\ id \in DOMAIN proposals
    /\ proposals' = [proposals EXCEPT ![id].status = st]
    /\ UNCHANGED <<refundable_deposits, deposited, refunded, voting_vars, now>>

\* The amount refundable_deposits.pop(id, 0.0) returns.
Refundable(id) ==
    IF id \in DOMAIN refundable_deposits THEN refundable_deposits[id] ELSE 0

\* Mutant of refund_deposit: get instead of pop.
RefundDepositKeeps(id) ==
    /\ id \in DOMAIN proposals
    /\ proposals[id].status \in {"rejected", "expired"}
    /\ now - proposals[id].submitted_at >= RefundTime
    /\ refunded' = refunded + Refundable(id)
    /\ UNCHANGED <<proposals, refundable_deposits, deposited, voting_vars, now>>

\* refund_deposit: ValueError for an unknown id or a status other than
\* rejected or expired; a message (nothing changes) before
\* deposit_refund_time has passed; otherwise the refundable deposit is
\* popped and returned, 0.0 when it was already refunded.
RefundDeposit(id) ==
    /\ id \in DOMAIN proposals
    /\ proposals[id].status \in {"rejected", "expired"}
    /\ now - proposals[id].submitted_at >= RefundTime
    /\ refunded' = refunded + Refundable(id)
    /\ refundable_deposits' = Restrict(refundable_deposits,
                                       DOMAIN refundable_deposits \ {id})
    /\ UNCHANGED <<proposals, deposited, voting_vars, now>>

\* VotingMechanism.create_proposal: ValueError for a known id; otherwise
\* both tallies start at 0 and the voting period at now.
CreateProposal(id) ==
    /\ id \notin DOMAIN vproposals
    /\ vproposals' = (id :> [yes |-> 0, no |-> 0, start_time |-> now]) @@ vproposals
    /\ UNCHANGED <<submission_vars, ballots, now>>

\* Mutant of cast_vote: the voting period not checked.
CastVoteAnyTime(id, v, s) ==
    /\ id \in DOMAIN vproposals
    /\ Len(ballots) < MaxBallots
    /\ ballots' = Append(ballots, [id |-> id, vote |-> v, stake |-> s, time |-> now])
    /\ vproposals' = [vproposals EXCEPT ![id][v] = @ + s]
    /\ UNCHANGED <<submission_vars, now>>

\* cast_vote on an existing proposal with choice v in {"yes", "no"}:
\* ValueError once now is past start_time + voting_duration; otherwise the
\* stake, whatever its sign, is added to the tally of v.  The unknown-id
\* and invalid-choice ValueErrors change nothing and are not enumerated.
CastVote(id, v, s) ==
    /\ id \in DOMAIN vproposals
    /\ Len(ballots) < MaxBallots
    /\ ballots' = Append(ballots, [id |-> id, vote |-> v, stake |-> s, time |-> now])
    /\ IF now > vproposals[id].start_time + VotingDuration
       THEN UNCHANGED vproposals
       ELSE vproposals' = [vproposals EXCEPT ![id][v] = @ + s]
    /\ UNCHANGED <<submission_vars, now>>

Tick ==
    /\ now < MaxTime
    /\ now' = now + 1
    /\ UNCHANGED <<submission_vars, voting_vars>>

Next ==
    \/ \E id \in ProposalIds, dep \in DepositValues : SubmitProposal(id, dep)
    \/ \E id \in ProposalIds, st \in StatusValues : UpdateStatus(id, st)
    \/ \E id \in ProposalIds : RefundDeposit(id)
    \/ \E id \in VoteIds : CreateProposal(id)
    \/ \E id \in VoteIds, v \in {"yes", "no"}, s \in VoteStakes : CastVote(id, v, s)
    \/ Tick

Spec == Init /\ [][Next]_vars

-----------------------------------------------------------------------------
(* Properties                                                              *)

TypeOK ==
    /\ \A id \in DOMAIN proposals :
         proposals[id].status \in StatusValues \cup {"pending"}
    /\ DOMAIN refundable_deposits \subseteq DOMAIN proposals
    /\ DOMAIN vproposals \subseteq VoteIds
    /\ Len(ballots) <= MaxBallots
    /\ now \in 0 .. MaxTime

\* Deposits are refunded at most once: what refund_deposit has returned,
\* plus what is still refundable, is exactly the deposits (less fees)
\* accepted, however status updates and repeated refund calls interleave.
DepositsAccounted ==
    refunded + SumFunction(refundable_deposits) = deposited

\* The stakes cast in a proposal's voting period, and only those.
Timely(id, v) ==
    {i \in DOMAIN ballots :
        /\ ballots[i].id = id /\ ballots[i].vote = v
        /\ ballots[i].time <= vproposals[id].start_time + VotingDuration}

\* Each tally of a proposal is the sum of the stakes of the ballots for that
\* choice cast while its voting period was open; a late ballot is refused
\* and counts for nothing.
TalliesCountTimelyBallots ==
    \A id \in DOMAIN vproposals, v \in {"yes", "no"} :
        vproposals[id][v] = SumFunction([i \in Timely(id, v) |-> ballots[i].stake])

\* A tally never goes below zero: "stake: Amount of stake used for the
\* vote".  cast_vote adds the stake without checking its sign, so a
\* negative stake takes votes away from a choice.
TalliesNonNegative ==
    \A id \in DOMAIN vproposals : vproposals[id].yes >= 0 /\ vproposals[id].no >= 0
==============================================================================
