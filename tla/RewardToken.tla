------------------------------ MODULE RewardToken ------------------------------
(***************************************************************************)
(* RewardToken of src/cryptocurrency/coin_features/utility_tokens/         *)
(* reward_token.py: rewards issued against a supply cap and transferred    *)
(* between addresses.                                                      *)
(*                                                                         *)
(* issue_rewards takes activity_value * reward_rate; the products a caller *)
(* can produce are the set Rewards, integers so that the sums stay exact.  *)
(* Transfer amounts are whatever a caller passes: nothing checks a sign.   *)
(* balances holds the addresses the dict has a key for.                    *)
(***************************************************************************)
EXTENDS Integers, Functions, TLC

CONSTANTS
    Addresses,    \* addresses
    TotalSupply,  \* total_supply
    Rewards,      \* activity_value * reward_rate values
    Amounts,      \* transfer amounts
    MaxCalls      \* bound on issue_rewards and transfer calls

VARIABLES current_supply, balances, calls

vars == <<current_supply, balances, calls>>

\* dict.get(address, 0)
BalanceOf(a) == IF a \in DOMAIN balances THEN balances[a] ELSE 0

Init == current_supply = 0 /\ balances = <<>> /\ calls = 0

\* issue_rewards: refused past the supply cap, else credited and counted.
IssueRewards(a, r) ==
    /\ calls < MaxCalls /\ calls' = calls + 1
    /\ IF current_supply + r > TotalSupply
       THEN UNCHANGED <<current_supply, balances>>
       ELSE /\ balances' = (a :> BalanceOf(a) + r) @@ balances
            /\ current_supply' = current_supply + r

\* Mutant of transfer: the recipient's balance read before the debit.
TransferStaleTo(from, to, amt) ==
    /\ calls < MaxCalls /\ calls' = calls + 1
    /\ IF from \notin DOMAIN balances \/ balances[from] < amt
       THEN UNCHANGED balances
       ELSE balances' = (to :> BalanceOf(to) + amt) @@ [balances EXCEPT ![from] = @ - amt]
    /\ UNCHANGED current_supply

\* transfer: refused for an address with no entry or too small a balance;
\* else the sender is debited, then the recipient's entry read and credited.
Transfer(from, to, amt) ==
    /\ calls < MaxCalls /\ calls' = calls + 1
    /\ IF from \notin DOMAIN balances \/ balances[from] < amt
       THEN UNCHANGED balances
       ELSE LET debited == [balances EXCEPT ![from] = @ - amt]
                toBal   == IF to \in DOMAIN debited THEN debited[to] ELSE 0
            IN balances' = (to :> toBal + amt) @@ debited
    /\ UNCHANGED current_supply

Next ==
    \/ \E a \in Addresses, r \in Rewards : IssueRewards(a, r)
    \/ \E from, to \in Addresses, amt \in Amounts : Transfer(from, to, amt)

Spec == Init /\ [][Next]_vars

-----------------------------------------------------------------------------
(* Properties                                                              *)

TypeOK ==
    /\ DOMAIN balances \subseteq Addresses
    /\ current_supply \in Int /\ current_supply <= TotalSupply
    /\ calls \in 0 .. MaxCalls

\* get_total_supply counts every token some address holds: the balances
\* sum to current_supply, across issues and transfers, a transfer to the
\* sender itself included (its entry is read after the debit).
SupplyMatchesBalances == SumFunction(balances) = current_supply

\* No address holds a negative balance.  transfer checks only that the
\* sender's balance is not below the amount, so a negative amount passes
\* and debits the recipient.
NoNegativeRewardBalance == \A a \in DOMAIN balances : balances[a] >= 0
==============================================================================
