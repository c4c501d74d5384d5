-------------------------- MODULE ChannelSettlement --------------------------
(***************************************************************************)
(* The ChannelSettlement of                                                *)
(* src/layer2_solutions/state_channels/channel_settlement.py.             *)
(*                                                                         *)
(* channels and settled_channels are the two dicts; a channel id is the    *)
(* triple (sender, receiver, time.time()) that the code digests, so two    *)
(* opens by one pair at one clock reading write the same key.  Timestamps  *)
(* are dropped.  deposited is a history variable: the sum of every         *)
(* initial_balance accepted; opens counts the accepted opens (bounded).    *)
(***************************************************************************)
EXTENDS Integers, Functions, TLC

CONSTANTS
    Parties,        \* addresses
    Deposits,       \* initial_balance values a caller passes
    Finals,         \* final balance values a caller passes to settle_channel
    MaxOpens,       \* bound on the accepted opens
    MaxTime         \* bound on the clock

VARIABLES channels, settled_channels, deposited, opens, now

vars == <<channels, settled_channels, deposited, opens, now>>

Init ==
    /\ channels = <<>>
    /\ settled_channels = <<>>
    /\ deposited = 0
    /\ opens = 0
    /\ now = 0

\* open_channel: ValueError unless initial_balance > 0; the channel is
\* written under its id, replacing whatever was there.
OpenChannel(sender, receiver, b) ==
    /\ b > 0
    /\ opens < MaxOpens
    /\ channels' = (<<sender, receiver, now>> :>
                      [sender |-> sender, receiver |-> receiver, balance |-> b,
                       status |-> "open"]) @@ channels
    /\ deposited' = deposited + b
    /\ opens' = opens + 1
    /\ UNCHANGED <<settled_channels, now>>

\* close_channel: False for an unknown or already closed channel.
CloseChannel(id) ==
    /\ id \in DOMAIN channels
    /\ channels[id].status = "open"
    /\ channels' = [channels EXCEPT ![id].status = "closed"]
    /\ UNCHANGED <<settled_channels, deposited, opens, now>>

\* Mutant of settle_channel: only the sender's final balance checked
\* against the channel balance.
SettleChannelSenderOnly(id, fs, fr) ==
    /\ id \in DOMAIN channels
    /\ channels[id].status = "closed"
    /\ fs <= channels[id].balance
    /\ settled_channels' = (id :> [sender |-> channels[id].sender,
                                   receiver |-> channels[id].receiver,
                                   final_sender_balance |-> fs,
                                   final_receiver_balance |-> fr]) @@ settled_channels
    /\ channels' = Restrict(channels, DOMAIN channels \ {id})
    /\ UNCHANGED <<deposited, opens, now>>

\* settle_channel: False for an unknown channel, one not closed, or final
\* balances summing to more than the channel balance; otherwise the
\* settlement is recorded under the id (replacing an earlier one) and the
\* channel deleted.  The sign of the final balances is not checked.
SettleChannel(id, fs, fr) ==
    /\ id \in DOMAIN channels
    /\ channels[id].status = "closed"
    /\ fs + fr <= channels[id].balance
    /\ settled_channels' = (id :> [sender |-> channels[id].sender,
                                   receiver |-> channels[id].receiver,
                                   final_sender_balance |-> fs,
                                   final_receiver_balance |-> fr]) @@ settled_channels
    /\ channels' = Restrict(channels, DOMAIN channels \ {id})
    /\ UNCHANGED <<deposited, opens, now>>

Tick ==
    /\ now < MaxTime
    /\ now' = now + 1
    /\ UNCHANGED <<channels, settled_channels, deposited, opens>>

Next ==
    \/ \E s, r \in Parties, b \in Deposits : OpenChannel(s, r, b)
    \/ \E id \in DOMAIN channels : CloseChannel(id)
    \/ \E id \in DOMAIN channels, fs, fr \in Finals : SettleChannel(id, fs, fr)
    \/ Tick

Spec == Init /\ [][Next]_vars

-----------------------------------------------------------------------------
(* Properties                                                              *)

TypeOK ==
    /\ \A id \in DOMAIN channels :
         channels[id] \in [sender : Parties, receiver : Parties, balance : Deposits,
                           status : {"open", "closed"}]
    /\ \A id \in DOMAIN settled_channels :
         settled_channels[id] \in [sender : Parties, receiver : Parties,
                                   final_sender_balance : Finals,
                                   final_receiver_balance : Finals]
    /\ opens \in 0 .. MaxOpens
    /\ now \in 0 .. MaxTime

Payout(s) == s.final_sender_balance + s.final_receiver_balance

\* Settlement never pays out more than was deposited: the channels still
\* held plus the settlements on record never add up to more than every
\* initial balance accepted, across re-opened and re-settled ids.
NoValueCreated ==
    SumFunction([id \in DOMAIN channels |-> channels[id].balance])
      + SumFunction([id \in DOMAIN settled_channels |-> Payout(settled_channels[id])])
      <= deposited

\* settle_channel "transfers the final balances to participants" out of the
\* channel balance: neither party is paid a negative amount or more than
\* the channel held.
PayoutsWithinChannel ==
    [][\A id \in DOMAIN channels :
         id \in DOMAIN settled_channels' /\ id \notin DOMAIN channels' =>
           \A f \in {settled_channels'[id].final_sender_balance,
                     settled_channels'[id].final_receiver_balance} :
             0 <= f /\ f <= channels[id].balance]_vars
==============================================================================
