--------------------------- MODULE TwoPartyChannels ---------------------------
(***************************************************************************)
(* The StateChannelManager of                                              *)
(* src/layer2_solutions/state_channels/state_channel_manager.py.          *)
(*                                                                         *)
(* channels is the dict channel_id -> channel.  A channel id is the sha256 *)
(* of sender, receiver and time.time(); a digest is collision-free, so the *)
(* id is the triple itself, and two opens by the same pair at the same     *)
(* clock reading write the same key.  The clock is now, advanced by Tick.  *)
(* "balance" is the sender's side of the channel; the transactions list    *)
(* keeps sender and amount (the timestamps and updated_at are dropped).    *)
(* deposits is a history variable: the initial_balance each key was last   *)
(* opened with.  Amounts are whatever the caller passes: update_channel   *)
(* does not check their sign.                                              *)
(***************************************************************************)
EXTENDS Integers, Sequences, Functions, TLC

CONSTANTS
    Parties,        \* addresses
    Pairs,          \* <<sender, receiver>> pairs a caller opens channels for
    Deposits,       \* initial_balance values a caller passes to open_channel
    Amounts,        \* amount values a caller passes to update_channel
    MaxTxs,         \* bound on the transactions list of one channel
    MaxTime         \* bound on the clock

VARIABLES channels, deposits, now

vars == <<channels, deposits, now>>

ChannelId(sender, receiver) == <<sender, receiver, now>>

\* The change to "balance" of a transfer sent by s: the sender's transfers
\* debit it, the receiver's credit it.
Delta(c, s, a) == IF s = c.sender THEN -a ELSE a

Init ==
    /\ channels = <<>>
    /\ deposits = <<>>
    /\ now = 0

\* open_channel: ValueError unless initial_balance > 0; otherwise the new
\* channel is written under its id, replacing whatever was there.
OpenChannel(sender, receiver, b) ==
    /\ b > 0
    /\ channels' = (ChannelId(sender, receiver) :>
                      [sender |-> sender, receiver |-> receiver, balance |-> b,
                       status |-> "open", transactions |-> <<>>]) @@ channels
    /\ deposits' = (ChannelId(sender, receiver) :> b) @@ deposits
    /\ UNCHANGED now

\* Mutant of update_channel: the transfer recorded before the balance check,
\* so a refused transfer stays in the history.
UpdateChannelRecordFirst(id, s, a) ==
    LET c == channels[id] IN
    /\ id \in DOMAIN channels
    /\ c.status = "open"
    /\ s \in {c.sender, c.receiver}
    /\ Len(c.transactions) < MaxTxs
    /\ channels' = [channels EXCEPT
                      ![id].balance = IF s = c.sender /\ c.balance < a THEN @ ELSE @ + Delta(c, s, a),
                      ![id].transactions = Append(@, [sender |-> s, amount |-> a])]
    /\ UNCHANGED <<deposits, now>>

\* update_channel: False for an unknown id, a channel not open, a sender
\* that is neither party, or a debit larger than the balance; otherwise the
\* balance changes and the transfer is appended.
UpdateChannel(id, s, a) ==
    LET c == channels[id] IN
    /\ id \in DOMAIN channels
    /\ c.status = "open"
    /\ s \in {c.sender, c.receiver}
    /\ s = c.sender => c.balance >= a
    /\ Len(c.transactions) < MaxTxs
    /\ channels' = [channels EXCEPT
                      ![id].balance = @ + Delta(c, s, a),
                      ![id].transactions = Append(@, [sender |-> s, amount |-> a])]
    /\ UNCHANGED <<deposits, now>>

\* close_channel: False for an unknown or already closed channel.
CloseChannel(id) ==
    /\ id \in DOMAIN channels
    /\ channels[id].status = "open"
    /\ channels' = [channels EXCEPT ![id].status = "closed"]
    /\ UNCHANGED <<deposits, now>>

\* time.time() advances.
Tick ==
    /\ now < MaxTime
    /\ now' = now + 1
    /\ UNCHANGED <<channels, deposits>>

Next ==
    \/ \E p \in Pairs, b \in Deposits : OpenChannel(p[1], p[2], b)
    \/ \E id \in DOMAIN channels, s \in Parties, a \in Amounts : UpdateChannel(id, s, a)
    \/ \E id \in DOMAIN channels : CloseChannel(id)
    \/ Tick

Spec == Init /\ [][Next]_vars

-----------------------------------------------------------------------------
(* Properties                                                              *)

Channel == [sender : Parties, receiver : Parties, balance : Int,
            status : {"open", "closed"},
            transactions : Seq([sender : Parties, amount : Amounts])]

TypeOK ==
    /\ DOMAIN channels = DOMAIN deposits
    /\ \A id \in DOMAIN channels : channels[id] \in Channel
    /\ now \in 0 .. MaxTime

\* The transfers a channel records account for its balance: "balance" is
\* the deposit it was opened with, less the sender's recorded transfers,
\* plus the receiver's, through every update, close and re-open of its id.
BalanceMatchesHistory ==
    \A id \in DOMAIN channels :
        LET c == channels[id] IN
        c.balance = deposits[id] +
            SumFunction([i \in DOMAIN c.transactions |->
                            Delta(c, c.transactions[i].sender, c.transactions[i].amount)])

\* Only the sender's own transfers lower the sender's side of a channel: a
\* step that lowers "balance" of a channel it leaves open records a transfer
\* sent by the channel's sender.
OnlySenderDebits ==
    [][\A id \in DOMAIN channels \cap DOMAIN channels' :
         /\ channels'[id].sender = channels[id].sender
         /\ channels'[id].balance < channels[id].balance
         /\ Len(channels'[id].transactions) = Len(channels[id].transactions) + 1
         => channels'[id].transactions[Len(channels'[id].transactions)].sender
              = channels[id].sender]_vars
==============================================================================
