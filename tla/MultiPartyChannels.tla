-------------------------- MODULE MultiPartyChannels --------------------------
(***************************************************************************)
(* The MultiPartyChannelManager of                                         *)
(* src/layer2_solutions/state_channels/multi_party_channels.py.           *)
(*                                                                         *)
(* open_channel stores the caller's initial_balances list itself, not a    *)
(* copy, and update_channel changes that list in place.  The Python lists  *)
(* are therefore modelled as a heap: lists is the sequence of balance      *)
(* lists the caller has built, and a channel's "balances" is a reference   *)
(* (an index into lists).  A caller may pass a new list or one it passed   *)
(* before.  built is a history variable: each list as the caller built it. *)
(* A channel id is the digest of the participants and time.time(), the    *)
(* pair itself here.  Timestamps and "last_updated" are dropped.           *)
(***************************************************************************)
EXTENDS Integers, Sequences, Functions, TLC

CONSTANTS
    Parties,        \* addresses
    Rosters,        \* participants lists a caller passes
    BalanceLists,   \* initial_balances lists a caller builds
    Amounts,        \* amount values a caller passes to update_channel
    MaxLists,       \* bound on the lists the caller builds
    MaxTxs,         \* bound on the transactions list of one channel
    MaxTime         \* bound on the clock

VARIABLES channels, lists, built, now

vars == <<channels, lists, built, now>>

\* participants.index(x): the first position of x.
IndexOf(p, x) == CHOOSE i \in DOMAIN p : p[i] = x /\ \A j \in 1 .. i - 1 : p[j] /= x

SeqSum(s) == SumFunction(s)

Init ==
    /\ channels = <<>>
    /\ lists = <<>>
    /\ built = <<>>
    /\ now = 0

\* open_channel(participants, list l holding bl): ValueError when the
\* lengths differ or a balance is not positive; otherwise the channel,
\* holding the list l itself, is written under its id.
OpenChannelWith(p, l, bl) ==
    /\ Len(p) = Len(bl)
    /\ \A i \in DOMAIN bl : bl[i] > 0
    /\ channels' = (<<p, now>> :> [participants |-> p, balances |-> l,
                                   status |-> "open", transactions |-> <<>>]) @@ channels

\* The caller builds a new list for the call.
OpenChannelNewList(p, bl) ==
    /\ Len(lists) < MaxLists
    /\ lists' = Append(lists, bl)
    /\ built' = Append(built, bl)
    /\ OpenChannelWith(p, Len(lists'), bl)
    /\ UNCHANGED now

\* The caller passes a list it passed before.
OpenChannelSameList(p, l) ==
    /\ OpenChannelWith(p, l, lists[l])
    /\ UNCHANGED <<lists, built, now>>

\* Mutant of update_channel: the receiver's credit left out.
UpdateChannelNoCredit(id, s, r, a) ==
    LET c  == channels[id]
        si == IndexOf(c.participants, s)
    IN  /\ id \in DOMAIN channels
        /\ c.status = "open"
        /\ {s, r} \subseteq Range(c.participants)
        /\ lists[c.balances][si] >= a
        /\ Len(c.transactions) < MaxTxs
        /\ lists' = [lists EXCEPT ![c.balances][si] = @ - a]
        /\ channels' = [channels EXCEPT ![id].transactions =
                          Append(@, [sender |-> s, receiver |-> r, amount |-> a])]
        /\ UNCHANGED <<built, now>>

\* update_channel: False for an unknown id, a channel not open, a sender or
\* receiver not among the participants, or a sender balance below amount;
\* otherwise the list is debited at the sender's index, then credited at
\* the receiver's, and the transfer appended.
UpdateChannel(id, s, r, a) ==
    LET c  == channels[id]
        si == IndexOf(c.participants, s)
        ri == IndexOf(c.participants, r)
    IN  /\ id \in DOMAIN channels
        /\ c.status = "open"
        /\ {s, r} \subseteq Range(c.participants)
        /\ lists[c.balances][si] >= a
        /\ Len(c.transactions) < MaxTxs
        /\ lists' = [lists EXCEPT ![c.balances][si] = @ - a, ![c.balances][ri] = @ + a]
        /\ channels' = [channels EXCEPT ![id].transactions =
                          Append(@, [sender |-> s, receiver |-> r, amount |-> a])]
        /\ UNCHANGED <<built, now>>

\* close_channel: False for an unknown or already closed channel.
CloseChannel(id) ==
    /\ id \in DOMAIN channels
    /\ channels[id].status = "open"
    /\ channels' = [channels EXCEPT ![id].status = "closed"]
    /\ UNCHANGED <<lists, built, now>>

Tick ==
    /\ now < MaxTime
    /\ now' = now + 1
    /\ UNCHANGED <<channels, lists, built>>

Next ==
    \/ \E p \in Rosters, bl \in BalanceLists : OpenChannelNewList(p, bl)
    \/ \E p \in Rosters, l \in DOMAIN lists : OpenChannelSameList(p, l)
    \/ \E id \in DOMAIN channels, s, r \in Parties, a \in Amounts : UpdateChannel(id, s, r, a)
    \/ \E id \in DOMAIN channels : CloseChannel(id)
    \/ Tick

Spec == Init /\ [][Next]_vars

-----------------------------------------------------------------------------
(* Properties                                                              *)

TypeOK ==
    /\ lists \in Seq(Seq(Int))
    /\ Len(lists) = Len(built)
    /\ \A id \in DOMAIN channels :
         /\ channels[id].participants \in Rosters
         /\ channels[id].balances \in DOMAIN lists
         /\ channels[id].status \in {"open", "closed"}
    /\ now \in 0 .. MaxTime

\* A transfer moves value between participants and never creates or
\* destroys it: every balances list, however many channels share it, sums
\* to what it summed to when the caller built it.
BalancesConserved ==
    \A l \in DOMAIN lists : SeqSum(lists[l]) = SeqSum(built[l])

\* A participant's balance in a channel goes down only by a transfer that
\* participant sends on that channel: when a step lowers the balance at
\* position i of an open channel's list, the channel has just recorded a
\* transfer from participants[i].
OnlyOwnTransfersDebit ==
    [][\A id \in DOMAIN channels :
         LET c == channels[id] IN
         \A i \in DOMAIN c.participants :
           /\ c.status = "open"
           /\ lists'[c.balances][i] < lists[c.balances][i]
           => /\ Len(channels'[id].transactions) = Len(c.transactions) + 1
              /\ channels'[id].transactions[Len(channels'[id].transactions)].sender
                   = c.participants[i]]_vars
==============================================================================
