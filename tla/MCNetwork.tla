------------------------------ MODULE MCNetwork ------------------------------
(***************************************************************************)
(* Model-checking harness for the network protocols: the gossip protocol   *)
(* over three nodes in a line (n1 - n2 - n3), one node's Kademlia routing  *)
(* table, the shards' secured messages (shard_protocols.py), and the      *)
(* encrypted peer channels (secure_channel.py).  They                      *)
(* share no state, so mode, chosen in Init, picks the component a          *)
(* behaviour exercises and the others keep their initial state.            *)
(***************************************************************************)
EXTENDS Integers, TLC

CONSTANTS n1, n2, n3, m1, m2, ad1, ad2, val1, c1, c2, nk1,
          GossipRedundancy,   \* redundancy of every node's GossipProtocol
          GossipSendMayFail,  \* whether send_message may raise
          GossipNodes         \* the gossiping nodes, a prefix of the line n1 - n2 - n3

VARIABLES mode, seen, net, received, now, loop, scan, scanAt, routing_table, data_store,
          created, accepted, sp_now,
          sc_created, sc_shared_key, sc_wire, sc_received

gs_vars == <<seen, net, received, now, loop, scan, scanAt>>
kd_vars == <<routing_table, data_store>>
sp_vars == <<created, accepted, sp_now>>
sc_vars == <<sc_created, sc_shared_key, sc_wire, sc_received>>
vars == <<mode, gs_vars, kd_vars, sp_vars, sc_vars>>

\* get_peers of each node: its neighbours on the line.  Two messages, so
\* a new id can arrive while a non-empty dict is scanned; a one-second
\* expiry over a clock of two, so an id can expire.
GS == INSTANCE Gossip WITH
        Nodes <- GossipNodes,
        Peers <- [n \in GossipNodes |-> GossipNodes \cap CASE n = n1 -> {n2}
                                                         [] n = n2 -> {n1, n3}
                                                         [] n = n3 -> {n2}],
        Messages <- {m1, m2}, Redundancy <- GossipRedundancy, ExpirationTime <- 1,
        SendMayFail <- GossipSendMayFail, MaxTime <- 2

\* Node id "0" and one-digit ids "0" to "6" (bucket -1 holds "0" itself,
\* bucket 0 "1", bucket 1 "2" and "3", bucket 2 three of "4" to "6" for
\* two slots), k = 2, two addresses; one key stored.
KD == INSTANCE Kademlia WITH
        NodeId <- <<0>>, Ids <- {<<d>> : d \in 0 .. 6}, Addresses <- {ad1, ad2},
        Keys <- {<<5>>}, Values <- {val1}, K <- 2

\* One message type between two shards, two payloads, one foreign key;
\* two messages created over a clock of three ticks, a one-tick tolerance.
SP == INSTANCE ShardProtocols WITH
        now <- sp_now, Types <- {"cross_shard_transaction"}, Shards <- {"shard_0", "shard_1"},
        Payloads <- {"p1", "p2"}, SecretKey <- "secret", OtherKeys <- {"guess"},
        Nonces <- {"iv"}, Tolerance <- 1, MaxTime <- 2, MaxMessages <- 2

\* Two channels and one node key a caller may pass instead of the peer
\* channel's; one plaintext, one message.
SC == INSTANCE SecureChannel WITH
        created <- sc_created, shared_key <- sc_shared_key, wire <- sc_wire,
        received <- sc_received,
        Channels <- {c1, c2}, NodeKeys <- {nk1}, Plaintexts <- {"hello"}, MaxMessages <- 1

Modes == {"gossip", "kademlia", "shardmsg", "channel"}

Init ==
    /\ mode \in Modes
    /\ GS!Init /\ KD!Init /\ SP!Init /\ SC!Init

GossipStep(A) == mode = "gossip" /\ A /\ UNCHANGED <<mode, kd_vars, sp_vars, sc_vars>>

Next ==
    \/ GossipStep(GS!Next)
    \/ mode = "kademlia" /\ KD!Next /\ UNCHANGED <<mode, gs_vars, sp_vars, sc_vars>>
    \/ mode = "shardmsg" /\ SP!Next /\ UNCHANGED <<mode, gs_vars, kd_vars, sc_vars>>
    \/ mode = "channel" /\ SC!Next /\ UNCHANGED <<mode, gs_vars, kd_vars, sp_vars>>

\* The gossip fairness of Gossip: the gossip_loop threads and the
\* transport, in the gossip behaviours.
Fairness ==
    /\ \A n \in GossipNodes : WF_vars(GossipStep(GS!CleanupBegin(n)))
    /\ \A n \in GossipNodes : WF_vars(GossipStep(GS!CleanupEnd(n)))
    /\ \A n \in GossipNodes, m \in {m1, m2} : WF_vars(GossipStep(GS!HandleIncomingMessage(n, m)))

Spec == Init /\ [][Next]_vars /\ Fairness

-----------------------------------------------------------------------------
(* The components' properties, checked in every behaviour.                 *)

TypeOK == mode \in Modes /\ GS!TypeOK /\ KD!TypeOK /\ SP!TypeOK /\ SC!TypeOK

\* gossip_protocol.py: an expired id is eventually cleaned from seen_messages
\* (violated: a gossip arriving during the scan kills gossip_loop).
ExpiredEventuallyForgotten == GS!ExpiredEventuallyForgotten

\* gossip_protocol.py: while gossip_loop runs, an expired id is eventually
\* cleaned from seen_messages.
ExpiredForgottenWhileLoopRuns == GS!ExpiredForgottenWhileLoopRuns

\* gossip_protocol.py: a gossiped message eventually reaches every node.
GossipReachesAllNodes == GS!ReachesAllNodes

\* shard_protocols.py: every verified message is one a shard created.
VerifiedMessagesAuthentic == SP!VerifiedMessagesAuthentic

\* secure_channel.py: paired channels read each other's messages.
ChannelDelivers == SC!ChannelDelivers

\* kademlia_dht.py: a node never lists itself as a peer.
SelfNotInTable == KD!SelfNotInTable
==============================================================================
