------------------------------- MODULE Gossip -------------------------------
(***************************************************************************)
(* GossipProtocol of src/blockchain/network/protocols/gossip_protocol.py,  *)
(* one instance per node of a small network.                               *)
(*                                                                         *)
(* _generate_message_id hashes json.dumps(message, sort_keys=True): equal  *)
(* messages have one id and distinct ones distinct ids, so a message is    *)
(* its own id.  seen[n] is node n's seen_messages dict, id -> time().  The *)
(* node object the protocol is given supplies get_peers and send_message   *)
(* (P2PNode has neither; the file's own driver passes a stand-in): Peers   *)
(* is what get_peers returns at each node, and a send that raises is       *)
(* caught and logged, so a send either puts the gossip in flight or loses  *)
(* it.  net holds the gossips in flight as <<destination, message>>        *)
(* pairs; the receiving side hands each one's data to                      *)
(* handle_incoming_message.  The clock is now.  The gossip_loop thread of  *)
(* each node runs cleanup_seen_messages in two steps: the comprehension    *)
(* over seen_messages.items() (scan, the keys it iterates, and scanAt, its *)
(* current_time), then the deletions.  The dict is shared with the thread  *)
(* that receives gossip; an insert while a non-empty dict is being         *)
(* iterated makes the iteration raise RuntimeError, which gossip_loop does *)
(* not catch, and the thread ends (loop = "dead").  received records, for  *)
(* the properties, every node a message has reached.                       *)
(***************************************************************************)
EXTENDS Integers, FiniteSets, Functions, TLC

CONSTANTS
    Nodes,            \* the nodes running the protocol
    Peers,            \* Nodes -> SUBSET Nodes: what node.get_peers() returns
    Messages,         \* messages an application gossips
    Redundancy,       \* redundancy
    ExpirationTime,   \* expiration_time of cleanup_seen_messages
    SendMayFail,      \* whether node.send_message may raise
    MaxTime           \* bound on the clock

VARIABLES seen, net, received, now, loop, scan, scanAt

vars == <<seen, net, received, now, loop, scan, scanAt>>

Init ==
    /\ seen = [n \in Nodes |-> <<>>]
    /\ net = {}
    /\ received = [m \in Messages |-> {}]
    /\ now = 0
    /\ loop = [n \in Nodes |-> "idle"]
    /\ scan = [n \in Nodes |-> {}]
    /\ scanAt = [n \in Nodes |-> 0]

\* The peers random.sample(peers, min(redundancy, len(peers))) may choose.
Samples(n) == {S \in SUBSET Peers[n] : Cardinality(S) = IF Redundancy < Cardinality(Peers[n])
                                                        THEN Redundancy
                                                        ELSE Cardinality(Peers[n])}

\* The sampled peers whose send_message call returns normally.
Delivered(S) == IF SendMayFail THEN SUBSET S ELSE {S}

\* send_gossip at node n, after the message has been marked seen there:
\* each sampled peer is sent the message.  With no peers the call returns
\* early, which is the empty sample.
Propagate(n, m) ==
    \E S \in Samples(n), D \in SUBSET Peers[n] :
        /\ D \in Delivered(S)
        /\ net' = net \cup {<<p, m>> : p \in D}

\* send_gossip(m) called by the application at node n: an id already seen
\* ends the call; otherwise it is marked seen now and gossiped.
SendGossip(n, m) ==
    /\ m \notin DOMAIN seen[n]
    /\ seen' = [seen EXCEPT ![n] = (m :> now) @@ @]
    /\ received' = [received EXCEPT ![m] = @ \cup {n}]
    /\ Propagate(n, m)
    /\ UNCHANGED <<now, loop, scan, scanAt>>

\* handle_incoming_message(m) at node n for a gossip in flight: a seen id
\* is ignored; otherwise it is marked seen and send_gossip(m) is called,
\* which finds the id it was just given in seen_messages and returns.
HandleIncomingMessage(n, m) ==
    /\ <<n, m>> \in net
    /\ net' = net \ {<<n, m>>}
    /\ received' = [received EXCEPT ![m] = @ \cup {n}]
    /\ IF m \in DOMAIN seen[n]
       THEN UNCHANGED seen
       ELSE seen' = [seen EXCEPT ![n] = (m :> now) @@ @]
    /\ UNCHANGED <<now, loop, scan, scanAt>>

\* cleanup_seen_messages, line 80 and the comprehension of line 81 begun:
\* current_time is read and the keys the iteration will visit are those
\* of the dict now.
CleanupBegin(n) ==
    /\ loop[n] = "idle"
    /\ loop' = [loop EXCEPT ![n] = "scanning"]
    /\ scan' = [scan EXCEPT ![n] = DOMAIN seen[n]]
    /\ scanAt' = [scanAt EXCEPT ![n] = now]
    /\ UNCHANGED <<seen, net, received, now>>

\* The ids of the scan older than expiration_time at current_time.
ToRemove(n) == {id \in scan[n] : scanAt[n] - seen[n][id] > ExpirationTime}

\* Mutant of cleanup_seen_messages: the age computed the wrong way round.
CleanupEndReversed(n) ==
    /\ loop[n] = "scanning"
    /\ IF scan[n] /= {} /\ DOMAIN seen[n] /= scan[n]
       THEN /\ loop' = [loop EXCEPT ![n] = "dead"]
            /\ UNCHANGED seen
       ELSE /\ loop' = [loop EXCEPT ![n] = "idle"]
            /\ seen' = [seen EXCEPT ![n] = Restrict(@, {id \in scan[n] :
                             ~(seen[n][id] - scanAt[n] > ExpirationTime)})]
    /\ UNCHANGED <<net, received, now, scan, scanAt>>

\* The rest of cleanup_seen_messages and of the loop iteration: if the
\* dict changed size during the iteration, RuntimeError ends gossip_loop;
\* otherwise the listed ids are deleted and the loop sleeps and goes on.
CleanupEnd(n) ==
    /\ loop[n] = "scanning"
    /\ IF scan[n] /= {} /\ DOMAIN seen[n] /= scan[n]
       THEN /\ loop' = [loop EXCEPT ![n] = "dead"]
            /\ UNCHANGED seen
       ELSE /\ loop' = [loop EXCEPT ![n] = "idle"]
            /\ seen' = [seen EXCEPT ![n] = Restrict(@, DOMAIN @ \ ToRemove(n))]
    /\ UNCHANGED <<net, received, now, scan, scanAt>>

Tick ==
    /\ now < MaxTime
    /\ now' = now + 1
    /\ UNCHANGED <<seen, net, received, loop, scan, scanAt>>

Next ==
    \/ \E n \in Nodes, m \in Messages : SendGossip(n, m) \/ HandleIncomingMessage(n, m)
    \/ \E n \in Nodes : CleanupBegin(n) \/ CleanupEnd(n)
    \/ Tick

\* A running gossip_loop thread never blocks for good (a dead one takes no
\* step), and the transport eventually hands over a gossip in flight; the
\* applications and the clock owe nothing.
Fairness ==
    /\ \A n \in Nodes : WF_vars(CleanupBegin(n)) /\ WF_vars(CleanupEnd(n))
    /\ \A n \in Nodes, m \in Messages : WF_vars(HandleIncomingMessage(n, m))

Spec == Init /\ [][Next]_vars /\ Fairness

-----------------------------------------------------------------------------
(* Properties                                                              *)

TypeOK ==
    /\ \A n \in Nodes : DOMAIN seen[n] \subseteq Messages
    /\ net \subseteq Nodes \X Messages
    /\ now \in 0 .. MaxTime
    /\ loop \in [Nodes -> {"idle", "scanning", "dead"}]

\* Expired ids do not stay: once an id in a node's seen_messages is older
\* than expiration_time, the node's gossip_loop eventually deletes it, so
\* the dict does not grow without bound.  gossip_loop dies when a gossip
\* arrives during its scan, and nothing restarts it.
ExpiredEventuallyForgotten ==
    \A n \in Nodes, m \in Messages :
        (m \in DOMAIN seen[n] /\ now - seen[n][m] > ExpirationTime)
            ~> m \notin DOMAIN seen[n]

\* The same while the loop runs: an expired id is deleted, or the node's
\* gossip_loop has died.  A scan that began before the id expired, or
\* that raced an insert, does not end the obligation.
ExpiredForgottenWhileLoopRuns ==
    \A n \in Nodes, m \in Messages :
        (m \in DOMAIN seen[n] /\ now - seen[n][m] > ExpirationTime)
            ~> (m \notin DOMAIN seen[n] \/ loop[n] = "dead")

\* "Gossip Protocol for data dissemination": a message gossiped at one node
\* eventually reaches every node connected to it.  handle_incoming_message
\* marks the id seen before it calls send_gossip, which then returns at
\* once, so no node ever forwards: only the originator's sampled peers get
\* it.
ReachesAllNodes ==
    \A m \in Messages : received[m] /= {} ~> received[m] = Nodes
==============================================================================
