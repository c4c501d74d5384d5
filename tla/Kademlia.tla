------------------------------ MODULE Kademlia ------------------------------
(***************************************************************************)
(* KademliaDHT of src/blockchain/network/protocols/kademlia_dht.py, the    *)
(* routing table and store of one node.                                    *)
(*                                                                         *)
(* A node id or key is a hex string; HexValue is int(s, 16), so an id is   *)
(* its sequence of hex digits.  routing_table is a defaultdict(list):      *)
(* reading a missing bucket creates it, so its domain is every bucket      *)
(* index add_peer has looked at.  A bucket is the list of its peer         *)
(* records, in insertion order.  hash_key's SHA-1 is out of reach; a key   *)
(* is any id-sized hex string.  The log lines are left out.                *)
(***************************************************************************)
EXTENDS Integers, Sequences, SequencesExt, FiniteSets, Bitwise, TLC

CONSTANTS
    NodeId,      \* node_id of this DHT
    Ids,         \* hex strings (digit sequences) used as peer ids and keys
    Addresses,   \* peer addresses
    Keys,        \* keys passed to store_data
    Values,      \* values stored
    K            \* k, the bucket size and the answer size

VARIABLES routing_table, data_store

vars == <<routing_table, data_store>>

\* int(s, 16).
HexValue(s) == FoldLeft(LAMBDA acc, d : 16 * acc + d, 0, s)

\* _distance: the XOR of the two ids' values.
Distance(id1, id2) == HexValue(id1) ^^ HexValue(id2)

\* int.bit_length().
RECURSIVE BitLength(_)
BitLength(n) == IF n = 0 THEN 0 ELSE 1 + BitLength(n \div 2)

\* _bucket_index: bit_length of the distance to this node, minus one.
BucketIndex(id) == BitLength(Distance(NodeId, id)) - 1

Init ==
    /\ routing_table = [i \in {} |-> <<>>]
    /\ data_store = [k \in {} |-> 0]

\* Mutant of add_peer: the bucket-size check left out.
AddPeerOverfull(id, addr) ==
    LET i == BucketIndex(id)
        bucket == IF i \in DOMAIN routing_table THEN routing_table[i] ELSE <<>>
    IN /\ routing_table' =
            (i :> IF \E j \in DOMAIN bucket : bucket[j].node_id = id
                  THEN bucket
                  ELSE Append(bucket, [node_id |-> id, address |-> addr])) @@ routing_table
       /\ UNCHANGED data_store

\* add_peer: the bucket is fetched (and created if missing); an id already
\* in it ends the call; otherwise the peer is appended if the bucket holds
\* fewer than k peers, and dropped with a warning if not.
AddPeer(id, addr) ==
    LET i == BucketIndex(id)
        bucket == IF i \in DOMAIN routing_table THEN routing_table[i] ELSE <<>>
    IN /\ routing_table' =
            (i :> IF \/ \E j \in DOMAIN bucket : bucket[j].node_id = id
                     \/ Len(bucket) >= K
                  THEN bucket
                  ELSE Append(bucket, [node_id |-> id, address |-> addr])) @@ routing_table
       /\ UNCHANGED data_store

\* store_data: data_store[key] = value.
StoreData(key, v) ==
    /\ data_store' = (key :> v) @@ data_store
    /\ UNCHANGED routing_table

Next ==
    \/ \E id \in Ids, addr \in Addresses : AddPeer(id, addr)
    \/ \E key \in Keys, v \in Values : StoreData(key, v)

Spec == Init /\ [][Next]_vars

\* Every peer record of the routing table.
AllPeers == UNION {ToSet(routing_table[i]) : i \in DOMAIN routing_table}

\* find_closest_peers: every peer of every bucket, sorted by distance to
\* the key (distinct ids have distinct distances, so the order is total),
\* cut to the first k.
FindClosestPeers(key) ==
    SubSeq(SetToSortSeq(AllPeers, LAMBDA p, q : Distance(p.node_id, key) < Distance(q.node_id, key)),
           1, IF K < Cardinality(AllPeers) THEN K ELSE Cardinality(AllPeers))

\* iterative_lookup: alpha rounds over find_closest_peers' answer that only
\* log a query per peer; the answer is returned unchanged.
IterativeLookup(key) == FindClosestPeers(key)

-----------------------------------------------------------------------------
(* Properties                                                              *)

TypeOK ==
    /\ \A i \in DOMAIN routing_table :
         /\ Len(routing_table[i]) <= K
         /\ \A j \in DOMAIN routing_table[i] : routing_table[i][j].node_id \in Ids
    /\ DOMAIN data_store \subseteq Keys

\* This node is never its own peer.  add_peer does not check the id: this
\* node's own id, as discovery returns it, has distance 0 and bucket index
\* -1, and becomes the closest peer to every key near it.
SelfNotInTable ==
    \A p \in AllPeers : p.node_id /= NodeId
==============================================================================
