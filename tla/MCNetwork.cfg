\* Gossip between two nodes with one-peer samples and failing sends, a Kademlia table, shard messages and secure channels.
CONSTANTS
    n1 = n1  n2 = n2  n3 = n3  m1 = m1  m2 = m2  ad1 = ad1  ad2 = ad2  val1 = val1  c1 = c1  c2 = c2  nk1 = nk1
    GossipRedundancy = 1
    GossipSendMayFail = TRUE
    GossipNodes = {n1, n2}
SPECIFICATION Spec
CHECK_DEADLOCK FALSE
INVARIANT TypeOK
PROPERTY ExpiredForgottenWhileLoopRuns
