\* One component per behaviour: UTXO ledger, StateManager, mempool, Merkle, shard validator, wallet, key stores, validating node, snapshots, sharding, contracts and the state database.
CONSTANTS
    alice = alice  bob = bob  carol = carol  k = k  t0 = t0
    x = x  y = y  w = w
    d1 = d1  d2 = d2  d3 = d3  s1 = s1  s2 = s2  s3 = s3
    t1 = t1  t2 = t2  n1 = n1  n2 = n2  u1 = u1  p1 = p1
SPECIFICATION Spec
CHECK_DEADLOCK FALSE
INVARIANT TypeOK
INVARIANT NoDoubleSpend
 
INVARIANT AppliedCallsDeployed
PROPERTY RollbackRestoresAccounts
INVARIANT ProofsVerify
INVARIANT BlockRootMatchesTree
INVARIANT CryptoAgreesWithTree
INVARIANT ShardValueNotCreated
INVARIANT TxCountMatches
INVARIANT TransactionsNotLost
