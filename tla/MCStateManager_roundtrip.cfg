\* Apply then roll back the last block: the whole state, bit for bit.
CONSTANTS
    alice = alice  bob = bob  carol = carol  k = k  t0 = t0
    InitialBalances <- MCBalances
    InitialNonces <- MCNonces
    InitialUtxos <- MCUtxos
    InitialContracts <- MCContracts
    Blocks <- WellFormedBlocks
    MaxApplied = 3
    Deployments = {}
SPECIFICATION Spec
PROPERTY RollbackRestoresState
