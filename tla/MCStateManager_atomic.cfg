\* Blocks with transactions update_state cannot finish.
CONSTANTS
    alice = alice  bob = bob  carol = carol  k = k  t0 = t0
    InitialBalances <- MCBalances
    InitialNonces <- MCNonces
    InitialUtxos <- MCUtxos
    InitialContracts <- MCContracts
    Blocks <- AnyBlocks
    MaxApplied = 3
    Deployments = {}
SPECIFICATION Spec
PROPERTY UpdateStateAtomic
