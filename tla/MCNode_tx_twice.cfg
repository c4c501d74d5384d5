\* The miner thread, a P2P handler thread and a resolve_forks caller run concurrently;
\* Miner.mine_block is repeated while pending transactions stay in the pool.
\* Replacing the INVARIANT by ChainLinked or ChainRefinesBlockchain shows the
\* tip race and the stale fork-length check.
CONSTANTS
    d1 = d1  m1 = m1  h1 = h1  s1 = s1
    Threads <- RaceThreads
    Role <- RaceRoles
    Txs = {x1, x2, x3}
    Admissible = {x1, x2}
    MaxPoolSize = 1
    MaxCount = 1
    Coinbase = cb
    PeerCoinbase = pcb
    Foreign = foreign
    ZeroHash = zero
    NoBlock = noblock
    Work = 2
    GenesisTime = 0
    ForeignGenesisTime = 1
    MaxChain = 3
    MaxTime = 2
SPECIFICATION NodeSpec
INVARIANT NoTxConfirmedTwice
