\* A single thread drives the node: mining, peer blocks, peer transactions and
\* fork resolution happen one call at a time.
CONSTANTS
    d1 = d1  m1 = m1  h1 = h1  s1 = s1
    Threads <- DriverThreads
    Role <- DriverRoles
    Txs = {x1, x2, x3}
    Admissible = {x1, x2}
    MaxPoolSize = 1
    MaxCount = 1
    Coinbase = cb
    PeerCoinbase = pcb
    Foreign = foreign
    ZeroHash = zero
    NoBlock = noblock
    Work = 2
    GenesisTime = 0
    ForeignGenesisTime = 1
    MaxChain = 3
    MaxTime = 2
SPECIFICATION NodeSpec
INVARIANT TypeOK
INVARIANT ChainLinked
INVARIANT ChainWorkValid
PROPERTY ChainRefinesBlockchain
