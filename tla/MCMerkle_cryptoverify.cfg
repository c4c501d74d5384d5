\* Merkle proofs over dicts (one with unsorted keys) and strings.  Swap the
\* INVARIANT for BlockRootMatchesTree to see the block root disagree.
CONSTANTS
    d1 = d1
    d2 = d2
    d3 = d3
    s1 = s1
    s2 = s2
    s3 = s3
    TxValues <- AllTxValues
    MaxLen = 5
SPECIFICATION Spec
INVARIANT CryptoProofsVerify
CHECK_DEADLOCK FALSE
