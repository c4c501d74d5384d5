------------------------------- MODULE MCMempool -------------------------------
EXTENDS Mempool

CONSTANTS x, y, w

\* x and y pay the same fee per byte; w pays more.
MCFee == (x :> 1) @@ (y :> 1) @@ (w :> 2)
MCKey == (x :> -1) @@ (y :> -1) @@ (w :> -2)
==============================================================================
