------------------------------- MODULE MCNode -------------------------------
(* Model-checking instances of Node: the thread layouts of the runs.       *)
EXTENDS Node

CONSTANTS d1, m1, h1, s1   \* thread ids

\* One thread that mines, handles peer messages and resolves forks in turn.
DriverThreads == {d1}
DriverRoles   == [t \in DriverThreads |-> "driver"]

\* The miner thread beside a P2P handler thread.
MinerHandlerThreads == {m1, h1}
MinerHandlerRoles   == (m1 :> "miner") @@ (h1 :> "handler")

\* A P2P handler thread beside a caller of resolve_forks.
HandlerSyncerThreads == {h1, s1}
HandlerSyncerRoles   == (h1 :> "handler") @@ (s1 :> "syncer")

\* The miner thread, a P2P handler thread and a caller of resolve_forks.
RaceThreads == {m1, h1, s1}
RaceRoles   == (m1 :> "miner") @@ (h1 :> "handler") @@ (s1 :> "syncer")
=============================================================================
