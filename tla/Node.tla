-------------------------------- MODULE Node --------------------------------
(***************************************************************************)
(* One node: the Blockchain, the TransactionPool, the Miner loop           *)
(* (src/cryptocurrency/mining/pow/miner.py) and the P2P handler threads    *)
(* (src/blockchain/network/p2p_node.py), with fork resolution as           *)
(* ConsensusEngine.resolve_forks calls it.                                 *)
(*                                                                         *)
(* The pool methods hold the pool lock and are single steps.  Blockchain   *)
(* has no lock: add_block reads the tip, validates, then appends, and      *)
(* resolve_fork compares lengths, validates, then assigns; each is split   *)
(* into its check and its write, and other threads may run in between.    *)
(* A thread's Role says which code it runs: "miner" the Miner loop,        *)
(* "handler" a P2PNode.handle_peer thread, "syncer" a caller of            *)
(* resolve_forks, "driver" a single thread calling all of them in turn.    *)
(***************************************************************************)
EXTENDS Blockchain, TransactionPool

CONSTANTS
    Threads,            \* thread ids
    Role,               \* Threads -> {"driver", "miner", "handler", "syncer"}
    Coinbase,           \* this miner's coinbase transaction dict
    PeerCoinbase,       \* the coinbase transaction of blocks mined by peers
    MaxCount,           \* max_count passed by Miner.mine_block (10)
    Foreign,            \* a block hash that is not on this node's chain
    ForeignGenesisTime, \* timestamp of a peer's own genesis block
    NoBlock,            \* no block under way
    MaxChain,           \* bound: operations start only while Len(chain) < MaxChain
    MaxTime             \* bound on the clock

VARIABLES
    pool,        \* TransactionPool.transactions
    now,         \* int(time.time())
    pc,          \* where each thread is
    candidate,   \* the block a thread is adding
    newChain     \* the chain a thread is about to install in resolve_fork

vars == <<chain, pool, now, pc, candidate, newChain>>

-----------------------------------------------------------------------------
(* What peers send.                                                        *)

\* A block dict from a peer: mined on top of one of our blocks, or on a hash
\* we do not have, with whatever nonce met the target at the peer's clock.
PeerBlockDicts ==
    { [index |-> b.index + 1, previous_hash |-> b.hash,
       transactions |-> <<PeerCoinbase>>, nonce |-> n] :
         b \in ToSet(chain), n \in 0 .. Work - 1 }
    \cup
    { [index |-> 1, previous_hash |-> Foreign,
       transactions |-> <<PeerCoinbase>>, nonce |-> n] : n \in 0 .. Work - 1 }

\* A peer block on top of chain c, previous_hash prev, mined at ts.
PeerBlockOn(c, prev, ts) ==
    MineBlock(NewBlock(LatestBlock(c).index + 1, prev, <<PeerCoinbase>>, 0, ts))

RECURSIVE PeerExtend(_, _, _)
PeerExtend(c, e, ts) ==
    IF e = 0 THEN c
    ELSE PeerExtend(Append(c, PeerBlockOn(c, LatestBlock(c).hash, ts)), e - 1, ts)

\* A block of a chain altered after mining: its transactions, or its nonce.
Tampered(b, kind) ==
    CASE kind = "txs"   -> [b EXCEPT !.transactions = <<Coinbase>>]
      [] kind = "nonce" -> [b EXCEPT !.nonce = b.nonce + 1]
      [] OTHER          -> b

\* Block lists a peer can hand to resolve_forks: a prefix of our chain (or a
\* foreign genesis) extended by mined blocks, the first of them possibly
\* linked to a hash we do not have, the last possibly tampered with.
PeerChains ==
    LET Bases == { SubSeq(chain, 1, k) : k \in 1 .. Len(chain) }
                   \cup { <<GenesisBlock(ForeignGenesisTime)>> }
        Build(base, linked, e) ==
            LET first == PeerBlockOn(base, IF linked THEN LatestBlock(base).hash
                                                     ELSE Foreign, now)
            IN  PeerExtend(Append(base, first), e - 1, now)
        Tamper(c, kind) == [c EXCEPT ![Len(c)] = Tampered(@, kind)]
    IN  UNION { { Tamper(Build(base, linked, n - Len(base)), kind) :
                    linked \in BOOLEAN,
                    n \in { m \in Len(chain) .. MaxChain : m > Len(base) },
                    kind \in {"none", "txs", "nonce"} } : base \in Bases }

-----------------------------------------------------------------------------
(* Miner.mine_block                                                        *)

\* [tx["hash"] for tx in transactions if "hash" in tx]: neither the coinbase
\* dict nor Transaction.to_dict() has a "hash" key, so nothing is listed.
ConfirmedTxHashes(txs) == {}

\* Up to the call of add_block: take pending transactions, build the block on
\* the current tip and run the proof of work.
MinerMineBlock(t) ==
    /\ pc[t] = "Idle"
    /\ Role[t] \in {"driver", "miner"}
    /\ Len(chain) < MaxChain
    /\ LET latest == LatestBlock(chain)
           txs    == <<Coinbase>> \o GetPendingTransactions(pool, MaxCount)
       IN  candidate' = [candidate EXCEPT ![t] =
                           MineBlock(NewBlock(latest.index + 1, latest.hash, txs, 0, now))]
    /\ pc' = [pc EXCEPT ![t] = "MinerAdd"]
    /\ UNCHANGED <<chain, pool, now, newChain>>

\* add_block's validation against the tip as it is now.
MinerAddBlock(t) ==
    /\ pc[t] = "MinerAdd"
    /\ \/ /\ IsValidNewBlock(candidate[t], LatestBlock(chain))
          /\ pc' = [pc EXCEPT ![t] = "MinerAppend"]
          /\ UNCHANGED candidate
       \/ /\ ~IsValidNewBlock(candidate[t], LatestBlock(chain))
          /\ pc' = [pc EXCEPT ![t] = "Idle"]
          /\ candidate' = [candidate EXCEPT ![t] = NoBlock]
    /\ UNCHANGED <<chain, pool, now, newChain>>

\* add_block's append, then remove_confirmed_transactions.
MinerAppend(t) ==
    /\ pc[t] = "MinerAppend"
    /\ chain' = Append(chain, candidate[t])
    /\ pool' = RemoveConfirmedTransactions(pool, ConfirmedTxHashes(candidate[t].transactions))
    /\ pc' = [pc EXCEPT ![t] = "Idle"]
    /\ candidate' = [candidate EXCEPT ![t] = NoBlock]
    /\ UNCHANGED <<now, newChain>>

-----------------------------------------------------------------------------
(* P2PNode.handle_new_block / handle_new_transaction                       *)

\* Block.from_dict on the receiver's clock, then add_block's validation; a
\* rejected block changes nothing.
HandleNewBlock(t) ==
    /\ pc[t] = "Idle"
    /\ Role[t] \in {"driver", "handler"}
    /\ Len(chain) < MaxChain
    /\ \E d \in PeerBlockDicts :
         LET b == FromDict(d, now) IN
         /\ IsValidNewBlock(b, LatestBlock(chain))
         /\ candidate' = [candidate EXCEPT ![t] = b]
         /\ pc' = [pc EXCEPT ![t] = "PeerAppend"]
    /\ UNCHANGED <<chain, pool, now, newChain>>

\* add_block's append for a peer block.
PeerAppend(t) ==
    /\ pc[t] = "PeerAppend"
    /\ chain' = Append(chain, candidate[t])
    /\ pc' = [pc EXCEPT ![t] = "Idle"]
    /\ candidate' = [candidate EXCEPT ![t] = NoBlock]
    /\ UNCHANGED <<pool, now, newChain>>

\* add_transaction under the pool lock.
HandleNewTransaction(t) ==
    /\ pc[t] = "Idle"
    /\ Role[t] \in {"driver", "handler"}
    /\ \E tx \in Txs : pool' = AddTransaction(pool, tx)
    /\ UNCHANGED <<chain, now, pc, candidate, newChain>>

-----------------------------------------------------------------------------
(* ConsensusEngine.resolve_forks -> Blockchain.resolve_fork                *)

\* The length comparison and is_valid_chain; a refused chain changes nothing.
ResolveForks(t) ==
    /\ pc[t] = "Idle"
    /\ Role[t] \in {"driver", "syncer"}
    /\ Len(chain) < MaxChain
    /\ \E c \in PeerChains :
         /\ ResolveForkAccepts(c, chain)
         /\ newChain' = [newChain EXCEPT ![t] = c]
         /\ pc' = [pc EXCEPT ![t] = "Replace"]
    /\ UNCHANGED <<chain, pool, now, candidate>>

\* self.chain = new_chain
ReplaceChain(t) ==
    /\ pc[t] = "Replace"
    /\ chain' = newChain[t]
    /\ pc' = [pc EXCEPT ![t] = "Idle"]
    /\ newChain' = [newChain EXCEPT ![t] = <<>>]
    /\ UNCHANGED <<pool, now, candidate>>

\* The wall clock advances.
Tick ==
    /\ now < MaxTime
    /\ now' = now + 1
    /\ UNCHANGED <<chain, pool, pc, candidate, newChain>>

-----------------------------------------------------------------------------
NodeInit ==
    /\ Init
    /\ pool = <<>>
    /\ now = GenesisTime
    /\ pc = [t \in Threads |-> "Idle"]
    /\ candidate = [t \in Threads |-> NoBlock]
    /\ newChain = [t \in Threads |-> <<>>]

NodeNext ==
    \/ \E t \in Threads :
         \/ MinerMineBlock(t) \/ MinerAddBlock(t) \/ MinerAppend(t)
         \/ HandleNewBlock(t) \/ PeerAppend(t) \/ HandleNewTransaction(t)
         \/ ResolveForks(t) \/ ReplaceChain(t)
    \/ Tick

NodeSpec == NodeInit /\ [][NodeNext]_vars

-----------------------------------------------------------------------------
(* Properties                                                              *)

TypeOK ==
    /\ pool \in Seq(Txs) /\ Len(pool) <= MaxPoolSize
    /\ now \in GenesisTime .. MaxTime
    /\ pc \in [Threads -> {"Idle", "MinerAdd", "MinerAppend", "PeerAppend", "Replace"}]
    /\ \A t \in Threads : (candidate[t] = NoBlock) <=> (pc[t] \notin {"MinerAdd", "MinerAppend", "PeerAppend"})
    /\ \A t \in Threads : (newChain[t] = <<>>) <=> (pc[t] /= "Replace")

\* Hash linkage (spec 3): every block's previous_hash is the hash of the block
\* before it on the active chain, whatever add_block and resolve_fork did.
ChainLinked == \A i \in 2 .. Len(chain) : chain[i].previous_hash = chain[i-1].hash

\* Proof of work: every block after genesis on the active chain recomputes to
\* its stored hash and meets the target, including blocks rebuilt by
\* from_dict on this node's clock.
ChainWorkValid ==
    \A i \in 2 .. Len(chain) : chain[i].hash = CalculateHash(chain[i])
                               /\ MeetsDifficulty(chain[i].hash)

\* The active chain changes only as the Blockchain class promises: one block
\* valid against the tip, or replacement by a strictly longer valid chain
\* (equal length never replaces: first seen wins).
BC == INSTANCE Blockchain
ChainRefinesBlockchain == BC!Spec

\* Spec 4.6: a transaction is confirmed at most once; once a block carrying it
\* is accepted, the miner evicts it from the pool.
NoTxConfirmedTwice ==
    \A i, j \in 2 .. Len(chain) : i < j =>
        \A tx \in Txs : ~(Contains(chain[i].transactions, tx) /\ Contains(chain[j].transactions, tx))

\* Spec 3: the chain starts from this node's fixed genesis block.
GenesisFixed == chain[1] = GenesisBlock(GenesisTime)

\* Spec 8: a block that passes validation commits to its transactions: the
\* stored merkle_root is the root of the transactions it carries.
ChainCommitsToTxs ==
    \A i \in 1 .. Len(chain) : chain[i].merkle_root = CalculateMerkleRoot(chain[i].transactions)
=============================================================================
