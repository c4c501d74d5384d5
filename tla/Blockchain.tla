----------------------------- MODULE Blockchain -----------------------------
(***************************************************************************)
(* The Blockchain class of src/blockchain/blocks/blockchain_state.py.      *)
(*                                                                         *)
(* The validation predicates are used by module Node, which runs them from *)
(* several threads.  The specification below is the class as its callers  *)
(* expect it to behave: every call to add_block and resolve_fork is one    *)
(* atomic step.  Node's chain is checked against it with INSTANCE.         *)
(***************************************************************************)
EXTENDS Block, SequencesExt

CONSTANT GenesisTime    \* int(time.time()) when this node built its genesis

VARIABLE chain

\* Mutant forms of the predicates below (a dropped check, an off-by-one loop
\* start, a non-strict length comparison).
IsValidNewBlockNoTarget(new_block, previous_block) ==
    /\ new_block.previous_hash = previous_block.hash
    /\ new_block.hash = CalculateHash(new_block)
IsValidChainFrom3(c) ==
    \A i \in 3 .. Len(c) :
        /\ c[i].previous_hash = c[i-1].hash
        /\ MeetsDifficulty(c[i].hash)
        /\ c[i].hash = CalculateHash(c[i])
ResolveForkAcceptsTie(new_chain, cur) ==
    /\ Len(new_chain) >= Len(cur)
    /\ \A i \in 2 .. Len(new_chain) :
        /\ new_chain[i].previous_hash = new_chain[i-1].hash
        /\ MeetsDifficulty(new_chain[i].hash)
        /\ new_chain[i].hash = CalculateHash(new_chain[i])

\* is_valid_new_block: linkage, difficulty target, hash recomputation.
IsValidNewBlock(new_block, previous_block) ==
    /\ new_block.previous_hash = previous_block.hash
    /\ MeetsDifficulty(new_block.hash)
    /\ new_block.hash = CalculateHash(new_block)

\* is_valid_chain / is_valid_chain(chain): every adjacent pair from index 1
\* (the second block); the first block of the chain is never examined.
IsValidChain(c) == \A i \in 2 .. Len(c) : IsValidNewBlock(c[i], c[i-1])

\* The condition of resolve_fork: strictly longer and valid.
ResolveForkAccepts(new_chain, cur) ==
    Len(new_chain) > Len(cur) /\ IsValidChain(new_chain)

\* get_latest_block
LatestBlock(c) == c[Len(c)]

-----------------------------------------------------------------------------
(* The abstract specification, stated from spec section 4.3 rather than   *)
(* from the predicates above, so that it is a yardstick for them.  The     *)
(* actions are written over chain' so that a refining module can be        *)
(* checked against them without enumerating blocks.                        *)

\* new extends prev: linked to it, self-hash recomputes, target met.
Extends(new, prev) ==
    /\ new.previous_hash = prev.hash
    /\ new.hash = CalculateHash(new)
    /\ MeetsDifficulty(new.hash)

Tip(c) == c[Len(c)]

Init == chain = <<GenesisBlock(GenesisTime)>>

\* try_append: one block, extending the tip it is appended to.
AddBlock ==
    /\ Len(chain') = Len(chain) + 1
    /\ IsPrefix(chain, chain')
    /\ Extends(Tip(chain'), Tip(chain))

\* resolve_fork: the whole chain replaced by a strictly longer one in which
\* every block extends its predecessor.
ResolveFork ==
    /\ Len(chain') > Len(chain)
    /\ \A i \in 2 .. Len(chain') : Extends(chain'[i], chain'[i-1])

Next == AddBlock \/ ResolveFork

Spec == Init /\ [][Next]_chain
=============================================================================
