-------------------------------- MODULE Block --------------------------------
(***************************************************************************)
(* The Block record of src/blockchain/blocks/block.py as pure operators.   *)
(*                                                                         *)
(* A SHA-256 digest is abstracted by the tuple of what it digests, so two  *)
(* digests are equal exactly when their inputs are (a collision-free       *)
(* hash).  The Merkle root is abstracted the same way, as the transaction  *)
(* sequence itself; module Merkle models the real pairing algorithm.  The  *)
(* leading-zeros difficulty test is abstracted by a predicate on the       *)
(* digested timestamp and nonce that holds for one nonce in every Work     *)
(* consecutive ones, so that re-stamping a block breaks its proof of work  *)
(* as it does in the code.                                                 *)
(***************************************************************************)
EXTENDS Integers, Sequences, TLC

CONSTANTS
    Work,        \* 1 in Work nonces meets the target: abstracts '0' * difficulty
    ZeroHash     \* the string "0" * 64 used as the genesis previous_hash

ASSUME Work \in Nat \ {0}

\* calculate_merkle_root: a collision-free digest of the transaction list.
CalculateMerkleRoot(txs) == txs

\* calculate_hash: digest of index, timestamp, previous_hash, merkle_root and
\* nonce; the transactions enter only through the stored merkle_root.
CalculateHash(b) ==
    [index |-> b.index, timestamp |-> b.timestamp,
     previous_hash |-> b.previous_hash, merkle_root |-> b.merkle_root,
     nonce |-> b.nonce]

\* hash.startswith('0' * difficulty)
MeetsDifficulty(h) == (h.timestamp + h.nonce) % Work = 0

\* Block(index, previous_hash, transactions, nonce) built at time ts, with the
\* merkle root computed before the hash (see finding on block.py:14-15).
NewBlock(index, previous_hash, txs, nonce, ts) ==
    LET b == [index |-> index, timestamp |-> ts, previous_hash |-> previous_hash,
              transactions |-> txs, nonce |-> nonce,
              merkle_root |-> CalculateMerkleRoot(txs)]
    IN  b @@ [hash |-> CalculateHash(b)]

\* b with its nonce set to n and its hash recomputed.
WithNonce(b, n) ==
    LET c == [b EXCEPT !.nonce = n] IN [c EXCEPT !.hash = CalculateHash(c)]

\* mine_block: while the hash misses the target, nonce += 1 and rehash.
MineBlock(b) ==
    LET Tries == b.nonce .. (b.nonce + Work - 1)
        n == CHOOSE n \in Tries :
                /\ MeetsDifficulty(CalculateHash(WithNonce(b, n)))
                /\ \A m \in Tries : m < n => ~MeetsDifficulty(CalculateHash(WithNonce(b, m)))
    IN  IF MeetsDifficulty(b.hash) THEN b ELSE WithNonce(b, n)

\* from_dict: only index, previous_hash, transactions and nonce are read; the
\* block is rebuilt with the receiver's clock, so timestamp, merkle_root and
\* hash are recomputed and the sender's hash is dropped.
FromDict(d, now) == NewBlock(d.index, d.previous_hash, d.transactions, d.nonce, now)

\* is_valid: the stored hash recomputes and meets the target.
IsValid(b) == b.hash = CalculateHash(b) /\ MeetsDifficulty(b.hash)

\* create_genesis_block: Block(0, "0" * 64, []) stamped at the node's start.
GenesisBlock(ts) == NewBlock(0, ZeroHash, <<>>, 0, ts)
==============================================================================
