-------------------------------- MODULE Merkle --------------------------------
(***************************************************************************)
(* The Merkle engine: MerkleTree.build_tree and MerkleProof of             *)
(* src/blockchain/blocks/merkle_tree/, Block.calculate_merkle_root of      *)
(* blocks/block.py, and the MerkleTree of cryptography/merkle_proof.py.    *)
(*                                                                         *)
(* sha256 is collision-free: a digest Digest(s) is a record holding the    *)
(* string it digests.  The strings hashed are of three shapes: a           *)
(* transaction string [str], the concatenation left + right of two hex     *)
(* digests (a digest has a fixed width, so the pair is recoverable), and   *)
(* a json.dumps text [json, order].  A transaction dict is                 *)
(* [content, order]: its contents, and whether its keys were inserted in   *)
(* sorted order ("sorted") or not; json.dumps without sort_keys writes     *)
(* the keys in insertion order, so its text tells the two apart.  Python   *)
(* compares dicts by contents only.                                        *)
(*                                                                         *)
(* The state is the caller's list of transactions, grown one at a time;    *)
(* every property is about all the lists of at most MaxLen transactions.   *)
(***************************************************************************)
EXTENDS Integers, SequencesExt, Bitwise

CONSTANTS
    TxValues,   \* transactions a list may hold
    MaxLen      \* bound on the length of the list

VARIABLE txs

Digest(s) == [sha256 |-> s]

\* left + right of two hex digests.
Concat(l, r) == [left |-> l, right |-> r]

IsDict(x) == "content" \in DOMAIN x

\* json.dumps(x, sort_keys=sortKeys); a string dumps to its quoted text.
JsonDumps(x, sortKeys) ==
    IF IsDict(x) THEN [json |-> x.content, order |-> IF sortKeys THEN "sorted" ELSE x.order]
    ELSE [json |-> x, order |-> "sorted"]

\* == on transactions: dicts by contents.
PyEq(a, b) == JsonDumps(a, TRUE) = JsonDumps(b, TRUE)

\* _hash_data (merkle_tree.py and merkle_proof.py): a string is hashed as
\* it is, anything else as its sorted json.dumps text.
HashData(x) == Digest(IF IsDict(x) THEN JsonDumps(x, TRUE) ELSE x)

\* The parent of two nodes: _hash_data(left + right).
Node(l, r) == HashData(Concat(l, r))

\* One level of build_tree / generate_proof: pair adjacent hashes, the
\* last one paired with itself when the count is odd.
NextLevel(level) ==
    [i \in 1 .. (Len(level) + 1) \div 2 |->
        LET left  == level[2 * i - 1]
            right == IF 2 * i <= Len(level) THEN level[2 * i] ELSE left
        IN  Node(left, right)]

RECURSIVE RootOf(_)
RootOf(level) == IF Len(level) > 1 THEN RootOf(NextLevel(level)) ELSE level[1]

\* MerkleTree(transactions).get_merkle_root(), for a non-empty list
\* (build_tree raises ValueError on an empty one).
TreeRoot(l) == RootOf([i \in 1 .. Len(l) |-> HashData(l[i])])

\* MerkleTree(transactions).get_tree(): self.tree, the list of levels.
RECURSIVE LevelsFrom(_)
LevelsFrom(level) ==
    IF Len(level) > 1 THEN <<level>> \o LevelsFrom(NextLevel(level)) ELSE <<level>>
Tree(l) == LevelsFrom([i \in 1 .. Len(l) |-> HashData(l[i])])

\* generate_proof's walk: at each level, the sibling of the pair holding
\* target_index, then target_index //= 2.
RECURSIVE ProofFrom(_, _, _)
ProofFrom(level, ti, proof) ==
    IF Len(level) <= 1 THEN proof
    ELSE LET i     == ti - (ti % 2)
             left  == level[i + 1]
             right == IF i + 1 < Len(level) THEN level[i + 2] ELSE left
         IN  ProofFrom(NextLevel(level), ti \div 2,
                       Append(proof, IF i = ti THEN right ELSE left))

\* MerkleProof.generate_proof(transactions, target) for a target in the
\* list: the proof and transactions.index(target), the first equal entry.
GenerateProof(l, target) ==
    LET index == SelectInSeq(l, LAMBDA t : PyEq(t, target)) - 1
    IN  [proof |-> ProofFrom([i \in 1 .. Len(l) |-> HashData(l[i])], index, <<>>),
         index |-> index]

\* Mutant of verify_proof: index never halved.
VerifyProofNoHalving(root, target, proof, index) ==
    LET RECURSIVE Fold(_, _)
        Fold(cur, rest) ==
            IF rest = <<>> THEN cur
            ELSE Fold(IF index % 2 = 0 THEN Node(cur, Head(rest)) ELSE Node(Head(rest), cur),
                      Tail(rest))
    IN  Fold(HashData(target), proof) = root

\* MerkleProof.verify_proof: fold the proof into the target's hash, the
\* current node left when index is even, halving index each level.
VerifyProof(root, target, proof, index) ==
    LET RECURSIVE Fold(_, _, _)
        Fold(cur, rest, idx) ==
            IF rest = <<>> THEN cur
            ELSE Fold(IF idx % 2 = 0 THEN Node(cur, Head(rest)) ELSE Node(Head(rest), cur),
                      Tail(rest), idx \div 2)
    IN  Fold(HashData(target), proof, index) = root

\* Block.calculate_merkle_root's level: append the last hash when the count
\* is odd, then hash each adjacent pair.
Pad(level) == IF Len(level) % 2 /= 0 THEN Append(level, Last(level)) ELSE level
PairUp(level) == [i \in 1 .. Len(level) \div 2 |-> Digest(Concat(level[2 * i - 1], level[2 * i]))]

RECURSIVE PaddedRoot(_)
PaddedRoot(h) == IF Len(h) > 1 THEN PaddedRoot(PairUp(Pad(h))) ELSE h

\* Mutant of calculate_merkle_root: an odd last hash dropped, not duplicated.
CalculateMerkleRootDropsOdd(l) ==
    LET RECURSIVE Up(_)
        Up(h) == IF Len(h) > 1 THEN Up(PairUp(h)) ELSE h
        h == Up([i \in 1 .. Len(l) |-> Digest(JsonDumps(l[i], FALSE))])
    IN  IF h = <<>> THEN "" ELSE h[1]

\* Block.calculate_merkle_root: leaves are sha256(json.dumps(tx)), keys in
\* insertion order; "" for no transactions.
CalculateMerkleRoot(l) ==
    LET h == PaddedRoot([i \in 1 .. Len(l) |-> Digest(JsonDumps(l[i], FALSE))])
    IN  IF h = <<>> THEN "" ELSE h[1]

\* cryptography MerkleTree's level (_build_merkle_tree, get_proof): append
\* the last hash when the count is odd, then _hash(leaves[i] + leaves[i+1]).
CryptoNextLevel(level) == PairUp(Pad(level))

\* cryptography MerkleTree: _hash of a string transaction.
CryptoHash(t) == Digest(t)

\* self.leaves after __init__: _build_merkle_tree appends to the very list
\* it was handed, so an odd list of more than one leaf is padded in place.
CryptoLeaves(l) ==
    LET h == [i \in 1 .. Len(l) |-> CryptoHash(l[i])]
    IN  IF Len(h) > 1 THEN Pad(h) ELSE h

RECURSIVE CryptoRootOf(_)
CryptoRootOf(level) == IF Len(level) > 1 THEN CryptoRootOf(CryptoNextLevel(level)) ELSE level[1]

\* MerkleTree(transactions).root.
CryptoRoot(l) == CryptoRootOf(CryptoLeaves(l))

\* Mutant of get_proof: index | 1 for index ^ 1.
CryptoSiblingOr(index) == index | 1

\* pair_index = index ^ 1.
CryptoSibling(index) == index ^^ 1

\* get_proof's walk over current_level, starting from self.leaves.
RECURSIVE CryptoProofFrom(_, _, _)
CryptoProofFrom(level, index, proof) ==
    IF Len(level) <= 1 THEN proof
    ELSE LET padded == Pad(level)
         IN  CryptoProofFrom(CryptoNextLevel(padded), index \div 2,
                             Append(proof, padded[CryptoSibling(index) + 1]))

\* MerkleTree.get_proof(transaction) for a transaction of the tree.
CryptoGetProof(l, t) ==
    LET leaves == CryptoLeaves(l)
    IN  CryptoProofFrom(leaves, SelectInSeq(leaves, LAMBDA h : h = CryptoHash(t)) - 1, <<>>)

\* MerkleTree.verify_proof(transaction, proof, root): each level puts the
\* smaller hex digest first.  less[k] is how current_hash < sibling_hash
\* comes out at level k: sha256 values are unrelated to positions, so every
\* outcome is that of some transaction contents.
CryptoVerifyProof(t, proof, root, less) ==
    LET RECURSIVE Fold(_, _)
        Fold(cur, k) ==
            IF k > Len(proof) THEN cur
            ELSE Fold(IF less[k] THEN Digest(Concat(cur, proof[k]))
                                 ELSE Digest(Concat(proof[k], cur)), k + 1)
    IN  Fold(CryptoHash(t), 1) = root

-----------------------------------------------------------------------------
(* The caller builds its list of transactions one at a time.               *)

vars == <<txs>>

Init == txs = <<>>

AddTx ==
    /\ Len(txs) < MaxLen
    /\ \E t \in TxValues : txs' = Append(txs, t)

Spec == Init /\ [][AddTx]_vars

-----------------------------------------------------------------------------
(* Properties                                                              *)

\* Spec 8: Merkle.verify(Merkle.build(txs).root, tx, Merkle.prove(txs, tx))
\* holds for every tx of every non-empty list: generate_proof's siblings and
\* index replay under verify_proof to MerkleTree's root, odd levels and
\* repeated transactions included.
ProofsVerify ==
    txs /= <<>> =>
        \A t \in Range(txs) :
            LET g == GenerateProof(txs, t)
            IN  VerifyProof(TreeRoot(txs), t, g.proof, g.index)

\* A block's transactions are dicts (Transaction.to_dict); the cryptography
\* MerkleTree takes strings.
AllDicts(l) == \A i \in 1 .. Len(l) : IsDict(l[i])
AllStrings(l) == \A i \in 1 .. Len(l) : "str" \in DOMAIN l[i]

\* Spec 4.1: the duplication rule must be preserved exactly for proof
\* compatibility: the root a Block stores (calculate_merkle_root) is the
\* root MerkleTree builds and MerkleProof's proofs verify against.
BlockRootMatchesTree ==
    txs /= <<>> /\ AllDicts(txs) => CalculateMerkleRoot(txs) = TreeRoot(txs)

\* verify_proof proves "the transaction being verified" is in the list:
\* whatever target, proof and index it is handed, it answers True only
\* for a transaction of the list whose root it is.
Forgeries(l) ==
    LET nodes == UNION { Range(Tree(l)[k]) : k \in DOMAIN Tree(l) }
    IN  [target |-> { Concat(a, b) : a, b \in nodes },
         proofs |-> { <<>> } \cup { <<a>> : a \in nodes } \cup { <<a, b>> : a, b \in nodes }]
ProofsSound ==
    txs /= <<>> =>
        LET f == Forgeries(txs) IN
        \A x \in f.target \cup Range(txs), p \in f.proofs, i \in 0 .. MaxLen - 1 :
            VerifyProof(TreeRoot(txs), x, p, i) => \E t \in Range(txs) : PyEq(t, x)

\* cryptography MerkleTree: its root is MerkleTree.build_tree's root of the
\* same string transactions, and get_proof collects the siblings
\* generate_proof collects.
CryptoAgreesWithTree ==
    txs /= <<>> /\ AllStrings(txs) =>
        /\ CryptoRoot(txs) = TreeRoot(txs)
        /\ \A t \in Range(txs) : CryptoGetProof(txs, t) = GenerateProof(txs, t).proof

\* Spec 4.1 and 8: verification replays the concatenation order of the tree,
\* so verify_proof accepts every proof get_proof produces, whatever the
\* digests' hex order.
CryptoProofsVerify ==
    txs /= <<>> /\ AllStrings(txs) =>
        \A t \in Range(txs) :
            LET p == CryptoGetProof(txs, t)
            IN  \A less \in [1 .. Len(p) -> BOOLEAN] :
                    CryptoVerifyProof(t, p, CryptoRoot(txs), less)

==============================================================================
