------------------------------- MODULE MCMerkle -------------------------------
(* Transactions for the Merkle engine: dicts of three contents, one of them *)
(* also with its keys inserted out of sorted order, and three strings.      *)
EXTENDS Merkle

CONSTANTS d1, d2, d3, s1, s2, s3

SortedDicts == { [content |-> c, order |-> "sorted"] : c \in {d1, d2, d3} }

\* d1 a second time, as a dict equal to the first whose keys are not sorted.
MixedDicts == SortedDicts \cup { [content |-> d1, order |-> "unsorted"] }

Strings == { [str |-> v] : v \in {s1, s2, s3} }

\* Sorted-key dicts and strings, in lists of either kind or mixed.
MCTxValues == SortedDicts \cup Strings

\* Every dict and string above.
AllTxValues == MixedDicts \cup Strings
==============================================================================
