------------------------------ MODULE Sorting ------------------------------
(* The order that ORDER BY and sort.Slice give to what has keys of its own. *)
EXTENDS Integers, FiniteSets

\* seq is in the order of the keys.
InOrder(seq, key) ==
    \A i, j \in DOMAIN seq : i < j => key[seq[i]] < key[seq[j]]

\* The elements of S by their keys; no two have the same.
Sorted(S, key) == CHOOSE seq \in [1 .. Cardinality(S) -> S] : InOrder(seq, key)
=============================================================================
