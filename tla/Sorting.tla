------------------------------ MODULE Sorting ------------------------------
(***************************************************************************)
(* Sorts and filters of lists, said by the places of their elements: what  *)
(* Go's stable sorts and its loops over slices leave, without recursion.   *)
(***************************************************************************)
EXTENDS Integers, Sequences, FiniteSets

\* The members of S by the strict order R, a set of pairs of them.
SortedBy(S, R) ==
    [i \in 1..Cardinality(S) |->
        CHOOSE x \in S : Cardinality({y \in S : <<y, x>> \in R}) = i - 1]

Ascending(N) == SortedBy(N, {p \in N \X N : p[1] < p[2]})

\* The elements of s that are in keep, in their order.
Filtered(s, keep) ==
    LET places == Ascending({i \in DOMAIN s : s[i] \in keep})
    IN  [n \in DOMAIN places |-> s[places[n]]]
=============================================================================
