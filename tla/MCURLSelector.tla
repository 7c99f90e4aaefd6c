--------------------------- MODULE MCURLSelector ---------------------------
(* Small instances of URLSelector for TLC. *)
EXTENDS URLSelector, TLC

URLSymmetry == Permutations(URLs)
AllURLLists == (SUBSET URLs) \ {{}}

=============================================================================
