--------------------------- MODULE MCTokenBilling ---------------------------
(* Small instances of TokenBilling for TLC.                                *)
EXTENDS TokenBilling, TLC

(* Requests are interchangeable: no definition names one of them.          *)
RequestSymmetry == Permutations(Requests)
=============================================================================
