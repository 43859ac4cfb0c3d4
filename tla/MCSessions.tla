----------------------------- MODULE MCSessions -----------------------------
(* Sessions for TLC: requests are interchangeable.                         *)
EXTENDS Sessions, TLC

Symmetry == Permutations(Requests)
=============================================================================
