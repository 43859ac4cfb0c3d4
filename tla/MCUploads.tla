------------------------------- MODULE MCUploads -------------------------------
(***************************************************************************)
(* Uploads for TLC. Neither the fields of the form nor the cards that      *)
(* there are differ from one another.                                      *)
(***************************************************************************)
EXTENDS Uploads, TLC

Symmetry == Permutations(Fields) \cup Permutations(Cards)
================================================================================
