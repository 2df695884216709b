------------------------------ MODULE MCTable ------------------------------
(***************************************************************************)
(* Model-checking instances of Table.                                      *)
(***************************************************************************)
EXTENDS Table, TLC

KeySymmetry == Permutations(PkKeys \ AutoKeys)
=============================================================================
