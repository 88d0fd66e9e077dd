------------------------------ MODULE MCCanvas ------------------------------
(***************************************************************************)
(* Small instances of Canvas for TLC.                                      *)
(***************************************************************************)
EXTENDS Canvas, TLC

Symmetry == Permutations(Conn)
=============================================================================
