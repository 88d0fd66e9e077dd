-------------------------- MODULE MCWSApplication --------------------------
(***************************************************************************)
(* Small instances of WSApplication for TLC.  MCSpec bounds the clients:   *)
(* two at most speak or disconnect before their 101.                       *)
(***************************************************************************)
EXTENDS WSApplication, TLC

Symmetry == Permutations(Conn) \cup Permutations(Worker)

MaxEarly == 2

MCNext == Next /\ Cardinality(early') <= MaxEarly

MCSpec == Init /\ [][MCNext]_vars
=============================================================================
