------------------------------ MODULE MCTurnAuth ------------------------------
(* TurnAuth for TLC: pages are alike. *)
EXTENDS TurnAuth, TLC

Symmetry == Permutations(Page)
===============================================================================
