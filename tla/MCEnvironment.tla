---------------------------- MODULE MCEnvironment ----------------------------
EXTENDS Environment, TLC

CONSTANTS x, y, u, v, b1, b2, b3

MCVars == {x, y}
MCVals == {u, v}

(* No parameter, one, two, and one that is given twice. *)
MCParamLists == {<< >>, <<x>>, <<x, y>>, <<x, x>>}
(* Too few arguments, and too many, for each of them. *)
MCArgLists == {<< >>, <<u>>, <<v, u>>}
(* The allocator gives any block. *)
MCBlocks == {b1, b2, b3}
BlockSymmetry == Permutations(MCBlocks)
=============================================================================
