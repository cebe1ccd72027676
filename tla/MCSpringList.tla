---------------------------- MODULE MCSpringList ----------------------------
(***************************************************************************)
(* A heap of four nodes and two values: a list with every cursor position  *)
(* beside an extracted one, and copies of lists of up to two elements.     *)
(***************************************************************************)
EXTENDS SpringList, TLC

CONSTANTS v1, v2

MCValues == {v1, v2}

Symmetry == Permutations(MCValues)

=============================================================================
