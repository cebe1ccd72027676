--------------------------- MODULE MCSpringVector ---------------------------
(***************************************************************************)
(* Three headers, two arrays of up to two cells, words of two bytes (a     *)
(* prune leaves the second cell of an array alone), and a counter that     *)
(* wraps at two: a vector with two elements is one that vectPrint cannot   *)
(* print.                                                                  *)
(***************************************************************************)
EXTENDS SpringVector, TLC

CONSTANTS u1, u2, u3, a1, a2

MCVects == {u1, u2, u3}
MCArrays == {a1, a2}

Symmetry == Permutations(MCVects) \cup Permutations(MCArrays)

=============================================================================
