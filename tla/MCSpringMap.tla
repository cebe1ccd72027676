---------------------------- MODULE MCSpringMap ----------------------------
(* Maps of at most five keys; two values are enough to tell an old value   *)
(* from a new one, and a key's own value from another key's.               *)
EXTENDS SpringMap, TLC

ValuesAreAlike == Permutations(Values)

=============================================================================
