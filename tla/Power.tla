------------------------------- MODULE Power --------------------------------
(***************************************************************************)
(* The power of two unsigned numbers, as forkrt.fork (__forkpow, the       *)
(* operator ** of a compiled program) and parse/expr.cc (uintpow, the same *)
(* operator among constants) compute it: a loop that counts from 1 to the  *)
(* exponent, both modulo 2 to the width.                                   *)
(***************************************************************************)
EXTENDS Integers

CONSTANT Word         \* numbers are 0 .. Word - 1

VARIABLES pow         \* base, exp: the arguments; i, acc: the loop; busy

NoPower == [base |-> 0, exp |-> 0, i |-> 0, acc |-> 0, busy |-> FALSE]

PowerOK == /\ pow.base \in 0..(Word - 1) /\ pow.exp \in 0..(Word - 1)
           /\ pow.i \in 0..(Word - 1) /\ pow.acc \in 0..(Word - 1)
           /\ pow.busy \in BOOLEAN

(* Definitions introduced by "Fault:" are not part of the model: each is a *)
(* plausible mistake in the definition that follows it.                    *)

(* The cases that need no loop return at once, with acc for the answer.    *)
PowerCall(b, e) ==
  pow' = [base |-> b, exp |-> e, i |-> 1,
          acc |-> IF e = 0 \/ b = 1 THEN 1 ELSE IF b = 0 THEN 0 ELSE 1,
          busy |-> e # 0 /\ b \notin {0, 1}]

(* Fault: the loop stops in front of the exponent.                         *)
BelowExp == pow.i < pow.exp

GoesOn == pow.i <= pow.exp

Multiply == /\ pow.busy /\ GoesOn
            /\ pow' = [pow EXCEPT !.acc = (@ * pow.base) % Word,
                                  !.i = (@ + 1) % Word]

PowerReturn == /\ pow.busy /\ ~GoesOn
               /\ pow' = [pow EXCEPT !.busy = FALSE]

PowerStep == Multiply \/ PowerReturn

=============================================================================
