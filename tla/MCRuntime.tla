----------------------------- MODULE MCRuntime ------------------------------
(***************************************************************************)
(* Every file of up to five bytes (two letters and 0), read three at a     *)
(* time; numbers of one to three digits, of which the buffer holds two;    *)
(* stashes that start empty, too small and large enough; powers of small   *)
(* bases with the smallest and the largest exponents, modulo 256.          *)
(***************************************************************************)
EXTENDS Runtime

MCBytes == {0, 97, 98}
MCSources == UNION {[1..n -> MCBytes] : n \in 0..5}
MCNumbers == {0, 5, 9, 10, 42, 90, 99, 100, 127, 128, 168, 203, 255}
MCExps == {0, 1, 2, 3, 8, 254, 255}

=============================================================================
