---------------------------- MODULE MCStmtParser ----------------------------
(***************************************************************************)
(* Files of one identifier.  The lines: every keyword, names declared and  *)
(* used in all ways, and the endings that parse.cc treats differently.     *)
(***************************************************************************)
EXTENDS StmtParser

CONSTANTS x

MCNames == {x}

L(h, id, uses, tail) == [head |-> h, id |-> id, uses |-> uses, tail |-> tail]

Plain == {L(h, NoId, {}, "nl") :
            h \in {"entry", "while", "if", "else", "break"} \cup Closers}

Binding == {L("func", x, {}, "nl"), L("func", NoId, {x}, "junk"),
            L("mut", x, {}, "nl"), L("mut", x, {x}, "nl"), L("mut", x, {}, "eof")}

Using == {L("expr", NoId, {x}, "nl"), L("while", NoId, {x}, "nl")}

Last == {L(h, NoId, {}, "eof") : h \in {"/func", "/entry", "/while", "/if", "break"}}

MCLines == Plain \cup Binding \cup Using \cup Last

=============================================================================
