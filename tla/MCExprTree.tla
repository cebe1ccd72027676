----------------------------- MODULE MCExprTree -----------------------------
(***************************************************************************)
(* Every expression of one operator and any operands, every one of two     *)
(* operators, and those of three taken from the levels that are told apart.*)
(***************************************************************************)
EXTENDS ExprTree

Id == Leaf("id")

(* Operands and operators to build expressions from.                       *)
AllOperators == [operands |-> {Id},
                 binary |-> (Binary \ {"'", ":"}) \cup {"-"},
                 unary |-> Prefix \cup {"++", "--"}]

AllOperands == [AllOperators EXCEPT !.operands =
                  {Id, Leaf("size"), Node(":", <<Id, Id>>)}]

SomeOperators == [operands |-> {Id},
                  binary |-> {"=", "+", "*", "pow", "-"},
                  unary |-> {"-", "cast", "++"}]

(* Expressions with one operator above the given operands.                 *)
Above1(g, A) == {Node(op, <<a>>) : op \in g.unary \cup {"call"}, a \in A}
                \cup {Node("'", <<a, Id>>) : a \in A}
Above2(g, A, B) == {Node(op, <<a, b>>) :
                      op \in g.binary \cup {"]", "call"}, a \in A, b \in B}
Above3(A, B, C) == {Node(op, <<a, b, c>>) :
                      op \in {"=>", "call"}, a \in A, b \in B, c \in C}

RECURSIVE Exprs(_, _)

(* The expressions with n operators.                                       *)
Exprs(g, n) ==
  IF n = 0 THEN g.operands
  ELSE Above1(g, Exprs(g, n - 1))
       \cup UNION {Above2(g, Exprs(g, i), Exprs(g, n - 1 - i)) : i \in 0..(n - 1)}
       \cup UNION {Above3(Exprs(g, p[1]), Exprs(g, p[2]), Exprs(g, p[3])) :
                     p \in {q \in [1..3 -> 0..(n - 1)] : q[1] + q[2] + q[3] = n - 1}}

(* What can have a type: nothing is done to a size, and an incremented     *)
(* pointer is not called.                                                  *)
Typable(t) == \A s \in Subtrees(t) :
                /\ s.op \in {"]", "call", "'", "++", "--"} => s.args[1].op # "size"
                /\ s.op = "call" => s.args[1].op \notin {"++", "--"}

MCSources == {t \in Exprs(AllOperands, 1) \cup Exprs(AllOperators, 2)
                        \cup Exprs(SomeOperators, 3) : Typable(t)}

=============================================================================
