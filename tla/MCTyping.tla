------------------------------ MODULE MCTyping ------------------------------
(***************************************************************************)
(* Declarations of types with up to three constructors, and expressions of *)
(* up to two operators over variables of every kind of type.               *)
(***************************************************************************)
EXTENDS Typing

Int8 == Scalar("int8")
Int32 == Scalar("int32")

(* As tests/str.fork: alias value struct (a int8, b ptr value)             *)
MCAliases ==
  [L |-> Struct(<<Ptr(Alias("L")), Int32>>, <<"next", "v">>)]

TheList == [MCAliases["L"] EXCEPT !.name = "L"]

MCVars == [n |-> Int32, k |-> Scalar("uint8"), b |-> Scalar("bool"),
           p |-> Ptr(Int32), q |-> Ptr(Scalar("uint8")), d |-> Data,
           s |-> TheList, l |-> Ptr(TheList), a |-> ArrayOf(Int32, "3"),
           f |-> Func(Int32, <<Int32>>, <<"x">>),
           g |-> Ptr(Func(Int32, <<Int32>>, <<"x">>)),
           h |-> Func(NoType, <<Ptr(TheList)>>, <<"x">>)]

-----------------------------------------------------------------------------

Over(A) == A \cup {Ptr(t) : t \in A} \cup {ArrayOf(t, "3") : t \in A}
           \cup {Func(t, <<>>, <<>>) : t \in A}
           \cup {Func(t, <<t>>, <<"x">>) : t \in A}
           \cup {Func(NoType, <<t, Int8>>, <<"x", "y">>) : t \in A}
           \cup {Struct(<<t, t, Data>>, <<"x", "y", "z">>) : t \in A}

Base == {Int8, Data, TheList}
Types2 == Over(Over(Base)) \cup {Ptr(t) : t \in Over(Over(Base))}

Declarations ==
  {Line(kind, "name", t, Empty) : kind \in {"mut", "decl"}, t \in Types2}
  \cup {Line("func", "name", t, Empty) : t \in {u \in Over(Types2) : u.kind = "FUNC"}}

Leaves == {Id(x) : x \in DOMAIN MCVars \cup {"true", "null", "unknown"}}
          \cup {Number(0), Number(3), Number(200), String, SizeOf(TheList)}

BinaryOps == {"=", "or", "and", "&", "xor", "==", "<", "+", "/", "mod"}
UnaryOps == {"-", "!", "ptr", "val", "++"}

(* Expressions with one operator over the given operands; TLC's integers   *)
(* have no room for larger powers.                                         *)
Apply(A, B, C) ==
  {Binary(op, e, f) : op \in BinaryOps, e \in A, f \in B}
  \cup {Binary("pow", e, f) : e \in A, f \in B \ {Number(200)}}
  \cup {Unary(op, e) : op \in UnaryOps, e \in A}
  \cup {Member(e, name) : name \in {"next", "v"}, e \in A}
  \cup {Cast(t, e) : t \in {Scalar("uint8"), Ptr(TheList)}, e \in A}
  \cup {Access(e, f) : e \in A, f \in B}
  \cup {Call(e, <<>>) : e \in A}
  \cup {Call(e, <<f>>) : e \in A, f \in B}
  \cup {Conditional(e, f, g) : e \in {Id("b"), Id("n")}, f \in A, g \in C}

Expressions1 == Leaves \cup Apply(Leaves, Leaves, Leaves)

(* With two operators, the second over a few operands.                     *)
Few == {Id("n"), Id("p"), Id("s"), Id("l"), Id("f"), Id("b"), Number(3)}

Expressions2 == Apply(Apply(Few, {Id("n"), Number(3)}, {Id("l")}),
                      {Id("p"), Number(3)}, {Id("n")})

(* Values for a declaration, a return and a condition.                     *)
Values == Leaves \cup {e \in Apply(Leaves, {Id("n"), Id("l")}, {}) :
                         e.id # "BINOP" \/ e.val \in {"'", "==", "+", "="}}

MCLines == Declarations
           \cup {Line("expr", "", Missing, e) : e \in Expressions1 \cup Expressions2}
           \cup {Line("if", "", Missing, e) : e \in Values}
           \cup {Line("mut", "name", Missing, e) : e \in Values}
           \cup {Line(kind, "name", MCVars[x], e) :
                   kind \in {"mut", "return"}, x \in DOMAIN MCVars, e \in Values}

=============================================================================
