----------------------------- MODULE ExprTypes -----------------------------
(***************************************************************************)
(* The types of expressions: what expr_treeize() of parse/expr.cc, once it *)
(* knows an operator's operands, checks and folds, and pnode_evalType() of *)
(* parse/ptree.cc.                                                         *)
(*                                                                         *)
(* Sequences of tokens, and so precedence, are ExprTree's; here the tree   *)
(* is given, a - b as a + - b.                                             *)
(*                                                                         *)
(* Definitions introduced by "Fault:" are not part of the model: each is a *)
(* plausible mistake in the definition that follows it.                    *)
(***************************************************************************)
EXTENDS Types
LOCAL INSTANCE Bitwise

CONSTANT Vars         \* the types of variables and functions, by name

-----------------------------------------------------------------------------
(* Trees.                                                                  *)

Node(id, val, num, of, args) ==
  [id |-> id, val |-> val, num |-> num, of |-> of, args |-> args]

Leaf(id, val) == Node(id, val, 0, NoType, <<>>)
Id(name) == Leaf("ID", name)
Number(n) == Node("NUMBER", "", n, NoType, <<>>)
String == Leaf("STRING", "")
SizeOf(t) == Node("SIZE", "", 0, t, <<>>)
Cast(t, e) == Node("CAST", "", 0, t, <<e>>)
Unary(op, e) == Node("UNOP", op, 0, NoType, <<e>>)
Binary(op, l, r) == Node("BINOP", op, 0, NoType, <<l, r>>)
Member(e, name) == Node("BINOP", "'", 0, NoType, <<e, Leaf("STRUCTID", name)>>)
Access(e, i) == Node("ACCESS", "", 0, NoType, <<e, i>>)
Call(f, args) == Node("CALL", "", 0, NoType, <<f>> \o args)
Conditional(c, e, f) == Node("TERNOP", "", 0, NoType, <<c, e, f>>)

Empty == Leaf("EMPTY", "")          \* expr_empty
Fail == Leaf("fail", "")            \* the compiler has stopped with a message
Crash == Leaf("crash", "")          \* it has not ended, or ended by a signal
Undefined == Leaf("undefined", "")  \* what it does is not determined

Outcomes == {Fail, Crash, Undefined}

IsNumber(e) == e.id = "NUMBER"

-----------------------------------------------------------------------------
(* Types.                                                                  *)

Comparisons == {"==", "!=", ">", "<", ">=", "<="}
Boolean == Comparisons \cup {"and", "or"}

BitsOf(n) == LET abs == IF n < 0 THEN -n - 1 ELSE n
             IN  Min({b \in 0..31 : b = 31 \/ abs < 2^b})

MemberType(t, name) ==
  t.args[CHOOSE i \in DOMAIN t.tags : t.tags[i] = name]

(* Behind one pointer, an alias is looked up.                              *)
StructOf(t) == Unalias(IF IsPtr(t) THEN t.args[1] ELSE t)

Pointee(t) == IF IsPtr(t) THEN t.args[1] ELSE t

(* An alias is replaced by the type it names.                              *)
Resolved(t) == IF t.kind = "ALIAS" THEN Named(t.name) ELSE t

VarType(name) == CASE name \in {"true", "false"} -> Scalar("bool")
                   [] name = "null" -> Null
                   [] OTHER -> Vars[name]

(* Of arithmetic: a pointer's, or else the larger type.                    *)
Arithmetic(l, r) == CASE IsPtr(l) -> l
                      [] ~IsPtr(l) /\ IsPtr(r) -> r
                      [] OTHER -> Larger(l, r)

RECURSIVE EvalType(_)

(* pnode_evalType()                                                        *)
EvalType(e) ==
  LET type(i) == EvalType(e.args[i])
      op == e.val
  IN  Resolved(
        CASE e.id = "EMPTY" -> NoType
          [] e.id = "SIZE" -> Scalar("uintptr")
          [] e.id = "ID" -> VarType(e.val)
          [] e.id = "NUMBER" -> NumberType(BitsOf(e.num))
          [] e.id = "STRING" -> Ptr(Scalar("uint8"))
          [] e.id = "CAST" -> e.of
          [] e.id = "ACCESS" -> type(1).args[1]
          [] e.id = "CALL" -> Pointee(type(1)).args[1]
          [] e.id = "TERNOP" -> Larger(type(2), type(3))
          [] e.id = "BINOP" ->
               (CASE op = "'" -> MemberType(StructOf(type(1)), e.args[2].val)
                  [] op = "=" -> type(1)
                  [] op \in Boolean -> Scalar("bool")
                  [] OTHER -> Arithmetic(type(1), type(2)))
          [] e.id = "UNOP" ->
               (CASE op = "ptr" -> Ptr(type(1))
                  [] op = "val" -> type(1).args[1]
                  [] OTHER -> type(1)))

-----------------------------------------------------------------------------
(* Checks and constants.                                                   *)

(* expr_isBinOpCompatible()                                                *)
BinaryAllowed(op, l, r) ==
  CASE op \in {"and", "or"} -> IsBool(l) /\ IsBool(r)
    [] op \in {"==", "!="} -> \/ IsNumeric(l)
                              \/ IsPtr(l) /\ (IsPtr(r) \/ r = Null)
                              \/ l = Null /\ IsPtr(r)
                              \/ IsBool(l) /\ IsBool(r)
    [] OTHER -> \/ IsNumeric(l) /\ (IsNumeric(r) \/ IsPtr(r))
                \/ IsPtr(l) /\ IsNumeric(r)

(* Fault: functions can be negated and incremented, too.                   *)
FuncAllowed(op, t) == t # Null /\ (op = "val" => t.kind = "PTR")

(* expr_isUnOpCompatible()                                                 *)
UnaryAllowed(op, t) ==
  t # Null /\ CASE op \in {"ptr", "cast"} -> TRUE
                [] op = "val" -> t.kind = "PTR"
                [] OTHER -> t.kind # "FUNC"

(* Division in C goes towards 0.                                           *)
Abs(n) == IF n < 0 THEN -n ELSE n
Quotient(a, b) == IF (a < 0) = (b < 0) THEN Abs(a) \div Abs(b)
                                       ELSE -(Abs(a) \div Abs(b))

(* Two's complement, as wide as TLC's integers allow.                      *)
Width == 2^30
Bits(n) == n % Width
FromBits(n) == Number(IF n < Width \div 2 THEN n ELSE n - Width)

Truth(P) == Id(IF P THEN "true" ELSE "false")

(* Of evaluation at compile time.                                          *)
Divided(a, b) == Quotient(a, b)

(* uintpow(); a negative exponent is taken for a huge one.                 *)
UIntPow(base, exp) == CASE exp = 0 -> 1
                        [] exp # 0 /\ base \in {0, 1} -> base
                        [] OTHER -> base ^ exp

(* expr_evalBinary() of two numbers.  Nothing is asked of the divisor or   *)
(* of the exponent.                                                        *)
FoldBinary(op, a, b) ==
  CASE op \in {"/", "mod"} /\ b = 0 -> Crash
    [] op = "/" /\ b # 0 -> Number(Divided(a, b))
    [] op = "mod" /\ b # 0 -> Number(a - b * Divided(a, b))
    [] op = "pow" /\ b < 0 /\ a \notin {0, 1} -> Crash
    [] op = "pow" /\ (b >= 0 \/ a \in {0, 1}) -> Number(UIntPow(a, b))
    [] op = "+" -> Number(a + b)
    [] op = "*" -> Number(a * b)
    [] op = "&" -> FromBits(Bits(a) & Bits(b))
    [] op = "|" -> FromBits(Bits(a) | Bits(b))
    [] op = "xor" -> FromBits(Bits(a) ^^ Bits(b))
    [] op = "==" -> Truth(a = b)
    [] op = "!=" -> Truth(a # b)
    [] op = ">=" -> Truth(a >= b)
    [] op = ">" -> Truth(a > b)
    [] op = "<=" -> Truth(a <= b)
    [] op = "<" -> Truth(a < b)
    [] op = "and" -> Truth(a # 0 /\ b # 0)
    [] op = "or" -> Truth(a # 0 \/ b # 0)

(* expr_evalUnary()                                                        *)
FoldUnary(op, a) == CASE op = "-" -> Number(-a)
                      [] op = "!" -> Number(IF a = 0 THEN 1 ELSE 0)
                      [] OTHER -> Fail

(* What a comparison of types leads to.                                    *)
Verdict(compatible, e) == CASE compatible = "NO" -> Fail
                            [] compatible = Wild -> Undefined
                            [] OTHER -> e

(* pnode_verifyNodesAreCompatible()                                        *)
Assigned(e) == Verdict(Compatible(FixAlias(EvalType(e.args[1])),
                                  FixAlias(EvalType(e.args[2]))), e)

(* expr_handleStructNode()                                                 *)
Selected(e) == LET t == StructOf(EvalType(e.args[1]))
               IN  IF t.kind = "STRUCT" /\ e.args[2].val \in ToSet(t.tags)
                     THEN e ELSE Fail

(* expr_callCheckParameters()                                              *)
Called(e) ==
  LET f == Pointee(EvalType(e.args[1]))
      verdicts == [i \in 1..(Len(e.args) - 1) |->
                     Compatible(FixAlias(Params(f)[i]),
                                FixAlias(EvalType(e.args[i + 1])))]
  IN  IF f.kind # "FUNC" \/ Len(f.args) # Len(e.args) THEN Fail
      ELSE IF \A i \in DOMAIN verdicts : verdicts[i] \in {"YES", "SMALLER"} THEN e
      ELSE Verdict(SelectSeq(verdicts, LAMBDA v : v \in {"NO", Wild})[1], e)

(* The condition must be a bool, and the branches alike.                   *)
Chosen(e) == IF ~IsBool(EvalType(e.args[1])) THEN Fail
             ELSE Verdict(Compatible(EvalType(e.args[2]), EvalType(e.args[3])), e)

Accessed(e) ==
  IF IsNumeric(EvalType(e.args[2])) /\ IsPtr(EvalType(e.args[1])) THEN e ELSE Fail

If(P, e) == IF P THEN e ELSE Fail

(* A node whose operands are known.                                        *)
Made(e) ==
  CASE e.id = "ID" -> If(e.val \in DOMAIN Vars \cup {"true", "false", "null"}, e)
    [] e.id \in {"NUMBER", "STRING", "SIZE"} -> e
    [] e.id = "ACCESS" -> Accessed(e)
    [] e.id = "CALL" -> Called(e)
    [] e.id = "TERNOP" -> Chosen(e)
    [] e.id = "CAST" -> If(UnaryAllowed("cast", EvalType(e.args[1])), e)
    [] e.id = "UNOP" ->
         IF IsNumber(e.args[1]) THEN FoldUnary(e.val, e.args[1].num)
         ELSE If(UnaryAllowed(e.val, EvalType(e.args[1])), e)
    [] e.id = "BINOP" ->
         CASE e.val = "'" -> Selected(e)
           [] e.val = "=" -> Assigned(e)
           [] e.val \notin {"'", "="} ->
                IF IsNumber(e.args[1]) /\ IsNumber(e.args[2])
                  THEN FoldBinary(e.val, e.args[1].num, e.args[2].num)
                  ELSE If(BinaryAllowed(e.val, EvalType(e.args[1]),
                                        EvalType(e.args[2])), e)

RECURSIVE Built(_)

(* expr_treeize(), from the operands up.                                   *)
Built(e) ==
  LET args == [i \in DOMAIN e.args |->
                 IF e.args[i].id = "STRUCTID" THEN e.args[i] ELSE Built(e.args[i])]
      stopped == SelectSeq(args, LAMBDA a : a \in Outcomes)
  IN  IF stopped # <<>> THEN stopped[1] ELSE Made([e EXCEPT !.args = args])

=============================================================================
