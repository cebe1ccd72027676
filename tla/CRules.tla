------------------------------- MODULE CRules -------------------------------
(***************************************************************************)
(* What C makes of an expression of Fork's, operator by operator: which    *)
(* tree it should be in C, the type C gives it, and whether C has it.      *)
(* Nothing of this is in the repository.                                   *)
(***************************************************************************)
EXTENDS CGrammar

-----------------------------------------------------------------------------
(* The expression meant.                                                   *)

RECURSIVE IsConstant(_), ConstantValue(_), Meant(_)

(* Numbers, and what arithmetic and signs make of numbers.                 *)
IsConstant(e) ==
  \/ IsNumber(e)
  \/ /\ e.id = "BINOP" /\ e.val \in {"+", "*", "/", "mod", "pow", "&", "xor"}
     /\ \A i \in 1..2 : IsConstant(e.args[i])
  \/ e.id = "UNOP" /\ e.val \in {"-", "!"} /\ IsConstant(e.args[1])

Truncated(a, b) == CHOOSE q \in -Abs(a)..Abs(a) :
                     /\ Abs(q * b) <= Abs(a) /\ Abs(a) - Abs(q * b) < Abs(b)
                     /\ a * b * q >= 0

ConstantValue(e) ==
  LET v(i) == ConstantValue(e.args[i])
      ones(n) == {i \in 0..29 : (n \div 2^i) % 2 = 1}
      value(S) == MapThenSumSet(LAMBDA i : IF i = 29 THEN -(2^i) ELSE 2^i, S)
  IN  CASE e.id = "NUMBER" -> e.num
        [] e.id = "UNOP" -> (IF e.val = "-" THEN -v(1) ELSE IF v(1) = 0 THEN 1 ELSE 0)
        [] OTHER -> (CASE e.val = "+" -> v(1) + v(2)
                       [] e.val = "*" -> v(1) * v(2)
                       [] e.val = "&" -> value(ones(v(1)) \cap ones(v(2)))
                       [] e.val = "xor" -> value((ones(v(1)) \cup ones(v(2)))
                                                   \ (ones(v(1)) \cap ones(v(2))))
                       [] e.val = "pow" -> IF v(2) = 0 THEN 1 ELSE v(1)^v(2)
                       [] e.val = "/" -> Truncated(v(1), v(2))
                       [] e.val = "mod" -> v(1) - v(2) * Truncated(v(1), v(2)))

Holds(op, a, b) == CASE op = "==" -> a = b    [] op = "!=" -> a # b
                     [] op = ">" -> a > b     [] op = "<" -> a < b
                     [] op = ">=" -> a >= b   [] op = "<=" -> a <= b
                     [] op = "and" -> a # 0 /\ b # 0
                     [] op = "or" -> a # 0 \/ b # 0

InC == [op \in {"and", "or", "mod", "xor", "ptr", "val", "++", "--"} |->
          CASE op = "and" -> "&&" [] op = "or" -> "||" [] op = "mod" -> "%"
            [] op = "xor" -> "^" [] op = "ptr" -> "&" [] op = "val" -> "*"
            [] OTHER -> Postfix[op]]

ToC(op) == IF op \in DOMAIN InC THEN InC[op] ELSE op

CNumber(n) == IF n < 0 THEN Unary("-", Id(ToString(-n))) ELSE Id(ToString(n))

(* A string is a pointer to uint8; a power, a call.                        *)
Meant(e) ==
  LET m(i) == Meant(e.args[i])
      both == e.id = "BINOP" /\ \A i \in 1..2 : IsConstant(e.args[i])
  IN  CASE IsConstant(e) -> CNumber(ConstantValue(e))
        [] e.id \in {"ID", "STRUCTID"} -> Id(e.val)
        [] e.id = "STRING" -> Cast(Ptr(NameOnly("uint8")), Id("string"))
        [] e.id = "SIZE" -> SizeOf(Plain(e.of))
        [] e.id = "CAST" -> Cast(Plain(e.of), m(1))
        [] e.id = "BINOP" /\ both /\ e.val \in Boolean ->
             Truth(Holds(e.val, ConstantValue(e.args[1]), ConstantValue(e.args[2])))
        [] ~IsConstant(e) /\ e.id = "BINOP" /\ e.val = "pow" ->
             Call(Id("__forkpow"), <<m(1), m(2)>>)
        [] e.id = "BINOP" /\ e.val = "'" ->
             Binary(IF IsPtr(EvalType(e.args[1])) THEN "->" ELSE ".", m(1), Id(e.args[2].val))
        [] OTHER -> [e EXCEPT !.val = ToC(@), !.args = [i \in DOMAIN e.args |-> m(i)]]

-----------------------------------------------------------------------------
(* Its type in C.                                                          *)

Arith == Type("arithmetic", "", <<>>, <<>>)

(* What a value of type t is in an expression.                             *)
Decayed(t) == CASE IsNumeric(t) \/ IsBool(t) -> Arith
                [] t.kind = "ARRAY" -> Ptr(t.args[1])
                [] t.kind = "FUNC" -> Ptr(t)
                [] t = Null -> Data
                [] OTHER -> t

(* A pointer to something that has a size.                                 *)
ToObject(t) == t.kind = "PTR" /\ t.args[1].kind \notin {"FUNC", "NONE"}

IsValue(t) == t.kind \in {"arithmetic", "PTR"}

Same(a, b) == Plain(a) = Plain(b)

(* No diagnostic is called for.  Two structures are the same only by name. *)
CAssigns(a, b) == \/ a = Arith /\ b = Arith
                  \/ a.kind = "PTR" /\ b.kind = "PTR" /\ (Same(a, b) \/ Data \in {a, b})
                  \/ a.kind = "STRUCT" /\ a.name # "" /\ Same(a, b)

IsLvalue(e) == \/ e.id = "ID" /\ e.val \in DOMAIN Vars
               \/ e.id = "UNOP" /\ e.val = "val"
               \/ e.id = "ACCESS"
               \/ e.id = "BINOP" /\ e.val = "'"

RECURSIVE CType(_)

(* The type of a tree in C before it decays, or Refused.                   *)
CType(e) ==
  LET raw(i) == CType(e.args[i])
      t(i) == Decayed(raw(i))
      op == e.val
      ok(P, type) == IF P THEN type ELSE Refused
      two == t(1) = Arith /\ t(2) = Arith
      f == IF t(1).kind = "PTR" THEN t(1).args[1] ELSE Refused
      s == IF t(1).kind = "PTR" /\ raw(1).kind # "ARRAY" THEN Unalias(t(1).args[1])
           ELSE IF raw(1).kind = "ARRAY" THEN Refused ELSE raw(1)
  IN  IF \E i \in DOMAIN e.args : e.args[i].id # "STRUCTID" /\ CType(e.args[i]) = Refused
        THEN Refused
      ELSE Resolved(
        CASE e.id = "ID" -> VarType(op)
          [] e.id \in {"NUMBER", "SIZE"} -> Arith
          [] e.id = "STRING" -> Ptr(Scalar("uint8"))
          [] e.id = "CAST" -> ok(IsValue(Decayed(e.of)) /\ e.of.kind # "ARRAY" /\ IsValue(t(1)),
                                 e.of)
          [] e.id = "ACCESS" -> ok(ToObject(t(1)) /\ t(2) = Arith, f)
          [] e.id = "CALL" ->
               ok(/\ f.kind = "FUNC" /\ Len(f.args) = Len(e.args)
                  /\ \A i \in 2..Len(f.args) : CAssigns(Decayed(f.args[i]), t(i)),
                  IF f.kind = "FUNC" THEN f.args[1] ELSE Refused)
          [] e.id = "TERNOP" ->
               ok(IsValue(t(1)) /\ CAssigns(t(2), t(3)), IF t(2) = Data THEN t(3) ELSE t(2))
          [] e.id = "UNOP" ->
               (CASE op = "-" -> ok(t(1) = Arith, Arith)
                  [] op = "!" -> ok(IsValue(t(1)), Arith)
                  [] op = "val" -> ok(t(1).kind = "PTR" /\ t(1) # Data, f)
                  [] op = "ptr" ->
                       ok(IsLvalue(e.args[1]) \/ raw(1).kind = "FUNC", Ptr(raw(1)))
                  [] OTHER -> ok(/\ IsLvalue(e.args[1])
                                 /\ raw(1).kind \notin {"ARRAY", "FUNC"}
                                 /\ (t(1) = Arith \/ ToObject(t(1))), raw(1)))
          [] e.id = "BINOP" ->
               (CASE op = "'" -> ok(s.kind = "STRUCT" /\ e.args[2].val \in ToSet(s.tags),
                                    IF s.kind = "STRUCT" THEN MemberType(s, e.args[2].val)
                                    ELSE Refused)
                  [] op = "=" -> ok(/\ IsLvalue(e.args[1])
                                    /\ raw(1).kind \notin {"ARRAY", "FUNC"}
                                    /\ CAssigns(t(1), t(2)), raw(1))
                  [] op \in {"and", "or"} -> ok(IsValue(t(1)) /\ IsValue(t(2)), Arith)
                  [] op \in Comparisons ->
                       ok(two \/ (t(1).kind = "PTR" /\ CAssigns(t(1), t(2))), Arith)
                  [] op = "+" -> (CASE two -> Arith
                                    [] ToObject(t(1)) /\ t(2) = Arith -> t(1)
                                    [] t(1) = Arith /\ ToObject(t(2)) -> t(2)
                                    [] OTHER -> Refused)
                  [] OTHER -> ok(two, Arith)))

=============================================================================
