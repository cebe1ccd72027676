------------------------------- MODULE Typing -------------------------------
(***************************************************************************)
(* One line of a file on its way through the compiler: its type is read,   *)
(* its expression is built and checked, the line itself is checked         *)
(* (mutDeclGeneric(), returnStmt(), condStmt() and func() of               *)
(* parse/parse.cc), and its C is written.                                  *)
(*                                                                         *)
(* Definitions introduced by "Fault:" are not part of the model: each is a *)
(* plausible mistake in the definition that follows it.                    *)
(***************************************************************************)
EXTENDS CRules

CONSTANT Lines        \* the lines considered

(* "mut", "decl", "return", "if", "func" or an "expr"; the name declared;  *)
(* the type written, or for "return" the function's; and the expression.   *)
Line(kind, name, type, init) ==
  [kind |-> kind, name |-> name, type |-> type, init |-> init]

VARIABLES line,       \* what the file says
          type,       \* the type, as far as it is known
          tree,       \* the expression
          ctext,      \* the C written for it
          at          \* where in the compiler it is

vars == <<line, type, tree, ctext, at>>

-----------------------------------------------------------------------------
(* How a type is written: a structure on several lines, names that share a *)
(* type together.                                                          *)

RECURSIVE TypeText(_), GroupText(_, _, _)

GroupText(types, names, break) ==
  IF names = <<>> THEN <<>>
  ELSE <<Head(names)>>
       \o (IF Len(names) = 1 THEN TypeText(Head(types))
           ELSE IF types[1] = types[2] THEN <<",">>
           ELSE TypeText(Head(types)) \o <<",">> \o break)
       \o GroupText(Tail(types), Tail(names), break)

TypeText(t) ==
  CASE t.name # "" -> <<t.name>>
    [] t.name = "" /\ t.kind = "PTR" -> <<"ptr">> \o TypeText(t.args[1])
    [] t.name = "" /\ t.kind = "ARRAY" ->
         <<"[", t.tags[1], "]">> \o TypeText(t.args[1])
    [] t.name = "" /\ t.kind = "STRUCT" ->
         <<"struct", "(", "newline">> \o GroupText(t.args, t.tags, <<"newline">>)
         \o <<"newline", ")">>
    [] t.name = "" /\ t.kind = "FUNC" ->
         <<"func", "(">> \o GroupText(Params(t), t.tags, <<>>) \o <<")">>
         \o TypeText(t.args[1])
    [] OTHER -> <<>>

(* What follows the name on the line.                                      *)
Written(l) ==
  (IF l.kind = "func" THEN Tail(TypeText(l.type)) ELSE TypeText(l.type))
  \o IF l.init = Empty THEN <<"newline">> ELSE <<"=">>

-----------------------------------------------------------------------------
(* Steps.                                                                  *)

Init == /\ line \in Lines
        /\ type = Missing
        /\ tree = Empty
        /\ ctext = <<>>
        /\ at = "read"

(* The end of the line, or an initialiser, must come after the type.       *)
ReadToEnd(r) ==
  IF r.type = Refused \/ Next1(r.rest) \notin {"newline", "="} THEN Refused
  ELSE r.type

HeadOf(g, ret) == IF ReadToEnd(ret) = Refused THEN Refused
                  ELSE Func(ret.type, g.types, g.names)

(* func(): the head's result may be a structure, but not begin with a      *)
(* bracket.                                                                *)
ReadHead(g) ==
  LET tok == Next1(g.rest)
  IN  IF Refused \in ToSet(g.types) THEN Refused
      ELSE HeadOf(g, CASE tok = "newline" -> Got(NoType, g.rest)
                       [] tok \in {"func", "ptr", "struct", "val"} \/ IsName(tok) ->
                            ReadType(g.rest)
                       [] OTHER -> Stop)

ReadWhole(l) == IF l.kind = "func" THEN ReadHead(ReadGroup(Written(l)))
                ELSE ReadToEnd(ReadType(Written(l)))

Continue(outcome) == at' = IF outcome THEN "build" ELSE "stopped"

(* type(), where the line has one: a mut may have none if it has an        *)
(* initialiser.                                                            *)
ReadLineType ==
  /\ at = "read"
  /\ LET t == CASE line.kind \in {"if", "expr"} -> Missing
                [] line.kind = "return" -> line.type
                [] line.kind = "mut" /\ line.type = Missing -> Missing
                [] OTHER -> ReadWhole(line)
     IN  /\ type' = t
         /\ Continue(t # Refused)
  /\ UNCHANGED <<line, tree, ctext>>

(* expr()                                                                  *)
BuildExpr ==
  /\ at = "build"
  /\ tree' = IF line.init = Empty THEN Empty ELSE Built(line.init)
  /\ at' = IF tree' \in Outcomes THEN "stopped" ELSE "check"
  /\ UNCHANGED <<line, type, ctext>>

(* Fault: the value is looked up like an assignment's.                     *)
FixedVerdict(assign, e) == Verdict(Compatible(assign, FixAlias(EvalType(e))), e)

(* A declaration's and a return's check: aliases are not looked up.        *)
LineVerdict(assign, e) == Verdict(Compatible(assign, EvalType(e)), e)

(* What the line's own function makes of its expression.                   *)
Checked(l, t, e) ==
  CASE l.kind = "mut" /\ l.init # Empty /\ t # Missing -> LineVerdict(t, e)
    [] l.kind = "return" -> LineVerdict(t, e)
    [] l.kind = "if" -> If(EvalType(e) = Scalar("bool"), e)
    [] OTHER -> e

(* A mut without a type has its initialiser's.                             *)
CheckLine ==
  /\ at = "check"
  /\ tree' = Checked(line, type, tree)
  /\ at' = IF tree' \in Outcomes THEN "stopped" ELSE "emit"
  /\ type' = IF line.kind = "mut" /\ type = Missing THEN FixAlias(EvalType(tree))
             ELSE type
  /\ UNCHANGED <<line, ctext>>

EmitLine ==
  /\ at = "emit"
  /\ at' = "done"
  /\ ctext' = CASE line.kind \in {"mut", "decl"} ->
                     CDecl(line.name, type, line.kind = "decl", tree)
                [] line.kind = "return" -> CReturn(tree)
                [] line.kind = "if" -> CBlock("if", tree)
                [] line.kind = "func" -> FuncHead(line.name, type) \o <<"{">>
                [] OTHER -> CExpr(tree) \o <<";">>
  /\ UNCHANGED <<line, type, tree>>

Next == ReadLineType \/ BuildExpr \/ CheckLine \/ EmitLine

Spec == Init /\ [][Next]_vars

-----------------------------------------------------------------------------
(* Properties.                                                             *)

RECURSIVE Results(_)

(* What a type's declarator is written around: pointers' targets.          *)
Results(t) == {t} \cup IF t.name = "" /\ t.kind = "PTR" THEN Results(t.args[1]) ELSE {}

(* A function's result that is a structure or an array, within a type; and *)
(* an array, in a function's own head.                                     *)
Unreadable(l) ==
  \/ \E s \in Subtypes(l.type) :
       /\ s # l.type \/ l.kind # "func"
       /\ s.kind = "FUNC" /\ s.name = ""
       /\ s.args[1].kind \in {"STRUCT", "ARRAY"} /\ s.args[1].name = ""
  \/ l.kind = "func" /\ l.type.args[1].kind = "ARRAY"

(* The text declares the line's name, and with that type.                  *)
Declares(l, t, text) ==
  LET d == ReadDeclaration(IF l.kind = "decl" THEN Tail(text) ELSE text)
  IN  /\ d.name = l.name
      /\ d.type = Plain(t)
      /\ Next1(d.rest) \in {"=", ";", "{"}

(* The parameters are lost in the result of a function that returns a      *)
(* pointer to a function or to an array.                                   *)
HeadIsSound(f) == \A t \in Results(f.args[1]) : t.name # "" \/ t.kind \notin {"FUNC", "ARRAY"}

(* Every type that C has, too, is declared in C as it was written: through *)
(* the reader of types, and inside out in C, a declaration of any depth    *)
(* comes out with the type that stands in the file; only a function that   *)
(* returns a pointer to a function or an array does not.  And only the     *)
(* types described are refused.                                            *)
DeclaredAsWritten ==
  line.kind \in {"mut", "decl", "func"} /\ line.type # Missing =>
    /\ at = "stopped" /\ line.init = Empty => Unreadable(line)
    /\ at = "done" => /\ type = line.type
                      /\ ~Unreadable(line)
                      /\ Legal(line.type) =>
                           (Declares(line, type, ctext) <=>
                              (line.kind = "func" => HeadIsSound(line.type)))


(* The expression's part of the text.                                      *)
ExprText ==
  CASE line.kind = "expr" -> Front(ctext)
    [] line.kind = "return" -> Front(Tail(ctext))
    [] line.kind = "if" -> SubSeq(ctext, 3, Len(ctext) - 2)
    [] OTHER -> Front(SubSeq(ctext, 1 + SelectInSeq(ctext, LAMBDA t : t = "="),
                             Len(ctext)))

RECURSIVE Subtrees(_)
Subtrees(e) == {e} \cup UNION {Subtrees(e.args[i]) : i \in DOMAIN e.args}

(* Not so are increments, which stand behind their operand in Fork and     *)
(* before it in the text; an index into a string, which is read before the *)
(* string's cast; and a member of an array's first element.                *)
WellWritten(e) == \A s \in Subtrees(e) :
  /\ s.val \notin {"++", "--"}
  /\ s.id = "ACCESS" => s.args[1].id # "STRING"
  /\ s.val = "'" => EvalType(s.args[1]).kind # "ARRAY"

EmittedAsMeant ==
  at = "done" /\ tree # Empty =>
    (ReadExpr(ExprText) = Read(Meant(line.init), <<>>) <=> WellWritten(tree))

(* The target of two pointers that are both known in C.                    *)
Mixed(l, r) == /\ IsPtr(l) /\ IsPtr(r)
               /\ Data \notin {l, r} /\ ~Same(l.args[1], r.args[1])

(* What the checks let through, by the node and the types that they see,   *)
(* and C does not: what cannot be assigned to, incremented or referenced;  *)
(* a pointer in arithmetic other than a sum, or to what has no size; a     *)
(* number compared with anything; pointers to different types; a sign      *)
(* before what is no number; an index, a value or a cast of what has none; *)
(* functions of different types.                                           *)
Careless(e) ==
  LET t(i) == EvalType(e.args[i])
      number(i) == IsNumeric(t(i)) \/ IsBool(t(i))
      sized(u) == IsPtr(u) /\ u # Data /\ u.args[1].kind # "FUNC"
      place == /\ IsLvalue(e.args[1])
               /\ t(1).kind \notin {"ARRAY", "FUNC"}
      different == \/ Mixed(t(1), t(2))
                   \/ "FUNC" \in {t(1).kind, t(2).kind} /\ ~Same(t(1), t(2))
  IN  CASE e.id = "UNOP" ->
             (CASE e.val = "-" -> ~number(1)
                [] e.val = "!" -> t(1).kind \in {"STRUCT", "NONE"}
                [] e.val = "val" -> t(1) = Data
                [] e.val = "ptr" -> ~IsLvalue(e.args[1])
                [] OTHER -> ~place \/ t(1).kind = "STRUCT" \/ (IsPtr(t(1)) /\ ~sized(t(1))))
        [] e.id = "CAST" -> t(1).kind \in {"STRUCT", "NONE"}
        [] e.id = "ACCESS" -> ~sized(t(1))
        [] e.id = "TERNOP" -> \/ t(2).kind = "NONE"
                              \/ Mixed(t(2), t(3))
                              \/ t(2).kind = "FUNC" /\ ~Same(t(2), t(3))
        [] e.id = "BINOP" /\ e.val = "=" -> ~place \/ different
        [] e.id = "BINOP" /\ e.val \in {"==", "!="} ->
             different \/ number(1) # number(2)
        [] e.id = "BINOP" /\ e.val = "+" ->
             \E i \in 1..2 : IsPtr(t(i)) /\ ~sized(t(i))
        [] e.id = "BINOP" /\ e.val \notin Boolean \cup {"'", "=", "+"} ->
             \E i \in 1..2 : IsPtr(t(i))
        [] e.id = "BINOP" /\ e.val \in {">", "<", ">=", "<="} ->
             \E i \in 1..2 : IsPtr(t(i))
        [] OTHER -> FALSE

(* What has another type in C: the negation of a pointer, and a choice     *)
(* whose second value is null.                                             *)
Retyped(e) == \/ e.val = "!" /\ IsPtr(EvalType(e.args[1]))
              \/ e.id = "TERNOP" /\ IsPtr(EvalType(e.args[2]))
                 /\ EvalType(e.args[2]) # Data /\ EvalType(e.args[3]) = Null

(* Of the expressions that are accepted, C refuses those listed and no     *)
(* others; and what it has it gives the type they have in Fork, or a       *)
(* number's.                                                               *)
OperatorsAsC ==
  at = "done" /\ line.kind = "expr"
  /\ (\A s \in Subtrees(tree) \ {tree} : ~Retyped(s)) =>
    /\ CType(tree) = Refused <=> \E s \in Subtrees(tree) : Careless(s)
    /\ CType(tree) # Refused =>
         (Same(Decayed(EvalType(tree)), Decayed(CType(tree))) <=> ~Retyped(tree))

(* In the value an alias is still behind a pointer: the member of its own  *)
(* definition.                                                             *)
BehindPointer(t) == /\ IsPtr(t)
                    /\ \/ t.args[1].kind = "ALIAS"
                       \/ IsPtr(t.args[1]) /\ t.args[1].args[1].kind = "ALIAS"

(* A value that a variable can be given can also initialise a variable of  *)
(* that type and be returned as one: the three are checked by three pieces *)
(* of code.  Only of pointers to an alias in its own definition it is the  *)
(* assignment alone that looks up the name; data takes them all.           *)
PlacesAgree ==
  at \in {"done", "stopped"} =>
  \A x \in DOMAIN Vars :
    line.kind \in {"mut", "return"} /\ line.init # Empty /\ line.type = Vars[x] =>
      LET built == Built(line.init)
          given == Assigned(Binary("=", Id(x), built))
      IN  built \notin Outcomes =>
            (at = "done" <=> /\ given \notin Outcomes
                             /\ BehindPointer(EvalType(built)) => line.type = Data)

(* A name declared by its value alone has the type of the value in C, and  *)
(* C takes the value; not so null, which is no type of C's, nothing, an    *)
(* array, which cannot be assigned, and a function, which is no variable.  *)
InferredFits ==
  at = "done" /\ line.kind = "mut" /\ line.type = Missing
  /\ (\A s \in Subtrees(tree) : ~Retyped(s) /\ ~Careless(s)) =>
    LET d == ReadDeclaration(ctext)
        fits == /\ d.name = line.name
                /\ d.type \in {Plain(CType(tree)), Plain(type)}
                /\ type.kind \notin {"ARRAY", "FUNC"}
                /\ CAssigns(Decayed(type), Decayed(CType(tree)))
    IN  fits <=> type.kind \notin {"nullptr", "NONE", "ARRAY", "FUNC"}

=============================================================================
