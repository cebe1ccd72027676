------------------------------- MODULE CText -------------------------------
(***************************************************************************)
(* The C that cgen/cgen.cc writes for types and expressions, as tokens.    *)
(*                                                                         *)
(* Definitions introduced by "Fault:" are not part of the model: each is a *)
(* plausible mistake in the definition that follows it.                    *)
(***************************************************************************)
EXTENDS ExprTypes

-----------------------------------------------------------------------------
(* Declarations.                                                           *)

(* What a format is filled in with.                                        *)
Hole == "%s"

Filled(format, ts) ==
  FlattenSeq([i \in DOMAIN format |->
                IF format[i] = Hole THEN ts ELSE <<format[i]>>])

RECURSIVE CSym(_, _, _), CParams(_, _)

(* cgen_cfuncparms() of at least one; the same loop is in                  *)
(* ccode_genFuncHead().                                                    *)
CParams(types, names) ==
  CSym(types[1], <<names[1]>>, FALSE)
  \o IF Len(types) = 1 THEN <<>>
     ELSE <<",">> \o CParams(Tail(types), Tail(names))

ParamList(f) == IF Params(f) = <<>> THEN <<"void">> ELSE CParams(Params(f), f.tags)

(* Fault: an array needs no parentheses.                                   *)
BareStar(name) == <<"*">> \o name

Starred(name) == <<"(", "*">> \o name \o <<")">>

(* ccode_csym(): the declaration of name with type t.  Inside a function   *)
(* type, the result's text has a hole for the name and the parameters.     *)
CSym(t, name, pedantic) ==
  CASE t.name # "" /\ ~pedantic -> <<t.name>> \o name
    [] (t.name = "" \/ pedantic) /\ t.kind = "FUNC" ->
         Filled(CSym(t.args[1], <<Hole>>, FALSE),
                name \o <<"(">> \o ParamList(t) \o <<")">>)
    [] (t.name = "" \/ pedantic) /\ t.kind = "ARRAY" ->
         CSym(t.args[1], name \o <<"[", t.tags[1], "]">>, FALSE)
    [] (t.name = "" \/ pedantic) /\ t.kind = "PTR" ->
         CSym(t.args[1], Starred(name), FALSE)
    [] (t.name = "" \/ pedantic) /\ t.kind = "STRUCT" ->
         <<"struct", "{">>
         \o FlattenSeq([i \in DOMAIN t.args |->
                          CSym(t.args[i], <<t.tags[i]>>, FALSE) \o <<";">>])
         \o <<"}">> \o name
    [] OTHER -> <<"void">> \o name

(* ccode_genFuncHead(): only the result is written around the open list of *)
(* parameters.                                                             *)
FuncHead(name, f) ==
  IF name = "main" THEN <<"int", "main", "(", "int", "argc", ",", "char", "*",
                          "argv", "[", "]", ")">>
  ELSE CSym(f.args[1], <<name, "(">> \o ParamList(f), FALSE) \o <<")">>

(* ccode_declAliases() of one alias.                                       *)
Typedef(name, t) ==
  IF t.kind = "STRUCT"
    THEN <<"typedef", "struct", name, name, ";", "struct", name>>
         \o Tail(CSym(t, <<>>, TRUE)) \o <<";">>
    ELSE <<"typedef">> \o CSym(t, <<name>>, t.kind = "FUNC") \o <<";">>

-----------------------------------------------------------------------------
(* Expressions.                                                            *)

CInt(n) == IF n < 0 THEN <<"-", ToString(-n)>> ELSE <<ToString(n)>>

(* Fault: an arrow, also for what is no pointer.                           *)
ArrowAlways(e) == "->"

Selector(e) == IF EvalType(e).kind = "PTR" THEN "->" ELSE "."

(* ccode_opConv()                                                          *)
OpConv(op) == CASE op = "and" -> "&&"
                [] op = "or" -> "||"
                [] op = "mod" -> "%"
                [] op = "xor" -> "^"
                [] op = "ptr" -> "&"
                [] op = "val" -> "*"
                [] OTHER -> op

RECURSIVE CExpr(_), CList(_)

CList(es) == IF es = <<>> THEN <<>>
             ELSE CExpr(es[1]) \o IF Len(es) = 1 THEN <<>>
                                  ELSE <<",">> \o CList(Tail(es))

(* ccode_genRecExpr()                                                      *)
CExpr(e) ==
  LET a(i) == CExpr(e.args[i])
  IN  CASE e.id = "EMPTY" -> <<>>
        [] e.id = "ACCESS" -> a(1) \o <<"[">> \o a(2) \o <<"]">>
        [] e.id = "CAST" ->
             <<"(", "(">> \o CSym(e.of, <<>>, FALSE) \o <<")">> \o a(1) \o <<")">>
        [] e.id = "SIZE" -> <<"sizeof", "(">> \o CSym(e.of, <<>>, FALSE) \o <<")">>
        [] e.id = "TERNOP" ->
             <<"(">> \o a(1) \o <<"?">> \o a(2) \o <<":">> \o a(3) \o <<")">>
        [] e.id = "BINOP" /\ e.val = "pow" ->
             <<"__forkpow", "(">> \o a(1) \o <<",">> \o a(2) \o <<")">>
        [] e.id = "BINOP" /\ e.val = "'" ->
             <<"(">> \o a(1) \o <<Selector(e.args[1])>> \o a(2) \o <<")">>
        [] e.id = "BINOP" /\ e.val \notin {"pow", "'"} ->
             <<"(">> \o a(1) \o <<OpConv(e.val)>> \o a(2) \o <<")">>
        [] e.id = "UNOP" -> <<"(", OpConv(e.val)>> \o a(1) \o <<")">>
        [] e.id = "STRING" -> <<"(", "uint8", "*", ")", "string">>
        [] e.id \in {"ID", "STRUCTID"} -> <<e.val>>
        [] e.id = "CALL" -> a(1) \o <<"(">> \o CList(Tail(e.args)) \o <<")">>
        [] e.id = "NUMBER" -> CInt(e.num)

-----------------------------------------------------------------------------
(* Statements, without their line tags and their bodies.                   *)

(* ccode_genDecl()                                                         *)
CDecl(name, t, isExtern, init) ==
  (IF isExtern THEN <<"extern">> ELSE <<>>) \o CSym(t, <<name>>, FALSE)
  \o (IF init = Empty THEN <<>> ELSE <<"=">> \o CExpr(init)) \o <<";">>

(* ccode_genReturn()                                                       *)
CReturn(e) == <<"return">> \o CExpr(e) \o <<";">>

(* ccode_genSimpleBlock() up to the body.                                  *)
CBlock(keyword, e) == <<keyword, "(">> \o CExpr(e) \o <<")", "{">>

=============================================================================
