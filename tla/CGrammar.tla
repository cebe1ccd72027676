------------------------------ MODULE CGrammar ------------------------------
(***************************************************************************)
(* The part of C that the compiler writes, as its standard has it: how     *)
(* declarations and expressions are read, and which are legal.  Nothing of *)
(* this is in the repository; the emitted text is held against it.         *)
(***************************************************************************)
EXTENDS CText

-----------------------------------------------------------------------------
(* Types, with a name standing for what it names.                          *)

NameOnly(name) == Type("name", name, <<>>, <<>>)

RECURSIVE Plain(_)

Plain(t) == IF t = NoType THEN NameOnly("void")
            ELSE IF t.name # "" THEN NameOnly(t.name)
            ELSE [t EXCEPT !.args = [i \in DOMAIN t.args |-> Plain(t.args[i])]]

RECURSIVE Subtypes(_)

(* A named type is looked into by its own definition only.                 *)
Subtypes(t) == {t} \cup IF t.name # "" THEN {}
                        ELSE UNION {Subtypes(t.args[i]) : i \in DOMAIN t.args}

(* No function returns a function or an array, there are no arrays of      *)
(* functions, and nothing but a result or what is pointed to is void.      *)
Legal(t) == \A s \in Subtypes(t) :
              /\ s.kind = "FUNC" => /\ s.args[1].kind \notin {"FUNC", "ARRAY"}
                                    /\ NoType \notin ToSet(Params(s))
              /\ s.kind = "ARRAY" => s.args[1].kind \notin {"FUNC", "NONE"}
              /\ s.kind = "STRUCT" =>
                   \A i \in DOMAIN s.args : s.args[i].kind \notin {"FUNC", "NONE"}

-----------------------------------------------------------------------------
(* Declarations.  What cannot be read leaves a token nothing begins with.  *)

Bad == <<"bad">>

TypeNames == DOMAIN Builtin \cup DOMAIN Aliases \cup {"data", "void"}

BeginsType(ts) == Next1(ts) \in TypeNames \cup {"struct"}

IsIdentifier(tok) ==
  tok \notin TypeNames \cup {"(", ")", "[", "]", "*", ",", ";", "{", "}", "=",
                             "struct", "eof", "bad"}

(* A declarator: from the name outwards, what is made of what follows.     *)
Declarator(ops, name, rest) == [ops |-> ops, name |-> name, rest |-> rest]

RECURSIVE ReadDeclarator(_), DeclSuffixes(_), ReadDeclaration(_), ReadParamList(_),
          ReadMembers(_), Declared(_, _)

DeclSuffixes(d) ==
  CASE Next1(d.rest) = "[" /\ Len(d.rest) >= 3 ->
         DeclSuffixes(Declarator(Append(d.ops, ArrayOf(NoType, d.rest[2])), d.name,
                             IF d.rest[3] = "]" THEN SubSeq(d.rest, 4, Len(d.rest))
                                                ELSE Bad))
    [] Next1(d.rest) = "(" ->
         LET ps == ReadParamList(Tail(d.rest))
         IN  DeclSuffixes(Declarator(Append(d.ops, Func(NoType, ps.types, ps.names)), d.name,
                                 IF Next1(ps.rest) = ")" THEN Tail(ps.rest) ELSE Bad))
    [] OTHER -> d

ReadDeclarator(ts) ==
  CASE Next1(ts) = "*" ->
         LET d == ReadDeclarator(Tail(ts)) IN [d EXCEPT !.ops = Append(@, Ptr(NoType))]
    [] Next1(ts) = "(" /\ ~BeginsType(Tail(ts)) ->
         LET d == ReadDeclarator(Tail(ts))
         IN  DeclSuffixes([d EXCEPT !.rest = IF Next1(@) = ")" THEN Tail(@) ELSE Bad])
    [] IsIdentifier(Next1(ts)) -> DeclSuffixes(Declarator(<<>>, ts[1], Tail(ts)))
    [] OTHER -> DeclSuffixes(Declarator(<<>>, "", ts))

Declared(ops, base) ==
  IF ops = <<>> THEN base
  ELSE [Head(ops) EXCEPT !.args = [@ EXCEPT ![1] = Declared(Tail(ops), base)]]

ReadMembers(ts) ==
  IF Next1(ts) = "}" THEN [types |-> <<>>, names |-> <<>>, rest |-> Tail(ts)]
  ELSE LET m == ReadDeclaration(ts)
           ms == IF Next1(m.rest) = ";" THEN ReadMembers(Tail(m.rest))
                 ELSE [types |-> <<>>, names |-> <<>>, rest |-> Bad]
       IN  [ms EXCEPT !.types = <<m.type>> \o @, !.names = <<m.name>> \o @]

(* A type and a declarator.                                                *)
ReadDeclaration(ts) ==
  LET members == ReadMembers(SubSeq(ts, 3, Len(ts)))
      isStruct == Next1(ts) = "struct"
      d == ReadDeclarator(IF isStruct THEN members.rest ELSE Tail(ts))
  IN  IF ~BeginsType(ts) THEN [type |-> NoType, name |-> "", rest |-> Bad]
      ELSE [type |-> Declared(d.ops, IF isStruct THEN Struct(members.types, members.names)
                                                 ELSE NameOnly(ts[1])),
            name |-> d.name, rest |-> d.rest]

ReadParamList(ts) ==
  IF Next1(ts) = "void" /\ Next1(Tail(ts)) = ")"
    THEN [types |-> <<>>, names |-> <<>>, rest |-> Tail(ts)]
  ELSE LET p == ReadDeclaration(ts)
           ps == IF Next1(p.rest) = "," THEN ReadParamList(Tail(p.rest))
                 ELSE [types |-> <<>>, names |-> <<>>, rest |-> p.rest]
       IN  [ps EXCEPT !.types = <<p.type>> \o @, !.names = <<p.name>> \o @]

-----------------------------------------------------------------------------
(* Expressions.                                                            *)

Levels == << {"||"}, {"&&"}, {"|"}, {"^"}, {"&"}, {"==", "!="},
             {"<", "<=", ">", ">="}, {"+", "-"}, {"*", "/", "%"} >>

(* Increments behind their operand.                                        *)
Postfix == [tok \in {"++", "--"} |-> IF tok = "++" THEN "post++" ELSE "post--"]

Read(e, rest) == [e |-> e, rest |-> rest]

Expect(r, tok) == IF Next1(r.rest) = tok THEN Read(r.e, Tail(r.rest)) ELSE Read(r.e, Bad)

RECURSIVE ReadExpr(_), ReadLevel(_, _), MoreOf(_, _), ReadUnary(_), Postfixes(_),
          ReadArgs(_, _)

(* An assignment or a conditional, both grouping to the right.             *)
ReadExpr(ts) ==
  LET l == ReadLevel(1, ts)
      m == Expect(ReadExpr(Tail(l.rest)), ":")
      r == ReadExpr(IF Next1(l.rest) = "?" THEN m.rest ELSE Tail(l.rest))
  IN  CASE Next1(l.rest) = "=" -> Read(Binary("=", l.e, r.e), r.rest)
        [] Next1(l.rest) = "?" -> Read(Conditional(l.e, m.e, r.e), r.rest)
        [] OTHER -> l

ReadLevel(n, ts) == IF n > Len(Levels) THEN ReadUnary(ts)
                    ELSE MoreOf(n, ReadLevel(n + 1, ts))

MoreOf(n, l) ==
  IF Next1(l.rest) \notin Levels[n] THEN l
  ELSE LET r == ReadLevel(n + 1, Tail(l.rest))
       IN  MoreOf(n, Read(Binary(Head(l.rest), l.e, r.e), r.rest))

ReadUnary(ts) ==
  LET tok == Next1(ts)
      operand == ReadUnary(Tail(ts))
      type == ReadDeclaration(SubSeq(ts, IF tok = "(" THEN 2 ELSE 3, Len(ts)))
      typed == IF Next1(type.rest) = ")" THEN Tail(type.rest) ELSE Bad
      cast == ReadUnary(typed)
  IN  CASE tok \in {"-", "!", "*", "&", "++", "--"} ->
             Read(Unary(tok, operand.e), operand.rest)
        [] tok = "sizeof" -> Read(SizeOf(type.type), typed)
        [] tok = "(" /\ BeginsType(Tail(ts)) -> Read(Cast(type.type, cast.e), cast.rest)
        [] tok = "(" /\ ~BeginsType(Tail(ts)) ->
             Postfixes(Expect(ReadExpr(Tail(ts)), ")"))
        [] tok \in {"bad", "eof", ")", "]"} -> Read(Empty, Bad)
        [] OTHER -> Postfixes(Read(Id(tok), Tail(ts)))

ReadArgs(r, args) ==
  LET a == ReadExpr(Tail(r.rest))
  IN  CASE Next1(Tail(r.rest)) = ")" /\ args = <<>> -> Read(Call(r.e, <<>>), Tail(Tail(r.rest)))
        [] Next1(a.rest) = "," -> ReadArgs(Read(r.e, a.rest), Append(args, a.e))
        [] OTHER -> Expect(Read(Call(r.e, Append(args, a.e)), a.rest), ")")

Postfixes(r) ==
  LET tok == Next1(r.rest)
      index == Expect(ReadExpr(Tail(r.rest)), "]")
  IN  CASE tok = "[" -> Postfixes(Read(Access(r.e, index.e), index.rest))
        [] tok = "(" -> Postfixes(ReadArgs(r, <<>>))
        [] tok \in {".", "->"} ->
             Postfixes(Read(Binary(tok, r.e, Id(Next1(Tail(r.rest)))), Tail(Tail(r.rest))))
        [] tok \in {"++", "--"} ->
             Postfixes(Read(Unary(Postfix[tok], r.e), Tail(r.rest)))
        [] OTHER -> r

=============================================================================
