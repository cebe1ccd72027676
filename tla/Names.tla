------------------------------- MODULE Names -------------------------------
(***************************************************************************)
(* Names: how the parser declares and finds those of variables, functions  *)
(* and types (parse/ptree.cc, parse/syms/symbols.cc, the aliases of        *)
(* parse/syms/types.cc, and alias(), mutDeclGeneric() and func() of        *)
(* parse/parse.cc) in a file that imports one module, m, and the C text    *)
(* that cgen/cgen.cc makes of it, in which they are found again.           *)
(*                                                                         *)
(* Statements are in StmtParser and types in Types; here a type is a       *)
(* number or a structure, and an expression a name.                        *)
(*                                                                         *)
(* Definitions introduced by "Fault:" are not part of the model: each is a *)
(* plausible mistake in the definition that follows it.                    *)
(***************************************************************************)
EXTENDS Integers, Sequences, FiniteSets, SequencesExt, FiniteSetsExt

CONSTANTS TypeIds,        \* the names a file may give to aliases,
          VarIds,         \* to variables and parameters,
          FuncIds,        \* and to functions
          ModuleNames,    \* the variables and functions of m
          ModuleType,     \* the structure that m has an alias for
          MaxText         \* bound: the length of the text

(* What has no name.                                                       *)
NoName == ""

(* No identifier is empty, and type_getBuiltin() knows "number" before     *)
(* pnode_alias() would let an alias take it.                               *)
ASSUME NamesAssumption ==
  /\ MaxText \in Nat
  /\ NoName \notin TypeIds \cup VarIds \cup FuncIds
  /\ "number" \notin TypeIds \cup {ModuleType}

VARIABLES scopes,         \* the nodes that hold names, outermost first
          funcs,          \* the functions that are leaves of the root
          aliases,        \* the root's aliases, in order
          called,         \* the name each structure goes by
          text,           \* the definitions and statements, in order
          stopped         \* the compiler has ended with a message

vars == <<scopes, funcs, aliases, called, text, stopped>>

-----------------------------------------------------------------------------
(* What a name refers to, and where in the text that is.                   *)

Ref(sort, name, at) == [sort |-> sort, name |-> name, at |-> at]

None == Ref("none", NoName, 0)
OfModule(n) == Ref("module", n, 0)

(* An expression: a name, or m's; no expression is expr_empty.             *)
Use(n, member) == [name |-> n, member |-> member]
NoUse == Use(NoName, FALSE)
Uses == {Use(n, FALSE) : n \in VarIds \cup FuncIds}
        \cup {Use(n, TRUE) : n \in VarIds}

(* A structure is where its alias is in the text; m's is 0.                *)
Number == -1
OwnType == 0
Structs == 0..MaxText

(* An alias that has no type yet is a type of its own.                     *)
Unset == -2

Item(c, name, use, ref, type, params) ==
  [c |-> c, name |-> name, use |-> use, ref |-> ref, type |-> type,
   params |-> params]

Here == Len(text) + 1

NewScope(kind, name, at, syms) ==
  [kind |-> kind, name |-> name, at |-> at, syms |-> syms]

Init == /\ scopes = <<NewScope("root", NoName, 0, <<>>)>>
        /\ funcs = <<>>
        /\ aliases = <<>>
        /\ called = [s \in Structs |-> IF s = OwnType THEN ModuleType ELSE NoName]
        /\ text = <<>>
        /\ stopped = FALSE

Innermost == scopes[Len(scopes)]

-----------------------------------------------------------------------------
(* Looking up.                                                             *)

(* The first entry of a name.                                              *)
First(s, n) == s[CHOOSE i \in DOMAIN s : /\ s[i].name = n
                                         /\ \A j \in 1..(i - 1) : s[j].name # n]

(* pnode_isRootAndIdIsFunc()                                               *)
RootFunc(n) ==
  IF \E i \in DOMAIN funcs : funcs[i].name = n
    THEN First(funcs, n) ELSE None

InScope(s, n) == IF n \in DOMAIN s.syms THEN s.syms[n] ELSE None

(* Fault: a function's parameters are not looked at.                       *)
FoundInBodies(s, n) ==
  CASE s.kind = "root" /\ RootFunc(n) # None -> RootFunc(n)
    [] s.kind = "func" -> IF s.name = n THEN Ref("func", n, s.at) ELSE None
    [] OTHER -> InScope(s, n)

(* A node's part of pnode_symbolType(): a function before the names.       *)
FoundIn(s, n) ==
  CASE s.kind = "root" /\ RootFunc(n) # None -> RootFunc(n)
    [] s.kind = "func" /\ s.name = n -> Ref("func", n, s.at)
    [] OTHER -> InScope(s, n)

(* From the innermost node outwards; a member in m, names before           *)
(* functions.                                                              *)
Resolve(use) ==
  LET hits == {i \in DOMAIN scopes : FoundIn(scopes[i], use.name) # None}
  IN  CASE use.member -> IF use.name \in ModuleNames THEN OfModule(use.name) ELSE None
        [] ~use.member /\ hits = {} -> None
        [] OTHER -> FoundIn(scopes[Max(hits)], use.name)

IsAlias(n) == \E i \in DOMAIN aliases : aliases[i].name = n

(* aliases_get()                                                           *)
AliasType(n) == First(aliases, n).type

(* Fault: the structure is not given the name.                             *)
StaysCalled(type, n) == called

(* pnode_getType(), idType(): the structure goes by the name looked up.    *)
NowCalled(type, n) == IF type \in Structs THEN [called EXCEPT ![type] = n]
                                          ELSE called

(* A type is written as the name of a number, an alias or m's alias.       *)
TypeNames == {Use("number", FALSE)} \cup {Use(a.name, FALSE) : a \in ToSet(aliases)}
             \cup {Use(ModuleType, TRUE)}

TypeOf(t) == CASE t.member -> OwnType
               [] t = Use("number", FALSE) -> Number
               [] OTHER -> AliasType(t.name)

-----------------------------------------------------------------------------
(* Steps.                                                                  *)

Fails == stopped' = TRUE /\ UNCHANGED <<scopes, funcs, aliases, called, text>>

Continues == ~stopped /\ Len(text) < MaxText

(* aliases_alias()                                                         *)
Aliased(n, type) ==
  IF IsAlias(n)
    THEN [i \in DOMAIN aliases |->
            IF aliases[i].name = n THEN [aliases[i] EXCEPT !.type = type]
                                   ELSE aliases[i]]
    ELSE Append(aliases, [name |-> n, type |-> type])

(* alias() of a new structure, of another type, or of itself: while the    *)
(* type is read the alias has none.  One that already had a type is        *)
(* refused.                                                                *)
DefineAlias(n, t) ==
  /\ Continues
  /\ Innermost.kind = "root"
  /\ IF IsAlias(n) /\ AliasType(n) # Unset THEN Fails
     ELSE LET type == CASE t = NoUse -> Here
                        [] t = Use(n, FALSE) -> Unset
                        [] OTHER -> TypeOf(t)
          IN  /\ aliases' = Aliased(n, type)
              /\ called' = IF t \in {NoUse, Use(n, FALSE)} THEN called
                                                           ELSE NowCalled(type, t.name)
              /\ text' = Append(text, Item("alias", n, t, None, type, <<>>))
              /\ UNCHANGED <<scopes, funcs, stopped>>

(* Fault: an alias is not a reason to refuse the name.                     *)
ScopeOnly(n) == n \in DOMAIN Innermost.syms

(* pnode_addSymbolReal(), symbols_registerWithOpt()                        *)
Taken(n) == IsAlias(n) \/ n \in DOMAIN Innermost.syms

(* The type of what is referred to: only variables of the text have one    *)
(* that matters here.                                                      *)
TypeOfRef(r) == IF r.sort = "var" THEN text[r.at].type ELSE Number

Registered(n, at) ==
  LET syms == Innermost.syms
  IN  [scopes EXCEPT ![Len(scopes)].syms =
         [m \in DOMAIN syms \cup {n} |-> IF m = n THEN Ref("var", n, at) ELSE syms[m]]]

(* mutDeclGeneric() with a type, mut or decl: the type is looked up first. *)
DeclareTyped(n, t) ==
  /\ Continues
  /\ IF Taken(n) THEN Fails
     ELSE /\ scopes' = Registered(n, Here)
          /\ called' = IF t.name = "number" THEN called ELSE NowCalled(TypeOf(t), t.name)
          /\ text' = Append(text, Item("var", n, t, None, TypeOf(t), <<>>))
          /\ UNCHANGED <<funcs, aliases, stopped>>

(* mutDeclGeneric() with a value: it is read before the name is known.     *)
DeclareInit(n, use) ==
  /\ Continues
  /\ IF Resolve(use) = None \/ Taken(n) THEN Fails
     ELSE /\ scopes' = Registered(n, Here)
          /\ text' = Append(text, Item("var", n, use, Resolve(use),
                                       TypeOfRef(Resolve(use)), <<>>))
          /\ UNCHANGED <<funcs, aliases, called, stopped>>

(* func() up to its body.  Nothing is asked of the name.                   *)
BeginFunc(n, params) ==
  /\ Continues
  /\ Innermost.kind = "root"
  /\ LET ref(p) == Ref("param", p, Here)
     IN  scopes' = scopes \o <<NewScope("func", n, Here,
                                        [p \in ToSet(params) |-> ref(p)]),
                               NewScope("body", NoName, Here, <<>>)>>
  /\ text' = Append(text, Item("func", n, NoUse, None, Number, params))
  /\ UNCHANGED <<funcs, aliases, called, stopped>>

(* The body of an if or a while.                                           *)
Open == /\ Continues
        /\ Innermost.kind = "body"
        /\ scopes' = Append(scopes, NewScope("body", NoName, Here, <<>>))
        /\ text' = Append(text, Item("open", NoName, NoUse, None, Number, <<>>))
        /\ UNCHANGED <<funcs, aliases, called, stopped>>

(* Only now is a function a leaf of the root.                              *)
Close ==
  LET func == scopes[Len(scopes) - 1]
      ends == func.kind = "func"
  IN  /\ Continues
      /\ Innermost.kind = "body"
      /\ scopes' = SubSeq(scopes, 1, Len(scopes) - IF ends THEN 2 ELSE 1)
      /\ funcs' = IF ends THEN Append(funcs, Ref("func", func.name, func.at))
                          ELSE funcs
      /\ text' = Append(text, Item("close", NoName, NoUse, None, Number, <<>>))
      /\ UNCHANGED <<aliases, called, stopped>>

(* A statement or a condition that uses a name.                            *)
Refer(use) ==
  /\ Continues
  /\ Innermost.kind = "body"
  /\ IF Resolve(use) = None THEN Fails
     ELSE /\ text' = Append(text, Item("use", NoName, use, Resolve(use), Number, <<>>))
          /\ UNCHANGED <<scopes, funcs, aliases, called, stopped>>

Next == \/ \E n \in TypeIds, t \in TypeNames \cup {NoUse} : DefineAlias(n, t)
        \/ \E n \in TypeIds : DefineAlias(n, Use(n, FALSE))
        \/ \E n \in VarIds, t \in TypeNames : DeclareTyped(n, t)
        \/ \E n \in VarIds, use \in Uses : DeclareInit(n, use)
        \/ \E n \in FuncIds : BeginFunc(n, <<>>) \/ \E p \in VarIds : BeginFunc(n, <<p>>)
        \/ Open
        \/ Close
        \/ \E use \in Uses : Refer(use)

Spec == Init /\ [][Next]_vars

-----------------------------------------------------------------------------
(* The text as C.  Every alias of the file is written before its           *)
(* definitions, and m before the file; main's parameters are replaced.     *)

Depth(p) == Cardinality({q \in 1..(p - 1) : text[q].c \in {"func", "open"}})
            - Cardinality({q \in 1..(p - 1) : text[q].c = "close"})

(* A declaration and the depth of the block that it belongs to.            *)
InC(ref, depth) == [ref |-> ref, depth |-> depth]

CParams(p) == IF text[p].name = "main" THEN {} ELSE ToSet(text[p].params)

CDeclarations ==
  {InC(OfModule(n), 0) : n \in ModuleNames \cup {ModuleType}}
  \cup {InC(Ref("type", a.name, 0), 0) : a \in ToSet(aliases)}
  \cup {InC(Ref(text[p].c, text[p].name, p), Depth(p)) :
          p \in {q \in DOMAIN text : text[q].c \in {"var", "func"}}}
  \cup UNION {{InC(Ref("param", n, p), 1) : n \in CParams(p)} :
                p \in {q \in DOMAIN text : text[q].c = "func"}}

(* The block of d has not been closed before p.                            *)
InBlock(d, p) == \A q \in (d.ref.at + 1)..p : Depth(q) >= d.depth

CRef(n, p) ==
  LET visible == {d \in CDeclarations : /\ d.ref.name = n
                                        /\ d.ref.at <= p
                                        /\ InBlock(d, p)}
      deepest == Max({d.depth : d \in visible})
  IN  IF visible = {} THEN None
      ELSE (CHOOSE d \in visible : d.depth = deepest).ref

(* Of one name, in one block.                                              *)
Twice(d, e) == /\ d # e
               /\ d.ref.name = e.ref.name
               /\ d.depth = e.depth
               /\ d.ref.at <= e.ref.at
               /\ InBlock(d, e.ref.at)

-----------------------------------------------------------------------------
(* Properties.                                                             *)

(* A block that is open at p has a variable or parameter n of its own.     *)
LocalBefore(n, p) ==
  \E d \in CDeclarations : /\ d.ref.name = n /\ d.depth > 0
                           /\ d.ref.at < p /\ InBlock(d, p)

(* What a use's text means in C is not what it means in Fork: a variable   *)
(* in its own value, which is the new one at once; a function in a         *)
(* function that has a parameter of its name; main's parameters; and m's   *)
(* names, written without m, where a block has its own.                    *)
ReadOtherwise(p) ==
  LET n == text[p].use.name
      ref == text[p].ref
  IN  \/ text[p].name = n
      \/ /\ ref.sort = "func" /\ n # "main"
         /\ n \in ToSet(text[ref.at].params)
         /\ \A q \in (ref.at + 1)..p : Depth(q) > 0
      \/ ref.sort = "param" /\ text[ref.at].name = "main"
      \/ ref.sort = "module" /\ LocalBefore(n, p)

(* Two tables of names agree: the parser's, searched node by node while    *)
(* they grow, and C's in the text; wherever C has no two declarations of a *)
(* name in a block, each name refers to the same declaration in both, but  *)
(* for the uses listed.                                                    *)
NamesAgree ==
  LET uses == {p \in DOMAIN text : text[p].ref # None}
  IN  /\ ~stopped /\ uses # {}
      /\ \A d, e \in CDeclarations : ~Twice(d, e)
      => \A p \in uses : CRef(text[p].use.name, p) = text[p].ref <=> ~ReadOtherwise(p)

(* The parser's checks leave C only these to refuse: two functions of one  *)
(* name, or a function and a variable or an alias; an alias whose name was *)
(* a variable before; a variable of a function's body that repeats a       *)
(* parameter; and what m has already.  It is never two variables, two      *)
(* parameters, two aliases, or a variable after an alias.                  *)
OncePerBlock ==
  ~stopped => \A d, e \in CDeclarations : Twice(d, e) =>
      LET sorts == {d.ref.sort, e.ref.sort}
      IN  \/ "func" \in sorts
          \/ sorts = {"param", "var"}
          \/ "module" \in sorts
          \/ /\ sorts = {"type", "var"}
             /\ \E p \in (e.ref.at + 1)..Len(text) :
                  text[p].c = "alias" /\ text[p].name = e.ref.name

(* The names by which the file has looked up a structure.                  *)
LookUps(s) == {p \in DOMAIN text : /\ text[p].ref = None /\ text[p].type = s
                                   /\ text[p].use # NoUse}

(* All variables of one structure are written with one name, the last it   *)
(* was looked up by, which stands for this structure; m's own variables,   *)
(* too, which come before the file's aliases: they are declared if that    *)
(* name was m's own.                                                       *)
TypeNamesDeclared ==
  /\ \A p \in DOMAIN text :
       text[p].c = "var" /\ text[p].type \in Structs =>
         \/ [name |-> called[text[p].type], type |-> text[p].type] \in ToSet(aliases)
         \/ text[p].type = OwnType /\ called[OwnType] = ModuleType
  /\ called[OwnType] # ModuleType =>
       /\ ~text[Max(LookUps(OwnType))].use.member
       /\ [name |-> called[OwnType], type |-> OwnType] \in ToSet(aliases)

=============================================================================
