------------------------------- MODULE Types -------------------------------
(***************************************************************************)
(* Types: parse/syms/types.cc, and type() of parse/parse.cc, which reads   *)
(* them.                                                                   *)
(*                                                                         *)
(* A type is a tree.  An alias names a type of the file; only in its own   *)
(* definition, where there is no such type yet, is it a type of its own.   *)
(*                                                                         *)
(* Definitions introduced by "Fault:" are not part of the model: each is a *)
(* plausible mistake in the definition that follows it.                    *)
(***************************************************************************)
EXTENDS Integers, Sequences, FiniteSets, SequencesExt, FiniteSetsExt

CONSTANT Aliases      \* the types of the file, by name

-----------------------------------------------------------------------------
(* Trees.  The tags are the names of parameters and members, and an        *)
(* array's length.                                                         *)

Type(kind, name, args, tags) ==
  [kind |-> kind, name |-> name, args |-> args, tags |-> tags]

Builtin == [bool |-> <<1, TRUE>>, int8 |-> <<1, FALSE>>, int16 |-> <<2, FALSE>>,
            int32 |-> <<4, FALSE>>, int64 |-> <<8, FALSE>>,
            intptr |-> <<8, FALSE>>, uint8 |-> <<1, TRUE>>,
            uint16 |-> <<2, TRUE>>, uint32 |-> <<4, TRUE>>,
            uint64 |-> <<8, TRUE>>, uintptr |-> <<8, TRUE>>]

NoType == Type("NONE", "", <<>>, <<>>)              \* type_none
Null == Type("nullptr", "null", <<>>, <<>>)         \* type_null
Data == Type("PTR", "data", <<NoType>>, <<>>)       \* type_data
Scalar(name) ==
  Type(IF name = "bool" THEN "BOOL" ELSE "NUMERIC", name, <<>>, <<>>)

Ptr(t) == Type("PTR", "", <<t>>, <<>>)              \* type_makePtr()
ArrayOf(t, len) == Type("ARRAY", "", <<t>>, <<len>>)
Func(ret, types, names) == Type("FUNC", "", <<ret>> \o types, names)
Struct(types, names) == Type("STRUCT", "", types, names)
Alias(name) == Type("ALIAS", name, <<>>, <<>>)      \* type_makeAlias()

Missing == Type("missing", "", <<>>, <<>>)   \* a null pointer to a type
Refused == Type("refused", "", <<>>, <<>>)   \* the compiler has stopped

Params(f) == Tail(f.args)

IsPtr(t) == t.kind \in {"PTR", "ARRAY"}
IsNumeric(t) == t.kind = "NUMERIC"
IsBool(t) == t.kind = "BOOL"

Size(t) == CASE t.kind \in {"BOOL", "NUMERIC"} -> Builtin[t.name][1]
             [] t.kind \in {"nullptr", "FUNC", "PTR", "ARRAY"} -> 8
             [] OTHER -> 0

Uns(t) == t.kind \in {"BOOL", "NUMERIC"} /\ Builtin[t.name][2]

-----------------------------------------------------------------------------
(* Comparisons.                                                            *)

(* What is read behind the end of a smaller object decides: anything.      *)
Wild == "wild"

(* Types of different kinds are told apart at once only if nothing else is *)
(* the same, too.                                                          *)
Differ(a, b) == a.kind # b.kind /\ Size(a) # Size(b) /\ Uns(a) # Uns(b)

(* A pointer and an array begin alike; of what else is not of a's kind,    *)
(* the wrong memory is read.                                               *)
Misread(a, b) == \/ a.kind = "PTR" /\ ~IsPtr(b)
                 \/ a.kind \in {"FUNC", "STRUCT"} /\ b.kind # a.kind
                 \/ a.kind = "ALIAS" /\ b.name = ""

YesNo(P) == IF P THEN "yes" ELSE "no"

RECURSIVE Equal(_, _), AllEqual(_, _)

(* The members up to the first whose name is not the same.                 *)
MembersEqual(a, b) ==
  LET differ == {i \in DOMAIN a.tags : a.tags[i] # b.tags[i]}
  IN  IF differ = {} THEN AllEqual(a.args, b.args)
      ELSE LET types == AllEqual(SubSeq(a.args, 1, Min(differ) - 1),
                                 SubSeq(b.args, 1, Min(differ) - 1))
           IN  IF types = "yes" THEN "no" ELSE types

(* In order, up to the first that is not equal.                            *)
AllEqual(as, bs) ==
  IF as = <<>> THEN "yes"
  ELSE LET first == Equal(Head(as), Head(bs))
       IN  IF first = "yes" THEN AllEqual(Tail(as), Tail(bs)) ELSE first

(* type_equal()                                                            *)
Equal(a, b) ==
  CASE Differ(a, b) -> "no"
    [] ~Differ(a, b) /\ Misread(a, b) -> Wild
    [] ~Differ(a, b) /\ ~Misread(a, b) ->
         CASE a.kind = "ALIAS" -> YesNo(a.name = b.name)
           [] a.kind = "PTR" -> Equal(a.args[1], b.args[1])
           [] a.kind = "FUNC" ->
                LET ret == Equal(a.args[1], b.args[1])
                IN  IF ret # "yes" THEN ret
                    ELSE IF Len(a.args) # Len(b.args) THEN "no"
                    ELSE AllEqual(Params(a), Params(b))
           [] a.kind = "STRUCT" ->
                IF Len(a.args) # Len(b.args) THEN "no"
                ELSE MembersEqual(a, b)
           [] OTHER -> "yes"

(* A number is too large for its destination.                              *)
Narrows(assign, assigned) == Size(assign) < Size(assigned)

RECURSIVE Compatible(_, _)

(* type_areCompatible()                                                    *)
Compatible(assign, assigned) ==
  LET first == IF IsPtr(assign) THEN "PTR" ELSE assign.kind
      second == IF IsPtr(assigned) THEN "PTR" ELSE assigned.kind
  IN  CASE assign = NoType /\ assigned = NoType -> "YES"
        [] first = "PTR" /\ second = "nullptr" -> "YES"
        [] first = second /\ first = "ALIAS" ->
             IF assign.name = assigned.name THEN "YES" ELSE "NO"
        [] first = second /\ first = "BOOL" -> "YES"
        [] first = second /\ first = "NUMERIC" ->
             IF Narrows(assign, assigned) THEN "SMALLER" ELSE "YES"
        [] first = second /\ first \in {"FUNC", "STRUCT"} ->
             CASE Equal(assign, assigned) = "yes" -> "YES"
               [] Equal(assign, assigned) = "no" -> "NO"
               [] OTHER -> Wild
        [] first = second /\ first = "PTR" ->
             IF assign = Data THEN "YES"
             ELSE IF assign.args[1] = Missing THEN Wild
             ELSE Compatible(assign.args[1], assigned.args[1])
        [] OTHER -> "NO"

Larger(first, second) == IF Size(first) > Size(second) THEN first ELSE second

(* type_evalNumberType(); the exponent of 2 that a number is below.        *)
NumberType(bits) == Scalar(CASE bits <= 7 -> "int8"
                             [] bits \in 8..15 -> "int16"
                             [] bits \in 16..31 -> "int32"
                             [] OTHER -> "int64")

-----------------------------------------------------------------------------
(* Names.                                                                  *)

(* Fault: the type keeps no name.                                          *)
Nameless(name) == Aliases[name]

(* pnode_getType(): a structure or a function type takes the name.         *)
Named(name) == LET t == Aliases[name]
               IN  IF t.kind \in {"STRUCT", "FUNC"} THEN [t EXCEPT !.name = name]
                                                    ELSE t

ByName(name) == CASE name = "data" -> Data
                  [] name \in DOMAIN Builtin -> Scalar(name)
                  [] name \in DOMAIN Aliases -> Named(name)
                  [] OTHER -> Refused

RECURSIVE FixAlias(_)

(* pnode_fixAlias(): behind pointers, an alias is looked up.  The type has *)
(* its name already, from the use of the name that led here.               *)
FixAlias(t) == CASE IsPtr(t) /\ IsPtr(t.args[1]) -> Ptr(FixAlias(t.args[1]))
                 [] IsPtr(t) /\ t.args[1].kind = "ALIAS" ->
                      Ptr(Named(t.args[1].name))
                 [] OTHER -> t

Unalias(t) == IF t.kind = "ALIAS" THEN Aliases[t.name] ELSE t

-----------------------------------------------------------------------------
(* Reading a type: what has been read and the tokens left.                 *)

Got(t, rest) == [type |-> t, rest |-> rest]
Stop == Got(Refused, <<>>)

Next1(ts) == IF ts = <<>> THEN "eof" ELSE Head(ts)

Skip(ts, tok) == IF Next1(ts) = tok THEN Tail(ts) ELSE ts

(* The tokens after a function type's parameters that begin its result,    *)
(* beside a name.                                                          *)
StartsResult == {"func", "ptr", "val"}

Punctuation == {"func", "struct", "ptr", "val", "(", ")", "[", "]", ",", "=",
                "newline", "eof"}

IsName(tok) == tok \notin Punctuation

RECURSIVE ReadType(_), ReadParams(_, _, _), ReadNames(_), Joined(_, _, _),
          OfGroup(_, _)

(* argTypeList(): names, separated by commas, and their type.              *)
ReadNames(ts) == IF Next1(Tail(ts)) # "," THEN <<Head(ts)>>
                 ELSE <<Head(ts)>> \o ReadNames(Tail(Tail(ts)))

TypeAfter(ids, ts) == ReadType(SubSeq(ts, 2 * Len(ids), Len(ts)))

NoGroup == [types |-> <<Refused>>, names |-> <<>>, rest |-> <<>>]

(* argParams(): groups of names with a type, up to the closing parenthesis *)
(* or the end of the line.                                                 *)
ReadParams(ts, types, names) ==
  LET group == Skip(IF names = <<>> THEN ts ELSE Tail(ts), "newline")
  IN  CASE Next1(ts) \in {")", "newline"} ->
             [types |-> types, names |-> names, rest |-> Skip(ts, "newline")]
        [] Next1(ts) \notin {")", "newline", ","} /\ names # <<>> -> NoGroup
        [] OTHER -> Joined([types |-> types, names |-> names], ReadNames(group), group)

(* The group is added to those read: a name may come only once, and an     *)
(* alias that has no type yet cannot be instantiated.                      *)
Joined(before, ids, ts) ==
  LET all == before.names \o ids
      add(t) == IF \/ t.type.kind \in {"refused", "missing", "ALIAS"}
                   \/ Cardinality(ToSet(all)) # Len(all)
                  THEN NoGroup
                  ELSE ReadParams(t.rest, before.types \o [i \in DOMAIN ids |-> t.type], all)
  IN  add(TypeAfter(ids, ts))

ClosedGroup(g) == IF Next1(g.rest) = ")" THEN [g EXCEPT !.rest = Tail(@)] ELSE NoGroup

(* structDef()                                                             *)
ReadGroup(ts) == IF Next1(ts) # "(" THEN NoGroup
                 ELSE ClosedGroup(ReadParams(Skip(Tail(ts), "newline"), <<>>, <<>>))

Returning(g, r) == IF r.type = Refused THEN Stop
                   ELSE Got(Func(r.type, g.types, g.names), r.rest)

(* The result of a function type is read only if it begins as these do.    *)
OfGroup(tok, g) ==
  CASE Refused \in ToSet(g.types) -> Stop
    [] Refused \notin ToSet(g.types) /\ tok = "struct" ->
         Got(Struct(g.types, g.names), g.rest)
    [] OTHER -> Returning(g, IF Next1(g.rest) \in StartsResult \/ IsName(Next1(g.rest))
                               THEN ReadType(g.rest) ELSE Got(NoType, g.rest))

(* What stands before the type r.                                          *)
Prefixed(ts, r) == CASE r.type = Refused \/ Head(ts) = "val" -> r
                     [] r.type # Refused /\ Head(ts) = "ptr" ->
                          Got(Ptr(r.type), r.rest)
                     [] OTHER -> Got(ArrayOf(r.type, ts[2]), r.rest)

(* type()                                                                  *)
ReadType(ts) ==
  LET tok == Next1(ts)
  IN  CASE tok \in {"func", "struct"} -> OfGroup(tok, ReadGroup(Tail(ts)))
        [] tok = "[" /\ (Len(ts) < 3 \/ ts[3] # "]") -> Stop
        [] \/ tok \in {"ptr", "val"}
           \/ tok = "[" /\ Len(ts) >= 3 /\ ts[3] = "]" ->
             Prefixed(ts, ReadType(SubSeq(ts, IF tok = "[" THEN 4 ELSE 2, Len(ts))))
        [] IsName(tok) ->
             IF ByName(tok) = Refused THEN Stop ELSE Got(ByName(tok), Tail(ts))
        [] tok = "eof" -> Stop
        [] OTHER -> Got(Missing, ts)

=============================================================================
