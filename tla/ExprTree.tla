------------------------------ MODULE ExprTree ------------------------------
(***************************************************************************)
(* Expressions: expr() of parse/expr.cc gathers the tokens of a line, and  *)
(* expr_treeize() makes a tree of them by splitting the list, again and    *)
(* again, at the operator that binds least.                                *)
(*                                                                         *)
(* An operand is an identifier; constants, which are folded as soon as     *)
(* both sides are known, and types, which only lead to refusals, are left  *)
(* out.  Sequences are numbered from 1 here, so the source's "not found",  *)
(* position 0, is 1.                                                       *)
(*                                                                         *)
(* Definitions introduced by "Fault:" are not part of the model: each is a *)
(* plausible mistake in the definition that follows it.                    *)
(***************************************************************************)
EXTENDS Integers, Sequences, FiniteSets, SequencesExt, FiniteSetsExt

CONSTANT Sources      \* the expressions considered, as trees

Levels == << {"="}, {"=>"}, {"or"}, {"and"}, {"|"}, {"xor"}, {"&"},
             {"!=", "=="}, {">=", ">", "<=", "<"}, {"+"}, {"/", "mod", "*"},
             {"pow"}, {"-", "!", "ptr", "size", "val"},
             {"cast", "'", "]", "++", "--"}, {":"} >>

(* Fault: '+' and '*' bind alike.                                          *)
FlatPriority(tok) ==
  LET S == {p \in DOMAIN Levels : tok \in Levels[p]}
  IN  IF S = {} THEN -1 ELSE IF S = {11} THEN 10 ELSE Min(S)

(* token_getPriority().  The closing bracket stands for the access.        *)
Priority(tok) == LET S == {p \in DOMAIN Levels : tok \in Levels[p]}
                 IN  IF S = {} THEN -1 ELSE Min(S)

(* token_getOpType()                                                       *)
Ternary == {"=>"}
Binary == {"'", ":"} \cup UNION {Levels[p] : p \in {1} \cup 3..12}
Unary == {"-", "!", "ptr", "val", "cast", "]", "++", "--"}
Operators == Ternary \cup Binary \cup Unary

(* expr_getOpAssociation() of the unary operators.                         *)
Prefix == {"cast", "-", "!", "ptr", "val"}

Operands == {"id", "size"}
Tokens == Operators \cup Operands \cup {"(", ")", "[", ",", "||"}

VARIABLES source,     \* the expression, as a tree
          input,      \* its tokens, still to be read
          list,       \* of expr(): the tokens read
          tree        \* what expr_treeize() returned

vars == <<source, input, list, tree>>

-----------------------------------------------------------------------------
(* Trees.                                                                  *)

Node(op, args) == [op |-> op, args |-> args]
Leaf(tok) == Node(tok, <<>>)

Fail == Leaf("fail")            \* the compiler has stopped with a message
NoTree == Leaf("none")          \* there is no tree yet
EmptyExpr == Leaf("empty")      \* expr_empty

(* A failure anywhere ends it all.                                         *)
Join(op, args) == IF Fail \in ToSet(args) THEN Fail ELSE Node(op, args)

-----------------------------------------------------------------------------
(* Helpers on token lists.                                                 *)

Count(e, S, tok) == Cardinality({i \in S : e[i] = tok})

(* How many openings are not closed before i; closings not opened after i. *)
OpenBefore(e, open, close, i) ==
  Count(e, 1..(i - 1), open) - Count(e, 1..(i - 1), close)
OpenAfter(e, open, close, i) ==
  Count(e, (i + 1)..Len(e), close) - Count(e, (i + 1)..Len(e), open)

Matched(e, open, close) ==
  /\ \A i \in 1..Len(e) : OpenAfter(e, open, close, i) >= 0
  /\ OpenAfter(e, open, close, 0) = 0

AtTop(e, i) == OpenAfter(e, "(", ")", i) = 0 /\ OpenAfter(e, "[", "]", i) = 0

(* Fault: the leftmost one, always.                                        *)
LeftMost(e, S) == Min(S)

(* An assignment groups to the right, all else to the left.                *)
LastSplit(e, S) == IF e[Max(S)] = "=" THEN Min(S) ELSE Max(S)

(* expr_findLowPriorityOp(), with expr_findReverseLPOp(): among the        *)
(* operators outside all parentheses and brackets.                         *)
LowPriorityOp(e) ==
  LET ops == {i \in 1..Len(e) : AtTop(e, i) /\ Priority(e[i]) > 0}
      low == Min({Priority(e[i]) : i \in ops})
  IN  IF ops = {} THEN 1
                  ELSE LastSplit(e, {i \in ops : Priority(e[i]) = low})

(* A minus after what is not an operator, outside parentheses.             *)
IsDifference(e, i) == /\ e[i] = "-" /\ i > 1 /\ i < Len(e)
                      /\ OpenBefore(e, "(", ")", i) = 0
                      /\ e[i - 1] \notin Operators

(* expr_fixMinus(): a - b becomes a + - b.                                 *)
FixMinus(e) ==
  FlattenSeq([i \in 1..Len(e) |->
                IF IsDifference(e, i) THEN <<"+", "-">> ELSE <<e[i]>>])

(* expr_matchPar(): the opening one of the last closing parenthesis.       *)
MatchPar(e) ==
  Max({i \in 1..Len(e) : e[i] = "(" /\ OpenAfter(e, "(", ")", i - 1) <= 0})

IsParenthesised(e) == /\ Len(e) > 1 /\ e[1] = "(" /\ e[Len(e)] = ")"
                      /\ Len(e) < 5 \/ MatchPar(e) = 1

(* expr_fixParentheses(): one pair is taken off.                           *)
FixParentheses(e) == IF IsParenthesised(e) THEN SubSeq(e, 2, Len(e) - 1) ELSE e

(* expr_findComma(), or 0.  Its tokens stand between matched parentheses.  *)
FindComma(e) ==
  LET S == {i \in 1..Len(e) : e[i] = "," /\ OpenBefore(e, "(", ")", i) = 0}
  IN  IF S = {} THEN 0 ELSE Min(S)

(* expr_findMatchingTernary(), or 0 if it fails: any arrow before it, even *)
(* in parentheses, hides the separator.                                    *)
FindSeparator(e) ==
  LET S == {i \in 1..Len(e) : /\ e[i] = "||"
                              /\ Count(e, 1..(i - 1), "=>") = 0
                              /\ OpenBefore(e, "(", ")", i) = 0
                              /\ OpenBefore(e, "[", "]", i) = 0}
  IN  IF S = {} \/ 1 \in S THEN 0 ELSE Min(S)

(* expr_matchCBrac(): the opening bracket of the closing one at pos.       *)
MatchCBrac(e, pos) ==
  Max({i \in 1..(pos - 1) :
         e[i] = "[" /\ Count(e, i..pos, "[") = Count(e, i..pos, "]")})

Before(e, i) == SubSeq(e, 1, i - 1)

After(e, i) == SubSeq(e, i + 1, Len(e))

-----------------------------------------------------------------------------
(* expr_treeize()                                                          *)

RECURSIVE Treeize(_), Arguments(_)

(* expr_handleSingle()                                                     *)
Single(tok) == IF tok \in Operands THEN Leaf(tok) ELSE Fail

(* The arguments of a call, split at the commas.                           *)
Arguments(e) == LET comma == FindComma(e)
                IN  IF comma <= 1 THEN <<Treeize(e)>>
                    ELSE <<Treeize(Before(e, comma))>>
                           \o Arguments(After(e, comma))

(* expr_handleCall(): the last parentheses follow what is no operator.     *)
IsCall(e) == /\ Len(e) >= 3
             /\ e[Len(e)] = ")"
             /\ MatchPar(e) > 1
             /\ e[MatchPar(e) - 1] \notin Operators \ {"]"}

Call(e) == LET par == MatchPar(e)
               args == SubSeq(e, par + 1, Len(e) - 1)
           IN  Join("call", <<Treeize(Before(e, par))>>
                              \o IF args = <<>> THEN <<>> ELSE Arguments(args))

Conditional(e, pos) ==
  LET rest == After(e, pos)
      sep == FindSeparator(rest)
  IN  IF pos = 1 \/ sep = 0 THEN Fail
      ELSE Join("=>", <<Treeize(Before(e, pos)), Treeize(Before(rest, sep)),
                        Treeize(After(rest, sep))>>)

(* Of a module and its name, only the tokens beside the colon are looked   *)
(* at.                                                                     *)
ModuleMember(e, pos) ==
  IF pos > 1 /\ pos < Len(e) /\ e[pos - 1] = "id" /\ e[pos + 1] = "id"
    THEN Node(":", <<Leaf("id"), Leaf("id")>>) ELSE Fail

(* When the left side has been taken out, the operator is looked for once  *)
(* more in what is left.                                                   *)
Operation(e, pos) ==
  LET left == Treeize(Before(e, pos))
      rest == SubSeq(e, pos, Len(e))
      again == LowPriorityOp(rest)
  IN  IF pos = 1 THEN Fail
      ELSE IF e[pos] = "'"
        THEN IF again < Len(rest) /\ rest[again + 1] = "id"
               THEN Join("'", <<left, Leaf("id")>>) ELSE Fail
      ELSE Join(e[pos], <<left, Treeize(After(rest, again))>>)

(* The tokens between the brackets, and all the others.                    *)
Access(e, pos) ==
  LET open == MatchCBrac(e, pos)
  IN  Join("]", <<Treeize(Before(e, open) \o After(e, pos)),
                  Treeize(SubSeq(e, open + 1, pos - 1))>>)

(* A unary operator takes all that is on its side; the other side is gone. *)
Application(e, pos) ==
  IF e[pos] \in Prefix
    THEN IF pos = Len(e) THEN Fail
                         ELSE Join(e[pos], <<Treeize(After(e, pos))>>)
    ELSE IF pos = 1 THEN Fail
                    ELSE Join(e[pos], <<Treeize(Before(e, pos))>>)

Treeize(expr) ==
  LET e == FixMinus(FixParentheses(expr))
      pos == LowPriorityOp(e)
      tok == e[pos]
  IN  CASE expr = <<>> -> EmptyExpr
        [] expr # <<>> /\ Len(e) = 1 -> Single(e[1])
        [] OTHER ->
             IF e = <<>> \/ ~Matched(e, "(", ")") \/ ~Matched(e, "[", "]")
               THEN Fail
             ELSE IF Priority(tok) \notin 1..13 /\ IsCall(e) THEN Call(e)
             ELSE CASE tok \in Ternary -> Conditional(e, pos)
                    [] tok = ":" -> ModuleMember(e, pos)
                    [] tok \in Binary \ {":"} -> Operation(e, pos)
                    [] tok = "]" -> Access(e, pos)
                    [] tok \in Unary \ {"]"} -> Application(e, pos)
                    [] OTHER -> Fail

-----------------------------------------------------------------------------
(* How an expression is written: parentheses where, by the levels, there   *)
(* must be some.  A minus between two operands has the level of a plus; a  *)
(* cast has its own parentheses.                                           *)

IsMinus(t) == t.op = "-" /\ Len(t.args) = 2

(* C's operators from the loosest to the tightest; pow is Fork's own.      *)
Grammar == << {"="}, {"=>"}, {"or"}, {"and"}, {"|"}, {"xor"}, {"&"},
              {"==", "!="}, {"<", "<=", ">", ">="}, {"+", "-"},
              {"*", "/", "mod"}, {"pow"} >>

Level(t) == CASE t.op \in Prefix \ {"cast"} /\ Len(t.args) = 1 -> 13
              [] t.op \in {"call", "cast", "'", "]", "++", "--"} -> 14
              [] t.op = ":" -> 15
              [] t.op \in Operands -> 16
              [] OTHER -> CHOOSE p \in DOMAIN Grammar : t.op \in Grammar[p]

RECURSIVE Text(_, _), TextList(_)

TextList(ts) == IF ts = <<>> THEN <<>>
                ELSE IF Len(ts) = 1 THEN Text(ts[1], 1)
                ELSE Text(ts[1], 1) \o <<",">> \o TextList(Tail(ts))

(* The tokens of t where an operand of that level is needed.               *)
Text(t, level) ==
  LET l == Level(t)
      a == t.args
      toks == CASE a = <<>> -> <<t.op>>
                [] t.op = "call" ->
                     Text(a[1], 14) \o <<"(">> \o TextList(Tail(a)) \o <<")">>
                [] t.op = "cast" -> <<"cast", "(">> \o Text(a[1], 1) \o <<")">>
                [] t.op = "]" ->
                     Text(a[1], 14) \o <<"[">> \o Text(a[2], 1) \o <<"]">>
                [] t.op \in {"++", "--"} -> Text(a[1], 14) \o <<t.op>>
                [] t.op = "=>" -> Text(a[1], 3) \o <<"=>">> \o Text(a[2], 2)
                                  \o <<"||">> \o Text(a[3], 2)
                [] t.op = "=" -> Text(a[1], 2) \o <<"=">> \o Text(a[2], 1)
                [] l = 13 -> <<t.op>> \o Text(a[1], 13)
                [] OTHER -> Text(a[1], l) \o <<t.op>> \o Text(a[2], l + 1)
  IN  IF l < level THEN <<"(">> \o toks \o <<")">> ELSE toks

-----------------------------------------------------------------------------
(* expr()                                                                  *)

Init == /\ source \in Sources
        /\ input = Text(source, 1)
        /\ list = <<>>
        /\ tree = NoTree

Appended == Append(list, Head(input))

(* do ... while: the first token is read whatever it is.                   *)
ReadToken == /\ input # <<>>
             /\ list' = Appended
             /\ input' = Tail(input)
             /\ UNCHANGED <<source, tree>>

(* The end of the line.                                                    *)
MakeTree == /\ input = <<>>
            /\ tree = NoTree
            /\ tree' = Treeize(list)
            /\ UNCHANGED <<source, input, list>>

Next == ReadToken \/ MakeTree

Spec == Init /\ [][Next]_vars

-----------------------------------------------------------------------------
(* Properties.                                                             *)

RECURSIVE Subtrees(_), Size(_), Expected(_), Signed(_, _)

Subtrees(t) == {t} \cup UNION {Subtrees(s) : s \in ToSet(t.args)}

(* The number of operands in a tree.                                       *)
Size(t) == IF t.args = <<>> THEN (IF t.op \in Operands THEN 1 ELSE 0)
           ELSE FoldSeq(LAMBDA s, n : n + Size(s), 0, t.args)

IsPrefixed(t) == Level(t) = 13

(* What stands first in a product or power that needs no parentheses.      *)
RECURSIVE FirstFactor(_)
FirstFactor(t) == IF Level(t) = 11 THEN FirstFactor(t.args[1]) ELSE t

HasArity(t) == Len(t.args) \in CASE t.op \in Operands -> {0}
                                 [] t.op \in Ternary -> {3}
                                 [] t.op \in Binary \cup {"]"} -> {2}
                                 [] t.op = "call" -> 1..Len(list)
                                 [] t.op \in Unary \ {"]"} -> {1}
                                 [] OTHER -> {}

(* What expr() returns is a tree whose operators have all their operands.  *)
TypeOK == /\ input \in Seq(Tokens) /\ list \in Seq(Tokens)
          /\ tree \in {NoTree, Fail} \/ \A t \in Subtrees(tree) : HasArity(t)

(* A difference, as the compiler writes it: the subtrahend's first factor  *)
(* is negated.  That is the same number, but for an unsigned dividend.     *)
Signed(t, level) == IF Level(t) = level
                      THEN Node(t.op, <<Signed(t.args[1], level),
                                        Expected(t.args[2])>>)
                      ELSE Node("-", <<Expected(t)>>)

Expected(t) == IF IsMinus(t)
                 THEN Node("+", <<Expected(t.args[1]), Signed(t.args[2], 11)>>)
                 ELSE Node(t.op, [i \in DOMAIN t.args |-> Expected(t.args[i])])

EndsInOperator(t, level) == Last(Text(t, level)) \in {"]", "++", "--"}

(* What the splitting gets right.  Not plain are: a prefix before another  *)
(* prefix or a size; a minus after an index or an increment; a power or    *)
(* one of these prefixes after a minus; an index or a last branch that     *)
(* begins with a minus; a conditional in the middle of another one, or as  *)
(* its last branch without parentheses.                                    *)
Plain(t) ==
  \A s \in Subtrees(t) :
    /\ IsPrefixed(s) => ~IsPrefixed(s.args[1]) /\ s.args[1].op # "size"
    /\ IsMinus(s) => /\ ~EndsInOperator(s.args[1], 10)
                     /\ ~IsPrefixed(FirstFactor(s.args[2]))
                     /\ FirstFactor(s.args[2]).op \notin {"size", "pow"}
    /\ s.op = "]" => Head(Text(s.args[2], 1)) # "-"
    /\ s.op = "=>" => /\ ~Contains(Text(s.args[2], 2), "=>")
                      /\ s.args[3].op # "=>"
                      /\ Head(Text(s.args[3], 2)) # "-"

(* Splitting at the operator of the lowest level again and again gives the *)
(* tree that precedence and associativity call for in C, at every depth,   *)
(* for the plain expressions and for no others.                            *)
GroupsAsC == tree # NoTree => (tree = Expected(source) <=> Plain(source))

DifferenceOfPostfix(t) ==
  \E s \in Subtrees(t) : IsMinus(s) /\ EndsInOperator(s.args[1], 10)

(* Every operand of an accepted expression is in its tree, save where a    *)
(* minus follows an index or an increment.                                 *)
OperandsAreKept ==
  /\ TypeOK
  /\ (tree \notin {NoTree, Fail} /\ ~DifferenceOfPostfix(source)) =>
       Size(tree) = Size(source)

(* README: 'c-like operators, with the same behaviour as C'.  No operand   *)
(* of an accepted expression is lost.                                      *)
NoOperandIsLost == tree \notin {NoTree, Fail} => Size(tree) = Size(source)

=============================================================================
