----------------------------- MODULE StmtParser -----------------------------
(***************************************************************************)
(* The recursive descent over definitions and statements: definition(),    *)
(* func(), entry(), body(), stmt() and the statements' own functions in    *)
(* parse/parse.cc, with the scopes of parse/ptree.cc they open and close.  *)
(*                                                                         *)
(* A file is read by lines.  A line is its first keyword, the name it      *)
(* declares, the names it uses, and what stands where its new line should  *)
(* be; types and expressions are reduced to that, and whatever else can be *)
(* wrong in a line is a free choice (RejectLine).  The C++ call stack is   *)
(* the variable stack: one frame per construct whose body is being read.   *)
(***************************************************************************)
EXTENDS Integers, Sequences, FiniteSets

CONSTANTS Names,      \* identifiers
          Lines,      \* the lines a file may consist of
          MaxLines    \* how long a file is considered

Openers == {"func", "entry", "while", "if"}
Closers == {"/func", "/entry", "/while", "/if"}
Closer == [func |-> "/func", entry |-> "/entry", while |-> "/while", if |-> "/if"]
Heads == Openers \cup Closers \cup {"else", "break", "return", "expr", "mut"}

(* "mut" is also 'decl', "break" also 'continue'.  A function's uses are   *)
(* its parameters.  After the line: its new line, another token ("junk"),  *)
(* or the end of the file, whose last new line the lexer never delivers.   *)
Tails == {"nl", "junk", "eof"}

NoId == "no id"
Named(id) == {id} \ {NoId}

LineRecords == [head : Heads, id : Names \cup {NoId}, uses : SUBSET Names,
                tail : Tails]

(* The keywords that are followed by an expression, or by parameters.      *)
UsesNames == {"func", "mut", "expr", "return", "while", "if"}

ASSUME StmtAssumption == /\ MaxLines \in Nat
                         /\ Lines \subseteq LineRecords
                         /\ \A l \in Lines : l.head = "mut" => l.id \in Names
                         /\ \A l \in Lines : l.head \notin UsesNames => l.uses = {}
                         /\ NoId \notin Names

VARIABLES module,     \* the file begins with a module declaration
          read,       \* the lines read so far (history)
          ended,      \* no token is left: prs->nextTok is null
          stack,      \* the constructs being parsed, the file itself first
          breakable,  \* prs->inBreakableBody
          outcome

vars == <<module, read, ended, stack, breakable, outcome>>

(* saved: the activation's wasInBreakableBody; id: a function's name;      *)
(* sees: the names bound by the construct itself; names: the symbols of    *)
(* its PR_BODY (of the root, for the file).                                *)
Frames == [kind : {"root", "func", "entry", "while", "if", "else"},
           saved : BOOLEAN, id : Names \cup {NoId},
           sees : SUBSET Names, names : SUBSET Names]

Outcomes == {"running", "accepted", "nothing", "notBreakable", "undefined",
             "defined", "rejected", "crashed"}

TypeOK == /\ module \in BOOLEAN
          /\ read \in Seq(LineRecords)
          /\ ended \in BOOLEAN
          /\ stack \in Seq(Frames)
          /\ breakable \in BOOLEAN
          /\ outcome \in Outcomes

-----------------------------------------------------------------------------
(* Definitions introduced by "Fault:" are not part of the model: each is a *)
(* plausible mistake in the definition that follows it.                    *)

Frame(k, s, id, sees) ==
  [kind |-> k, saved |-> s, id |-> id, sees |-> sees, names |-> {}]

Init == /\ module \in BOOLEAN
        /\ read = <<>>
        /\ ended = FALSE
        /\ stack = <<Frame("root", FALSE, NoId, {})>>
        /\ breakable = FALSE
        /\ outcome = "running"

Top == stack[Len(stack)]
InBody == Top.kind # "root"

Push(fr) == Append(stack, fr)
Below == SubSeq(stack, 1, Len(stack) - 1)

(* pnode_symbolType climbs from the body to the root.                      *)
Visible == UNION {stack[i].names \cup stack[i].sees : i \in 1..Len(stack)}

Resolves(l) == l.uses \subseteq Visible

(* The line l is the next one of the file.                                 *)
Read(l) == /\ outcome = "running"
           /\ ~ended
           /\ Len(read) < MaxLines
           /\ read' = Append(read, l)
           /\ ended' = (l.tail = "eof")
           /\ UNCHANGED module

(* The line is parsed to its new line: the parser goes on.                 *)
Goes(st, flag) == /\ stack' = st
                  /\ breakable' = flag
                  /\ UNCHANGED outcome

Stops(why) == /\ outcome' = why
              /\ UNCHANGED <<stack, breakable>>

-----------------------------------------------------------------------------
(* definition()                                                            *)

AtTop == ~InBody

(* func: after a return type one token is thrown away unseen, the new line *)
(* or not; prs->inBreakableBody is not touched.                            *)
Func(l) == /\ l.head = "func"
           /\ AtTop
           /\ l.tail # "eof"
           /\ Goes(Push(Frame("func", FALSE, l.id, l.uses \cup Named(l.id))),
                   breakable)

Entry(l) == /\ l.head = "entry"
            /\ AtTop
            /\ ~module
            /\ l.tail = "nl"
            /\ Goes(Push(Frame("entry", FALSE, NoId, {})), breakable)

(* Fault: the entry, too, is bound to a name.                              *)
EntryIsKnown == [Below EXCEPT ![1].sees = @ \cup {Top.id}]

(* The function becomes a leaf of the root, where pnode_symbolType finds   *)
(* it by name from now on.                                                 *)
FunctionIsKnown ==
  [Below EXCEPT ![1].sees = @ \cup Named(Top.id)]

EndFunc(l) == /\ Top.kind \in {"func", "entry"}
              /\ l.head = Closer[Top.kind]
              /\ l.tail # "junk"
              /\ Goes(FunctionIsKnown, breakable)

-----------------------------------------------------------------------------
(* mutDeclGeneric(), for a definition or a statement: the initial value is *)
(* parsed before the name is added to the innermost scope.                 *)

Fresh(l) == l.id \notin Top.names

Declares(l) == /\ l.head = "mut"
               /\ Resolves(l)
               /\ Fresh(l)

Mut(l) == /\ Declares(l)
          /\ l.tail = "nl" \/ (l.tail = "eof" /\ ~InBody)
          /\ Goes([stack EXCEPT ![Len(stack)].names = @ \cup {l.id}], breakable)

-----------------------------------------------------------------------------
(* stmt()                                                                  *)

Expr(l) == /\ l.head \in {"expr", "return"}
           /\ InBody
           /\ Resolves(l)
           /\ l.tail = "nl"
           /\ Goes(stack, breakable)

(* Fault: only a break directly in a while's body counts.                  *)
BreakableHere == Top.kind = "while"

MayBreak == breakable

Break(l) == /\ l.head = "break"
            /\ InBody
            /\ MayBreak
            /\ l.tail = "nl"
            /\ Goes(stack, breakable)

(* Fault: the flag is saved after it was set.                              *)
SavedLate == TRUE

(* wasInBreakableBody = prs->inBreakableBody                               *)
Saved == breakable

While(l) == /\ l.head = "while"
            /\ InBody
            /\ Resolves(l)
            /\ l.tail = "nl"
            /\ Goes(Push(Frame("while", Saved, NoId, {})), TRUE)

(* prs->inBreakableBody = wasInBreakableBody                               *)
Restored == Top.saved

EndWhile(l) == /\ l.head = "/while"
               /\ Top.kind = "while"
               /\ l.tail = "nl"
               /\ Goes(Below, Restored)

If(l) == /\ l.head = "if"
         /\ InBody
         /\ Resolves(l)
         /\ l.tail = "nl"
         /\ Goes(Push(Frame("if", FALSE, NoId, {})), breakable)

(* Fault: one body node for both branches.                                 *)
SameBody == [stack EXCEPT ![Len(stack)].kind = "else"]

(* The else branch is a PR_BODY of its own.                                *)
ElseBody == [stack EXCEPT ![Len(stack)] = Frame("else", FALSE, NoId, {})]

Else(l) == /\ l.head = "else"
           /\ Top.kind = "if"
           /\ l.tail = "nl"
           /\ Goes(ElseBody, breakable)

(* Fault: any closing keyword ends an if.                                  *)
EndsAnything(l) == l.head \in Closers

EndsIf(l) == l.head = "/if"

EndIf(l) == /\ EndsIf(l)
            /\ Top.kind \in {"if", "else"}
            /\ l.tail = "nl"
            /\ Goes(Below, breakable)

-----------------------------------------------------------------------------
(* Failures                                                                *)

(* 'break outside of a breakable body'                                     *)
BreakOutside(l) == /\ l.head = "break"
                   /\ InBody
                   /\ ~MayBreak
                   /\ Stops("notBreakable")

(* 'Symbol %s not defined'                                                 *)
Undefined(l) == /\ l.head \in {"expr", "return", "while", "if", "mut"}
                /\ InBody \/ l.head = "mut"
                /\ ~Resolves(l)
                /\ Stops("undefined")

(* 'Error, %s is already defined in thisNode scope'                        *)
DefinedTwice(l) == /\ l.head = "mut"
                   /\ Resolves(l)
                   /\ ~Fresh(l)
                   /\ Stops("defined")

(* Any other message: a type, an expression, a keyword out of place, no    *)
(* new line, no boolean condition.                                         *)
RejectLine(l) == Stops("rejected")

(* The statement was parsed, and stmt() looks at the type of the token     *)
(* after it.  There is none.                                               *)
NoTokenAfter(l) ==
  /\ l.tail = "eof"
  /\ \/ InBody /\ Declares(l)
     \/ InBody /\ l.head = "break" /\ breakable
     \/ Top.kind = "while" /\ l.head = "/while"
     \/ Top.kind \in {"if", "else"} /\ l.head = "/if"
  /\ Stops("crashed")

Line(l) == /\ Read(l)
           /\ \/ Func(l) \/ Entry(l) \/ EndFunc(l)
              \/ Mut(l) \/ Expr(l) \/ Break(l)
              \/ While(l) \/ EndWhile(l)
              \/ If(l) \/ Else(l) \/ EndIf(l)
              \/ BreakOutside(l) \/ Undefined(l) \/ DefinedTwice(l)
              \/ RejectLine(l) \/ NoTokenAfter(l)

(* No line is left.  body() asks its bodyender for the type of a token     *)
(* that is not there; definition() returns null; but after a module line   *)
(* alone, import() misses something to read.  parser_loadToken() takes a   *)
(* file of a single token for an empty one, too.                           *)
EndOfFile == /\ outcome = "running"
             /\ ended' = TRUE
             /\ Stops(IF InBody THEN "crashed"
                      ELSE IF read # <<>> THEN "accepted"
                      ELSE IF module THEN "rejected" ELSE "nothing")
             /\ UNCHANGED <<module, read>>

Next == \/ \E l \in Lines : Line(l)
        \/ EndOfFile

Spec == Init /\ [][Next]_vars

-----------------------------------------------------------------------------
(* Properties.                                                             *)

(* The flag is TRUE exactly while the body of some while of the function   *)
(* being parsed is read: it survives ifs, inner loops and what follows     *)
(* them.                                                                   *)
BreakableIffInWhile == breakable <=> \E i \in 1..Len(stack) : stack[i].kind = "while"

(* Every whileStmt() activation will put back what was true outside it.    *)
SavedFlagsMatch ==
  \A i \in 1..Len(stack) :
    stack[i].kind = "while" =>
      (stack[i].saved <=> \E j \in 1..(i - 1) : stack[j].kind = "while")

(* Functions and the entry are never nested in anything.                   *)
NestingIsLegal ==
  /\ Len(stack) > 0
  /\ \A i \in 1..Len(stack) :
       /\ stack[i].kind = "root" <=> i = 1
       /\ stack[i].kind \in {"func", "entry"} <=> i = 2

(* The stack of constructs and the flag agree, in every state.             *)
LoopFlagIsSound == NestingIsLegal /\ BreakableIffInWhile /\ SavedFlagsMatch

(* What the text itself says, with no stack and no flag: how many blocks   *)
(* are open after p lines, and whether the block opened in line w is still *)
(* open when line p is reached.                                            *)
Count(p, heads) == Cardinality({q \in 1..p : read[q].head \in heads})
OpenAfter(p) == Count(p, Openers) - Count(p, Closers)
Encloses(w, p) == /\ w < p
                  /\ read[w].head \in Openers
                  /\ \A q \in w..(p - 1) : OpenAfter(q) >= OpenAfter(w)

(* The fewest blocks open at any moment while line q is read.              *)
Dip(q) == IF read[q].head = "else" THEN OpenAfter(q) - 1
          ELSE IF OpenAfter(q) < OpenAfter(q - 1) THEN OpenAfter(q)
               ELSE OpenAfter(q - 1)

(* Where the name n is bound for line p: by a declaration in a block that  *)
(* has not ended since, as a parameter of the function around it, or as    *)
(* a function whose first line came before.                                *)
Bound(n, p) ==
  \E d \in 1..(p - 1) :
    \/ /\ read[d].head = "mut"
       /\ read[d].id = n
       /\ \A q \in (d + 1)..(p - 1) : Dip(q) >= OpenAfter(d)
    \/ /\ read[d].head = "func"
       /\ n = read[d].id \/ (n \in read[d].uses /\ Encloses(d, p))

InLoop(p) == \E w \in 1..(p - 1) : read[w].head = "while" /\ Encloses(w, p)

Failures == {"notBreakable", "undefined", "defined", "rejected", "crashed"}

(* The lines that were taken: all, or all but the one that failed.         *)
Taken == 1..(IF outcome \in Failures THEN Len(read) - 1 ELSE Len(read))

(* 'break' and 'continue' are taken exactly where the text has them inside *)
(* a while, however deep and whatever loops were closed before.            *)
BreaksAreInLoops ==
  /\ \A p \in Taken : read[p].head = "break" => InLoop(p)
  /\ outcome = "notBreakable" => ~InLoop(Len(read))

(* A name is found exactly where the text binds it: not after the end of   *)
(* its block, not in the other branch of an if, not in another function.   *)
NamesResolve ==
  /\ \A p \in Taken : read[p].head # "func" =>
                        \A n \in read[p].uses : Bound(n, p)
  /\ outcome = "undefined" => \E n \in read[Len(read)].uses : ~Bound(n, Len(read))

(* An accepted file is well bracketed: nothing is left open, every closing *)
(* keyword closes a block of its kind, every else belongs to an if that    *)
(* has no other, and functions stand at the top.                           *)
AcceptedIsWellNested ==
  outcome = "accepted" =>
    /\ OpenAfter(Len(read)) = 0
    /\ \A p \in 1..Len(read) :
         /\ OpenAfter(p) >= 0
         /\ read[p].head \in {"func", "entry"} => OpenAfter(p) = 1
         /\ read[p].head \in Closers \cup {"else"} =>
              \E w \in 1..(p - 1) :
                /\ Encloses(w, p)
                /\ OpenAfter(w) = OpenAfter(p - 1)
                /\ IF read[p].head = "else"
                     THEN /\ read[w].head = "if"
                          /\ \A q \in (w + 1)..(p - 1) :
                               read[q].head = "else" => OpenAfter(q) > OpenAfter(w)
                     ELSE read[p].head = Closer[read[w].head]

=============================================================================
