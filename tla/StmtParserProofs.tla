-------------------------- MODULE StmtParserProofs --------------------------
(***************************************************************************)
(* Proofs about StmtParser for files of every length and every set of      *)
(* names and lines: constructs nest legally, the one flag the parser has   *)
(* for "inside a loop" is right in every state, and what the stack, the    *)
(* flag and the symbol tables say in the middle of a file is what the text *)
(* read so far says.                                                       *)
(***************************************************************************)
EXTENDS StmtParser, SequenceTheorems, FiniteSetTheorems, TLAPS

(* The inductive invariant.  The flag is right only because the value to   *)
(* be restored is; that value is right only because a function begins      *)
(* outside every loop, which takes the legal nesting.                      *)
Control == NestingIsLegal /\ BreakableIffInWhile /\ SavedFlagsMatch

IInv == TypeOK /\ Control

-----------------------------------------------------------------------------
(* What the calls do to the stack.                                         *)

LEMMA PushedStack ==
  ASSUME stack \in Seq(Frames), NEW fr \in Frames
  PROVE  /\ Push(fr) \in Seq(Frames)
         /\ Len(Push(fr)) = Len(stack) + 1
         /\ \A i \in 1..Len(stack) : Push(fr)[i] = stack[i]
         /\ Push(fr)[Len(stack) + 1] = fr
BY DEF Push

LEMMA PoppedStack ==
  ASSUME stack \in Seq(Frames), Len(stack) > 0
  PROVE  /\ Below \in Seq(Frames)
         /\ Len(Below) = Len(stack) - 1
         /\ \A i \in 1..(Len(stack) - 1) : Below[i] = stack[i]
<1> DEFINE n == Len(stack) - 1
<1>1. n \in Nat /\ \A i \in 1..n : stack[i] \in Frames
  OBVIOUS
<1>2. /\ SubSeq(stack, 1, n) \in Seq(Frames)
      /\ Len(SubSeq(stack, 1, n)) = IF 1 <= n THEN n - 1 + 1 ELSE 0
      /\ \A i \in 1..(n - 1 + 1) : SubSeq(stack, 1, n)[i] = stack[1 + i - 1]
  BY <1>1, SubSeqProperties
<1>3. Below = SubSeq(stack, 1, n)
  BY DEF Below
<1> HIDE DEF n
<1>4. /\ Below \in Seq(Frames)
      /\ Len(Below) = n
      /\ \A i \in 1..n : Below[i] = stack[i]
  BY <1>1, <1>2, <1>3
<1>5. QED
  BY <1>4 DEF n

(* A frame that is replaced leaves the others alone.                       *)
LEMMA ReplacedFrame ==
  ASSUME NEW s \in Seq(Frames), NEW j \in 1..Len(s), NEW fr \in Frames
  PROVE  /\ [s EXCEPT ![j] = fr] \in Seq(Frames)
         /\ Len([s EXCEPT ![j] = fr]) = Len(s)
         /\ \A i \in 1..Len(s) : [s EXCEPT ![j] = fr][i] = IF i = j THEN fr ELSE s[i]
OBVIOUS

-----------------------------------------------------------------------------
(* The three ways the stack changes, and what they owe the flag.           *)

LEMMA EnteringKeepsControl ==
  ASSUME IInv, NEW fr \in Frames,
         fr.kind # "root",
         fr.kind \in {"func", "entry"} <=> Len(stack) = 1,
         fr.kind = "while" => fr.saved = breakable,
         stack' = Push(fr),
         breakable' = (breakable \/ fr.kind = "while")
  PROVE  stack' \in Seq(Frames) /\ Control'
<1>1. stack \in Seq(Frames) /\ Len(stack) \in Nat /\ Len(stack) > 0 /\ breakable \in BOOLEAN
  BY DEF IInv, TypeOK, Control, NestingIsLegal
<1>2. /\ stack' \in Seq(Frames)
      /\ Len(stack') = Len(stack) + 1
      /\ \A i \in 1..Len(stack) : stack'[i] = stack[i]
      /\ stack'[Len(stack) + 1] = fr
  BY <1>1, PushedStack
<1>3. \A i \in 1..Len(stack') : i \in 1..Len(stack) \/ i = Len(stack) + 1
  BY <1>1, <1>2
<1>4. 1..Len(stack) \subseteq 1..Len(stack') /\ Len(stack) + 1 \in 1..Len(stack')
  BY <1>1, <1>2
<1>5. NestingIsLegal'
  <2>1. ASSUME NEW i \in 1..Len(stack')
        PROVE  /\ stack'[i].kind = "root" <=> i = 1
               /\ stack'[i].kind \in {"func", "entry"} <=> i = 2
    <3>1. CASE i \in 1..Len(stack)
      BY <1>2, <3>1 DEF NestingIsLegal, IInv, Control
    <3>2. CASE i = Len(stack) + 1
      <4>1. stack'[i] = fr
        BY <1>2, <3>2
      <4>2. i # 1
        BY <1>1, <3>2
      <4>3. i = 2 <=> Len(stack) = 1
        <5> DEFINE n == Len(stack)
        <5>1. n \in Int /\ i = n + 1
          BY <1>1, <3>2
        <5> HIDE DEF n
        <5>2. i = 2 <=> n = 1
          BY <5>1
        <5>3. QED
          BY <5>2 DEF n
      <4>4. QED
        BY <4>1, <4>2, <4>3
    <3>3. QED
      BY <1>3, <3>1, <3>2
  <2>2. QED
    BY <1>1, <1>2, <2>1 DEF NestingIsLegal
<1>6. BreakableIffInWhile'
  BY <1>1, <1>2, <1>3, <1>4 DEF BreakableIffInWhile, IInv, Control
<1>7. SavedFlagsMatch'
  <2> SUFFICES ASSUME NEW i \in 1..Len(stack'), stack'[i].kind = "while"
               PROVE  stack'[i].saved <=> \E j \in 1..(i - 1) : stack'[j].kind = "while"
    BY DEF SavedFlagsMatch
  <2>1. \A j \in 1..(i - 1) : j \in 1..Len(stack) /\ stack'[j] = stack[j]
    BY <1>1, <1>2
  <2>2. CASE i \in 1..Len(stack)
    BY <1>2, <2>1, <2>2 DEF SavedFlagsMatch, IInv, Control
  <2>3. CASE i = Len(stack) + 1
    <3>1. fr.saved = breakable /\ 1..(i - 1) = 1..Len(stack)
      BY <1>1, <1>2, <2>3
    <3>2. QED
      BY <1>2, <2>1, <2>3, <3>1 DEF BreakableIffInWhile, IInv, Control
  <2>4. QED
    BY <1>3, <2>2, <2>3
<1>8. QED
  BY <1>2, <1>5, <1>6, <1>7 DEF Control

LEMMA LeavingKeepsControl ==
  ASSUME IInv, Len(stack) > 1,
         stack' \in Seq(Frames),
         Len(stack') = Len(stack) - 1,
         \A i \in 1..(Len(stack) - 1) : /\ stack'[i].kind = stack[i].kind
                                        /\ stack'[i].saved = stack[i].saved,
         breakable' = IF Top.kind = "while" THEN Top.saved ELSE breakable
  PROVE  Control'
<1>1. stack \in Seq(Frames) /\ Len(stack) \in Nat /\ Len(stack) > 0 /\ breakable \in BOOLEAN
  BY DEF IInv, TypeOK
<1>2. \A i \in 1..Len(stack) : i \in 1..Len(stack') \/ i = Len(stack)
  BY <1>1
<1>3. 1..Len(stack') \subseteq 1..Len(stack) /\ Len(stack) \in 1..Len(stack)
  BY <1>1
<1>4. NestingIsLegal'
  BY <1>1, <1>3 DEF NestingIsLegal, IInv, Control
<1>5. BreakableIffInWhile'
  <2>1. 1..(Len(stack) - 1) = 1..Len(stack')
    OBVIOUS
  <2>2. CASE Top.kind = "while"
    BY <1>3, <2>1, <2>2 DEF BreakableIffInWhile, SavedFlagsMatch, IInv, Control, Top
  <2>3. CASE Top.kind # "while"
    BY <1>2, <1>3, <2>1, <2>3 DEF BreakableIffInWhile, IInv, Control, Top
  <2>4. QED
    BY <2>2, <2>3
<1>6. SavedFlagsMatch'
  <2> SUFFICES ASSUME NEW i \in 1..Len(stack'), stack'[i].kind = "while"
               PROVE  stack'[i].saved <=> \E j \in 1..(i - 1) : stack'[j].kind = "while"
    BY DEF SavedFlagsMatch
  <2>1. \A j \in 1..(i - 1) : stack'[j].kind = stack[j].kind
    BY <1>1
  <2>2. i \in 1..Len(stack) /\ stack[i].kind = "while" /\ stack'[i].saved = stack[i].saved
    BY <1>1
  <2>3. QED
    BY <2>1, <2>2 DEF SavedFlagsMatch, IInv, Control
<1>7. QED
  BY <1>4, <1>5, <1>6 DEF Control

LEMMA StayingKeepsControl ==
  ASSUME IInv,
         stack' \in Seq(Frames),
         Len(stack') = Len(stack),
         \A i \in 1..Len(stack) :
           /\ stack[i].kind = "while" => stack'[i].saved = stack[i].saved
           /\ \/ stack'[i].kind = stack[i].kind
              \/ stack[i].kind = "if" /\ stack'[i].kind = "else",
         breakable' = breakable
  PROVE  Control'
<1> USE DEF IInv, TypeOK
<1>1. \A i \in 1..Len(stack) :
        /\ stack'[i].kind = "root" <=> stack[i].kind = "root"
        /\ stack'[i].kind \in {"func", "entry"} <=> stack[i].kind \in {"func", "entry"}
        /\ stack'[i].kind = "while" <=> stack[i].kind = "while"
  OBVIOUS
<1>2. NestingIsLegal'
  BY <1>1 DEF NestingIsLegal, Control
<1>3. BreakableIffInWhile'
  BY <1>1 DEF BreakableIffInWhile, Control
<1>4. SavedFlagsMatch'
  BY <1>1 DEF SavedFlagsMatch, Control
<1>5. QED
  BY <1>2, <1>3, <1>4 DEF Control

-----------------------------------------------------------------------------
(* A line is read, and parsed to its end or not.                           *)

LEMMA TopIsFrame ==
  ASSUME IInv
  PROVE  /\ Len(stack) \in Nat /\ Len(stack) > 0
         /\ Top \in Frames
         /\ Top.kind = "root" <=> Len(stack) = 1
         /\ Top.kind \in {"func", "entry"} <=> Len(stack) = 2
<1>1. /\ stack \in Seq(Frames)
      /\ Len(stack) \in Nat /\ Len(stack) > 0
      /\ Len(stack) \in 1..Len(stack)
  BY DEF IInv, TypeOK, Control, NestingIsLegal
<1>2. Top \in Frames
  BY <1>1 DEF Top
<1>3. Top.kind = "root" <=> Len(stack) = 1
  BY <1>1 DEF IInv, Control, NestingIsLegal, Top
<1>4. Top.kind \in {"func", "entry"} <=> Len(stack) = 2
  BY <1>1 DEF IInv, Control, NestingIsLegal, Top
<1>5. QED
  BY <1>1, <1>2, <1>3, <1>4

LEMMA LineType ==
  ASSUME NEW l \in Lines
  PROVE  /\ l \in LineRecords
         /\ l.id \in Names \cup {NoId}
         /\ l.uses \in SUBSET Names
         /\ Named(l.id) \in SUBSET Names
BY StmtAssumption DEF LineRecords, Named

(* The part of TypeOK no line changes, and the parts it does.              *)
LEMMA ReadKeepsType ==
  ASSUME IInv, NEW l \in Lines, Read(l)
  PROVE  module' \in BOOLEAN /\ read' \in Seq(LineRecords) /\ ended' \in BOOLEAN
BY LineType DEF Read, IInv, TypeOK

LEMMA StoppingKeepsIInv ==
  ASSUME IInv, NEW why \in Outcomes, Stops(why)
  PROVE  /\ stack' \in Seq(Frames) /\ breakable' \in BOOLEAN /\ outcome' \in Outcomes
         /\ Control'
BY DEF IInv, TypeOK, Stops, Control, NestingIsLegal, BreakableIffInWhile, SavedFlagsMatch

-----------------------------------------------------------------------------
(* One step per way a line can be parsed to its end.                       *)
LEMMA LineKeepsIInv ==
  ASSUME IInv, NEW l \in Lines, Line(l)
  PROVE  IInv'
<1> DEFINE Goal == /\ stack' \in Seq(Frames)
                   /\ breakable' \in BOOLEAN
                   /\ outcome' \in Outcomes
                   /\ Control'
<1>1. Read(l)
  BY DEF Line
<1>2. module' \in BOOLEAN /\ read' \in Seq(LineRecords) /\ ended' \in BOOLEAN
  BY <1>1, ReadKeepsType
<1>3. /\ stack \in Seq(Frames) /\ breakable \in BOOLEAN /\ outcome \in Outcomes
      /\ Len(stack) \in Nat /\ Len(stack) > 0 /\ Len(stack) \in 1..Len(stack)
      /\ Top = stack[Len(stack)] /\ Top \in Frames
  BY TopIsFrame DEF IInv, TypeOK, Top
<1>4. Top.kind \in {"root", "func", "entry", "while", "if", "else"} /\ Top.saved \in BOOLEAN
  BY <1>3 DEF Frames
<1> SUFFICES Goal
  BY <1>2 DEF IInv, TypeOK
<1>5. CASE Func(l)
  <2> DEFINE fr == Frame("func", FALSE, l.id, l.uses \cup Named(l.id))
  <2>1. fr \in Frames /\ fr.kind = "func"
    BY LineType DEF Frame, Frames
  <2>2. stack' = Push(fr) /\ breakable' = breakable /\ outcome' = outcome /\ Top.kind = "root"
    BY <1>5 DEF Func, Goes, AtTop, InBody
  <2> HIDE DEF fr
  <2>3. QED
    <3>1. fr.kind # "root" /\ (fr.kind \in {"func", "entry"} <=> Len(stack) = 1)
      BY <2>1, <2>2, TopIsFrame
    <3>2. /\ fr.kind = "while" => fr.saved = breakable
          /\ breakable' = (breakable \/ fr.kind = "while")
      BY <1>3, <2>1, <2>2
    <3>3. stack' \in Seq(Frames) /\ Control'
      BY <2>1, <2>2, <3>1, <3>2, EnteringKeepsControl
    <3>4. QED
      BY <1>3, <2>2, <3>3
<1>6. CASE Entry(l)
  <2> DEFINE fr == Frame("entry", FALSE, NoId, {})
  <2>1. fr \in Frames /\ fr.kind = "entry"
    BY DEF Frame, Frames
  <2>2. stack' = Push(fr) /\ breakable' = breakable /\ outcome' = outcome /\ Top.kind = "root"
    BY <1>6 DEF Entry, Goes, AtTop, InBody
  <2> HIDE DEF fr
  <2>3. QED
    <3>1. fr.kind # "root" /\ (fr.kind \in {"func", "entry"} <=> Len(stack) = 1)
      BY <2>1, <2>2, TopIsFrame
    <3>2. /\ fr.kind = "while" => fr.saved = breakable
          /\ breakable' = (breakable \/ fr.kind = "while")
      BY <1>3, <2>1, <2>2
    <3>3. stack' \in Seq(Frames) /\ Control'
      BY <2>1, <2>2, <3>1, <3>2, EnteringKeepsControl
    <3>4. QED
      BY <1>3, <2>2, <3>3
<1>7. CASE EndFunc(l)
  <2>1. /\ stack' = FunctionIsKnown /\ breakable' = breakable /\ outcome' = outcome
        /\ Top.kind \in {"func", "entry"}
    BY <1>7 DEF EndFunc, Goes
  <2>2. Len(stack) = 2 /\ Top.kind # "while"
    BY <2>1, TopIsFrame
  <2>3. /\ Below \in Seq(Frames) /\ Len(Below) = 1 /\ 1 \in 1..Len(Below)
        /\ Below[1] = stack[1]
    <3>1. /\ Below \in Seq(Frames) /\ Len(Below) = Len(stack) - 1
          /\ \A i \in 1..(Len(stack) - 1) : Below[i] = stack[i]
      BY <1>3, PoppedStack
    <3>2. 1 \in 1..(Len(stack) - 1)
      BY <2>2
    <3>3. QED
      BY <2>2, <3>1, <3>2
  <2> DEFINE fr == [Below[1] EXCEPT !.sees = @ \cup Named(Top.id)]
  <2>4. /\ fr \in Frames
        /\ fr.kind = stack[1].kind
        /\ fr.saved = stack[1].saved
    <3>1. Below[1] \in Frames
      BY <2>3
    <3>2. Top.id \in Names \cup {NoId}
      BY <1>3 DEF Frames
    <3>3. Named(Top.id) \in SUBSET Names
      BY <3>2 DEF Named
    <3>4. QED
      BY <2>3, <3>1, <3>3 DEF Frames
  <2>5. stack' = [Below EXCEPT ![1] = fr]
    BY <2>1 DEF FunctionIsKnown
  <2> HIDE DEF fr
  <2>6. stack' \in Seq(Frames) /\ Len(stack') = 1 /\ stack'[1] = fr
    BY <2>3, <2>4, <2>5, ReplacedFrame
  <2>7. QED
    BY <1>3, <2>1, <2>2, <2>4, <2>6, LeavingKeepsControl
<1>8. CASE Mut(l)
  <2> DEFINE fr == [Top EXCEPT !.names = @ \cup {l.id}]
  <2>1. /\ stack' = [stack EXCEPT ![Len(stack)].names = @ \cup {l.id}]
        /\ breakable' = breakable /\ outcome' = outcome
    BY <1>8 DEF Mut, Goes
  <2>2. l.id \in Names
    BY <1>8, StmtAssumption DEF Mut, Declares
  <2>3. fr \in Frames /\ fr.kind = Top.kind /\ fr.saved = Top.saved
    BY <1>3, <2>2 DEF Frames
  <2>4. stack' = [stack EXCEPT ![Len(stack)] = fr]
    BY <1>3, <2>1
  <2> HIDE DEF fr
  <2>5. /\ stack' \in Seq(Frames) /\ Len(stack') = Len(stack)
        /\ \A i \in 1..Len(stack) : stack'[i] = IF i = Len(stack) THEN fr ELSE stack[i]
    BY <1>3, <2>3, <2>4, ReplacedFrame
  <2>6. QED
    BY <1>3, <2>1, <2>3, <2>5, StayingKeepsControl
<1>9. CASE Expr(l) \/ Break(l)
  BY <1>3, <1>9, StayingKeepsControl DEF Expr, Break, Goes
<1>10. CASE While(l)
  <2> DEFINE fr == Frame("while", breakable, NoId, {})
  <2>1. fr \in Frames /\ fr.kind = "while" /\ fr.saved = breakable
    BY <1>3 DEF Frame, Frames
  <2>2. stack' = Push(fr) /\ breakable' = TRUE /\ outcome' = outcome /\ Top.kind # "root"
    BY <1>10 DEF While, Goes, Saved, InBody
  <2> HIDE DEF fr
  <2>3. QED
    <3>1. fr.kind # "root" /\ (fr.kind \in {"func", "entry"} <=> Len(stack) = 1)
      BY <2>1, <2>2, TopIsFrame
    <3>2. /\ fr.kind = "while" => fr.saved = breakable
          /\ breakable' = (breakable \/ fr.kind = "while")
      BY <1>3, <2>1, <2>2
    <3>3. stack' \in Seq(Frames) /\ Control'
      BY <2>1, <2>2, <3>1, <3>2, EnteringKeepsControl
    <3>4. QED
      BY <1>3, <2>2, <3>3
<1>11. CASE If(l)
  <2> DEFINE fr == Frame("if", FALSE, NoId, {})
  <2>1. fr \in Frames /\ fr.kind = "if"
    BY DEF Frame, Frames
  <2>2. stack' = Push(fr) /\ breakable' = breakable /\ outcome' = outcome /\ Top.kind # "root"
    BY <1>11 DEF If, Goes, InBody
  <2> HIDE DEF fr
  <2>3. QED
    <3>1. fr.kind # "root" /\ (fr.kind \in {"func", "entry"} <=> Len(stack) = 1)
      BY <2>1, <2>2, TopIsFrame
    <3>2. /\ fr.kind = "while" => fr.saved = breakable
          /\ breakable' = (breakable \/ fr.kind = "while")
      BY <1>3, <2>1, <2>2
    <3>3. stack' \in Seq(Frames) /\ Control'
      BY <2>1, <2>2, <3>1, <3>2, EnteringKeepsControl
    <3>4. QED
      BY <1>3, <2>2, <3>3
<1>12. CASE EndWhile(l) \/ EndIf(l)
  <2>1. /\ stack' = Below /\ outcome' = outcome
        /\ breakable' = IF Top.kind = "while" THEN Top.saved ELSE breakable
        /\ Top.kind # "root"
    BY <1>12 DEF EndWhile, EndIf, Goes, Restored
  <2>2. Len(stack) > 1
    <3>1. Len(stack) # 1
      BY <2>1, TopIsFrame
    <3> DEFINE n == Len(stack)
    <3>2. n \in Nat /\ n > 0 /\ n # 1
      BY <1>3, <3>1
    <3> HIDE DEF n
    <3>3. n > 1
      BY <3>2
    <3>4. QED
      BY <3>3 DEF n
  <2>3. /\ stack' \in Seq(Frames) /\ Len(stack') = Len(stack) - 1
        /\ \A i \in 1..(Len(stack) - 1) : stack'[i] = stack[i]
    BY <1>3, <2>1, PoppedStack
  <2>4. QED
    BY <1>3, <1>4, <2>1, <2>2, <2>3, LeavingKeepsControl
<1>13. CASE Else(l)
  <2> DEFINE fr == Frame("else", FALSE, NoId, {})
  <2>1. fr \in Frames /\ fr.kind = "else"
    BY DEF Frame, Frames
  <2>2. /\ stack' = [stack EXCEPT ![Len(stack)] = fr]
        /\ breakable' = breakable /\ outcome' = outcome /\ Top.kind = "if"
    BY <1>13 DEF Else, ElseBody, Goes
  <2> HIDE DEF fr
  <2>3. /\ stack' \in Seq(Frames) /\ Len(stack') = Len(stack)
        /\ \A i \in 1..Len(stack) : stack'[i] = IF i = Len(stack) THEN fr ELSE stack[i]
    BY <1>3, <2>1, <2>2, ReplacedFrame
  <2>4. QED
    BY <1>3, <2>1, <2>2, <2>3, StayingKeepsControl
<1>14. CASE BreakOutside(l) \/ Undefined(l) \/ DefinedTwice(l) \/ RejectLine(l) \/ NoTokenAfter(l)
  <2>1. PICK why \in Outcomes : Stops(why)
    BY <1>14 DEF BreakOutside, Undefined, DefinedTwice, RejectLine, NoTokenAfter, Outcomes
  <2>2. QED
    BY <2>1, StoppingKeepsIInv
<1>15. QED
  BY <1>5, <1>6, <1>7, <1>8, <1>9, <1>10, <1>11, <1>12, <1>13, <1>14 DEF Line

LEMMA EndOfFileKeepsIInv ==
  ASSUME IInv, EndOfFile
  PROVE  IInv'
<1>1. PICK why \in Outcomes : Stops(why)
  BY DEF EndOfFile, Outcomes
<1>2. /\ stack' \in Seq(Frames) /\ breakable' \in BOOLEAN /\ outcome' \in Outcomes
      /\ Control'
  BY <1>1, StoppingKeepsIInv
<1>3. QED
  BY <1>2 DEF EndOfFile, IInv, TypeOK

LEMMA InitialIInv == Init => IInv
<1> SUFFICES ASSUME Init PROVE IInv
  OBVIOUS
<1> DEFINE root == Frame("root", FALSE, NoId, {})
<1>1. root \in Frames /\ root.kind = "root"
  BY DEF Frame, Frames
<1>2. stack = <<root>>
  BY DEF Init
<1>3. stack \in Seq(Frames) /\ Len(stack) = 1 /\ stack[1].kind = "root"
  <2> HIDE DEF root
  <2>1. QED
    BY <1>1, <1>2
<1>4. TypeOK
  <2>1. read \in Seq(LineRecords) /\ outcome \in Outcomes
    BY DEF Init, Outcomes
  <2>2. QED
    BY <1>3, <2>1 DEF Init, TypeOK
<1>5. Control
  <2>1. \A i \in 1..Len(stack) : i = 1 /\ stack[i].kind = "root"
    BY <1>3
  <2>2. ~breakable
    BY DEF Init
  <2>3. QED
    BY <1>3, <2>1, <2>2
    DEF Control, NestingIsLegal, BreakableIffInWhile, SavedFlagsMatch
<1>6. QED
  BY <1>4, <1>5 DEF IInv

LEMMA StutteringKeepsIInv == IInv /\ UNCHANGED vars => IInv'
BY DEF IInv, TypeOK, Control, NestingIsLegal, BreakableIffInWhile, SavedFlagsMatch, vars

(* The invariant holds for all files, names and lines.                     *)
THEOREM Invariance == Spec => []IInv
<1>1. IInv /\ [Next]_vars => IInv'
  BY LineKeepsIInv, EndOfFileKeepsIInv, StutteringKeepsIInv DEF Next
<1>2. QED
  BY <1>1, InitialIInv, PTL DEF Spec

-----------------------------------------------------------------------------

(* The parser's variables keep their types, for every file.                *)
THEOREM TypeCorrect == Spec => []TypeOK
<1>1. IInv => TypeOK
  BY DEF IInv
<1>2. QED
  BY <1>1, Invariance, PTL

(* Functions and the entry stand at the top of every file only.            *)
THEOREM LegalNesting == Spec => []NestingIsLegal
<1>1. IInv => NestingIsLegal
  BY DEF IInv, Control
<1>2. QED
  BY <1>1, Invariance, PTL

(* prs->inBreakableBody says in every state of every parse whether the     *)
(* parser is in a loop, so 'break' is judged rightly (whileStmt, stmt).    *)
THEOREM LoopFlagIsRight == Spec => []BreakableIffInWhile
<1>1. IInv => BreakableIffInWhile
  BY DEF IInv, Control
<1>2. QED
  BY <1>1, Invariance, PTL

(* Every activation of whileStmt() holds the flag of its surroundings.     *)
THEOREM SavedFlagsAreRight == Spec => []SavedFlagsMatch
<1>1. IInv => SavedFlagsMatch
  BY DEF IInv, Control
<1>2. QED
  BY <1>1, Invariance, PTL

(* Together: for files of every length the stack of constructs, the flag   *)
(* and the copies of it that activations hold agree.                       *)
THEOREM SoundLoopFlag == Spec => []LoopFlagIsSound
<1>1. IInv => LoopFlagIsSound
  BY DEF IInv, Control, LoopFlagIsSound
<1>2. QED
  BY <1>1, Invariance, PTL

-----------------------------------------------------------------------------
(* What the text says.  The inductive invariant, beside IInv.              *)

OpenedBy(kind) == IF kind = "else" THEN "if" ELSE kind

(* Line w opened the construct that is parsed in frame i.                  *)
Opens(w, i) == /\ read[w].head = OpenedBy(stack[i].kind)
               /\ OpenAfter(w) = i - 1
               /\ \A q \in w..Len(read) : OpenAfter(q) >= i - 1

NoElseSince(w) ==
  \A q \in (w + 1)..Len(read) : read[q].head = "else" => OpenAfter(q) > OpenAfter(w)

Opener(w, i) ==
  /\ Opens(w, i)
  /\ stack[i].kind = "if" => NoElseSince(w)
  /\ stack[i].kind = "func" => /\ stack[i].sees = read[w].uses \cup Named(read[w].id)
                               /\ stack[i].id = read[w].id

(* Every frame but the root's was pushed for a line, and is as deep in the *)
(* stack as the text is nested there.                                      *)
BlocksAreOpen ==
  /\ OpenAfter(Len(read)) = Len(stack) - 1
  /\ \A i \in 2..Len(stack) : \E w \in 1..Len(read) : Opener(w, i)

(* The text declares n in the block that frame i stands for.               *)
Declared(n, i) ==
  \E d \in 1..Len(read) : /\ read[d].head = "mut" /\ read[d].id = n
                          /\ OpenAfter(d) = i - 1
                          /\ \A q \in (d + 1)..Len(read) : Dip(q) >= i - 1

FuncNames == {read[d].id : d \in {q \in 1..Len(read) : read[q].head = "func"}} \ {NoId}

(* A symbol table holds what its block declares; all functions are known,  *)
(* the one being parsed by its own frame.                                  *)
TablesAreRight ==
  /\ \A i \in 1..Len(stack) : stack[i].names = {n \in Names : Declared(n, i)}
  /\ \A i \in 2..Len(stack) : stack[i].kind # "func" =>
       stack[i].sees = {} /\ stack[i].id = NoId
  /\ FuncNames = stack[1].sees \cup
       (IF Len(stack) > 1 THEN Named(stack[2].id) ELSE {})

(* What the properties say of a line that was taken.                       *)
ClosesItsKind(p) ==
  \E w \in 1..(p - 1) :
    /\ Encloses(w, p)
    /\ OpenAfter(w) = OpenAfter(p - 1)
    /\ IF read[p].head = "else"
         THEN /\ read[w].head = "if"
              /\ \A q \in (w + 1)..(p - 1) :
                   read[q].head = "else" => OpenAfter(q) > OpenAfter(w)
         ELSE read[p].head = Closer[read[w].head]

LineIsRight(p) ==
  /\ read[p].head = "break" => InLoop(p)
  /\ read[p].head # "func" => \A n \in read[p].uses : Bound(n, p)
  /\ OpenAfter(p) >= 0
  /\ read[p].head \in {"func", "entry"} => OpenAfter(p) = 1
  /\ read[p].head \in Closers \cup {"else"} => ClosesItsKind(p)

TextInv ==
  /\ IInv
  /\ outcome = "running" => BlocksAreOpen /\ TablesAreRight
  /\ \A p \in Taken : LineIsRight(p)
  /\ outcome = "notBreakable" => ~InLoop(Len(read))
  /\ outcome = "undefined" => \E n \in read[Len(read)].uses : ~Bound(n, Len(read))
  /\ outcome = "accepted" => OpenAfter(Len(read)) = 0

-----------------------------------------------------------------------------
(* Counting in the text.                                                   *)

CountIn(r, p, heads) == Cardinality({q \in 1..p : r[q].head \in heads})

Change(head) == IF head \in Openers THEN 1 ELSE IF head \in Closers THEN -1 ELSE 0

LEMMA CountStep ==
  ASSUME NEW r, NEW heads, NEW p \in Nat
  PROVE  /\ CountIn(r, p, heads) \in Nat
         /\ p > 0 => CountIn(r, p, heads) =
                       CountIn(r, p - 1, heads) + IF r[p].head \in heads THEN 1 ELSE 0
<1> DEFINE S(n) == {q \in 1..n : r[q].head \in heads}
<1>1. ASSUME NEW n \in Nat
      PROVE  IsFiniteSet(S(n)) /\ Cardinality(S(n)) \in Nat
  <2>1. IsFiniteSet(1..n)
    BY FS_Interval
  <2>2. IsFiniteSet(S(n))
    BY <2>1, FS_Subset
  <2>3. QED
    BY <2>2, FS_CardinalityType
<1>2. ASSUME p > 0, r[p].head \in heads
      PROVE  Cardinality(S(p)) = Cardinality(S(p - 1)) + 1
  <2>1. S(p) = S(p - 1) \cup {p} /\ p \notin S(p - 1)
    BY <1>2
  <2>2. IsFiniteSet(S(p - 1))
    BY <1>1, <1>2
  <2> HIDE DEF S
  <2>3. QED
    BY <2>1, <2>2, FS_AddElement
<1>3. ASSUME p > 0, r[p].head \notin heads
      PROVE  S(p) = S(p - 1)
  BY <1>3
<1>4. /\ CountIn(r, p, heads) = Cardinality(S(p))
      /\ CountIn(r, p - 1, heads) = Cardinality(S(p - 1))
  BY DEF CountIn
<1>5. ASSUME p > 0
      PROVE  Cardinality(S(p - 1)) \in Nat
  <2>1. p - 1 \in Nat
    BY <1>5
  <2>2. QED
    BY <2>1, <1>1
<1>6. Cardinality(S(p)) \in Nat
  BY <1>1
<1>7. p > 0 /\ r[p].head \notin heads => Cardinality(S(p)) = Cardinality(S(p - 1))
  BY <1>3
<1> HIDE DEF S
<1>8. QED
  BY <1>2, <1>4, <1>5, <1>6, <1>7

LEMMA CountIsLocal ==
  ASSUME NEW r, NEW s, NEW heads, NEW p \in Nat, \A q \in 1..p : r[q] = s[q]
  PROVE  CountIn(r, p, heads) = CountIn(s, p, heads)
BY DEF CountIn

(* Depth in the text r; OpenAfter is its depth in read.                    *)
DepthIn(r, p) == CountIn(r, p, Openers) - CountIn(r, p, Closers)

LEMMA DepthStep ==
  ASSUME NEW r, NEW p \in Nat
  PROVE  /\ DepthIn(r, p) \in Int
         /\ p > 0 => DepthIn(r, p) = DepthIn(r, p - 1) + Change(r[p].head)
<1>1. /\ CountIn(r, p, Openers) \in Nat /\ CountIn(r, p, Closers) \in Nat
      /\ p > 0 => /\ CountIn(r, p - 1, Openers) \in Nat
                  /\ CountIn(r, p - 1, Closers) \in Nat
  BY CountStep
<1>2. p > 0 => /\ CountIn(r, p, Openers) =
                    CountIn(r, p - 1, Openers) + IF r[p].head \in Openers THEN 1 ELSE 0
               /\ CountIn(r, p, Closers) =
                    CountIn(r, p - 1, Closers) + IF r[p].head \in Closers THEN 1 ELSE 0
  BY CountStep
<1>3. ~(r[p].head \in Openers /\ r[p].head \in Closers)
  BY DEF Openers, Closers
<1>4. QED
  BY <1>1, <1>2, <1>3 DEF DepthIn, Change

LEMMA DepthIsOpenAfter ==
  ASSUME NEW p
  PROVE  OpenAfter(p) = DepthIn(read, p) /\ OpenAfter(p)' = DepthIn(read', p)
BY DEF OpenAfter, Count, DepthIn, CountIn

(* The depth changes by at most one from line to line.                     *)
LEMMA OpenAfterStep ==
  ASSUME NEW p \in Nat
  PROVE  /\ OpenAfter(p) \in Int
         /\ p > 0 => OpenAfter(p) = OpenAfter(p - 1) + Change(read[p].head)
BY DepthStep, DepthIsOpenAfter

LEMMA EmptyText == ASSUME NEW r PROVE DepthIn(r, 0) = 0
<1>1. ASSUME NEW heads PROVE CountIn(r, 0, heads) = 0
  <2>1. {q \in 1..0 : r[q].head \in heads} = {}
    OBVIOUS
  <2>2. QED
    BY <2>1, FS_EmptySet DEF CountIn
<1>2. QED
  BY <1>1 DEF DepthIn

-----------------------------------------------------------------------------
(* A line is read.                                                         *)

Grows(l) == /\ read \in Seq(LineRecords)
            /\ l \in LineRecords
            /\ read' = Append(read, l)

LEMMA ReadGrows ==
  ASSUME NEW l, Grows(l)
  PROVE  /\ Len(read) \in Nat
         /\ read' \in Seq(LineRecords) /\ Len(read') = Len(read) + 1
         /\ read'[Len(read) + 1] = l
         /\ \A p \in 1..Len(read) : read'[p] = read[p]
BY DEF Grows

(* What was read is what it was.                                           *)
LEMMA DepthIsKept ==
  ASSUME NEW l, Grows(l)
  PROVE  /\ \A p \in 0..Len(read) : OpenAfter(p) \in Int /\ OpenAfter(p)' = OpenAfter(p)
         /\ \A p \in Nat : p = Len(read) + 1 =>
              OpenAfter(p)' = OpenAfter(p - 1) + Change(l.head)
<1>1. ASSUME NEW p \in 0..Len(read)
      PROVE  OpenAfter(p) \in Int /\ OpenAfter(p)' = OpenAfter(p)
  <2>1. p \in Nat /\ \A q \in 1..p : read'[q] = read[q]
    BY ReadGrows
  <2>2. DepthIn(read', p) = DepthIn(read, p)
    BY <2>1, CountIsLocal DEF DepthIn
  <2>3. QED
    BY <2>1, <2>2, DepthIsOpenAfter, DepthStep
<1>2. ASSUME NEW p \in Nat, p = Len(read) + 1
      PROVE  OpenAfter(p)' = OpenAfter(p - 1) + Change(l.head)
  <2>1. p > 0 /\ p - 1 \in 0..Len(read) /\ read'[p] = l
    BY <1>2, ReadGrows
  <2>2. DepthIn(read', p) = DepthIn(read', p - 1) + Change(read'[p].head)
    BY <2>1, DepthStep
  <2>3. DepthIn(read', p - 1) = OpenAfter(p - 1)
    BY <1>1, <2>1, DepthIsOpenAfter
  <2>4. QED
    BY <2>1, <2>2, <2>3, DepthIsOpenAfter
<1>3. QED
  BY <1>1, <1>2

LEMMA DipIsKept ==
  ASSUME NEW l, Grows(l), NEW q \in 1..Len(read)
  PROVE  Dip(q)' = Dip(q)
<1>1. /\ read'[q] = read[q]
      /\ OpenAfter(q)' = OpenAfter(q) /\ OpenAfter(q - 1)' = OpenAfter(q - 1)
  BY ReadGrows, DepthIsKept
<1>2. QED
  BY <1>1 DEF Dip

LEMMA EnclosesIsKept ==
  ASSUME NEW l, Grows(l), NEW p \in 1..(Len(read) + 1), NEW w \in 1..(p - 1)
  PROVE  Encloses(w, p)' <=> Encloses(w, p)
<1>1. w \in 1..Len(read) /\ w < p
  BY ReadGrows
<1>2. /\ read'[w] = read[w] /\ OpenAfter(w)' = OpenAfter(w)
      /\ \A q \in w..(p - 1) : OpenAfter(q)' = OpenAfter(q)
  BY <1>1, ReadGrows, DepthIsKept
<1>3. QED
  BY <1>1, <1>2 DEF Encloses

LEMMA LoopIsKept ==
  ASSUME NEW l, Grows(l), NEW p \in 1..(Len(read) + 1)
  PROVE  InLoop(p)' <=> InLoop(p)
<1>1. \A w \in 1..(p - 1) : read'[w] = read[w] /\ (Encloses(w, p)' <=> Encloses(w, p))
  BY EnclosesIsKept, ReadGrows
<1>2. QED
  BY <1>1 DEF InLoop

LEMMA BindingIsKept ==
  ASSUME NEW l, Grows(l), NEW p \in 1..(Len(read) + 1), NEW n
  PROVE  Bound(n, p)' <=> Bound(n, p)
<1>1. \A d \in 1..(p - 1) :
         /\ read'[d] = read[d] /\ (Encloses(d, p)' <=> Encloses(d, p))
         /\ OpenAfter(d)' = OpenAfter(d)
         /\ \A q \in (d + 1)..(p - 1) : Dip(q)' = Dip(q)
  BY EnclosesIsKept, ReadGrows, DepthIsKept, DipIsKept
<1>2. QED
  BY <1>1 DEF Bound

LEMMA ClosingIsKept ==
  ASSUME NEW l, Grows(l), NEW p \in 1..Len(read)
  PROVE  ClosesItsKind(p)' <=> ClosesItsKind(p)
<1>1. \A w \in 1..(p - 1) : Encloses(w, p)' <=> Encloses(w, p)
  <2>1. p \in 1..(Len(read) + 1)
    BY ReadGrows
  <2>2. QED
    BY <2>1, EnclosesIsKept
<1>2. read'[p] = read[p] /\ OpenAfter(p - 1)' = OpenAfter(p - 1)
  BY ReadGrows, DepthIsKept
<1>3. \A q \in 1..(p - 1) : read'[q] = read[q] /\ OpenAfter(q)' = OpenAfter(q)
  BY ReadGrows, DepthIsKept
<1>4. QED
  BY <1>1, <1>2, <1>3 DEF ClosesItsKind

LEMMA PastIsKept ==
  ASSUME NEW l, Grows(l), NEW p \in 1..Len(read)
  PROVE  LineIsRight(p)' <=> LineIsRight(p)
<1>1. /\ read'[p] = read[p] /\ OpenAfter(p)' = OpenAfter(p)
      /\ (InLoop(p)' <=> InLoop(p)) /\ (ClosesItsKind(p)' <=> ClosesItsKind(p))
      /\ \A n : Bound(n, p)' <=> Bound(n, p)
  BY ReadGrows, DepthIsKept, LoopIsKept, ClosingIsKept, BindingIsKept
<1>2. QED
  BY <1>1 DEF LineIsRight

-----------------------------------------------------------------------------
(* The stack between two lines says what the text says.                    *)

Between == TextInv /\ outcome = "running"

LEMMA BetweenFacts ==
  ASSUME Between
  PROVE  /\ read \in Seq(LineRecords) /\ Len(read) \in Nat
         /\ stack \in Seq(Frames) /\ Len(stack) \in Nat /\ Len(stack) > 0
         /\ \A i \in 1..Len(stack) : stack[i] \in Frames
         /\ BlocksAreOpen /\ TablesAreRight /\ Control
         /\ Taken = 1..Len(read)
         /\ \A p \in 1..Len(read) : LineIsRight(p)
         /\ \A p \in 0..Len(read) : OpenAfter(p) \in Int /\ OpenAfter(p) >= 0
<1>1. /\ read \in Seq(LineRecords) /\ Len(read) \in Nat
      /\ stack \in Seq(Frames) /\ Len(stack) \in Nat /\ Len(stack) > 0
      /\ \A i \in 1..Len(stack) : stack[i] \in Frames
      /\ BlocksAreOpen /\ TablesAreRight /\ Control
  BY TopIsFrame DEF Between, TextInv, IInv, TypeOK
<1>2. Taken = 1..Len(read)
  BY DEF Between, Taken, Failures
<1>3. \A p \in 1..Len(read) : LineIsRight(p)
  BY <1>2 DEF Between, TextInv
<1>4. ASSUME NEW p \in 0..Len(read)
      PROVE  OpenAfter(p) \in Int /\ OpenAfter(p) >= 0
  <2>1. p \in Nat /\ OpenAfter(p) \in Int
    BY <1>1, OpenAfterStep
  <2>2. CASE p = 0
    BY <2>1, <2>2, EmptyText, DepthIsOpenAfter
  <2>3. CASE p # 0
    BY <1>3, <2>1, <2>3 DEF LineIsRight
  <2>4. QED
    BY <2>2, <2>3
<1>5. QED
  BY <1>1, <1>2, <1>3, <1>4

StaysOpen(w) == read[w].head \in Openers
                /\ \A q \in w..Len(read) : OpenAfter(q) >= OpenAfter(w)

LEMMA BlockBegins ==
  ASSUME NEW w \in Nat, w > 0, StaysOpen(w)
  PROVE  /\ OpenAfter(w) = OpenAfter(w - 1) + 1
         /\ OpenAfter(w) \in Int /\ OpenAfter(w - 1) \in Int
<1>1. w - 1 \in Nat /\ Change(read[w].head) = 1
  BY DEF StaysOpen, Change
<1>2. QED
  BY <1>1, OpenAfterStep

(* Two lines that opened blocks of one depth: the first was closed before. *)
LEMMA OpenersDiffer ==
  ASSUME Between, NEW v \in 1..Len(read), NEW w \in 1..Len(read),
         StaysOpen(v), StaysOpen(w), OpenAfter(v) = OpenAfter(w)
  PROVE  v = w
<1>1. ASSUME NEW a \in 1..Len(read), NEW b \in 1..Len(read), a < b,
             StaysOpen(a), StaysOpen(b), OpenAfter(a) = OpenAfter(b)
      PROVE  FALSE
  <2>1. b \in Nat /\ b > 0 /\ b - 1 \in a..Len(read)
    BY <1>1, BetweenFacts
  <2>2. OpenAfter(b) = OpenAfter(b - 1) + 1 /\ OpenAfter(b - 1) \in Int
    BY <1>1, <2>1, BlockBegins
  <2>3. OpenAfter(b - 1) >= OpenAfter(a)
    BY <1>1, <2>1 DEF StaysOpen
  <2>4. QED
    BY <1>1, <2>2, <2>3
<1>2. ~(v < w) /\ ~(w < v)
  BY <1>1
<1>3. QED
  BY <1>2, BetweenFacts

LEMMA OpenersAreOpen ==
  ASSUME Between, NEW i \in 2..Len(stack), NEW w \in 1..Len(read), Opener(w, i)
  PROVE  StaysOpen(w) /\ OpenAfter(w) = i - 1 /\ read[w].head = OpenedBy(stack[i].kind)
<1>1. /\ read[w].head = OpenedBy(stack[i].kind) /\ OpenAfter(w) = i - 1
      /\ \A q \in w..Len(read) : OpenAfter(q) >= i - 1
  BY DEF Opener, Opens
<1>2. i \in 1..Len(stack) /\ i # 1
  BY BetweenFacts
<1>3. stack[i].kind \in {"func", "entry", "while", "if", "else"}
  <2>1. stack[i] \in Frames /\ stack[i].kind # "root"
    BY <1>2, BetweenFacts DEF Control, NestingIsLegal
  <2>2. QED
    BY <2>1 DEF Frames
<1>4. read[w].head \in Openers
  BY <1>1, <1>3 DEF OpenedBy, Openers
<1>5. QED
  BY <1>1, <1>4 DEF StaysOpen

(* A block that is open in the text has its frame.                         *)
LEMMA FrameOfBlock ==
  ASSUME Between, NEW w \in 1..Len(read), StaysOpen(w)
  PROVE  OpenAfter(w) + 1 \in 2..Len(stack) /\ Opener(w, OpenAfter(w) + 1)
<1>1. w \in Nat /\ w > 0 /\ w - 1 \in 0..Len(read) /\ w \in 0..Len(read)
      /\ Len(read) \in w..Len(read) /\ Len(read) \in 0..Len(read)
  BY BetweenFacts
<1>2. OpenAfter(w) = OpenAfter(w - 1) + 1 /\ OpenAfter(w - 1) >= 0 /\ OpenAfter(w) \in Int
      /\ OpenAfter(w - 1) \in Int
  BY <1>1, BlockBegins, BetweenFacts
<1>3. OpenAfter(Len(read)) >= OpenAfter(w) /\ OpenAfter(Len(read)) = Len(stack) - 1
  BY <1>1, BetweenFacts DEF StaysOpen, BlocksAreOpen
<1>4. PICK i : i = OpenAfter(w) + 1
  OBVIOUS
<1>5. i \in 2..Len(stack)
  BY <1>2, <1>3, <1>4, BetweenFacts
<1>6. PICK v \in 1..Len(read) : Opener(v, i)
  BY <1>5, BetweenFacts DEF BlocksAreOpen
<1>7. v = w
  <2>1. StaysOpen(v) /\ OpenAfter(v) = i - 1
    BY <1>5, <1>6, OpenersAreOpen
  <2>2. OpenAfter(v) = OpenAfter(w)
    BY <1>2, <1>4, <2>1
  <2>3. QED
    BY <2>1, <2>2, OpenersDiffer
<1>8. QED
  BY <1>4, <1>5, <1>6, <1>7

(* A line encloses the next one if its block is open.                      *)
LEMMA EnclosesNext ==
  ASSUME Between, NEW n, n = Len(read) + 1, NEW w \in 1..Len(read)
  PROVE  Encloses(w, n) <=> StaysOpen(w)
BY BetweenFacts DEF Encloses, StaysOpen

(* prs->inBreakableBody: the next line is in a while.                      *)
LEMMA FlagSaysInLoop ==
  ASSUME Between, NEW n, n = Len(read) + 1
  PROVE  breakable <=> InLoop(n)
<1>1. 1..(n - 1) = 1..Len(read)
  BY BetweenFacts
<1>2. breakable <=> \E i \in 1..Len(stack) : stack[i].kind = "while"
  BY BetweenFacts DEF Control, BreakableIffInWhile
<1>3. ASSUME NEW i \in 1..Len(stack), stack[i].kind = "while"
      PROVE  InLoop(n)
  <2>1. i # 1 /\ i \in 2..Len(stack)
    BY <1>3, BetweenFacts DEF Control, NestingIsLegal
  <2>2. PICK w \in 1..Len(read) : Opener(w, i)
    BY <2>1, BetweenFacts DEF BlocksAreOpen
  <2>3. StaysOpen(w) /\ read[w].head = "while"
    BY <1>3, <2>1, <2>2, OpenersAreOpen DEF OpenedBy
  <2>4. QED
    BY <1>1, <2>2, <2>3, EnclosesNext DEF InLoop
<1>4. ASSUME NEW w \in 1..Len(read), read[w].head = "while", Encloses(w, n)
      PROVE  \E i \in 1..Len(stack) : stack[i].kind = "while"
  <2>1. StaysOpen(w)
    BY <1>4, EnclosesNext
  <2>2. PICK i \in 2..Len(stack) : Opener(w, i)
    BY <2>1, FrameOfBlock
  <2>3. read[w].head = OpenedBy(stack[i].kind) /\ i \in 1..Len(stack)
    BY <2>2, OpenersAreOpen
  <2>4. stack[i].kind = "while"
    BY <1>4, <2>3 DEF OpenedBy
  <2>5. QED
    BY <2>3, <2>4
<1>5. InLoop(n) <=> \E w \in 1..Len(read) : read[w].head = "while" /\ Encloses(w, n)
  BY <1>1 DEF InLoop
<1>6. QED
  BY <1>2, <1>3, <1>4, <1>5

(* A block that declares a name and is open has not dipped out of sight.   *)
LEMMA DipIsLow ==
  ASSUME NEW q \in Nat, q > 0
  PROVE  Dip(q) \in Int /\ Dip(q) <= OpenAfter(q)
<1>1. q - 1 \in Nat /\ OpenAfter(q) \in Int /\ OpenAfter(q - 1) \in Int
  BY OpenAfterStep
<1>2. QED
  BY <1>1 DEF Dip

LEMMA FrameOfDeclaration ==
  ASSUME Between, NEW d \in 1..Len(read), \A q \in (d + 1)..Len(read) : Dip(q) >= OpenAfter(d)
  PROVE  OpenAfter(d) + 1 \in 1..Len(stack)
<1>1. d \in 0..Len(read) /\ Len(read) \in 0..Len(read)
  BY BetweenFacts
<1>2. OpenAfter(d) \in Int /\ OpenAfter(d) >= 0 /\ OpenAfter(Len(read)) \in Int
      /\ OpenAfter(Len(read)) = Len(stack) - 1
  BY <1>1, BetweenFacts DEF BlocksAreOpen
<1>3. OpenAfter(d) <= OpenAfter(Len(read))
  <2>1. CASE d = Len(read)
    BY <1>2, <2>1
  <2>2. CASE d # Len(read)
    <3>1. Len(read) \in (d + 1)..Len(read) /\ Len(read) \in Nat /\ Len(read) > 0
      BY <2>2, BetweenFacts
    <3>2. Dip(Len(read)) <= OpenAfter(Len(read)) /\ Dip(Len(read)) \in Int
      BY <3>1, DipIsLow
    <3>3. QED
      BY <1>2, <3>1, <3>2
  <2>3. QED
    BY <2>1, <2>2
<1>4. QED
  BY <1>2, <1>3, BetweenFacts

(* pnode_symbolType: a name is found if the text binds it.                 *)
LEMMA VisibleIsBound ==
  ASSUME Between, NEW n, n = Len(read) + 1, NEW m \in Names
  PROVE  m \in Visible <=> Bound(m, n)
<1>1. 1..(n - 1) = 1..Len(read) /\ n - 1 = Len(read)
  BY BetweenFacts
<1>2. m # NoId
  BY StmtAssumption
<1>3. m \in Visible <=> \E i \in 1..Len(stack) : m \in stack[i].names \/ m \in stack[i].sees
  BY DEF Visible
<1>4. ASSUME NEW i \in 1..Len(stack), m \in stack[i].names
      PROVE  Bound(m, n)
  <2>1. Declared(m, i)
    BY <1>4, BetweenFacts DEF TablesAreRight
  <2>2. QED
    BY <1>1, <2>1 DEF Declared, Bound
<1>5. ASSUME NEW i \in 1..Len(stack), m \in stack[i].sees
      PROVE  Bound(m, n)
  <2>1. CASE i = 1
    <3>1. m \in FuncNames
      BY <1>5, <2>1, BetweenFacts DEF TablesAreRight
    <3>2. QED
      BY <1>1, <3>1 DEF FuncNames, Bound
  <2>2. CASE i # 1
    <3>1. i \in 2..Len(stack)
      BY <2>2, BetweenFacts
    <3>2. stack[i].kind = "func"
      BY <1>5, <3>1, BetweenFacts DEF TablesAreRight
    <3>3. PICK w \in 1..Len(read) : Opener(w, i)
      BY <3>1, BetweenFacts DEF BlocksAreOpen
    <3>4. StaysOpen(w) /\ read[w].head = "func"
      BY <3>1, <3>2, <3>3, OpenersAreOpen DEF OpenedBy
    <3>5. Encloses(w, n)
      BY <3>3, <3>4, EnclosesNext
    <3>6. m = read[w].id \/ m \in read[w].uses
      BY <1>5, <3>2, <3>3 DEF Opener, Named
    <3>7. QED
      BY <1>1, <3>3, <3>4, <3>5, <3>6 DEF Bound
  <2>3. QED
    BY <2>1, <2>2
<1>6. ASSUME NEW d \in 1..Len(read), read[d].head = "mut", read[d].id = m,
             \A q \in (d + 1)..Len(read) : Dip(q) >= OpenAfter(d)
      PROVE  m \in Visible
  <2>1. PICK i \in 1..Len(stack) : i = OpenAfter(d) + 1
    BY <1>6, FrameOfDeclaration
  <2>2. OpenAfter(d) = i - 1
    <3>1. d \in Nat /\ OpenAfter(d) \in Int
      BY OpenAfterStep
    <3>2. QED
      BY <2>1, <3>1
  <2>3. Declared(m, i)
    BY <1>6, <2>2 DEF Declared
  <2>4. m \in stack[i].names
    BY <2>3, BetweenFacts DEF TablesAreRight
  <2>5. QED
    BY <1>3, <2>4
<1>7. ASSUME NEW d \in 1..Len(read), read[d].head = "func", read[d].id = m
      PROVE  m \in Visible
  <2>1. m \in FuncNames
    BY <1>2, <1>7 DEF FuncNames
  <2>2. CASE m \in stack[1].sees
    BY <1>3, <2>2, BetweenFacts
  <2>3. CASE Len(stack) > 1 /\ m \in Named(stack[2].id)
    <3>1. 2 \in 2..Len(stack) /\ 2 \in 1..Len(stack) /\ stack[2].id # NoId /\ stack[2].id = m
      BY <1>2, <2>3, BetweenFacts DEF Named
    <3>2. stack[2].kind = "func"
      BY <3>1, BetweenFacts DEF TablesAreRight
    <3>3. PICK w \in 1..Len(read) : Opener(w, 2)
      BY <3>1, BetweenFacts DEF BlocksAreOpen
    <3>4. m \in stack[2].sees
      BY <1>2, <3>1, <3>2, <3>3 DEF Opener, Named
    <3>5. QED
      BY <1>3, <3>1, <3>4
  <2>4. QED
    BY <2>1, <2>2, <2>3, BetweenFacts DEF TablesAreRight
<1>8. ASSUME NEW d \in 1..Len(read), read[d].head = "func", m \in read[d].uses, Encloses(d, n)
      PROVE  m \in Visible
  <2>1. StaysOpen(d)
    BY <1>8, EnclosesNext
  <2>2. PICK i \in 2..Len(stack) : Opener(d, i)
    BY <2>1, FrameOfBlock
  <2>3. read[d].head = OpenedBy(stack[i].kind) /\ i \in 1..Len(stack)
    BY <2>2, OpenersAreOpen
  <2>4. stack[i].kind = "func"
    BY <1>8, <2>3 DEF OpenedBy
  <2>5. m \in stack[i].sees
    BY <1>8, <2>2, <2>4 DEF Opener
  <2>6. QED
    BY <1>3, <2>3, <2>5
<1>9. Bound(m, n) => m \in Visible
  BY <1>1, <1>6, <1>7, <1>8 DEF Bound
<1>10. QED
  BY <1>3, <1>4, <1>5, <1>9

-----------------------------------------------------------------------------
(* The line that was just read, at n.                                      *)

Reads(l, n) == Between /\ Grows(l) /\ n = Len(read) + 1

LEMMA ReadsFacts ==
  ASSUME NEW l, NEW n, Reads(l, n)
  PROVE  /\ n \in Nat /\ n > 0 /\ n - 1 = Len(read) /\ Len(read) \in Nat /\ Len(read') = n
         /\ read'[n] = l
         /\ \A p \in 1..Len(read) : read'[p] = read[p] /\ OpenAfter(p)' = OpenAfter(p)
         /\ n \in 1..(Len(read) + 1)
         /\ OpenAfter(n - 1) = Len(stack) - 1 /\ OpenAfter(n - 1)' = OpenAfter(n - 1)
         /\ OpenAfter(n)' = Len(stack) - 1 + Change(l.head)
         /\ \A p \in 0..Len(read) : OpenAfter(p) \in Int /\ OpenAfter(p)' = OpenAfter(p)
<1>1. Between /\ Grows(l) /\ n = Len(read) + 1
  BY DEF Reads
<1>2. Len(read) \in Nat /\ OpenAfter(Len(read)) = Len(stack) - 1
  BY <1>1, BetweenFacts DEF BlocksAreOpen
<1>3. n \in Nat /\ n > 0 /\ n - 1 = Len(read) /\ n - 1 \in 0..Len(read)
      /\ n \in 1..(Len(read) + 1)
  BY <1>1, <1>2
<1>4. /\ Len(read') = n /\ read'[n] = l /\ \A p \in 1..Len(read) : read'[p] = read[p]
  BY <1>1, ReadGrows
<1>5. /\ \A p \in 0..Len(read) : OpenAfter(p) \in Int /\ OpenAfter(p)' = OpenAfter(p)
      /\ OpenAfter(n)' = OpenAfter(n - 1) + Change(l.head)
  BY <1>1, <1>3, DepthIsKept
<1>6. \A p \in 1..Len(read) : p \in 0..Len(read)
  BY <1>2
<1>7. QED
  BY <1>2, <1>3, <1>4, <1>5, <1>6

LEMMA DipNow ==
  ASSUME NEW l, NEW n, Reads(l, n)
  PROVE  Dip(n)' = IF l.head \in Closers \cup {"else"} THEN Len(stack) - 2 ELSE Len(stack) - 1
<1>1. Len(stack) \in Nat
  BY BetweenFacts DEF Reads
<1>2. /\ read'[n] = l /\ OpenAfter(n - 1)' = Len(stack) - 1
      /\ OpenAfter(n)' = Len(stack) - 1 + Change(l.head)
  BY ReadsFacts
<1>3. /\ l.head = "else" => l.head \notin Openers /\ l.head \notin Closers
      /\ l.head \in Openers => l.head \notin Closers
  BY DEF Openers, Closers
<1>4. QED
  BY <1>1, <1>2, <1>3 DEF Dip, Change

(* What the line does to the declarations of a block.                      *)
LEMMA DeclaredNow ==
  ASSUME NEW l, NEW n, Reads(l, n), NEW m, NEW i \in Nat
  PROVE  Declared(m, i)' <=> \/ Declared(m, i) /\ Dip(n)' >= i - 1
                             \/ /\ l.head = "mut" /\ l.id = m
                                /\ OpenAfter(n)' = i - 1
<1>1. /\ n \in Nat /\ n > 0 /\ Len(read') = n /\ Len(read) = n - 1 /\ read'[n] = l
      /\ \A p \in 1..Len(read) : read'[p] = read[p] /\ OpenAfter(p)' = OpenAfter(p)
  BY ReadsFacts
<1>2. \A q \in 1..Len(read) : Dip(q)' = Dip(q)
  BY DipIsKept DEF Reads
<1>3. ASSUME NEW d \in 1..Len(read)
      PROVE  (\A q \in (d + 1)..n : Dip(q)' >= i - 1) <=>
               /\ \A q \in (d + 1)..Len(read) : Dip(q) >= i - 1
               /\ Dip(n)' >= i - 1
  <2>1. (d + 1)..n = ((d + 1)..Len(read)) \cup {n}
    BY <1>1
  <2>2. QED
    BY <1>2, <2>1
<1>4. Declared(m, i)' <=>
        \E d \in 1..n : /\ read'[d].head = "mut" /\ read'[d].id = m
                        /\ OpenAfter(d)' = i - 1
                        /\ \A q \in (d + 1)..n : Dip(q)' >= i - 1
  BY <1>1 DEF Declared
<1>5. (n + 1)..n = {}
  BY <1>1
<1>6. 1..n = (1..Len(read)) \cup {n}
  BY <1>1
<1>7. Declared(m, i) <=>
        \E d \in 1..Len(read) : /\ read[d].head = "mut" /\ read[d].id = m
                                /\ OpenAfter(d) = i - 1
                                /\ \A q \in (d + 1)..Len(read) : Dip(q) >= i - 1
  BY DEF Declared
<1>8. (\E d \in 1..Len(read) :
         /\ read'[d].head = "mut" /\ read'[d].id = m
         /\ OpenAfter(d)' = i - 1
         /\ \A q \in (d + 1)..n : Dip(q)' >= i - 1)
      <=> Declared(m, i) /\ Dip(n)' >= i - 1
  BY <1>1, <1>3, <1>7
<1>9. (/\ read'[n].head = "mut" /\ read'[n].id = m
       /\ OpenAfter(n)' = i - 1
       /\ \A q \in (n + 1)..n : Dip(q)' >= i - 1)
      <=> /\ l.head = "mut" /\ l.id = m /\ OpenAfter(n)' = i - 1
  BY <1>1, <1>5
<1>10. QED
  BY <1>4, <1>6, <1>8, <1>9

(* A frame of a line read before.                                          *)
LEMMA OpenerIsKept ==
  ASSUME NEW l, NEW n, Reads(l, n), NEW i \in 2..Len(stack), NEW w \in 1..Len(read),
         Opener(w, i), OpenAfter(n)' >= i - 1,
         OpenedBy(stack'[i].kind) = OpenedBy(stack[i].kind),
         stack'[i].kind = "if" => /\ stack[i].kind = "if"
                                  /\ l.head = "else" => OpenAfter(n)' > i - 1,
         stack'[i].kind = "func" => /\ stack[i].kind = "func"
                                    /\ stack'[i].sees = stack[i].sees
                                    /\ stack'[i].id = stack[i].id
  PROVE  w \in 1..Len(read') /\ Opener(w, i)'
<1>1. /\ n \in Nat /\ n > 0 /\ Len(read') = n /\ Len(read) = n - 1 /\ read'[n] = l
      /\ \A p \in 1..Len(read) : read'[p] = read[p] /\ OpenAfter(p)' = OpenAfter(p)
  BY ReadsFacts
<1>2. w \in 1..Len(read') /\ w..n = (w..Len(read)) \cup {n}
      /\ (w + 1)..n = ((w + 1)..Len(read)) \cup {n}
  BY <1>1
<1>3. \A q \in w..Len(read) : OpenAfter(q)' = OpenAfter(q) /\ read'[q] = read[q]
  BY <1>1
<1>4. read'[w] = read[w] /\ OpenAfter(w)' = OpenAfter(w)
  BY <1>1
<1>5. Opens(w, i) /\ OpenAfter(w) = i - 1
  BY DEF Opener, Opens
<1>6. Opens(w, i)'
  BY <1>1, <1>2, <1>3, <1>4, <1>5 DEF Opens
<1>7. ASSUME stack'[i].kind = "if"
      PROVE  NoElseSince(w)'
  <2>1. NoElseSince(w)
    BY <1>7 DEF Opener
  <2>2. ASSUME NEW q \in (w + 1)..Len(read), read'[q].head = "else"
        PROVE  OpenAfter(q)' > OpenAfter(w)'
    <3>1. q \in w..Len(read)
      OBVIOUS
    <3>2. QED
      BY <1>3, <1>4, <2>1, <2>2, <3>1 DEF NoElseSince
  <2>3. read'[n].head = "else" => OpenAfter(n)' > OpenAfter(w)'
    BY <1>1, <1>4, <1>5, <1>7
  <2>4. QED
    BY <1>1, <1>2, <2>2, <2>3 DEF NoElseSince
<1>8. stack'[i].kind = "func" => /\ stack'[i].sees = read'[w].uses \cup Named(read'[w].id)
                                 /\ stack'[i].id = read'[w].id
  BY <1>4 DEF Opener
<1>9. QED
  BY <1>2, <1>6, <1>7, <1>8 DEF Opener

LEMMA FuncNamesNow ==
  ASSUME NEW l, NEW n, Reads(l, n)
  PROVE  FuncNames' = FuncNames \cup (IF l.head = "func" THEN Named(l.id) ELSE {})
<1>1. /\ n \in Nat /\ n > 0 /\ Len(read') = n /\ Len(read) = n - 1 /\ read'[n] = l
      /\ \A p \in 1..Len(read) : read'[p] = read[p]
  BY ReadsFacts
<1>2. 1..n = (1..Len(read)) \cup {n}
  BY <1>1
<1>3. \A x : x \in FuncNames' <=>
               x # NoId /\ \E d \in 1..n : read'[d].head = "func" /\ x = read'[d].id
  BY <1>1 DEF FuncNames
<1>4. \A x : x \in FuncNames <=>
               x # NoId /\ \E d \in 1..Len(read) : read[d].head = "func" /\ x = read[d].id
  BY DEF FuncNames
<1>5. \A x : x \in Named(l.id) <=> x # NoId /\ x = l.id
  BY DEF Named
<1>6. \A x : x \in FuncNames' <=>
               x \in FuncNames \cup (IF l.head = "func" THEN Named(l.id) ELSE {})
  BY <1>1, <1>2, <1>3, <1>4, <1>5
<1>7. QED
  BY <1>6

-----------------------------------------------------------------------------
(* A line that is taken is right.                                          *)

LEMMA ClosingFindsItsBlock ==
  ASSUME NEW l, NEW n, Reads(l, n), Len(stack) > 1,
         IF l.head = "else" THEN Top.kind = "if"
                            ELSE l.head = Closer[OpenedBy(Top.kind)]
  PROVE  ClosesItsKind(n)'
<1> DEFINE k == Len(stack)
<1>1. Between /\ n = Len(read) + 1
  BY DEF Reads
<1>2. k \in 2..Len(stack)
  BY <1>1, BetweenFacts
<1>3. PICK w \in 1..Len(read) : Opener(w, k)
  BY <1>1, <1>2, BetweenFacts DEF BlocksAreOpen
<1>4. /\ StaysOpen(w) /\ OpenAfter(w) = k - 1
      /\ read[w].head = OpenedBy(Top.kind)
  BY <1>1, <1>2, <1>3, OpenersAreOpen DEF Top
<1>5. Encloses(w, n)'
  <2>1. Encloses(w, n)
    BY <1>1, <1>4, EnclosesNext
  <2>2. w \in 1..(n - 1) /\ n \in 1..(Len(read) + 1)
    BY ReadsFacts
  <2>3. QED
    BY <2>1, <2>2, EnclosesIsKept DEF Reads
<1>6. /\ w \in 1..(n - 1) /\ read'[w] = read[w] /\ read'[n] = l
      /\ OpenAfter(w)' = k - 1 /\ OpenAfter(n - 1)' = k - 1
  BY <1>4, ReadsFacts
<1>7. CASE l.head = "else"
  <2>1. read'[w].head = "if" /\ NoElseSince(w)
    BY <1>3, <1>4, <1>6, <1>7 DEF Opener, OpenedBy, Top
  <2>2. \A q \in (w + 1)..(n - 1) :
           read'[q].head = "else" => OpenAfter(q)' > OpenAfter(w)'
    <3>1. n - 1 = Len(read) /\ OpenAfter(w)' = OpenAfter(w)
      BY ReadsFacts
    <3>2. \A q \in (w + 1)..(n - 1) : read'[q] = read[q] /\ OpenAfter(q)' = OpenAfter(q)
      BY <3>1, ReadsFacts
    <3>3. QED
      BY <2>1, <3>1, <3>2 DEF NoElseSince
  <2>3. QED
    BY <1>5, <1>6, <1>7, <2>1, <2>2 DEF ClosesItsKind
<1>8. CASE l.head # "else"
  <2>1. read'[n].head = Closer[read'[w].head]
    BY <1>4, <1>6, <1>8
  <2>2. QED
    BY <1>5, <1>6, <1>8, <2>1 DEF ClosesItsKind
<1>9. QED
  BY <1>7, <1>8

LEMMA TakenLineIsRight ==
  ASSUME NEW l, NEW n, Reads(l, n),
         l.head = "break" => breakable,
         l.head # "func" => l.uses \subseteq Visible,
         l.head \in {"func", "entry"} => Len(stack) = 1,
         l.head \in Closers \cup {"else"} =>
           /\ Len(stack) > 1
           /\ IF l.head = "else" THEN Top.kind = "if"
                                 ELSE l.head = Closer[OpenedBy(Top.kind)]
  PROVE  LineIsRight(n)'
<1>1. Between /\ Grows(l) /\ n = Len(read) + 1
  BY DEF Reads
<1>2. n \in 1..(Len(read) + 1) /\ read'[n] = l
  BY ReadsFacts
<1>3. l.head = "break" => InLoop(n)'
  BY <1>1, <1>2, FlagSaysInLoop, LoopIsKept
<1>4. ASSUME l.head # "func", NEW m \in l.uses
      PROVE  Bound(m, n)'
  <2>1. m \in Names
    BY <1>1, <1>4 DEF Grows, LineRecords
  <2>2. Bound(m, n)
    BY <1>1, <1>4, <2>1, VisibleIsBound
  <2>3. QED
    BY <1>1, <1>2, <2>2, BindingIsKept
<1>5. /\ OpenAfter(n)' >= 0
      /\ l.head \in {"func", "entry"} => OpenAfter(n)' = 1
  <2>1. Len(stack) \in Nat /\ Len(stack) > 0 /\ (l.head \in Closers => Len(stack) > 1)
    BY <1>1, BetweenFacts
  <2>2. OpenAfter(n)' = Len(stack) - 1 + Change(l.head)
    BY ReadsFacts
  <2>3. l.head \in {"func", "entry"} => l.head \in Openers
    BY DEF Openers
  <2>4. /\ Change(l.head) \in {-1, 0, 1}
        /\ Change(l.head) = -1 => l.head \in Closers
        /\ l.head \in {"func", "entry"} => Change(l.head) = 1
    BY <2>3 DEF Change
  <2>5. PICK c \in {-1, 0, 1}, k \in Nat : c = Change(l.head) /\ k = Len(stack)
    BY <2>1, <2>4
  <2>6. /\ OpenAfter(n)' = k - 1 + c /\ k > 0 /\ (c = -1 => k > 1)
        /\ l.head \in {"func", "entry"} => k = 1 /\ c = 1
    BY <2>1, <2>2, <2>4, <2>5
  <2>7. QED
    BY <2>6
<1>6. l.head \in Closers \cup {"else"} => ClosesItsKind(n)'
  BY ClosingFindsItsBlock
<1>7. QED
  BY <1>2, <1>3, <1>4, <1>5, <1>6 DEF LineIsRight

(* The invariant after a line that was taken, and after one that was not.  *)
LEMMA TextInvAfterTaken ==
  ASSUME NEW l, NEW n, Reads(l, n), LineIsRight(n)', IInv', outcome' = outcome,
         BlocksAreOpen', TablesAreRight'
  PROVE  TextInv'
<1>1. Between /\ Grows(l) /\ outcome' = "running"
  BY DEF Reads, Between
<1>2. Len(read') = n /\ 1..n = (1..Len(read)) \cup {n}
  BY ReadsFacts
<1>3. \A p \in 1..Len(read) : LineIsRight(p)'
  BY <1>1, BetweenFacts, PastIsKept
<1>4. Taken' = 1..n
  BY <1>1, <1>2 DEF Taken, Failures
<1>5. \A p \in Taken' : LineIsRight(p)'
  BY <1>2, <1>3, <1>4
<1>6. QED
  BY <1>1, <1>5 DEF TextInv

LEMMA TextInvAfterFailure ==
  ASSUME NEW l, NEW n, Reads(l, n), IInv', outcome' \in Failures,
         outcome' = "notBreakable" => ~breakable,
         outcome' = "undefined" => ~(l.uses \subseteq Visible)
  PROVE  TextInv'
<1>1. Between /\ Grows(l) /\ n = Len(read) + 1
  BY DEF Reads
<1>2. Len(read') = n /\ n - 1 = Len(read) /\ read'[n] = l /\ n \in 1..(Len(read) + 1)
  BY ReadsFacts
<1>3. \A p \in 1..Len(read) : LineIsRight(p)'
  BY <1>1, BetweenFacts, PastIsKept
<1>4. \A p \in Taken' : LineIsRight(p)'
  BY <1>2, <1>3 DEF Taken
<1>5. outcome' = "notBreakable" => ~InLoop(n)'
  BY <1>1, <1>2, FlagSaysInLoop, LoopIsKept
<1>6. outcome' = "undefined" => \E m \in l.uses : ~Bound(m, n)'
  <2>1. SUFFICES ASSUME NEW m \in l.uses, m \notin Visible
                 PROVE  ~Bound(m, n)'
    OBVIOUS
  <2>2. m \in Names
    BY <1>1, <2>1 DEF Grows, LineRecords
  <2>3. QED
    BY <1>1, <1>2, <2>1, <2>2, VisibleIsBound, BindingIsKept
<1>7. outcome' = "notBreakable" => ~InLoop(Len(read))'
  BY <1>2, <1>5 DEF InLoop
<1>8. outcome' = "undefined" => \E m \in read'[Len(read')].uses : ~Bound(m, Len(read))'
  BY <1>2, <1>6 DEF Bound
<1>9. outcome' \notin {"running", "accepted"}
  BY DEF Failures
<1>10. QED
  BY <1>4, <1>7, <1>8, <1>9 DEF TextInv

-----------------------------------------------------------------------------
(* The ways the stack changes, and what they owe the text.                 *)

(* Push: the line begins a construct.                                      *)
LEMMA EnteringKeepsText ==
  ASSUME NEW l, NEW n, Reads(l, n), NEW fr \in Frames,
         stack' = Push(fr), l.head \in Openers,
         fr.kind = l.head, fr.names = {},
         fr.kind = "func" <=> l.head = "func",
         fr.kind = "func" => fr.id = l.id /\ fr.sees = l.uses \cup Named(l.id)
                             /\ Len(stack) = 1,
         fr.kind # "func" => fr.id = NoId /\ fr.sees = {}
  PROVE  BlocksAreOpen' /\ TablesAreRight'
<1>1. PICK k \in Nat : k = Len(stack)
  BY BetweenFacts DEF Reads
<1>2. /\ Between /\ stack \in Seq(Frames) /\ k > 0
      /\ \A i \in 1..k : stack[i] \in Frames
      /\ BlocksAreOpen /\ TablesAreRight
  BY <1>1, BetweenFacts DEF Reads
<1>3. /\ stack' \in Seq(Frames) /\ Len(stack') = k + 1 /\ stack'[k + 1] = fr
      /\ \A i \in 1..k : stack'[i] = stack[i]
  BY <1>1, <1>2, PushedStack
<1>4. /\ OpenAfter(n)' = k /\ Dip(n)' = k - 1 /\ read'[n] = l /\ Len(read') = n /\ n \in Nat /\ n > 0
  <2>1. Change(l.head) = 1 /\ l.head \notin Closers \cup {"else"}
    BY DEF Change, Openers, Closers
  <2>2. OpenAfter(n)' = k - 1 + 1
    BY <1>1, <2>1, ReadsFacts
  <2>3. QED
    BY <1>1, <2>1, <2>2, ReadsFacts, DipNow
<1>5. l.head # "mut" /\ l.head # "else"
  BY DEF Openers
<1>6. ASSUME NEW i \in 2..(k + 1)
      PROVE  \E w \in 1..Len(read') : Opener(w, i)'
  <2>1. CASE i = k + 1
    <3>1. Opens(n, i)'
      <4>1. stack'[i].kind = l.head /\ OpenedBy(stack'[i].kind) = l.head
        BY <1>3, <2>1, <1>5 DEF OpenedBy
      <4>2. \A q \in n..n : OpenAfter(q)' >= i - 1
        BY <1>4, <2>1
      <4>3. QED
        BY <1>4, <2>1, <4>1, <4>2 DEF Opens
    <3>2. NoElseSince(n)'
      BY <1>4 DEF NoElseSince
    <3>3. Opener(n, i)'
      BY <1>3, <1>4, <2>1, <3>1, <3>2 DEF Opener
    <3>4. QED
      BY <1>4, <3>3
  <2>2. CASE i # k + 1
    <3>1. i \in 2..k /\ i \in 1..k /\ stack'[i] = stack[i]
      BY <1>3, <2>2
    <3>2. PICK w \in 1..Len(read) : Opener(w, i)
      BY <1>1, <1>2, <3>1 DEF BlocksAreOpen
    <3>3. OpenAfter(n)' >= i - 1
      BY <1>4, <3>1
    <3>4. i \in 2..Len(stack)
      BY <1>1, <3>1
    <3>5. QED
      BY <1>5, <3>1, <3>2, <3>3, <3>4, OpenerIsKept
  <2>3. QED
    BY <2>1, <2>2
<1>7. BlocksAreOpen'
  BY <1>3, <1>4, <1>6 DEF BlocksAreOpen
<1>8. ASSUME NEW i \in 1..(k + 1)
      PROVE  stack'[i].names = {m \in Names : Declared(m, i)'}
  <2>1. i \in Nat
    OBVIOUS
  <2>2. \A m \in Names : Declared(m, i)' <=> Declared(m, i) /\ k - 1 >= i - 1
    BY <1>4, <1>5, <2>1, DeclaredNow
  <2>3. CASE i = k + 1
    <3>1. {m \in Names : Declared(m, i)'} = {}
      BY <2>2, <2>3
    <3>2. QED
      BY <1>3, <2>3, <3>1
  <2>4. CASE i # k + 1
    <3>1. i \in 1..k
      BY <2>4
    <3>2. stack'[i].names = {m \in Names : Declared(m, i)}
      BY <1>1, <1>2, <1>3, <3>1 DEF TablesAreRight
    <3>3. \A m \in Names : Declared(m, i)' <=> Declared(m, i)
      BY <2>2, <3>1
    <3>4. QED
      BY <3>2, <3>3
  <2>5. QED
    BY <2>3, <2>4
<1>9. \A i \in 2..(k + 1) : stack'[i].kind # "func" => stack'[i].sees = {} /\ stack'[i].id = NoId
  <2>1. SUFFICES ASSUME NEW i \in 2..(k + 1), stack'[i].kind # "func"
                 PROVE  stack'[i].sees = {} /\ stack'[i].id = NoId
    OBVIOUS
  <2>2. CASE i = k + 1
    BY <1>3, <2>1, <2>2
  <2>3. CASE i # k + 1
    <3>1. i \in 2..k /\ i \in 1..k
      BY <2>3
    <3>2. QED
      BY <1>1, <1>2, <1>3, <2>1, <3>1 DEF TablesAreRight
  <2>4. QED
    BY <2>2, <2>3
<1>10. FuncNames' = stack'[1].sees \cup (IF Len(stack') > 1 THEN Named(stack'[2].id) ELSE {})
  <2>1. 1 \in 1..k /\ stack'[1] = stack[1] /\ Len(stack') > 1
    BY <1>2, <1>3
  <2>2. CASE k = 1
    <3>1. FuncNames = stack[1].sees
      BY <1>1, <1>2, <2>2 DEF TablesAreRight
    <3>2. stack'[2] = fr
      BY <1>3, <2>2
    <3>3. FuncNames' = FuncNames \cup Named(fr.id)
      <4>1. CASE l.head = "func"
        BY <4>1, FuncNamesNow
      <4>2. CASE l.head # "func"
        BY <4>2, FuncNamesNow DEF Named
      <4>3. QED
        BY <4>1, <4>2
    <3>4. QED
      BY <2>1, <3>1, <3>2, <3>3
  <2>3. CASE k # 1
    <3>1. l.head # "func" /\ 2 \in 1..k
      BY <1>1, <1>2, <2>3
    <3>2. FuncNames' = FuncNames /\ stack'[2] = stack[2]
      BY <1>3, <3>1, FuncNamesNow
    <3>3. QED
      BY <1>1, <1>2, <2>1, <2>3, <3>2 DEF TablesAreRight
  <2>4. QED
    BY <2>2, <2>3
<1>11. TablesAreRight'
  BY <1>3, <1>8, <1>9, <1>10 DEF TablesAreRight
<1>12. QED
  BY <1>7, <1>11

(* The stack keeps its shape; a declaration adds to the innermost table.    *)
LEMMA StayingKeepsText ==
  ASSUME NEW l, NEW n, Reads(l, n),
         l.head \in {"expr", "return", "break", "mut"},
         Len(stack') = Len(stack),
         \A i \in 1..Len(stack) :
           /\ stack'[i].kind = stack[i].kind
           /\ stack'[i].id = stack[i].id
           /\ stack'[i].sees = stack[i].sees
           /\ stack'[i].names = stack[i].names \cup
                (IF l.head = "mut" /\ i = Len(stack) THEN {l.id} ELSE {}),
         l.head = "mut" => l.id \in Names
  PROVE  BlocksAreOpen' /\ TablesAreRight'
<1>1. PICK k \in Nat : k = Len(stack)
  BY BetweenFacts DEF Reads
<1>2. Between /\ k > 0 /\ BlocksAreOpen /\ TablesAreRight
  BY <1>1, BetweenFacts DEF Reads
<1>3. /\ OpenAfter(n)' = k - 1 /\ Dip(n)' = k - 1 /\ Len(read') = n
  <2>1. Change(l.head) = 0 /\ l.head \notin Closers \cup {"else"}
    BY DEF Change, Openers, Closers
  <2>2. OpenAfter(n)' = k - 1 + 0
    BY <1>1, <2>1, ReadsFacts
  <2>3. QED
    BY <1>1, <2>1, <2>2, ReadsFacts, DipNow
<1>4. ASSUME NEW i \in 2..k
      PROVE  \E w \in 1..Len(read') : Opener(w, i)'
  <2>1. i \in 1..k /\ i \in 2..Len(stack) /\ OpenAfter(n)' >= i - 1
    BY <1>1, <1>3
  <2>2. PICK w \in 1..Len(read) : Opener(w, i)
    BY <2>1, <1>2 DEF BlocksAreOpen
  <2>3. /\ stack'[i].kind = stack[i].kind /\ stack'[i].id = stack[i].id
        /\ stack'[i].sees = stack[i].sees
    BY <1>1, <2>1
  <2>4. l.head # "else"
    OBVIOUS
  <2>5. QED
    BY <2>1, <2>2, <2>3, <2>4, OpenerIsKept
<1>5. BlocksAreOpen'
  BY <1>1, <1>3, <1>4 DEF BlocksAreOpen
<1>6. ASSUME NEW i \in 1..k
      PROVE  stack'[i].names = {m \in Names : Declared(m, i)'}
  <2>1. i \in Nat /\ k - 1 >= i - 1 /\ (k - 1 = i - 1 <=> i = k)
    OBVIOUS
  <2>2. \A m : Declared(m, i)' <=> Declared(m, i) \/ (l.head = "mut" /\ l.id = m /\ i = k)
    BY <1>3, <2>1, DeclaredNow
  <2>3. stack[i].names = {m \in Names : Declared(m, i)}
    BY <1>1, <1>2 DEF TablesAreRight
  <2>4. stack'[i].names = stack[i].names \cup
                (IF l.head = "mut" /\ i = k THEN {l.id} ELSE {})
    BY <1>1
  <2>5. QED
    BY <2>2, <2>3, <2>4
<1>7. \A i \in 2..k : stack'[i].kind # "func" => stack'[i].sees = {} /\ stack'[i].id = NoId
  BY <1>1, <1>2 DEF TablesAreRight
<1>8. FuncNames' = stack'[1].sees \cup (IF Len(stack') > 1 THEN Named(stack'[2].id) ELSE {})
  <2>1. FuncNames' = FuncNames
    BY FuncNamesNow
  <2>2. stack'[1].sees = stack[1].sees /\ (k > 1 => stack'[2].id = stack[2].id)
    BY <1>1, <1>2
  <2>3. QED
    BY <1>1, <1>2, <2>1, <2>2 DEF TablesAreRight
<1>9. TablesAreRight'
  BY <1>1, <1>6, <1>7, <1>8 DEF TablesAreRight
<1>10. QED
  BY <1>5, <1>9

(* Below: the line ends a construct; a function becomes known.             *)
LEMMA LeavingKeepsText ==
  ASSUME NEW l, NEW n, Reads(l, n), l.head \in Closers,
         Len(stack) > 1, Len(stack') = Len(stack) - 1,
         \A i \in 1..(Len(stack) - 1) :
           /\ stack'[i].kind = stack[i].kind
           /\ stack'[i].id = stack[i].id
           /\ stack'[i].names = stack[i].names
           /\ stack'[i].sees = stack[i].sees \cup
                (IF Len(stack) = 2 THEN Named(Top.id) ELSE {})
  PROVE  BlocksAreOpen' /\ TablesAreRight'
<1>1. PICK k \in Nat : k = Len(stack)
  BY BetweenFacts DEF Reads
<1>2. Between /\ k > 1 /\ BlocksAreOpen /\ TablesAreRight
  BY <1>1, BetweenFacts DEF Reads
<1>3. /\ OpenAfter(n)' = k - 2 /\ Dip(n)' = k - 2 /\ Len(read') = n
      /\ l.head \notin {"mut", "else", "func"}
  <2>1. Change(l.head) = -1 /\ l.head \in Closers \cup {"else"}
    BY DEF Change, Openers, Closers
  <2>2. OpenAfter(n)' = k - 1 + (-1)
    BY <1>1, <2>1, ReadsFacts
  <2>3. l.head \notin {"mut", "else", "func"}
    BY DEF Closers
  <2>4. QED
    BY <1>1, <2>1, <2>2, <2>3, ReadsFacts, DipNow
<1>4. ASSUME NEW i \in 2..(k - 1)
      PROVE  \E w \in 1..Len(read') : Opener(w, i)'
  <2>1. i \in 1..(k - 1) /\ i \in 2..Len(stack) /\ OpenAfter(n)' >= i - 1 /\ k # 2
    <3>1. i \in 1..(k - 1) /\ i \in 2..k /\ k - 2 >= i - 1 /\ k # 2
      OBVIOUS
    <3>2. QED
      BY <1>1, <1>3, <3>1
  <2>2. PICK w \in 1..Len(read) : Opener(w, i)
    BY <2>1, <1>2 DEF BlocksAreOpen
  <2>3. /\ stack'[i].kind = stack[i].kind /\ stack'[i].id = stack[i].id
        /\ stack'[i].sees = stack[i].sees
    BY <1>1, <2>1
  <2>4. QED
    BY <1>3, <2>1, <2>2, <2>3, OpenerIsKept
<1>5. BlocksAreOpen'
  <2>1. Len(stack') = k - 1 /\ OpenAfter(n)' = Len(stack') - 1
    BY <1>1, <1>2, <1>3
  <2>2. QED
    BY <1>3, <1>4, <2>1 DEF BlocksAreOpen
<1>6. ASSUME NEW i \in 1..(k - 1)
      PROVE  stack'[i].names = {m \in Names : Declared(m, i)'}
  <2>1. i \in Nat /\ k - 2 >= i - 1
    BY <1>2
  <2>2. \A m : Declared(m, i)' <=> Declared(m, i)
    BY <1>3, <2>1, DeclaredNow
  <2>3. stack[i].names = {m \in Names : Declared(m, i)}
    BY <1>1, <1>2 DEF TablesAreRight
  <2>4. QED
    BY <1>1, <2>2, <2>3
<1>7. \A i \in 2..(k - 1) : stack'[i].kind # "func" => stack'[i].sees = {} /\ stack'[i].id = NoId
  <2>1. SUFFICES ASSUME NEW i \in 2..(k - 1), stack'[i].kind # "func"
                 PROVE  stack'[i].sees = {} /\ stack'[i].id = NoId
    OBVIOUS
  <2>2. i \in 1..(k - 1) /\ i \in 2..k /\ k # 2
    OBVIOUS
  <2>3. stack[i].sees = {} /\ stack[i].id = NoId
    BY <1>1, <1>2, <2>1, <2>2 DEF TablesAreRight
  <2>4. QED
    BY <1>1, <2>2, <2>3
<1>8. FuncNames' = stack'[1].sees \cup (IF Len(stack') > 1 THEN Named(stack'[2].id) ELSE {})
  <2>1. FuncNames' = FuncNames
    BY <1>3, FuncNamesNow
  <2>2. FuncNames = stack[1].sees \cup Named(stack[2].id)
    BY <1>1, <1>2 DEF TablesAreRight
  <2>3. CASE k = 2
    <3>1. stack'[1].sees = stack[1].sees \cup Named(stack[2].id)
      BY <1>1, <2>3 DEF Top
    <3>2. ~(Len(stack') > 1)
      BY <1>1, <2>3
    <3>3. QED
      BY <2>1, <2>2, <3>1, <3>2
  <2>4. CASE k # 2
    <3>1. Len(stack') > 1 /\ 1 \in 1..(k - 1) /\ 2 \in 1..(k - 1)
      BY <1>1, <1>2, <2>4
    <3>2. stack'[1].sees = stack[1].sees /\ stack'[2].id = stack[2].id
      BY <1>1, <2>4, <3>1
    <3>3. QED
      BY <2>1, <2>2, <3>1, <3>2
  <2>5. QED
    BY <2>3, <2>4
<1>9. TablesAreRight'
  BY <1>1, <1>6, <1>7, <1>8 DEF TablesAreRight
<1>10. QED
  BY <1>5, <1>9

(* Else: a frame of its own for the other branch, opened by the same line. *)
LEMMA ElseKeepsText ==
  ASSUME NEW l, NEW n, Reads(l, n), l.head = "else", Top.kind = "if", Len(stack) > 1,
         Len(stack') = Len(stack),
         stack'[Len(stack)] = Frame("else", FALSE, NoId, {}),
         \A i \in 1..(Len(stack) - 1) : stack'[i] = stack[i]
  PROVE  BlocksAreOpen' /\ TablesAreRight'
<1>1. PICK k \in Nat : k = Len(stack)
  BY BetweenFacts DEF Reads
<1>2. Between /\ k > 1 /\ BlocksAreOpen /\ TablesAreRight /\ k \in 2..k /\ k \in 1..k
  BY <1>1, BetweenFacts DEF Reads
<1>3. /\ OpenAfter(n)' = k - 1 /\ Dip(n)' = k - 2 /\ Len(read') = n
  <2>1. Change(l.head) = 0 /\ l.head \in Closers \cup {"else"}
    BY DEF Change, Openers, Closers
  <2>2. OpenAfter(n)' = k - 1 + 0
    BY <1>1, <2>1, ReadsFacts
  <2>3. QED
    BY <1>1, <2>1, <2>2, ReadsFacts, DipNow
<1>4. /\ stack'[k].kind = "else" /\ stack'[k].id = NoId
      /\ stack'[k].sees = {} /\ stack'[k].names = {}
  BY <1>1 DEF Frame
<1>5. stack[k].kind = "if"
  BY <1>1 DEF Top
<1>6. ASSUME NEW i \in 2..k
      PROVE  \E w \in 1..Len(read') : Opener(w, i)'
  <2>1. i \in 1..k /\ i \in 2..Len(stack) /\ OpenAfter(n)' >= i - 1
        /\ (i # k => i \in 1..(k - 1) /\ OpenAfter(n)' > i - 1)
    BY <1>1, <1>3
  <2>2. PICK w \in 1..Len(read) : Opener(w, i)
    BY <2>1, <1>2 DEF BlocksAreOpen
  <2>3. CASE i = k
    <3>1. OpenedBy(stack'[i].kind) = OpenedBy(stack[i].kind)
      BY <1>4, <1>5, <2>3 DEF OpenedBy
    <3>2. stack'[i].kind # "if" /\ stack'[i].kind # "func"
      BY <1>4, <2>3
    <3>3. QED
      BY <2>1, <2>2, <3>1, <3>2, OpenerIsKept
  <2>4. CASE i # k
    <3>1. stack'[i] = stack[i]
      BY <1>1, <2>1, <2>4
    <3>2. QED
      BY <2>1, <2>2, <2>4, <3>1, OpenerIsKept
  <2>5. QED
    BY <2>3, <2>4
<1>7. BlocksAreOpen'
  BY <1>1, <1>3, <1>6 DEF BlocksAreOpen
<1>8. ASSUME NEW i \in 1..k
      PROVE  stack'[i].names = {m \in Names : Declared(m, i)'}
  <2>1. i \in Nat /\ (k - 2 >= i - 1 <=> i # k)
    OBVIOUS
  <2>2. \A m : Declared(m, i)' <=> Declared(m, i) /\ i # k
    BY <1>3, <2>1, DeclaredNow
  <2>3. CASE i = k
    BY <1>4, <2>2, <2>3
  <2>4. CASE i # k
    <3>1. stack'[i] = stack[i]
      BY <1>1, <2>4
    <3>2. stack[i].names = {m \in Names : Declared(m, i)}
      BY <1>1, <1>2 DEF TablesAreRight
    <3>3. QED
      BY <2>2, <2>4, <3>1, <3>2
  <2>5. QED
    BY <2>3, <2>4
<1>9. \A i \in 2..k : stack'[i].kind # "func" => stack'[i].sees = {} /\ stack'[i].id = NoId
  <2>1. SUFFICES ASSUME NEW i \in 2..k, stack'[i].kind # "func"
                 PROVE  stack'[i].sees = {} /\ stack'[i].id = NoId
    OBVIOUS
  <2>2. CASE i = k
    BY <1>4, <2>2
  <2>3. CASE i # k
    <3>1. stack'[i] = stack[i]
      BY <1>1, <2>3
    <3>2. QED
      BY <1>1, <1>2, <2>1, <3>1 DEF TablesAreRight
  <2>4. QED
    BY <2>2, <2>3
<1>10. FuncNames' = stack'[1].sees \cup (IF Len(stack') > 1 THEN Named(stack'[2].id) ELSE {})
  <2>1. FuncNames' = FuncNames
    BY FuncNamesNow
  <2>2. FuncNames = stack[1].sees \cup Named(stack[2].id)
    BY <1>1, <1>2 DEF TablesAreRight
  <2>3. stack'[1] = stack[1]
    BY <1>1, <1>2
  <2>4. stack'[2].id = stack[2].id
    <3>1. CASE k = 2
      <4>1. stack[2].id = NoId
        BY <1>1, <1>2, <1>5, <3>1 DEF TablesAreRight
      <4>2. QED
        BY <1>4, <3>1, <4>1
    <3>2. CASE k # 2
      BY <1>1, <1>2, <3>2
    <3>3. QED
      BY <3>1, <3>2
  <2>5. QED
    BY <1>1, <1>2, <2>1, <2>2, <2>3, <2>4
<1>11. TablesAreRight'
  BY <1>1, <1>8, <1>9, <1>10 DEF TablesAreRight
<1>12. QED
  BY <1>7, <1>11

-----------------------------------------------------------------------------
(* One step per way a line can be parsed to its end.                       *)

LEMMA LineReads ==
  ASSUME TextInv, NEW l \in Lines, Line(l)
  PROVE  \E n : Reads(l, n)
<1>1. Read(l) /\ l \in LineRecords
  BY LineType DEF Line
<1>2. Between /\ Grows(l)
  BY <1>1 DEF Read, Grows, Between, TextInv, IInv, TypeOK
<1>3. QED
  BY <1>2 DEF Reads

LEMMA LineKeepsTextInv ==
  ASSUME TextInv, NEW l \in Lines, Line(l)
  PROVE  TextInv'
<1>1. PICK n : Reads(l, n)
  BY LineReads
<1>2. IInv /\ IInv' /\ Between /\ outcome = "running"
  BY <1>1, LineKeepsIInv DEF TextInv, Reads, Between
<1>3. /\ stack \in Seq(Frames) /\ Len(stack) \in Nat /\ Len(stack) > 0
      /\ Top = stack[Len(stack)] /\ Top \in Frames
      /\ Top.kind = "root" <=> Len(stack) = 1
      /\ Top.kind \in {"func", "entry"} <=> Len(stack) = 2
  BY <1>2, TopIsFrame DEF IInv, TypeOK, Top
<1>4. /\ l \in LineRecords /\ l.uses \in SUBSET Names
      /\ l.head = "mut" => l.id \in Names
      /\ l.head \notin UsesNames => l.uses = {}
      /\ Named(l.id) \in SUBSET Names /\ l.id \in Names \cup {NoId}
  BY LineType, StmtAssumption
<1>5. CASE Func(l) \/ Entry(l) \/ While(l) \/ If(l)
  <2>1. PICK fr : /\ fr = IF l.head = "func" THEN Frame("func", FALSE, l.id, l.uses \cup Named(l.id))
                          ELSE Frame(l.head, IF l.head = "while" THEN breakable ELSE FALSE, NoId, {})
    OBVIOUS
  <2>2. /\ l.head \in {"func", "entry", "while", "if"}
        /\ l.head \in {"func", "entry"} => Len(stack) = 1
        /\ l.head \in {"while", "if"} => l.uses \subseteq Visible
        /\ stack' = Push(fr) /\ outcome' = outcome
    BY <1>3, <1>5, <2>1 DEF Func, Entry, While, If, Goes, AtTop, InBody, Resolves, Saved
  <2>3. /\ fr \in Frames /\ fr.kind = l.head /\ fr.names = {}
        /\ l.head = "func" => fr.id = l.id /\ fr.sees = l.uses \cup Named(l.id)
        /\ l.head # "func" => fr.id = NoId /\ fr.sees = {}
    BY <1>2, <1>4, <2>1, <2>2 DEF Frame, Frames, IInv, TypeOK
  <2>4. l.head \in Openers /\ l.head \notin Closers \cup {"else"} /\ l.head # "break"
    BY <2>2 DEF Openers, Closers
  <2>5. l.head # "func" => l.uses \subseteq Visible
    BY <1>4, <2>2 DEF UsesNames
  <2>6. BlocksAreOpen' /\ TablesAreRight'
    BY <1>1, <2>2, <2>3, <2>4, EnteringKeepsText
  <2>7. LineIsRight(n)'
    BY <1>1, <2>2, <2>4, <2>5, TakenLineIsRight
  <2>8. QED
    BY <1>1, <1>2, <2>2, <2>6, <2>7, TextInvAfterTaken
<1>6. CASE EndFunc(l) \/ EndWhile(l) \/ EndIf(l)
  <2>1. /\ l.head = Closer[OpenedBy(Top.kind)] /\ l.head \in Closers /\ Top.kind # "root"
        /\ outcome' = outcome
        /\ stack' = IF Top.kind \in {"func", "entry"} THEN FunctionIsKnown ELSE Below
    BY <1>6 DEF EndFunc, EndWhile, EndIf, EndsIf, Goes, OpenedBy, Closer, Closers
  <2>2. PICK k \in Nat : k = Len(stack)
    BY <1>3
  <2>3. k > 1
    BY <1>3, <2>1, <2>2
  <2>4. /\ Below \in Seq(Frames) /\ Len(Below) = k - 1
        /\ \A i \in 1..(k - 1) : Below[i] = stack[i] /\ stack[i] \in Frames
    BY <1>3, <2>2, <2>3, PoppedStack
  <2>5. /\ Len(stack') = k - 1
        /\ \A i \in 1..(k - 1) :
             /\ stack'[i].kind = stack[i].kind
             /\ stack'[i].id = stack[i].id
             /\ stack'[i].names = stack[i].names
             /\ stack'[i].sees = stack[i].sees \cup (IF k = 2 THEN Named(Top.id) ELSE {})
    <3>1. CASE k = 2
      <4>1. stack' = [Below EXCEPT ![1].sees = @ \cup Named(Top.id)] /\ 1 \in 1..(k - 1)
        BY <1>3, <2>1, <2>2, <3>1 DEF FunctionIsKnown
      <4>2. /\ Len(stack') = k - 1
            /\ stack'[1] = [Below[1] EXCEPT !.sees = @ \cup Named(Top.id)]
        BY <2>4, <4>1
      <4>3. Below[1] = stack[1] /\ stack[1] \in Frames
        BY <2>4, <4>1
      <4>4. \A i \in 1..(k - 1) : i = 1
        BY <3>1
      <4>5. QED
        BY <3>1, <4>2, <4>3, <4>4 DEF Frames
    <3>2. CASE k # 2
      BY <1>3, <2>1, <2>2, <2>4, <3>2
    <3>3. QED
      BY <3>1, <3>2
  <2>6. BlocksAreOpen' /\ TablesAreRight'
    BY <1>1, <2>1, <2>2, <2>3, <2>5, LeavingKeepsText
  <2>7. l.uses = {} /\ l.head \notin {"break", "func", "entry", "else"}
    BY <1>4, <2>1 DEF Closers, UsesNames
  <2>8. LineIsRight(n)'
    BY <1>1, <2>1, <2>2, <2>3, <2>7, TakenLineIsRight
  <2>9. QED
    BY <1>1, <1>2, <2>1, <2>6, <2>8, TextInvAfterTaken
<1>7. CASE Mut(l) \/ Expr(l) \/ Break(l)
  <2>1. /\ l.head \in {"expr", "return", "break", "mut"} /\ outcome' = outcome
        /\ l.head = "break" => breakable
        /\ l.head # "break" => l.uses \subseteq Visible
        /\ stack' = IF l.head = "mut"
                      THEN [stack EXCEPT ![Len(stack)].names = @ \cup {l.id}]
                      ELSE stack
    BY <1>7 DEF Mut, Declares, Expr, Break, MayBreak, Resolves, Goes
  <2>2. l.head = "break" => l.uses = {}
    BY <1>4 DEF UsesNames
  <2>3. /\ Len(stack') = Len(stack)
        /\ \A i \in 1..Len(stack) :
             /\ stack'[i].kind = stack[i].kind
             /\ stack'[i].id = stack[i].id
             /\ stack'[i].sees = stack[i].sees
             /\ stack'[i].names = stack[i].names \cup
                  (IF l.head = "mut" /\ i = Len(stack) THEN {l.id} ELSE {})
    <3>1. CASE l.head = "mut"
      <4> DEFINE fr == [Top EXCEPT !.names = @ \cup {l.id}]
      <4>1. /\ fr \in Frames /\ fr.kind = Top.kind /\ fr.id = Top.id
            /\ fr.sees = Top.sees /\ fr.names = Top.names \cup {l.id}
        BY <1>3, <1>4, <3>1 DEF Frames
      <4>2. stack' = [stack EXCEPT ![Len(stack)] = fr] /\ Len(stack) \in 1..Len(stack)
        BY <1>3, <2>1, <3>1
      <4> HIDE DEF fr
      <4>3. /\ Len(stack') = Len(stack)
            /\ \A i \in 1..Len(stack) : stack'[i] = IF i = Len(stack) THEN fr ELSE stack[i]
        BY <1>3, <4>1, <4>2, ReplacedFrame
      <4>4. QED
        BY <1>3, <3>1, <4>1, <4>3
    <3>2. CASE l.head # "mut"
      BY <2>1, <3>2
    <3>3. QED
      BY <3>1, <3>2
  <2>4. BlocksAreOpen' /\ TablesAreRight'
    BY <1>1, <1>4, <2>1, <2>3, StayingKeepsText
  <2>5. l.head \notin {"func", "entry"} /\ l.head \notin Closers \cup {"else"}
    BY <2>1 DEF Closers
  <2>6. LineIsRight(n)'
    BY <1>1, <2>1, <2>2, <2>5, TakenLineIsRight
  <2>7. QED
    BY <1>1, <1>2, <2>1, <2>4, <2>6, TextInvAfterTaken
<1>8. CASE Else(l)
  <2> DEFINE fr == Frame("else", FALSE, NoId, {})
  <2>1. fr \in Frames
    BY DEF Frame, Frames
  <2>2. /\ l.head = "else" /\ Top.kind = "if" /\ outcome' = outcome
        /\ stack' = [stack EXCEPT ![Len(stack)] = fr]
    BY <1>8 DEF Else, ElseBody, Goes
  <2>3. Len(stack) > 1 /\ Len(stack) \in 1..Len(stack)
    <3>1. Len(stack) # 1
      BY <1>3, <2>2
    <3>2. PICK k \in Nat : k = Len(stack) /\ k > 0
      BY <1>3
    <3>3. QED
      BY <3>1, <3>2
  <2>4. /\ Len(stack') = Len(stack) /\ stack'[Len(stack)] = fr
        /\ \A i \in 1..(Len(stack) - 1) : stack'[i] = stack[i]
    <3> HIDE DEF fr
    <3>1. /\ Len(stack') = Len(stack)
          /\ \A i \in 1..Len(stack) : stack'[i] = IF i = Len(stack) THEN fr ELSE stack[i]
      BY <1>3, <2>1, <2>2, <2>3, ReplacedFrame
    <3>2. QED
      BY <1>3, <2>3, <3>1
  <2>5. BlocksAreOpen' /\ TablesAreRight'
    BY <1>1, <2>2, <2>3, <2>4, ElseKeepsText
  <2>6. l.uses = {}
    BY <1>4, <2>2 DEF UsesNames
  <2>7. LineIsRight(n)'
    BY <1>1, <2>2, <2>3, <2>6, TakenLineIsRight
  <2>8. QED
    BY <1>1, <1>2, <2>2, <2>5, <2>7, TextInvAfterTaken
<1>9. CASE BreakOutside(l) \/ Undefined(l) \/ DefinedTwice(l) \/ RejectLine(l) \/ NoTokenAfter(l)
  <2>1. /\ outcome' \in Failures
        /\ outcome' = "notBreakable" => ~breakable
        /\ outcome' = "undefined" => ~(l.uses \subseteq Visible)
    BY <1>9 DEF BreakOutside, Undefined, DefinedTwice, RejectLine, NoTokenAfter,
                Stops, Failures, MayBreak, Resolves
  <2>2. QED
    BY <1>1, <1>2, <2>1, TextInvAfterFailure
<1>10. QED
  BY <1>5, <1>6, <1>7, <1>8, <1>9 DEF Line

-----------------------------------------------------------------------------

LEMMA EndOfFileKeepsTextInv ==
  ASSUME TextInv, EndOfFile
  PROVE  TextInv'
<1>1. IInv' /\ Between
  BY EndOfFileKeepsIInv DEF TextInv, EndOfFile, Between
<1>2. /\ read' = read
      /\ outcome' \in {"crashed", "accepted", "rejected", "nothing"}
      /\ outcome' = "accepted" => Top.kind = "root"
  BY DEF EndOfFile, Stops, InBody
<1>3. \A p : LineIsRight(p)' <=> LineIsRight(p)
  BY <1>2 DEF LineIsRight, InLoop, Bound, ClosesItsKind, Encloses, Dip, OpenAfter, Count
<1>4. Taken' \subseteq 1..Len(read)
  BY <1>1, <1>2, BetweenFacts DEF Taken
<1>5. \A p \in Taken' : LineIsRight(p)'
  BY <1>1, <1>3, <1>4, BetweenFacts
<1>6. outcome' = "accepted" => OpenAfter(Len(read))' = 0
  <2>1. SUFFICES ASSUME Top.kind = "root"
                 PROVE  OpenAfter(Len(read))' = 0
    BY <1>2
  <2>2. Len(stack) = 1 /\ OpenAfter(Len(read)) = Len(stack) - 1
    BY <1>1, <2>1, TopIsFrame, BetweenFacts DEF Between, TextInv, BlocksAreOpen
  <2>3. OpenAfter(Len(read))' = OpenAfter(Len(read))
    BY <1>2 DEF OpenAfter, Count
  <2>4. QED
    BY <2>2, <2>3
<1>7. outcome' \notin {"running", "notBreakable", "undefined"}
  BY <1>2
<1>8. QED
  BY <1>1, <1>5, <1>6, <1>7 DEF TextInv

LEMMA StutteringKeepsTextInv ==
  ASSUME TextInv, UNCHANGED vars
  PROVE  TextInv'
<1>1. IInv'
  BY StutteringKeepsIInv DEF TextInv
<1>2. read' = read /\ stack' = stack /\ outcome' = outcome
  BY DEF vars
<1>3. /\ BlocksAreOpen' <=> BlocksAreOpen
      /\ TablesAreRight' <=> TablesAreRight
      /\ Taken' = Taken
      /\ \A p : LineIsRight(p)' <=> LineIsRight(p)
      /\ InLoop(Len(read))' <=> InLoop(Len(read))
      /\ \A m : Bound(m, Len(read))' <=> Bound(m, Len(read))
      /\ OpenAfter(Len(read))' = OpenAfter(Len(read))
  BY <1>2 DEF BlocksAreOpen, TablesAreRight, Opener, Opens, NoElseSince, Declared,
              FuncNames, Taken, LineIsRight, InLoop, Bound, ClosesItsKind, Encloses,
              Dip, OpenAfter, Count
<1>4. QED
  BY <1>1, <1>2, <1>3 DEF TextInv

LEMMA InitialTextInv == Init => TextInv
<1> SUFFICES ASSUME Init PROVE TextInv
  OBVIOUS
<1>1. IInv
  BY InitialIInv
<1>2. /\ read = <<>> /\ Len(read) = 0 /\ outcome = "running"
      /\ Len(stack) = 1 /\ stack[1].names = {} /\ stack[1].sees = {}
  BY DEF Init, Frame
<1>3. OpenAfter(Len(read)) = 0
  BY <1>2, EmptyText, DepthIsOpenAfter
<1>4. BlocksAreOpen
  BY <1>2, <1>3 DEF BlocksAreOpen
<1>5. \A i : \A m \in Names : ~Declared(m, i)
  BY <1>2 DEF Declared
<1>6. FuncNames = {}
  BY <1>2 DEF FuncNames
<1>7. TablesAreRight
  BY <1>2, <1>5, <1>6 DEF TablesAreRight
<1>8. Taken = {}
  BY <1>2 DEF Taken, Failures
<1>9. QED
  BY <1>1, <1>2, <1>4, <1>7, <1>8 DEF TextInv

(* In every state of every parse the stack and the tables say of the text  *)
(* what the text says itself, and every line taken was rightly taken.      *)
THEOREM TextInvariance == Spec => []TextInv
<1>1. TextInv /\ [Next]_vars => TextInv'
  BY LineKeepsTextInv, EndOfFileKeepsTextInv, StutteringKeepsTextInv DEF Next
<1>2. QED
  BY <1>1, InitialTextInv, PTL DEF Spec

(* 'break' and 'continue' are taken exactly inside the loops of the text:  *)
(* what inBreakableBody says is true of the source file (stmt, whileStmt). *)
THEOREM BreaksInLoops == Spec => []BreaksAreInLoops
<1>1. TextInv => BreaksAreInLoops
  BY DEF TextInv, BreaksAreInLoops, LineIsRight
<1>2. QED
  BY <1>1, TextInvariance, PTL

(* pnode_symbolType finds a name exactly where the text binds it, for any  *)
(* nesting of blocks and any order of declarations.                        *)
THEOREM ResolvedNames == Spec => []NamesResolve
<1>1. TextInv => NamesResolve
  BY DEF TextInv, NamesResolve, LineIsRight
<1>2. QED
  BY <1>1, TextInvariance, PTL

(* A file definition() accepts is well bracketed, however deep it nests.   *)
THEOREM WellNested == Spec => []AcceptedIsWellNested
<1>1. TextInv => AcceptedIsWellNested
  <2> SUFFICES ASSUME TextInv, outcome = "accepted"
               PROVE  AcceptedIsWellNested
    BY DEF AcceptedIsWellNested
  <2>1. OpenAfter(Len(read)) = 0
    BY DEF TextInv
  <2>2. \A p \in 1..Len(read) : LineIsRight(p)
    BY DEF TextInv, Taken, Failures
  <2>3. QED
    BY <2>1, <2>2 DEF AcceptedIsWellNested, LineIsRight, ClosesItsKind
<1>2. QED
  BY <1>1, TextInvariance, PTL

=============================================================================
