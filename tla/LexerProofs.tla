---------------------------- MODULE LexerProofs -----------------------------
(***************************************************************************)
(* What the runs check of Lexer on short files, for every file, every set  *)
(* of keywords and every length of a token: LinesAreNumbered,              *)
(* TokensAreRuns, LiteralsAreKept and TextIsSpelled.                       *)
(*                                                                         *)
(* LexInv is inductive.  It says what line_read() found out about the line *)
(* at hand, that data and saved lie in the file from offset from on, with  *)
(* at just behind data, which line they are in, and where the run of the   *)
(* token being built may end.  A file is a sequence of any length: what    *)
(* line_read() finds is a least element, and what the recursive operators  *)
(* compute is shown by induction on a set of numbers (Induction).          *)
(***************************************************************************)
EXTENDS Lexer, FiniteSetTheorems, SequenceTheorems, WellFoundedInduction, TLAPS

Last(s) == s[Len(s)]

-----------------------------------------------------------------------------
(* The invariants.                                                         *)

(* The number of a line in which offset i lies.                            *)
Numbered(i, n) == IF Terminated(i) THEN n = Newlines(i) + 1 ELSE n <= Newlines(i)

(* A line of code, with what line_read() found out about it; between the   *)
(* code and the end of the line is nothing or a comment.                   *)
Good(l, n) ==
  /\ 1 <= l.first /\ l.first <= l.last /\ l.last < End /\ l.last + 1 < n
  /\ text[l.first] # Blank
  /\ \A i \in l.first..l.last : IsCode(i) /\ Numbered(i, l.lineno)
  /\ Char(n - 1) = Newline /\ ~IsCode(l.last + 1)
  /\ \A i \in (l.last + 1)..(n - 2) : Char(i) # Newline

(* While characters are read, there is a line and at is in it.             *)
LineInv ==
  /\ errcode = "none" => Good(line, next) /\ at \in line.first..line.last
  /\ errcode # "none" => phase # "scan" \/ newline
  /\ phase = "scan" /\ ~newline => lineno = line.lineno

(* Characters of code are at hand.                                         *)
Held == phase # "ask" /\ data # <<>> /\ data # <<Newline>>

(* The characters d are those of the file from offset f on.                *)
Lies(d, f) == /\ 1 <= f /\ f + Len(d) <= End
              /\ \A k \in 1..Len(d) : d[k] = text[f + (k - 1)]

(* Where the characters at hand and the ones pushed back come from.        *)
DataInv ==
  /\ phase # "ask" => saved = <<>>
  /\ phase = "ask" /\ errcode # "error" => data = <<>> /\ ~inString
  /\ phase = "got" => data # <<>>
  /\ phase = "scan" => Len(data) < MaxToken /\ data # <<Newline>>
  /\ Held => Lies(data, from)
  /\ phase = "scan" /\ data # <<>> => ~newline /\ at = from + Len(data)
  /\ saved # <<>> => Lies(saved, from + 1)

(* The last token is the slash at offset f.                                *)
AfterDiv(f) == out # <<>> /\ Last(out).kind = "div" /\ Last(out).from = f

(* What is at hand has the number of its line, or it is a slash's tail.    *)
NumberInv ==
  /\ Held => Numbered(from, lineno) \/ AfterDiv(from - 1)
  /\ saved # <<>> => AfterDiv(from)
  /\ LinesAreNumbered

(* Letters only, symbols only, or a parenthesis; after a slash, perhaps,   *)
(* that may begin a keyword.                                               *)
Run(d) == \/ \A i \in 1..Len(d) : d[i] = Letter
          \/ \A i \in 1..Len(d) : IsSym(d[i]) /\ d[i] # Par
          \/ d = <<Par>>

Formed(d) == Run(d) \/ (d[1] = Slash /\ Run(Tail(d)))

(* A token ends before offset e.                                           *)
Parted(e) == Boundary(text[e - 1], Char(e))

(* No run is cut in two: the token at hand and the last one handed out end *)
(* at a boundary, or what comes next lies behind a blank, a quote or a     *)
(* line's end.                                                             *)
RunInv ==
  /\ phase = "scan" /\ ~inString /\ data # <<>> =>
       /\ Formed(data)
       /\ data = <<Slash>> \/ ~Parted(at)
  /\ phase = "got" /\ ~inString /\ data # <<Newline>> =>
       /\ Formed(data)
       /\ Len(data) = MaxToken \/ at > from + Len(data) \/ Parted(from + Len(data))
  /\ saved # <<>> =>
       LET e == from + 1 + Len(saved) IN Run(saved) /\ (at > e \/ Parted(e))
  /\ out # <<>> /\ Last(out).kind = "word" =>
       LET e == Last(out).from + Len(Last(out).text)
       IN  Parted(e) \/ (at > e /\ (Held => from > e))
  /\ TokensAreRuns

LexInv == TypeOK /\ LineInv /\ DataInv /\ NumberInv /\ RunInv

(* A line begins with nothing at hand.                                     *)
Fresh == phase = "scan" /\ ~newline /\ at = line.first =>
           data = <<>> /\ ~escape /\ ~inString

(* What has become of the literal between the quotes at q and c: it lies   *)
(* ahead, or is being read, or was too long, or is read, or handed out.    *)
Treated(q, c) ==
  \/ errcode = "error"
  \/ at <= q
  \/ /\ at <= c /\ phase = "scan" /\ ~newline /\ inString /\ ~escape
     /\ line.first = q /\ Len(data) = at - (q + 1) /\ (data # <<>> => from = q + 1)
  \/ at <= c /\ phase = "got" /\ Len(data) = MaxToken
  \/ /\ at > c /\ phase = "got" /\ inString
     /\ from = q + 1 /\ Len(data) = c - (q + 1) /\ data # <<Newline>>
  \/ at > c /\ Delivered(q, c)

(* No token is empty.                                                      *)
NonEmpty(o) == \A k \in 1..Len(o) : o[k].text # <<>>

LitInv ==
  /\ NonEmpty(out)
  /\ Fresh
  /\ \A q, c \in 1..Len(text) : q + 1 < c /\ Literal(q, c) => Treated(q, c)

-----------------------------------------------------------------------------
(* Least elements.                                                         *)

LEMMA LeastOf ==
  ASSUME NEW S \in SUBSET Nat, S # {}
  PROVE  Least(S) \in S /\ \A j \in S : Least(S) <= j
<1> DEFINE Lt == {ss \in Nat \X Nat : ss[1] < ss[2]}
<1>1. IsWellFoundedOn(Lt, Nat)
  BY NatLessThanWellFounded DEF OpToRel
<1>2. \A x, y \in Nat : <<y, x>> \in Lt <=> y < x
  OBVIOUS
<1> HIDE DEF Lt
<1>3. \E x \in S : \A y \in S : ~(<<y, x>> \in Lt)
  BY <1>1, WFMin
<1>4. \E x \in S : \A y \in S : x <= y
  <2>1. PICK x \in S : \A y \in S : ~(<<y, x>> \in Lt)
    BY <1>3
  <2>2. ASSUME NEW y \in S
        PROVE  x <= y
    <3>1. x \in Nat /\ y \in Nat
      OBVIOUS
    <3>2. ~(y < x)
      BY <1>2, <2>1, <3>1
    <3>3. QED
      BY <3>1, <3>2
  <2>3. QED
    BY <2>2
<1>5. QED
  BY <1>4 DEF Least

(* The characters of the file and of its end.                              *)
LEMMA TextFacts ==
  ASSUME text \in Texts
  PROVE  /\ text \in Seq(Chars) /\ Len(text) \in Nat /\ End = Len(text) + 1 /\ End \in Nat
         /\ \A i \in 1..(End - 1) : text[i] \in Chars /\ Char(i) = text[i]
         /\ Char(End) = Newline
         /\ \A i \in 1..End : Char(i) \in Chars
BY LexerAssumption DEF End, Char, Chars

(* Counting line ends.                                                     *)
LEMMA NewlinesFacts ==
  ASSUME text \in Texts, NEW i \in Nat
  PROVE  /\ Newlines(i) \in Nat
         /\ \A j \in Nat : j <= i => Newlines(j) <= Newlines(i)
         /\ \A j \in Nat : j < i /\ i < End /\ text[i] = Newline
                             /\ (\A k \in (j + 1)..(i - 1) : text[k] # Newline)
                           => Newlines(i) = Newlines(j) + 1
<1> DEFINE N(j) == {k \in 1..j : k < End /\ text[k] = Newline}
<1>1. \A j \in Nat : IsFiniteSet(N(j)) /\ Newlines(j) = Cardinality(N(j)) /\ Newlines(j) \in Nat
  <2>1. SUFFICES ASSUME NEW j \in Nat
        PROVE  IsFiniteSet(N(j)) /\ Newlines(j) = Cardinality(N(j)) /\ Newlines(j) \in Nat
    OBVIOUS
  <2>2. IsFiniteSet(1..j)
    BY FS_Interval
  <2>3. N(j) \subseteq 1..j
    OBVIOUS
  <2>4. IsFiniteSet(N(j))
    BY <2>2, <2>3, FS_Subset
  <2>5. QED
    BY <2>4, FS_CardinalityType DEF Newlines
<1>2. ASSUME NEW j \in Nat, j <= i
      PROVE  Newlines(j) <= Newlines(i)
  <2>1. N(j) \subseteq N(i)
    BY <1>2
  <2> HIDE DEF N
  <2>2. Cardinality(N(j)) <= Cardinality(N(i))
    BY <1>1, <2>1, FS_Subset
  <2>3. QED
    BY <1>1, <2>2
<1>3. ASSUME NEW j \in Nat, j < i, i < End, text[i] = Newline,
             \A k \in (j + 1)..(i - 1) : text[k] # Newline
      PROVE  Newlines(i) = Newlines(j) + 1
  <2>1. N(i) = N(j) \cup {i}
    BY <1>3
  <2>2. i \notin N(j)
    BY <1>3
  <2> HIDE DEF N
  <2>3. QED
    BY <1>1, <2>1, <2>2, FS_AddElement
<1>4. QED
  BY <1>1, <1>2, <1>3

-----------------------------------------------------------------------------
(* line_read()                                                             *)

(* A comment goes on to the end of the line.                               *)
LEMMA Comments ==
  ASSUME text \in Texts, NEW i \in 1..End, NEW j \in i..End,
         ~IsCode(i), \A k \in i..j : Char(k) # Newline
  PROVE  ~IsCode(j)
BY TextFacts DEF IsCode

(* Code is neither the end of the file, nor of a line, nor a hash.         *)
LEMMA CodeIsText ==
  ASSUME text \in Texts, NEW i \in 1..End, IsCode(i)
  PROVE  /\ i \in 1..Len(text) /\ i < End /\ Char(i) = text[i]
         /\ text[i] \in Chars \ {Newline, Hash}
BY TextFacts DEF IsCode

(* What line_read() finds from offset p on, when it finds a line.          *)
LEMMA LineRead ==
  ASSUME text \in Texts, NEW p \in 1..(End + 1), ~LineFrom(p).eof
  PROVE  LET l == LineFrom(p).line
             n == LineFrom(p).next
         IN  /\ l \in [first : 1..(End + 1), last : 1..(End + 1), lineno : Nat]
             /\ n \in 1..(End + 1) /\ p <= l.first
             /\ Good(l, n)
             /\ \A i \in p..(l.first - 1) : IsCode(i) => text[i] = Blank
<1> DEFINE starts == {i \in p..(End - 1) : IsCode(i) /\ text[i] # Blank}
           first == Least(starts)
           after == Least({i \in first..End : ~IsCode(i)})
           ends == Least({i \in after..End : Char(i) = Newline})
           number == Newlines(IF ends < End THEN ends ELSE p - 1)
<1>1. /\ starts # {}
      /\ LineFrom(p).next = ends + 1
      /\ LineFrom(p).line = [first |-> first, last |-> after - 1, lineno |-> number]
  BY DEF LineFrom
<1>2. End \in Nat /\ End >= 1 /\ Char(End) = Newline
  BY TextFacts
<1>3. first \in starts /\ \A j \in starts : first <= j
  BY <1>1, <1>2, LeastOf
<1>4. first \in 1..(End - 1) /\ p <= first /\ IsCode(first) /\ text[first] # Blank
  BY <1>2, <1>3
<1> HIDE DEF first
<1>5. /\ after \in first..End /\ ~IsCode(after)
      /\ \A j \in first..End : ~IsCode(j) => after <= j
  <2> DEFINE A == {i \in first..End : ~IsCode(i)}
  <2>1. End \in A /\ A \subseteq Nat
    BY <1>2, <1>4 DEF IsCode
  <2> HIDE DEF A
  <2>2. Least(A) \in A /\ \A j \in A : Least(A) <= j
    BY <2>1, LeastOf
  <2>3. QED
    BY <2>2 DEF A
<1> HIDE DEF after
<1>6. /\ ends \in after..End /\ Char(ends) = Newline
      /\ \A j \in after..End : Char(j) = Newline => ends <= j
  <2> DEFINE A == {i \in after..End : Char(i) = Newline}
  <2>1. End \in A /\ A \subseteq Nat
    BY <1>2, <1>4, <1>5
  <2> HIDE DEF A
  <2>2. Least(A) \in A /\ \A j \in A : Least(A) <= j
    BY <2>1, LeastOf
  <2>3. QED
    BY <2>2 DEF A
<1> HIDE DEF ends
<1>7. after # first
  BY <1>4, <1>5
<1>8. \A i \in first..(after - 1) : IsCode(i)
  BY <1>2, <1>4, <1>5
<1>9. \A i \in after..(ends - 1) : Char(i) # Newline
  BY <1>2, <1>4, <1>5, <1>6
<1>10. ASSUME NEW i \in first..(after - 1)
       PROVE  Numbered(i, number)
  <2>1. \A k \in i..(ends - 1) : k \in 1..End /\ Char(k) # Newline
    <3>1. SUFFICES ASSUME NEW k \in i..(ends - 1) PROVE k \in 1..End /\ Char(k) # Newline
      OBVIOUS
    <3>2. k \in 1..End
      BY <1>2, <1>4, <1>5, <1>6
    <3>3. CASE k < after
      <4>1. IsCode(k)
        BY <1>4, <1>5, <1>8, <3>2, <3>3
      <4>2. QED
        BY <3>2, <4>1 DEF IsCode
    <3>4. CASE ~(k < after)
      BY <1>4, <1>5, <1>6, <1>9, <3>2, <3>4
    <3>5. QED
      BY <3>3, <3>4
  <2>2. i \in Nat /\ 1 <= i /\ i < ends /\ p <= i
    BY <1>4, <1>5, <1>6
  <2>3. CASE ends < End
    <3>1. text[ends] = Newline /\ ends \in i..Len(text) /\ ends \in Nat
      BY <1>2, <1>6, <2>2, <2>3, TextFacts
    <3>2. \A k \in (i + 1)..(ends - 1) : text[k] # Newline
      BY <1>2, <2>1, <2>2, <2>3, <3>1, TextFacts
    <3>3. Newlines(ends) = Newlines(i) + 1
      BY <2>2, <2>3, <3>1, <3>2, NewlinesFacts
    <3>4. Terminated(i)
      BY <3>1 DEF Terminated
    <3>5. QED
      BY <2>3, <3>3, <3>4 DEF Numbered
  <2>4. CASE ~(ends < End)
    <3>1. ends = End
      BY <1>2, <1>6, <2>4
    <3>2. ~Terminated(i)
      <4>1. ASSUME NEW j \in i..Len(text), text[j] = Newline
            PROVE  FALSE
        <5>1. j \in i..(ends - 1) /\ j \in 1..(End - 1)
          BY <1>2, <2>2, <3>1, <4>1, TextFacts
        <5>2. Char(j) = Newline
          BY <4>1, <5>1, TextFacts
        <5>3. QED
          BY <2>1, <5>1, <5>2
      <4>2. QED
        BY <4>1 DEF Terminated
    <3>3. Newlines(p - 1) <= Newlines(i)
      <4>1. p - 1 \in Nat /\ p - 1 <= i
        BY <1>2, <2>2
      <4>2. QED
        BY <2>2, <4>1, NewlinesFacts
    <3>4. QED
      BY <2>4, <3>2, <3>3 DEF Numbered
  <2>5. QED
    BY <2>3, <2>4
<1>11. number \in Nat
  <2>1. (IF ends < End THEN ends ELSE p - 1) \in Nat
    BY <1>2, <1>4, <1>5, <1>6
  <2>2. QED
    BY <2>1, NewlinesFacts
<1>12. \A i \in p..(first - 1) : IsCode(i) => text[i] = Blank
  BY <1>2, <1>3, <1>4
<1> HIDE DEF number
<1> DEFINE l == LineFrom(p).line
           n == LineFrom(p).next
<1>13. /\ l = [first |-> first, last |-> after - 1, lineno |-> number]
       /\ l.first = first /\ l.last = after - 1 /\ l.lineno = number /\ n = ends + 1
  BY <1>1
<1> HIDE DEF l, n
<1>14. l \in [first : 1..(End + 1), last : 1..(End + 1), lineno : Nat]
  <2>1. first \in 1..(End + 1) /\ after - 1 \in 1..(End + 1)
    BY <1>2, <1>4, <1>5, <1>7
  <2>2. QED
    BY <1>11, <1>13, <2>1
<1>15. /\ n \in 1..(End + 1) /\ p <= l.first /\ n - 1 = ends /\ l.last + 1 = after
       /\ n - 2 = ends - 1 /\ l.first <= l.last /\ l.last < End /\ l.last + 1 < n
  BY <1>2, <1>4, <1>5, <1>6, <1>7, <1>13
<1>16. Good(l, n)
  BY <1>4, <1>5, <1>6, <1>8, <1>9, <1>10, <1>13, <1>15 DEF Good
<1>17. QED
  BY <1>12, <1>13, <1>14, <1>15, <1>16 DEF l, n

(* And when it does not.                                                   *)
LEMMA NoLineRead ==
  ASSUME text \in Texts, NEW p \in 1..(End + 1), LineFrom(p).eof
  PROVE  LET l == LineFrom(p).line
         IN  /\ l \in [first : 1..(End + 1), last : 1..(End + 1), lineno : Nat]
             /\ l.first = End + 1 /\ LineFrom(p).next = End + 1
             /\ \A i \in p..End : IsCode(i) => text[i] = Blank
<1> DEFINE starts == {i \in p..(End - 1) : IsCode(i) /\ text[i] # Blank}
<1>1. /\ starts = {}
      /\ LineFrom(p).next = End + 1
      /\ LineFrom(p).line = [first |-> End + 1, last |-> End + 1, lineno |-> Newlines(p - 1)]
  BY DEF LineFrom
<1>2. End \in Nat
  BY TextFacts
<1>3. Newlines(p - 1) \in Nat
  BY <1>2, NewlinesFacts
<1>4. \A i \in p..End : IsCode(i) => text[i] = Blank
  BY <1>1, <1>2, CodeIsText
<1>5. QED
  BY <1>1, <1>2, <1>3, <1>4

-----------------------------------------------------------------------------
(* The steps of the loop over characters.                                  *)

(* Nothing that follows the code of a line, up to its end, is code.        *)
LEMMA LineEnds ==
  ASSUME text \in Texts, NEW l \in [first : 1..(End + 1), last : 1..(End + 1), lineno : Nat],
         NEW n \in 1..(End + 1), Good(l, n)
  PROVE  \A i \in (l.last + 1)..(n - 1) : ~IsCode(i)
<1>1. SUFFICES ASSUME NEW i \in (l.last + 1)..(n - 1) PROVE ~IsCode(i)
  OBVIOUS
<1>2. End \in Nat /\ l.last \in Nat /\ l.last + 1 \in 1..End /\ i \in (l.last + 1)..End
  BY TextFacts DEF Good
<1>3. ~IsCode(l.last + 1) /\ Char(n - 1) = Newline
      /\ \A k \in (l.last + 1)..(n - 2) : Char(k) # Newline
  BY DEF Good
<1>4. CASE i = n - 1
  BY <1>3, <1>4 DEF IsCode
<1>5. CASE i # n - 1
  <2>1. \A k \in (l.last + 1)..i : Char(k) # Newline
    BY <1>2, <1>3, <1>5
  <2>2. QED
    BY <1>2, <1>3, <2>1, Comments
<1>6. QED
  BY <1>4, <1>5

(* The file never changes, nor what is said of it.                         *)
LEMMA SameText ==
  ASSUME text' = text
  PROVE  /\ End' = End
         /\ \A i : /\ Char(i)' = Char(i) /\ IsCode(i)' <=> IsCode(i)
                   /\ Newlines(i)' = Newlines(i) /\ Terminated(i)' <=> Terminated(i)
                   /\ Parted(i)' <=> Parted(i)
         /\ \A i, n : Numbered(i, n)' <=> Numbered(i, n)
         /\ \A l, n : Good(l, n)' <=> Good(l, n)
         /\ \A d, f : Lies(d, f)' <=> Lies(d, f)
BY DEF End, Char, IsCode, Newlines, Terminated, Parted, Numbered, Good, Lies

(* What is known while characters are read.                                *)
LEMMA Lexing ==
  ASSUME TypeOK, LineInv, DataInv, Scanning
  PROVE  /\ errcode = "none" /\ Good(line, next) /\ at \in line.first..line.last
         /\ lineno = line.lineno /\ Numbered(at, lineno)
         /\ at \in 1..(End - 1) /\ at \in Nat /\ End \in Nat /\ IsCode(at)
         /\ Char(at) = text[at] /\ text[at] \in Chars \ {Newline, Hash}
         /\ data \in Seq(Chars \ {Newline}) /\ Len(data) \in Nat /\ Len(data) < MaxToken
         /\ saved = <<>> /\ MaxToken \in Nat
         /\ line.first \in Nat /\ line.last \in Nat /\ next \in 1..(End + 1)
         /\ next > line.last + 1 /\ 1 <= line.first
         /\ text \in Texts /\ phase = "scan" /\ newline = FALSE
<1>1. /\ errcode = "none" /\ Good(line, next) /\ at \in line.first..line.last
      /\ lineno = line.lineno
  BY DEF LineInv, Scanning
<1>2. text \in Texts /\ End \in Nat
  BY TextFacts DEF TypeOK
<1>3. line.first \in Nat /\ line.last \in Nat /\ next \in 1..(End + 1)
  BY <1>2 DEF TypeOK
<1>4. /\ 1 <= line.first /\ line.last < End /\ next > line.last + 1
      /\ IsCode(at) /\ Numbered(at, lineno)
  BY <1>1, <1>2, <1>3 DEF Good
<1>5. at \in 1..(End - 1) /\ at \in Nat /\ at \in 1..End
  BY <1>1, <1>2, <1>3, <1>4
<1>6. Char(at) = text[at] /\ text[at] \in Chars \ {Newline, Hash}
  BY <1>2, <1>4, <1>5, CodeIsText
<1>7. data \in Seq(Chars \ {Newline}) /\ Len(data) < MaxToken /\ saved = <<>>
  BY DEF Scanning, DataInv, TypeOK
<1>8. QED
  BY <1>1, <1>2, <1>3, <1>4, <1>5, <1>6, <1>7, LexerAssumption DEF Scanning, TypeOK

(* lexer_discardLine() moves on to the next line of code, or to the end.   *)
LEMMA LineTaken ==
  ASSUME TypeOK, NEW r, r = LineFrom(next), TakeLine(r)
  PROVE  /\ line' \in [first : 1..(End + 1), last : 1..(End + 1), lineno : Nat]
         /\ next' \in 1..(End + 1) /\ at' \in 1..(End + 1) /\ at' >= next
         /\ errcode' \in {"eof", errcode}
         /\ errcode' # "eof" => Good(line', next') /\ at' \in line'.first..line'.last
         /\ \A i \in next..(at' - 1) : IsCode(i) => text[i] = Blank
<1>1. text \in Texts /\ next \in 1..(End + 1) /\ End \in Nat
  BY TextFacts DEF TypeOK
<1>2. CASE r.eof
  BY <1>1, <1>2, NoLineRead DEF TakeLine
<1>3. CASE ~r.eof
  <2>1. /\ line' = LineFrom(next).line /\ next' = LineFrom(next).next
        /\ at' = line'.first /\ errcode' = errcode
    BY <1>3 DEF TakeLine
  <2>2. /\ line' \in [first : 1..(End + 1), last : 1..(End + 1), lineno : Nat]
        /\ next' \in 1..(End + 1) /\ next <= line'.first /\ Good(line', next')
        /\ \A i \in next..(line'.first - 1) : IsCode(i) => text[i] = Blank
    BY <1>1, <1>3, <2>1, LineRead
  <2>3. line'.first \in 1..(End + 1) /\ line'.last \in 1..(End + 1)
    BY <2>2
  <2>4. line'.first \in line'.first..line'.last
    BY <1>1, <2>2, <2>3 DEF Good
  <2>5. QED
    BY <1>1, <2>1, <2>2, <2>3, <2>4
<1>4. QED
  BY <1>2, <1>3

(* What one round of the loop does.                                        *)
LEMMA RoundFacts ==
  ASSUME TypeOK, LineInv, DataInv, Scanning, NEW d, NEW stops, Round(d, stops)
  PROVE  /\ text' = text /\ saved' = saved /\ lineno' = lineno /\ out' = out /\ data' = d
         /\ from' = IF data = <<>> /\ d # <<>> THEN at ELSE from
         /\ \/ phase' = "got" /\ d # <<>> /\ (stops \/ AtEnd \/ Len(d) = MaxToken)
            \/ phase' = "scan" /\ (d = <<>> \/ (~stops /\ ~AtEnd /\ Len(d) # MaxToken))
         /\ line' \in [first : 1..(End + 1), last : 1..(End + 1), lineno : Nat]
         /\ next' \in 1..(End + 1) /\ at' \in 1..(End + 1)
         /\ errcode' \in {"none", "eof"}
         /\ errcode' = "none" => Good(line', next') /\ at' \in line'.first..line'.last
         /\ AtEnd => /\ newline' = TRUE /\ at' > at + 1
                     /\ \A i \in (at + 1)..(at' - 1) : IsCode(i) => text[i] = Blank
         /\ ~AtEnd => /\ newline' = FALSE /\ at' = at + 1 /\ line' = line /\ next' = next
                      /\ errcode' = "none"
<1>1. /\ text' = text /\ saved' = saved /\ lineno' = lineno /\ out' = out /\ data' = d
      /\ from' = IF data = <<>> /\ d # <<>> THEN at ELSE from
      /\ \/ phase' = "got" /\ d # <<>> /\ (stops \/ AtEnd \/ Len(d) = MaxToken)
         \/ phase' = "scan" /\ (d = <<>> \/ (~stops /\ ~AtEnd /\ Len(d) # MaxToken))
  BY DEF Round, Full
<1>2. /\ Advance /\ errcode = "none" /\ Good(line, next) /\ at \in line.first..line.last
      /\ at \in 1..(End - 1) /\ line.last \in Nat /\ line.first \in Nat /\ End \in Nat
      /\ next \in 1..(End + 1) /\ next > line.last + 1 /\ newline = FALSE
  BY Lexing DEF Round
<1>3. CASE AtEnd
  <2>1. TakeLine(LineFrom(next)) /\ newline' = TRUE
    BY <1>2, <1>3 DEF Advance
  <2>2. /\ line' \in [first : 1..(End + 1), last : 1..(End + 1), lineno : Nat]
        /\ next' \in 1..(End + 1) /\ at' \in 1..(End + 1) /\ at' >= next
        /\ errcode' \in {"eof", errcode}
        /\ errcode' # "eof" => Good(line', next') /\ at' \in line'.first..line'.last
        /\ \A i \in next..(at' - 1) : IsCode(i) => text[i] = Blank
    BY <2>1, LineTaken
  <2>3. at' > at + 1 /\ at = line.last
    BY <1>2, <1>3, <2>2 DEF AtEnd
  <2>4. \A i \in (at + 1)..(at' - 1) : IsCode(i) => text[i] = Blank
    <3>1. \A i \in (at + 1)..(next - 1) : ~IsCode(i)
      BY <1>2, <2>3, LineEnds DEF TypeOK
    <3>2. SUFFICES ASSUME NEW i \in (at + 1)..(at' - 1), IsCode(i) PROVE text[i] = Blank
      OBVIOUS
    <3>3. i \in (at + 1)..(next - 1) \/ i \in next..(at' - 1)
      <4>1. \A a, b, c \in Int : \A j \in (a + 1)..(b - 1) :
              j \in (a + 1)..(c - 1) \/ j \in c..(b - 1)
        OBVIOUS
      <4>2. at \in Int /\ next \in Int /\ at' \in Int
        BY <1>2, <2>2
      <4>3. QED
        BY <4>1, <4>2, Zenon
    <3>4. QED
      BY <2>2, <3>1, <3>2, <3>3
  <2>5. QED
    BY <1>1, <1>2, <1>3, <2>1, <2>2, <2>3, <2>4
<1>4. CASE ~AtEnd
  <2>1. /\ newline' = FALSE /\ at' = at + 1 /\ line' = line /\ next' = next
        /\ errcode' = "none"
    BY <1>2, <1>4 DEF Advance
  <2>2. at' \in line.first..line.last /\ at' \in 1..(End + 1)
    BY <1>2, <1>4, <2>1 DEF AtEnd
  <2>3. QED
    BY <1>1, <1>2, <1>4, <2>1, <2>2 DEF TypeOK
<1>5. QED
  BY <1>3, <1>4

(* A round adds at most a character to the token.                          *)
Rounds(d, stops) ==
  /\ Scanning
  /\ Round(d, stops)
  /\ escape' \in BOOLEAN /\ inString' \in BOOLEAN
  /\ inString => inString'
  /\ \/ /\ d = data /\ text[at] \in {Quote, Blank}
        /\ data = <<>> \/ (stops /\ inString' = inString)
     \/ /\ d = Append(data, text[at]) /\ inString' = inString
        /\ inString \/ text[at] # Blank
        /\ stops <=> (~inString /\ d # <<Slash>> /\ Boundary(text[at], Char(at + 1)))

LEMMA RoundSteps ==
  ASSUME TypeOK, QuoteChar \/ BlankChar \/ OtherChar
  PROVE  \E d, stops : Rounds(d, stops)
<1>1. CASE QuoteChar
  <2>1. Rounds(data, inString \/ data # <<>>)
    BY <1>1 DEF TypeOK, QuoteChar, Rounds
  <2>2. QED
    BY <2>1
<1>2. CASE BlankChar
  <2>1. Rounds(data, data # <<>>)
    BY <1>2 DEF TypeOK, BlankChar, Separates, Rounds
  <2>2. QED
    BY <2>1
<1>3. CASE OtherChar
  <2> DEFINE d == Append(data, text[at])
             stops == ~inString /\ d # <<Slash>> /\ Boundary(text[at], Char(at + 1))
  <2>1. /\ Scanning /\ Round(d, stops) /\ inString' = inString
        /\ inString \/ text[at] # Blank
        /\ escape' \in BOOLEAN /\ inString \in BOOLEAN
    BY <1>3 DEF OtherChar, Separates, TypeOK
  <2>2. Rounds(d, stops)
    BY <2>1, Zenon DEF Rounds
  <2>3. QED
    BY <2>2, Zenon
<1>4. QED
  BY <1>1, <1>2, <1>3

-----------------------------------------------------------------------------
(* Types.                                                                  *)

LEMMA RoundKeepsType ==
  ASSUME TypeOK, LineInv, DataInv, NEW d, NEW stops, Rounds(d, stops)
  PROVE  TypeOK'
<1>1. Scanning /\ Round(d, stops) /\ (d = data \/ d = Append(data, text[at]))
  BY DEF Rounds
<1>2. /\ data \in Seq(Chars \ {Newline}) /\ Len(data) < MaxToken /\ saved = <<>>
      /\ text[at] \in Chars \ {Newline} /\ at \in 1..(End - 1) /\ End \in Nat
      /\ MaxToken \in Nat
  BY <1>1, Lexing
<1>3. d \in Seq(Chars \ {Newline}) /\ Len(d) <= MaxToken
  BY <1>1, <1>2
<1>4. /\ text' = text /\ saved' = saved /\ lineno' = lineno /\ out' = out /\ data' = d
      /\ from' \in {at, from} /\ phase' \in {"got", "scan"}
      /\ line' \in [first : 1..(End + 1), last : 1..(End + 1), lineno : Nat]
      /\ next' \in 1..(End + 1) /\ at' \in 1..(End + 1)
      /\ errcode' \in {"none", "eof"} /\ newline' \in BOOLEAN
  BY <1>1, RoundFacts
<1>5. End' = End /\ from' \in 0..End
  BY <1>2, <1>4, SameText DEF TypeOK
<1>6. QED
  BY <1>3, <1>4, <1>5 DEF TypeOK, Rounds

LEMMA LiesWithin ==
  ASSUME text \in Texts, NEW d, NEW f, Len(d) \in Nat, f \in Nat, Lies(d, f), d # <<>>
  PROVE  f \in 1..End
BY TextFacts DEF Lies

LEMMA NextKeepsType ==
  ASSUME TypeOK, LineInv, DataInv, Next
  PROVE  TypeOK'
<1>1. text \in Texts /\ End \in Nat /\ Len(text) \in Nat
  BY TextFacts DEF TypeOK
<1>2. ASSUME QuoteChar \/ BlankChar \/ OtherChar
      PROVE  TypeOK'
  BY <1>2, RoundSteps, RoundKeepsType
<1>3. ASSUME PendingNewline
      PROVE  TypeOK'
  <2>1. Len(<<Newline>>) <= MaxToken
    BY LexerAssumption
  <2>2. text' = text /\ data' = <<Newline>> /\ phase' = "got"
    BY <1>3 DEF PendingNewline
  <2>3. End' = End
    BY <2>2, SameText
  <2>4. QED
    BY <1>3, <2>1, <2>2, <2>3 DEF PendingNewline, TypeOK
<1>4. ASSUME TokenGet
      PROVE  TypeOK'
  <2>1. text' = text
    BY <1>4 DEF TokenGet
  <2>2. End' = End
    BY <2>1, SameText
  <2>3. from' \in 0..End
    <3>1. CASE saved = <<>>
      BY <1>4, <3>1 DEF TokenGet, TypeOK
    <3>2. CASE saved # <<>>
      <4>1. Lies(saved, from + 1) /\ Len(saved) \in Nat /\ from \in 0..End
        BY <3>2 DEF DataInv, TypeOK
      <4>2. from + 1 \in 1..End
        BY <1>1, <3>2, <4>1, LiesWithin
      <4>3. QED
        BY <1>1, <1>4, <3>2, <4>2 DEF TokenGet
    <3>3. QED
      BY <3>1, <3>2
  <2>4. Len(saved) <= MaxToken /\ line.lineno \in Nat
    BY LexerAssumption DEF TypeOK
  <2>5. <<>> \in Seq(Chars \ {Newline}) /\ Len(<<>>) < MaxToken
    BY LexerAssumption
  <2>6. QED
    BY <1>4, <2>1, <2>2, <2>3, <2>4, <2>5 DEF TokenGet, TypeOK
<1>5. ASSUME TooLong
      PROVE  TypeOK'
  <2>1. text' = text
    BY <1>5 DEF TooLong
  <2>2. End' = End
    BY <2>1, SameText
  <2>3. QED
    BY <1>5, <2>1, <2>2 DEF TooLong, TypeOK
<1>6. ASSUME NEW kind \in {"word", "div", "string", "newline"}, NEW d \in Seq(Chars),
             NEW tail \in Seq(Chars \ {Newline}), Len(tail) < MaxToken,
             Give(Token(kind, d), tail)
      PROVE  TypeOK'
  <2>1. text' = text /\ out' = Append(out, Token(kind, d))
    BY <1>6 DEF Give
  <2>2. End' = End
    BY <2>1, SameText
  <2>3. Token(kind, d) \in Tokens
    BY <1>1 DEF Token, Tokens, LineAsked, TypeOK
  <2>4. <<>> \in Seq(Chars \ {Newline}) /\ Len(<<>>) <= MaxToken
    BY LexerAssumption
  <2>5. out' \in Seq(Tokens)
    BY <2>1, <2>3 DEF TypeOK
  <2>6. /\ saved' = tail /\ data' = <<>> /\ phase' = "ask" /\ inString' = FALSE
        /\ UNCHANGED <<text, line, next, at, newline, errcode, escape, lineno, from>>
    BY <1>6 DEF Give
  <2>7. QED
    BY <1>6, <2>2, <2>4, <2>5, <2>6 DEF TypeOK
<1>7. data \in Seq(Chars) /\ saved \in Seq(Chars \ {Newline}) /\ Len(saved) < MaxToken
  <2>1. Newline \in Chars
    BY DEF Chars
  <2>2. <<Newline>> \in Seq(Chars)
    BY <2>1
  <2>3. data \in Seq(Chars \ {Newline}) => data \in Seq(Chars)
    OBVIOUS
  <2>4. QED
    BY <2>2, <2>3 DEF TypeOK
<1>8. ASSUME GiveDiv
      PROVE  TypeOK'
  <2>1. data # <<>> /\ data[1] = Slash /\ Len(data) < MaxToken
    BY <1>8 DEF GiveDiv, IsDiv, Give
  <2>2. data \in Seq(Chars \ {Newline})
    BY <2>1 DEF TypeOK, Slash, Newline
  <2>3. Tail_(data) \in Seq(Chars \ {Newline}) /\ Len(Tail_(data)) < MaxToken
    BY <2>1, <2>2, LexerAssumption DEF Tail_
  <2>4. <<Slash>> \in Seq(Chars)
    BY DEF Chars
  <2>5. QED
    BY <1>6, <1>8, <2>3, <2>4 DEF GiveDiv
<1>9. ASSUME GiveString \/ GiveNewline \/ GiveWord
      PROVE  TypeOK'
  BY <1>6, <1>7, <1>9 DEF GiveString, GiveNewline, GiveWord
<1>10. QED
  BY <1>2, <1>3, <1>4, <1>5, <1>8, <1>9 DEF Next

-----------------------------------------------------------------------------
(* token_get() hands out t and pushes tail back.                           *)
Gives(t, tail) ==
  /\ Give(t, tail)
  /\ data # <<>>
  /\ data = <<Newline>> => t.kind \in {"newline", "string"}
  /\ t = Token(t.kind, t.text)
  /\ \/ tail = saved /\ t.text = data /\ t.kind # "div"
     \/ /\ ~inString /\ t.kind = "div" /\ t.text = <<Slash>> /\ tail = Tail(data)
        /\ data # <<>> /\ data[1] = Slash
  /\ t.kind = "word" => ~inString /\ (data[1] = Slash => data \in Keywords)
  /\ t.kind = "string" <=> inString

LEMMA GiveSteps ==
  ASSUME DataInv, GiveString \/ GiveNewline \/ GiveDiv \/ GiveWord
  PROVE  \E t, tail : Gives(t, tail)
<1>1. ASSUME NEW k \in {"word", "string", "newline"}, NEW d, NEW tail,
             Give(Token(k, d), tail)
      PROVE  /\ data # <<>> /\ Token(k, d).kind = k /\ Token(k, d).text = d
             /\ Token(k, d) = Token(Token(k, d).kind, Token(k, d).text)
  BY <1>1 DEF Token, Give, DataInv
<1>2. CASE GiveString
  BY <1>1, <1>2 DEF GiveString, Gives
<1>3. CASE GiveNewline
  BY <1>1, <1>3 DEF GiveNewline, Gives
<1>4. CASE GiveWord
  BY <1>1, <1>4 DEF GiveWord, IsDiv, Gives
<1>5. CASE GiveDiv
  <2> DEFINE t == Token("div", <<Slash>>)
  <2>1. t.kind = "div" /\ t.text = <<Slash>> /\ t = Token(t.kind, t.text)
    BY DEF Token
  <2>2. Give(t, Tail(data)) /\ data # <<>> /\ data[1] = Slash /\ ~inString
    BY <1>5 DEF GiveDiv, IsDiv, Tail_
  <2>3. data # <<Newline>>
    BY <2>2 DEF Slash, Newline
  <2> HIDE DEF t
  <2>4. Gives(t, Tail(data))
    BY <2>1, <2>2, <2>3 DEF Gives
  <2>5. QED
    BY <2>4
<1>6. QED
  BY <1>2, <1>3, <1>4, <1>5

LEMMA NextKeepsLine ==
  ASSUME TypeOK, LineInv, DataInv, Next
  PROVE  LineInv'
<1>1. ASSUME NEW d, NEW stops, Rounds(d, stops)
      PROVE  LineInv'
  <2>1. Scanning /\ Round(d, stops)
    BY <1>1 DEF Rounds
  <2>2. /\ text' = text /\ lineno' = lineno /\ phase' \in {"got", "scan"}
        /\ errcode' \in {"none", "eof"}
        /\ errcode' = "none" => Good(line', next') /\ at' \in line'.first..line'.last
        /\ AtEnd => newline' = TRUE
        /\ ~AtEnd => newline' = FALSE /\ line' = line /\ errcode' = "none"
    BY <2>1, RoundFacts
  <2>3. lineno = line.lineno
    BY <2>1, Lexing
  <2>4. Good(line', next') => Good(line, next)'
    BY <2>2, SameText
  <2>5. QED
    BY <2>2, <2>3, <2>4 DEF LineInv
<1>2. ASSUME text' = text, line' = line, next' = next, at' = at, errcode' = errcode
      PROVE  errcode' = "none" => Good(line, next)' /\ (at \in line.first..line.last)'
  <2>1. Good(line, next) => Good(line, next)'
    BY <1>2, SameText
  <2>2. QED
    BY <1>2, <2>1 DEF LineInv
<1>3. ASSUME NEW t, NEW tail, Gives(t, tail)
      PROVE  LineInv'
  <2>1. /\ phase' = "ask" /\ text' = text /\ line' = line /\ next' = next /\ at' = at
        /\ errcode' = errcode
    BY <1>3 DEF Gives, Give
  <2>2. QED
    BY <1>2, <2>1 DEF LineInv
<1>4. ASSUME TokenGet
      PROVE  LineInv'
  BY <1>2, <1>4 DEF TokenGet, LineInv
<1>5. ASSUME PendingNewline
      PROVE  LineInv'
  BY <1>2, <1>5 DEF PendingNewline, LineInv
<1>6. ASSUME TooLong
      PROVE  LineInv'
  BY <1>6 DEF TooLong, LineInv
<1>7. QED
  BY <1>1, <1>3, <1>4, <1>5, <1>6, RoundSteps, GiveSteps DEF Next

LEMMA NextKeepsData ==
  ASSUME TypeOK, LineInv, DataInv, Next
  PROVE  DataInv'
<1>1. ASSUME NEW d, NEW stops, Rounds(d, stops)
      PROVE  DataInv'
  <2>1. Scanning /\ Round(d, stops)
    BY <1>1 DEF Rounds
  <2>2. /\ text' = text /\ saved' = saved /\ data' = d
        /\ from' = IF data = <<>> /\ d # <<>> THEN at ELSE from
        /\ \/ phase' = "got" /\ d # <<>>
           \/ phase' = "scan" /\ (d = <<>> \/ (~stops /\ ~AtEnd /\ Len(d) # MaxToken))
        /\ ~AtEnd => newline' = FALSE /\ at' = at + 1
    BY <2>1, RoundFacts
  <2>3. /\ data \in Seq(Chars \ {Newline}) /\ Len(data) < MaxToken /\ saved = <<>>
        /\ text[at] \in Chars \ {Newline} /\ at \in 1..(End - 1) /\ End \in Nat
        /\ MaxToken \in Nat /\ phase = "scan" /\ Len(data) \in Nat
    BY <2>1, Lexing
  <2>4. d = data \/ d = Append(data, text[at])
    BY <1>1 DEF Rounds
  <2>5. d \in Seq(Chars \ {Newline}) /\ Len(d) <= MaxToken
    BY <2>3, <2>4
  <2>6. d # <<Newline>>
    <3>1. SUFFICES ASSUME d = <<Newline>> PROVE FALSE
      OBVIOUS
    <3>2. 1 \in 1..Len(d) /\ d[1] = Newline
      BY <3>1
    <3>3. d[1] \in Chars \ {Newline}
      BY <2>5, <3>2
    <3>4. QED
      BY <3>2, <3>3
  <2>7. Held' => Lies(d, from')
    <3>1. SUFFICES ASSUME d # <<>> PROVE Lies(d, from')
      BY <2>2 DEF Held
    <3>2. CASE d = data
      BY <2>2, <2>3, <2>6, <3>1, <3>2 DEF Held, DataInv
    <3>3. CASE d = Append(data, text[at]) /\ data = <<>>
      BY <2>2, <2>3, <3>1, <3>3 DEF Lies
    <3>4. CASE d = Append(data, text[at]) /\ data # <<>>
      <4>1. /\ Lies(data, from) /\ at = from + Len(data) /\ from' = from /\ data # <<Newline>>
        BY <2>2, <2>3, <3>4 DEF Held, DataInv
      <4>2. from \in Nat
        BY <2>3 DEF TypeOK
      <4>3. Len(d) = Len(data) + 1 /\ d[Len(data) + 1] = text[at]
            /\ \A k \in 1..Len(data) : d[k] = data[k]
        BY <2>3, <3>4
      <4>4. from + Len(d) <= End /\ 1 <= from
        BY <2>3, <4>1, <4>2, <4>3 DEF Lies
      <4>5. ASSUME NEW k \in 1..Len(d)
            PROVE  d[k] = text[from + (k - 1)]
        <5>1. CASE k = Len(data) + 1
          <6>1. from + (k - 1) = at
            BY <2>3, <4>1, <4>2, <5>1
          <6>2. QED
            BY <4>3, <5>1, <6>1
        <5>2. CASE k # Len(data) + 1
          <6>1. k \in 1..Len(data)
            BY <2>3, <4>3, <5>2
          <6>2. QED
            BY <4>1, <4>3, <6>1 DEF Lies
        <5>3. QED
          BY <5>1, <5>2
      <4>6. QED
        BY <4>1, <4>4, <4>5 DEF Lies
    <3>5. QED
      BY <2>4, <3>2, <3>3, <3>4
  <2>8. phase' = "scan" /\ d # <<>> => newline' = FALSE /\ at' = from' + Len(d)
    <3>1. SUFFICES ASSUME phase' = "scan", d # <<>>
          PROVE  newline' = FALSE /\ at' = from' + Len(d)
      OBVIOUS
    <3>2. ~stops /\ newline' = FALSE /\ at' = at + 1
      BY <2>2, <3>1
    <3>3. d = Append(data, text[at])
      BY <1>1, <3>1, <3>2 DEF Rounds
    <3>4. Len(d) = Len(data) + 1
      BY <2>3, <3>3
    <3>5. data # <<>> => at = from + Len(data)
      BY <2>3 DEF DataInv
    <3>6. from \in Nat
      BY <2>3 DEF TypeOK
    <3>7. QED
      BY <2>2, <2>3, <3>1, <3>2, <3>4, <3>5, <3>6
  <2>9. Lies(d, from') => Lies(data, from)'
    BY <2>2, SameText
  <2>10. phase' = "scan" => Len(d) < MaxToken
    BY <2>2, <2>3, <2>5
  <2>11. QED
    BY <2>2, <2>3, <2>6, <2>7, <2>8, <2>9, <2>10 DEF DataInv
<1>2. ASSUME NEW t, NEW tail, Gives(t, tail)
      PROVE  DataInv'
  <2>1. /\ phase' = "ask" /\ text' = text /\ data' = <<>> /\ saved' = tail /\ inString' = FALSE
        /\ from' = from /\ phase = "got"
    BY <1>2 DEF Gives, Give
  <2>2. tail # <<>> => Lies(tail, from + 1)
    <3>1. SUFFICES ASSUME tail # <<>> PROVE Lies(tail, from + 1)
      OBVIOUS
    <3>2. tail = Tail(data) /\ data # <<>> /\ data[1] = Slash
      BY <1>2, <2>1, <3>1 DEF Gives, DataInv
    <3>3. data # <<Newline>>
      BY <3>2 DEF Slash, Newline
    <3>4. Lies(data, from) /\ data \in Seq(Chars) /\ from \in Nat /\ Len(data) \in Nat
      BY <2>1, <3>2, <3>3 DEF Held, DataInv, TypeOK
    <3>5. Len(tail) = Len(data) - 1 /\ \A k \in 1..Len(tail) : tail[k] = data[k + 1]
      BY <3>2, <3>4
    <3>6. End \in Nat
      BY TextFacts DEF TypeOK
    <3>7. from + 1 + Len(tail) <= End /\ 1 <= from + 1
      BY <3>4, <3>5, <3>6 DEF Lies
    <3>8. ASSUME NEW k \in 1..Len(tail)
          PROVE  tail[k] = text[(from + 1) + (k - 1)]
      <4>1. k + 1 \in 1..Len(data) /\ from + ((k + 1) - 1) = (from + 1) + (k - 1)
        BY <3>4, <3>5
      <4>2. data[k + 1] = text[from + ((k + 1) - 1)]
        BY <3>4, <4>1 DEF Lies
      <4>3. QED
        BY <3>5, <4>1, <4>2
    <3>9. QED
      BY <3>7, <3>8 DEF Lies
  <2>3. Lies(tail, from + 1) => Lies(saved, from + 1)'
    BY <2>1, SameText
  <2>4. QED
    BY <2>1, <2>2, <2>3 DEF DataInv, Held
<1>3. ASSUME TokenGet
      PROVE  DataInv'
  <2>1. /\ text' = text /\ saved' = <<>> /\ data' = saved /\ phase = "ask" /\ errcode = "none"
        /\ phase' = IF saved = <<>> THEN "scan" ELSE "got"
        /\ from' = IF saved = <<>> THEN from ELSE from + 1
    BY <1>3 DEF TokenGet
  <2>2. saved # <<>> => Lies(saved, from + 1)
    BY DEF DataInv
  <2>3. Lies(saved, from + 1) /\ saved # <<>> => Lies(data, from)'
    BY <2>1, SameText
  <2>4. saved = <<>> => Len(saved) < MaxToken /\ saved # <<Newline>>
    BY LexerAssumption
  <2>5. QED
    BY <2>1, <2>2, <2>3, <2>4 DEF DataInv, Held
<1>4. ASSUME PendingNewline
      PROVE  DataInv'
  BY <1>4 DEF PendingNewline, DataInv, Held
<1>5. ASSUME TooLong
      PROVE  DataInv'
  BY <1>5 DEF TooLong, DataInv, Held
<1>6. QED
  BY <1>1, <1>2, <1>3, <1>4, <1>5, RoundSteps, GiveSteps DEF Next

-----------------------------------------------------------------------------
(* The line numbers of the tokens.                                         *)

AreNumbered(o) ==
  \A k \in 1..Len(o) :
    o[k].kind \in {"word", "div"}
      /\ ~(k > 1 /\ o[k - 1].kind = "div" /\ o[k].from = o[k - 1].from + 1)
    => Numbered(o[k].from, o[k].lineno)

LEMMA TokensNumbered ==
  /\ LinesAreNumbered <=> AreNumbered(out)
  /\ text' = text => (LinesAreNumbered' <=> AreNumbered(out'))
<1>1. LinesAreNumbered <=> AreNumbered(out)
  BY DEF LinesAreNumbered, AreNumbered, IsTail, Numbered
<1>2. ASSUME text' = text
      PROVE  LinesAreNumbered' <=> AreNumbered(out')
  BY <1>2 DEF LinesAreNumbered, AreNumbered, IsTail, Numbered, Terminated, Newlines, End
<1>3. QED
  BY <1>1, <1>2

LEMMA NumbersGrow ==
  ASSUME AreNumbered(out), out \in Seq(Tokens), NEW t, t.from \in Int,
         t.kind \in {"word", "div"} /\ ~AfterDiv(t.from - 1) => Numbered(t.from, t.lineno)
  PROVE  AreNumbered(Append(out, t))
<1> DEFINE n == Len(out)
           o == Append(out, t)
<1>1. n \in Nat /\ Len(o) = n + 1 /\ o[n + 1] = t
      /\ \A k \in 1..n : o[k] = out[k]
  OBVIOUS
<1> HIDE DEF o
<1>2. ASSUME NEW k \in 1..(n + 1), o[k].kind \in {"word", "div"},
             ~(k > 1 /\ o[k - 1].kind = "div" /\ o[k].from = o[k - 1].from + 1)
      PROVE  Numbered(o[k].from, o[k].lineno)
  <2>1. CASE k = n + 1
    <3>1. ~AfterDiv(t.from - 1)
      <4>1. SUFFICES ASSUME AfterDiv(t.from - 1) PROVE FALSE
        OBVIOUS
      <4>2. n > 0
        BY <1>1, <4>1 DEF AfterDiv
      <4>3. n \in 1..n /\ k - 1 = n /\ k > 1
        BY <1>1, <2>1, <4>2
      <4>4. o[k - 1] = Last(out) /\ o[k] = t
        BY <1>1, <2>1, <4>3 DEF Last
      <4>5. Last(out).kind = "div" /\ t.from = Last(out).from + 1
        BY <4>1 DEF AfterDiv
      <4>6. QED
        BY <1>2, <4>3, <4>4, <4>5
    <3>2. QED
      BY <1>1, <1>2, <2>1, <3>1
  <2>2. CASE k # n + 1
    <3>1. k \in 1..n /\ o[k] = out[k]
      BY <1>1, <2>2
    <3>2. k > 1 => k - 1 \in 1..n /\ o[k - 1] = out[k - 1]
      BY <1>1, <3>1
    <3>3. ~(k > 1 /\ out[k - 1].kind = "div" /\ out[k].from = out[k - 1].from + 1)
      BY <1>2, <3>1, <3>2
    <3>4. QED
      BY <1>2, <3>1, <3>3 DEF AreNumbered
  <2>3. QED
    BY <2>1, <2>2
<1> HIDE DEF n
<1>3. QED
  BY <1>1, <1>2 DEF AreNumbered, o

LEMMA NextKeepsNumbers ==
  ASSUME TypeOK, LineInv, DataInv, NumberInv, Next
  PROVE  NumberInv'
<1>1. ASSUME text' = text, out' = out
      PROVE  /\ LinesAreNumbered'
             /\ \A f : AfterDiv(f) => AfterDiv(f)'
             /\ \A i, n : Numbered(i, n) => Numbered(i, n)'
  <2>1. LinesAreNumbered'
    BY <1>1, TokensNumbered DEF NumberInv
  <2>2. QED
    BY <1>1, <2>1, SameText DEF AfterDiv
<1>2. ASSUME NEW d, NEW stops, Rounds(d, stops)
      PROVE  NumberInv'
  <2>1. Scanning /\ Round(d, stops)
    BY <1>2 DEF Rounds
  <2>2. /\ text' = text /\ saved' = saved /\ data' = d /\ lineno' = lineno /\ out' = out
        /\ from' = IF data = <<>> /\ d # <<>> THEN at ELSE from
    BY <2>1, RoundFacts
  <2>3. /\ Numbered(at, lineno) /\ saved = <<>> /\ phase = "scan"
        /\ data \in Seq(Chars \ {Newline})
    BY <2>1, Lexing
  <2>4. data # <<Newline>>
    BY <2>3 DEF DataInv
  <2>5. Held' => Numbered(from', lineno) \/ AfterDiv(from' - 1)
    <3>1. CASE data = <<>>
      BY <2>2, <2>3, <3>1 DEF Held
    <3>2. CASE data # <<>>
      BY <2>2, <2>3, <2>4, <3>2 DEF Held, NumberInv
    <3>3. QED
      BY <3>1, <3>2
  <2>6. QED
    BY <1>1, <2>2, <2>3, <2>5 DEF NumberInv
<1>3. ASSUME NEW t, NEW tail, Gives(t, tail)
      PROVE  NumberInv'
  <2>1. /\ phase' = "ask" /\ text' = text /\ saved' = tail /\ from' = from /\ phase = "got"
        /\ out' = Append(out, t) /\ saved = <<>>
    BY <1>3 DEF Gives, Give, DataInv
  <2>2. /\ t = Token(t.kind, t.text) /\ (t.kind \in {"word", "div"} => Held)
        /\ tail # <<>> => t.kind = "div"
    <3>1. t.kind = "div" => data # <<Newline>>
      BY <1>3 DEF Gives, Slash, Newline
    <3>2. QED
      BY <1>3, <2>1, <3>1 DEF Gives, Held
  <2>3. t.from = from /\ (t.kind # "string" => t.lineno = lineno)
    BY <2>2 DEF Token, LineAsked
  <2>4. LinesAreNumbered'
    <3>1. AreNumbered(out) /\ out \in Seq(Tokens) /\ t.from \in Int
      BY <2>3, TokensNumbered DEF NumberInv, TypeOK
    <3>2. t.kind \in {"word", "div"} /\ ~AfterDiv(t.from - 1) => Numbered(t.from, t.lineno)
      BY <2>2, <2>3 DEF NumberInv
    <3>3. AreNumbered(Append(out, t))
      BY <3>1, <3>2, NumbersGrow
    <3>4. QED
      BY <2>1, <3>3, TokensNumbered
  <2>5. tail # <<>> => AfterDiv(from)'
    <3>1. out \in Seq(Tokens)
      BY DEF TypeOK
    <3>2. out' # <<>> /\ Last(out') = t
      BY <2>1, <3>1 DEF Last
    <3>3. QED
      BY <2>1, <2>2, <2>3, <3>2 DEF AfterDiv
  <2>6. QED
    BY <2>1, <2>4, <2>5 DEF NumberInv, Held
<1>4. ASSUME TokenGet
      PROVE  NumberInv'
  <2>1. /\ text' = text /\ out' = out /\ saved' = <<>> /\ data' = saved
        /\ from' = IF saved = <<>> THEN from ELSE from + 1
    BY <1>4 DEF TokenGet
  <2>2. Held' => AfterDiv(from' - 1)
    <3>1. SUFFICES ASSUME saved # <<>> PROVE AfterDiv(from' - 1)
      BY <2>1 DEF Held
    <3>2. from' - 1 = from
      BY <2>1, <3>1 DEF TypeOK
    <3>3. QED
      BY <3>1, <3>2 DEF NumberInv
  <2>3. QED
    BY <1>1, <2>1, <2>2 DEF NumberInv
<1>5. ASSUME PendingNewline
      PROVE  NumberInv'
  <2>1. text' = text /\ out' = out /\ saved' = saved /\ from' = from /\ ~Held'
    BY <1>5 DEF PendingNewline, Held
  <2>2. QED
    BY <1>1, <2>1 DEF NumberInv
<1>6. ASSUME TooLong
      PROVE  NumberInv'
  <2>1. text' = text /\ out' = out /\ saved' = saved /\ from' = from /\ ~Held'
    BY <1>6 DEF TooLong, Held
  <2>2. QED
    BY <1>1, <2>1 DEF NumberInv
<1>7. QED
  BY <1>2, <1>3, <1>4, <1>5, <1>6, RoundSteps, GiveSteps DEF Next

-----------------------------------------------------------------------------
(* What a token is made of.                                                *)

(* A character that is not parted from a run's last one carries it on.     *)
LEMMA RunGrows ==
  ASSUME NEW d \in Seq(Chars), d # <<>>, Run(d), NEW c \in Chars, c # Blank,
         ~Boundary(d[Len(d)], c)
  PROVE  Run(Append(d, c))
<1> DEFINE e == Append(d, c)
<1>1. Len(d) \in Nat /\ Len(d) >= 1 /\ Len(d) \in 1..Len(d) /\ Len(e) = Len(d) + 1
      /\ e[Len(d) + 1] = c /\ \A i \in 1..Len(d) : e[i] = d[i]
  OBVIOUS
<1>2. \A i \in 1..Len(e) : i = Len(d) + 1 \/ i \in 1..Len(d)
  BY <1>1
<1>3. c # Par /\ d[Len(d)] # Par
      /\ (d[Len(d)] = Letter => ~IsSym(c)) /\ (IsSym(d[Len(d)]) => c # Letter)
  BY DEF Boundary
<1> HIDE DEF e
<1>4. CASE \A i \in 1..Len(d) : d[i] = Letter
  <2>1. c = Letter
    BY <1>1, <1>3, <1>4 DEF IsSym
  <2>2. \A i \in 1..Len(e) : e[i] = Letter
    BY <1>1, <1>2, <1>4, <2>1
  <2>3. QED
    BY <2>2 DEF Run, e
<1>5. CASE \A i \in 1..Len(d) : IsSym(d[i]) /\ d[i] # Par
  <2>1. IsSym(c)
    BY <1>1, <1>3, <1>5 DEF IsSym
  <2>2. \A i \in 1..Len(e) : IsSym(e[i]) /\ e[i] # Par
    BY <1>1, <1>2, <1>3, <1>5, <2>1
  <2>3. QED
    BY <2>2 DEF Run, e
<1>6. CASE d = <<Par>>
  BY <1>1, <1>3, <1>6
<1>7. QED
  BY <1>4, <1>5, <1>6 DEF Run

LEMMA SingleRun == ASSUME NEW c, c # Blank PROVE Run(<<c>>)
<1> DEFINE d == <<c>>
<1>1. Len(d) = 1 /\ \A i \in 1..Len(d) : d[i] = c
  OBVIOUS
<1> HIDE DEF d
<1>2. Run(d)
  <2>1. CASE c = Letter
    BY <1>1, <2>1 DEF Run
  <2>2. CASE c = Par
    BY <2>2 DEF Run, d
  <2>3. CASE c # Letter /\ c # Par
    BY <1>1, <2>3 DEF Run, IsSym
  <2>4. QED
    BY <2>1, <2>2, <2>3
<1>3. QED
  BY <1>2 DEF d

LEMMA TailRuns ==
  ASSUME NEW d \in Seq(Chars), d # <<>>, d[1] = Slash, Formed(d)
  PROVE  Run(Tail(d))
<1>1. CASE Run(d)
  <2>1. 1 \in 1..Len(d)
    OBVIOUS
  <2>2. d # <<Par>> /\ d[1] # Letter
    BY DEF Slash, Par, Letter
  <2>3. \A i \in 1..Len(d) : IsSym(d[i]) /\ d[i] # Par
    BY <1>1, <2>1, <2>2 DEF Run
  <2>4. \A i \in 1..Len(Tail(d)) : i + 1 \in 1..Len(d) /\ Tail(d)[i] = d[i + 1]
    OBVIOUS
  <2>5. \A i \in 1..Len(Tail(d)) : IsSym(Tail(d)[i]) /\ Tail(d)[i] # Par
    BY <2>3, <2>4
  <2>6. QED
    BY <2>5 DEF Run
<1>2. QED
  BY <1>1 DEF Formed

(* Taking the first element away and adding one at the end.                *)
LEMMA TailsGrow ==
  ASSUME NEW d \in Seq(Chars), d # <<>>, NEW c \in Chars
  PROVE  /\ Tail(d) \in Seq(Chars)
         /\ Tail(Append(d, c)) = Append(Tail(d), c) /\ Append(d, c)[1] = d[1]
         /\ d # <<d[1]>> => Tail(d) # <<>> /\ Tail(d)[Len(Tail(d))] = d[Len(d)]
         /\ d = <<d[1]>> => Tail(d) = <<>>
<1>1. /\ Tail(d) \in Seq(Chars)
      /\ Tail(Append(d, c)) = Append(Tail(d), c) /\ Append(d, c)[1] = d[1]
  OBVIOUS
<1>2. PICK n \in Nat : n = Len(d) /\ n >= 1
  OBVIOUS
<1>3. d = <<d[1]>> => Tail(d) = <<>>
  <2>1. SUFFICES ASSUME NEW a, d = <<a>> PROVE Tail(d) = <<>>
    BY Zenon
  <2>2. QED
    BY <2>1
<1>4. ASSUME d # <<d[1]>>
      PROVE  Tail(d) # <<>> /\ Tail(d)[Len(Tail(d))] = d[Len(d)]
  <2>1. n # 1
    <3>1. ASSUME NEW a, Len(d) = 1, d[1] = a PROVE d = <<a>>
      BY <3>1
    <3>2. QED
      BY <1>2, <1>4, <3>1
  <2>2. PICK m \in Nat : n = m + 1 /\ m >= 1
    <3>1. n - 1 \in Nat /\ n = (n - 1) + 1 /\ n - 1 >= 1
      BY <1>2, <2>1
    <3>2. QED
      BY <3>1
  <2>3. Len(Tail(d)) = m /\ \A i \in 1..m : Tail(d)[i] = d[i + 1]
    <3>1. Len(Tail(d)) = Len(d) - 1 /\ \A i \in 1..(Len(d) - 1) : Tail(d)[i] = d[i + 1]
      OBVIOUS
    <3>2. Len(d) - 1 = m
      BY <1>2, <2>2
    <3>3. QED
      BY <3>1, <3>2
  <2>4. Tail(d)[m] = d[m + 1] /\ Tail(d) # <<>>
    <3> DEFINE tl == Tail(d)
    <3>1. Len(tl) = m /\ \A i \in 1..m : tl[i] = d[i + 1]
      BY <2>3
    <3> HIDE DEF tl
    <3>2. tl # <<>> /\ tl[m] = d[m + 1]
      BY <2>2, <3>1
    <3>3. QED
      BY <3>2 DEF tl
  <2>5. QED
    BY <1>2, <2>2, <2>3, <2>4
<1>5. QED
  BY <1>1, <1>3, <1>4

LEMMA FormedGrows ==
  ASSUME NEW d \in Seq(Chars), NEW c \in Chars, c # Blank,
         d = <<>> \/ (Formed(d) /\ (d = <<Slash>> \/ ~Boundary(d[Len(d)], c)))
  PROVE  Formed(Append(d, c))
<1>1. CASE d = <<>>
  BY <1>1, SingleRun DEF Formed
<1>2. CASE d # <<>> /\ d[1] = Slash /\ d = <<d[1]>>
  <2>1. Append(d, c)[1] = Slash /\ Tail(Append(d, c)) = Append(<<>>, c)
    BY <1>2, TailsGrow
  <2>2. Append(<<>>, c) = <<c>>
    OBVIOUS
  <2>3. QED
    BY <2>1, <2>2, SingleRun DEF Formed
<1>3. CASE d # <<>> /\ d # <<Slash>> /\ Formed(d) /\ ~Boundary(d[Len(d)], c)
  <2>1. CASE Run(d)
    BY <1>3, <2>1, RunGrows DEF Formed
  <2>2. CASE d[1] = Slash /\ Run(Tail(d))
    <3>1. /\ Tail(d) \in Seq(Chars) /\ Tail(d) # <<>> /\ Tail(d)[Len(Tail(d))] = d[Len(d)]
          /\ Tail(Append(d, c)) = Append(Tail(d), c) /\ Append(d, c)[1] = Slash
      BY <1>3, <2>2, TailsGrow
    <3> DEFINE tl == Tail(d)
    <3>2. tl \in Seq(Chars) /\ tl # <<>> /\ Run(tl) /\ ~Boundary(tl[Len(tl)], c)
      BY <1>3, <2>2, <3>1
    <3> HIDE DEF tl
    <3>3. Run(Append(tl, c))
      BY <3>2, RunGrows
    <3>4. QED
      BY <3>1, <3>3 DEF Formed, tl
  <2>3. QED
    BY <1>3, <2>1, <2>2 DEF Formed
<1>4. CASE d = <<Slash>>
  <2>1. d # <<>> /\ d[1] = Slash /\ d = <<d[1]>>
    BY <1>4
  <2>2. QED
    BY <1>2, <2>1
<1>5. QED
  BY <1>1, <1>3, <1>4

AreRuns(o) ==
  \A k \in 1..Len(o) :
    o[k].kind = "word" =>
      /\ IsRun(o[k].text)
      /\ (k > 1 /\ o[k - 1].kind = "word" /\ Adjacent(o[k - 1], o[k])) =>
           Boundary(text[o[k].from - 1], text[o[k].from])

LEMMA TokensRun ==
  /\ TokensAreRuns <=> TypeOK /\ AreRuns(out)
  /\ text' = text => (TokensAreRuns' <=> TypeOK' /\ AreRuns(out'))
<1>1. TokensAreRuns <=> TypeOK /\ AreRuns(out)
  BY DEF TokensAreRuns, AreRuns
<1>2. ASSUME text' = text
      PROVE  TokensAreRuns' <=> TypeOK' /\ AreRuns(out')
  BY <1>2 DEF TokensAreRuns, AreRuns
<1>3. QED
  BY <1>1, <1>2

LEMMA RunsGrow ==
  ASSUME AreRuns(out), out \in Seq(Tokens), NEW t,
         t.kind = "word" =>
           /\ IsRun(t.text)
           /\ (out # <<>> /\ Last(out).kind = "word" /\ Adjacent(Last(out), t)) =>
                Boundary(text[t.from - 1], text[t.from])
  PROVE  AreRuns(Append(out, t))
<1> DEFINE n == Len(out)
           o == Append(out, t)
<1>1. n \in Nat /\ Len(o) = n + 1 /\ o[n + 1] = t
      /\ \A k \in 1..n : o[k] = out[k]
  OBVIOUS
<1> HIDE DEF o
<1>2. ASSUME NEW k \in 1..(n + 1), o[k].kind = "word"
      PROVE  /\ IsRun(o[k].text)
             /\ (k > 1 /\ o[k - 1].kind = "word" /\ Adjacent(o[k - 1], o[k])) =>
                  Boundary(text[o[k].from - 1], text[o[k].from])
  <2>1. CASE k = n + 1
    <3>1. k > 1 => out # <<>> /\ n \in 1..n /\ k - 1 = n
      BY <1>1, <2>1
    <3>2. k > 1 => o[k - 1] = Last(out)
      BY <1>1, <3>1 DEF Last
    <3>3. QED
      BY <1>1, <1>2, <2>1, <3>1, <3>2
  <2>2. CASE k # n + 1
    <3>1. k \in 1..n /\ o[k] = out[k]
      BY <1>1, <2>2
    <3>2. k > 1 => k - 1 \in 1..n /\ o[k - 1] = out[k - 1]
      BY <1>1, <3>1
    <3>3. QED
      BY <1>2, <3>1, <3>2 DEF AreRuns
  <2>3. QED
    BY <2>1, <2>2
<1> HIDE DEF n
<1>3. QED
  BY <1>1, <1>2 DEF AreRuns, o

(* The characters of a round are well formed, and the run goes on unless   *)
(* the round is the token's last one.                                      *)
LEMMA RoundRuns ==
  ASSUME TypeOK, LineInv, DataInv, RunInv, NEW d, NEW stops, Rounds(d, stops),
         d # <<>>, ~inString'
  PROVE  /\ Formed(d)
         /\ \/ d = data /\ at = from' + Len(d)
            \/ at + 1 = from' + Len(d) /\ (stops <=> (d # <<Slash>> /\ Parted(at + 1)))
<1>1. Scanning /\ Round(d, stops) /\ ~inString
  BY DEF Rounds
<1>2. from' = IF data = <<>> /\ d # <<>> THEN at ELSE from
  BY <1>1, RoundFacts
<1>3. /\ data \in Seq(Chars \ {Newline}) /\ phase = "scan" /\ Len(data) \in Nat
      /\ text[at] \in Chars \ {Newline, Hash} /\ at \in Nat /\ Char(at) = text[at]
      /\ text \in Texts
  BY <1>1, Lexing
<1>4. data # <<>> => /\ Formed(data) /\ (data = <<Slash>> \/ ~Parted(at))
                     /\ at = from + Len(data) /\ data[Len(data)] = text[at - 1]
  <2>1. SUFFICES ASSUME data # <<>>
                 PROVE  /\ Formed(data) /\ (data = <<Slash>> \/ ~Parted(at))
                        /\ at = from + Len(data) /\ data[Len(data)] = text[at - 1]
    OBVIOUS
  <2>2. Formed(data) /\ (data = <<Slash>> \/ ~Parted(at))
    BY <1>1, <1>3, <2>1 DEF RunInv
  <2>3. at = from + Len(data) /\ Lies(data, from) /\ from \in Nat
    BY <1>3, <2>1 DEF DataInv, Held, TypeOK
  <2>4. PICK n \in Nat : n = Len(data) /\ n >= 1
    BY <1>3, <2>1
  <2>5. data[n] = text[from + (n - 1)] /\ from + (n - 1) = at - 1
    BY <2>3, <2>4 DEF Lies
  <2>6. QED
    BY <2>2, <2>3, <2>4, <2>5
<1>5. CASE d = data
  BY <1>2, <1>4, <1>5
<1>6. CASE d = Append(data, text[at])
           /\ (stops <=> (~inString /\ d # <<Slash>> /\ Boundary(text[at], Char(at + 1))))
           /\ (inString \/ text[at] # Blank)
  <2>1. Formed(d)
    <3>1. data \in Seq(Chars) /\ text[at] \in Chars /\ text[at] # Blank
      BY <1>1, <1>3, <1>6
    <3>2. data = <<>> \/ (Formed(data)
                          /\ (data = <<Slash>> \/ ~Boundary(data[Len(data)], text[at])))
      BY <1>3, <1>4 DEF Parted
    <3>3. QED
      BY <1>6, <3>1, <3>2, FormedGrows
  <2>2. stops <=> (d # <<Slash>> /\ Parted(at + 1))
    <3>1. (at + 1) - 1 = at
      BY <1>3
    <3>2. QED
      BY <1>1, <1>6, <3>1 DEF Parted
  <2>3. at + 1 = from' + Len(d)
    <3>1. Len(d) = Len(data) + 1 /\ (data = <<>> => Len(data) = 0)
      BY <1>3, <1>6
    <3>2. from \in Nat
      BY DEF TypeOK
    <3>3. QED
      BY <1>2, <1>3, <1>4, <3>1, <3>2
  <2>4. QED
    BY <2>1, <2>2, <2>3
<1>7. QED
  BY <1>5, <1>6 DEF Rounds

LEMMA RoundKeepsRuns ==
  ASSUME TypeOK, LineInv, DataInv, RunInv, TypeOK', NEW d, NEW stops, Rounds(d, stops)
  PROVE  RunInv'
<1>1. Scanning /\ Round(d, stops) /\ (d = data => data = <<>> \/ stops)
      /\ (d = data \/ d = Append(data, text[at]))
  <2>1. data \in Seq(Chars \ {Newline})
    BY Lexing DEF Rounds
  <2>2. d = Append(data, text[at]) => d # data
    <3>1. Len(Append(data, text[at])) = Len(data) + 1 /\ Len(data) \in Nat
      BY <2>1
    <3>2. QED
      BY <3>1
  <2>3. QED
    BY <2>2 DEF Rounds
<1>2. /\ text' = text /\ saved' = saved /\ out' = out /\ data' = d
      /\ from' = IF data = <<>> /\ d # <<>> THEN at ELSE from
      /\ \/ phase' = "got" /\ d # <<>> /\ (stops \/ AtEnd \/ Len(d) = MaxToken)
         \/ phase' = "scan" /\ (d = <<>> \/ (~stops /\ ~AtEnd /\ Len(d) # MaxToken))
      /\ AtEnd => at' > at + 1
      /\ ~AtEnd => at' = at + 1
      /\ at' \in 1..(End + 1)
  BY <1>1, RoundFacts
<1>3. /\ phase = "scan" /\ at \in Nat /\ End \in Nat /\ saved = <<>>
      /\ data \in Seq(Chars \ {Newline}) /\ data # <<Newline>>
  BY <1>1, Lexing DEF DataInv
<1>4. at' \in Nat /\ at' >= at + 1
  BY <1>2, <1>3
<1>5. d # <<>> /\ ~inString' =>
         /\ Formed(d)
         /\ \/ d = data /\ at = from' + Len(d)
            \/ at + 1 = from' + Len(d) /\ (stops <=> (d # <<Slash>> /\ Parted(at + 1)))
  BY RoundRuns
<1>6. phase' = "scan" /\ ~inString' /\ d # <<>> =>
        Formed(d) /\ (d = <<Slash>> \/ ~Parted(at'))
  BY <1>1, <1>2, <1>5
<1>7. phase' = "got" /\ ~inString' =>
        /\ Formed(d)
        /\ Len(d) = MaxToken \/ at' > from' + Len(d) \/ Parted(from' + Len(d))
  <2>1. SUFFICES ASSUME phase' = "got", ~inString'
                 PROVE  /\ Formed(d)
                        /\ Len(d) = MaxToken \/ at' > from' + Len(d) \/ Parted(from' + Len(d))
    OBVIOUS
  <2>2. d # <<>> /\ (stops \/ AtEnd \/ Len(d) = MaxToken)
    BY <1>2, <2>1
  <2>3. CASE d = data /\ at = from' + Len(d)
    BY <1>3, <1>4, <1>5, <2>1, <2>2, <2>3
  <2>4. CASE at + 1 = from' + Len(d) /\ (stops <=> (d # <<Slash>> /\ Parted(at + 1)))
    BY <1>2, <1>5, <2>1, <2>2, <2>4
  <2>5. QED
    BY <1>5, <2>1, <2>2, <2>3, <2>4
<1>8. ASSUME out # <<>>, Last(out).kind = "word"
      PROVE  LET e == Last(out).from + Len(Last(out).text)
             IN  Parted(e) \/ (at' > e /\ (Held' => from' > e))
  <2> DEFINE e == Last(out).from + Len(Last(out).text)
  <2>1. Parted(e) \/ (at > e /\ (Held => from > e))
    BY <1>8 DEF RunInv
  <2>2. e \in Nat
    <3>1. out \in Seq(Tokens)
      BY DEF TypeOK
    <3>2. Len(out) \in 1..Len(out)
      BY <1>8, <3>1, EmptySeq
    <3>3. Last(out) \in Tokens
      BY <3>1, <3>2, ElementOfSeq DEF Last
    <3>4. QED
      BY <3>3 DEF Tokens
  <2> HIDE DEF e
  <2>3. Held' /\ data # <<>> => Held /\ from' = from
    BY <1>2, <1>3 DEF Held
  <2>4. Held' /\ data = <<>> => from' = at
    BY <1>2 DEF Held
  <2>5. at > e => at' > e
    BY <1>3, <1>4, <2>2
  <2>6. Parted(e) \/ (at' > e /\ (Held' => from' > e))
    BY <2>1, <2>3, <2>4, <2>5
  <2>7. QED
    BY <2>6 DEF e
<1>9. TokensAreRuns'
  BY <1>2, TokensRun DEF RunInv
<1>10. /\ \A e : Parted(e) => Parted(e)'
       /\ Parted(at') => Parted(at)'
  BY <1>2, SameText DEF Parted
<1>11. QED
  BY <1>2, <1>3, <1>6, <1>7, <1>8, <1>9, <1>10, SameText DEF RunInv

LEMMA GiveKeepsRuns ==
  ASSUME TypeOK, LineInv, DataInv, RunInv, TypeOK', NEW t, NEW tail, Gives(t, tail)
  PROVE  RunInv'
<1>1. /\ phase = "got" /\ phase' = "ask" /\ text' = text /\ saved' = tail /\ from' = from
      /\ at' = at /\ out' = Append(out, t) /\ saved = <<>> /\ Len(data) < MaxToken
      /\ data # <<>> /\ from \in Nat /\ at \in Nat /\ MaxToken \in Nat
      /\ out \in Seq(Tokens)
  <2>1. End \in Nat
    BY TextFacts DEF TypeOK
  <2>2. QED
    BY <2>1, LexerAssumption DEF Gives, Give, DataInv, TypeOK
<1>2. t = Token(t.kind, t.text) /\ t.from = from
  <2>1. t = Token(t.kind, t.text)
    BY DEF Gives
  <2>2. QED
    BY <2>1 DEF Token
<1>3. t.kind \in {"word", "div"} => data # <<Newline>> /\ ~inString /\ Held
  <2>1. t.kind = "div" => data # <<Newline>>
    BY DEF Gives, Slash, Newline
  <2>2. QED
    BY <1>1, <2>1 DEF Gives, Held
<1>4. t.kind \in {"word", "div"} =>
        /\ Formed(data) /\ data \in Seq(Chars)
        /\ at > from + Len(data) \/ Parted(from + Len(data))
  <2>1. SUFFICES ASSUME t.kind \in {"word", "div"}
                 PROVE  /\ Formed(data) /\ data \in Seq(Chars)
                        /\ at > from + Len(data) \/ Parted(from + Len(data))
    OBVIOUS
  <2>2. data \in Seq(Chars) /\ Len(data) # MaxToken
    <3>1. data \in Seq(Chars \ {Newline})
      BY <1>3, <2>1 DEF TypeOK
    <3>2. Len(data) \in Nat
      BY <3>1
    <3>3. data \in Seq(Chars)
      BY <3>1, SeqMonotonic
    <3>4. QED
      BY <1>1, <3>2, <3>3
  <2>3. QED
    BY <1>1, <1>3, <2>1, <2>2 DEF RunInv
<1>5. out' # <<>> /\ Last(out') = t
  BY <1>1 DEF Last
<1>6. t.kind = "word" => t.text = data
  BY <1>1 DEF Gives
<1>7. saved' # <<>> =>
        LET e == from + 1 + Len(tail) IN Run(tail) /\ (at > e \/ Parted(e))
  <2>1. SUFFICES ASSUME tail # <<>>
                 PROVE  LET e == from + 1 + Len(tail) IN Run(tail) /\ (at > e \/ Parted(e))
    BY <1>1
  <2>2. t.kind = "div" /\ tail = Tail(data) /\ data[1] = Slash
    BY <1>1, <2>1 DEF Gives
  <2>3. Run(tail)
    BY <1>1, <1>4, <2>2, TailRuns
  <2>4. from + 1 + Len(tail) = from + Len(data)
    <3>1. Len(tail) = Len(data) - 1 /\ Len(data) \in Nat
      BY <1>1, <1>4, <2>2
    <3>2. QED
      BY <1>1, <3>1
  <2>5. QED
    BY <1>4, <2>2, <2>3, <2>4
<1>8. t.kind = "word" => Parted(t.from + Len(t.text)) \/ at > t.from + Len(t.text)
  BY <1>2, <1>4, <1>6
<1>9. t.kind = "word" =>
        /\ IsRun(t.text)
        /\ (out # <<>> /\ Last(out).kind = "word" /\ Adjacent(Last(out), t)) =>
             Boundary(text[t.from - 1], text[t.from])
  <2>1. SUFFICES ASSUME t.kind = "word"
                 PROVE  /\ IsRun(t.text)
                        /\ (out # <<>> /\ Last(out).kind = "word" /\ Adjacent(Last(out), t)) =>
                             Boundary(text[t.from - 1], text[t.from])
    OBVIOUS
  <2>2. data[1] = Slash => data \in Keywords
    BY <2>1 DEF Gives
  <2>3. IsRun(data)
    BY <1>4, <2>1, <2>2 DEF Formed, Run, IsRun
  <2>4. ASSUME out # <<>>, Last(out).kind = "word", Adjacent(Last(out), t)
        PROVE  Boundary(text[from - 1], text[from])
    <3>1. from = Last(out).from + Len(Last(out).text)
      BY <1>2, <2>4 DEF Adjacent
    <3>2. Parted(from) \/ (Held => from > from)
      BY <2>4, <3>1 DEF RunInv
    <3>3. Parted(from)
      BY <1>1, <1>3, <2>1, <3>2
    <3>4. Char(from) = text[from]
      <4>1. Lies(data, from) /\ Len(data) \in Nat /\ Len(data) >= 1
        BY <1>1, <1>3, <1>4, <2>1 DEF DataInv
      <4>2. text \in Texts /\ End \in Nat
        BY TextFacts DEF TypeOK
      <4>3. from \in 1..(End - 1)
        BY <1>1, <4>1, <4>2 DEF Lies
      <4>4. QED
        BY <4>2, <4>3, TextFacts
    <3>5. QED
      BY <3>3, <3>4 DEF Parted
  <2>5. QED
    BY <1>2, <1>6, <2>1, <2>3, <2>4
<1>10. TokensAreRuns'
  <2>1. AreRuns(out)
    BY TokensRun DEF RunInv
  <2>2. AreRuns(out')
    BY <1>1, <1>9, <2>1, RunsGrow
  <2>3. QED
    BY <1>1, <2>2, TokensRun
<1>11. \A e : Parted(e) => Parted(e)'
  BY <1>1, SameText
<1>12. saved' # <<>> =>
         LET e == from' + 1 + Len(saved') IN Run(saved') /\ (at' > e \/ Parted(e))
  BY <1>1, <1>7
<1>13. out' # <<>> /\ Last(out').kind = "word" =>
         LET e == Last(out').from + Len(Last(out').text)
         IN  Parted(e) \/ at' > e
  BY <1>1, <1>5, <1>8
<1>14. ~Held' /\ phase' = "ask"
  BY <1>1 DEF Held
<1>15. Last(out)' = Last(out')
  BY DEF Last
<1>16. QED
  BY <1>10, <1>11, <1>12, <1>13, <1>14, <1>15 DEF RunInv

LEMMA NextKeepsRuns ==
  ASSUME TypeOK, LineInv, DataInv, NumberInv, RunInv, TypeOK', Next
  PROVE  RunInv'
<1>1. ASSUME text' = text, out' = out, at' = at
      PROVE  /\ TokensAreRuns'
             /\ \A e : Parted(e) => Parted(e)'
             /\ Last(out)' = Last(out)
  <2>1. TokensAreRuns'
    BY <1>1, TokensRun DEF RunInv
  <2>2. QED
    BY <1>1, <2>1, SameText
<1>2. ASSUME TokenGet
      PROVE  RunInv'
  <2>1. /\ text' = text /\ out' = out /\ at' = at /\ saved' = <<>> /\ data' = saved
        /\ phase' = IF saved = <<>> THEN "scan" ELSE "got"
        /\ from' = IF saved = <<>> THEN from ELSE from + 1
    BY <1>2 DEF TokenGet
  <2>2. saved # <<>> =>
          /\ Formed(data') /\ (at' > from' + Len(data') \/ Parted(from' + Len(data')))
          /\ Last(out).kind # "word"
    BY <2>1 DEF RunInv, NumberInv, AfterDiv, Formed
  <2>3. saved = <<>> => ~Held'
    BY <2>1 DEF Held
  <2>4. out # <<>> /\ Last(out).kind = "word" =>
          LET e == Last(out).from + Len(Last(out).text)
          IN  Parted(e)' \/ (at' > e /\ ~Held')
    BY <1>1, <2>1, <2>2, <2>3 DEF RunInv
  <2>5. QED
    BY <1>1, <2>1, <2>2, <2>4 DEF RunInv
<1>3. ASSUME PendingNewline \/ TooLong
      PROVE  RunInv'
  <2>1. /\ text' = text /\ out' = out /\ at' = at /\ saved' = saved /\ from' = from
        /\ phase' = "ask" \/ (phase' = "got" /\ data' = <<Newline>>)
    BY <1>3 DEF PendingNewline, TooLong
  <2>2. ~Held'
    BY <2>1 DEF Held
  <2>3. out # <<>> /\ Last(out).kind = "word" =>
          LET e == Last(out).from + Len(Last(out).text)
          IN  Parted(e)' \/ (at' > e /\ ~Held')
    BY <1>1, <2>1, <2>2 DEF RunInv
  <2>4. saved # <<>> =>
          LET e == from + 1 + Len(saved) IN Run(saved) /\ (at' > e \/ Parted(e)')
    BY <1>1, <2>1 DEF RunInv
  <2>5. QED
    BY <1>1, <2>1, <2>3, <2>4 DEF RunInv
<1>4. QED
  BY <1>2, <1>3, RoundSteps, RoundKeepsRuns, GiveSteps, GiveKeepsRuns DEF Next

-----------------------------------------------------------------------------
(* The theorems.                                                           *)

LEMMA InitIsWell == Init => LexInv
<1>1. SUFFICES ASSUME Init PROVE LexInv
  OBVIOUS
<1>2. text \in Texts /\ End \in Nat /\ 1 \in 1..(End + 1)
  BY <1>1, TextFacts DEF Init
<1> DEFINE r == LineFrom(1)
<1>3. /\ line = r.line /\ next = r.next /\ at = r.line.first
      /\ errcode = IF r.eof THEN "eof" ELSE "none"
      /\ newline = FALSE /\ inString = FALSE /\ saved = <<>>
      /\ phase = "ask" /\ data = <<>> /\ escape = FALSE
      /\ lineno = 0 /\ from = 0 /\ out = <<>>
  BY <1>1 DEF Init
<1>4. /\ line \in [first : 1..(End + 1), last : 1..(End + 1), lineno : Nat]
      /\ next \in 1..(End + 1) /\ at \in 1..(End + 1) /\ at = line.first
      /\ errcode = "none" => Good(line, next) /\ at \in line.first..line.last
  <2>1. CASE r.eof
    BY <1>2, <1>3, <2>1, NoLineRead
  <2>2. CASE ~r.eof
    <3>1. line \in [first : 1..(End + 1), last : 1..(End + 1), lineno : Nat]
          /\ next \in 1..(End + 1) /\ Good(line, next)
      BY <1>2, <1>3, <2>2, LineRead
    <3>2. line.first \in 1..(End + 1) /\ line.last \in 1..(End + 1) /\ line.first <= line.last
      BY <3>1 DEF Good
    <3>3. QED
      BY <1>2, <1>3, <3>1, <3>2
  <2>3. QED
    BY <2>1, <2>2
<1>5. TypeOK
  <2>1. <<>> \in Seq(Chars \ {Newline}) /\ <<>> \in Seq(Tokens) /\ Len(<<>>) < MaxToken
    BY LexerAssumption
  <2>2. 0 \in 0..End
    BY <1>2
  <2>3. errcode \in {"none", "eof", "error"}
    BY <1>3
  <2>4. Len(<<>>) <= MaxToken
    BY LexerAssumption
  <2> HIDE DEF r
  <2>5. QED
    BY <1>2, <1>3, <1>4, <2>1, <2>2, <2>3, <2>4 DEF TypeOK
<1>6. LineInv /\ DataInv
  BY <1>3, <1>4 DEF LineInv, DataInv, Held
<1>7. LinesAreNumbered /\ TokensAreRuns
  BY <1>3, <1>5 DEF LinesAreNumbered, TokensAreRuns
<1>8. QED
  BY <1>3, <1>5, <1>6, <1>7 DEF LexInv, NumberInv, RunInv, Held

LEMMA NextKeepsLexInv == LexInv /\ [Next]_vars => LexInv'
<1>1. ASSUME LexInv, Next
      PROVE  LexInv'
  BY <1>1, NextKeepsType, NextKeepsLine, NextKeepsData, NextKeepsNumbers, NextKeepsRuns
  DEF LexInv
<1>2. ASSUME LexInv, UNCHANGED vars
      PROVE  LexInv'
  <2>1. /\ text' = text /\ line' = line /\ next' = next /\ at' = at /\ newline' = newline
        /\ inString' = inString /\ saved' = saved /\ errcode' = errcode /\ phase' = phase
        /\ data' = data /\ escape' = escape /\ lineno' = lineno /\ from' = from /\ out' = out
    BY <1>2 DEF vars, lexVars, callVars
  <2>2. TypeOK'
    BY <1>2, <2>1, SameText DEF LexInv, TypeOK
  <2>3. LineInv'
    BY <1>2, <2>1, SameText DEF LexInv, LineInv
  <2>4. Held' <=> Held
    BY <2>1 DEF Held
  <2>5. DataInv'
    BY <1>2, <2>1, <2>4, SameText DEF LexInv, DataInv
  <2>6. NumberInv'
    <3>1. LinesAreNumbered'
      BY <1>2, <2>1, TokensNumbered DEF LexInv, NumberInv
    <3>2. QED
      BY <1>2, <2>1, <2>4, <3>1, SameText DEF LexInv, NumberInv, AfterDiv
  <2>7. RunInv'
    <3>1. TokensAreRuns'
      BY <1>2, <2>1, <2>2, TokensRun DEF LexInv, RunInv
    <3>2. QED
      BY <1>2, <2>1, <2>4, <3>1, SameText DEF LexInv, RunInv
  <2>8. QED
    BY <2>2, <2>3, <2>5, <2>6, <2>7 DEF LexInv
<1>3. QED
  BY <1>1, <1>2

LEMMA AlwaysLexInv == Spec => []LexInv
BY InitIsWell, NextKeepsLexInv, PTL DEF Spec

(* For every file, every set of keywords and every length of a token: a    *)
(* word or a slash that stok() and token_get() hand out carries the number *)
(* of the line its first character is in, although the number is taken     *)
(* when the call begins and the line may be another one when it ends.      *)
THEOREM LineNumbers == Spec => []LinesAreNumbered
<1>1. LexInv => LinesAreNumbered
  BY DEF LexInv, NumberInv
<1>2. QED
  BY <1>1, AlwaysLexInv, PTL

(* And a token outside strings is a run of letters, a run of symbols, a    *)
(* parenthesis or a keyword; two words that touch in the file are parted   *)
(* at a boundary, so that stok() cuts no run in two.                       *)
THEOREM WordsAreRuns == Spec => []TokensAreRuns
<1>1. LexInv => TokensAreRuns
  BY DEF LexInv, RunInv
<1>2. QED
  BY <1>1, AlwaysLexInv, PTL

-----------------------------------------------------------------------------
(* Literals.                                                               *)

LEMMA SameLiterals ==
  ASSUME text' = text
  PROVE  \A q, c : Literal(q, c)' <=> Literal(q, c)
BY DEF Literal, IsCode, Char, End

LEMMA NextKeepsFresh ==
  ASSUME TypeOK, LineInv, DataInv, Fresh, Next
  PROVE  Fresh'
<1>1. ASSUME QuoteChar \/ BlankChar \/ OtherChar
      PROVE  Fresh'
  <2>1. PICK d, stops : Rounds(d, stops)
    BY <1>1, RoundSteps
  <2>2. Scanning /\ Round(d, stops)
    BY <2>1 DEF Rounds
  <2>3. /\ AtEnd => newline' = TRUE
        /\ ~AtEnd => at' = at + 1 /\ line' = line
    BY <2>2, RoundFacts
  <2>4. at \in Nat /\ line.first \in Nat /\ line.first <= at
    BY <2>2, Lexing
  <2>5. QED
    BY <2>3, <2>4 DEF Fresh
<1>2. ASSUME TokenGet
      PROVE  Fresh'
  BY <1>2 DEF TokenGet, Fresh, DataInv
<1>3. ASSUME PendingNewline \/ TooLong \/ GiveString \/ GiveNewline \/ GiveDiv \/ GiveWord
      PROVE  Fresh'
  BY <1>3 DEF PendingNewline, TooLong, GiveString, GiveNewline, GiveDiv, GiveWord, Give, Fresh
<1>4. QED
  BY <1>1, <1>2, <1>3 DEF Next

(* A literal is in one line, which begins with it.                         *)
LEMMA LiteralLine ==
  ASSUME TypeOK, LineInv, DataInv, Scanning, NEW q \in Nat, NEW c \in Nat,
         1 <= q, q < c, Literal(q, c), line.first <= q, q <= at, at <= c
  PROVE  line.first = q /\ c <= line.last
<1>1. /\ Good(line, next) /\ at \in line.first..line.last /\ at \in Nat
      /\ line.first \in Nat /\ line.last \in Nat /\ 1 <= line.first
  BY Lexing
<1>2. \A i \in line.first..line.last : IsCode(i)
  BY <1>1 DEF Good
<1>3. c <= line.last
  <2>1. SUFFICES ASSUME line.last < c PROVE FALSE
    BY <1>1
  <2>2. line.last + 1 \in q..c
    BY <1>1, <2>1
  <2>3. IsCode(line.last + 1)
    BY <2>2 DEF Literal
  <2>4. QED
    BY <1>1, <2>3 DEF Good
<1>4. line.first = q
  <2>1. SUFFICES ASSUME line.first < q PROVE FALSE
    BY <1>1
  <2>2. text[line.first] # Blank
    BY <1>1 DEF Good
  <2>3. line.first \in 1..(q - 1)
    BY <1>1, <2>1
  <2>4. PICK j \in line.first..(q - 1) : text[j] = Newline
    BY <2>2, <2>3 DEF Literal
  <2>5. j \in line.first..line.last
    BY <1>1, <2>4
  <2>6. text \in Texts /\ End \in Nat /\ line.last < End
    BY <1>1, TextFacts DEF TypeOK, Good
  <2>7. j \in 1..End
    BY <1>1, <2>5, <2>6
  <2>8. QED
    BY <1>2, <2>4, <2>5, <2>6, <2>7, CodeIsText
<1>5. QED
  BY <1>3, <1>4

LEMMA RoundTreats ==
  ASSUME TypeOK, LineInv, DataInv, Fresh, QuoteChar \/ BlankChar \/ OtherChar,
         NEW q \in Nat, NEW c \in Nat, 1 <= q, q + 1 < c, Literal(q, c), Treated(q, c)
  PROVE  Treated(q, c)'
<1>1. PICK d, stops : Rounds(d, stops)
  BY RoundSteps
<1>2. Scanning /\ Round(d, stops)
  BY <1>1 DEF Rounds
<1>3. /\ errcode = "none" /\ at \in line.first..line.last /\ at \in Nat /\ phase = "scan"
      /\ newline = FALSE /\ data \in Seq(Chars \ {Newline}) /\ Len(data) \in Nat
      /\ MaxToken \in Nat /\ line.first \in Nat /\ line.last \in Nat
  BY <1>2, Lexing
<1>4. /\ text' = text /\ out' = out
      /\ from' = IF data = <<>> /\ data' # <<>> THEN at ELSE from
      /\ ~AtEnd => newline' = FALSE /\ at' = at + 1 /\ line' = line
  BY <1>2, RoundFacts
<1>5. PICK b \in Int : at' = b /\ b >= at + 1
                       /\ \A i \in (at + 1)..(b - 1) : AtEnd /\ IsCode(i) => text[i] = Blank
  <2>1. at' \in Int
    <3>1. at' \in 1..(End + 1)
      BY <1>2, RoundFacts
    <3>2. End \in Nat
      BY <1>2, Lexing
    <3>3. QED
      BY <3>1, <3>2
  <2>2. AtEnd => at' > at + 1
    BY <1>2, RoundFacts
  <2>3. PICK b \in Int : at' = b
    BY <2>1
  <2>4. b >= at + 1
    BY <1>3, <1>4, <2>2, <2>3
  <2>5. AtEnd => \A i \in (at + 1)..(at' - 1) : IsCode(i) => text[i] = Blank
    BY <1>2, RoundFacts
  <2>6. AtEnd => \A i \in (at + 1)..(b - 1) : IsCode(i) => text[i] = Blank
    BY <2>3, <2>5
  <2>7. QED
    BY <2>3, <2>4, <2>6
<1>6. IsCode(q) /\ text[q] = Quote /\ text[c] = Quote
      /\ \A i \in (q + 1)..(c - 1) : text[i] \notin {Quote, Backslash}
  BY DEF Literal
<1>7. line.first <= q /\ q <= at /\ at <= c => line.first = q /\ c <= line.last
  BY <1>2, LiteralLine
<1>8. CASE at < q /\ AtEnd
  <2>1. ~(q < b)
    <3>1. SUFFICES ASSUME q < b PROVE FALSE
      OBVIOUS
    <3>2. q \in (at + 1)..(b - 1)
      BY <1>3, <1>8, <3>1
    <3>3. QED
      BY <1>5, <1>6, <1>8, <3>2 DEF Quote, Blank
  <2>2. QED
    BY <1>5, <2>1 DEF Treated
<1>9. CASE at < q /\ ~AtEnd
  <2>1. at + 1 <= q
    BY <1>3, <1>9
  <2>2. at' <= q
    BY <1>4, <1>9, <2>1
  <2>3. QED
    BY <2>2 DEF Treated
<1>10. CASE at = q
  <2>1. line.first = q /\ c <= line.last /\ ~AtEnd
    BY <1>3, <1>7, <1>10 DEF AtEnd
  <2>2. data = <<>> /\ ~escape /\ ~inString
    BY <1>3, <1>10, <2>1 DEF Fresh
  <2>3. QuoteChar
    BY <1>6, <1>10, <2>2 DEF BlankChar, OtherChar, Separates, Quote, Blank
  <2>4. data' = <<>> /\ phase' = "scan" /\ inString' = TRUE /\ escape' = escape
    BY <2>2, <2>3 DEF QuoteChar, Round
  <2>5. at' = q + 1 /\ at' <= c /\ newline' = FALSE /\ line' = line /\ Len(<<>>) = 0
    BY <1>4, <1>10, <2>1
  <2>6. QED
    BY <2>1, <2>2, <2>4, <2>5 DEF Treated
<1>11. CASE /\ q < at /\ at <= c /\ inString /\ ~escape
            /\ line.first = q /\ Len(data) = at - (q + 1) /\ (data # <<>> => from = q + 1)
  <2>1. c <= line.last
    BY <1>3, <1>7, <1>11
  <2>2. CASE at < c
    <3>1. ~AtEnd /\ at \in (q + 1)..(c - 1)
      BY <1>3, <1>11, <2>1, <2>2 DEF AtEnd
    <3>2. OtherChar
      BY <1>6, <1>11, <3>1 DEF QuoteChar, BlankChar, Separates
    <3>3. /\ escape' = FALSE /\ inString' = TRUE /\ data' = Append(data, text[at])
          /\ phase' = IF data' # <<>> /\ Len(data') = MaxToken THEN "got" ELSE "scan"
      BY <1>6, <1>11, <3>1, <3>2 DEF OtherChar, Round, Full, TypeOK
    <3>4. Len(data') = Len(data) + 1 /\ data' # <<>>
      BY <1>3, <3>3
    <3>5. from' = q + 1
      <4>1. CASE data = <<>>
        <5>1. Len(data) = 0
          BY <4>1
        <5>2. QED
          BY <1>3, <1>4, <1>11, <3>4, <4>1, <5>1
      <4>2. QED
        BY <1>4, <1>11, <4>1
    <3>6. at' = at + 1 /\ newline' = FALSE /\ line' = line
      BY <1>4, <3>1
    <3>7. at' <= c /\ Len(data') = at' - (q + 1)
      BY <1>3, <1>11, <2>2, <3>4, <3>6
    <3>8. CASE Len(data') = MaxToken
      BY <3>3, <3>4, <3>7, <3>8 DEF Treated
    <3>9. CASE Len(data') # MaxToken
      BY <1>11, <3>3, <3>4, <3>5, <3>6, <3>7, <3>9 DEF Treated
    <3>10. QED
      BY <3>8, <3>9
  <2>3. CASE at = c
    <3>1. data # <<>>
      <4>1. Len(data) # 0
        BY <1>3, <1>11, <2>3
      <4>2. QED
        BY <4>1
    <3>2. QuoteChar
      BY <1>6, <1>11, <2>3 DEF BlankChar, OtherChar, Separates
    <3>3. data' = data /\ phase' = "got" /\ inString' = TRUE
      BY <1>11, <3>1, <3>2 DEF QuoteChar, Round
    <3>4. from' = q + 1 /\ data' # <<Newline>>
      BY <1>3, <1>4, <1>11, <3>1, <3>3 DEF DataInv
    <3>5. at' > c /\ Len(data') = c - (q + 1)
      BY <1>3, <1>5, <1>11, <2>3, <3>3
    <3>6. QED
      BY <3>3, <3>4, <3>5 DEF Treated
  <2>4. QED
    BY <1>3, <1>11, <2>2, <2>3
<1>12. CASE at > c /\ Delivered(q, c)
  <2>1. Delivered(q, c)'
    BY <1>4, <1>12 DEF Delivered
  <2>2. at' > c
    BY <1>3, <1>5, <1>12
  <2>3. QED
    BY <2>1, <2>2 DEF Treated
<1>13. QED
  <2>1. \/ at <= q
        \/ /\ at <= c /\ inString /\ ~escape
           /\ line.first = q /\ Len(data) = at - (q + 1) /\ (data # <<>> => from = q + 1)
        \/ at > c /\ Delivered(q, c)
    BY <1>3 DEF Treated
  <2>2. QED
    BY <1>3, <1>8, <1>9, <1>10, <1>11, <1>12, <2>1

(* A token handed out is found among the tokens.                           *)
LEMMA OutGrows ==
  ASSUME NEW t, out \in Seq(Tokens), text' = text, out' = Append(out, t)
  PROVE  /\ \E k \in 1..Len(out') : out'[k] = t
         /\ \A q, c : Delivered(q, c) => Delivered(q, c)'
         /\ NonEmpty(out) /\ t.text # <<>> => NonEmpty(out')
<1> DEFINE n == Len(out)
<1>1. /\ n \in Nat /\ Len(out') = n + 1 /\ out'[n + 1] = t /\ n + 1 \in 1..Len(out')
      /\ \A k \in 1..n : k \in 1..Len(out') /\ out'[k] = out[k]
  OBVIOUS
<1> HIDE DEF n
<1>2. \A q, c : Delivered(q, c) => Delivered(q, c)'
  <2>1. SUFFICES ASSUME NEW q, NEW c, Delivered(q, c) PROVE Delivered(q, c)'
    OBVIOUS
  <2>2. PICK k \in 1..n : /\ out[k].kind = "string"
                          /\ out[k].text = SubSeq(text, q + 1, c - 1)
                          /\ q + 1 < c => out[k].from = q + 1
    BY <2>1 DEF Delivered, n
  <2>3. QED
    BY <1>1, <2>2 DEF Delivered
<1>3. NonEmpty(out) /\ t.text # <<>> => NonEmpty(out')
  <2>1. \A k \in 1..Len(out') : k = n + 1 \/ k \in 1..n
    BY <1>1
  <2>2. QED
    BY <1>1, <2>1 DEF NonEmpty, n
<1>4. QED
  BY <1>1, <1>2, <1>3

LEMMA GiveTreats ==
  ASSUME TypeOK, DataInv, NEW t, NEW tail, Gives(t, tail),
         NEW q \in Nat, NEW c \in Nat, 1 <= q, q + 1 < c, c <= Len(text), Treated(q, c)
  PROVE  Treated(q, c)'
<1>1. /\ phase = "got" /\ text' = text /\ at' = at /\ out' = Append(out, t) /\ errcode' = errcode
      /\ Len(data) < MaxToken /\ out \in Seq(Tokens) /\ text \in Seq(Chars)
      /\ MaxToken \in Nat /\ data # <<>>
  BY LexerAssumption, TextFacts DEF Gives, Give, TypeOK
<1>2. CASE errcode = "error" \/ at <= q
  BY <1>1, <1>2 DEF Treated
<1>3. CASE at > c /\ Delivered(q, c)
  BY <1>1, <1>3, OutGrows DEF Treated
<1>4. CASE /\ at > c /\ inString /\ from = q + 1 /\ Len(data) = c - (q + 1)
           /\ data # <<Newline>>
  <2>1. t.kind = "string" /\ t.text = data /\ t.from = q + 1
    <3>1. t.kind = "string" /\ t.text = data /\ t = Token(t.kind, t.text)
      BY <1>4 DEF Gives
    <3>2. QED
      BY <1>4, <3>1 DEF Token
  <2>2. data = SubSeq(text, q + 1, c - 1)
    <3>1. data \in Seq(Chars) /\ Lies(data, from)
      BY <1>1, <1>4 DEF TypeOK, DataInv, Held
    <3>2. \A i \in (q + 1)..(c - 1) : text[i] \in Chars
      BY <1>1
    <3>3. q + 1 \in Int /\ c - 1 \in Int /\ q + 1 <= c - 1 /\ (c - 1) - (q + 1) + 1 = c - (q + 1)
          /\ Len(text) \in Nat
      BY <1>1
    <3> DEFINE lit == SubSeq(text, q + 1, c - 1)
    <3>4. /\ lit \in Seq(Chars) /\ Len(lit) = c - (q + 1)
          /\ \A i \in 1..(c - (q + 1)) : lit[i] = text[(q + 1) + i - 1]
      <4> DEFINE a == q + 1
                 b == c - 1
      <4>1. a \in Int /\ b \in Int /\ a <= b /\ b - a + 1 = c - (q + 1)
            /\ \A i \in a..b : text[i] \in Chars
        BY <3>2, <3>3
      <4> HIDE DEF a, b
      <4>2. /\ SubSeq(text, a, b) \in Seq(Chars)
            /\ Len(SubSeq(text, a, b)) = IF a <= b THEN b - a + 1 ELSE 0
            /\ \A i \in 1..(b - a + 1) : SubSeq(text, a, b)[i] = text[a + i - 1]
        BY <4>1, SubSeqProperties
      <4>3. /\ SubSeq(text, a, b) \in Seq(Chars)
            /\ Len(SubSeq(text, a, b)) = c - (q + 1)
            /\ \A i \in 1..(c - (q + 1)) : SubSeq(text, a, b)[i] = text[a + i - 1]
        BY <4>1, <4>2
      <4>4. QED
        BY <4>3 DEF a, b
    <3> HIDE DEF lit
    <3>5. ASSUME NEW i \in 1..Len(data)
          PROVE  data[i] = lit[i]
      <4>1. data[i] = text[(q + 1) + (i - 1)]
        BY <1>4, <3>1 DEF Lies
      <4>2. (q + 1) + i - 1 = (q + 1) + (i - 1) /\ i \in 1..(c - (q + 1))
        BY <1>4
      <4>3. QED
        BY <3>4, <4>1, <4>2
    <3>6. data = lit
      BY <1>4, <3>1, <3>4, <3>5, SeqEqual
    <3>7. QED
      BY <3>6 DEF lit
  <2>3. PICK k \in 1..Len(out') : out'[k] = t
    BY <1>1, OutGrows
  <2>4. Delivered(q, c)'
    BY <1>1, <2>1, <2>2, <2>3 DEF Delivered
  <2>5. QED
    BY <1>1, <1>4, <2>4 DEF Treated
<1>5. QED
  BY <1>1, <1>2, <1>3, <1>4 DEF Treated

LEMMA NextKeepsLit ==
  ASSUME TypeOK, LineInv, DataInv, LitInv, Next
  PROVE  LitInv'
<1>1. text' = text
  BY DEF Next, QuoteChar, BlankChar, OtherChar, Round, PendingNewline, TokenGet, TooLong,
         GiveString, GiveNewline, GiveDiv, GiveWord, Give
<1>2. Fresh'
  BY NextKeepsFresh DEF LitInv
<1>3. CASE QuoteChar \/ BlankChar \/ OtherChar
  <2>1. out' = out
    BY <1>3 DEF QuoteChar, BlankChar, OtherChar, Round
  <2>2. Len(text) \in Nat
    BY TextFacts DEF TypeOK
  <2>3. \A q, c \in 1..Len(text) : q + 1 < c /\ Literal(q, c) => Treated(q, c)'
    BY <1>3, <2>2, RoundTreats DEF LitInv
  <2>4. \A q, c : Literal(q, c)' <=> Literal(q, c)
    BY <1>1, SameLiterals
  <2>5. NonEmpty(out)'
    BY <2>1 DEF LitInv, NonEmpty
  <2>6. QED
    BY <1>1, <1>2, <2>3, <2>4, <2>5 DEF LitInv
<1>4. ASSUME NEW t, NEW tail, Gives(t, tail)
      PROVE  LitInv'
  <2>1. out' = Append(out, t) /\ out \in Seq(Tokens)
    BY <1>4 DEF Gives, Give, TypeOK
  <2>2. t.text # <<>>
    <3>1. <<Slash>> # <<>>
      OBVIOUS
    <3>2. QED
      BY <1>4, <3>1 DEF Gives
  <2>3. Len(text) \in Nat
    BY TextFacts DEF TypeOK
  <2>4. \A q, c \in 1..Len(text) : q + 1 < c /\ Literal(q, c) => Treated(q, c)'
    BY <1>4, <2>3, GiveTreats DEF LitInv
  <2>5. \A q, c : Literal(q, c)' <=> Literal(q, c)
    BY <1>1, SameLiterals
  <2>6. NonEmpty(out)'
    <3>1. NonEmpty(out')
      BY <1>1, <2>1, <2>2, OutGrows DEF LitInv
    <3>2. QED
      BY <3>1 DEF NonEmpty
  <2>7. QED
    BY <1>1, <1>2, <2>4, <2>5, <2>6 DEF LitInv
<1>5. CASE TokenGet \/ PendingNewline \/ TooLong
  <2>1. /\ out' = out /\ at' = at /\ line' = line
        /\ errcode' = errcode \/ errcode' = "error"
        /\ \/ phase = "ask"
           \/ phase = "scan" /\ newline
           \/ errcode' = "error"
    BY <1>5 DEF TokenGet, PendingNewline, TooLong
  <2>2. \A q, c : Delivered(q, c)' <=> Delivered(q, c)
    BY <1>1, <2>1 DEF Delivered
  <2>3. \A q, c : Treated(q, c) => Treated(q, c)'
    BY <2>1, <2>2 DEF Treated
  <2>4. \A q, c : Literal(q, c)' <=> Literal(q, c)
    BY <1>1, SameLiterals
  <2>5. NonEmpty(out)'
    BY <2>1 DEF LitInv, NonEmpty
  <2>6. QED
    BY <1>1, <1>2, <2>3, <2>4, <2>5 DEF LitInv
<1>6. QED
  BY <1>3, <1>4, <1>5, GiveSteps DEF Next

(* The literals that are the first ones of their lines become tokens, each *)
(* of just its text, and an empty one does not: wherever the line is, and  *)
(* whatever is read before and after it.                                   *)
THEOREM LiteralsKept == Spec => []LiteralsAreKept
<1>1. Init => LitInv
  <2>1. SUFFICES ASSUME Init PROVE LitInv
    OBVIOUS
  <2>2. out = <<>> /\ phase = "ask" /\ at = line.first /\ text \in Texts
    BY <2>1 DEF Init
  <2>3. ASSUME NEW q \in 1..Len(text), NEW c \in 1..Len(text), q + 1 < c, Literal(q, c)
        PROVE  at <= q
    <3>1. IsCode(q) /\ text[q] = Quote
      <4>1. q \in q..c
        <5>1. Len(text) \in Nat
          BY <2>2, TextFacts
        <5>2. QED
          BY <2>3, <5>1
      <4>2. QED
        BY <2>3, <4>1 DEF Literal
    <3>2. \A i \in 1..(at - 1) : IsCode(i) => text[i] = Blank
      <4>1. 1 \in 1..(End + 1) /\ End \in Nat
        BY <2>2, TextFacts
      <4>2. at = LineFrom(1).line.first
        BY <2>1 DEF Init
      <4>3. CASE LineFrom(1).eof
        <5>1. LineFrom(1).line.first = End + 1
              /\ \A i \in 1..End : IsCode(i) => text[i] = Blank
          BY <2>2, <4>1, <4>3, NoLineRead
        <5>2. QED
          BY <4>1, <4>2, <5>1
      <4>4. CASE ~LineFrom(1).eof
        BY <2>2, <4>1, <4>2, <4>4, LineRead
      <4>5. QED
        BY <4>3, <4>4
    <3>3. q \notin 1..(at - 1)
      BY <3>1, <3>2 DEF Quote, Blank
    <3>4. at \in Nat /\ Len(text) \in Nat
      BY <2>1, <2>2, InitIsWell, TextFacts DEF LexInv, TypeOK
    <3>5. QED
      BY <3>3, <3>4
  <2>4. QED
    BY <2>2, <2>3 DEF LitInv, NonEmpty, Fresh, Treated
<1>2. LexInv /\ LitInv /\ [Next]_vars => LitInv'
  <2>1. ASSUME LexInv, LitInv, Next
        PROVE  LitInv'
    BY <2>1, NextKeepsLit DEF LexInv
  <2>2. ASSUME LitInv, UNCHANGED vars
        PROVE  LitInv'
    <3>1. /\ text' = text /\ line' = line /\ at' = at /\ newline' = newline
          /\ inString' = inString /\ errcode' = errcode /\ phase' = phase
          /\ data' = data /\ escape' = escape /\ from' = from /\ out' = out
      BY <2>2 DEF vars, lexVars, callVars
    <3>2. NonEmpty(out)' /\ Fresh'
      BY <2>2, <3>1 DEF LitInv, NonEmpty, Fresh
    <3>3. \A q, c : Delivered(q, c)' <=> Delivered(q, c)
      BY <3>1 DEF Delivered
    <3>4. \A q, c : Treated(q, c)' <=> Treated(q, c)
      BY <3>1, <3>3 DEF Treated
    <3>5. \A q, c : Literal(q, c)' <=> Literal(q, c)
      BY <3>1, SameLiterals
    <3>6. QED
      BY <2>2, <3>1, <3>2, <3>4, <3>5 DEF LitInv
  <2>3. QED
    BY <2>1, <2>2
<1>3. LexInv /\ LitInv => LiteralsAreKept
  <2>1. SUFFICES ASSUME LexInv, LitInv,
                        NEW q \in 1..Len(text), NEW c \in 1..Len(text),
                        q < c, Literal(q, c), Past(c)
                 PROVE  Delivered(q, c) <=> q + 1 < c
    BY DEF LiteralsAreKept
  <2>2. at > c /\ phase = "ask" /\ errcode # "error" /\ at \in Nat /\ Len(text) \in Nat
    BY <2>1, TextFacts DEF Past, LexInv, TypeOK
  <2>3. CASE q + 1 < c
    <3>1. Treated(q, c)
      BY <2>1, <2>3 DEF LitInv
    <3>2. ~(at <= q) /\ ~(at <= c)
      BY <2>1, <2>2
    <3>3. QED
      BY <2>2, <2>3, <3>1, <3>2 DEF Treated
  <2>4. CASE ~(q + 1 < c)
    <3>1. q + 1 \in Int /\ c - 1 \in Int /\ c - 1 < q + 1
      BY <2>1, <2>2, <2>4
    <3>2. SubSeq(text, q + 1, c - 1) = <<>>
      BY <3>1, SubSeqEmpty
    <3>3. ~Delivered(q, c)
      BY <2>1, <3>2 DEF Delivered, LitInv, NonEmpty
    <3>4. QED
      BY <2>4, <3>3
  <2>5. QED
    BY <2>3, <2>4
<1>4. QED
  BY <1>1, <1>2, <1>3, AlwaysLexInv, PTL DEF Spec

-----------------------------------------------------------------------------
(* Recursive functions.                                                    *)

(* Induction up to n, for a set.                                           *)
LEMMA Induction ==
  ASSUME NEW n \in Nat, NEW P, 0 \in P, \A i \in 1..n : i - 1 \in P => i \in P
  PROVE  \A i \in 0..n : i \in P
<1> DEFINE B == {i \in 0..n : i \notin P}
<1>1. SUFFICES ASSUME B # {} PROVE FALSE
  OBVIOUS
<1>2. B \in SUBSET Nat
  OBVIOUS
<1>3. Least(B) \in B /\ \A j \in B : Least(B) <= j
  BY <1>1, <1>2, LeastOf
<1>4. PICK b \in B : \A j \in B : b <= j
  BY <1>3
<1>5. b \in 1..n /\ b \notin P
  BY <1>4
<1>6. b - 1 \in P
  BY <1>4, <1>5
<1>7. QED
  BY <1>5, <1>6

(* A function that is given by its first value and a step.                 *)
Follows(f, n, a, g) == f[0] = a /\ \A i \in 1..n : f[i] = g[i][f[i - 1]]

LEMMA FollowsExists ==
  ASSUME NEW S, NEW a \in S, NEW n \in Nat, NEW g \in [1..n -> [S -> S]]
  PROVE  \E f \in [0..n -> S] : Follows(f, n, a, g)
<1> DEFINE P == {m \in 0..n : \E f \in [0..m -> S] : Follows(f, m, a, g)}
<1>1. 0 \in P
  <2>1. [i \in 0..0 |-> a] \in [0..0 -> S] /\ Follows([i \in 0..0 |-> a], 0, a, g)
    BY DEF Follows
  <2>2. QED
    BY <2>1
<1>2. ASSUME NEW m \in 1..n, m - 1 \in P
      PROVE  m \in P
  <2>1. PICK f \in [0..(m - 1) -> S] : Follows(f, m - 1, a, g)
    BY <1>2
  <2> DEFINE h == [i \in 0..m |-> IF i = m THEN g[m][f[m - 1]] ELSE f[i]]
  <2>2. f[m - 1] \in S /\ g[m] \in [S -> S]
    OBVIOUS
  <2>3. g[m][f[m - 1]] \in S
    BY <2>2
  <2>4. h \in [0..m -> S]
    BY <2>3
  <2>5. /\ h[m] = g[m][f[m - 1]] /\ \A i \in 0..(m - 1) : h[i] = f[i]
        /\ 0 \in 0..(m - 1) /\ m - 1 \in 0..(m - 1)
    OBVIOUS
  <2> HIDE DEF h
  <2>6. ASSUME NEW i \in 1..m
        PROVE  h[i] = g[i][h[i - 1]]
    <3>1. CASE i = m
      BY <2>5, <3>1
    <3>2. CASE i # m
      <4>1. i \in 1..(m - 1) /\ i \in 0..(m - 1) /\ i - 1 \in 0..(m - 1)
        BY <3>2
      <4>2. QED
        BY <2>1, <2>5, <4>1 DEF Follows
    <3>3. QED
      BY <3>1, <3>2
  <2>7. Follows(h, m, a, g)
    BY <2>1, <2>5, <2>6 DEF Follows
  <2>8. QED
    BY <2>4, <2>7
<1> HIDE DEF P
<1>3. \A m \in 0..n : m \in P
  BY <1>1, <1>2, Induction
<1>4. QED
  BY <1>3 DEF P

LEMMA SourceFacts ==
  ASSUME text \in Texts
  PROVE  /\ SourceTo(0) = <<>>
         /\ \A i \in 0..End : SourceTo(i) \in Seq(Chars)
         /\ \A i \in 1..End : SourceTo(i) = IF Counts(i) THEN Append(SourceTo(i - 1), Char(i))
                                            ELSE SourceTo(i - 1)
<1> DEFINE Step(i, w) == IF Counts(i) THEN Append(w, Char(i)) ELSE w
           S == Seq(Chars)
           a == <<>>
           F == CHOOSE f : f = [i \in 0..End |-> IF i = 0 THEN a ELSE Step(i, f[i - 1])]
           g == [i \in 1..End |-> [w \in S |-> Step(i, w)]]
<1>1. \A n : SourceTo(n) = F[n]
  BY DEF SourceTo
<1>2. End \in Nat /\ \A i \in 1..End : Char(i) \in Chars
  BY TextFacts
<1>3. a \in S /\ \A i \in 1..End : \A w \in S : Step(i, w) \in S
  BY <1>2
<1> HIDE DEF S, a, Step
<1>4. /\ g \in [1..End -> [S -> S]]
      /\ \A i \in 1..End : \A w \in S : g[i][w] = Step(i, w)
  BY <1>3
<1> HIDE DEF g
<1>5. PICK f \in [0..End -> S] : Follows(f, End, a, g)
  BY <1>2, <1>3, <1>4, FollowsExists
<1>6. f = [i \in 0..End |-> IF i = 0 THEN a ELSE Step(i, f[i - 1])]
  <2>1. ASSUME NEW i \in 0..End
        PROVE  f[i] = IF i = 0 THEN a ELSE Step(i, f[i - 1])
    <3>1. CASE i = 0
      BY <1>5, <3>1 DEF Follows
    <3>2. CASE i # 0
      <4>1. i \in 1..End /\ i - 1 \in 0..End
        BY <1>2, <3>2
      <4>2. QED
        BY <1>4, <1>5, <3>2, <4>1 DEF Follows
    <3>3. QED
      BY <3>1, <3>2
  <2>2. QED
    BY <2>1
<1>7. F = [i \in 0..End |-> IF i = 0 THEN a ELSE Step(i, F[i - 1])]
  BY <1>6, Zenon
<1> HIDE DEF F
<1>8. F[0] = a /\ \A i \in 1..End : F[i] = Step(i, F[i - 1])
  <2>1. \A i \in 0..End : F[i] = IF i = 0 THEN a ELSE Step(i, F[i - 1])
    BY <1>7
  <2>2. QED
    BY <1>2, <2>1
<1>9. \A i \in 0..End : F[i] \in S
  <2> DEFINE P == {i \in 0..End : F[i] \in S}
  <2>1. 0 \in P
    BY <1>2, <1>3, <1>8
  <2>2. \A i \in 1..End : i - 1 \in P => i \in P
    BY <1>2, <1>3, <1>8
  <2> HIDE DEF P
  <2>3. \A i \in 0..End : i \in P
    BY <1>2, <2>1, <2>2, Induction
  <2>4. QED
    BY <2>3 DEF P
<1>10. QED
  BY <1>1, <1>8, <1>9 DEF S, a, Step

LEMMA SolidFacts ==
  /\ SolidOf(<<>>) = <<>>
  /\ \A s \in Seq(Chars) : SolidOf(s) \in Seq(Chars)
  /\ \A s \in Seq(Chars), c \in Chars :
       SolidOf(Append(s, c)) = IF c \in Solid THEN Append(SolidOf(s), c) ELSE SolidOf(s)
<1> DEFINE Step(c, w) == IF c \in Solid THEN Append(w, c) ELSE w
           S == Seq(Chars)
           a == <<>>
           F(s) == CHOOSE f : f = [k \in 0..Len(s) |-> IF k = 0 THEN a ELSE Step(s[k], f[k - 1])]
<1>1. \A s : SolidOf(s) = F(s)[Len(s)]
  BY DEF SolidOf
<1>2. a \in S /\ \A c \in Chars : \A w \in S : Step(c, w) \in S
  OBVIOUS
<1> HIDE DEF a, Step
<1>3. ASSUME NEW s \in S
      PROVE  /\ F(s)[0] = a
             /\ \A k \in 1..Len(s) : F(s)[k] = Step(s[k], F(s)[k - 1])
             /\ \A k \in 0..Len(s) : F(s)[k] \in S
  <2> DEFINE n == Len(s)
             h == F(s)
             g == [k \in 1..n |-> [w \in S |-> Step(s[k], w)]]
  <2>1. n \in Nat /\ \A k \in 1..n : s[k] \in Chars
    OBVIOUS
  <2> HIDE DEF n, S
  <2>2. /\ g \in [1..n -> [S -> S]]
        /\ \A k \in 1..n : \A w \in S : g[k][w] = Step(s[k], w)
    BY <1>2, <2>1
  <2> HIDE DEF g
  <2>3. PICK f \in [0..n -> S] : Follows(f, n, a, g)
    BY <1>2, <2>1, <2>2, FollowsExists
  <2>4. f = [k \in 0..n |-> IF k = 0 THEN a ELSE Step(s[k], f[k - 1])]
    <3>1. ASSUME NEW k \in 0..n
          PROVE  f[k] = IF k = 0 THEN a ELSE Step(s[k], f[k - 1])
      <4>1. CASE k = 0
        BY <2>3, <4>1 DEF Follows
      <4>2. CASE k # 0
        <5>1. k \in 1..n /\ k - 1 \in 0..n
          BY <2>1, <4>2
        <5>2. QED
          BY <2>2, <2>3, <4>2, <5>1 DEF Follows
      <4>3. QED
        BY <4>1, <4>2
    <3>2. QED
      BY <3>1
  <2>5. h = [k \in 0..n |-> IF k = 0 THEN a ELSE Step(s[k], h[k - 1])]
    BY <2>4, Zenon DEF n
  <2> HIDE DEF F, h
  <2>6. h[0] = a /\ \A k \in 1..n : h[k] = Step(s[k], h[k - 1])
    <3>1. \A k \in 0..n : h[k] = IF k = 0 THEN a ELSE Step(s[k], h[k - 1])
      BY <2>5
    <3>2. QED
      BY <2>1, <3>1
  <2>7. \A k \in 0..n : h[k] \in S
    <3> DEFINE P == {k \in 0..n : h[k] \in S}
    <3>1. 0 \in P
      BY <1>2, <2>1, <2>6
    <3>2. \A k \in 1..n : k - 1 \in P => k \in P
      BY <1>2, <2>1, <2>6
    <3> HIDE DEF P
    <3>3. \A k \in 0..n : k \in P
      BY <2>1, <3>1, <3>2, Induction
    <3>4. QED
      BY <3>3 DEF P
  <2>8. QED
    BY <2>6, <2>7 DEF h, n
<1> HIDE DEF F
<1>4. ASSUME NEW s \in S, NEW c \in Chars
      PROVE  SolidOf(Append(s, c)) = Step(c, SolidOf(s))
  <2> DEFINE n == Len(s)
             t == Append(s, c)
             f == F(s)
             h == F(t)
  <2>1. /\ n \in Nat /\ t \in S /\ Len(t) = n + 1 /\ t[n + 1] = c
        /\ \A k \in 1..n : t[k] = s[k]
    OBVIOUS
  <2> HIDE DEF t, S
  <2>2. f[0] = a /\ \A k \in 1..n : f[k] = Step(s[k], f[k - 1])
    BY <1>3
  <2>3. h[0] = a /\ \A k \in 1..(n + 1) : h[k] = Step(t[k], h[k - 1])
    BY <1>3, <2>1
  <2>4. SolidOf(s) = f[n] /\ SolidOf(t) = h[n + 1]
    BY <1>1, <2>1
  <2> HIDE DEF f, h, n
  <2> DEFINE P == {k \in 0..n : h[k] = f[k]}
  <2>5. 0 \in P
    BY <2>1, <2>2, <2>3
  <2>6. ASSUME NEW k \in 1..n, k - 1 \in P
        PROVE  k \in P
    <3>1. k \in 1..(n + 1) /\ k \in 0..n /\ h[k - 1] = f[k - 1]
      BY <2>1, <2>6
    <3>2. QED
      BY <2>1, <2>2, <2>3, <3>1
  <2> HIDE DEF P
  <2>7. \A k \in 0..n : k \in P
    BY <2>1, <2>5, <2>6, Induction
  <2>8. h[n] = f[n]
    BY <2>1, <2>7 DEF P
  <2>9. n + 1 \in 1..(n + 1) /\ (n + 1) - 1 = n
    BY <2>1
  <2>10. h[n + 1] = Step(c, f[n])
    BY <2>1, <2>3, <2>8, <2>9
  <2>11. QED
    BY <2>4, <2>10 DEF t
<1>5. SolidOf(<<>>) = a
  <2>1. <<>> \in S /\ Len(<<>>) = 0
    OBVIOUS
  <2>2. QED
    BY <1>1, <1>3, <2>1
<1>6. ASSUME NEW s \in S
      PROVE  SolidOf(s) \in S
  <2>1. Len(s) \in 0..Len(s)
    OBVIOUS
  <2>2. QED
    BY <1>1, <1>3, <2>1
<1>7. QED
  BY <1>4, <1>5, <1>6 DEF a, Step

LEMMA SpelledFacts ==
  /\ Spelled(<<>>) = <<>>
  /\ \A s \in Seq(Tokens) : Spelled(s) \in Seq(Chars)
  /\ \A s \in Seq(Tokens), c \in Tokens :
       Spelled(Append(s, c)) = Spelled(s) \o c.text
<1> DEFINE Step(c, w) == w \o c.text
           Q == Seq(Tokens)
           S == Seq(Chars)
           a == <<>>
           F(s) == CHOOSE f : f = [k \in 0..Len(s) |-> IF k = 0 THEN a ELSE Step(s[k], f[k - 1])]
<1>1. \A s : Spelled(s) = F(s)[Len(s)]
  BY DEF Spelled
<1>2. a \in S /\ \A c \in Tokens : \A w \in S : Step(c, w) \in S
  BY DEF Tokens
<1> HIDE DEF a, Step
<1>3. ASSUME NEW s \in Q
      PROVE  /\ F(s)[0] = a
             /\ \A k \in 1..Len(s) : F(s)[k] = Step(s[k], F(s)[k - 1])
             /\ \A k \in 0..Len(s) : F(s)[k] \in S
  <2> DEFINE n == Len(s)
             h == F(s)
             g == [k \in 1..n |-> [w \in S |-> Step(s[k], w)]]
  <2>1. n \in Nat /\ \A k \in 1..n : s[k] \in Tokens
    OBVIOUS
  <2> HIDE DEF n, S, Q
  <2>2. /\ g \in [1..n -> [S -> S]]
        /\ \A k \in 1..n : \A w \in S : g[k][w] = Step(s[k], w)
    BY <1>2, <2>1
  <2> HIDE DEF g
  <2>3. PICK f \in [0..n -> S] : Follows(f, n, a, g)
    BY <1>2, <2>1, <2>2, FollowsExists
  <2>4. f = [k \in 0..n |-> IF k = 0 THEN a ELSE Step(s[k], f[k - 1])]
    <3>1. ASSUME NEW k \in 0..n
          PROVE  f[k] = IF k = 0 THEN a ELSE Step(s[k], f[k - 1])
      <4>1. CASE k = 0
        BY <2>3, <4>1 DEF Follows
      <4>2. CASE k # 0
        <5>1. k \in 1..n /\ k - 1 \in 0..n
          BY <2>1, <4>2
        <5>2. QED
          BY <2>2, <2>3, <4>2, <5>1 DEF Follows
      <4>3. QED
        BY <4>1, <4>2
    <3>2. QED
      BY <3>1
  <2>5. h = [k \in 0..n |-> IF k = 0 THEN a ELSE Step(s[k], h[k - 1])]
    BY <2>4, Zenon DEF n
  <2> HIDE DEF F, h
  <2>6. h[0] = a /\ \A k \in 1..n : h[k] = Step(s[k], h[k - 1])
    <3>1. \A k \in 0..n : h[k] = IF k = 0 THEN a ELSE Step(s[k], h[k - 1])
      BY <2>5
    <3>2. QED
      BY <2>1, <3>1
  <2>7. \A k \in 0..n : h[k] \in S
    <3> DEFINE P == {k \in 0..n : h[k] \in S}
    <3>1. 0 \in P
      BY <1>2, <2>1, <2>6
    <3>2. \A k \in 1..n : k - 1 \in P => k \in P
      BY <1>2, <2>1, <2>6
    <3> HIDE DEF P
    <3>3. \A k \in 0..n : k \in P
      BY <2>1, <3>1, <3>2, Induction
    <3>4. QED
      BY <3>3 DEF P
  <2>8. QED
    BY <2>6, <2>7 DEF h, n
<1> HIDE DEF F
<1>4. ASSUME NEW s \in Q, NEW c \in Tokens
      PROVE  Spelled(Append(s, c)) = Step(c, Spelled(s))
  <2> DEFINE n == Len(s)
             t == Append(s, c)
             f == F(s)
             h == F(t)
  <2>1. /\ n \in Nat /\ t \in Q /\ Len(t) = n + 1 /\ t[n + 1] = c
        /\ \A k \in 1..n : t[k] = s[k]
    OBVIOUS
  <2> HIDE DEF t, S, Q
  <2>2. f[0] = a /\ \A k \in 1..n : f[k] = Step(s[k], f[k - 1])
    BY <1>3
  <2>3. h[0] = a /\ \A k \in 1..(n + 1) : h[k] = Step(t[k], h[k - 1])
    BY <1>3, <2>1
  <2>4. Spelled(s) = f[n] /\ Spelled(t) = h[n + 1]
    BY <1>1, <2>1
  <2> HIDE DEF f, h, n
  <2> DEFINE P == {k \in 0..n : h[k] = f[k]}
  <2>5. 0 \in P
    BY <2>1, <2>2, <2>3
  <2>6. ASSUME NEW k \in 1..n, k - 1 \in P
        PROVE  k \in P
    <3>1. k \in 1..(n + 1) /\ k \in 0..n /\ h[k - 1] = f[k - 1]
      BY <2>1, <2>6
    <3>2. QED
      BY <2>1, <2>2, <2>3, <3>1
  <2> HIDE DEF P
  <2>7. \A k \in 0..n : k \in P
    BY <2>1, <2>5, <2>6, Induction
  <2>8. h[n] = f[n]
    BY <2>1, <2>7 DEF P
  <2>9. n + 1 \in 1..(n + 1) /\ (n + 1) - 1 = n
    BY <2>1
  <2>10. h[n + 1] = Step(c, f[n])
    BY <2>1, <2>3, <2>8, <2>9
  <2>11. QED
    BY <2>4, <2>10 DEF t
<1>5. Spelled(<<>>) = a
  <2>1. <<>> \in Q /\ Len(<<>>) = 0
    OBVIOUS
  <2>2. QED
    BY <1>1, <1>3, <2>1
<1>6. ASSUME NEW s \in Q
      PROVE  Spelled(s) \in S
  <2>1. Len(s) \in 0..Len(s)
    OBVIOUS
  <2>2. QED
    BY <1>1, <1>3, <2>1
<1>7. QED
  BY <1>4, <1>5, <1>6 DEF a, Step

-----------------------------------------------------------------------------
(* The text of the tokens.                                                 *)

(* Where nothing counts nothing is to be found.                            *)
LEMMA NothingCounts ==
  ASSUME text \in Texts, NEW i \in 0..End, NEW j \in i..End,
         \A k \in (i + 1)..j : ~Counts(k)
  PROVE  SourceTo(j) = SourceTo(i)
<1> DEFINE n == j - i
           P == {k \in 0..n : SourceTo(i + k) = SourceTo(i)}
<1>1. End \in Nat /\ n \in Nat /\ i \in Nat /\ j \in Nat /\ i + n = j /\ i + 0 = i
  BY TextFacts
<1>2. 0 \in P
  BY <1>1
<1>3. ASSUME NEW k \in 1..n, k - 1 \in P
      PROVE  k \in P
  <2>1. i + k \in 1..End /\ (i + k) - 1 = i + (k - 1) /\ i + k \in (i + 1)..j /\ k \in 0..n
    BY <1>1
  <2>2. SourceTo(i + k) = SourceTo((i + k) - 1)
    BY <2>1, SourceFacts
  <2>3. QED
    BY <1>3, <2>1, <2>2
<1> HIDE DEF P, n
<1>4. \A k \in 0..n : k \in P
  BY <1>1, <1>2, <1>3, Induction
<1>5. QED
  BY <1>1, <1>4 DEF P

(* Before the line that line_read() finds nothing counts.                  *)
LEMMA GapBefore ==
  ASSUME text \in Texts, NEW p \in 1..(End + 1), p = 1 \/ Char(p - 1) = Newline
  PROVE  /\ LineFrom(p).line.first - 1 \in (p - 1)..End
         /\ SourceTo(LineFrom(p).line.first - 1) = SourceTo(p - 1)
<1> DEFINE f == LineFrom(p).line.first
<1>1. f \in p..(End + 1) /\ \A i \in p..(f - 1) : IsCode(i) => text[i] = Blank
  <2>1. End \in Nat
    BY TextFacts
  <2>2. CASE LineFrom(p).eof
    <3>1. f = End + 1 /\ \A i \in p..End : IsCode(i) => text[i] = Blank
      BY <2>2, NoLineRead
    <3>2. QED
      BY <2>1, <3>1
  <2>3. CASE ~LineFrom(p).eof
    <3>1. /\ LineFrom(p).line \in [first : 1..(End + 1), last : 1..(End + 1), lineno : Nat]
          /\ p <= f /\ \A i \in p..(f - 1) : IsCode(i) => text[i] = Blank
      BY <2>3, LineRead
    <3>2. QED
      BY <2>1, <3>1
  <2>4. QED
    BY <2>2, <2>3
<1> HIDE DEF f
<1>2. End \in Nat /\ f \in Nat /\ p \in Nat /\ p >= 1 /\ p <= f /\ f <= End + 1
  BY <1>1, TextFacts
<1>3. ASSUME NEW i \in p..(f - 1)
      PROVE  ~Counts(i)
  <2>1. i \in 1..End
    BY <1>2
  <2>2. ~(IsCode(i) /\ text[i] \in Solid)
    BY <1>1 DEF Solid, Blank, Letter, Par, Plus, Slash, Newline
  <2>3. ASSUME NEW j \in 1..(i - 1), IsCode(j), text[j] # Blank,
               \A k \in j..(i - 1) : Char(k) # Newline
        PROVE  FALSE
    <3>1. CASE j >= p
      <4>1. j \in p..(f - 1)
        BY <1>2, <2>1, <3>1
      <4>2. QED
        BY <1>1, <2>3, <4>1
    <3>2. CASE j < p
      <4>1. p - 1 \in j..(i - 1) /\ p # 1
        BY <1>2, <2>1, <3>2
      <4>2. QED
        BY <2>3, <4>1
    <3>3. QED
      BY <1>2, <2>1, <3>1, <3>2
  <2>4. QED
    BY <2>2, <2>3 DEF Counts, EndsCode
<1>4. p - 1 \in 0..End /\ f - 1 \in (p - 1)..End /\ (p - 1) + 1 = p
  BY <1>2
<1>5. SourceTo(f - 1) = SourceTo(p - 1)
  BY <1>3, <1>4, NothingCounts
<1>6. QED
  BY <1>4, <1>5 DEF f

(* After the code of a line only the end of the line counts.               *)
LEMMA GapAfter ==
  ASSUME text \in Texts, NEW l \in [first : 1..(End + 1), last : 1..(End + 1), lineno : Nat],
         NEW n \in 1..(End + 1), Good(l, n)
  PROVE  SourceTo(n - 1) = Append(SourceTo(l.last), Newline)
<1>1. /\ End \in Nat /\ n \in Nat /\ l.first \in Nat /\ l.last \in Nat
      /\ 1 <= l.first /\ l.first <= l.last /\ l.last + 1 < n /\ n <= End + 1
      /\ Char(n - 1) = Newline /\ text[l.first] # Blank
  BY TextFacts DEF Good
<1>2. \A i \in l.first..l.last : IsCode(i)
  BY DEF Good
<1>3. \A i \in (l.last + 1)..(n - 2) : Char(i) # Newline
  BY DEF Good
<1>4. \A i \in (l.last + 1)..(n - 1) : ~IsCode(i)
  BY LineEnds
<1>5. SourceTo(n - 2) = SourceTo(l.last)
  <2>1. l.last \in 0..End /\ n - 2 \in l.last..End
    BY <1>1
  <2>2. ASSUME NEW i \in (l.last + 1)..(n - 2) PROVE ~Counts(i)
    <3>1. i \in (l.last + 1)..(n - 1)
      BY <1>1
    <3>2. QED
      BY <1>3, <1>4, <3>1 DEF Counts, EndsCode
  <2>3. QED
    BY <2>1, <2>2, NothingCounts
<1>6. Counts(n - 1)
  <2>1. l.first \in 1..((n - 1) - 1) /\ IsCode(l.first)
    BY <1>1, <1>2
  <2>2. ASSUME NEW k \in l.first..((n - 1) - 1)
        PROVE  Char(k) # Newline
    <3>1. k \in l.first..l.last \/ k \in (l.last + 1)..(n - 2)
      BY <1>1
    <3>2. QED
      BY <1>2, <1>3, <3>1 DEF IsCode
  <2>3. QED
    BY <1>1, <2>1, <2>2 DEF Counts, EndsCode
<1>7. n - 1 \in 1..End /\ (n - 1) - 1 = n - 2
  BY <1>1
<1>8. SourceTo(n - 1) = Append(SourceTo(n - 2), Char(n - 1))
  BY <1>6, <1>7, SourceFacts
<1>9. QED
  BY <1>1, <1>5, <1>8

LEMMA SameSource ==
  ASSUME text' = text
  PROVE  \A n : SourceTo(n)' = SourceTo(n)
BY DEF SourceTo, Counts, EndsCode, IsCode, Char, End

(* What is pending.                                                        *)
Pend(b) == IF b THEN <<Newline>> ELSE <<>>

Joined(o, d, s, b) == Spelled(o) \o d \o s \o Pend(b)

LEMMA SpelledAs ==
  /\ TextIsSpelled <=> SolidOf(Joined(out, data, saved, newline)) = SourceTo(at - 1)
  /\ text' = text =>
       (TextIsSpelled' <=> SolidOf(Joined(out', data', saved', newline')) = SourceTo(at' - 1))
<1>1. ASSUME text' = text
      PROVE  SourceTo(at - 1)' = SourceTo(at' - 1)
  BY <1>1, SameSource
<1>2. QED
  BY <1>1 DEF TextIsSpelled, Joined, Pend

LEMMA JoinedFacts ==
  ASSUME TypeOK
  PROVE  /\ Spelled(out) \in Seq(Chars) /\ data \in Seq(Chars) /\ saved \in Seq(Chars)
         /\ \A x, y \in Seq(Chars) : x \o y \in Seq(Chars) /\ x \o <<>> = x
         /\ \A x, y, z \in Seq(Chars) : (x \o y) \o z = x \o (y \o z)
         /\ \A x \in Seq(Chars), c \in Chars : x \o <<c>> = Append(x, c)
         /\ \A x, y \in Seq(Chars), c \in Chars : x \o Append(y, c) = Append(x \o y, c)
         /\ <<>> \in Seq(Chars) /\ <<Newline>> \in Seq(Chars) /\ Newline \in Chars
<1>1. Newline \in Chars
  BY DEF Chars
<1>2. <<>> \in Seq(Chars) /\ <<Newline>> \in Seq(Chars)
  BY <1>1
<1>3. Spelled(out) \in Seq(Chars)
  BY SpelledFacts DEF TypeOK
<1>4. data \in Seq(Chars) /\ saved \in Seq(Chars)
  <2>1. \A w : w \in Seq(Chars \ {Newline}) => w \in Seq(Chars)
    BY SeqMonotonic
  <2>2. QED
    BY <1>2, <2>1 DEF TypeOK
<1>5. \A x, y \in Seq(Chars) : x \o y \in Seq(Chars) /\ x \o <<>> = x
  BY ConcatProperties, ConcatEmptySeq
<1>6. \A x, y, z \in Seq(Chars) : (x \o y) \o z = x \o (y \o z)
  BY ConcatAssociative
<1>7. \A x \in Seq(Chars), c \in Chars : x \o <<c>> = Append(x, c)
  BY AppendIsConcat
<1>8. ASSUME NEW x \in Seq(Chars), NEW y \in Seq(Chars), NEW c \in Chars
      PROVE  x \o Append(y, c) = Append(x \o y, c)
  <2>1. <<c>> \in Seq(Chars)
    OBVIOUS
  <2>2. Append(y, c) = y \o <<c>> /\ Append(x \o y, c) = (x \o y) \o <<c>>
    BY <1>5, <1>7
  <2>3. QED
    BY <1>6, <2>1, <2>2
<1>9. QED
  BY <1>1, <1>2, <1>3, <1>4, <1>5, <1>6, <1>7, <1>8

LEMMA RoundSpells ==
  ASSUME TypeOK, LineInv, DataInv, TextIsSpelled, NEW d, NEW stops, Rounds(d, stops)
  PROVE  TextIsSpelled'
<1>1. Scanning /\ Round(d, stops)
  BY DEF Rounds
<1>2. /\ text' = text /\ saved' = saved /\ out' = out /\ data' = d
      /\ AtEnd => newline' = TRUE
      /\ ~AtEnd => newline' = FALSE /\ at' = at + 1
  BY <1>1, RoundFacts
<1>3. /\ saved = <<>> /\ newline = FALSE /\ at \in 1..End /\ at \in Nat /\ End \in Nat
      /\ IsCode(at) /\ Char(at) = text[at] /\ text[at] \in Chars \ {Newline, Hash}
      /\ Good(line, next) /\ text \in Texts
      /\ line \in [first : 1..(End + 1), last : 1..(End + 1), lineno : Nat]
      /\ next \in 1..(End + 1)
  <2>1. /\ saved = <<>> /\ newline = FALSE /\ at \in 1..(End - 1) /\ at \in Nat /\ End \in Nat
        /\ IsCode(at) /\ Char(at) = text[at] /\ text[at] \in Chars \ {Newline, Hash}
        /\ Good(line, next) /\ text \in Texts /\ next \in 1..(End + 1)
    BY <1>1, Lexing
  <2>2. line \in [first : 1..(End + 1), last : 1..(End + 1), lineno : Nat]
    BY DEF TypeOK
  <2>3. at \in 1..End
    BY <2>1
  <2>4. QED
    BY <2>1, <2>2, <2>3
<1> DEFINE x == Spelled(out)
<1>4. /\ x \in Seq(Chars) /\ data \in Seq(Chars) /\ <<>> \in Seq(Chars)
      /\ <<Newline>> \in Seq(Chars) /\ Newline \in Chars
  BY JoinedFacts
<1>5. \A y, z \in Seq(Chars) : y \o z \in Seq(Chars) /\ y \o <<>> = y
  BY JoinedFacts
<1>6. \A y \in Seq(Chars), c \in Chars : y \o <<c>> = Append(y, c)
  BY JoinedFacts
<1>7. \A y, z \in Seq(Chars), c \in Chars : y \o Append(z, c) = Append(y \o z, c)
  BY JoinedFacts
<1> HIDE DEF x
<1>8. SolidOf(x \o data) = SourceTo(at - 1)
  <2>1. Joined(out, data, saved, newline) = x \o data
    BY <1>3, <1>4, <1>5 DEF Joined, Pend, x
  <2>2. QED
    BY <2>1, SpelledAs
<1>9. Counts(at) <=> text[at] \in Solid
  BY <1>3 DEF Counts, EndsCode
<1>10. SourceTo(at) = IF text[at] \in Solid THEN Append(SourceTo(at - 1), text[at])
                      ELSE SourceTo(at - 1)
  BY <1>3, <1>9, SourceFacts
<1>11. d \in Seq(Chars) /\ SolidOf(x \o d) = SourceTo(at)
  <2>1. CASE d = data /\ text[at] \in {Quote, Blank}
    <3>1. text[at] \notin Solid
      BY <2>1 DEF Solid, Quote, Blank, Letter, Par, Plus, Slash, Newline
    <3>2. QED
      BY <1>4, <1>8, <1>10, <2>1, <3>1
  <2>2. CASE d = Append(data, text[at])
    <3>1. d \in Seq(Chars) /\ x \o d = Append(x \o data, text[at]) /\ x \o data \in Seq(Chars)
      <4> DEFINE c == text[at]
      <4>1. c \in Chars /\ x \in Seq(Chars) /\ data \in Seq(Chars) /\ d = Append(data, c)
        BY <1>3, <1>4, <2>2
      <4> HIDE DEF c
      <4>2. d \in Seq(Chars)
        BY <4>1
      <4>3. x \o Append(data, c) = Append(x \o data, c)
        BY <1>7, <4>1, Zenon
      <4>4. x \o data \in Seq(Chars)
        BY <1>5, <4>1, Zenon
      <4>5. QED
        BY <4>1, <4>2, <4>3, <4>4 DEF c
    <3>2. SolidOf(x \o d) = IF text[at] \in Solid THEN Append(SolidOf(x \o data), text[at])
                            ELSE SolidOf(x \o data)
      BY <1>3, <3>1, SolidFacts
    <3>3. QED
      BY <1>8, <1>10, <3>1, <3>2
  <2>3. QED
    BY <2>1, <2>2 DEF Rounds
<1>12. x \o d \in Seq(Chars)
  BY <1>4, <1>5, <1>11
<1>13. CASE ~AtEnd
  <2>1. Joined(out', data', saved', newline') = x \o d
    BY <1>2, <1>3, <1>5, <1>11, <1>12, <1>13 DEF Joined, Pend, x
  <2>2. at' - 1 = at
    BY <1>2, <1>3, <1>13
  <2>3. QED
    BY <1>2, <1>11, <2>1, <2>2, SpelledAs
<1>14. CASE AtEnd
  <2>1. Joined(out', data', saved', newline') = Append(x \o d, Newline)
    BY <1>2, <1>3, <1>4, <1>5, <1>6, <1>11, <1>12, <1>14 DEF Joined, Pend, x
  <2>2. SolidOf(Append(x \o d, Newline)) = Append(SourceTo(at), Newline)
    BY <1>4, <1>11, <1>12, SolidFacts DEF Solid
  <2>3. at = line.last /\ at' = LineFrom(next).line.first
    BY <1>1, <1>14 DEF AtEnd, Round, Advance, TakeLine
  <2>4. SourceTo(next - 1) = Append(SourceTo(at), Newline)
    BY <1>3, <2>3, GapAfter
  <2>5. Char(next - 1) = Newline
    BY <1>3 DEF Good
  <2>6. SourceTo(at' - 1) = SourceTo(next - 1)
    BY <1>3, <2>3, <2>5, GapBefore
  <2>7. QED
    BY <1>2, <2>1, <2>2, <2>4, <2>6, SpelledAs
<1>15. QED
  BY <1>13, <1>14

LEMMA NextKeepsSpelled ==
  ASSUME TypeOK, LineInv, DataInv, TextIsSpelled, Next
  PROVE  TextIsSpelled'
<1> DEFINE x == Spelled(out)
           p == Pend(newline)
<1>1. /\ x \in Seq(Chars) /\ data \in Seq(Chars) /\ saved \in Seq(Chars)
      /\ <<>> \in Seq(Chars) /\ <<Newline>> \in Seq(Chars) /\ p \in Seq(Chars)
  BY JoinedFacts DEF Pend
<1>2. \A y, z \in Seq(Chars) : y \o z \in Seq(Chars) /\ y \o <<>> = y
  BY JoinedFacts
<1>3. \A y, z, w \in Seq(Chars) : (y \o z) \o w = y \o (z \o w)
  BY JoinedFacts
<1>4. Joined(out, data, saved, newline) = x \o data \o saved \o p
  BY DEF Joined
<1> HIDE DEF x, p
<1>5. ASSUME text' = text, at' = at,
             Joined(out', data', saved', newline') = Joined(out, data, saved, newline)
      PROVE  TextIsSpelled'
  BY <1>5, SpelledAs
<1>6. CASE TokenGet
  <2>1. /\ text' = text /\ at' = at /\ out' = out /\ newline' = newline
        /\ data' = saved /\ saved' = <<>> /\ data = <<>>
    BY <1>6 DEF TokenGet, DataInv
  <2>2. Joined(out', data', saved', newline') = x \o saved \o <<>> \o p
    BY <2>1 DEF Joined, x, p
  <2>3. x \o saved \o <<>> \o p = x \o <<>> \o saved \o p
    BY <1>1, <1>2
  <2>4. QED
    BY <1>4, <1>5, <2>1, <2>2, <2>3
<1>7. CASE PendingNewline
  <2>1. /\ text' = text /\ at' = at /\ out' = out /\ newline' = FALSE /\ newline = TRUE
        /\ data' = <<Newline>> /\ saved' = saved /\ data = <<>> /\ saved = <<>>
    BY <1>7 DEF PendingNewline, DataInv, TypeOK
  <2>2. Joined(out', data', saved', newline') = x \o <<Newline>> \o <<>> \o <<>>
    BY <2>1 DEF Joined, Pend, x
  <2>3. Joined(out, data, saved, newline) = x \o <<>> \o <<>> \o <<Newline>>
    BY <2>1 DEF Joined, Pend, x
  <2>4. x \o <<Newline>> \o <<>> \o <<>> = x \o <<>> \o <<>> \o <<Newline>>
    BY <1>1, <1>2
  <2>5. QED
    BY <1>5, <2>1, <2>2, <2>3, <2>4
<1>8. CASE TooLong
  BY <1>5, <1>8 DEF TooLong
<1>9. ASSUME NEW t, NEW tail, Gives(t, tail)
      PROVE  TextIsSpelled'
  <2>1. /\ phase = "got" /\ text' = text /\ at' = at /\ newline' = newline
        /\ out' = Append(out, t) /\ data' = <<>> /\ saved' = tail
    BY <1>9 DEF Gives, Give
  <2>2. saved = <<>> /\ out \in Seq(Tokens)
    BY <2>1 DEF DataInv, TypeOK
  <2>3. t \in Tokens /\ t.text \in Seq(Chars) /\ tail \in Seq(Chars)
        /\ t.text \o tail = data
    <3>1. t \in Tokens /\ t.text \in Seq(Chars) /\ tail \in Seq(Chars)
      <4>1. TypeOK'
        BY NextKeepsType
      <4>2. out' \in Seq(Tokens) /\ tail \in Seq(Chars \ {Newline})
        BY <2>1, <4>1 DEF TypeOK
      <4>3. Len(out) + 1 \in 1..Len(out') /\ out'[Len(out) + 1] = t
        BY <2>1, <2>2
      <4>4. t \in Tokens
        BY <4>2, <4>3, ElementOfSeq
      <4>5. tail \in Seq(Chars)
        BY <4>2, SeqMonotonic
      <4>6. QED
        BY <4>4, <4>5 DEF Tokens
    <3>2. CASE tail = saved /\ t.text = data
      BY <1>1, <1>2, <2>2, <3>1, <3>2
    <3>3. CASE t.text = <<Slash>> /\ tail = Tail(data) /\ data # <<>> /\ data[1] = Slash
      <4>1. /\ Len(data) \in Nat /\ Len(data) >= 1 /\ Len(tail) = Len(data) - 1
            /\ \A i \in 1..Len(tail) : tail[i] = data[i + 1]
        BY <1>1, <3>3, HeadTailProperties, EmptySeq
      <4>2. Len(t.text) = 1 /\ t.text[1] = Slash
        BY <3>3
      <4> DEFINE w == t.text \o tail
      <4>3. /\ w \in Seq(Chars) /\ Len(w) = Len(t.text) + Len(tail)
            /\ \A i \in 1..(Len(t.text) + Len(tail)) :
                 w[i] = IF i <= Len(t.text) THEN t.text[i] ELSE tail[i - Len(t.text)]
        BY <3>1, ConcatProperties
      <4> HIDE DEF w
      <4>4. PICK m \in Nat : Len(tail) = m /\ Len(data) = m + 1
        <5>1. Len(data) - 1 \in Nat /\ Len(data) = (Len(data) - 1) + 1
          BY <4>1
        <5>2. QED
          BY <4>1, <5>1
      <4>5. /\ Len(w) = m + 1
            /\ \A i \in 1..(m + 1) : w[i] = IF i <= 1 THEN t.text[i] ELSE tail[i - 1]
        <5>1. 1 + m = m + 1
          OBVIOUS
        <5>2. QED
          BY <4>2, <4>3, <4>4, <5>1
      <4>6. ASSUME NEW i \in 1..(m + 1)
            PROVE  w[i] = data[i]
        <5>1. CASE i = 1
          BY <3>3, <4>2, <4>5, <5>1
        <5>2. CASE i # 1
          <6>1. i - 1 \in 1..m /\ (i - 1) + 1 = i /\ ~(i <= 1)
            BY <5>2
          <6>2. QED
            BY <4>1, <4>4, <4>5, <6>1
        <5>3. QED
          BY <5>1, <5>2
      <4>7. w = data
        BY <1>1, <4>3, <4>4, <4>5, <4>6, SeqEqual
      <4>8. QED
        BY <3>1, <4>7 DEF w
    <3>4. QED
      BY <1>9, <3>2, <3>3 DEF Gives
  <2>4. Spelled(out') = x \o t.text
    BY <2>1, <2>2, <2>3, SpelledFacts DEF x
  <2>5. Joined(out', data', saved', newline') = (x \o t.text) \o <<>> \o tail \o p
    BY <2>1, <2>4 DEF Joined, p
  <2>6. (x \o t.text) \o <<>> \o tail \o p = x \o data \o p
    <3>1. x \o t.text \in Seq(Chars) /\ (x \o t.text) \o <<>> = x \o t.text
      BY <1>1, <1>2, <2>3
    <3>2. (x \o t.text) \o tail = x \o (t.text \o tail)
      <4> DEFINE u == t.text
      <4>1. x \in Seq(Chars) /\ u \in Seq(Chars) /\ tail \in Seq(Chars)
        BY <1>1, <2>3
      <4> HIDE DEF u
      <4>2. (x \o u) \o tail = x \o (u \o tail)
        BY <1>3, <4>1, Zenon
      <4>3. QED
        BY <4>2 DEF u
    <3>3. QED
      BY <2>3, <3>1, <3>2
  <2>7. x \o data \o saved \o p = x \o data \o p
    BY <1>1, <1>2, <2>2
  <2>8. QED
    BY <1>4, <1>5, <2>1, <2>5, <2>6, <2>7
<1>10. QED
  BY <1>6, <1>7, <1>8, <1>9, RoundSteps, RoundSpells, GiveSteps DEF Next

(* Nothing of the source is lost, doubled or out of order on its way into  *)
(* the tokens: for every file, every set of keywords and every length of a *)
(* token, the letters and symbols of the code and the ends of its lines    *)
(* are those of the tokens, the token in the making and what is pending.   *)
THEOREM TextSpelled == Spec => []TextIsSpelled
<1>1. Init => TextIsSpelled
  <2>1. SUFFICES ASSUME Init PROVE TextIsSpelled
    OBVIOUS
  <2>2. /\ text \in Texts /\ at = LineFrom(1).line.first /\ newline = FALSE
        /\ saved = <<>> /\ data = <<>> /\ out = <<>>
    BY <2>1 DEF Init
  <2>3. TypeOK
    BY <2>1, InitIsWell DEF LexInv
  <2>4. SolidOf(Joined(out, data, saved, newline)) = <<>>
    BY <2>2, <2>3, JoinedFacts, SolidFacts, SpelledFacts DEF Joined, Pend
  <2>5. 1 \in 1..(End + 1) /\ 1 - 1 = 0
    BY <2>2, TextFacts
  <2>6. SourceTo(at - 1) = <<>>
    BY <2>2, <2>5, GapBefore, SourceFacts
  <2>7. QED
    BY <2>4, <2>6, SpelledAs
<1>2. LexInv /\ TextIsSpelled /\ [Next]_vars => TextIsSpelled'
  <2>1. ASSUME LexInv, TextIsSpelled, Next
        PROVE  TextIsSpelled'
    BY <2>1, NextKeepsSpelled DEF LexInv
  <2>2. ASSUME TextIsSpelled, UNCHANGED vars
        PROVE  TextIsSpelled'
    <3>1. /\ text' = text /\ at' = at /\ newline' = newline /\ saved' = saved
          /\ data' = data /\ out' = out
      BY <2>2 DEF vars, lexVars, callVars
    <3>2. QED
      BY <2>2, <3>1, SpelledAs
  <2>3. QED
    BY <2>1, <2>2
<1>3. QED
  BY <1>1, <1>2, AlwaysLexInv, PTL DEF Spec

=============================================================================
