-------------------------------- MODULE Lexer --------------------------------
(***************************************************************************)
(* From characters to tokens: line_read() of utils/lines.cc, and stok()    *)
(* and token_get() of lex/lex.cc with the struct lexer they share.  One    *)
(* round of stok()'s loop over characters is one step.                     *)
(*                                                                         *)
(* One character stands for each class that is told apart.  A line's text  *)
(* is given by its first and last offset in the file; the look-ahead peek  *)
(* is the character at offset at.                                          *)
(***************************************************************************)
EXTENDS Integers, Sequences, FiniteSets

CONSTANTS Texts,      \* the files considered
          Keywords,   \* words that begin with a slash, such as '/if'
          MaxToken    \* MAX_TOKEN_LENGTH

Letter == "a"         \* isalnum() or '_'
Par == "("            \* ch_isPar()
Plus == "+"           \* ispunct(), and none of the other ones
Slash == "/"
Quote == "\""
Backslash == "\\"
Hash == "#"
Blank == " "
Newline == "\n"

Chars == {Letter, Par, Plus, Slash, Quote, Backslash, Hash, Blank, Newline}

ASSUME LexerAssumption == /\ Texts \subseteq Seq(Chars)
                          /\ Keywords \subseteq Seq(Chars)
                          /\ MaxToken \in Nat /\ MaxToken > 1

VARIABLES text,       \* the file
          line,       \* lex->line: its first and last offset, its lineno
          next,       \* the offset where line_read() goes on
          at,         \* the offset of lex->peek
          newline, inString, saved, errcode,
          phase,      \* token_get(): not called, in stok(), or past it
          data,       \* the token's characters
          escape,     \* of stok(): the last character was a backslash
          lineno,     \* of token_get()
          from,       \* the offset of data's first character (history)
          out         \* the tokens so far (history)

lexVars == <<line, next, at, newline, inString, saved, errcode>>
callVars == <<phase, data, escape, lineno, from>>
vars == <<text, lexVars, callVars, out>>

End == Len(text) + 1

(* The file, with an end of line after its last one.                       *)
Char(i) == IF i < End THEN text[i] ELSE Newline

Tokens == [kind : {"word", "div", "string", "newline"}, text : Seq(Chars),
           lineno : Nat, from : Nat]

TypeOK == /\ text \in Texts
          /\ line \in [first : 1..(End + 1), last : 1..(End + 1), lineno : Nat]
          /\ next \in 1..(End + 1)
          /\ at \in 1..(End + 1)
          /\ newline \in BOOLEAN /\ inString \in BOOLEAN /\ escape \in BOOLEAN
          /\ errcode \in {"none", "eof", "error"}
          /\ phase \in {"ask", "scan", "got"}
          /\ saved \in Seq(Chars \ {Newline})
          /\ data \in Seq(Chars \ {Newline}) \cup {<<Newline>>}
          /\ Len(data) <= MaxToken /\ Len(saved) < MaxToken
          /\ lineno \in Nat /\ from \in 0..End
          /\ out \in Seq(Tokens)

-----------------------------------------------------------------------------
(* line_read()                                                             *)

(* Offset i is neither the end of a line nor in a comment.                 *)
IsCode(i) ==
  /\ Char(i) # Newline
  /\ \A j \in 1..i : Char(j) = Hash => \E k \in j..i : Char(k) = Newline

Newlines(i) == Cardinality({j \in 1..i : j < End /\ text[j] = Newline})

Least(S) == CHOOSE i \in S : \A j \in S : i <= j

(* The next line that is not blank, read from offset p.  The last one, if  *)
(* nothing ends it, gets the counter as it was when the reading began.     *)
LineFrom(p) ==
  LET starts == {i \in p..(End - 1) : IsCode(i) /\ text[i] # Blank}
      first == Least(starts)
      after == Least({i \in first..End : ~IsCode(i)})
      ends == Least({i \in after..End : Char(i) = Newline})
  IN  IF starts = {}
        THEN [eof |-> TRUE, next |-> End + 1,
              line |-> [first |-> End + 1, last |-> End + 1, lineno |-> Newlines(p - 1)]]
        ELSE [eof |-> FALSE, next |-> ends + 1,
              line |-> [first |-> first, last |-> after - 1,
                        lineno |-> Newlines(IF ends < End THEN ends ELSE p - 1)]]

(* lexer_discardLine(), and lexer_fromFile()'s first line.                 *)
TakeLine(r) == /\ line' = r.line
               /\ next' = r.next
               /\ at' = r.line.first
               /\ errcode' = IF r.eof THEN "eof" ELSE errcode

Init == /\ text \in Texts
        /\ LET r == LineFrom(1) IN
             /\ line = r.line
             /\ next = r.next
             /\ at = r.line.first
             /\ errcode = IF r.eof THEN "eof" ELSE "none"
        /\ newline = FALSE /\ inString = FALSE /\ saved = <<>>
        /\ phase = "ask" /\ data = <<>> /\ escape = FALSE
        /\ lineno = 0 /\ from = 0
        /\ out = <<>>

-----------------------------------------------------------------------------
(* stok()                                                                  *)

IsSym(c) == c \notin {Letter, Blank}

(* Definitions introduced by "Fault:" are not part of the model: each is a *)
(* plausible mistake in the definition that follows it.                    *)

(* Fault: words and symbols are not told apart.                            *)
AtParOnly(c, peek) == c = Par \/ peek = Par \/ peek = Quote

(* A token ends between c and peek.                                        *)
Boundary(c, peek) == \/ c = Par \/ peek = Par \/ peek = Quote
                     \/ c = Letter /\ IsSym(peek)
                     \/ IsSym(c) /\ peek = Letter

AtEnd == at = line.last

Advance == IF AtEnd THEN /\ TakeLine(LineFrom(next))
                         /\ newline' = TRUE
                    ELSE /\ at' = at + 1
                         /\ UNCHANGED <<line, next, errcode, newline>>

Full(d) == Len(d) = MaxToken

(* The round is over with the characters d; stops: by a break.  A loop     *)
(* that ended without a character begins again.                            *)
Round(d, stops) ==
  /\ data' = d
  /\ from' = IF data = <<>> /\ d # <<>> THEN at ELSE from
  /\ phase' = IF d # <<>> /\ (stops \/ AtEnd \/ Full(d))
                THEN "got" ELSE "scan"
  /\ Advance
  /\ UNCHANGED <<text, saved, lineno, out>>

Scanning == phase = "scan" /\ ~newline

QuoteChar == /\ Scanning
             /\ text[at] = Quote /\ ~escape
             /\ inString' = (inString \/ data = <<>>)
             /\ Round(data, inString \/ data # <<>>)
             /\ UNCHANGED escape

(* Fault: a blank ends a string.                                           *)
AnyBlank == text[at] = Blank

Separates == ~inString /\ text[at] = Blank

BlankChar == /\ Scanning
             /\ Separates
             /\ escape' = FALSE
             /\ Round(data, data # <<>>)
             /\ UNCHANGED inString

(* The slash of a keyword does not end it.                                 *)
OtherChar ==
  /\ Scanning
  /\ text[at] = Quote => escape
  /\ ~Separates
  /\ escape' = (text[at] = Backslash)
  /\ LET d == Append(data, text[at])
     IN  Round(d, ~inString /\ d # <<Slash>> /\ Boundary(text[at], Char(at + 1)))
  /\ UNCHANGED inString

PendingNewline == /\ phase = "scan" /\ newline
                  /\ newline' = FALSE
                  /\ data' = <<Newline>>
                  /\ phase' = "got"
                  /\ UNCHANGED <<text, line, next, at, inString, saved, errcode,
                                 escape, lineno, from, out>>

-----------------------------------------------------------------------------
(* token_get()                                                             *)

(* The pushed-back tail comes first, and stok() is not called.             *)
TokenGet == /\ phase = "ask"
            /\ errcode = "none"
            /\ phase' = IF saved = <<>> THEN "scan" ELSE "got"
            /\ data' = saved
            /\ saved' = <<>>
            /\ from' = IF saved = <<>> THEN from ELSE from + 1
            /\ lineno' = line.lineno
            /\ escape' = FALSE
            /\ UNCHANGED <<text, line, next, at, newline, inString, errcode, out>>

(* 'Token too long'                                                        *)
TooLong == /\ phase = "got"
           /\ Len(data) = MaxToken
           /\ errcode' = "error"
           /\ phase' = "ask"
           /\ UNCHANGED <<text, line, next, at, newline, inString, saved,
                          data, escape, lineno, from, out>>

(* Fault: the number of the line the lexer has reached meanwhile.          *)
LineReached == line.lineno

(* The number of the line when token_get() was called.                     *)
LineAsked == lineno

(* A string token's initialiser clears its line number.                    *)
Token(kind, d) == [kind |-> kind, text |-> d, from |-> from,
                   lineno |-> IF kind = "string" THEN 0 ELSE LineAsked]

(* Fault: what follows the slash is dropped.                               *)
NoTail(d) == <<>>

Tail_(d) == Tail(d)

Give(t, tail) == /\ phase = "got"
                 /\ Len(data) < MaxToken
                 /\ out' = Append(out, t)
                 /\ saved' = tail
                 /\ data' = <<>>
                 /\ phase' = "ask"
                 /\ inString' = FALSE
                 /\ UNCHANGED <<text, line, next, at, newline, errcode,
                                escape, lineno, from>>

(* In token_get()'s order: a string whatever its text, then the rest.      *)
GiveString == inString /\ Give(Token("string", data), saved)
GiveNewline == ~inString /\ data = <<Newline>> /\ Give(Token("newline", data), saved)

IsDiv == data # <<>> /\ data[1] = Slash /\ data \notin Keywords

(* A slash that begins no keyword is a division; the tail is saved.        *)
GiveDiv == ~inString /\ IsDiv /\ Give(Token("div", <<Slash>>), Tail_(data))
GiveWord == ~inString /\ ~IsDiv /\ data # <<Newline>> /\ Give(Token("word", data), saved)

Next == \/ TokenGet
        \/ QuoteChar \/ BlankChar \/ OtherChar \/ PendingNewline
        \/ TooLong
        \/ GiveString \/ GiveNewline \/ GiveDiv \/ GiveWord

Spec == Init /\ [][Next]_vars

-----------------------------------------------------------------------------
(* Properties.                                                             *)

(* Offset i ends a line that has code in it.                               *)
EndsCode(i) == /\ Char(i) = Newline
               /\ \E j \in 1..(i - 1) : /\ IsCode(j) /\ text[j] # Blank
                                        /\ \A k \in j..(i - 1) : Char(k) # Newline

(* What must be found again in the tokens: quotes are dropped, blanks are  *)
(* kept in strings only, and a backslash says nothing outside them.        *)
Solid == {Letter, Par, Plus, Slash, Newline}

SolidOf(s) ==
  LET F[k \in 0..Len(s)] == IF k = 0 THEN <<>>
                            ELSE IF s[k] \in Solid THEN Append(F[k - 1], s[k])
                            ELSE F[k - 1]
  IN  F[Len(s)]

Counts(i) == \/ IsCode(i) /\ text[i] \in Solid
             \/ EndsCode(i)

SourceTo(n) == LET F[i \in 0..End] == IF i = 0 THEN <<>>
                                      ELSE IF Counts(i) THEN Append(F[i - 1], Char(i))
                                      ELSE F[i - 1]
               IN  F[n]

Spelled(o) == LET F[k \in 0..Len(o)] == IF k = 0 THEN <<>> ELSE F[k - 1] \o o[k].text
              IN  F[Len(o)]

(* Every letter and symbol of the code, and the end of every line that has *)
(* code, is in exactly one token, in the order of the file, or is still to *)
(* be handed out: in the token being built, in the tail pushed back after  *)
(* a slash, or in the pending new line, in that order.                     *)
TextIsSpelled ==
  SolidOf(Spelled(out) \o data \o saved \o (IF newline THEN <<Newline>> ELSE <<>>))
    = SourceTo(at - 1)

(* A token carries the number of the line its first character is in.  Not  *)
(* so a string; nor the tail of a slash, which is handed out at a later    *)
(* call; and a last line that nothing ends has a number too small.         *)
IsTail(k) == k > 1 /\ out[k - 1].kind = "div" /\ out[k].from = out[k - 1].from + 1
Terminated(i) == \E j \in i..Len(text) : text[j] = Newline
LinesAreNumbered ==
  \A k \in 1..Len(out) :
    LET t == out[k] IN
      t.kind \in {"word", "div"} /\ ~IsTail(k) =>
        IF Terminated(t.from) THEN t.lineno = Newlines(t.from) + 1
                              ELSE t.lineno <= Newlines(t.from)

(* Outside strings a token is a run of letters, a run of symbols, a single *)
(* parenthesis or a keyword, and no run is cut in two, save by a slash.    *)
IsRun(w) == \/ \A i \in 1..Len(w) : w[i] = Letter
            \/ \A i \in 1..Len(w) : IsSym(w[i]) /\ w[i] # Par
            \/ w = <<Par>>
            \/ w \in Keywords
Adjacent(s, t) == t.from = s.from + Len(s.text)
TokensAreRuns ==
  /\ TypeOK
  /\ \A k \in 1..Len(out) :
       out[k].kind = "word" =>
         /\ IsRun(out[k].text)
         /\ (k > 1 /\ out[k - 1].kind = "word" /\ Adjacent(out[k - 1], out[k])) =>
              Boundary(text[out[k].from - 1], text[out[k].from])

(* The literal between the quotes at q and c, the first one of its line    *)
(* (no other quote and no backslash in it).                                *)
Literal(q, c) == /\ \A i \in q..c : IsCode(i)
                 /\ text[q] = Quote /\ text[c] = Quote
                 /\ \A i \in (q + 1)..(c - 1) : text[i] \notin {Quote, Backslash}
                 /\ \A i \in 1..(q - 1) : text[i] = Blank \/
                                           (\E j \in i..(q - 1) : text[j] = Newline)

Delivered(q, c) == \E k \in 1..Len(out) : /\ out[k].kind = "string"
                                          /\ out[k].text = SubSeq(text, q + 1, c - 1)
                                          /\ q + 1 < c => out[k].from = q + 1

Past(c) == phase = "ask" /\ at > c /\ errcode # "error"

(* A string becomes the token of just its text, blanks and symbols         *)
(* included, if it has any; an empty one never does: stok() goes on and    *)
(* takes what follows it for the string.                                   *)
LiteralsAreKept == \A q, c \in 1..Len(text) :
                     (q < c /\ Literal(q, c) /\ Past(c)) => (Delivered(q, c) <=> q + 1 < c)

=============================================================================
