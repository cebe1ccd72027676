------------------------------- MODULE MCLexer -------------------------------
(***************************************************************************)
(* Every file of at most four characters, and longer ones of the           *)
(* characters that work together: strings and slashes over line ends, and  *)
(* comments, blanks and symbols over line ends.                            *)
(***************************************************************************)
EXTENDS Lexer

UpTo(S, n) == UNION {[1..k -> S] : k \in 0..n}

MCTexts == UpTo(Chars, 4)
           \cup UpTo({Letter, Quote, Slash, Newline}, 6)
           \cup UpTo({Letter, Plus, Hash, Blank, Newline}, 5)

MCKeywords == {<<Slash, Letter>>}

=============================================================================
