----------------------------- MODULE Charstash ------------------------------
(***************************************************************************)
(* spring's charstash, libfork/spring/charstash.fork, and the conversions  *)
(* between numbers and text in libfork/spring/strings.fork.  Characters    *)
(* are their codes; a string is a sequence of codes without its final 0.   *)
(***************************************************************************)
EXTENDS Integers, Sequences

CONSTANTS Word,       \* uintptr counts modulo Word
          StashStep,  \* what a full stash grows by (10)
          BufLen      \* csAppendInt's buffer (20)

ASSUME CharstashAssumption ==
  Word \in Nat \ {0} /\ StashStep \in Nat \ {0} /\ BufLen \in Nat

Zero == 48
Minus == 45
Ten == 10

Junk == -1            \* a byte of the heap that was never written

(* The arrays a stash has had are told apart by numbers; array is that of  *)
(* base, and work points into one of them, at bytes behind its start.      *)
VARIABLES stash       \* the stash: base, the bytes of its array; array; len; work

Place(array, at) == [array |-> array, at |-> at]

(* The next byte belongs into the array that there is, right behind len.   *)
StashOK == /\ stash.len \in 0..Len(stash.base)
           /\ stash.work = Place(stash.array, stash.len)

CsNew(c) == [base |-> [i \in 1..c |-> Junk], array |-> 1,
             len |-> 0, work |-> Place(1, 0)]

-----------------------------------------------------------------------------
(* What spring:alloc and spring:memmove make of a stash's array.           *)
Moved(cs) ==
  [i \in 1..(Len(cs.base) + StashStep) |-> IF i <= cs.len THEN cs.base[i] ELSE Junk]

(* Definitions introduced by "Fault:" are not part of the model: each is a *)
(* plausible mistake in the definition that follows it.                    *)

(* Fault: work is left where it is, in the array that was freed.           *)
WorkLeft(cs) == cs.work

WorkMoved(cs) == Place(cs.array + 1, cs.len)

Full(cs) == cs.len = Len(cs.base)

Grown(cs) == IF Full(cs)
             THEN [base |-> Moved(cs), array |-> cs.array + 1,
                   len |-> cs.len, work |-> WorkMoved(cs)]
             ELSE cs

(* val cs'work = ch, which is lost if work points into a freed array.      *)
Stored(cs, ch) == IF cs.work.array = cs.array
                  THEN [cs.base EXCEPT ![cs.work.at + 1] = ch]
                  ELSE cs.base

(* csAppend: a stash with len = cap is moved to a larger array first.      *)
CsAppend(cs, ch) ==
  LET g == Grown(cs)
  IN  [base |-> Stored(g, ch), array |-> g.array,
       len |-> g.len + 1, work |-> Place(g.work.array, g.work.at + 1)]

CsAppendStr(cs, str) ==
  LET f[i \in 0..Len(str)] == IF i = 0 THEN cs ELSE CsAppend(f[i - 1], str[i])
  IN  f[Len(str)]

(* csUnleash: the string that the memory holds, up to the 0 it appends.    *)
CsUnleash(cs) ==
  LET all == CsAppend(cs, 0).base
      end == CHOOSE n \in DOMAIN all : all[n] = 0 /\ \A i \in 1..(n - 1) : all[i] # 0
  IN  SubSeq(all, 1, end - 1)

-----------------------------------------------------------------------------
(* What is left of num when k digits are taken off its low end.            *)
Rests(num, room) ==
  LET f[k \in 0..room] == IF k = 0 THEN num ELSE f[k - 1] \div Ten
  IN  f

(* numtostr's loop takes digits off while there are any and there is room, *)
(* and strreverse turns them round in place.                               *)
LowDigits(num, room) ==
  LET rest == Rests(num, room)
      n == CHOOSE k \in 0..room : /\ k = room \/ rest[k] = 0
                                  /\ \A i \in 0..(k - 1) : rest[i] # 0
  IN  [i \in 1..n |-> Zero + (rest[i - 1] % Ten)]

StrReverse(str) == [i \in DOMAIN str |-> str[Len(str) + 1 - i]]

NumToStr(num, len) == IF num = 0 THEN <<Zero>>
                      ELSE StrReverse(LowDigits(num, len - 1))

CsAppendInt(cs, num) == CsAppendStr(cs, NumToStr(num, BufLen))

(* Fault: the length is not counted down before the first digit.           *)
FirstPowerLen(str) == Len(str)

(* strtonum: the length is that of the string with its sign.               *)
FirstPower(str) == Len(str) - 1

IsSigned(str) == str[1] = Minus /\ Len(str) - 1 > 1

DigitsOf(str) == IF IsSigned(str) THEN Tail(str) ELSE str

(* A number modulo Word, read as an intptr.                                *)
Signed(n) == IF n % Word < Word \div 2 THEN n % Word ELSE (n % Word) - Word

=============================================================================
