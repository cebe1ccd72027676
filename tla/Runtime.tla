------------------------------ MODULE Runtime -------------------------------
(***************************************************************************)
(* Three programs that use the runtime and the library, one of which runs: *)
(*   copy     a file is copied through two streams (tests/files.fork);     *)
(*   numbers  a number is appended to a stash, perhaps behind a minus, and *)
(*            the text of the stash is made a number again                 *)
(*            (tests/charstash.fork, tests/strings.fork);                  *)
(*   power    the call of __forkpow that the generator writes for an       *)
(*            expression with ** (cgen.cc:149), whatever its operands.       *)
(* strtonum calls the power once for every digit.                          *)
(***************************************************************************)
EXTENDS FileStream, Charstash

CONSTANTS Sources,    \* what the file to be copied may hold
          ChunkLen,   \* what the copying program reads at a time (511)
          Numbers,    \* the numbers appended
          Caps,       \* the capacities a stash is made with
          Bases, Exps \* the operands of a compiled **

InFile == "quine.fork"
OutFile == "lelz.out"

F == "f"
G == "g"

(* A word is a power of two, of 32 or more; a buffer has room for a digit  *)
(* and the 0, and its length is a number; numbers are numbers of a word.   *)
ASSUME RuntimeAssumption ==
  /\ {InFile, OutFile} \subseteq Files /\ {F, G} \subseteq Streams
  /\ Sources \subseteq Seq(Bytes)
  /\ ChunkLen \in Nat \ {0}
  /\ Word > 30 /\ Word % 2 = 0 /\ Word % 3 # 0
  /\ BufLen \in 2..(Word - 1)
  /\ Caps \subseteq Nat
  /\ Numbers \cup Bases \cup Exps \subseteq 0..(Word - 1)

VARIABLES program,    \* which one runs
          pc,         \* where it is
          buf,        \* its buffer: bytes of a file, or the text of a number
          num,        \* number: the one appended; minus; sum, len: strtonum's
          pow         \* the power at work

P == INSTANCE Power

vars == <<disk, stream, call, ret, stash, program, pc, buf, num, pow>>

Places == {"start", "create", "test", "read", "write", "check", "digits", "digit",
           "added", "power", "done", "failed"}

Init ==
  /\ program \in {"copy", "numbers", "power"}
  /\ pc = "start" /\ buf = <<>>
  /\ \E src \in Sources :
       /\ StreamInit([f \in Files |-> IF f = InFile THEN src ELSE <<>>])
       /\ program # "copy" => src = <<>>
  /\ \E n \in Numbers, m \in BOOLEAN :
       /\ num = [number |-> n, minus |-> m, sum |-> 0, len |-> 0]
       /\ program # "numbers" => n = 0 /\ ~m
  /\ \E c \in Caps :
       /\ stash = CsNew(c)
       /\ program # "numbers" => c = 0
  /\ \E b \in Bases, e \in Exps :
       /\ pow = [P!NoPower EXCEPT !.base = b, !.exp = e]
       /\ program # "power" => b = 0 /\ e = 0

-----------------------------------------------------------------------------
(* The program of tests/files.fork.  It checks the error of a stream after *)
(* every call and never closes what it writes to.                          *)

At(prog, place) == program = prog /\ pc = place
Goto(place) == pc' = place

CopyRest == UNCHANGED <<program, stash, num, pow>>

OpenIn == /\ At("copy", "start")
          /\ FileOpen(F, InFile)
          /\ Goto(IF ret' = 1 THEN "create" ELSE "failed")
          /\ CopyRest /\ UNCHANGED buf

CreateOut == /\ At("copy", "create")
             /\ FileCreate(G, OutFile)
             /\ Goto(IF ret' = 1 THEN "test" ELSE "failed")
             /\ CopyRest /\ UNCHANGED buf

TestEnd == /\ At("copy", "test")
           /\ IF stream[F].eof THEN StreamClose(F) /\ Goto("done")
                               ELSE Goto("read") /\ UNCHANGED streamVars
           /\ CopyRest /\ UNCHANGED buf

ReadChunk == /\ At("copy", "read")
             /\ StreamRead(F, ChunkLen)
             /\ buf' = BytesRead(F) \o <<0>>
             /\ Goto(IF stream'[F].error THEN "failed" ELSE "write")
             /\ CopyRest

WriteChunk == /\ At("copy", "write")
              /\ StreamWrite(G, buf)
              /\ Goto("check")
              /\ CopyRest /\ UNCHANGED buf

InWrite == /\ At("copy", "check") /\ call.op = "write"
           /\ InCall
           /\ UNCHANGED pc
           /\ CopyRest /\ UNCHANGED buf

CheckWrite == /\ At("copy", "check") /\ call.op = "none"
              /\ Goto(IF stream[G].error THEN "failed" ELSE "test")
              /\ CopyRest /\ UNCHANGED <<streamVars, buf>>

Copy == OpenIn \/ CreateOut \/ TestEnd \/ ReadChunk \/ WriteChunk \/ InWrite \/ CheckWrite

-----------------------------------------------------------------------------
(* A number to text and back.                                              *)

NumberRest == UNCHANGED <<streamVars, program>>

BuildText ==
  /\ At("numbers", "start")
  /\ stash' = LET cs == IF num.minus THEN CsAppend(stash, Minus) ELSE stash
              IN  CsAppendInt(cs, num.number)
  /\ Goto("digits")
  /\ NumberRest /\ UNCHANGED <<buf, num, pow>>

(* strtonum, up to its loop.                                               *)
ReadText ==
  /\ At("numbers", "digits")
  /\ buf' = DigitsOf(CsUnleash(stash))
  /\ num' = [num EXCEPT !.len = FirstPower(CsUnleash(stash))]
  /\ Goto("digit")
  /\ NumberRest /\ UNCHANGED <<stash, pow>>

(* 10 ** len for the next digit.                                           *)
AskPower ==
  /\ At("numbers", "digit") /\ buf # <<>>
  /\ P!PowerCall(Ten, num.len)
  /\ Goto("added")
  /\ NumberRest /\ UNCHANGED <<stash, buf, num>>

AddDigit ==
  /\ At("numbers", "added") /\ ~pow.busy
  /\ num' = [num EXCEPT !.sum = (@ + (Head(buf) - Zero) * pow.acc) % Word,
                        !.len = (@ - 1) % Word]
  /\ buf' = Tail(buf)
  /\ Goto("digit")
  /\ NumberRest /\ UNCHANGED <<stash, pow>>

NumberRead == /\ At("numbers", "digit") /\ buf = <<>>
              /\ Goto("done")
              /\ NumberRest /\ UNCHANGED <<stash, buf, num, pow>>

(* strtonum's answer: the sum, or its negative if a sign was taken off.    *)
Answer == Signed(IF IsSigned(CsUnleash(stash)) THEN -num.sum ELSE num.sum)

MakeNumber == BuildText \/ ReadText \/ AskPower \/ AddDigit \/ NumberRead

-----------------------------------------------------------------------------
(* A compiled ** of two numbers: __forkpow is called, and has returned.    *)
RaisePower == /\ At("power", "start")
              /\ P!PowerCall(pow.base, pow.exp)
              /\ Goto("power")
              /\ NumberRest /\ UNCHANGED <<stash, buf, num>>

Power == /\ P!PowerStep
         /\ NumberRest /\ UNCHANGED <<pc, stash, buf, num>>

PowerDone == /\ At("power", "power") /\ ~pow.busy
             /\ Goto("done")
             /\ NumberRest /\ UNCHANGED <<stash, buf, num, pow>>

Next == Copy \/ MakeNumber \/ RaisePower \/ Power \/ PowerDone

(* A program goes on while it can; write does not take nothing for ever.   *)
Spec == Init /\ [][Next]_vars /\ WF_vars(Next)

-----------------------------------------------------------------------------
(* filewriteInternal repeats short writes: until a write has failed,        *)
(* what is in the new file and what is still to be written to it are       *)
(* together what was read so far, byte for byte; a failed write leaves a   *)
(* beginning of the old file.  But streamWrite takes a string: the copy is *)
(* complete only if there is no byte 0 in the file.                        *)
Pending == CASE call.op = "write" -> SubSeq(call.data, call.done + 1, Len(call.data))
             [] pc = "write" -> CString(buf)
             [] OTHER -> <<>>

CopyKeepsBytes ==
  LET old == disk[InFile]
      new == disk[OutFile]
      whole == \A i \in DOMAIN old : old[i] # 0
  IN  /\ StreamsOK
      /\ whole => new = SubSeq(old, 1, Len(new))
      /\ whole /\ stream[F].inout # {} /\ ~stream[G].error
           => new \o Pending = SubSeq(old, 1, stream[F].pos)
      /\ At("copy", "done") => (new = old <=> whole)

TenTo[k \in 0..BufLen] == IF k = 0 THEN 1 ELSE Ten * TenTo[k - 1]

Fits(n) == n < TenTo[BufLen - 1]

(* Whatever moves a stash makes, work stays where the next byte belongs.   *)
(* A number that was appended to a stash is read back as itself if it is   *)
(* not negative and fits csAppendInt's buffer.  Otherwise it is not: of    *)
(* longer ones the low digits are kept, strtonum takes a sign for a power  *)
(* of ten, and the sign of a number with one digit for a digit.  Only one  *)
(* that is both too long and negative may come back by coincidence, as     *)
(* -168 does with two digits and Word = 256.                               *)
NumbersReadBack ==
  /\ StashOK /\ num.sum \in 0..(Word - 1)
  /\ At("numbers", "done") /\ (~num.minus \/ Fits(num.number)) =>
       (Answer = Signed(IF num.minus THEN -num.number ELSE num.number)
          <=> ~num.minus /\ Fits(num.number))

(* The product of e times b, modulo Word.                                  *)
ExactPower(b, e) ==
  LET f[n \in 0..e] == IF n = 0 THEN 1
                       ELSE IF n % 2 = 0 THEN (f[n \div 2] * f[n \div 2]) % Word
                       ELSE (b * f[n - 1]) % Word
  IN  f[e]

(* Whenever __forkpow returns, to a compiled ** or to strtonum for one of  *)
(* its digits, its answer is the product of exp times the base, modulo     *)
(* Word, whatever the operands.                                            *)
PowerIsExact ==
  P!PowerOK /\ (~pow.busy /\ pow.i # 0 => pow.acc = ExactPower(pow.base, pow.exp))

(* Every program ends, a power unless its exponent is the largest number   *)
(* there is: then the counter, compared with <=, starts again at 0.        *)
Endless == program = "power" /\ pow.exp = Word - 1 /\ pow.base \notin {0, 1}

CallsEnd == pc = "start" /\ ~Endless ~> pc \in {"done", "failed"}

=============================================================================
