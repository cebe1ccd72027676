--------------------------- MODULE RuntimeProofs ----------------------------
(***************************************************************************)
(* Proofs about the three programs of Runtime, for files and chunks of any *)
(* size, words of any width and a buffer of any length: that a copy holds  *)
(* the bytes that were read, that powers are exact, and which numbers come *)
(* back from their text.                                                   *)
(***************************************************************************)
EXTENDS Runtime, SequenceTheorems, WellFoundedInduction, TLAPS

-----------------------------------------------------------------------------
(* Recursive functions: least elements, and induction on a set of numbers. *)

LEMMA LeastExists ==
  ASSUME NEW S \in SUBSET Nat, S # {}
  PROVE  \E x \in S : \A j \in S : x <= j
<1> DEFINE Lt == {ss \in Nat \X Nat : ss[1] < ss[2]}
<1>1. IsWellFoundedOn(Lt, Nat)
  BY NatLessThanWellFounded DEF OpToRel
<1>2. \A x, y \in Nat : <<y, x>> \in Lt <=> y < x
  OBVIOUS
<1> HIDE DEF Lt
<1>3. \E x \in S : \A y \in S : ~(<<y, x>> \in Lt)
  BY <1>1, WFMin
<1>4. QED
  <2>1. PICK x \in S : \A y \in S : ~(<<y, x>> \in Lt)
    BY <1>3
  <2>2. ASSUME NEW y \in S
        PROVE  x <= y
    <3>1. x \in Nat /\ y \in Nat
      OBVIOUS
    <3>2. ~(y < x)
      BY <1>2, <2>1, <3>1
    <3>3. QED
      BY <3>1, <3>2
  <2>3. QED
    BY <2>2

(* Induction up to n, for a set.                                           *)
LEMMA Induction ==
  ASSUME NEW n \in Nat, NEW M, 0 \in M, \A i \in 1..n : i - 1 \in M => i \in M
  PROVE  \A i \in 0..n : i \in M
<1> DEFINE B == {i \in 0..n : i \notin M}
<1>1. SUFFICES ASSUME B # {} PROVE FALSE
  OBVIOUS
<1>2. B \in SUBSET Nat
  OBVIOUS
<1>3. PICK b \in B : \A j \in B : b <= j
  BY <1>1, <1>2, LeastExists
<1>4. b \in 1..n /\ b \notin M
  BY <1>3
<1>5. b - 1 \in M
  BY <1>3, <1>4
<1>6. QED
  BY <1>4, <1>5

-----------------------------------------------------------------------------
(* The copy.                                                               *)

StreamRecords == [file : SUBSET Files, pos : Nat, inout : {{}, {"in"}, {"out"}},
                  eof : BOOLEAN, error : BOOLEAN]

Old == disk[InFile]
New == disk[OutFile]

NoZero(s) == \A i \in 1..Len(s) : s[i] # 0

(* What is not in the new file of what was read so far is s.               *)
Awaits(new, s, n, old) ==
  /\ Len(new) + Len(s) = n /\ n <= Len(old)
  /\ \A k \in 1..Len(s) : s[k] = old[Len(new) + k]

StartsLike(new, old) ==
  /\ Len(new) <= Len(old)
  /\ \A k \in 1..Len(new) : new[k] = old[k]

Typed ==
  /\ program \in {"copy", "numbers", "power"} /\ pc \in Places
  /\ disk \in [Files -> Seq(Bytes)]
  /\ stream \in [Streams -> StreamRecords]
  /\ call = [op |-> call.op, s |-> call.s, data |-> call.data, done |-> call.done]
  /\ call.op \in {"none", "write"} /\ call.data \in Seq(Bytes)
  /\ call.done \in 0..Len(call.data)
  /\ call.op = "write" => call.s = G
  /\ program = "copy" => buf \in Seq(Bytes)

(* Nothing is open and nothing was read.                                   *)
Closed == /\ stream[F] = NoStream /\ stream[G] = NoStream
          /\ call.op = "none" /\ New = <<>>

Reading == stream[F].file = {InFile} /\ stream[F].inout = {"in"}
Written == stream[G].file = {OutFile} /\ stream[G].inout = {"out"}

(* Which streams are open, by where the program is.                        *)
Streaming ==
  /\ program # "copy" => Closed /\ Old = <<>> /\ pc # "write"
  /\ program = "copy" /\ pc = "start" => Closed
  /\ program = "copy" /\ pc = "create" =>
       Reading /\ stream[F].pos = 0 /\ ~stream[F].eof
               /\ stream[G] = NoStream /\ call.op = "none" /\ New = <<>>
  /\ program = "copy" /\ pc \in {"test", "read", "write", "check"} => Reading /\ Written
  /\ program = "copy" /\ pc = "done" => stream[F] = NoStream
  /\ stream[F].inout # {} => Reading
  /\ call.op = "write" => program = "copy" /\ pc = "check"
  /\ program = "copy" /\ pc \in {"test", "read", "write"} => ~stream[G].error
  /\ call.op = "write" => ~stream[G].error
  /\ program = "copy" /\ pc \in {"create", "test", "read", "write", "check"} =>
       ~stream[F].error

(* Where the bytes are.                                                    *)
Bytewise ==
  /\ NoZero(New) /\ NoZero(call.data)
  /\ stream[F].pos <= Len(Old)
  /\ stream[F].eof => stream[F].pos = Len(Old)
  /\ NoZero(Old) =>
       /\ StartsLike(New, Old)
       /\ stream[F].inout # {} /\ ~stream[G].error => Awaits(New, Pending, stream[F].pos, Old)
       /\ At("copy", "done") => Len(New) = Len(Old)

CopyInv == Typed /\ Streaming /\ Bytewise

LEMMA Constants ==
  /\ InFile \in Files /\ OutFile \in Files /\ InFile # OutFile
  /\ F \in Streams /\ G \in Streams /\ F # G
  /\ ChunkLen \in Nat /\ ChunkLen > 0 /\ 0 \in Bytes
BY RuntimeAssumption, StreamAssumption DEF InFile, OutFile, F, G

(* strlen finds the first 0, or there is none.                             *)
LEMMA CStringFacts ==
  ASSUME NEW S, NEW b \in Seq(S)
  PROVE  /\ CString(b) \in Seq(S) /\ Len(CString(b)) <= Len(b)
         /\ NoZero(CString(b))
         /\ \A i \in 1..Len(CString(b)) : CString(b)[i] = b[i]
         /\ Len(CString(b)) = Len(b) \/ b[Len(CString(b)) + 1] = 0
<1> DEFINE Ends(n) == /\ \A i \in 1..n : b[i] # 0
                      /\ n = Len(b) \/ b[n + 1] = 0
           n == CHOOSE m \in 0..Len(b) : Ends(m)
           Z == {i \in 1..Len(b) : b[i] = 0}
<1>1. Len(b) \in Nat
  OBVIOUS
<1>2. \E m \in 0..Len(b) : Ends(m)
  <2>1. CASE Z = {}
    <3>1. \A i \in 1..Len(b) : b[i] # 0
      BY <2>1
    <3>2. Ends(Len(b))
      BY <3>1
    <3>3. QED
      BY <1>1, <3>2
  <2>2. CASE Z # {}
    <3>1. Z \in SUBSET Nat
      BY <1>1
    <3>2. PICK z \in Z : \A j \in Z : z <= j
      BY <2>2, <3>1, LeastExists
    <3>3. z \in 1..Len(b) /\ b[z] = 0 /\ z - 1 \in 0..Len(b) /\ (z - 1) + 1 = z
      BY <1>1, <3>2
    <3>4. \A i \in 1..(z - 1) : b[i] # 0
      BY <1>1, <3>2, <3>3
    <3>5. Ends(z - 1)
      BY <3>3, <3>4
    <3>6. QED
      BY <3>3, <3>5
  <2>3. QED
    BY <2>1, <2>2
<1>3. n \in 0..Len(b) /\ Ends(n)
  BY <1>2
<1>4. CString(b) = SubSeq(b, 1, n)
  BY DEF CString
<1> HIDE DEF n
<1>5. n \in Int /\ \A i \in 1..n : b[i] \in S
  BY <1>1, <1>3, ElementOfSeq
<1>6. /\ SubSeq(b, 1, n) \in Seq(S)
      /\ Len(SubSeq(b, 1, n)) = IF 1 <= n THEN n - 1 + 1 ELSE 0
      /\ \A i \in 1..(n - 1 + 1) : SubSeq(b, 1, n)[i] = b[1 + i - 1]
  BY <1>5, SubSeqProperties
<1>7. Len(CString(b)) = n
  BY <1>1, <1>3, <1>4, <1>6
<1>8. \A i \in 1..n : CString(b)[i] = b[i]
  BY <1>1, <1>3, <1>4, <1>6
<1>9. QED
  BY <1>1, <1>3, <1>4, <1>6, <1>7, <1>8 DEF NoZero

LEMMA FileFacts ==
  ASSUME NEW s \in Streams, NEW f \in Files, stream[s].file = {f}
  PROVE  FileOf(s) = f
<1>1. \A g \in Files : {f} = {g} <=> g = f
  OBVIOUS
<1>2. QED
  BY <1>1 DEF FileOf

LEMMA PendingFacts ==
  ASSUME CopyInv
  PROVE  /\ call.op = "write" =>
              Pending = SubSeq(call.data, call.done + 1, Len(call.data))
         /\ pc = "write" => Pending = CString(buf)
         /\ call.op # "write" /\ pc # "write" => Pending = <<>>
<1>1. ~(call.op = "write" /\ pc = "write")
  BY DEF CopyInv, Streaming
<1>2. QED
  BY <1>1 DEF Pending

LEMMA StreamFacts ==
  /\ NoStream \in StreamRecords
  /\ NoStream.pos = 0 /\ NoStream.inout = {} /\ ~NoStream.eof /\ ~NoStream.error
  /\ \A f \in Files, dir \in {"in", "out"} :
       /\ Opened(f, dir) \in StreamRecords
       /\ Opened(f, dir).file = {f} /\ Opened(f, dir).inout = {dir}
       /\ Opened(f, dir).pos = 0 /\ ~Opened(f, dir).eof /\ ~Opened(f, dir).error
<1>1. NoStream \in StreamRecords
  BY DEF NoStream, StreamRecords
<1>2. NoStream.pos = 0 /\ NoStream.inout = {} /\ ~NoStream.eof /\ ~NoStream.error
  BY DEF NoStream
<1>3. ASSUME NEW f \in Files, NEW dir \in {"in", "out"}
      PROVE  /\ Opened(f, dir) \in StreamRecords
             /\ Opened(f, dir).file = {f} /\ Opened(f, dir).inout = {dir}
             /\ Opened(f, dir).pos = 0 /\ ~Opened(f, dir).eof /\ ~Opened(f, dir).error
  <2>1. {f} \in SUBSET Files /\ {dir} \in {{}, {"in"}, {"out"}} /\ 0 \in Nat
    OBVIOUS
  <2>2. Opened(f, dir) \in StreamRecords
    BY <2>1 DEF Opened, StreamRecords
  <2>3. QED
    BY <2>2 DEF Opened
<1>4. QED
  BY <1>1, <1>2, <1>3

(* A stream that is changed, and the others.                               *)
LEMMA StreamSet ==
  ASSUME stream \in [Streams -> StreamRecords], NEW s \in Streams,
         NEW r \in StreamRecords, stream' = [stream EXCEPT ![s] = r]
  PROVE  /\ stream' \in [Streams -> StreamRecords]
         /\ stream'[s] = r /\ \A t \in Streams : t # s => stream'[t] = stream[t]
  OBVIOUS

LEMMA SliceFacts ==
  ASSUME NEW S, NEW d \in Seq(S), NEW i \in 0..Len(d), NEW j \in i..Len(d)
  PROVE  /\ SubSeq(d, i + 1, j) \in Seq(S) /\ Len(SubSeq(d, i + 1, j)) = j - i
         /\ \A k \in 1..(j - i) : SubSeq(d, i + 1, j)[k] = d[i + k]
<1>1. Len(d) \in Nat
  OBVIOUS
<1> DEFINE m == i + 1
           p == SubSeq(d, m, j)
<1>2. m \in Int /\ j \in Int /\ \A k \in m..j : d[k] \in S
  BY <1>1, ElementOfSeq
<1>3. /\ p \in Seq(S) /\ Len(p) = IF m <= j THEN j - m + 1 ELSE 0
      /\ \A k \in 1..(j - m + 1) : p[k] = d[m + k - 1]
  BY <1>2, SubSeqProperties
<1>4. Len(p) = j - i
  BY <1>1, <1>3
<1>5. \A k \in 1..(j - i) : k \in 1..(j - m + 1) /\ m + k - 1 = i + k
  BY <1>1
<1>6. QED
  BY <1>3, <1>4, <1>5

(* What is still to be written, element by element.                        *)
LEMMA PendingElements ==
  ASSUME CopyInv
  PROVE  /\ Pending \in Seq(Bytes) /\ NoZero(Pending)
         /\ call.op = "write" =>
              /\ Len(Pending) = Len(call.data) - call.done
              /\ \A k \in 1..Len(Pending) : Pending[k] = call.data[call.done + k]
<1>1. CASE call.op = "write"
  <2>1. /\ call.data \in Seq(Bytes) /\ call.done \in 0..Len(call.data)
        /\ NoZero(call.data) /\ Len(call.data) \in call.done..Len(call.data)
    BY DEF CopyInv, Typed, Bytewise
  <2>2. Pending = SubSeq(call.data, call.done + 1, Len(call.data))
    BY <1>1, PendingFacts
  <2>3. /\ Pending \in Seq(Bytes) /\ Len(Pending) = Len(call.data) - call.done
        /\ \A k \in 1..Len(Pending) : Pending[k] = call.data[call.done + k]
    <3> DEFINE d == call.data
               i0 == call.done
               p == SubSeq(d, i0 + 1, Len(d))
    <3>1. d \in Seq(Bytes) /\ i0 \in 0..Len(d) /\ Len(d) \in i0..Len(d) /\ Pending = p
      BY <2>1, <2>2
    <3> HIDE DEF d, i0
    <3>2. /\ p \in Seq(Bytes) /\ Len(p) = Len(d) - i0
          /\ \A k \in 1..(Len(d) - i0) : p[k] = d[i0 + k]
      BY <3>1, SliceFacts
    <3>3. QED
      BY <3>1, <3>2 DEF d, i0
  <2>4. NoZero(Pending)
    <3>1. Len(call.data) \in Nat
      BY <2>1
    <3>2. ASSUME NEW k \in 1..Len(Pending) PROVE call.done + k \in 1..Len(call.data)
      BY <2>1, <2>3, <3>1
    <3>3. QED
      BY <2>1, <2>3, <3>2 DEF NoZero
  <2>5. QED
    BY <2>3, <2>4
<1>2. CASE call.op # "write" /\ pc = "write"
  <2>1. Pending = CString(buf) /\ buf \in Seq(Bytes)
    BY <1>2, PendingFacts DEF CopyInv, Typed, Streaming
  <2>2. QED
    BY <1>2, <2>1, CStringFacts
<1>3. CASE call.op # "write" /\ pc # "write"
  <2>1. Pending = <<>>
    BY <1>3, PendingFacts
  <2>2. Pending \in Seq(Bytes) /\ Len(Pending) = 0
    BY <2>1
  <2>3. QED
    BY <1>3, <2>2 DEF NoZero
<1>4. QED
  BY <1>1, <1>2, <1>3

-----------------------------------------------------------------------------
LEMMA InitCopies == Init => CopyInv
<1> SUFFICES ASSUME Init PROVE CopyInv
  OBVIOUS
<1>1. PICK src \in Sources :
        /\ StreamInit([f \in Files |-> IF f = InFile THEN src ELSE <<>>])
        /\ program # "copy" => src = <<>>
  BY DEF Init
<1>2. src \in Seq(Bytes) /\ <<>> \in Seq(Bytes)
  BY RuntimeAssumption
<1>3. disk \in [Files -> Seq(Bytes)] /\ Old = src /\ New = <<>>
  BY <1>1, <1>2, Constants DEF StreamInit, Old, New
<1>4. /\ stream[F] = NoStream /\ stream[G] = NoStream
      /\ stream \in [Streams -> StreamRecords]
  BY <1>1, Constants DEF StreamInit, NoStream, StreamRecords
<1>5. call = None /\ pc = "start" /\ buf = <<>> /\ program \in {"copy", "numbers", "power"}
  BY <1>1 DEF StreamInit, Init
<1>6. call.op = "none" /\ call.data = <<>> /\ call.done = 0 /\ Len(<<>>) = 0
  BY <1>5 DEF None
<1>7. call = [op |-> call.op, s |-> call.s, data |-> call.data, done |-> call.done]
  BY <1>5 DEF None
<1>8. Typed
  BY <1>2, <1>3, <1>4, <1>5, <1>6, <1>7 DEF Typed, Places
<1>9. Streaming
  BY <1>1, <1>3, <1>4, <1>5, <1>6 DEF Streaming, Closed, NoStream, At
<1>10. Bytewise
  BY <1>2, <1>3, <1>4, <1>5, <1>6
  DEF Bytewise, NoStream, NoZero, StartsLike, Awaits, At
<1>11. QED
  BY <1>8, <1>9, <1>10 DEF CopyInv

LEMMA PendingNow ==
  ASSUME Typed', Streaming'
  PROVE  /\ call'.op = "write" =>
              Pending' = SubSeq(call'.data, call'.done + 1, Len(call'.data))
         /\ pc' = "write" => Pending' = CString(buf')
         /\ call'.op # "write" /\ pc' # "write" => Pending' = <<>>
<1>1. ~(call'.op = "write" /\ pc' = "write")
  BY DEF Streaming
<1>2. QED
  BY <1>1 DEF Pending

(* The other programs, and the power at work, leave the streams alone.     *)
LEMMA OtherKeeps ==
  ASSUME CopyInv, UNCHANGED streamVars, program' = program,
         \/ pc' = pc /\ buf' = buf
         \/ program # "copy" /\ pc' \in Places \ {"write"}
  PROVE  CopyInv'
<1>1. disk' = disk /\ stream' = stream /\ call' = call
  BY DEF streamVars
<1>2. pc' \in Places /\ (program = "copy" => pc' = pc /\ buf' = buf)
  BY DEF CopyInv, Typed
<1>3. Typed'
  BY <1>1, <1>2 DEF CopyInv, Typed
<1>4. Streaming'
  BY <1>1, <1>2 DEF CopyInv, Streaming, Closed, Reading, Written, Old, New
<1>5. Pending' = Pending
  <2>1. CASE program = "copy"
    BY <1>1, <1>2, <2>1 DEF Pending
  <2>2. CASE program # "copy"
    <3>1. call.op # "write" /\ pc # "write"
      BY <2>2 DEF CopyInv, Streaming, Closed
    <3>2. call'.op # "write" /\ pc' # "write"
      BY <1>1, <2>2, <3>1
    <3>3. QED
      BY <1>3, <1>4, <3>1, <3>2, PendingFacts, PendingNow
  <2>3. QED
    BY <2>1, <2>2
<1>6. At("copy", "done")' => At("copy", "done")
  BY <1>2 DEF At
<1>7. Old' = Old /\ New' = New
  BY <1>1 DEF Old, New
<1>8. Bytewise'
  BY <1>1, <1>5, <1>6, <1>7 DEF CopyInv, Bytewise
<1>9. QED
  BY <1>3, <1>4, <1>8 DEF CopyInv

LEMMA OpenInKeeps == CopyInv /\ OpenIn => CopyInv'
<1> SUFFICES ASSUME CopyInv, OpenIn PROVE CopyInv'
  OBVIOUS
<1>1. /\ program = "copy" /\ pc = "start" /\ program' = program /\ buf' = buf
      /\ disk' = disk /\ call' = call /\ Closed /\ Typed /\ Bytewise
      /\ call.op = "none" /\ stream[F] = NoStream /\ stream[G] = NoStream
  BY DEF OpenIn, At, CopyRest, FileOpen, CopyInv, Streaming, Closed
<1>2. \/ stream' = [stream EXCEPT ![F] = Opened(InFile, "in")] /\ pc' = "create"
      \/ stream' = stream /\ pc' = "failed"
  BY DEF OpenIn, FileOpen, Goto
<1>3. /\ stream' \in [Streams -> StreamRecords] /\ stream'[G] = NoStream
      /\ pc' = "failed" => stream'[F] = NoStream
      /\ pc' = "create" => stream'[F] = Opened(InFile, "in")
      /\ pc' \in Places
  <2>1. CASE stream' = stream /\ pc' = "failed"
    BY <1>1, <2>1 DEF Typed, Places
  <2>2. CASE stream' = [stream EXCEPT ![F] = Opened(InFile, "in")] /\ pc' = "create"
    BY <1>1, <2>2, Constants, StreamFacts, StreamSet DEF Typed, Places
  <2>3. QED
    BY <1>2, <2>1, <2>2
<1>4. pc' = "create" => /\ Reading' /\ stream'[F].pos = 0
                        /\ ~stream'[F].eof /\ ~stream'[F].error
  BY <1>3, Constants, StreamFacts DEF Reading
<1>5. Typed'
  BY <1>1, <1>3 DEF Typed
<1>6. Old' = Old /\ New' = New /\ New = <<>>
  BY <1>1 DEF Old, New, Closed
<1>7. Streaming'
  BY <1>1, <1>2, <1>3, <1>4, <1>6 DEF Streaming, NoStream, Reading, Closed
<1>8. Pending' = <<>>
  BY <1>1, <1>2, <1>5, <1>7, PendingNow
<1>9. Old \in Seq(Bytes)
  BY <1>1, Constants DEF Typed, Old
<1>10. stream'[F].pos = 0 /\ ~stream'[F].eof
  BY <1>2, <1>3, <1>4 DEF NoStream
<1>11. Bytewise'
  BY <1>1, <1>2, <1>6, <1>8, <1>9, <1>10
  DEF Bytewise, NoZero, StartsLike, Awaits, At
<1>12. QED
  BY <1>5, <1>7, <1>11 DEF CopyInv

LEMMA CreateOutKeeps == CopyInv /\ CreateOut => CopyInv'
<1> SUFFICES ASSUME CopyInv, CreateOut PROVE CopyInv'
  OBVIOUS
<1>1. /\ program = "copy" /\ pc = "create" /\ program' = program /\ buf' = buf
      /\ call' = call /\ Typed /\ Bytewise /\ call.op = "none"
      /\ Reading /\ stream[F].pos = 0 /\ ~stream[F].eof /\ stream[G] = NoStream
      /\ New = <<>> /\ ~stream[F].error
  BY DEF CreateOut, At, CopyRest, FileCreate, CopyInv, Streaming
<1>2. \/ /\ stream' = [stream EXCEPT ![G] = Opened(OutFile, "out")]
         /\ disk' = [disk EXCEPT ![OutFile] = <<>>] /\ pc' = "test"
      \/ stream' = stream /\ disk' = disk /\ pc' = "failed"
  BY DEF CreateOut, FileCreate, Goto
<1>3. /\ stream' \in [Streams -> StreamRecords] /\ stream'[F] = stream[F]
      /\ pc' = "failed" => stream'[G] = NoStream
      /\ pc' = "test" => stream'[G] = Opened(OutFile, "out")
      /\ pc' \in Places
  <2>1. CASE stream' = stream /\ pc' = "failed"
    BY <1>1, <2>1 DEF Typed, Places
  <2>2. CASE stream' = [stream EXCEPT ![G] = Opened(OutFile, "out")] /\ pc' = "test"
    BY <1>1, <2>2, Constants, StreamFacts, StreamSet DEF Typed, Places
  <2>3. QED
    BY <1>2, <2>1, <2>2
<1>4. disk' \in [Files -> Seq(Bytes)] /\ Old' = Old /\ New' = <<>>
  <2>1. <<>> \in Seq(Bytes)
    OBVIOUS
  <2>2. QED
    BY <1>1, <1>2, <2>1, Constants DEF Typed, Old, New
<1>5. ~stream'[G].error /\ (pc' = "test" => Written')
  BY <1>2, <1>3, Constants, StreamFacts DEF Written
<1>6. Typed'
  BY <1>1, <1>3, <1>4 DEF Typed
<1>7. Streaming'
  BY <1>1, <1>2, <1>3, <1>4, <1>5 DEF Streaming, NoStream, Reading, Closed
<1>8. Pending' = <<>>
  BY <1>1, <1>2, <1>6, <1>7, PendingNow
<1>9. Old \in Seq(Bytes)
  BY <1>1, Constants DEF Typed, Old
<1>10. Bytewise'
  BY <1>1, <1>2, <1>3, <1>4, <1>5, <1>8, <1>9
  DEF Bytewise, NoZero, StartsLike, Awaits, At
<1>11. QED
  BY <1>6, <1>7, <1>10 DEF CopyInv

LEMMA TestEndKeeps == CopyInv /\ TestEnd => CopyInv'
<1> SUFFICES ASSUME CopyInv, TestEnd PROVE CopyInv'
  OBVIOUS
<1>1. /\ program = "copy" /\ pc = "test" /\ program' = program /\ buf' = buf
      /\ disk' = disk /\ call' = call /\ Typed /\ Bytewise /\ call.op # "write"
      /\ Reading /\ Written /\ ~stream[G].error /\ ~stream[F].error
  BY DEF TestEnd, At, CopyRest, StreamClose, streamVars, CopyInv, Streaming
<1>2. \/ /\ stream[F].eof /\ stream' = [stream EXCEPT ![F] = NoStream] /\ pc' = "done"
      \/ stream' = stream /\ pc' = "read"
  BY DEF TestEnd, StreamClose, streamVars, Goto
<1>3. /\ stream' \in [Streams -> StreamRecords] /\ stream'[G] = stream[G]
      /\ pc' = "read" => stream'[F] = stream[F]
      /\ pc' = "done" => stream'[F] = NoStream
      /\ pc' \in Places
  <2>1. CASE stream' = stream /\ pc' = "read"
    BY <1>1, <2>1 DEF Typed, Places
  <2>2. CASE stream' = [stream EXCEPT ![F] = NoStream] /\ pc' = "done"
    BY <1>1, <2>2, Constants, StreamFacts, StreamSet DEF Typed, Places
  <2>3. QED
    BY <1>2, <2>1, <2>2
<1>4. Old' = Old /\ New' = New
  BY <1>1 DEF Old, New
<1>5. Pending = <<>>
  BY <1>1, PendingFacts
<1>6. Typed'
  BY <1>1, <1>3 DEF Typed
<1>7. Streaming'
  BY <1>1, <1>2, <1>3 DEF Streaming, NoStream, Reading, Written
<1>8. Pending' = <<>>
  BY <1>1, <1>2, <1>6, <1>7, PendingNow
<1>9. Old \in Seq(Bytes) /\ New \in Seq(Bytes)
  BY <1>1, Constants DEF Typed, Old, New
<1>10. stream[F].inout # {}
  BY <1>1 DEF Reading
<1>11. NoZero(Old) => Awaits(New, <<>>, stream[F].pos, Old)
  BY <1>1, <1>5, <1>10 DEF Bytewise
<1>12. NoZero(Old) /\ pc' = "done" => Len(New) = Len(Old)
  BY <1>1, <1>2, <1>9, <1>11 DEF Bytewise, Awaits
<1>13. CASE pc' = "read"
  BY <1>1, <1>3, <1>4, <1>6, <1>7, <1>8, <1>11, <1>13
  DEF CopyInv, Bytewise, At
<1>14. CASE pc' = "done"
  <2>1. stream'[F].pos = 0 /\ ~stream'[F].eof /\ stream'[F].inout = {}
    BY <1>3, <1>14 DEF NoStream
  <2>2. Bytewise'
    BY <1>1, <1>3, <1>4, <1>9, <1>12, <1>14, <2>1 DEF Bytewise
  <2>3. QED
    BY <1>6, <1>7, <2>2 DEF CopyInv
<1>15. QED
  BY <1>2, <1>13, <1>14

LEMMA ErrorFacts ==
  ASSUME NEW s \in Streams, stream \in [Streams -> StreamRecords], Errs(s)
  PROVE  /\ stream' \in [Streams -> StreamRecords]
         /\ stream'[s].error /\ (stream'[s].eof <=> stream[s].eof)
         /\ stream'[s].file = stream[s].file /\ stream'[s].inout = stream[s].inout
         /\ stream'[s].pos = stream[s].pos
         /\ \A t \in Streams : t # s => stream'[t] = stream[t]
<1> DEFINE r == [stream[s] EXCEPT !.error = TRUE]
<1>1. stream[s] \in StreamRecords
  OBVIOUS
<1>2. /\ r \in StreamRecords
      /\ r.error /\ (r.eof <=> stream[s].eof) /\ r.file = stream[s].file
      /\ r.inout = stream[s].inout /\ r.pos = stream[s].pos
  BY <1>1 DEF StreamRecords
<1>3. stream' = [stream EXCEPT ![s] = r]
  BY DEF Errs
<1> HIDE DEF r
<1>4. QED
  BY <1>2, <1>3, StreamSet

LEMMA ReadFacts ==
  ASSUME NEW s \in Streams, stream \in [Streams -> StreamRecords],
         NEW len \in Nat, NEW k \in Nat, Reads(s, len, k)
  PROVE  /\ stream' \in [Streams -> StreamRecords]
         /\ (stream'[s].error <=> stream[s].error)
         /\ (stream'[s].eof <=> (stream[s].eof \/ k = 0))
         /\ stream'[s].file = stream[s].file /\ stream'[s].inout = stream[s].inout
         /\ stream'[s].pos = stream[s].pos + k
         /\ \A t \in Streams : t # s => stream'[t] = stream[t]
<1> DEFINE r == [stream[s] EXCEPT !.pos = @ + k, !.eof = @ \/ k = 0]
<1>1. stream[s] \in StreamRecords
  OBVIOUS
<1>2. r \in StreamRecords
  <2>1. ASSUME NEW n \in Nat, NEW e \in BOOLEAN
        PROVE  [stream[s] EXCEPT !.pos = n, !.eof = e] \in StreamRecords
    BY <1>1 DEF StreamRecords
  <2>2. stream[s].pos + k \in Nat /\ (stream[s].eof \/ k = 0) \in BOOLEAN
    BY <1>1 DEF StreamRecords
  <2>3. QED
    BY <2>1, <2>2
<1>3. /\ (r.error <=> stream[s].error) /\ (r.eof <=> (stream[s].eof \/ k = 0))
      /\ r.file = stream[s].file /\ r.inout = stream[s].inout
      /\ r.pos = stream[s].pos + k
  BY <1>1 DEF StreamRecords
<1>4. stream' = [stream EXCEPT ![s].pos = @ + k, ![s].eof = @ \/ k = 0]
  BY DEF Reads, EofSeen
<1>5. stream' = [stream EXCEPT ![s] = r]
  BY <1>4
<1> HIDE DEF r
<1>6. QED
  BY <1>2, <1>3, <1>5, StreamSet

LEMMA ReadChunkKeeps == CopyInv /\ ReadChunk => CopyInv'
<1> SUFFICES ASSUME CopyInv, ReadChunk PROVE CopyInv'
  OBVIOUS
<1> DEFINE pos == stream[F].pos
<1>1. /\ program = "copy" /\ pc = "read" /\ program' = program
      /\ disk' = disk /\ call' = call /\ Typed /\ Bytewise /\ call.op # "write"
      /\ Reading /\ Written /\ ~stream[G].error /\ ~stream[F].error
  BY DEF ReadChunk, At, CopyRest, StreamRead, CopyInv, Streaming
<1>2. FileOf(F) = InFile
  BY <1>1, Constants, FileFacts DEF Reading
<1>3. Errs(F) \/ \E k \in 0..ChunkLen : Reads(F, ChunkLen, k)
  BY <1>1 DEF ReadChunk, StreamRead
<1>4. buf' = SubSeq(Old, pos + 1, stream'[F].pos) \o <<0>>
  BY <1>2 DEF ReadChunk, BytesRead, Old
<1>5. pc' = IF stream'[F].error THEN "failed" ELSE "write"
  BY DEF ReadChunk, Goto
<1>6. Old' = Old /\ New' = New
  BY <1>1 DEF Old, New
<1>7. Old \in Seq(Bytes) /\ New \in Seq(Bytes) /\ Len(Old) \in Nat /\ pos \in 0..Len(Old)
  BY <1>1, Constants DEF Typed, Old, New, StreamRecords, Bytewise
<1>8. NoZero(Old) => Awaits(New, <<>>, pos, Old)
  BY <1>1, PendingFacts DEF Bytewise, Reading
<1>9. CASE Errs(F)
  <2>1. /\ stream' \in [Streams -> StreamRecords] /\ stream'[F].error
        /\ (stream'[F].eof <=> stream[F].eof) /\ stream'[F].pos = pos
        /\ stream'[F].file = stream[F].file /\ stream'[F].inout = stream[F].inout
        /\ stream'[G] = stream[G] /\ pc' = "failed"
    BY <1>1, <1>5, <1>9, Constants, ErrorFacts DEF Typed
  <2>2. SubSeq(Old, pos + 1, pos) \in Seq(Bytes) /\ pos \in pos..Len(Old)
    BY <1>7, SliceFacts
  <2>3. buf' \in Seq(Bytes)
    BY <1>4, <2>1, <2>2, Constants
  <2>4. Typed'
    BY <1>1, <2>1, <2>3 DEF Typed, Places
  <2>5. Streaming'
    BY <1>1, <2>1 DEF Streaming, Reading
  <2>6. Pending' = <<>>
    BY <1>1, <2>1, <2>4, <2>5, PendingNow
  <2>7. Bytewise'
    BY <1>1, <1>6, <1>8, <2>1, <2>6 DEF Bytewise, At
  <2>8. QED
    BY <2>4, <2>5, <2>7 DEF CopyInv
<1>10. ASSUME NEW k \in 0..ChunkLen, Reads(F, ChunkLen, k)
       PROVE  CopyInv'
  <2>1. k \in Nat
    BY Constants
  <2>2. /\ stream' \in [Streams -> StreamRecords] /\ ~stream'[F].error
        /\ (stream'[F].eof <=> (stream[F].eof \/ k = 0)) /\ stream'[F].pos = pos + k
        /\ stream'[F].file = stream[F].file /\ stream'[F].inout = stream[F].inout
        /\ stream'[G] = stream[G] /\ pc' = "write"
    BY <1>1, <1>5, <1>10, <2>1, Constants, ReadFacts DEF Typed
  <2>3. k <= Len(Old) - pos /\ (k = 0 => Len(Old) - pos = 0)
    BY <1>2, <1>10, Constants DEF Reads, Old
  <2>4. pos + k \in pos..Len(Old) /\ stream'[F].pos <= Len(Old)
    BY <1>7, <2>1, <2>2, <2>3
  <2> DEFINE c == SubSeq(Old, pos + 1, pos + k)
  <2>5. c \in Seq(Bytes) /\ Len(c) = k /\ \A i \in 1..k : c[i] = Old[pos + i]
    <3>1. /\ c \in Seq(Bytes) /\ Len(c) = (pos + k) - pos
          /\ \A i \in 1..((pos + k) - pos) : c[i] = Old[pos + i]
      BY <1>7, <2>4, SliceFacts
    <3>2. (pos + k) - pos = k
      BY <1>7, <2>1
    <3>3. QED
      BY <3>1, <3>2
  <2> HIDE DEF c
  <2>6. <<0>> \in Seq(Bytes) /\ Len(<<0>>) = 1 /\ <<0>>[1] = 0
    BY Constants
  <2>7. buf' = c \o <<0>>
    BY <1>4, <2>2 DEF c
  <2>8. /\ buf' \in Seq(Bytes) /\ Len(buf') = k + 1 /\ buf'[k + 1] = 0
        /\ \A i \in 1..k : buf'[i] = Old[pos + i]
    BY <2>1, <2>5, <2>6, <2>7, ConcatProperties
  <2>9. Typed'
    BY <1>1, <2>2, <2>8 DEF Typed, Places
  <2>10. Streaming'
    BY <1>1, <2>2 DEF Streaming, Reading, Written
  <2>11. Pending' = CString(buf')
    BY <1>1, <2>2, <2>9, <2>10, PendingNow
  <2> DEFINE t == CString(buf')
  <2>12. /\ t \in Seq(Bytes) /\ Len(t) <= k + 1 /\ NoZero(t)
         /\ \A i \in 1..Len(t) : t[i] = buf'[i]
         /\ Len(t) = k + 1 \/ buf'[Len(t) + 1] = 0
    BY <2>8, CStringFacts
  <2> HIDE DEF t
  <2>13. ASSUME NoZero(Old) PROVE Awaits(New, t, pos + k, Old)
    <3>1. Len(New) = pos
      BY <1>7, <1>8, <2>13 DEF Awaits
    <3>2. ASSUME NEW i \in 1..k PROVE buf'[i] # 0
      <4>1. pos + i \in 1..Len(Old)
        BY <1>7, <2>1, <2>3
      <4>2. QED
        BY <2>8, <2>13, <4>1 DEF NoZero
    <3>3. Len(t) \in Nat /\ Len(t) # k + 1
      <4>1. Len(t) \in Nat
        BY <2>12
      <4>2. ASSUME Len(t) = k + 1 PROVE FALSE
        <5>1. k + 1 \in 1..Len(t)
          BY <2>1, <4>2
        <5>2. t[k + 1] = 0 /\ t[k + 1] # 0
          BY <2>8, <2>12, <5>1 DEF NoZero
        <5>3. QED
          BY <5>2
      <4>3. QED
        BY <4>1, <4>2
    <3>4. Len(t) = k
      <4>1. Len(t) + 1 \in 1..k \/ Len(t) = k
        BY <2>1, <2>12, <3>3
      <4>2. QED
        BY <2>12, <3>2, <3>3, <4>1
    <3>5. \A i \in 1..Len(t) : t[i] = Old[Len(New) + i]
      BY <2>8, <2>12, <3>1, <3>4
    <3>6. QED
      BY <1>7, <2>4, <3>1, <3>4, <3>5 DEF Awaits
  <2>14. stream'[F].eof => stream'[F].pos = Len(Old)
    <3>1. CASE k = 0
      BY <1>7, <2>2, <2>3, <3>1
    <3>2. CASE k # 0
      <4>1. stream[F].eof => pos = Len(Old)
        BY <1>1 DEF Bytewise
      <4>2. pos # Len(Old)
        BY <1>7, <2>1, <2>3, <3>2
      <4>3. QED
        BY <2>2, <3>2, <4>1, <4>2
    <3>3. QED
      BY <3>1, <3>2
  <2>15. Bytewise'
    BY <1>1, <1>6, <2>2, <2>4, <2>11, <2>13, <2>14 DEF Bytewise, At, t
  <2>16. QED
    BY <2>9, <2>10, <2>15 DEF CopyInv
<1>11. QED
  BY <1>3, <1>9, <1>10

LEMMA WriteChunkKeeps == CopyInv /\ WriteChunk => CopyInv'
<1> SUFFICES ASSUME CopyInv, WriteChunk PROVE CopyInv'
  OBVIOUS
<1> DEFINE t == CString(buf)
<1>1. /\ program = "copy" /\ pc = "write" /\ program' = program /\ buf' = buf
      /\ Typed /\ Bytewise /\ call.op # "write"
      /\ Reading /\ Written /\ ~stream[G].error /\ ~stream[F].error
      /\ buf \in Seq(Bytes)
  BY DEF WriteChunk, At, CopyRest, CopyInv, Streaming, Typed
<1>2. /\ call' = [op |-> "write", s |-> G, data |-> t, done |-> 0]
      /\ disk' = disk /\ stream' = stream /\ pc' = "check"
  BY <1>1 DEF WriteChunk, StreamWrite, Written, Goto
<1>3. /\ t \in Seq(Bytes) /\ NoZero(t) /\ Len(t) \in Nat
  BY <1>1, CStringFacts
<1>4. Pending = t
  BY <1>1, PendingFacts
<1> HIDE DEF t
<1>5. /\ call'.op = "write" /\ call'.s = G /\ call'.data = t /\ call'.done = 0
      /\ call' = [op |-> call'.op, s |-> call'.s, data |-> call'.data, done |-> call'.done]
  BY <1>2
<1>6. Typed'
  BY <1>1, <1>2, <1>3, <1>5 DEF Typed, Places
<1>7. Streaming'
  BY <1>1, <1>2, <1>5 DEF Streaming, Reading, Written
<1>8. Pending' = SubSeq(t, 0 + 1, Len(t))
  BY <1>5, <1>6, <1>7, PendingNow
<1>9. Pending' = t
  <2>1. SubSeq(t, 0 + 1, Len(t)) = t
    BY <1>3, SubSeqFull
  <2>2. QED
    BY <1>8, <2>1
<1>10. Old' = Old /\ New' = New
  BY <1>2 DEF Old, New
<1>11. Bytewise'
  BY <1>1, <1>2, <1>3, <1>4, <1>5, <1>9, <1>10 DEF Bytewise, At
<1>12. QED
  BY <1>6, <1>7, <1>11 DEF CopyInv

LEMMA WriteSomeKeeps ==
  ASSUME CopyInv, program = "copy", program' = program, pc' = pc, buf' = buf, WriteSome
  PROVE  CopyInv'
<1>1. /\ call.op = "write" /\ call.s = G /\ call.done < Len(call.data)
      /\ stream' = stream
  BY DEF WriteSome, Writing, CopyInv, Typed
<1>2. /\ pc = "check" /\ Reading /\ Written /\ ~stream[G].error /\ Typed
      /\ Streaming /\ Bytewise
  BY <1>1 DEF CopyInv, Streaming
<1>3. FileOf(G) = OutFile
  BY <1>2, Constants, FileFacts DEF Written
<1>4. PICK k \in 1..(Len(call.data) - call.done) :
        /\ disk' = [disk EXCEPT ![OutFile] = @ \o NextBytes(k)]
        /\ call' = [call EXCEPT !.done = @ + k]
  BY <1>1, <1>3 DEF WriteSome
<1> DEFINE data == call.data
           done == call.done
           n == SubSeq(data, done + 1, done + k)
<1>5. data \in Seq(Bytes) /\ done \in 0..Len(data) /\ Len(data) \in Nat /\ NoZero(data)
  BY <1>2 DEF Typed, Bytewise
<1>6. k \in Nat /\ done + k \in done..Len(data) /\ (done + k) - done = k
  BY <1>5
<1>7. n \in Seq(Bytes) /\ Len(n) = k /\ \A i \in 1..k : n[i] = data[done + i]
  <2>1. /\ n \in Seq(Bytes) /\ Len(n) = (done + k) - done
        /\ \A i \in 1..((done + k) - done) : n[i] = data[done + i]
    BY <1>5, <1>6, SliceFacts
  <2>2. QED
    BY <1>6, <2>1
<1>8. /\ call' = [op |-> "write", s |-> G, data |-> data, done |-> done + k]
      /\ call'.op = "write" /\ call'.s = G /\ call'.data = data /\ call'.done = done + k
  BY <1>1, <1>2, <1>4 DEF Typed
<1>9. Old \in Seq(Bytes) /\ New \in Seq(Bytes) /\ Len(Old) \in Nat /\ Len(New) \in Nat
  BY <1>2, Constants DEF Typed, Old, New
<1>10. Old' = Old /\ New' = New \o n
  BY <1>2, <1>4, Constants DEF Typed, Old, New, NextBytes
<1> HIDE DEF n
<1>11. /\ New' \in Seq(Bytes) /\ Len(New') = Len(New) + k
       /\ \A i \in 1..(Len(New) + k) :
            New'[i] = IF i <= Len(New) THEN New[i] ELSE n[i - Len(New)]
  BY <1>7, <1>9, <1>10, ConcatProperties
<1>12. disk' \in [Files -> Seq(Bytes)]
  <2>1. disk' = [disk EXCEPT ![OutFile] = New']
    BY <1>4, <1>10, Constants DEF New, NextBytes, n
  <2>2. QED
    BY <1>2, <1>11, <2>1 DEF Typed
<1>13. Typed'
  BY <1>1, <1>2, <1>5, <1>6, <1>8, <1>12 DEF Typed
<1>14. Streaming'
  BY <1>1, <1>2, <1>8 DEF Streaming, Reading, Written
<1>15. Pending' = SubSeq(data, (done + k) + 1, Len(data))
  BY <1>8, <1>13, <1>14, PendingNow
<1>16. /\ Len(Pending) = Len(data) - done
       /\ \A i \in 1..Len(Pending) : Pending[i] = data[done + i]
  BY <1>1, PendingElements
<1>17. /\ Len(Pending') = Len(data) - (done + k)
       /\ \A i \in 1..Len(Pending') : Pending'[i] = data[(done + k) + i]
  <2> DEFINE i0 == done + k
             p == SubSeq(data, i0 + 1, Len(data))
  <2>1. i0 \in 0..Len(data) /\ Len(data) \in i0..Len(data) /\ i0 \in Nat
    BY <1>5, <1>6
  <2> HIDE DEF i0
  <2>2. Len(p) = Len(data) - i0 /\ \A i \in 1..(Len(data) - i0) : p[i] = data[i0 + i]
    BY <1>5, <2>1, SliceFacts
  <2>3. QED
    BY <1>15, <2>2 DEF i0
<1> HIDE DEF data, done
<1> DEFINE a == Len(New)
           b == Len(data)
<1>18. /\ a \in Nat /\ b \in Nat /\ k \in Nat /\ done \in 0..b /\ done + k \in 0..b
        /\ Len(New') = a + k /\ Len(Pending) = b - done
        /\ Len(Pending') = b - (done + k)
  BY <1>5, <1>6, <1>9, <1>11, <1>16, <1>17
<1> HIDE DEF a, b
<1>19. NoZero(New')
  <2>1. ASSUME NEW i \in 1..Len(New') PROVE New'[i] # 0
    <3>1. CASE i <= Len(New)
      BY <1>2, <1>9, <1>11, <3>1 DEF Bytewise, NoZero
    <3>2. CASE i > Len(New)
      <4>1. i - Len(New) \in 1..k /\ done + (i - Len(New)) \in 1..Len(data)
        BY <1>18, <3>2 DEF a, b
      <4>2. New'[i] = data[done + (i - Len(New))]
        <5>1. i \in 1..(Len(New) + k) /\ ~(i <= Len(New))
          BY <1>18, <3>2 DEF a
        <5>2. New'[i] = n[i - Len(New)]
          BY <1>11, <5>1
        <5>3. QED
          BY <1>7, <4>1, <5>2
      <4>3. QED
        BY <1>5, <4>1, <4>2 DEF NoZero
    <3>3. QED
      BY <1>9, <1>11, <3>1, <3>2
  <2>2. QED
    BY <2>1 DEF NoZero
<1>20. ASSUME NoZero(Old)
       PROVE  StartsLike(New', Old) /\ Awaits(New', Pending', stream[F].pos, Old)
  <2>1. StartsLike(New, Old) /\ Awaits(New, Pending, stream[F].pos, Old)
    BY <1>2, <1>20 DEF Bytewise, Reading
  <2>2. Len(New') + Len(Pending') = stream[F].pos /\ stream[F].pos <= Len(Old)
    <3>1. /\ Len(New') = Len(New) + k /\ Len(Pending') = Len(data) - (done + k)
          /\ Len(Pending) = Len(data) - done
      BY <1>11, <1>16, <1>17
    <3>2. Len(New') + Len(Pending') = Len(New) + Len(Pending)
      <4>1. Len(New') + Len(Pending') = a + Len(Pending)
        BY <1>18
      <4>2. QED
        BY <4>1 DEF a
    <3>3. QED
      BY <2>1, <3>2 DEF Awaits
  <2>3. ASSUME NEW i \in 1..Len(New') PROVE New'[i] = Old[i]
    <3>1. CASE i <= Len(New)
      BY <1>9, <1>11, <2>1, <3>1 DEF StartsLike
    <3>2. CASE i > Len(New)
      <4>1. i - Len(New) \in 1..k /\ i - Len(New) \in 1..Len(Pending)
        BY <1>18, <3>2 DEF a
      <4>2. New'[i] = Pending[i - Len(New)]
        <5>1. i \in 1..(Len(New) + k) /\ ~(i <= Len(New))
          BY <1>18, <3>2 DEF a
        <5>2. New'[i] = n[i - Len(New)]
          BY <1>11, <5>1
        <5>3. QED
          BY <1>7, <1>16, <4>1, <5>2
      <4>3. Pending[i - Len(New)] = Old[Len(New) + (i - Len(New))]
        BY <2>1, <4>1 DEF Awaits
      <4>4. Len(New) + (i - Len(New)) = i
        BY <1>9, <1>11
      <4>5. QED
        BY <4>2, <4>3, <4>4
    <3>3. QED
      BY <1>9, <1>11, <3>1, <3>2
  <2>4. ASSUME NEW i \in 1..Len(Pending') PROVE Pending'[i] = Old[Len(New') + i]
    <3>1. k + i \in 1..Len(Pending) /\ done + (k + i) = (done + k) + i
      BY <1>18
    <3>2. Pending'[i] = Pending[k + i]
      BY <1>16, <1>17, <3>1
    <3>3. Pending[k + i] = Old[Len(New) + (k + i)]
      BY <2>1, <3>1 DEF Awaits
    <3>4. Len(New) + (k + i) = Len(New') + i
      BY <1>18 DEF a
    <3>5. QED
      BY <3>2, <3>3, <3>4
  <2>5. Len(New') <= Len(Old)
    <3>1. Len(Pending') \in Nat /\ Len(New') \in Nat /\ Len(Old) \in Nat
      BY <1>9, <1>18
    <3>2. QED
      BY <2>2, <3>1
  <2>6. QED
    BY <2>2, <2>3, <2>4, <2>5 DEF StartsLike, Awaits
<1>21. Bytewise'
  <2>1. stream'[F] = stream[F] /\ stream'[G] = stream[G] /\ Old' = Old /\ pc' # "done"
    BY <1>1, <1>2, <1>10
  <2>2. NoZero(call.data)'
    BY <1>5, <1>8 DEF NoZero
  <2>3. /\ stream[F].pos <= Len(Old)
        /\ stream[F].eof => stream[F].pos = Len(Old)
    BY <1>2 DEF Bytewise
  <2>4. QED
    BY <1>19, <1>20, <2>1, <2>2, <2>3 DEF Bytewise, At
<1>22. QED
  BY <1>13, <1>14, <1>21 DEF CopyInv

LEMMA WriteFailsKeeps ==
  ASSUME CopyInv, program = "copy", program' = program, pc' = pc, buf' = buf, WriteFails
  PROVE  CopyInv'
<1>1. /\ call.op = "write" /\ call.s = G /\ Errs(G) /\ call' = None /\ disk' = disk
  BY DEF WriteFails, Writing, CopyInv, Typed
<1>2. /\ pc = "check" /\ Reading /\ Written /\ Typed /\ Streaming /\ Bytewise
      /\ ~stream[F].error
  BY <1>1 DEF CopyInv, Streaming
<1>3. /\ stream' \in [Streams -> StreamRecords] /\ stream'[G].error
      /\ stream'[G].file = stream[G].file /\ stream'[G].inout = stream[G].inout
      /\ stream'[F] = stream[F]
  BY <1>1, <1>2, Constants, ErrorFacts DEF Typed
<1>4. /\ call'.op = "none" /\ call'.data = <<>> /\ call'.done = 0
      /\ call' = [op |-> call'.op, s |-> call'.s, data |-> call'.data, done |-> call'.done]
      /\ <<>> \in Seq(Bytes) /\ Len(<<>>) = 0
  BY <1>1 DEF None
<1>5. Typed'
  BY <1>1, <1>2, <1>3, <1>4 DEF Typed
<1>6. Streaming'
  BY <1>1, <1>2, <1>3, <1>4 DEF Streaming, Reading, Written
<1>7. Old' = Old /\ New' = New /\ NoZero(<<>>)
  BY <1>1, <1>4 DEF Old, New, NoZero
<1>8. Bytewise'
  BY <1>2, <1>3, <1>4, <1>7 DEF Bytewise, At
<1>9. QED
  BY <1>5, <1>6, <1>8 DEF CopyInv

LEMMA WriteReturnsKeeps ==
  ASSUME CopyInv, program = "copy", program' = program, pc' = pc, buf' = buf, WriteReturns
  PROVE  CopyInv'
<1>1. /\ call.op = "write" /\ call.done = Len(call.data) /\ call' = None
      /\ disk' = disk /\ stream' = stream
  BY DEF WriteReturns
<1>2. /\ pc = "check" /\ Reading /\ Written /\ Typed /\ Streaming /\ Bytewise
      /\ ~stream[F].error /\ ~stream[G].error
  BY <1>1 DEF CopyInv, Streaming
<1>3. /\ call'.op = "none" /\ call'.data = <<>> /\ call'.done = 0
      /\ call' = [op |-> call'.op, s |-> call'.s, data |-> call'.data, done |-> call'.done]
      /\ <<>> \in Seq(Bytes) /\ Len(<<>>) = 0
  BY <1>1 DEF None
<1>4. Typed'
  BY <1>1, <1>2, <1>3 DEF Typed
<1>5. Streaming'
  BY <1>1, <1>2, <1>3 DEF Streaming, Reading, Written
<1>6. Old' = Old /\ New' = New /\ NoZero(<<>>)
  BY <1>1, <1>3 DEF Old, New, NoZero
<1>7. Pending' = <<>>
  BY <1>2, <1>3, <1>4, <1>5, PendingNow
<1>8. Pending \in Seq(Bytes) /\ Len(Pending) = 0
  <2>1. Len(call.data) \in Nat
    BY <1>2 DEF Typed
  <2>2. QED
    BY <1>1, <2>1, PendingElements
<1>9. Pending = <<>>
  BY <1>8, EmptySeq
<1>10. Bytewise'
  BY <1>1, <1>2, <1>3, <1>6, <1>7, <1>9 DEF Bytewise, At
<1>11. QED
  BY <1>4, <1>5, <1>10 DEF CopyInv

LEMMA InWriteKeeps == CopyInv /\ InWrite => CopyInv'
<1> SUFFICES ASSUME CopyInv, InWrite PROVE CopyInv'
  OBVIOUS
<1>1. program = "copy" /\ program' = program /\ pc' = pc /\ buf' = buf /\ InCall
  BY DEF InWrite, At, CopyRest
<1>2. CASE WriteNone
  BY <1>1, <1>2, OtherKeeps DEF WriteNone
<1>3. QED
  BY <1>1, <1>2, WriteSomeKeeps, WriteFailsKeeps, WriteReturnsKeeps DEF InCall

LEMMA CheckWriteKeeps == CopyInv /\ CheckWrite => CopyInv'
<1> SUFFICES ASSUME CopyInv, CheckWrite PROVE CopyInv'
  OBVIOUS
<1>1. /\ program = "copy" /\ pc = "check" /\ program' = program /\ buf' = buf
      /\ disk' = disk /\ stream' = stream /\ call' = call /\ call.op = "none"
      /\ Typed /\ Bytewise /\ Reading /\ Written /\ ~stream[F].error
  BY DEF CheckWrite, At, CopyRest, streamVars, CopyInv, Streaming
<1>2. pc' = IF stream[G].error THEN "failed" ELSE "test"
  BY DEF CheckWrite, Goto
<1>3. Typed'
  BY <1>1, <1>2 DEF Typed, Places
<1>4. Streaming'
  BY <1>1, <1>2 DEF Streaming, Reading, Written
<1>5. Pending = <<>> /\ Pending' = <<>>
  BY <1>1, <1>2, <1>3, <1>4, PendingFacts, PendingNow
<1>6. Old' = Old /\ New' = New
  BY <1>1 DEF Old, New
<1>7. Bytewise'
  BY <1>1, <1>2, <1>5, <1>6 DEF Bytewise, At
<1>8. QED
  BY <1>3, <1>4, <1>7 DEF CopyInv

LEMMA NextCopies == CopyInv /\ [Next]_vars => CopyInv'
<1> SUFFICES ASSUME CopyInv, [Next]_vars PROVE CopyInv'
  OBVIOUS
<1>1. CASE Copy
  BY <1>1, OpenInKeeps, CreateOutKeeps, TestEndKeeps, ReadChunkKeeps, WriteChunkKeeps,
     InWriteKeeps, CheckWriteKeeps DEF Copy
<1>2. CASE MakeNumber
  <2>1. UNCHANGED streamVars /\ program' = program /\ program # "copy"
    BY <1>2 DEF MakeNumber, BuildText, ReadText, AskPower, AddDigit, NumberRead,
                NumberRest, At
  <2>2. pc' \in Places \ {"write"}
    BY <1>2 DEF MakeNumber, BuildText, ReadText, AskPower, AddDigit, NumberRead,
                Goto, Places
  <2>3. QED
    BY <2>1, <2>2, OtherKeeps
<1>3. CASE RaisePower \/ PowerDone
  <2>1. UNCHANGED streamVars /\ program' = program /\ program # "copy"
    BY <1>3 DEF RaisePower, PowerDone, NumberRest, At
  <2>2. pc' \in Places \ {"write"}
    BY <1>3 DEF RaisePower, PowerDone, Goto, Places
  <2>3. QED
    BY <2>1, <2>2, OtherKeeps
<1>4. CASE Power \/ UNCHANGED vars
  <2>1. UNCHANGED streamVars /\ program' = program /\ pc' = pc /\ buf' = buf
    BY <1>4 DEF Power, NumberRest, vars, streamVars
  <2>2. QED
    BY <2>1, OtherKeeps
<1>5. QED
  BY <1>1, <1>2, <1>3, <1>4 DEF Next

LEMMA CopyInvIsEnough == CopyInv => CopyKeepsBytes
<1> SUFFICES ASSUME CopyInv PROVE CopyKeepsBytes
  OBVIOUS
<1>1. Typed /\ Streaming /\ Bytewise
  BY DEF CopyInv
<1>2. Old \in Seq(Bytes) /\ New \in Seq(Bytes) /\ Len(Old) \in Nat /\ Len(New) \in Nat
  BY <1>1, Constants DEF Typed, Old, New
<1>3. StreamsOK
  <2>1. ASSUME NEW s \in Streams
        PROVE  /\ stream[s].inout \in {{}, {"in"}, {"out"}}
               /\ stream[s].file \subseteq Files /\ stream[s].pos \in Nat
               /\ stream[s].eof \in BOOLEAN /\ stream[s].error \in BOOLEAN
    <3>1. stream[s] \in StreamRecords
      BY <1>1 DEF Typed
    <3>2. QED
      BY <3>1 DEF StreamRecords
  <2>2. QED
    BY <1>1, <2>1 DEF Typed, StreamsOK
<1>4. (\A i \in DOMAIN Old : Old[i] # 0) <=> NoZero(Old)
  BY <1>2 DEF NoZero
<1>5. NoZero(Old) => New = SubSeq(Old, 1, Len(New))
  <2>1. SUFFICES ASSUME NoZero(Old) PROVE New = SubSeq(Old, 1, Len(New))
    OBVIOUS
  <2>2. StartsLike(New, Old)
    BY <1>1, <2>1 DEF Bytewise
  <2> DEFINE p == SubSeq(Old, 0 + 1, Len(New))
  <2>3. p \in Seq(Bytes) /\ Len(p) = Len(New) /\ \A k \in 1..Len(New) : p[k] = Old[k]
    <3>1. 0 \in 0..Len(Old) /\ Len(New) \in 0..Len(Old)
      BY <1>2, <2>2 DEF StartsLike
    <3>2. /\ p \in Seq(Bytes) /\ Len(p) = Len(New) - 0
          /\ \A k \in 1..(Len(New) - 0) : p[k] = Old[0 + k]
      BY <1>2, <3>1, SliceFacts
    <3>3. QED
      BY <1>2, <3>2
  <2>4. \A k \in 1..Len(New) : New[k] = p[k]
    BY <2>2, <2>3 DEF StartsLike
  <2>5. New = p
    BY <1>2, <2>3, <2>4, SeqEqual
  <2>6. QED
    BY <2>5
<1>6. NoZero(Old) /\ stream[F].inout # {} /\ ~stream[G].error
        => New \o Pending = SubSeq(Old, 1, stream[F].pos)
  <2>1. SUFFICES ASSUME NoZero(Old), stream[F].inout # {}, ~stream[G].error
                 PROVE  New \o Pending = SubSeq(Old, 1, stream[F].pos)
    OBVIOUS
  <2>2. StartsLike(New, Old) /\ Awaits(New, Pending, stream[F].pos, Old)
    BY <1>1, <2>1 DEF Bytewise
  <2>3. Pending \in Seq(Bytes) /\ Len(Pending) \in Nat
    BY PendingElements
  <2> DEFINE n == stream[F].pos
             p == SubSeq(Old, 0 + 1, n)
             q == New \o Pending
  <2>4. n \in 0..Len(Old) /\ n = Len(New) + Len(Pending)
    BY <1>2, <2>2, <2>3 DEF Awaits
  <2>5. p \in Seq(Bytes) /\ Len(p) = n /\ \A k \in 1..n : p[k] = Old[k]
    <3>1. 0 \in 0..Len(Old) /\ n \in 0..Len(Old)
      BY <1>2, <2>4
    <3>2. /\ p \in Seq(Bytes) /\ Len(p) = n - 0
          /\ \A k \in 1..(n - 0) : p[k] = Old[0 + k]
      BY <1>2, <3>1, SliceFacts
    <3>3. QED
      BY <1>2, <2>4, <3>2
  <2>6. /\ q \in Seq(Bytes) /\ Len(q) = n
        /\ \A k \in 1..n : q[k] = IF k <= Len(New) THEN New[k] ELSE Pending[k - Len(New)]
    BY <1>2, <2>3, <2>4, ConcatProperties
  <2>7. ASSUME NEW k \in 1..n PROVE q[k] = p[k]
    <3>1. CASE k <= Len(New)
      BY <1>2, <2>2, <2>4, <2>5, <2>6, <3>1 DEF StartsLike
    <3>2. CASE k > Len(New)
      <4>1. k - Len(New) \in 1..Len(Pending) /\ Len(New) + (k - Len(New)) = k
        BY <1>2, <2>3, <2>4, <3>2
      <4>2. Pending[k - Len(New)] = Old[k]
        BY <2>2, <4>1 DEF Awaits
      <4>3. QED
        BY <1>2, <2>4, <2>5, <2>6, <3>2, <4>2
    <3>3. QED
      BY <1>2, <2>4, <3>1, <3>2
  <2>8. q = p
    BY <2>5, <2>6, <2>7, SeqEqual
  <2>9. QED
    BY <2>8
<1>7. At("copy", "done") => (New = Old <=> NoZero(Old))
  <2>1. SUFFICES ASSUME At("copy", "done") PROVE New = Old <=> NoZero(Old)
    OBVIOUS
  <2>2. NoZero(New)
    BY <1>1 DEF Bytewise
  <2>3. NoZero(Old) => Len(New) = Len(Old) /\ StartsLike(New, Old)
    BY <1>1, <2>1 DEF Bytewise
  <2>4. NoZero(Old) => New = Old
    BY <1>2, <2>3, SeqEqual DEF StartsLike
  <2>5. QED
    BY <2>2, <2>4
<1>8. QED
  BY <1>3, <1>4, <1>5, <1>6, <1>7 DEF CopyKeepsBytes, Old, New

(* Whatever answers read and write give, the new file and what is still to *)
(* be written to it are what was read so far, and the copy is complete at  *)
(* the end exactly if the file has no byte 0, which ends the string that   *)
(* streamWrite takes: for files and chunks of any size.                    *)
THEOREM CopiesAreKept == Spec => []CopyKeepsBytes
<1>1. Spec => []CopyInv
  BY InitCopies, NextCopies, PTL DEF Spec
<1>2. QED
  BY <1>1, CopyInvIsEnough, PTL

-----------------------------------------------------------------------------
(* Numbers modulo Word.                                                    *)

Words == 0..(Word - 1)

LEMMA WordFacts ==
  /\ Word \in Nat /\ Word > 30 /\ Word % 3 # 0 /\ BufLen \in Nat
  /\ BufLen >= 2 /\ BufLen < Word
BY CharstashAssumption, RuntimeAssumption

LEMMA ModFacts ==
  ASSUME NEW n \in Int
  PROVE  /\ n = Word * (n \div Word) + (n % Word)
         /\ n % Word \in Words /\ n \div Word \in Int
BY WordFacts DEF Words

LEMMA ModIs ==
  ASSUME NEW q \in Int, NEW r \in Words
  PROVE  (Word * q + r) % Word = r
BY WordFacts DEF Words

LEMMA ModAdd ==
  ASSUME NEW n \in Int, NEW q \in Int
  PROVE  (n + Word * q) % Word = n % Word
<1> DEFINE r == n % Word
           d == n \div Word
<1>1. n = Word * d + r /\ r \in Words /\ d \in Int
  BY ModFacts
<1> HIDE DEF r, d
<1>2. n + Word * q = Word * (d + q) + r
  BY <1>1, WordFacts DEF Words
<1>3. (Word * (d + q) + r) % Word = r
  BY <1>1, ModIs
<1>4. QED
  BY <1>2, <1>3 DEF r

LEMMA ModPlus ==
  ASSUME NEW a \in Int, NEW b \in Int
  PROVE  ((a % Word) + b) % Word = (a + b) % Word
<1> DEFINE r == a % Word
           d == a \div Word
<1>1. a = Word * d + r /\ r \in Int /\ d \in Int
  BY ModFacts, WordFacts DEF Words
<1> HIDE DEF r, d
<1>2. a + b = (r + b) + Word * d
  BY <1>1, WordFacts
<1>3. ((r + b) + Word * d) % Word = (r + b) % Word
  BY <1>1, ModAdd
<1>4. QED
  BY <1>2, <1>3 DEF r

LEMMA ModTimes ==
  ASSUME NEW a \in Int, NEW b \in Int
  PROVE  ((a % Word) * b) % Word = (a * b) % Word
<1> DEFINE r == a % Word
           d == a \div Word
<1>1. a = Word * d + r /\ r \in Int /\ d \in Int
  BY ModFacts, WordFacts DEF Words
<1> HIDE DEF r, d
<1>2. a * b = r * b + Word * (d * b)
  BY <1>1, WordFacts
<1>3. r * b \in Int /\ d * b \in Int
  BY <1>1
<1>4. (r * b + Word * (d * b)) % Word = (r * b) % Word
  BY <1>3, ModAdd
<1>5. QED
  BY <1>2, <1>4 DEF r

-----------------------------------------------------------------------------
(* Powers.                                                                 *)

(* A function that is given by its first value and a step.                 *)
Follows(f, n, a, g) == f[0] = a /\ \A i \in 1..n : f[i] = g[i][f[i - 1]]

LEMMA FollowsExists ==
  ASSUME NEW S, NEW a \in S, NEW n \in Nat, NEW g \in [1..n -> [S -> S]]
  PROVE  \E f \in [0..n -> S] : Follows(f, n, a, g)
<1> DEFINE M == {m \in 0..n : \E f \in [0..m -> S] : Follows(f, m, a, g)}
<1>1. 0 \in M
  <2>1. [i \in 0..0 |-> a] \in [0..0 -> S] /\ Follows([i \in 0..0 |-> a], 0, a, g)
    BY DEF Follows
  <2>2. QED
    BY <2>1
<1>2. ASSUME NEW m \in 1..n, m - 1 \in M
      PROVE  m \in M
  <2>1. PICK f \in [0..(m - 1) -> S] : Follows(f, m - 1, a, g)
    BY <1>2
  <2> DEFINE h == [i \in 0..m |-> IF i = m THEN g[m][f[m - 1]] ELSE f[i]]
  <2>2. f[m - 1] \in S /\ g[m] \in [S -> S]
    OBVIOUS
  <2>3. g[m][f[m - 1]] \in S
    BY <2>2
  <2>4. h \in [0..m -> S]
    BY <2>3
  <2>5. /\ h[m] = g[m][f[m - 1]] /\ \A i \in 0..(m - 1) : h[i] = f[i]
        /\ 0 \in 0..(m - 1) /\ m - 1 \in 0..(m - 1)
    OBVIOUS
  <2> HIDE DEF h
  <2>6. ASSUME NEW i \in 1..m
        PROVE  h[i] = g[i][h[i - 1]]
    <3>1. CASE i = m
      BY <2>5, <3>1
    <3>2. CASE i # m
      <4>1. i \in 1..(m - 1) /\ i \in 0..(m - 1) /\ i - 1 \in 0..(m - 1)
        BY <3>2
      <4>2. QED
        BY <2>1, <2>5, <4>1 DEF Follows
    <3>3. QED
      BY <3>1, <3>2
  <2>7. Follows(h, m, a, g)
    BY <2>1, <2>5, <2>6 DEF Follows
  <2>8. QED
    BY <2>4, <2>7
<1> HIDE DEF M
<1>3. \A m \in 0..n : m \in M
  BY <1>1, <1>2, Induction
<1>4. QED
  BY <1>3 DEF M

(* p[k] is b to the k, for k up to e.                                      *)
RaisedTo(p, b, e) ==
  p \in [0..e -> Words] /\ p[0] = 1 /\ \A k \in 1..e : p[k] = (b * p[k - 1]) % Word

Raised(b, e) == CHOOSE p : RaisedTo(p, b, e)

LEMMA RaisedFacts ==
  ASSUME NEW b \in Int, NEW e \in Nat
  PROVE  RaisedTo(Raised(b, e), b, e)
<1> DEFINE g == [k \in 1..e |-> [w \in Words |-> (b * w) % Word]]
<1>1. 1 \in Words
  BY WordFacts DEF Words
<1>2. ASSUME NEW w \in Words PROVE (b * w) % Word \in Words
  <2>1. b * w \in Int
    BY WordFacts DEF Words
  <2>2. QED
    BY <2>1, ModFacts
<1>3. g \in [1..e -> [Words -> Words]]
  BY <1>2
<1>4. PICK p \in [0..e -> Words] : Follows(p, e, 1, g)
  BY <1>1, <1>3, FollowsExists
<1>5. ASSUME NEW k \in 1..e PROVE p[k] = (b * p[k - 1]) % Word
  <2>1. p[k] = g[k][p[k - 1]]
    BY <1>4 DEF Follows
  <2>2. k - 1 \in 0..e /\ p[k - 1] \in Words
    BY <1>4
  <2>3. QED
    BY <2>1, <2>2
<1>6. p[0] = 1
  BY <1>4 DEF Follows
<1>7. RaisedTo(p, b, e)
  BY <1>4, <1>5, <1>6 DEF RaisedTo
<1>8. QED
  BY <1>7 DEF Raised

(* b to the m + n is the product of b to the m and b to the n.             *)
LEMMA RaisedSum ==
  ASSUME NEW b \in Int, NEW e \in Nat, NEW p, RaisedTo(p, b, e),
         NEW n \in 0..e
  PROVE  \A m \in 0..(e - n) : p[m + n] = (p[m] * p[n]) % Word
<1> DEFINE S == {m \in 0..(e - n) : p[m + n] = (p[m] * p[n]) % Word}
<1>1. \A k \in 0..e : p[k] \in Int /\ p[k] \in Words
  BY WordFacts DEF RaisedTo, Words
<1>2. 0 \in S
  <2>1. p[0] * p[n] = p[n] /\ 0 + n = n /\ p[n] = Word * 0 + p[n]
    BY <1>1, WordFacts DEF RaisedTo
  <2>2. (Word * 0 + p[n]) % Word = p[n]
    BY <1>1, ModIs
  <2>3. QED
    BY <2>1, <2>2
<1>3. ASSUME NEW m \in 1..(e - n), m - 1 \in S
      PROVE  m \in S
  <2> DEFINE x == p[m - 1]
             y == p[n]
  <2>1. /\ m + n \in 1..e /\ (m + n) - 1 = (m - 1) + n /\ m \in 1..e
        /\ (m - 1) + n \in 0..e /\ m - 1 \in 0..e
    OBVIOUS
  <2>2. x \in Int /\ y \in Int
    BY <1>1, <2>1
  <2>3. p[(m - 1) + n] = (x * y) % Word
    BY <1>3
  <2>4. p[m + n] = (b * ((x * y) % Word)) % Word
    BY <2>1, <2>3 DEF RaisedTo
  <2>5. p[m] = (b * x) % Word
    BY <2>1 DEF RaisedTo
  <2> HIDE DEF x, y
  <2>6. (((b * x) % Word) * y) % Word = ((b * x) * y) % Word
    BY <2>2, ModTimes
  <2>7. (((x * y) % Word) * b) % Word = ((x * y) * b) % Word
    BY <2>2, ModTimes
  <2>8. /\ (x * y) * b = (b * x) * y
        /\ ((x * y) % Word) * b = b * ((x * y) % Word)
    <3>1. x * y \in Int
      BY <2>2
    <3>2. (x * y) % Word \in Int
      BY <3>1, ModFacts, WordFacts DEF Words
    <3>3. QED
      BY <2>2, <3>2
  <2>9. p[m + n] = (p[m] * y) % Word
    BY <2>4, <2>5, <2>6, <2>7, <2>8
  <2>10. QED
    BY <2>9 DEF y
<1>4. e - n \in Nat
  OBVIOUS
<1> HIDE DEF S
<1>5. \A m \in 0..(e - n) : m \in S
  BY <1>2, <1>3, <1>4, Induction
<1>6. QED
  BY <1>5 DEF S

(* Halving the exponent gives the same number.                             *)
LEMMA ExactIsRaised ==
  ASSUME NEW b \in Int, NEW e \in Nat
  PROVE  ExactPower(b, e) = Raised(b, e)[e]
<1> DEFINE p == Raised(b, e)
           Def(f) == [n \in 0..e |-> IF n = 0 THEN 1
                                     ELSE IF n % 2 = 0 THEN (f[n \div 2] * f[n \div 2]) % Word
                                     ELSE (b * f[n - 1]) % Word]
           h == CHOOSE f : f = Def(f)
<1>1. RaisedTo(p, b, e)
  BY RaisedFacts
<1>2. ExactPower(b, e) = h[e]
  BY DEF ExactPower
<1> HIDE DEF p
<1>3. ASSUME NEW n \in 1..e, n % 2 = 0
      PROVE  p[n] = (p[n \div 2] * p[n \div 2]) % Word
  <2> DEFINE m == n \div 2
  <2>1. m \in 0..e /\ m \in 0..(e - m) /\ m + m = n
    BY <1>3
  <2> HIDE DEF m
  <2>2. p[m + m] = (p[m] * p[m]) % Word
    BY <1>1, <2>1, RaisedSum
  <2>3. QED
    BY <2>1, <2>2 DEF m
<1>4. p = Def(p)
  <2>1. p = [n \in 0..e |-> p[n]]
    BY <1>1 DEF RaisedTo
  <2>2. ASSUME NEW n \in 0..e PROVE p[n] = Def(p)[n]
    <3>1. CASE n = 0
      BY <1>1, <3>1 DEF RaisedTo
    <3>2. CASE n # 0 /\ n % 2 = 0
      BY <1>3, <3>2
    <3>3. CASE n # 0 /\ n % 2 # 0
      BY <1>1, <3>3 DEF RaisedTo
    <3>4. QED
      BY <3>1, <3>2, <3>3
  <2>3. QED
    BY <2>1, <2>2
<1>5. h = Def(h)
  BY <1>4
<1> HIDE DEF h
<1>6. \A n \in 0..e : h[n] = IF n = 0 THEN 1
                            ELSE IF n % 2 = 0 THEN (h[n \div 2] * h[n \div 2]) % Word
                            ELSE (b * h[n - 1]) % Word
  BY <1>5
<1> HIDE DEF Def
<1> DEFINE B == {n \in 0..e : h[n] # p[n]}
<1>7. ASSUME B # {} PROVE FALSE
  <2>1. B \in SUBSET Nat
    OBVIOUS
  <2>2. PICK n \in B : \A k \in B : n <= k
    BY <1>7, <2>1, LeastExists
  <2>3. n \in 0..e /\ h[n] # p[n] /\ \A k \in 0..e : k < n => h[k] = p[k]
    BY <2>2
  <2>4. CASE n = 0
    BY <1>1, <1>6, <2>3, <2>4 DEF RaisedTo
  <2>5. CASE n # 0 /\ n % 2 = 0
    <3>1. n \div 2 \in 0..e /\ n \div 2 < n
      BY <2>3, <2>5
    <3>2. h[n \div 2] = p[n \div 2]
      BY <2>3, <3>1
    <3>3. n \in 1..e
      BY <2>3, <2>5
    <3>4. QED
      BY <1>3, <1>6, <2>3, <2>5, <3>2, <3>3
  <2>6. CASE n # 0 /\ n % 2 # 0
    <3>1. n - 1 \in 0..e /\ n - 1 < n /\ n \in 1..e
      BY <2>3, <2>6
    <3>2. h[n - 1] = p[n - 1]
      BY <2>3, <3>1
    <3>3. QED
      BY <1>1, <1>6, <2>3, <2>6, <3>1, <3>2 DEF RaisedTo
  <2>7. QED
    BY <2>4, <2>5, <2>6
<1>8. h[e] = p[e]
  BY <1>7
<1>9. QED
  BY <1>2, <1>8 DEF p

(* While a power is computed, acc is the power so far; the largest         *)
(* exponent there is has no last round.                                    *)
PowInv ==
  /\ pow \in [base : Words, exp : Words, i : Words, acc : Words, busy : BOOLEAN]
  /\ pow.busy /\ pow.exp < Word - 1 =>
       pow.i \in 1..(pow.exp + 1) /\ pow.acc = Raised(pow.base, pow.exp)[pow.i - 1]
  /\ ~pow.busy /\ pow.i # 0 => pow.acc = ExactPower(pow.base, pow.exp)

LEMMA CallFacts ==
  ASSUME NEW b \in Words, NEW e \in Words, P!PowerCall(b, e)
  PROVE  PowInv' /\ pow'.base = b /\ pow'.exp = e /\ pow'.i = 1
<1> DEFINE go == e # 0 /\ b \notin {0, 1}
           a == IF e = 0 \/ b = 1 THEN 1 ELSE IF b = 0 THEN 0 ELSE 1
           p == Raised(b, e)
<1>1. pow' = [base |-> b, exp |-> e, i |-> 1, acc |-> a, busy |-> go]
  BY DEF P!PowerCall
<1>2. 1 \in Words /\ a \in Words /\ go \in BOOLEAN /\ b \in Int /\ e \in Nat
  BY WordFacts DEF Words
<1>3. RaisedTo(p, b, e)
  BY <1>2, RaisedFacts
<1> HIDE DEF p
<1>4. ASSUME ~go PROVE a = p[e]
  <2>1. CASE e = 0
    BY <1>3, <2>1 DEF RaisedTo
  <2>2. CASE e # 0 /\ b = 1
    <3> DEFINE S == {k \in 0..e : p[k] = 1}
    <3>1. 0 \in S
      BY <1>2, <1>3 DEF RaisedTo
    <3>2. ASSUME NEW k \in 1..e, k - 1 \in S PROVE k \in S
      <4>1. p[k] = (1 * 1) % Word
        BY <1>3, <2>2, <3>2 DEF RaisedTo
      <4>2. (Word * 0 + 1) % Word = 1
        BY <1>2, ModIs
      <4>3. QED
        BY <4>1, <4>2, WordFacts
    <3> HIDE DEF S
    <3>3. \A k \in 0..e : k \in S
      BY <1>2, <3>1, <3>2, Induction
    <3>4. e \in S
      BY <1>2, <3>3
    <3>5. QED
      BY <2>2, <3>4 DEF S
  <2>3. CASE e # 0 /\ b = 0
    <3>1. e \in 1..e /\ e - 1 \in 0..e
      BY <1>2, <2>3
    <3>2. p[e] = (0 * p[e - 1]) % Word /\ p[e - 1] \in Words
      BY <1>3, <2>3, <3>1 DEF RaisedTo
    <3>3. 0 \in Words /\ 0 * p[e - 1] = Word * 0 + 0
      BY <3>2, WordFacts DEF Words
    <3>4. p[e] = 0
      BY <3>2, <3>3, ModIs
    <3>5. QED
      BY <2>3, <3>4
  <2>4. QED
    BY <1>4, <2>1, <2>2, <2>3
<1>5. go => a = p[0]
  BY <1>3 DEF RaisedTo
<1> HIDE DEF go, a
<1>6. ExactPower(b, e) = p[e]
  BY <1>2, ExactIsRaised DEF p
<1>7. /\ pow'.base = b /\ pow'.exp = e /\ pow'.i = 1 /\ pow'.acc = a
      /\ (pow'.busy <=> go)
  BY <1>1, <1>2
<1>8. pow' \in [base : Words, exp : Words, i : Words, acc : Words, busy : BOOLEAN]
  BY <1>1, <1>2
<1>9. 1 \in 1..(e + 1) /\ 1 - 1 = 0
  BY <1>2
<1>10. QED
  BY <1>4, <1>5, <1>6, <1>7, <1>8, <1>9 DEF PowInv, p

LEMMA StepFacts ==
  ASSUME PowInv, P!PowerStep
  PROVE  /\ PowInv' /\ pow.busy
         /\ pow'.base = pow.base /\ pow'.exp = pow.exp
         /\ pow.exp < Word - 1 => pow'.i # 0
<1> DEFINE b == pow.base
           e == pow.exp
           i == pow.i
           R == [base : Words, exp : Words, i : Words, acc : Words, busy : BOOLEAN]
<1>1. pow \in R /\ b \in Int /\ e \in Nat /\ i \in Nat /\ e < Word /\ i < Word
  BY WordFacts DEF PowInv, Words
<1>2. CASE P!Multiply
  <2> DEFINE x == (pow.acc * b) % Word
             j == (i + 1) % Word
  <2>1. pow.busy /\ i <= e
    BY <1>2 DEF P!Multiply, P!GoesOn
  <2>2. pow.acc * b \in Int /\ i + 1 \in Int
    BY <1>1, WordFacts DEF Words
  <2>3. x \in Words /\ j \in Words
    BY <2>2, ModFacts
  <2>4. pow' = [pow EXCEPT !.acc = x, !.i = j]
    BY <1>2 DEF P!Multiply
  <2>5. ASSUME e < Word - 1
        PROVE  j = i + 1 /\ i + 1 \in 1..(e + 1) /\ x = Raised(b, e)[(i + 1) - 1]
    <3>1. i + 1 \in Words /\ Word * 0 + (i + 1) = i + 1
      BY <1>1, <2>1, <2>5, WordFacts DEF Words
    <3>2. j = i + 1
      BY <3>1, ModIs
    <3>3. i \in 1..(e + 1) /\ pow.acc = Raised(b, e)[i - 1]
      BY <2>1, <2>5 DEF PowInv
    <3>4. i \in 1..e /\ (i + 1) - 1 = i
      BY <1>1, <2>1, <3>3
    <3>5. Raised(b, e)[i] = (b * Raised(b, e)[i - 1]) % Word
      BY <1>1, <3>4, RaisedFacts DEF RaisedTo
    <3>6. pow.acc * b = b * pow.acc
      BY <1>1, WordFacts DEF Words
    <3>7. QED
      BY <1>1, <2>1, <3>2, <3>3, <3>4, <3>5, <3>6
  <2> HIDE DEF x, j
  <2>6. /\ pow'.base = b /\ pow'.exp = e /\ pow'.i = j /\ pow'.acc = x /\ pow'.busy
    BY <1>1, <2>1, <2>4
  <2>7. pow' \in R
    BY <1>1, <2>3, <2>4
  <2>8. e < Word - 1 => j # 0
    BY <1>1, <2>5
  <2>9. QED
    BY <2>1, <2>5, <2>6, <2>7, <2>8 DEF PowInv
<1>3. CASE P!PowerReturn
  <2>1. pow.busy /\ ~(i <= e) /\ pow' = [pow EXCEPT !.busy = FALSE]
    BY <1>3 DEF P!PowerReturn, P!GoesOn
  <2>2. /\ pow'.base = b /\ pow'.exp = e /\ pow'.i = i /\ pow'.acc = pow.acc
        /\ ~pow'.busy /\ pow' \in R
    BY <1>1, <2>1
  <2>3. e < Word - 1
    BY <1>1, <2>1, WordFacts
  <2>4. i \in 1..(e + 1) /\ pow.acc = Raised(b, e)[i - 1]
    BY <2>1, <2>3 DEF PowInv
  <2>5. i - 1 = e /\ i # 0
    BY <1>1, <2>1, <2>4
  <2>6. pow'.acc = ExactPower(b, e)
    BY <1>1, <2>2, <2>4, <2>5, ExactIsRaised
  <2>7. QED
    BY <2>1, <2>2, <2>5, <2>6 DEF PowInv
<1>4. QED
  BY <1>2, <1>3 DEF P!PowerStep

-----------------------------------------------------------------------------
(* The powers of ten, and a number's rests.                                *)

LEMMA TenFacts ==
  /\ TenTo[0] = 1
  /\ \A k \in 1..BufLen : TenTo[k] = 10 * TenTo[k - 1]
  /\ \A k \in 0..BufLen : TenTo[k] \in Nat /\ TenTo[k] > 0
<1> DEFINE Def(t) == [k \in 0..BufLen |-> IF k = 0 THEN 1 ELSE Ten * t[k - 1]]
           g == [k \in 1..BufLen |-> [x \in Nat |-> 10 * x]]
<1>1. BufLen \in Nat /\ g \in [1..BufLen -> [Nat -> Nat]]
  BY WordFacts
<1>2. PICK t \in [0..BufLen -> Nat] : Follows(t, BufLen, 1, g)
  BY <1>1, FollowsExists
<1>3. t = Def(t)
  <2>1. ASSUME NEW k \in 1..BufLen
        PROVE  k - 1 \in 0..BufLen /\ t[k] = Ten * t[k - 1]
    <3>1. k - 1 \in 0..BufLen /\ t[k - 1] \in Nat
      BY <1>1, <1>2
    <3>2. t[k] = g[k][t[k - 1]]
      BY <1>2 DEF Follows
    <3>3. QED
      BY <3>1, <3>2 DEF Ten
  <2>2. t[0] = 1
    BY <1>2 DEF Follows
  <2>3. t = [k \in 0..BufLen |-> t[k]]
    BY <1>2
  <2>4. \A k \in 0..BufLen : t[k] = IF k = 0 THEN 1 ELSE Ten * t[k - 1]
    BY <1>1, <2>1, <2>2
  <2> QED
    BY <2>3, <2>4
<1>4. TenTo = Def(TenTo)
  BY <1>3 DEF TenTo
<1>5. \A k \in 0..BufLen : TenTo[k] = IF k = 0 THEN 1 ELSE Ten * TenTo[k - 1]
  BY <1>4
<1> HIDE DEF Def
<1>6. TenTo[0] = 1 /\ \A k \in 1..BufLen : TenTo[k] = 10 * TenTo[k - 1]
  BY <1>1, <1>5 DEF Ten
<1> DEFINE S == {k \in 0..BufLen : TenTo[k] \in Nat /\ TenTo[k] > 0}
<1>7. 0 \in S
  BY <1>1, <1>6
<1>8. ASSUME NEW k \in 1..BufLen, k - 1 \in S PROVE k \in S
  <2>1. k \in 0..BufLen /\ TenTo[k] = 10 * TenTo[k - 1]
    BY <1>1, <1>6
  <2>2. TenTo[k - 1] \in Nat /\ TenTo[k - 1] > 0
    BY <1>8
  <2>3. TenTo[k] \in Nat /\ TenTo[k] > 0
    BY <2>1, <2>2
  <2>4. QED
    BY <2>1, <2>3
<1> HIDE DEF S
<1>9. \A k \in 0..BufLen : k \in S
  BY <1>1, <1>7, <1>8, Induction
<1>10. QED
  BY <1>6, <1>9 DEF S

(* The room of csAppendInt's buffer.                                       *)
Room == BufLen - 1

Rest(n) == Rests(n, Room)

LEMMA RestFacts ==
  ASSUME NEW n \in Nat
  PROVE  /\ Rest(n) \in [0..Room -> Nat] /\ Rest(n)[0] = n
         /\ \A k \in 1..Room : Rest(n)[k] = Rest(n)[k - 1] \div 10
<1> DEFINE Def(t) == [k \in 0..Room |-> IF k = 0 THEN n ELSE t[k - 1] \div Ten]
           g == [k \in 1..Room |-> [x \in Nat |-> x \div 10]]
           h == CHOOSE f : f = Def(f)
<1>1. Room \in Nat /\ g \in [1..Room -> [Nat -> Nat]]
  BY WordFacts DEF Room
<1>2. PICK t \in [0..Room -> Nat] : Follows(t, Room, n, g)
  BY <1>1, FollowsExists
<1>3. t = Def(t)
  <2>1. ASSUME NEW k \in 1..Room
        PROVE  k - 1 \in 0..Room /\ t[k] = t[k - 1] \div Ten
    <3>1. k - 1 \in 0..Room /\ t[k - 1] \in Nat
      BY <1>1, <1>2
    <3>2. t[k] = g[k][t[k - 1]]
      BY <1>2 DEF Follows
    <3>3. QED
      BY <3>1, <3>2 DEF Ten
  <2>2. t[0] = n
    BY <1>2 DEF Follows
  <2>3. t = [k \in 0..Room |-> t[k]]
    BY <1>2
  <2>4. \A k \in 0..Room : t[k] = IF k = 0 THEN n ELSE t[k - 1] \div Ten
    BY <1>1, <2>1, <2>2
  <2> QED
    BY <2>3, <2>4
<1>4. Rest(n) = h
  BY DEF Rest, Rests
<1>5. h = Def(h)
  BY <1>3
<1> HIDE DEF h
<1>6. \A k \in 0..Room : h[k] = IF k = 0 THEN n ELSE h[k - 1] \div Ten
  BY <1>5
<1>7. h = [k \in 0..Room |-> h[k]]
  BY <1>5
<1> HIDE DEF Def
<1>8. h[0] = n /\ \A k \in 1..Room : h[k] = h[k - 1] \div 10
  BY <1>1, <1>6 DEF Ten
<1> DEFINE S == {k \in 0..Room : h[k] \in Nat}
<1>9. 0 \in S
  BY <1>1, <1>8
<1>10. ASSUME NEW k \in 1..Room, k - 1 \in S PROVE k \in S
  <2>1. h[k - 1] \in Nat /\ h[k] = h[k - 1] \div 10 /\ k \in 0..Room
    BY <1>1, <1>8, <1>10
  <2>2. QED
    BY <2>1
<1> HIDE DEF S
<1>11. \A k \in 0..Room : k \in S
  BY <1>1, <1>9, <1>10, Induction
<1>12. h \in [0..Room -> Nat]
  BY <1>7, <1>11 DEF S
<1>13. QED
  BY <1>4, <1>8, <1>12

(* What is left when k digits are taken off is the number's k-th quotient. *)
LEMMA RestBounds ==
  ASSUME NEW n \in Nat, NEW k \in 0..Room
  PROVE  /\ TenTo[k] * Rest(n)[k] \in Nat
         /\ TenTo[k] * Rest(n)[k] <= n
         /\ n < TenTo[k] * Rest(n)[k] + TenTo[k]
<1> DEFINE q == Rest(n)
           S == {i \in 0..Room : /\ TenTo[i] * q[i] <= n
                                 /\ n < TenTo[i] * q[i] + TenTo[i]}
<1>1. Room \in Nat /\ Room < BufLen /\ BufLen \in Nat
  BY WordFacts DEF Room
<1>2. /\ \A i \in 0..Room : TenTo[i] \in Nat /\ q[i] \in Nat
      /\ TenTo[0] = 1 /\ q[0] = n
      /\ \A i \in 1..Room : TenTo[i] = 10 * TenTo[i - 1] /\ q[i] = q[i - 1] \div 10
  <2>0. q \in [0..Room -> Nat]
    BY RestFacts
  <2>1. \A i \in 0..Room : i \in 0..BufLen
    BY <1>1
  <2>2. \A i \in 1..Room : i \in 1..BufLen
    BY <1>1
  <2>3. q[0] = n /\ \A i \in 1..Room : q[i] = q[i - 1] \div 10
    BY RestFacts
  <2> HIDE DEF q
  <2>4. QED
    BY <2>0, <2>1, <2>2, <2>3, TenFacts
<1> HIDE DEF q
<1>3. 0 \in S
  BY <1>1, <1>2
<1>4. ASSUME NEW i \in 1..Room, i - 1 \in S
      PROVE  i \in S
  <2> DEFINE t == TenTo[i - 1]
             p == q[i - 1]
             d == p \div 10
             r == p % 10
  <2>1. i \in 0..Room /\ i - 1 \in 0..Room
    BY <1>1
  <2>2. t \in Nat /\ p \in Nat /\ t * p <= n /\ n < t * p + t
    BY <1>2, <1>4, <2>1
  <2>3. d \in Nat /\ r \in 0..9 /\ p = 10 * d + r
    <3>1. \A x \in Nat : x \div 10 \in Nat /\ x % 10 \in 0..9 /\ x = 10 * (x \div 10) + (x % 10)
      OBVIOUS
    <3>2. p \in Nat
      BY <2>2
    <3> HIDE DEF p
    <3>3. QED
      BY <3>1, <3>2
  <2>4. TenTo[i] * q[i] = (10 * t) * d /\ TenTo[i] = 10 * t
    BY <1>2, <2>1
  <2> HIDE DEF t, p, d, r
  <2>5. t * p = (10 * t) * d + t * r
    BY <2>2, <2>3
  <2>6. t * r \in Nat /\ t * r + t <= 10 * t
    <3>1. r \in {0, 1, 2, 3, 4, 5, 6, 7, 8, 9}
      BY <2>3
    <3>2. QED
      BY <2>2, <3>1
  <2>7. (10 * t) * d \in Nat
    BY <2>2, <2>3
  <2> DEFINE x == (10 * t) * d
             y == t * r
             z == t * p
  <2>8. x \in Nat /\ y \in Nat /\ z = x + y /\ z <= n /\ n < z + t /\ y + t <= 10 * t
    BY <2>2, <2>5, <2>6, <2>7
  <2> HIDE DEF x, y, z
  <2>9. x <= n /\ n < x + 10 * t
    BY <2>2, <2>8
  <2>10. QED
    BY <2>1, <2>4, <2>9 DEF x
<1> HIDE DEF S
<1>5. \A i \in 0..Room : i \in S
  BY <1>1, <1>3, <1>4, Induction
<1>6. QED
  BY <1>2, <1>5 DEF S, q

-----------------------------------------------------------------------------
(* The text of a number.                                                   *)

Digits(n) == NumToStr(n, BufLen)

LEMMA DigitsFacts ==
  ASSUME NEW n \in Nat
  PROVE  /\ Digits(n) \in Seq(Int)
         /\ Len(Digits(n)) \in 1..Room
         /\ \A j \in 1..Len(Digits(n)) :
              /\ Digits(n)[j] = 48 + (Rest(n)[Len(Digits(n)) - j] % 10)
              /\ Digits(n)[j] \in 48..57
         /\ Rest(n)[Len(Digits(n))] = 0 \/ Len(Digits(n)) = Room
         /\ n = 0 => Len(Digits(n)) = 1
<1> DEFINE q == Rest(n)
           Ends(k) == /\ k = Room \/ q[k] = 0
                      /\ \A i \in 0..(k - 1) : q[i] # 0
           l == CHOOSE k \in 0..Room : Ends(k)
           low == LowDigits(n, Room)
<1>1. /\ Room \in Nat /\ Room >= 1 /\ q \in [0..Room -> Nat] /\ q[0] = n
      /\ \A k \in 1..Room : q[k] = q[k - 1] \div 10
  BY RestFacts, WordFacts DEF Room
<1>2. \A i \in 0..Room : q[i] % 10 \in 0..9
  <2>1. \A x \in Nat : x % 10 \in 0..9
    OBVIOUS
  <2> HIDE DEF q
  <2>2. QED
    BY <1>1, <2>1
<1>3. CASE n = 0
  <2>1. Digits(n) = <<48>>
    BY <1>3 DEF Digits, NumToStr, Zero
  <2>2. q[1] = 0
    <3>1. 0 \div 10 = 0 /\ 1 \in 1..Room /\ 1 - 1 = 0
      BY <1>1
    <3> HIDE DEF q
    <3>2. QED
      BY <1>1, <1>3, <3>1
  <2>3. 1 - 1 = 0 /\ q[0] % 10 = 0
    BY <1>1, <1>3
  <2>4. Len(Digits(n)) = 1 /\ Digits(n)[1] = 48 /\ Digits(n) \in Seq(Int)
    BY <2>1
  <2> HIDE DEF q
  <2>5. 48 + (q[0] % 10) = 48
    BY <2>3
  <2>6. /\ 1 \in 1..Room /\ q[1] = 0
        /\ \A j \in 1..1 : /\ Digits(n)[j] = 48 + (q[1 - j] % 10)
                            /\ Digits(n)[j] \in 48..57
    <3>1. ASSUME NEW j \in 1..1
          PROVE  Digits(n)[j] = 48 + (q[1 - j] % 10) /\ Digits(n)[j] \in 48..57
      <4>1. j = 1 /\ 1 - j = 0
        OBVIOUS
      <4>2. QED
        BY <2>4, <2>5, <4>1
    <3>2. 1 \in 1..Room
      BY <1>1
    <3>3. QED
      BY <2>2, <3>1, <3>2
  <2> DEFINE l1 == Len(Digits(n))
  <2>7. /\ l1 \in 1..Room /\ q[l1] = 0 /\ l1 = 1
        /\ \A j \in 1..l1 : /\ Digits(n)[j] = 48 + (q[l1 - j] % 10)
                             /\ Digits(n)[j] \in 48..57
    <3>1. l1 = 1
      BY <2>4
    <3> HIDE DEF l1
    <3>2. QED
      BY <2>6, <3>1
  <2> HIDE DEF l1
  <2>8. QED
    BY <2>4, <2>7 DEF q, l1
<1>4. CASE n # 0
  <2>1. Digits(n) = StrReverse(low)
    BY <1>4 DEF Digits, NumToStr, Room
  <2>2. low = [i \in 1..l |-> Zero + (q[i - 1] % Ten)]
    BY DEF LowDigits, Rest
  <2> HIDE DEF q
  <2>3. \E k \in 0..Room : Ends(k)
    <3> DEFINE Z == {k \in 0..Room : q[k] = 0}
    <3>1. CASE Z = {}
      <4>1. ASSUME NEW i \in 0..(Room - 1) PROVE q[i] # 0
        <5>1. i \in 0..Room
          BY <1>1
        <5>2. q[i] = 0 => i \in Z
          BY <5>1
        <5> HIDE DEF Z
        <5>3. QED
          BY <3>1, <5>2
      <4> HIDE DEF Z
      <4>2. Ends(Room)
        BY <4>1
      <4>3. QED
        BY <1>1, <4>2
    <3>2. CASE Z # {}
      <4>1. Z \in SUBSET Nat
        BY <1>1
      <4>2. PICK z \in Z : \A j \in Z : z <= j
        BY <3>2, <4>1, LeastExists
      <4>3. z \in 0..Room /\ q[z] = 0 /\ z \in Nat
        BY <1>1, <4>2
      <4>4. \A i \in 0..(z - 1) : q[i] # 0
        BY <1>1, <4>2, <4>3
      <4>5. QED
        BY <4>3, <4>4
    <3>3. QED
      BY <3>1, <3>2
  <2>4. l \in 0..Room /\ Ends(l)
    BY <2>3
  <2> HIDE DEF l
  <2>5. l \in 1..Room
    BY <1>1, <1>4, <2>4
  <2>6. low \in [1..l -> Int] /\ \A i \in 1..l : low[i] = 48 + (q[i - 1] % 10)
    <3>1. ASSUME NEW i \in 1..l PROVE Zero + (q[i - 1] % Ten) \in Int
      <4>1. i - 1 \in 0..Room
        BY <1>1, <2>5
      <4>2. QED
        BY <1>2, <4>1 DEF Zero, Ten
    <3>2. QED
      BY <2>2, <3>1 DEF Zero, Ten
  <2>7. Len(low) = l /\ DOMAIN low = 1..l
    BY <2>5, <2>6
  <2>8. \A i \in 1..l : l + 1 - i \in 1..l /\ (l + 1 - i) - 1 = l - i /\ l - i \in 0..Room
    BY <1>1, <2>5
  <2> HIDE DEF low
  <2> DEFINE d == Digits(n)
  <2>9. d = [i \in 1..l |-> low[l + 1 - i]]
    BY <2>1, <2>7 DEF StrReverse
  <2>10. \A i \in 1..l : d[i] = 48 + (q[l - i] % 10)
    BY <2>6, <2>8, <2>9
  <2>11. d \in Seq(Int) /\ Len(d) = l
    BY <2>5, <2>6, <2>8, <2>9
  <2> HIDE DEF d
  <2>12. \A i \in 1..l : d[i] \in 48..57
    BY <1>2, <2>8, <2>10
  <2>13. QED
    BY <1>4, <2>4, <2>5, <2>10, <2>11, <2>12 DEF d, q
<1>5. QED
  BY <1>3, <1>4

(* What is put into the stash.                                             *)
Sign(m) == IF m THEN <<Minus>> ELSE <<>>

Text(n, m) == Sign(m) \o Digits(n)

(* What strtonum reads of it, and how many digits it takes it to be longer *)
(* than it is.                                                             *)
Shown(n, m) == DigitsOf(Text(n, m))

Extra(n, m) == IF IsSigned(Text(n, m)) THEN 1 ELSE 0

LEMMA TextFacts ==
  ASSUME NEW n \in Nat, NEW m \in BOOLEAN
  PROVE  /\ Text(n, m) \in Seq(Int)
         /\ \A j \in 1..Len(Text(n, m)) : Text(n, m)[j] # 0
         /\ IsSigned(Text(n, m)) <=> (m /\ Len(Digits(n)) > 1)
         /\ (m => Len(Digits(n)) > 1) => Shown(n, m) = Digits(n)
         /\ (m /\ Len(Digits(n)) = 1) => Shown(n, m) = <<45, Digits(n)[1]>>
         /\ Shown(n, m) \in Seq(Int) /\ Len(Shown(n, m)) >= 1
         /\ Len(Text(n, m)) - 1 = Len(Shown(n, m)) - 1 + Extra(n, m)
         /\ Len(Text(n, m)) - 1 \in 0..Room
<1> DEFINE d == Digits(n)
           t == Text(n, m)
           s == Shown(n, m)
<1>1. /\ d \in Seq(Int) /\ Len(d) \in 1..Room /\ Room \in Nat
      /\ \A j \in 1..Len(d) : d[j] \in 48..57
  BY DigitsFacts, WordFacts DEF Room
<1>2. t = (IF m THEN <<Minus>> ELSE <<>>) \o d
  BY DEF Text, Sign
<1>3. s = IF IsSigned(t) THEN Tail(t) ELSE t
  BY DEF Shown, DigitsOf
<1>4. IsSigned(t) <=> t[1] = 45 /\ Len(t) - 1 > 1
  BY DEF IsSigned, Minus
<1>5. Extra(n, m) = IF IsSigned(t) THEN 1 ELSE 0
  BY DEF Extra
<1> HIDE DEF d, t, s
<1>6. CASE ~m
  <2>1. t = d
    BY <1>1, <1>2, <1>6
  <2>2. ~IsSigned(t)
    <3>1. 1 \in 1..Len(d)
      BY <1>1
    <3>2. d[1] # 45
      BY <1>1, <3>1
    <3>3. QED
      BY <1>4, <2>1, <3>2
  <2>3. s = d
    BY <1>3, <2>1, <2>2
  <2>4. Len(d) - 1 \in 0..Room /\ Len(d) >= 1
    <3>1. \A x \in 1..Room : x - 1 \in 0..Room /\ x >= 1
      BY <1>1
    <3>2. QED
      BY <1>1, <3>1
  <2>5. \A j \in 1..Len(t) : t[j] # 0
    <3>1. \A x \in 48..57 : x # 0
      OBVIOUS
    <3>2. QED
      BY <1>1, <2>1, <3>1
  <2>6. Len(t) - 1 = Len(s) - 1 + Extra(n, m)
    BY <1>1, <1>5, <2>1, <2>2, <2>3
  <2>7. QED
    BY <1>1, <1>6, <2>1, <2>2, <2>3, <2>4, <2>5, <2>6 DEF d, t, s
<1>7. CASE m
  <2>1. t = <<45>> \o d
    BY <1>2, <1>7 DEF Minus
  <2>2. /\ t \in Seq(Int) /\ Len(t) = Len(d) + 1 /\ t[1] = 45
        /\ \A j \in 2..Len(t) : t[j] = d[j - 1]
        /\ Tail(t) = d
    <3>1. t \in Seq(Int) /\ Len(t) = Len(d) + 1 /\ t[1] = 45
      BY <1>1, <2>1
    <3>2. \A j \in 2..Len(t) : t[j] = d[j - 1]
      BY <1>1, <2>1
    <3>3. Tail(t) = d
      BY <1>1, <2>1
    <3>4. QED
      BY <3>1, <3>2, <3>3
  <2>3. \A j \in 1..Len(t) : t[j] # 0
    <3>1. ASSUME NEW j \in 1..Len(t) PROVE t[j] # 0
      <4>1. CASE j = 1
        BY <2>2, <4>1
      <4>2. CASE j # 1
        <5>1. j \in 2..Len(t) /\ j - 1 \in 1..Len(d)
          BY <1>1, <2>2, <4>2
        <5>2. t[j] = d[j - 1] /\ d[j - 1] \in 48..57
          BY <1>1, <2>2, <5>1
        <5>3. QED
          BY <5>2
      <4>3. QED
        BY <4>1, <4>2
    <3>2. QED
      BY <3>1
  <2>4. IsSigned(t) <=> Len(d) > 1
    BY <1>1, <1>4, <2>2
  <2>5. Len(d) = 1 => t = <<45, d[1]>>
    BY <1>1, <2>2
  <2>6. Len(d) > 1 => s = d
    BY <1>3, <2>2, <2>4
  <2>7. Len(d) = 1 => s = <<45, d[1]>> /\ s \in Seq(Int) /\ Len(s) = 2
    <3>1. SUFFICES ASSUME Len(d) = 1
                   PROVE  s = <<45, d[1]>> /\ s \in Seq(Int) /\ Len(s) = 2
      OBVIOUS
    <3>2. s = t
      BY <1>3, <2>4, <3>1
    <3>3. QED
      BY <2>2, <2>5, <3>1, <3>2
  <2>8. Len(t) - 1 \in 0..Room
    BY <1>1, <2>2
  <2>9. /\ s \in Seq(Int) /\ Len(s) >= 1
        /\ Len(t) - 1 = Len(s) - 1 + Extra(n, m)
    <3>1. CASE Len(d) = 1
      BY <1>1, <1>5, <2>2, <2>4, <2>7, <3>1
    <3>2. CASE Len(d) > 1
      BY <1>1, <1>5, <2>2, <2>4, <2>6, <3>2
    <3>3. QED
      <4>1. \A x \in 1..Room : x = 1 \/ x > 1
        BY <1>1
      <4>2. QED
        BY <1>1, <3>1, <3>2, <4>1
  <2>10. QED
    BY <1>1, <1>7, <2>2, <2>3, <2>4, <2>6, <2>7, <2>8, <2>9 DEF d, t, s
<1>8. QED
  BY <1>6, <1>7

-----------------------------------------------------------------------------
(* The sum, when k characters are left.  A number of two digits or more    *)
(* behind a minus is taken for one with a digit more.                      *)
Taken(n, m, k) ==
  IF m /\ Len(Digits(n)) = 1
    THEN IF k = 2 THEN 0 ELSE IF k = 1 THEN -30 ELSE Digits(n)[1] - 78
    ELSE TenTo[Extra(n, m)] * (TenTo[k] * Rest(n)[k]
                                 - TenTo[Len(Digits(n))] * Rest(n)[Len(Digits(n))])

LEMMA TakenAll ==
  ASSUME NEW n \in Nat, NEW m \in BOOLEAN
  PROVE  Taken(n, m, Len(Shown(n, m))) = 0
<1> DEFINE l == Len(Digits(n))
           s == Shown(n, m)
           c == Extra(n, m)
           e == TenTo[c]
           x == TenTo[l] * Rest(n)[l]
<1>1. l \in 1..Room /\ Room \in Nat /\ Room < BufLen /\ BufLen \in Nat
  BY DigitsFacts, WordFacts DEF Room
<1>2. c \in {0, 1} /\ c \in 0..BufLen /\ e \in Nat
  BY <1>1, TenFacts, WordFacts DEF Extra
<1>3. x \in Nat
  BY <1>1, RestBounds
<1>4. ~(m /\ l = 1) => Taken(n, m, l) = e * (x - x)
  BY DEF Taken
<1>5. e * (x - x) = 0
  <2> HIDE DEF e, x
  <2>1. QED
    BY <1>2, <1>3
<1>6. m /\ l = 1 => Taken(n, m, 2) = 0
  BY DEF Taken
<1>7. m /\ l = 1 => Len(s) = 2
  <2>1. Len(<<45, Digits(n)[1]>>) = 2
    OBVIOUS
  <2>2. QED
    BY <2>1, TextFacts
<1>8. ~(m /\ l = 1) => Len(s) = l
  <2>1. ~(m /\ l = 1) => s = Digits(n)
    <3> HIDE DEF l
    <3>1. l = 1 \/ l > 1
      BY <1>1
    <3>2. QED
      BY <3>1, TextFacts DEF l
  <2>2. QED
    BY <2>1
<1>9. QED
  BY <1>4, <1>5, <1>6, <1>7, <1>8

LEMMA TakenNext ==
  ASSUME NEW n \in Nat, NEW m \in BOOLEAN, NEW k \in 1..Len(Shown(n, m))
  PROVE  /\ Taken(n, m, k) \in Int
         /\ k - 1 + Extra(n, m) \in 0..Room
         /\ Taken(n, m, k - 1)
              = Taken(n, m, k) + (Shown(n, m)[Len(Shown(n, m)) + 1 - k] - 48)
                                   * TenTo[k - 1 + Extra(n, m)]
<1> DEFINE d == Digits(n)
           l == Len(d)
           s == Shown(n, m)
           c == Extra(n, m)
           q == Rest(n)
<1>1. l \in 1..Room /\ Room \in Nat /\ Room < BufLen /\ BufLen \in Nat
  BY DigitsFacts, WordFacts DEF Room
<1>2. Len(s) - 1 + c \in 0..Room /\ c \in {0, 1}
  BY TextFacts DEF Extra
<1>3. s \in Seq(Int) /\ Len(s) \in Nat
  BY TextFacts
<1>4. k - 1 + c \in 0..Room /\ k - 1 \in 0..Room
  <2> HIDE DEF s, c
  <2>1. QED
    BY <1>1, <1>2, <1>3 DEF s
<1>5. CASE m /\ l = 1
  <2>1. s = <<45, d[1]>> /\ c = 0
    <3>1. ~(l > 1)
      BY <1>5
    <3>2. ~IsSigned(Text(n, m))
      BY <3>1, TextFacts
    <3>3. QED
      BY <1>5, <3>2, TextFacts DEF Extra
  <2>2. TenTo[0] = 1 /\ TenTo[1] = 10
    BY <1>1, TenFacts
  <2>3. /\ Taken(n, m, 2) = 0 /\ Taken(n, m, 1) = -30
        /\ Taken(n, m, 0) = d[1] - 78
    BY <1>5 DEF Taken
  <2>4. d[1] \in Int
    BY <1>5, DigitsFacts
  <2>5. Len(s) = 2 /\ s[1] = 45 /\ s[2] = d[1] /\ k \in {1, 2}
    BY <2>1
  <2> HIDE DEF d, s, c
  <2>6. CASE k = 1
    BY <1>4, <2>1, <2>2, <2>3, <2>4, <2>5, <2>6 DEF s, c
  <2>7. CASE k = 2
    BY <1>4, <2>1, <2>2, <2>3, <2>4, <2>5, <2>7 DEF s, c
  <2>8. QED
    BY <2>5, <2>6, <2>7
<1>6. CASE ~(m /\ l = 1)
  <2> DEFINE e == TenTo[c]
             a == TenTo[k - 1]
             p == q[k - 1]
             z == TenTo[l] * q[l]
  <2>1. s = d
    <3> HIDE DEF l
    <3>1. l = 1 \/ l > 1
      BY <1>1
    <3>2. QED
      BY <1>6, <3>1, TextFacts DEF l
  <2>2. k \in 1..l /\ k \in 1..Room /\ k \in 1..BufLen /\ k - 1 \in 0..BufLen
    <3>1. k \in 1..l
      BY <2>1
    <3> HIDE DEF l
    <3>2. QED
      BY <1>1, <3>1
  <2>3. z \in Nat
    BY <1>1, RestBounds
  <2>4. a \in Nat /\ TenTo[k] = 10 * a
    BY <2>2, TenFacts
  <2>5. q \in [0..Room -> Nat] /\ q[k] = p \div 10
    BY <2>2, RestFacts
  <2>6. p \in Nat
    BY <1>4, <2>5
  <2>7. l + 1 - k \in 1..l /\ l - (l + 1 - k) = k - 1
    <3> HIDE DEF l
    <3>1. QED
      BY <1>1, <2>2
  <2>8. d[l + 1 - k] = 48 + (p % 10)
    BY <2>7, DigitsFacts
  <2>9. TenTo[k - 1 + c] = e * a /\ e \in Nat
    <3>1. CASE c = 0
      <4>1. e = 1 /\ k - 1 + c = k - 1
        BY <2>2, <3>1, TenFacts
      <4> HIDE DEF c
      <4>2. QED
        BY <2>4, <4>1
    <3>2. CASE c = 1
      <4>1. e = 10 /\ k - 1 + c = k
        BY <1>1, <2>2, <3>2, TenFacts
      <4> HIDE DEF c
      <4>2. QED
        BY <2>4, <4>1
    <3>3. QED
      BY <1>2, <3>1, <3>2
  <2>10. /\ Taken(n, m, k) = e * ((10 * a) * (p \div 10) - z)
         /\ Taken(n, m, k - 1) = e * (a * p - z)
    BY <1>6, <2>4, <2>5 DEF Taken
  <2> HIDE DEF e, a, p, z, q, d, l, c
  <2> DEFINE u == p \div 10
             r == p % 10
  <2>11. u \in Nat /\ r \in Nat /\ p = 10 * u + r
    <3>1. \A x \in Nat : x \div 10 \in Nat /\ x % 10 \in Nat /\ x = 10 * (x \div 10) + (x % 10)
      OBVIOUS
    <3>2. QED
      BY <2>6, <3>1
  <2> HIDE DEF u, r
  <2>12. e * (a * p - z) = e * ((10 * a) * u - z) + r * (e * a)
    <3>1. a * p = (10 * a) * u + a * r
      BY <2>4, <2>11
    <3> DEFINE x == (10 * a) * u
               y == a * r
    <3>2. x \in Int /\ y \in Int /\ a * p = x + y
      BY <2>4, <2>11, <3>1
    <3>3. r * (e * a) = e * y
      BY <2>4, <2>9, <2>11
    <3> HIDE DEF x, y
    <3>4. e * ((x + y) - z) = e * (x - z) + e * y
      BY <2>3, <2>9, <3>2
    <3>5. QED
      BY <3>2, <3>3, <3>4 DEF x
  <2>13. e * ((10 * a) * u - z) \in Int
    <3>1. (10 * a) * u \in Int
      BY <2>4, <2>11
    <3> DEFINE x == (10 * a) * u
    <3> HIDE DEF x
    <3>2. x - z \in Int
      BY <2>3, <3>1 DEF x
    <3>3. QED
      BY <2>9, <3>2 DEF x
  <2>14. (s[Len(s) + 1 - k] - 48) * TenTo[k - 1 + c] = r * (e * a)
    <3>1. s[Len(s) + 1 - k] = 48 + r
      BY <2>1, <2>8 DEF l, r
    <3>2. QED
      BY <2>9, <2>11, <3>1
  <2>15. QED
    BY <1>4, <2>10, <2>12, <2>13, <2>14 DEF u, s, c
<1>7. QED
  BY <1>5, <1>6

-----------------------------------------------------------------------------
(* Which numbers come back.                                                *)

LEMMA SameSigned ==
  ASSUME NEW a \in Int, NEW b \in Int
  PROVE  Signed(a) = Signed(b) <=> a % Word = b % Word
<1> DEFINE x == a % Word
           y == b % Word
           h == Word \div 2
<1>1. x \in Words /\ y \in Words
  BY ModFacts
<1>2. h \in Int /\ Word \in Nat
  BY WordFacts
<1>3. /\ Signed(a) = IF x < h THEN x ELSE x - Word
      /\ Signed(b) = IF y < h THEN y ELSE y - Word
  BY DEF Signed
<1> HIDE DEF x, y, h
<1>4. QED
  BY <1>1, <1>2, <1>3 DEF Words, x, y

LEMMA SameMod ==
  ASSUME NEW a \in Int, NEW b \in Int, a % Word = b % Word
  PROVE  \E u \in Int : a - b = Word * u
<1> DEFINE c == a \div Word
           d == b \div Word
           r == a % Word
<1>1. a = Word * c + r /\ b = Word * d + r /\ c \in Int /\ d \in Int /\ r \in Int
  BY ModFacts, WordFacts DEF Words
<1> HIDE DEF c, d, r
<1>2. a - b = Word * (c - d) /\ c - d \in Int
  BY <1>1, WordFacts
<1>3. QED
  BY <1>2

(* No multiple of Word that is not 0 is less than it.                      *)
LEMMA SmallMultiple ==
  ASSUME NEW a \in Int, a < Word, -a < Word, NEW u \in Int, a = Word * u
  PROVE  a = 0
<1>1. CASE u = 0
  BY <1>1, WordFacts
<1>2. CASE u > 0
  <2>1. Word * u >= Word
    BY <1>2, WordFacts
  <2>2. QED
    BY <2>1, WordFacts
<1>3. CASE u < 0
  <2>1. Word * u <= -Word
    BY <1>3, WordFacts
  <2>2. QED
    BY <2>1, WordFacts
<1>4. QED
  BY <1>1, <1>2, <1>3

(* A word is no multiple of 3.                                             *)
LEMMA ByThree ==
  ASSUME NEW a \in Int, NEW u \in Int, 3 * a = Word * u
  PROVE  \E v \in Int : a = Word * v
<1> DEFINE q == Word \div 3
           r == Word % 3
           s == u \div 3
           t == u % 3
<1>1. Word = 3 * q + r /\ q \in Int /\ r \in {1, 2}
  BY WordFacts
<1>2. u = 3 * s + t /\ s \in Int /\ t \in {0, 1, 2}
  OBVIOUS
<1> HIDE DEF q, r, s, t
<1>3. Word * u = 3 * (q * u + r * s) + r * t
  <2>1. Word * u = 3 * (q * u) + r * u
    BY <1>1
  <2>2. r * u = 3 * (r * s) + r * t
    BY <1>1, <1>2
  <2>3. QED
    BY <1>1, <1>2, <2>1, <2>2
<1>4. q * u \in Int /\ r * s \in Int
  BY <1>1, <1>2
<1>5. r * t \in {0, 1, 2, 4}
  BY <1>1, <1>2
<1>6. t = 0
  <2> DEFINE w == q * u + r * s
  <2>1. w \in Int /\ 3 * a = 3 * w + r * t
    BY <1>3, <1>4
  <2> HIDE DEF w
  <2>2. r * t = 3 * (a - w)
    BY <1>5, <2>1
  <2>3. r * t = 0
    BY <1>5, <2>1, <2>2
  <2>4. QED
    BY <1>1, <1>2, <2>3
<1>7. 3 * a = 3 * (Word * s)
  BY <1>2, <1>6, WordFacts
<1>8. Word * s \in Int
  BY <1>2, WordFacts
<1>9. a = Word * s
  BY <1>7, <1>8
<1>10. QED
  BY <1>2, <1>9

LEMMA ComesBack ==
  ASSUME NEW n \in Words, NEW m \in BOOLEAN, ~m \/ Fits(n),
         NEW sum, sum = Taken(n, m, 0) % Word
  PROVE  Signed(IF IsSigned(Text(n, m)) THEN -sum ELSE sum)
            = Signed(IF m THEN -n ELSE n) <=> ~m /\ Fits(n)
<1> DEFINE d == Digits(n)
           l == Len(d)
           q == Rest(n)
           x == TenTo[l] * q[l]
<1>1. n \in Nat /\ n < Word /\ Word \in Nat
  BY WordFacts DEF Words
<1>2. l \in 1..Room /\ Room \in Nat /\ Room < BufLen /\ BufLen \in Nat /\ l \in 0..Room
  <2>1. l \in 1..Room /\ Room \in Nat /\ Room < BufLen /\ BufLen \in Nat
    BY <1>1, DigitsFacts, WordFacts DEF Room
  <2> HIDE DEF l
  <2>2. QED
    BY <2>1
<1>3. /\ x \in Nat /\ x <= n /\ n < x + TenTo[l]
      /\ q \in [0..Room -> Nat] /\ q[0] = n
      /\ q[l] = 0 \/ l = Room
      /\ n = 0 => l = 1
  BY <1>1, <1>2, RestBounds, RestFacts, DigitsFacts
<1>4. TenTo[l] \in Nat /\ TenTo[l] > 0 /\ q[l] \in Nat /\ TenTo[0] = 1
  BY <1>2, <1>3, TenFacts
<1>5. Fits(n) <=> n < TenTo[Room]
  BY DEF Fits, Room
<1>6. Fits(n) <=> q[l] = 0
  <2>1. CASE q[l] # 0
    <3>1. l = Room
      BY <1>3, <2>1
    <3>2. x >= TenTo[l]
      <4> DEFINE a == TenTo[l]
                 b == q[l]
      <4>1. a \in Nat /\ b \in Nat /\ b # 0
        BY <1>4, <2>1
      <4> HIDE DEF a, b
      <4>2. a * b >= a
        BY <4>1
      <4>3. QED
        BY <4>2 DEF a, b
    <3>3. ~(n < TenTo[l])
      <4> HIDE DEF x, l
      <4>1. QED
        BY <1>1, <1>3, <1>4, <3>2
    <3>4. QED
      BY <1>5, <2>1, <3>1, <3>3
  <2>2. CASE q[l] = 0
    <3>1. x = 0
      BY <1>4, <2>2
    <3>2. n < TenTo[l]
      <4> HIDE DEF x, l
      <4>1. QED
        BY <1>1, <1>3, <1>4, <3>1
    <3>3. TenTo[l] <= TenTo[Room]
      <4> DEFINE S == {i \in 0..(Room - l) : TenTo[l] <= TenTo[l + i]}
      <4> HIDE DEF l
      <4>1. 0 \in S
        BY <1>2, <1>4
      <4>2. ASSUME NEW i \in 1..(Room - l), i - 1 \in S
            PROVE  i \in S
        <5>1. l + i \in 1..BufLen /\ (l + i) - 1 = l + (i - 1) /\ (l + i) - 1 \in 0..BufLen
          BY <1>2
        <5>2. TenTo[l + i] = 10 * TenTo[(l + i) - 1] /\ TenTo[(l + i) - 1] \in Nat
          BY <5>1, TenFacts
        <5>3. TenTo[l] <= TenTo[(l + i) - 1]
          BY <4>2, <5>1
        <5>4. TenTo[l] <= TenTo[l + i]
          BY <1>4, <5>2, <5>3
        <5>5. QED
          BY <5>4
      <4>3. Room - l \in Nat /\ l + (Room - l) = Room
        BY <1>2
      <4> HIDE DEF S
      <4>4. \A i \in 0..(Room - l) : i \in S
        BY <4>1, <4>2, <4>3, Induction
      <4>5. Room - l \in S
        BY <4>3, <4>4
      <4>6. QED
        BY <4>3, <4>5 DEF S
    <3>4. TenTo[Room] \in Nat
      BY <1>2, TenFacts
    <3>5. n < TenTo[Room]
      <4> HIDE DEF l
      <4>1. QED
        BY <1>1, <1>4, <3>2, <3>3, <3>4
    <3>6. QED
      BY <1>5, <2>2, <3>5
  <2>3. QED
    BY <2>1, <2>2
<1>7. IsSigned(Text(n, m)) <=> (m /\ l > 1)
  BY <1>1, TextFacts
<1>8. CASE ~m
  <2>1. Extra(n, m) = 0
    BY <1>7, <1>8 DEF Extra
  <2>2. Taken(n, m, 0) = 1 * (1 * n - x)
    BY <1>3, <1>4, <1>8, <2>1 DEF Taken
  <2> DEFINE y == n - x
  <2>3. y \in Words /\ Taken(n, m, 0) = Word * 0 + y
    <3> HIDE DEF x
    <3>1. QED
      BY <1>1, <1>3, <2>2 DEF Words
  <2>4. sum = y
    BY <2>3, ModIs
  <2>5. n % Word = n /\ y % Word = y
    <3>1. Word * 0 + n = n /\ Word * 0 + y = y
      <4> HIDE DEF y
      <4>1. QED
        BY <1>1, <2>3 DEF Words
    <3>2. QED
      BY <2>3, <3>1, ModIs
  <2>6. Signed(y) = Signed(n) <=> y = n
    <3> HIDE DEF y
    <3>1. y \in Int /\ n \in Int
      BY <1>1, <2>3 DEF Words
    <3>2. QED
      BY <2>5, <3>1, SameSigned
  <2>7. y = n <=> x = 0
    <3> HIDE DEF x
    <3>1. QED
      BY <1>1, <1>3
  <2>8. x = 0 <=> q[l] = 0
    <3> DEFINE a == TenTo[l]
               b == q[l]
    <3>1. a \in Nat /\ b \in Nat /\ a > 0
      BY <1>4
    <3> HIDE DEF a, b
    <3>2. a * b = 0 <=> b = 0
      BY <3>1
    <3>3. QED
      BY <3>2 DEF a, b
  <2>9. QED
    BY <1>6, <1>7, <1>8, <2>4, <2>6, <2>7, <2>8
<1>9. CASE m /\ l > 1
  <2>0. l # 1
    <3> HIDE DEF l
    <3>1. QED
      BY <1>9
  <2>1. Extra(n, m) = 1 /\ IsSigned(Text(n, m))
    BY <1>7, <1>9 DEF Extra
  <2>2. x = 0
    BY <1>4, <1>6, <1>9
  <2>3. TenTo[1] = 10
    <3>1. 1 \in 1..BufLen
      BY WordFacts
    <3>2. QED
      BY <3>1, TenFacts
  <2>4. Taken(n, m, 0) = 10 * (1 * n - x)
    BY <1>3, <1>4, <2>0, <2>1, <2>3 DEF Taken
  <2>5. Taken(n, m, 0) = 10 * n
    BY <1>1, <2>2, <2>4
  <2>6. sum \in Int /\ sum = (10 * n) % Word
    <3>1. 10 * n \in Int
      BY <1>1
    <3>2. QED
      BY <2>5, <3>1, ModFacts, WordFacts DEF Words
  <2>7. ASSUME Signed(-sum) = Signed(-n) PROVE FALSE
    <3>1. (-sum) % Word = (-n) % Word
      BY <1>1, <2>6, <2>7, SameSigned
    <3> HIDE DEF d, l, q, x
    <3>0. -sum \in Int /\ -n \in Int /\ 3 * n \in Int /\ n \in Int
      BY <1>1, <2>6
    <3>2. PICK u \in Int : (-sum) - (-n) = Word * u
      BY <3>0, <3>1, SameMod
    <3> DEFINE v == (10 * n) \div Word
    <3>3. 10 * n = Word * v + sum /\ v \in Int
      <4>1. 10 * n \in Int
        BY <1>1
      <4>2. QED
        BY <2>6, <4>1, ModFacts
    <3> HIDE DEF v
    <3>4. 9 * n = Word * (u + v) /\ u + v \in Int
      <4>1. Word * (u + v) = Word * u + Word * v /\ Word * u \in Int /\ Word * v \in Int
        BY <1>1, <3>3
      <4>2. QED
        BY <1>1, <2>6, <3>2, <3>3, <4>1
    <3>5. 3 * (3 * n) = Word * (u + v)
      BY <1>1, <3>4
    <3>6. PICK w \in Int : 3 * n = Word * w
      BY <3>0, <3>4, <3>5, ByThree
    <3>7. PICK z \in Int : n = Word * z
      BY <3>0, <3>6, ByThree
    <3>8. n = 0
      BY <1>1, <3>7, SmallMultiple
    <3>9. QED
      BY <1>3, <2>0, <3>8 DEF l
  <2>8. QED
    BY <1>9, <2>1, <2>7
<1>10. CASE m /\ l = 1
  <2>0. ~(l > 1) /\ 1 \in 1..l /\ l - 1 = 0
    BY <1>10
  <2>1. ~IsSigned(Text(n, m))
    BY <1>7, <2>0
  <2>2. Taken(n, m, 0) = d[1] - 78
    BY <1>10 DEF Taken
  <2>3. d[1] = 48 + (n % 10)
    <3>1. d[1] = 48 + (q[l - 1] % 10)
      BY <1>1, <2>0, DigitsFacts
    <3>2. QED
      BY <1>3, <2>0, <3>1
  <2>4. n \div 10 = 0
    <3>1. q[1] = 0
      BY <1>6, <1>10
    <3>2. q[1] = n \div 10
      <4>1. 1 \in 1..Room
        BY <1>2, <1>10
      <4>2. QED
        BY <1>1, <4>1, RestFacts
    <3>3. QED
      BY <3>1, <3>2
  <2>5. n \in 0..9 /\ n % 10 = n
    BY <1>1, <2>4
  <2>6. Taken(n, m, 0) = n - 30
    BY <2>2, <2>3, <2>5
  <2>7. sum = (n - 30) % Word /\ sum \in Int /\ n - 30 \in Int /\ -n \in Int
    BY <2>5, <2>6, ModFacts, WordFacts DEF Words
  <2>8. ASSUME Signed(sum) = Signed(-n) PROVE FALSE
    <3>1. sum % Word = (-n) % Word
      BY <2>7, <2>8, SameSigned
    <3>2. sum % Word = (n - 30) % Word
      <4>1. Word * 0 + sum = sum /\ sum \in Words
        BY <1>1, <2>7, ModFacts
      <4>2. QED
        BY <2>7, <4>1, ModIs
    <3>3. PICK u \in Int : (n - 30) - (-n) = Word * u
      BY <2>7, <3>1, <3>2, SameMod
    <3> DEFINE y == (n - 30) - (-n)
    <3>4. y \in Int /\ y < Word /\ -y < Word /\ y # 0
      BY <2>5, WordFacts
    <3> HIDE DEF y
    <3>5. QED
      BY <3>3, <3>4, SmallMultiple DEF y
  <2>9. QED
    BY <1>10, <2>1, <2>8
<1>11. l = 1 \/ l > 1
  <2> HIDE DEF l
  <2>1. QED
    BY <1>2
<1>12. QED
  BY <1>8, <1>9, <1>10, <1>11

-----------------------------------------------------------------------------
(* The stash.                                                              *)

Stashes == [base : Seq(Int), array : Nat, len : Nat, work : [array : Nat, at : Nat]]

(* work points behind the bytes in use, into the array that there is.      *)
Placed(cs) == cs.work = Place(cs.array, cs.len)

(* What was appended to it.                                                *)
Holds(cs, t) == /\ cs \in Stashes /\ cs.len = Len(t) /\ Len(t) <= Len(cs.base)
                /\ Placed(cs)
                /\ \A i \in 1..Len(t) : cs.base[i] = t[i]

LEMMA NewHolds ==
  ASSUME NEW c \in Nat
  PROVE  Holds(CsNew(c), <<>>)
<1>1. /\ CsNew(c).base = [i \in 1..c |-> -1] /\ CsNew(c).len = 0
      /\ CsNew(c).array = 1 /\ CsNew(c).work = [array |-> 1, at |-> 0]
      /\ CsNew(c) = [base |-> CsNew(c).base, array |-> CsNew(c).array,
                     len |-> CsNew(c).len, work |-> CsNew(c).work]
  BY DEF CsNew, Junk, Place
<1>2. [i \in 1..c |-> -1] \in Seq(Int) /\ Len([i \in 1..c |-> -1]) = c
  OBVIOUS
<1>3. QED
  BY <1>1, <1>2 DEF Holds, Stashes, Placed, Place

(* A full stash has grown before its next byte is stored: what is in use   *)
(* stays, there is room for another byte, and work is in the new array.    *)
LEMMA GrownKeeps ==
  ASSUME NEW cs \in Stashes
  PROVE  /\ Grown(cs) \in Stashes /\ Grown(cs).len = cs.len
         /\ Placed(cs) => Placed(Grown(cs))
         /\ cs.len <= Len(cs.base) =>
              /\ cs.len + 1 <= Len(Grown(cs).base)
              /\ \A i \in 1..cs.len : Grown(cs).base[i] = cs.base[i]
<1> DEFINE l == cs.len
           b == cs.base
           k == Len(b) + StashStep
           g == Grown(cs)
<1>1. /\ b \in Seq(Int) /\ l \in Nat /\ Len(b) \in Nat /\ cs.array \in Nat
      /\ StashStep \in Nat /\ StashStep > 0
  BY CharstashAssumption DEF Stashes
<1>2. CASE Full(cs)
  <2>1. l = Len(b) /\ k \in Nat /\ l + 1 <= k
    BY <1>1, <1>2 DEF Full
  <2>2. g = [base |-> Moved(cs), array |-> cs.array + 1, len |-> l,
             work |-> [array |-> cs.array + 1, at |-> l]]
    BY <1>2 DEF Grown, WorkMoved, Place
  <2>3. Moved(cs) = [i \in 1..k |-> IF i <= l THEN b[i] ELSE -1]
    BY DEF Moved, Junk
  <2>4. ASSUME NEW i \in 1..k PROVE (IF i <= l THEN b[i] ELSE -1) \in Int
    <3>1. CASE i <= l
      <4>1. i \in 1..Len(b)
        BY <1>1, <2>1, <3>1
      <4>2. b[i] \in Int
        BY <1>1, <4>1
      <4>3. QED
        BY <3>1, <4>2
    <3>2. QED
      BY <3>1
  <2> HIDE DEF k
  <2>5. Moved(cs) \in [1..k -> Int]
    BY <2>3, <2>4
  <2>6. Moved(cs) \in Seq(Int) /\ Len(Moved(cs)) = k
    BY <2>1, <2>5
  <2>7. \A i \in 1..l : Moved(cs)[i] = b[i]
    <3>1. \A i \in 1..l : i \in 1..k /\ i <= l
      BY <1>1, <2>1
    <3> HIDE DEF l, b
    <3>2. QED
      BY <2>3, <3>1
  <2> DEFINE m == Moved(cs)
  <2>8. /\ g.base = m /\ g.len = l /\ g.array = cs.array + 1
        /\ g.work = [array |-> cs.array + 1, at |-> l]
    BY <2>2
  <2>9. cs.array + 1 \in Nat
    BY <1>1
  <2>10. m \in Seq(Int)
    BY <2>6
  <2> HIDE DEF m
  <2>11. g \in Stashes
    BY <1>1, <2>2, <2>9, <2>10 DEF Stashes, m
  <2>12. Placed(g)
    BY <2>8 DEF Placed, Place
  <2>13. QED
    BY <2>1, <2>6, <2>7, <2>8, <2>11, <2>12 DEF m
<1>3. CASE ~Full(cs)
  <2>1. g = cs
    BY <1>3 DEF Grown
  <2>2. l <= Len(b) => l + 1 <= Len(b)
    BY <1>1, <1>3 DEF Full
  <2>3. QED
    BY <2>1, <2>2
<1>4. QED
  BY <1>2, <1>3

LEMMA AppendIsStash ==
  ASSUME NEW cs \in Stashes, NEW ch \in Int
  PROVE  /\ CsAppend(cs, ch) \in Stashes
         /\ CsAppend(cs, ch).len = cs.len + 1
         /\ Placed(cs) => Placed(CsAppend(cs, ch))
         /\ Placed(cs) /\ cs.len <= Len(cs.base) =>
              /\ cs.len + 1 <= Len(CsAppend(cs, ch).base)
              /\ CsAppend(cs, ch).base[cs.len + 1] = ch
              /\ \A i \in 1..cs.len : CsAppend(cs, ch).base[i] = cs.base[i]
<1> DEFINE l == cs.len
           g == Grown(cs)
           r == g.base
           new == Stored(g, ch)
           a == CsAppend(cs, ch)
<1>1. /\ g \in Stashes /\ g.len = l
      /\ Placed(cs) => Placed(g)
      /\ l <= Len(cs.base) =>
           /\ l + 1 <= Len(r)
           /\ \A i \in 1..l : r[i] = cs.base[i]
  BY GrownKeeps
<1> HIDE DEF g
<1>2. /\ l \in Nat /\ r \in Seq(Int) /\ g.array \in Nat
      /\ g.work \in [array : Nat, at : Nat] /\ g.work.array \in Nat /\ g.work.at \in Nat
  BY <1>1 DEF Stashes
<1>3. a = [base |-> new, array |-> g.array, len |-> l + 1,
           work |-> [array |-> g.work.array, at |-> g.work.at + 1]]
  BY <1>1 DEF CsAppend, Place, g
<1>4. new = IF g.work.array = g.array THEN [r EXCEPT ![g.work.at + 1] = ch] ELSE r
  BY DEF Stored
<1> HIDE DEF r, new, a
<1>5. Len(r) \in Nat /\ r \in [1..Len(r) -> Int]
  BY <1>2
<1>6. new \in [1..Len(r) -> Int]
  BY <1>4, <1>5
<1>7. new \in Seq(Int) /\ Len(new) = Len(r)
  BY <1>5, <1>6
<1>8. a \in Stashes /\ a.base = new /\ a.len = l + 1
  <2>1. g.work.at + 1 \in Nat /\ l + 1 \in Nat
    BY <1>2
  <2> HIDE DEF l
  <2>2. QED
    BY <1>2, <1>3, <1>7, <2>1 DEF Stashes
<1>9. ASSUME Placed(cs)
      PROVE  g.work.array = g.array /\ g.work.at = l
  BY <1>1, <1>9 DEF Placed, Place
<1>10. Placed(cs) => Placed(a)
  BY <1>3, <1>9 DEF Placed, Place
<1>11. ASSUME Placed(cs), l <= Len(cs.base)
       PROVE  l + 1 <= Len(new) /\ new[l + 1] = ch /\ \A i \in 1..l : new[i] = cs.base[i]
  <2>1. new = [r EXCEPT ![l + 1] = ch]
    BY <1>4, <1>9, <1>11
  <2>2. l + 1 <= Len(r) /\ \A i \in 1..l : r[i] = cs.base[i]
    BY <1>1, <1>11
  <2>3. l + 1 \in 1..Len(r) /\ \A i \in 1..l : i \in 1..Len(r) /\ i # l + 1
    <3>1. l \in Nat /\ Len(r) \in Nat
      BY <1>2, <1>5
    <3> HIDE DEF l
    <3>2. QED
      BY <2>2, <3>1
  <2> HIDE DEF l
  <2>4. new[l + 1] = ch /\ \A i \in 1..l : new[i] = r[i]
    BY <1>5, <2>1, <2>3
  <2>5. QED
    BY <1>7, <2>2, <2>4
<1>12. QED
  BY <1>8, <1>10, <1>11 DEF a

LEMMA AppendHolds ==
  ASSUME NEW cs, NEW t \in Seq(Int), Holds(cs, t), NEW ch \in Int
  PROVE  Holds(CsAppend(cs, ch), Append(t, ch))
<1> DEFINE l == Len(t)
           u == Append(t, ch)
           a == CsAppend(cs, ch)
<1>1. cs \in Stashes /\ cs.len = l /\ l <= Len(cs.base) /\ l \in Nat /\ Placed(cs)
  BY DEF Holds
<1>2. /\ a \in Stashes /\ a.len = l + 1 /\ l + 1 <= Len(a.base) /\ Placed(a)
      /\ a.base[l + 1] = ch /\ \A i \in 1..l : a.base[i] = cs.base[i]
  BY <1>1, AppendIsStash
<1>3. Len(u) = l + 1 /\ u[l + 1] = ch /\ \A i \in 1..l : u[i] = t[i]
  OBVIOUS
<1> HIDE DEF u, a, l
<1>4. ASSUME NEW i \in 1..(l + 1)
      PROVE  a.base[i] = u[i]
  <2>1. CASE i = l + 1
    BY <1>2, <1>3, <2>1
  <2>2. CASE i # l + 1
    <3>1. i \in 1..l
      BY <1>1, <2>2
    <3>2. cs.base[i] = t[i]
      BY <3>1 DEF Holds, l
    <3>3. QED
      BY <1>2, <1>3, <3>1, <3>2
  <2>3. QED
    BY <2>1, <2>2
<1>5. QED
  BY <1>2, <1>3, <1>4 DEF Holds, a, u

LEMMA AppendStrHolds ==
  ASSUME NEW cs, NEW t \in Seq(Int), Holds(cs, t), NEW str \in Seq(Int)
  PROVE  Holds(CsAppendStr(cs, str), t \o str)
<1> DEFINE n == Len(str)
           Def(f) == [i \in 0..n |-> IF i = 0 THEN cs ELSE CsAppend(f[i - 1], str[i])]
           h == CHOOSE f : f = Def(f)
           g == [i \in 1..n |-> [x \in Stashes |-> CsAppend(x, str[i])]]
<1>1. CsAppendStr(cs, str) = h[n]
  BY DEF CsAppendStr
<1>2. n \in Nat /\ cs \in Stashes /\ \A i \in 1..n : str[i] \in Int
  BY DEF Holds
<1>3. g \in [1..n -> [Stashes -> Stashes]]
  BY <1>2, AppendIsStash
<1>4. PICK f \in [0..n -> Stashes] : Follows(f, n, cs, g)
  BY <1>2, <1>3, FollowsExists
<1>5. f = Def(f)
  <2>1. ASSUME NEW i \in 1..n
        PROVE  f[i] = CsAppend(f[i - 1], str[i])
    <3>1. i - 1 \in 0..n /\ f[i - 1] \in Stashes
      <4> HIDE DEF n, g
      <4>1. i - 1 \in 0..n
        BY <1>2
      <4>2. QED
        BY <1>4, <4>1
    <3>2. f[i] = g[i][f[i - 1]]
      BY <1>4 DEF Follows
    <3>3. QED
      BY <3>1, <3>2
  <2>2. f[0] = cs /\ f = [i \in 0..n |-> f[i]]
    BY <1>4 DEF Follows
  <2>3. \A i \in 0..n : f[i] = IF i = 0 THEN cs ELSE CsAppend(f[i - 1], str[i])
    <3>1. ASSUME NEW i \in 0..n
          PROVE  f[i] = IF i = 0 THEN cs ELSE CsAppend(f[i - 1], str[i])
      <4> HIDE DEF g, n, Def
      <4>1. i = 0 \/ i \in 1..n
        BY <1>2
      <4>2. QED
        BY <2>1, <2>2, <4>1
    <3>2. QED
      BY <3>1
  <2> HIDE DEF g
  <2>4. QED
    BY <2>2, <2>3
<1>6. h = Def(h)
  BY <1>5
<1> HIDE DEF h
<1>7. \A i \in 0..n : h[i] = IF i = 0 THEN cs ELSE CsAppend(h[i - 1], str[i])
  BY <1>6
<1> HIDE DEF Def, g
<1> DEFINE w == t \o str
           l == Len(t)
           u(i) == SubSeq(w, 1, l + i)
           S == {i \in 0..n : Holds(h[i], u(i))}
<1>8. /\ w \in Seq(Int) /\ Len(w) = l + n /\ l \in Nat
      /\ \A i \in 1..n : w[l + i] = str[i]
      /\ SubSeq(w, 1, l) = t /\ SubSeq(w, 1, l + n) = w
  <2>1. w \in Seq(Int) /\ Len(w) = l + n /\ l \in Nat
    OBVIOUS
  <2>2. \A i \in 1..n : w[l + i] = str[i]
    OBVIOUS
  <2>3. SubSeq(w, 1, l) = t
    OBVIOUS
  <2> HIDE DEF w, n
  <2>4. SubSeq(w, 1, l + n) = w
    BY <2>1
  <2>5. QED
    BY <2>1, <2>2, <2>3, <2>4
<1> HIDE DEF w, l, n
<1>9. 0 \in S
  <2>1. h[0] = cs /\ l + 0 = l
    BY <1>2, <1>7, <1>8
  <2>2. u(0) = t
    BY <1>8, <2>1
  <2> HIDE DEF u
  <2>3. QED
    BY <1>2, <2>1, <2>2
<1>10. ASSUME NEW i \in 1..n, i - 1 \in S
       PROVE  i \in S
  <2>1. /\ i \in 0..n /\ i # 0 /\ str[i] \in Int
        /\ h[i] = CsAppend(h[i - 1], str[i])
    BY <1>2, <1>7
  <2>2. Holds(h[i - 1], u(i - 1))
    BY <1>10
  <2>3. u(i - 1) \in Seq(Int) /\ Append(u(i - 1), str[i]) = u(i)
    <3>1. l + (i - 1) \in 0..Len(w) /\ l + i \in 1..Len(w) /\ l + (i - 1) = (l + i) - 1
      BY <1>2, <1>8
    <3>2. SubSeq(w, 1, l + i) = Append(SubSeq(w, 1, l + (i - 1)), w[l + i])
      BY <1>8, <3>1
    <3>3. SubSeq(w, 1, l + (i - 1)) \in Seq(Int)
      BY <1>8, <3>1
    <3>4. QED
      BY <1>8, <3>2, <3>3
  <2> HIDE DEF u
  <2>4. Holds(h[i], u(i))
    BY <2>1, <2>2, <2>3, AppendHolds
  <2>5. QED
    BY <2>1, <2>4
<1> HIDE DEF S
<1>11. \A i \in 0..n : i \in S
  BY <1>2, <1>9, <1>10, Induction
<1>12. n \in S
  BY <1>2, <1>11
<1>13. Holds(h[n], u(n))
  BY <1>12 DEF S
<1>14. QED
  BY <1>1, <1>8, <1>13 DEF w, n

LEMMA UnleashHolds ==
  ASSUME NEW cs, NEW t \in Seq(Int), Holds(cs, t), \A i \in 1..Len(t) : t[i] # 0
  PROVE  CsUnleash(cs) = t
<1> DEFINE l == Len(t)
           all == CsAppend(cs, 0).base
           Ends(k) == all[k] = 0 /\ \A i \in 1..(k - 1) : all[i] # 0
           end == CHOOSE k \in DOMAIN all : Ends(k)
<1>1. CsUnleash(cs) = SubSeq(all, 1, end - 1)
  BY DEF CsUnleash
<1>2. Holds(CsAppend(cs, 0), Append(t, 0)) /\ l \in Nat
  BY AppendHolds
<1>3. Len(Append(t, 0)) = l + 1 /\ \A i \in 1..l : Append(t, 0)[i] = t[i]
  OBVIOUS
<1>4. Append(t, 0)[l + 1] = 0
  OBVIOUS
<1>5. all \in Seq(Int) /\ l + 1 <= Len(all) /\ \A i \in 1..(l + 1) : all[i] = Append(t, 0)[i]
  BY <1>2, <1>3 DEF Holds, Stashes
<1> HIDE DEF all
<1>6. all[l + 1] = 0 /\ \A i \in 1..l : all[i] = t[i] /\ all[i] # 0
  <2>1. l + 1 \in 1..(l + 1) /\ \A i \in 1..l : i \in 1..(l + 1)
    BY <1>2
  <2> HIDE DEF l
  <2>2. QED
    BY <1>3, <1>4, <1>5, <2>1 DEF l
<1>7. DOMAIN all = 1..Len(all) /\ Len(all) \in Nat /\ l + 1 \in DOMAIN all
  BY <1>2, <1>5
<1>8. Ends(l + 1)
  BY <1>2, <1>6
<1>9. end \in DOMAIN all /\ Ends(end)
  BY <1>7, <1>8
<1> HIDE DEF end
<1>10. end = l + 1
  <2>1. end \in Nat /\ end >= 1
    BY <1>7, <1>9
  <2>2. ~(end < l + 1)
    <3>1. end < l + 1 => end \in 1..l
      BY <1>2, <2>1
    <3>2. QED
      BY <1>6, <1>9, <3>1
  <2>3. ~(l + 1 < end)
    <3>1. l + 1 < end => l + 1 \in 1..(end - 1)
      BY <1>2, <2>1
    <3>2. QED
      BY <1>6, <1>9, <3>1
  <2>4. QED
    BY <1>2, <2>1, <2>2, <2>3
<1>11. end - 1 = l /\ l <= Len(all)
  BY <1>2, <1>5, <1>10
<1> HIDE DEF Ends
<1> DEFINE p == SubSeq(all, 1, l)
<1>12. p \in Seq(Int) /\ Len(p) = l /\ \A i \in 1..l : p[i] = all[i]
  BY <1>2, <1>5, <1>11
<1> HIDE DEF p
<1>13. p = t
  BY <1>6, <1>12, SeqEqual
<1>14. QED
  BY <1>1, <1>11, <1>13 DEF p

-----------------------------------------------------------------------------
(* The number that is made and the one that was appended.                  *)

NumPlaces ==
  /\ program \in {"copy", "numbers", "power"}
  /\ program = "numbers" => pc \in {"start", "digits", "digit", "added", "done"}
  /\ program = "power" => pc \in {"start", "power", "done"}
  /\ pow.busy => At("numbers", "added") \/ At("power", "power")

NumTyped ==
  /\ num.number \in Words /\ num.minus \in BOOLEAN
  /\ num.sum \in Words /\ num.len \in Words
  /\ num = [number |-> num.number, minus |-> num.minus, sum |-> num.sum, len |-> num.len]

Stashed == IF program = "numbers" /\ pc # "start" THEN Text(num.number, num.minus)
                                                  ELSE <<>>

(* What is left to be read is the end of what strtonum was shown.          *)
Remains(n, m) ==
  LET s == Shown(n, m)
  IN  /\ buf \in Seq(Int) /\ Len(buf) <= Len(s)
      /\ \A j \in 1..Len(buf) : buf[j] = s[Len(s) - Len(buf) + j]
      /\ num.len = (Len(buf) - 1 + Extra(n, m)) % Word
      /\ num.sum = Taken(n, m, Len(buf)) % Word

NumInv ==
  /\ PowInv /\ NumPlaces /\ NumTyped /\ Holds(stash, Stashed)
  /\ program = "numbers" /\ pc \in {"start", "digits"} => num.sum = 0
  /\ program = "numbers" /\ pc \in {"digit", "added", "done"} =>
       Remains(num.number, num.minus)
  /\ At("numbers", "done") => buf = <<>>
  /\ At("numbers", "added") =>
       buf # <<>> /\ pow.base = 10 /\ pow.exp = num.len /\ pow.i # 0

LEMMA TextHolds ==
  ASSUME NEW n \in Nat, NEW m \in BOOLEAN, NEW cs, Holds(cs, Text(n, m))
  PROVE  CsUnleash(cs) = Text(n, m)
<1>1. Text(n, m) \in Seq(Int) /\ \A j \in 1..Len(Text(n, m)) : Text(n, m)[j] # 0
  BY TextFacts
<1>2. QED
  BY <1>1, UnleashHolds

LEMMA InitNumbers == Init => NumInv
<1> SUFFICES ASSUME Init PROVE NumInv
  OBVIOUS
<1>1. PICK n \in Numbers, m \in BOOLEAN :
        num = [number |-> n, minus |-> m, sum |-> 0, len |-> 0]
  BY DEF Init
<1>2. PICK c \in Caps : stash = CsNew(c)
  BY DEF Init
<1>3. PICK b \in Bases, e \in Exps : pow = [P!NoPower EXCEPT !.base = b, !.exp = e]
  BY DEF Init
<1>4. c \in Nat /\ n \in Words /\ b \in Words /\ e \in Words /\ 0 \in Words
  BY RuntimeAssumption, WordFacts DEF Words
<1>5. /\ pow \in [base : Words, exp : Words, i : Words, acc : Words, busy : BOOLEAN]
      /\ ~pow.busy /\ pow.i = 0
  BY <1>3, <1>4 DEF P!NoPower
<1>6. PowInv
  BY <1>5 DEF PowInv
<1>7. pc = "start" /\ program \in {"copy", "numbers", "power"} /\ buf = <<>>
  BY DEF Init
<1>8. NumPlaces
  BY <1>5, <1>7 DEF NumPlaces
<1>9. NumTyped /\ num.sum = 0
  BY <1>1, <1>4 DEF NumTyped
<1>10. Holds(stash, Stashed)
  BY <1>2, <1>4, <1>7, NewHolds DEF Stashed
<1>11. QED
  BY <1>6, <1>7, <1>8, <1>9, <1>10 DEF NumInv, At

LEMMA BuildTextKeeps == NumInv /\ BuildText => NumInv'
<1> SUFFICES ASSUME NumInv, BuildText PROVE NumInv'
  OBVIOUS
<1> DEFINE n == num.number
           m == num.minus
           cs == IF m THEN CsAppend(stash, Minus) ELSE stash
<1>1. /\ program = "numbers" /\ pc = "start" /\ pc' = "digits" /\ program' = program
      /\ buf' = buf /\ num' = num /\ pow' = pow
      /\ stash' = CsAppendInt(cs, n)
  BY DEF BuildText, At, Goto, NumberRest
<1>2. n \in Nat /\ m \in BOOLEAN /\ Holds(stash, <<>>) /\ num.sum = 0
  BY <1>1, WordFacts DEF NumInv, NumTyped, Stashed, Words
<1>3. Digits(n) \in Seq(Int) /\ Sign(m) \in Seq(Int)
  <2>1. <<45>> \in Seq(Int) /\ <<>> \in Seq(Int)
    OBVIOUS
  <2>2. Sign(m) \in Seq(Int)
    BY <1>2, <2>1 DEF Sign, Minus
  <2>3. QED
    BY <1>2, <2>2, DigitsFacts
<1>4. Holds(cs, Sign(m))
  <2>1. <<>> \in Seq(Int) /\ Append(<<>>, 45) = <<45>>
    OBVIOUS
  <2>2. Holds(CsAppend(stash, 45), <<45>>)
    <3>1. \A t \in Seq(Int) : Holds(stash, t) => Holds(CsAppend(stash, 45), Append(t, 45))
      BY AppendHolds
    <3>2. QED
      BY <1>2, <2>1, <3>1
  <2>3. CASE m
    BY <2>2, <2>3 DEF Sign, Minus
  <2>4. CASE ~m
    BY <1>2, <2>4 DEF Sign
  <2>5. QED
    BY <1>2, <2>3, <2>4
<1> HIDE DEF cs
<1>5. Holds(stash', Sign(m) \o Digits(n))
  BY <1>1, <1>3, <1>4, AppendStrHolds DEF CsAppendInt, Digits
<1>6. Holds(stash, Stashed)'
  BY <1>1, <1>5 DEF Stashed, Text, Holds
<1>7. NumPlaces'
  BY <1>1 DEF NumInv, NumPlaces, At
<1>8. PowInv' /\ NumTyped'
  BY <1>1 DEF NumInv, NumTyped, PowInv
<1>9. QED
  BY <1>1, <1>2, <1>6, <1>7, <1>8 DEF NumInv, At

LEMMA ReadTextKeeps == NumInv /\ ReadText => NumInv'
<1> SUFFICES ASSUME NumInv, ReadText PROVE NumInv'
  OBVIOUS
<1> DEFINE n == num.number
           m == num.minus
           t == Text(n, m)
           s == Shown(n, m)
           len == Len(t) - 1
<1>1. /\ program = "numbers" /\ pc = "digits" /\ pc' = "digit" /\ program' = program
      /\ stash' = stash /\ pow' = pow
      /\ buf' = DigitsOf(CsUnleash(stash))
      /\ num' = [num EXCEPT !.len = FirstPower(CsUnleash(stash))]
  BY DEF ReadText, At, Goto, NumberRest
<1>2. n \in Nat /\ n \in Words /\ m \in BOOLEAN /\ Holds(stash, t) /\ num.sum = 0
  BY <1>1, WordFacts DEF NumInv, NumTyped, Stashed, Words
<1>3. CsUnleash(stash) = t
  BY <1>2, TextHolds
<1>4. buf' = s /\ num' = [num EXCEPT !.len = len]
  BY <1>1, <1>3 DEF Shown, FirstPower
<1>5. s \in Seq(Int) /\ len = Len(s) - 1 + Extra(n, m) /\ len \in 0..Room
  BY <1>2, TextFacts
<1> HIDE DEF t, s, len
<1>6. len \in Words /\ len % Word = len
  <2>1. len \in Words
    <3>1. Room < Word /\ Room \in Int
      BY WordFacts DEF Room
    <3>2. QED
      BY <1>5, <3>1, WordFacts DEF Words
  <2>2. Word * 0 + len = len
    BY <2>1, WordFacts DEF Words
  <2>3. QED
    BY <2>1, <2>2, ModIs
<1>7. Taken(n, m, Len(s)) % Word = 0
  <2>1. Taken(n, m, Len(s)) = 0
    BY <1>2, TakenAll DEF s
  <2>2. 0 \in Words /\ Word * 0 + 0 = 0
    BY WordFacts DEF Words
  <2>3. QED
    BY <2>1, <2>2, ModIs
<1>8. /\ num'.number = n /\ num'.minus = m /\ num'.sum = 0 /\ num'.len = len
      /\ num' = [number |-> n, minus |-> m, sum |-> 0, len |-> len]
  BY <1>2, <1>4 DEF NumInv, NumTyped
<1>9. NumTyped'
  BY <1>2, <1>6, <1>8, WordFacts DEF NumTyped, Words
<1>10. Holds(stash, Stashed)'
  BY <1>1, <1>2, <1>8 DEF Stashed, Holds, t
<1>11. Remains(num.number, num.minus)'
  <2>1. \A j \in 1..Len(s) : s[j] = s[Len(s) - Len(s) + j]
    BY <1>5
  <2>2. QED
    BY <1>4, <1>5, <1>6, <1>7, <1>8, <2>1 DEF Remains, s
<1>12. NumPlaces' /\ PowInv'
  BY <1>1 DEF NumInv, NumPlaces, At, PowInv
<1>13. QED
  BY <1>1, <1>9, <1>10, <1>11, <1>12 DEF NumInv, At

LEMMA RaisedTen ==
  ASSUME NEW e \in 0..Room
  PROVE  ExactPower(10, e) = TenTo[e] % Word
<1> DEFINE p == Raised(10, e)
           S == {k \in 0..e : p[k] = TenTo[k] % Word}
<1>1. e \in Nat /\ \A k \in 0..e : k \in 0..BufLen
  BY WordFacts DEF Room
<1>2. RaisedTo(p, 10, e) /\ ExactPower(10, e) = p[e]
  BY <1>1, RaisedFacts, ExactIsRaised
<1> HIDE DEF p
<1>3. 0 \in S
  <2>1. TenTo[0] = 1 /\ 1 \in Words /\ Word * 0 + 1 = 1
    BY TenFacts, WordFacts DEF Words
  <2>2. 1 % Word = 1
    BY <2>1, ModIs
  <2>3. QED
    BY <1>1, <1>2, <2>1, <2>2 DEF RaisedTo
<1>4. ASSUME NEW k \in 1..e, k - 1 \in S
      PROVE  k \in S
  <2> DEFINE a == TenTo[k - 1]
  <2>1. k \in 1..BufLen /\ k \in 0..e /\ k - 1 \in 0..BufLen
    BY <1>1
  <2>2. a \in Int /\ TenTo[k] = 10 * a
    BY <2>1, TenFacts
  <2>3. p[k] = (10 * (a % Word)) % Word
    BY <1>2, <1>4 DEF RaisedTo
  <2> HIDE DEF a
  <2>4. ((a % Word) * 10) % Word = (a * 10) % Word
    BY <2>2, ModTimes
  <2>5. a % Word \in Int
    BY <2>2, ModFacts, WordFacts DEF Words
  <2>6. (a % Word) * 10 = 10 * (a % Word) /\ a * 10 = 10 * a
    BY <2>2, <2>5
  <2>7. QED
    BY <2>1, <2>2, <2>3, <2>4, <2>6
<1> HIDE DEF S
<1>5. \A k \in 0..e : k \in S
  BY <1>1, <1>3, <1>4, Induction
<1>6. e \in S
  BY <1>1, <1>5
<1>7. QED
  BY <1>2, <1>6 DEF S

(* The length that counts the powers down, while there are digits.         *)
LEMMA LenFacts ==
  ASSUME NumInv, program = "numbers", pc \in {"digit", "added"}, buf # <<>>
  PROVE  /\ Len(buf) \in 1..Len(Shown(num.number, num.minus))
         /\ num.len = Len(buf) - 1 + Extra(num.number, num.minus)
         /\ num.len \in 0..Room /\ num.number \in Nat /\ num.minus \in BOOLEAN
         /\ Remains(num.number, num.minus)
<1> DEFINE n == num.number
           m == num.minus
           k == Len(buf)
           c == Extra(n, m)
<1>1. Remains(n, m) /\ n \in Nat /\ m \in BOOLEAN
  BY WordFacts DEF NumInv, NumTyped, Words
<1>2. buf \in Seq(Int) /\ k <= Len(Shown(n, m)) /\ num.len = (k - 1 + c) % Word
  BY <1>1 DEF Remains
<1>3. Shown(n, m) \in Seq(Int)
  BY <1>1, TextFacts
<1>4. k \in 1..Len(Shown(n, m))
  BY <1>2, <1>3
<1>5. k - 1 + c \in 0..Room
  BY <1>1, <1>4, TakenNext
<1> DEFINE x == k - 1 + c
<1> HIDE DEF k, c
<1>6. x \in Words /\ Word * 0 + x = x
  BY <1>5, WordFacts DEF Room, Words
<1>7. num.len = x
  BY <1>2, <1>6, ModIs
<1>8. QED
  BY <1>1, <1>4, <1>5, <1>7 DEF k, c

LEMMA AskPowerKeeps == NumInv /\ AskPower => NumInv'
<1> SUFFICES ASSUME NumInv, AskPower PROVE NumInv'
  OBVIOUS
<1>1. /\ program = "numbers" /\ pc = "digit" /\ pc' = "added" /\ program' = program
      /\ stash' = stash /\ buf' = buf /\ num' = num /\ buf # <<>>
      /\ P!PowerCall(10, num.len)
  BY DEF AskPower, At, Goto, NumberRest, Ten
<1>2. 10 \in Words /\ num.len \in Words
  BY WordFacts DEF NumInv, NumTyped, Words
<1>3. PowInv' /\ pow'.base = 10 /\ pow'.exp = num.len /\ pow'.i = 1
  BY <1>1, <1>2, CallFacts
<1>4. NumPlaces'
  BY <1>1 DEF NumPlaces, At
<1>5. NumTyped' /\ Holds(stash, Stashed)'
  BY <1>1 DEF NumInv, NumTyped, Stashed, Holds
<1>6. Remains(num.number, num.minus)'
  BY <1>1, LenFacts DEF Remains
<1>7. QED
  BY <1>1, <1>3, <1>4, <1>5, <1>6 DEF NumInv, At

LEMMA AddDigitKeeps == NumInv /\ AddDigit => NumInv'
<1> SUFFICES ASSUME NumInv, AddDigit PROVE NumInv'
  OBVIOUS
<1> DEFINE n == num.number
           m == num.minus
           k == Len(buf)
           c == Extra(n, m)
           s == Shown(n, m)
           t == TenTo[k - 1 + c]
           x == Head(buf) - 48
           sum == (num.sum + x * pow.acc) % Word
           len == (num.len - 1) % Word
<1>1. /\ program = "numbers" /\ pc = "added" /\ pc' = "digit" /\ program' = program
      /\ stash' = stash /\ pow' = pow /\ buf' = Tail(buf) /\ ~pow.busy
      /\ num' = [num EXCEPT !.sum = sum, !.len = len]
  BY DEF AddDigit, At, Goto, NumberRest, Zero
<1>2. buf # <<>> /\ pow.base = 10 /\ pow.exp = num.len /\ pow.i # 0
  BY <1>1 DEF NumInv, At
<1>3. /\ k \in 1..Len(s) /\ num.len = k - 1 + c /\ num.len \in 0..Room
      /\ n \in Nat /\ m \in BOOLEAN /\ Remains(n, m)
  BY <1>1, <1>2, LenFacts
<1>4. pow.acc = t % Word
  BY <1>1, <1>2, <1>3, RaisedTen DEF NumInv, PowInv
<1>5. /\ buf \in Seq(Int) /\ num.sum = Taken(n, m, k) % Word
      /\ \A j \in 1..k : buf[j] = s[Len(s) - k + j]
  BY <1>3 DEF Remains
<1>6. s \in Seq(Int) /\ Len(s) \in Nat
  <2>1. \A a \in Nat, b \in BOOLEAN : Shown(a, b) \in Seq(Int)
    BY TextFacts
  <2>2. s \in Seq(Int)
    BY <1>3, <2>1
  <2>3. QED
    BY <2>2
<1>7. /\ Taken(n, m, k) \in Int
      /\ Taken(n, m, k - 1) = Taken(n, m, k) + (s[Len(s) + 1 - k] - 48) * t
  BY <1>3, TakenNext
<1>8. Head(buf) = s[Len(s) + 1 - k] /\ Head(buf) \in Int
  <2>1. Head(buf) = buf[1] /\ 1 \in 1..k /\ buf[1] \in Int
    BY <1>2, <1>5
  <2>2. buf[1] = s[Len(s) - k + 1]
    BY <1>5, <2>1
  <2> HIDE DEF s, k
  <2>3. Len(s) - k + 1 = Len(s) + 1 - k
    BY <1>3, <1>6
  <2>4. QED
    BY <2>1, <2>2, <2>3
<1>9. t \in Int
  <2>1. k - 1 + c \in 0..BufLen
    BY <1>3, WordFacts DEF Room
  <2>2. QED
    BY <2>1, TenFacts
<1>10. sum = Taken(n, m, k - 1) % Word
  <2> DEFINE a == Taken(n, m, k)
             b == t % Word
  <2> HIDE DEF x, t, a
  <2>1. x \in Int /\ a \in Int /\ t \in Int
    BY <1>7, <1>8, <1>9 DEF x, a
  <2>2. b \in Int /\ x * b \in Int /\ x * t \in Int /\ b * x = x * b /\ t * x = x * t
    <3>1. b \in Int
      BY <2>1, ModFacts, WordFacts DEF Words
    <3> HIDE DEF b
    <3>2. QED
      BY <2>1, <3>1
  <2>3. (b * x) % Word = (t * x) % Word
    BY <2>1, ModTimes
  <2> HIDE DEF b
  <2> DEFINE y == x * b
             z == x * t
  <2>4. y \in Int /\ z \in Int /\ y % Word = z % Word
    BY <2>2, <2>3
  <2> HIDE DEF y, z
  <2>5. ((a % Word) + y) % Word = (a + y) % Word
    BY <2>1, <2>4, ModPlus
  <2>6. (a + y) % Word = (a + z) % Word
    <3>1. ((y % Word) + a) % Word = (y + a) % Word /\ ((z % Word) + a) % Word = (z + a) % Word
      BY <2>1, <2>4, ModPlus
    <3>2. y + a = a + y /\ z + a = a + z
      BY <2>1, <2>4
    <3>3. QED
      BY <2>4, <3>1, <3>2
  <2>7. sum = ((a % Word) + y) % Word
    BY <1>4, <1>5 DEF a, b, y
  <2>8. Taken(n, m, k - 1) = a + z
    BY <1>7, <1>8 DEF a, x, z
  <2>9. QED
    BY <2>5, <2>6, <2>7, <2>8
<1>11. /\ Tail(buf) \in Seq(Int) /\ Len(Tail(buf)) = k - 1
       /\ \A j \in 1..(k - 1) : Tail(buf)[j] = s[Len(s) - (k - 1) + j]
  <2>1. /\ Tail(buf) \in Seq(Int) /\ Len(Tail(buf)) = k - 1
        /\ \A j \in 1..(k - 1) : Tail(buf)[j] = buf[j + 1]
    BY <1>2, <1>5
  <2>2. ASSUME NEW j \in 1..(k - 1)
        PROVE  Tail(buf)[j] = s[Len(s) - (k - 1) + j]
    <3> HIDE DEF s, k
    <3>1. j + 1 \in 1..k /\ Len(s) - k + (j + 1) = Len(s) - (k - 1) + j
      BY <1>3, <1>6
    <3>2. QED
      BY <1>5, <2>1, <3>1
  <2>3. QED
    BY <2>1, <2>2
<1>12. len = ((k - 1) - 1 + c) % Word
  <2> HIDE DEF k, c
  <2>1. num.len - 1 = (k - 1) - 1 + c
    <3>1. c \in Int
      BY DEF c, Extra
    <3>2. QED
      BY <1>3, <3>1
  <2>2. QED
    BY <2>1
<1>13. sum \in Words /\ len \in Words
  <2>1. Taken(n, m, k - 1) \in Int
    <3> DEFINE y == (s[Len(s) + 1 - k] - 48) * t
    <3>1. y \in Int
      BY <1>8, <1>9
    <3> HIDE DEF y
    <3>2. QED
      BY <1>7, <3>1 DEF y
  <2>2. num.len - 1 \in Int
    BY <1>3
  <2>3. QED
    BY <1>10, <2>1, <2>2, ModFacts
<1> HIDE DEF sum, len
<1>14. /\ num'.number = n /\ num'.minus = m /\ num'.sum = sum /\ num'.len = len
       /\ num' = [number |-> n, minus |-> m, sum |-> sum, len |-> len]
  BY <1>1 DEF NumInv, NumTyped
<1>15. NumTyped'
  BY <1>13, <1>14 DEF NumInv, NumTyped
<1>16. Holds(stash, Stashed)'
  <2>1. Holds(stash, Text(n, m))
    BY <1>1 DEF NumInv, Stashed
  <2>2. QED
    BY <1>1, <1>14, <2>1 DEF Stashed, Holds
<1>17. Remains(num.number, num.minus)'
  <2>1. Len(Tail(buf)) <= Len(s)
    <3> HIDE DEF s, k
    <3>1. QED
      BY <1>3, <1>6, <1>11
  <2>2. QED
    BY <1>1, <1>10, <1>11, <1>12, <1>14, <2>1 DEF Remains
<1>18. NumPlaces' /\ PowInv'
  BY <1>1 DEF NumInv, NumPlaces, At, PowInv
<1>19. QED
  BY <1>1, <1>15, <1>16, <1>17, <1>18 DEF NumInv, At

(* The steps that move on and change nothing else.                         *)
LEMMA MoveKeeps ==
  ASSUME NumInv, UNCHANGED <<program, stash, num, pow>>, ~pow.busy,
         \/ program = "copy"
         \/ program = "power" /\ pc' \in {"start", "power", "done"}
         \/ At("numbers", "digit") /\ pc' = "done" /\ buf = <<>> /\ buf' = buf
  PROVE  NumInv'
<1>1. program' = program /\ stash' = stash /\ num' = num /\ pow' = pow
  OBVIOUS
<1>2. PowInv' /\ NumTyped'
  BY <1>1 DEF NumInv, PowInv, NumTyped
<1>3. NumPlaces'
  BY <1>1 DEF NumInv, NumPlaces, At
<1>4. Stashed' = Stashed
  BY <1>1 DEF Stashed, At
<1>5. Holds(stash, Stashed)'
  BY <1>1, <1>4 DEF NumInv, Holds
<1>6. program = "numbers" => Remains(num.number, num.minus)' /\ pc' = "done" /\ buf' = <<>>
  <2>1. SUFFICES ASSUME program = "numbers"
                 PROVE  Remains(num.number, num.minus)' /\ pc' = "done" /\ buf' = <<>>
    OBVIOUS
  <2>2. pc = "digit" /\ pc' = "done" /\ buf = <<>> /\ buf' = buf
    BY <2>1 DEF At
  <2>3. Remains(num.number, num.minus)
    BY <2>1, <2>2 DEF NumInv
  <2>4. QED
    BY <1>1, <2>2, <2>3 DEF Remains
<1>7. QED
  BY <1>1, <1>2, <1>3, <1>5, <1>6 DEF NumInv, At

LEMMA CopyKeepsNumbers == NumInv /\ Copy => NumInv'
<1> SUFFICES ASSUME NumInv, Copy PROVE NumInv'
  OBVIOUS
<1>1. program = "copy" /\ UNCHANGED <<program, stash, num, pow>>
  BY DEF Copy, OpenIn, CreateOut, TestEnd, ReadChunk, WriteChunk, InWrite, CheckWrite,
         At, CopyRest
<1>2. ~pow.busy
  BY <1>1 DEF NumInv, NumPlaces, At
<1>3. QED
  BY <1>1, <1>2, MoveKeeps

LEMMA NumberReadKeeps == NumInv /\ NumberRead => NumInv'
<1> SUFFICES ASSUME NumInv, NumberRead PROVE NumInv'
  OBVIOUS
<1>1. /\ At("numbers", "digit") /\ buf = <<>> /\ pc' = "done" /\ buf' = buf
      /\ UNCHANGED <<program, stash, num, pow>>
  BY DEF NumberRead, Goto, NumberRest
<1>2. ~pow.busy
  BY <1>1 DEF NumInv, NumPlaces, At
<1>3. QED
  BY <1>1, <1>2, MoveKeeps

LEMMA PowerDoneKeeps == NumInv /\ PowerDone => NumInv'
<1> SUFFICES ASSUME NumInv, PowerDone PROVE NumInv'
  OBVIOUS
<1>1. /\ program = "power" /\ pc' = "done" /\ ~pow.busy
      /\ UNCHANGED <<program, stash, num, pow>>
  BY DEF PowerDone, Goto, NumberRest, At
<1>2. QED
  BY <1>1, MoveKeeps

LEMMA RaisePowerKeeps == NumInv /\ RaisePower => NumInv'
<1> SUFFICES ASSUME NumInv, RaisePower PROVE NumInv'
  OBVIOUS
<1>1. /\ program = "power" /\ pc = "start" /\ pc' = "power" /\ program' = program
      /\ stash' = stash /\ num' = num /\ P!PowerCall(pow.base, pow.exp)
  BY DEF RaisePower, Goto, NumberRest, At
<1>2. pow.base \in Words /\ pow.exp \in Words
  BY DEF NumInv, PowInv
<1>3. PowInv'
  BY <1>1, <1>2, CallFacts
<1>4. NumTyped' /\ NumPlaces'
  BY <1>1 DEF NumInv, NumTyped, NumPlaces, At
<1>5. Stashed' = Stashed
  BY <1>1 DEF Stashed
<1>6. Holds(stash, Stashed)'
  BY <1>1, <1>5 DEF NumInv, Holds
<1>7. QED
  BY <1>1, <1>3, <1>4, <1>6 DEF NumInv, At

LEMMA PowerKeeps == NumInv /\ Power => NumInv'
<1> SUFFICES ASSUME NumInv, Power PROVE NumInv'
  OBVIOUS
<1>1. /\ program' = program /\ pc' = pc /\ stash' = stash /\ buf' = buf /\ num' = num
      /\ P!PowerStep
  BY DEF Power, NumberRest
<1>2. /\ PowInv' /\ pow.busy /\ pow'.base = pow.base /\ pow'.exp = pow.exp
      /\ pow.exp < Word - 1 => pow'.i # 0
  BY <1>1, StepFacts DEF NumInv
<1>3. At("numbers", "added") \/ At("power", "power")
  BY <1>2 DEF NumInv, NumPlaces
<1>4. NumTyped' /\ NumPlaces'
  BY <1>1, <1>3 DEF NumInv, NumTyped, NumPlaces, At
<1>5. Stashed' = Stashed
  BY <1>1 DEF Stashed
<1>6. Holds(stash, Stashed)'
  BY <1>1, <1>5 DEF NumInv, Holds
<1>7. CASE At("power", "power")
  BY <1>1, <1>2, <1>4, <1>6, <1>7 DEF NumInv, At
<1>8. CASE At("numbers", "added")
  <2>1. buf # <<>> /\ pow.base = 10 /\ pow.exp = num.len
    BY <1>8 DEF NumInv
  <2>2. num.len \in 0..Room /\ Remains(num.number, num.minus)
    BY <1>8, <2>1, LenFacts DEF At
  <2>3. pow.exp < Word - 1
    BY <2>1, <2>2, WordFacts DEF Room
  <2>4. Remains(num.number, num.minus)'
    BY <1>1, <2>2 DEF Remains
  <2>5. QED
    BY <1>1, <1>2, <1>4, <1>6, <1>8, <2>1, <2>3, <2>4 DEF NumInv, At
<1>9. QED
  BY <1>3, <1>7, <1>8

LEMMA NextNumbers == NumInv /\ [Next]_vars => NumInv'
<1> SUFFICES ASSUME NumInv, [Next]_vars PROVE NumInv'
  OBVIOUS
<1>1. CASE MakeNumber
  BY <1>1, BuildTextKeeps, ReadTextKeeps, AskPowerKeeps, AddDigitKeeps, NumberReadKeeps
  DEF MakeNumber
<1>2. CASE UNCHANGED vars
  BY <1>2 DEF vars, NumInv, PowInv, NumPlaces, At, NumTyped, Stashed, Holds, Remains
<1>3. QED
  BY <1>1, <1>2, CopyKeepsNumbers, RaisePowerKeeps, PowerKeeps, PowerDoneKeeps DEF Next

LEMMA NumbersHold == Spec => []NumInv
BY InitNumbers, NextNumbers, PTL DEF Spec

(* The power is the product of exp times the base, modulo Word, for every  *)
(* base and exponent and words of any width.                               *)
THEOREM PowersAreExact == Spec => []PowerIsExact
<1>1. NumInv => PowerIsExact
  <2>1. SUFFICES ASSUME NumInv PROVE PowerIsExact
    OBVIOUS
  <2>2. QED
    BY <2>1 DEF NumInv, PowInv, PowerIsExact, P!PowerOK, Words
<1>2. QED
  BY <1>1, NumbersHold, PTL

(* A number that was appended to a stash is read back as itself exactly if *)
(* it is not negative and fits the buffer, unless it is both negative and  *)
(* too long: whatever the stash held room for, for words and buffers of    *)
(* any length.                                                             *)
THEOREM NumbersComeBack == Spec => []NumbersReadBack
<1>1. NumInv => NumbersReadBack
  <2> SUFFICES ASSUME NumInv PROVE NumbersReadBack
    OBVIOUS
  <2> DEFINE n == num.number
             m == num.minus
  <2>1. StashOK
    BY DEF NumInv, Holds, Stashes, StashOK, Placed
  <2>2. num.sum \in 0..(Word - 1) /\ n \in Words /\ n \in Nat /\ m \in BOOLEAN
    BY WordFacts DEF NumInv, NumTyped, Words
  <2>3. ASSUME At("numbers", "done"), ~m \/ Fits(n)
        PROVE  Answer = Signed(IF m THEN -n ELSE n) <=> ~m /\ Fits(n)
    <3>1. Holds(stash, Text(n, m)) /\ Remains(n, m) /\ buf = <<>>
      BY <2>3 DEF NumInv, Stashed, At
    <3>2. CsUnleash(stash) = Text(n, m)
      BY <2>2, <3>1, TextHolds
    <3>3. num.sum = Taken(n, m, 0) % Word
      BY <3>1 DEF Remains
    <3>4. Answer = Signed(IF IsSigned(Text(n, m)) THEN -num.sum ELSE num.sum)
      BY <3>2 DEF Answer
    <3>5. QED
      BY <2>2, <2>3, <3>3, <3>4, ComesBack
  <2>4. QED
    BY <2>1, <2>2, <2>3 DEF NumbersReadBack
<1>2. QED
  BY <1>1, NumbersHold, PTL
=============================================================================
