----------------------------- MODULE FileStream -----------------------------
(***************************************************************************)
(* spring's streams over files: streams.fork, files.fork and the wrappers  *)
(* of read, write, open and close in filefcn.cc.  The operating system may *)
(* read or write fewer bytes than it is asked to, or fail, at any call.    *)
(*                                                                         *)
(* One thread uses the streams: a call in progress is in the variable call *)
(* (op, the stream, the bytes to write, how many of them are written) and  *)
(* its answer in ret.                                                      *)
(***************************************************************************)
EXTENDS Integers, Sequences

CONSTANTS Files,      \* names of files
          Streams,    \* addresses of struct Stream
          Bytes       \* what files are made of; 0 ends a string

ASSUME StreamAssumption == 0 \in Bytes

VARIABLES disk,       \* the files
          stream,     \* the streams, open or not
          call,       \* the call in progress
          ret         \* the answer of the last one

streamVars == <<disk, stream, call, ret>>

NoStream == [file |-> {}, pos |-> 0, inout |-> {}, eof |-> FALSE, error |-> FALSE]

None == [op |-> "none", s |-> {}, data |-> <<>>, done |-> 0]

StreamsOK ==
  /\ disk \in [Files -> Seq(Bytes)]
  /\ \A s \in Streams :
       /\ stream[s].inout \in {{}, {"in"}, {"out"}}
       /\ stream[s].inout # {} => /\ stream[s].file \subseteq Files
                                  /\ stream[s].pos \in Nat
       /\ stream[s].eof \in BOOLEAN /\ stream[s].error \in BOOLEAN
  /\ call.op \in {"none", "write"} /\ call.done \in 0..Len(call.data)

StreamInit(contents) ==
  /\ disk = contents
  /\ stream = [s \in Streams |-> NoStream]
  /\ call = None
  /\ ret = 0

-----------------------------------------------------------------------------
FileOf(s) == CHOOSE f \in Files : stream[s].file = {f}

Opened(f, dir) ==
  [file |-> {f}, pos |-> 0, inout |-> {dir}, eof |-> FALSE, error |-> FALSE]

(* fileOpen: the answer is 0, the null pointer, if open fails.             *)
FileOpen(s, f) ==
  /\ \/ stream' = [stream EXCEPT ![s] = Opened(f, "in")] /\ ret' = 1
     \/ ret' = 0 /\ UNCHANGED stream
  /\ UNCHANGED <<disk, call>>

(* fileCreate: creat empties a file that is there.                         *)
FileCreate(s, f) ==
  /\ \/ /\ stream' = [stream EXCEPT ![s] = Opened(f, "out")]
        /\ disk' = [disk EXCEPT ![f] = <<>>]
        /\ ret' = 1
     \/ ret' = 0 /\ UNCHANGED <<disk, stream>>
  /\ UNCHANGED call

(* streamClose frees the stream whether close succeeds or not.             *)
StreamClose(s) ==
  /\ stream' = [stream EXCEPT ![s] = NoStream]
  /\ ret' \in {0, 1}
  /\ UNCHANGED <<disk, call>>

(* An error is put into the stream and never taken out again.              *)
Errs(s) == stream' = [stream EXCEPT ![s].error = TRUE] /\ ret' = 0

-----------------------------------------------------------------------------
(* Definitions introduced by "Fault:" are not part of the model: each is a *)
(* plausible mistake in the definition that follows it.                    *)

(* Fault: only a failed read is noticed.                                   *)
EofMissed(k) == k < 0

EofSeen(k) == k = 0

(* streamRead and filereadInternal: the k bytes that read gave.  A read of *)
(* no bytes sets eof, even if none were asked for.                         *)
Reads(s, len, k) ==
  LET f == FileOf(s)
      rest == Len(disk[f]) - stream[s].pos
  IN  /\ k <= len /\ k <= rest
      /\ (k = 0) => (len = 0 \/ rest = 0)
      /\ stream' = [stream EXCEPT ![s].pos = @ + k, ![s].eof = @ \/ EofSeen(k)]
      /\ ret' = k

StreamRead(s, len) ==
  /\ IF "in" \in stream[s].inout
       THEN Errs(s) \/ \E k \in 0..len : Reads(s, len, k)
       ELSE Errs(s)
  /\ UNCHANGED <<disk, call>>

(* The bytes that StreamRead has put into the caller's buffer.             *)
BytesRead(s) ==
  SubSeq(disk[FileOf(s)], stream[s].pos + 1, stream'[s].pos)

-----------------------------------------------------------------------------
(* strlen: the bytes in front of the first 0.                              *)
CString(buf) ==
  SubSeq(buf, 1, CHOOSE n \in 0..Len(buf) :
                   /\ \A i \in 1..n : buf[i] # 0
                   /\ n = Len(buf) \/ buf[n + 1] = 0)

StreamWrite(s, buf) ==
  IF "out" \in stream[s].inout
    THEN /\ call' = [op |-> "write", s |-> s, data |-> CString(buf), done |-> 0]
         /\ UNCHANGED <<disk, stream, ret>>
    ELSE Errs(s) /\ UNCHANGED <<disk, call>>

(* Fault: the rest is written from the start of the buffer again.          *)
FirstBytes(k) == SubSeq(call.data, 1, k)

NextBytes(k) == SubSeq(call.data, call.done + 1, call.done + k)

Writing == call.op = "write" /\ call.done < Len(call.data)

(* filewriteInternal's loop: write takes some of what is left.             *)
WriteSome ==
  /\ Writing
  /\ \E k \in 1..(Len(call.data) - call.done) :
       /\ disk' = [disk EXCEPT ![FileOf(call.s)] = @ \o NextBytes(k)]
       /\ call' = [call EXCEPT !.done = @ + k]
  /\ UNCHANGED <<stream, ret>>

(* write takes nothing: the loop goes round again.                         *)
WriteNone == Writing /\ UNCHANGED streamVars

(* write fails; what earlier rounds wrote is in the file.                  *)
WriteFails ==
  /\ Writing
  /\ Errs(call.s)
  /\ call' = None
  /\ UNCHANGED disk

WriteReturns ==
  /\ call.op = "write" /\ call.done = Len(call.data)
  /\ ret' = call.done
  /\ call' = None
  /\ UNCHANGED <<disk, stream>>

InCall == WriteSome \/ WriteNone \/ WriteFails \/ WriteReturns

=============================================================================
