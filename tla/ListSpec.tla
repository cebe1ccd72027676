------------------------------ MODULE ListSpec ------------------------------
(***************************************************************************)
(* What a client of spring's list means by its operations: a sequence, a   *)
(* second one for the list that an extraction or a copy gave, and the last *)
(* call with its answer.  Indices count from 0.                            *)
(***************************************************************************)
EXTENDS Integers, Sequences

CONSTANTS Values,     \* what a list holds
          NoValue     \* the null pointer of an index out of range

VARIABLES seq,        \* the list
          other,      \* the list extracted or copied last
          ret         \* op: the call; at, n, arg: its arguments; value

S == INSTANCE SequencesExt

vars == <<seq, other, ret>>

Init == /\ seq = <<>>
        /\ other = <<>>
        /\ ret.op = "init"

Push == /\ ret'.op = "push"
        /\ seq' = <<ret'.arg>> \o seq
        /\ UNCHANGED other

Append_ == /\ ret'.op = "append"
           /\ seq' = Append(seq, ret'.arg)
           /\ UNCHANGED other

Add == /\ ret'.op = "add"
       /\ ret'.value = (ret'.at <= Len(seq))
       /\ seq' = IF ret'.value THEN S!InsertAt(seq, ret'.at + 1, ret'.arg)
                               ELSE seq
       /\ UNCHANGED other

Get == /\ ret'.op = "get"
       /\ ret'.value = IF ret'.at < Len(seq) THEN seq[ret'.at + 1] ELSE NoValue
       /\ UNCHANGED <<seq, other>>

(* listInsert overwrites; one past the end it appends.                     *)
Insert == /\ ret'.op = "insert"
          /\ ret'.value = (ret'.at <= Len(seq))
          /\ seq' = IF ret'.at < Len(seq)
                      THEN S!ReplaceAt(seq, ret'.at + 1, ret'.arg)
                    ELSE IF ret'.value THEN Append(seq, ret'.arg) ELSE seq
          /\ UNCHANGED other

Pop == /\ ret'.op = "pop"
       /\ ret'.value = IF seq = <<>> THEN NoValue ELSE Head(seq)
       /\ seq' = IF seq = <<>> THEN seq ELSE Tail(seq)
       /\ UNCHANGED other

Remove == /\ ret'.op = "remove"
          /\ ret'.value = (ret'.at < Len(seq))
          /\ seq' = IF ret'.value THEN S!RemoveAt(seq, ret'.at + 1) ELSE seq
          /\ UNCHANGED other

Prune == /\ ret'.op = "prune"
         /\ seq' = <<>>
         /\ UNCHANGED other

(* n elements from an index on, moved; all of them for a negative n.       *)
Extract ==
  /\ ret'.op = "extract"
  /\ IF ret'.at >= Len(seq)
       THEN other' = <<>> /\ UNCHANGED seq
       ELSE LET n == IF ret'.n < 0 \/ ret'.n > Len(seq) THEN Len(seq) - ret'.at
                                                        ELSE ret'.n
            IN  /\ other' = SubSeq(seq, ret'.at + 1, ret'.at + n)
                /\ seq' = SubSeq(seq, 1, ret'.at)
                            \o SubSeq(seq, ret'.at + n + 1, Len(seq))

Copy == /\ ret'.op = "copy"
        /\ other' = seq
        /\ UNCHANGED seq

Free == /\ ret'.op = "free"
        /\ other' = <<>>
        /\ UNCHANGED seq

Next == \/ Push \/ Append_ \/ Add \/ Get \/ Insert \/ Pop
        \/ Remove \/ Prune \/ Extract \/ Copy \/ Free

Spec == Init /\ [][Next]_vars

=============================================================================
