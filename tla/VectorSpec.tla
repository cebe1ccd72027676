----------------------------- MODULE VectorSpec -----------------------------
(***************************************************************************)
(* What a client of spring's vectors can rely on: each is a sequence, some *)
(* share memory (a slice with the vector it was cut from), and a vector's  *)
(* memory may be taken away.  Indices count from 0.                        *)
(***************************************************************************)
EXTENDS Integers, Sequences

CONSTANTS Null,       \* the memory of a vector that has none
          Freed,      \* the memory of a vector that has lost it
          MaxPrinted  \* the elements vectPrint can print

VARIABLES view,       \* the live vectors and what each holds
          kin,        \* the memory each is in
          clean,      \* those whose memory behind the elements is all 0
          slices,     \* those that do not own it
          wild,       \* a call has left defined behaviour, or never returns
          ret         \* op: the call; vect, at, n, arg: its arguments; value

vars == <<view, kin, clean, slices, wild, ret>>

V == ret'.vect

Init == /\ view = <<>> /\ kin = <<>> /\ slices = {}
        /\ clean = {} /\ wild = FALSE
        /\ ret.op = "init"

-----------------------------------------------------------------------------
Others == DOMAIN view \ {V}
Kin(v) == {u \in DOMAIN view \ {v} : kin[u] = kin[v] /\ kin[u] \notin {Null, Freed}}

SameVectors == DOMAIN view' = DOMAIN view /\ DOMAIN kin' = DOMAIN kin

(* No memory changes hands.                                                *)
Stays == UNCHANGED <<kin, slices, wild>>

(* Vectors that share no memory with V keep their elements; of the others  *)
(* some elements may change, to x.                                         *)
Spills(x) ==
  \A u \in Others :
    /\ Len(view'[u]) = Len(view[u])
    /\ \A k \in 1..Len(view[u]) :
         view'[u][k] # view[u][k] => u \in Kin(V) /\ view'[u][k] = x

(* V gets memory of its own; what it shared is gone for the others.        *)
Moves ==
  /\ UNCHANGED wild
  /\ slices' = slices \ {V}
  /\ kin'[V] \notin {Null, Freed}
  /\ \A u \in Others :
       /\ kin'[u] = IF u \in Kin(V) THEN Freed ELSE kin[u]
       /\ kin'[u] # kin'[V]
       /\ view'[u] = IF u \in Kin(V) THEN <<>> ELSE view[u]

(* A slice that moves away frees memory in the middle.                     *)
Escapes == V \in slices /\ wild'

-----------------------------------------------------------------------------
New == /\ ret'.op = "new"
       /\ DOMAIN view' = DOMAIN view \cup {V} /\ V \notin DOMAIN view
       /\ view'[V] = <<>>
       /\ \A u \in DOMAIN view :
            /\ view'[u] = view[u] /\ kin'[u] = kin[u]
            /\ kin[u] = kin'[V] => kin[u] = Null
       /\ UNCHANGED <<slices, wild>>

(* As many elements are kept as fit.                                       *)
NewCap == /\ ret'.op = "newcap"
          /\ SameVectors
          /\ \/ Escapes
             \/ /\ Moves
                /\ view'[V] = SubSeq(view[V], 1,
                     IF Len(view[V]) < ret'.n THEN Len(view[V]) ELSE ret'.n)

EnsureCap == /\ ret'.op = "ensure"
             /\ SameVectors
             /\ IF ret'.value[1]
                  THEN Escapes \/ (Moves /\ view'[V] = view[V])
                  ELSE Stays /\ UNCHANGED view

Get == /\ ret'.op = "get"
       /\ ret'.value = IF ret'.at < Len(view[V]) THEN <<view[V][ret'.at + 1]>>
                                                 ELSE <<>>
       /\ Stays /\ UNCHANGED view

(* An element is replaced, or the vector gets longer; what lies between    *)
(* the old end and the new element is 0, if the memory was clean.          *)
Written(i, x) ==
  /\ Len(view'[V]) = IF Len(view[V]) <= i THEN i + 1 ELSE Len(view[V])
  /\ view'[V][i + 1] = x
  /\ \A k \in 1..Len(view[V]) : k # i + 1 => view'[V][k] = view[V][k]
  /\ V \in clean => \A k \in (Len(view[V]) + 1)..i : view'[V][k] = 0

Put == /\ ret'.op \in {"put", "append"}
       /\ ret'.op = "append" => ret'.at = Len(view[V])
       /\ SameVectors
       /\ IF ret'.value[1]
            THEN Escapes \/ (Moves /\ Written(ret'.at, ret'.arg))
            ELSE /\ Stays
                 /\ Written(ret'.at, ret'.arg)
                 /\ Spills(ret'.arg)
                 /\ \A u \in Others : \A k, l \in 1..Len(view[u]) :
                      view'[u][k] # view[u][k] /\ view'[u][l] # view[u][l] => k = l

Empties == view'[V] = <<>> /\ Spills(0)

Prune == ret'.op = "prune" /\ SameVectors /\ Stays /\ Empties

(* Every element is handed to the caller's function, unless V is a slice.  *)
Contents == /\ ret'.op = "contents"
            /\ SameVectors /\ Stays
            /\ IF V \in slices THEN ret'.value = <<>> /\ UNCHANGED view
                               ELSE ret'.value = view[V] /\ Empties

Free == /\ ret'.op = "free"
        /\ DOMAIN view' = Others /\ DOMAIN kin' = Others
        /\ slices' = slices \ {V}
        /\ UNCHANGED wild
        /\ \A u \in Others :
             LET gone == V \notin slices /\ u \in Kin(V)
             IN  /\ kin'[u] = IF gone THEN Freed ELSE kin[u]
                 /\ view'[u] = IF gone THEN <<>> ELSE view[u]

(* n elements from an index on; all that are left for a negative n.        *)
Slice ==
  LET new == ret'.arg
      rest == Len(view[V]) - ret'.at
      n == IF ret'.n < 0 \/ ret'.n > rest THEN rest ELSE ret'.n
  IN  /\ ret'.op = "slice"
      /\ new \notin DOMAIN view /\ DOMAIN view' = DOMAIN view \cup {new}
      /\ slices' = slices \cup {new}
      /\ kin'[new] = kin[V] /\ \A u \in DOMAIN kin : kin'[u] = kin[u]
      /\ IF rest < 0 /\ ret'.n # 0
           THEN wild'
           ELSE /\ ~wild'
                /\ view'[new] = IF n <= 0 THEN <<>>
                                ELSE SubSeq(view[V], ret'.at + 1, ret'.at + n)
                /\ \A u \in DOMAIN view : view'[u] = view[u]

(* Every element once and in order, unless there are too many.             *)
Show == /\ ret'.op = "print"
         /\ UNCHANGED <<kin, slices>>
         /\ IF Len(view[V]) > MaxPrinted THEN wild'
            ELSE ~wild' /\ ret'.value = view[V] /\ UNCHANGED view

(* A call that empties a vector may leave its old elements behind in the   *)
(* memory; a put is seen in the memory behind the elements of others.      *)
KeepsClean ==
  clean \cap DOMAIN view' \subseteq
    clean' \cup CASE ret'.op \in {"prune", "contents"} -> {V}
                  [] ret'.op \in {"put", "append"} -> Kin(V)
                  [] OTHER -> {}

Next == /\ KeepsClean
        /\ \/ New \/ NewCap \/ EnsureCap \/ Get \/ Put \/ Prune
           \/ Contents \/ Free \/ Slice \/ Show

Spec == Init /\ [][Next]_vars

=============================================================================
