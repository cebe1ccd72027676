---------------------------- MODULE SpringVector ----------------------------
(***************************************************************************)
(* spring's vector, libfork/spring/vector.fork: headers (struct Vector)    *)
(* that point into arrays on the heap.  A slice is a header that points    *)
(* into the array of another vector.                                       *)
(*                                                                         *)
(* When an array is freed every pointer into it becomes Freed, so that a   *)
(* later array at the same address is not taken for the old one.  Client   *)
(* keeps to calls that do not follow such a pointer.                       *)
(***************************************************************************)
EXTENDS Integers, Sequences

CONSTANTS Values,       \* what a client stores, numbers below 256
          Vects,        \* the addresses of headers
          Arrays,       \* the addresses of arrays
          Null, Freed,  \* two more addresses
          MaxCap,       \* the largest capacity
          Word,         \* uintptr counts modulo Word
          WordBytes,    \* size(uintptr)
          CounterSize   \* the counter of vectPrint counts modulo CounterSize

Cells == Values \cup {0}

ASSUME VectorAssumption ==
  /\ Values \subseteq 1..255
  /\ MaxCap \in Nat
  /\ Null \notin Arrays /\ Freed \notin Arrays /\ Null # Freed
  /\ Word \in Nat /\ Word > 2 * (MaxCap + 1)
  /\ WordBytes \in Nat \ {0} /\ CounterSize \in Nat \ {0}

VARIABLES mem,      \* the live arrays, by address
          vecs,     \* the live headers, by address
          wild,     \* a call has left defined behaviour, or never returns
          ret       \* the last call and its answer (history)

vars == <<mem, vecs, wild, ret>>

Headers == [arr : Arrays \cup {Null, Freed}, off : 0..(MaxCap + 1),
            cap : 0..(Word - 1), len : 0..(Word - 1), isSlice : BOOLEAN]

(* The type invariant: a header's elements are within its capacity, and    *)
(* its capacity within the array it points into (vectNewCap, vectSlice).   *)
TypeOK ==
  /\ DOMAIN mem \subseteq Arrays /\ \A a \in DOMAIN mem : mem[a] \in Seq(Cells)
  /\ DOMAIN vecs \subseteq Vects
  /\ \A v \in DOMAIN vecs :
       /\ vecs[v] \in Headers
       /\ vecs[v].arr \in DOMAIN mem \cup {Null, Freed}
       /\ vecs[v].len <= vecs[v].cap
       /\ vecs[v].arr \in DOMAIN mem /\ vecs[v].cap > 0 /\ ~wild
            => vecs[v].off + vecs[v].cap <= Len(mem[vecs[v].arr])
  /\ wild \in BOOLEAN

Init == /\ mem = <<>>
        /\ vecs = <<>>
        /\ wild = FALSE
        /\ ret = [op |-> "init", vect |-> Null, at |-> 0, n |-> 0, arg |-> 0,
                  value |-> <<>>]

Returns(op, v, i, n, x, r) ==
  ret' = [op |-> op, vect |-> v, at |-> i, n |-> n, arg |-> x, value |-> r]

-----------------------------------------------------------------------------
(* Definitions introduced by "Fault:" are not part of the model: each is a *)
(* plausible mistake in the definition that follows it.                    *)

Lesser(m, n) == IF m < n THEN m ELSE n
Greater(m, n) == IF m < n THEN n ELSE m
Without(f, x) == [y \in DOMAIN f \ {x} |-> f[y]]
With(f, x, e) == [y \in DOMAIN f \cup {x} |-> IF y = x THEN e ELSE f[y]]

Unused == Arrays \ DOMAIN mem

(* Every pointer into the array at a after it was freed.                   *)
Dangling(vs, a) ==
  [v \in DOMAIN vs |-> IF a # Null /\ vs[v].arr = a
                         THEN [vs[v] EXCEPT !.arr = Freed] ELSE vs[v]]

(* What a vector reads: its elements, in order.                            *)
Elements(v) == [k \in 1..vecs[v].len |-> mem[vecs[v].arr][vecs[v].off + k]]

(* The cells of a vector's array overwritten from its first one on.        *)
Stored(v, f) ==
  IF vecs[v].arr = Null THEN mem
  ELSE [mem EXCEPT ![vecs[v].arr] =
          [k \in DOMAIN @ |-> IF k - vecs[v].off \in DOMAIN f
                                THEN f[k - vecs[v].off] ELSE @[k]]]

-----------------------------------------------------------------------------
(* vectNewCap.                                                             *)

(* Fault: the last element that fits is not moved.                         *)
CopiedShort(v, c) ==
  [k \in 1..c |-> IF k < Lesser(vecs[v].cap, c)
                    THEN mem[vecs[v].arr][vecs[v].off + k] ELSE 0]

Copied(v, c) ==
  [k \in 1..c |-> IF k <= Lesser(vecs[v].cap, c)
                    THEN mem[vecs[v].arr][vecs[v].off + k] ELSE 0]

(* Fault: a slice that was given an array of its own is still a slice.     *)
OwnerKept(v) == vecs[v].isSlice

Owner(v) == FALSE

(* free is called with a pointer into the middle of an array.              *)
FreesInside(v) == vecs[v].isSlice /\ vecs[v].off > 0

Counted(len, c) == Lesser(len, c)

Resized(v, a, c) ==
  [arr |-> a, off |-> 0, cap |-> c, len |-> Counted(vecs[v].len, c),
   isSlice |-> Owner(v)]

(* What vectNewCap does, with a for the address that zalloc returns.       *)
Moved(v, a, c) == [Dangling(vecs, vecs[v].arr) EXCEPT ![v] = Resized(v, a, c)]
MovedMem(v, a, c) == With(Without(mem, vecs[v].arr), a, Copied(v, c))

Empty(a, c) == [arr |-> a, off |-> 0, cap |-> c, len |-> 0, isSlice |-> FALSE]

(* The capacity that vectEnsureCap asks for.                               *)
Grown(cap, min) == Greater(cap + (cap \div 2), min)

-----------------------------------------------------------------------------
New(v, c) ==
  /\ IF c = 0
       THEN UNCHANGED mem /\ vecs' = With(vecs, v, Empty(Null, 0))
       ELSE \E a \in Unused :
              /\ mem' = With(mem, a, [k \in 1..c |-> 0])
              /\ vecs' = With(vecs, v, Empty(a, c))
  /\ Returns("new", v, 0, c, 0, <<>>)
  /\ UNCHANGED wild

Resize(v, c) ==
  IF FreesInside(v)
    THEN wild' = TRUE /\ UNCHANGED <<mem, vecs>>
    ELSE \E a \in Unused : /\ mem' = MovedMem(v, a, c)
                           /\ vecs' = Moved(v, a, c)
                           /\ UNCHANGED wild

NewCap(v, c) == Resize(v, c) /\ Returns("newcap", v, 0, c, 0, <<>>)

EnsureCap(v, c) ==
  /\ IF c <= vecs[v].cap THEN UNCHANGED <<mem, vecs, wild>>
                         ELSE Resize(v, Grown(vecs[v].cap, c))
  /\ Returns("ensure", v, 0, c, 0, <<c > vecs[v].cap>>)

Get(v, i) ==
  /\ Returns("get", v, i, 0, 0,
             IF vecs[v].len <= i THEN <<>>
             ELSE <<mem[vecs[v].arr][vecs[v].off + i + 1]>>)
  /\ UNCHANGED <<mem, vecs, wild>>

LenPut(len, i) == IF len <= i THEN i + 1 ELSE len

Put(op, v, i, x) ==
  LET c == Grown(vecs[v].cap, i + 1)
  IN  /\ IF i < vecs[v].cap
           THEN /\ mem' = Stored(v, [k \in {i + 1} |-> x])
                /\ vecs' = [vecs EXCEPT ![v].len = LenPut(@, i)]
                /\ UNCHANGED wild
         ELSE IF FreesInside(v) THEN wild' = TRUE /\ UNCHANGED <<mem, vecs>>
         ELSE \E a \in Unused :
                /\ mem' = [MovedMem(v, a, c) EXCEPT ![a][i + 1] = x]
                /\ vecs' = [Moved(v, a, c) EXCEPT ![v].len = LenPut(@, i)]
                /\ UNCHANGED wild
      /\ Returns(op, v, i, 0, x, <<i >= vecs[v].cap>>)

Append_(v, x) == Put("append", v, vecs[v].len, x)

Free(v) ==
  /\ IF vecs[v].isSlice
       THEN mem' = mem /\ vecs' = Without(vecs, v)
       ELSE /\ mem' = Without(mem, vecs[v].arr)
            /\ vecs' = Without(Dangling(vecs, vecs[v].arr), v)
  /\ Returns("free", v, 0, 0, 0, <<>>)
  /\ UNCHANGED wild

(* memset(arr, 0, cap) clears cap bytes.  The values are below 256: a cell *)
(* is cleared with its first byte.                                         *)
Cleared(v) == [k \in 1..((vecs[v].cap + WordBytes - 1) \div WordBytes) |-> 0]

Prune(v) ==
  /\ mem' = Stored(v, Cleared(v))
  /\ vecs' = [vecs EXCEPT ![v].len = 0]
  /\ Returns("prune", v, 0, 0, 0, <<>>)
  /\ UNCHANGED wild

(* The value is what freefunc was called with, in order.                   *)
FreeContents(v) ==
  /\ IF vecs[v].isSlice THEN UNCHANGED <<mem, vecs>>
     ELSE /\ mem' = Stored(v, Cleared(v))
          /\ vecs' = [vecs EXCEPT ![v].len = 0]
  /\ Returns("contents", v, 0, 0, 0,
             IF vecs[v].isSlice THEN <<>> ELSE Elements(v))
  /\ UNCHANGED wild

(* n is signed; n > rest compares it as an unsigned number.  An offset     *)
(* past MaxCap is past every array, and kept at MaxCap + 1.                *)
SliceLen(v, start, n) ==
  LET rest == (vecs[v].len - start) % Word
  IN  IF n < 0 \/ n % Word > rest THEN rest ELSE n

Slice(v, u, start, n) ==
  LET len == SliceLen(v, start, n)
  IN  /\ vecs' = With(vecs, u,
           [arr |-> vecs[v].arr, cap |-> len, len |-> len,
            off |-> Lesser(vecs[v].off + start, MaxCap + 1), isSlice |-> TRUE])
      /\ wild' = (len > 0 /\ start + len > vecs[v].len)
      /\ Returns("slice", v, start, n, u, <<>>)
      /\ UNCHANGED mem

-----------------------------------------------------------------------------
(* vectPrint: its counter is a uint8 and takes the values 0, 1, ... in     *)
(* turn, up to CounterSize - 1 and 0 again; the first that is not less     *)
(* than the length ends the loop.                                          *)

Stops(i, len) == i >= len

Ends(len) == {i \in 0..(CounterSize - 1) : Stops(i, len)}

Show(v) ==
  /\ wild' = (Ends(vecs[v].len) = {})
  /\ Returns("print", v, 0, 0, 0,
             IF wild' THEN <<>>
             ELSE LET end == CHOOSE i \in Ends(vecs[v].len) :
                               \A j \in Ends(vecs[v].len) : i <= j
                  IN  [k \in 1..end |-> mem[vecs[v].arr][vecs[v].off + k]])
  /\ UNCHANGED <<mem, vecs>>

-----------------------------------------------------------------------------
(* A client calls with any arguments within the bounds, on vectors whose   *)
(* array is still there; the header of a slice may be freed at any time.   *)
(* Capacities below the present one are all the same to vectEnsureCap, and *)
(* indices past the end to vectGetint and vectSlice.                       *)
Live == {v \in DOMAIN vecs : vecs[v].arr # Freed}

Fits(v, c) == c <= vecs[v].cap \/ Grown(vecs[v].cap, c) <= MaxCap

Client ==
  \/ \E v \in Vects \ DOMAIN vecs :
       \/ \E c \in 0..MaxCap : New(v, c)
       \/ \E u \in Live : \E start \in 0..(vecs[u].len + 1), n \in -1..MaxCap :
            Slice(u, v, start, n)
  \/ \E v \in Live :
       \/ Free(v) \/ Prune(v) \/ FreeContents(v) \/ Show(v)
       \/ \E c \in 0..MaxCap : NewCap(v, c)
       \/ \E c \in vecs[v].cap..MaxCap : Fits(v, c) /\ EnsureCap(v, c)
       \/ \E i \in 0..vecs[v].len : Get(v, i)
       \/ \E i \in 0..MaxCap, x \in Values : Fits(v, i + 1) /\ Put("put", v, i, x)
       \/ \E x \in Values : Fits(v, vecs[v].len + 1) /\ Append_(v, x)
  \/ \E v \in DOMAIN vecs \ Live : vecs[v].isSlice /\ Free(v)

Next == ~wild /\ Client

Spec == Init /\ [][Next]_vars

-----------------------------------------------------------------------------
(* Every array is freed by exactly one vector, unless a call has left      *)
(* defined behaviour: vectDeinit frees the array of what is not a slice,   *)
(* and vectNewCap, which gives a slice an array of its own, must make it   *)
(* the owner.  Otherwise memory would leak or be freed twice.              *)
ArraysAreOwned ==
  /\ TypeOK
  /\ ~wild => \A a \in DOMAIN mem :
                \E v \in DOMAIN vecs : \A u \in DOMAIN vecs :
                  (vecs[u].arr = a /\ ~vecs[u].isSlice) <=> u = v

(* A vector is what VectorSpec says: its elements change by calls on it,   *)
(* or on a vector that shares its array; and its array is lost only when   *)
(* a vector that shares it grows, shrinks or is freed.                     *)
View == [v \in DOMAIN vecs |-> IF vecs[v].arr = Freed \/ wild THEN <<>>
                               ELSE Elements(v)]

(* The vectors whose cells behind their elements are all 0.                *)
Clean == {v \in DOMAIN vecs :
            vecs[v].arr \in DOMAIN mem /\ ~wild
              => \A k \in (vecs[v].len + 1)..vecs[v].cap :
                   mem[vecs[v].arr][vecs[v].off + k] = 0}

VS == INSTANCE VectorSpec WITH
        MaxPrinted <- CounterSize - 1,
        view <- View,
        kin <- [v \in DOMAIN vecs |-> vecs[v].arr],
        clean <- Clean,
        slices <- {v \in DOMAIN vecs : vecs[v].isSlice}

IsAVector == VS!Spec

=============================================================================
