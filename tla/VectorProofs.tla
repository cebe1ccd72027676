---------------------------- MODULE VectorProofs ----------------------------
(***************************************************************************)
(* Proofs about spring's vectors for any number of headers and arrays and  *)
(* for words of any width: who frees an array, that the elements of a      *)
(* vector lie in its array, and that the vectors implement VectorSpec:     *)
(* Init maps to VS!Init, every call to the call of the same name, and      *)
(* every other step to a stutter.                                          *)
(***************************************************************************)
EXTENDS SpringVector, SequenceTheorems, TLAPS

(* Of the heap m and the headers h:                                        *)

Typed(m, h) ==
  /\ DOMAIN m \subseteq Arrays /\ \A a \in DOMAIN m : m[a] \in Seq(Cells)
  /\ DOMAIN h \subseteq Vects
  /\ \A v \in DOMAIN h : /\ h[v] \in Headers
                         /\ h[v].arr \in DOMAIN m \cup {Null, Freed}
                         /\ h[v].len <= h[v].cap

(* The capacity is that of the array, or less; without one it is 0.        *)
Fitting(m, h) ==
  \A v \in DOMAIN h :
    /\ h[v].arr \in DOMAIN m /\ h[v].cap > 0 => h[v].off + h[v].cap <= Len(m[h[v].arr])
    /\ h[v].arr = Null => h[v].cap = 0

Owns(h, v, a) == h[v].arr = a /\ ~h[v].isSlice

Owned(m, h) == \A a \in DOMAIN m : \E v \in DOMAIN h : \A u \in DOMAIN h :
                 Owns(h, u, a) <=> u = v

Sound(m, h) == Typed(m, h) /\ Fitting(m, h) /\ Owned(m, h)

(* The inductive invariant.  A call that leaves defined behaviour is the   *)
(* last one, and its headers are typed still.                              *)
VInv == Typed(mem, vecs) /\ wild \in BOOLEAN /\ (~wild => Sound(mem, vecs))

-----------------------------------------------------------------------------

LEMMA InvariantIsEnough == VInv => ArraysAreOwned
BY DEF VInv, Typed, Sound, Fitting, Owned, Owns, ArraysAreOwned, TypeOK

LEMMA HeaderFields ==
  ASSUME NEW h \in Headers
  PROVE  /\ h.arr \in Arrays \cup {Null, Freed} /\ h.off \in Nat /\ h.off <= MaxCap + 1
         /\ h.cap \in Nat /\ h.cap < Word /\ h.len \in Nat /\ h.len < Word
         /\ h.isSlice \in BOOLEAN
BY VectorAssumption DEF Headers

LEMMA Words ==
  /\ Word \in Nat /\ MaxCap \in Nat /\ MaxCap < Word /\ MaxCap + 1 < Word
  /\ 0 \in 0..(MaxCap + 1) /\ 0 \in 0..(Word - 1)
BY VectorAssumption

(* vectNewCap: v has moved to the new array a, the one it was in is freed. *)
LEMMA MoveIsSound ==
  ASSUME NEW m, NEW h, NEW n, NEW k, Sound(m, h),
         NEW v \in DOMAIN h, NEW a \in Arrays \ DOMAIN m,
         DOMAIN n = (DOMAIN m \ {h[v].arr}) \cup {a},
         n[a] \in Seq(Cells), \A b \in DOMAIN m \ {h[v].arr} : n[b] = m[b],
         DOMAIN k = DOMAIN h, k[v] \in Headers,
         k[v].arr = a, k[v].off = 0, k[v].cap = Len(n[a]), k[v].len <= k[v].cap,
         ~k[v].isSlice,
         \A u \in DOMAIN h \ {v} :
           k[u] = IF h[v].arr # Null /\ h[u].arr = h[v].arr
                    THEN [h[u] EXCEPT !.arr = Freed] ELSE h[u]
  PROVE  Sound(n, k)
<1>1. /\ DOMAIN m \subseteq Arrays /\ Null \notin Arrays /\ Freed \notin Arrays
      /\ Null # Freed /\ a \notin {Null, Freed}
  BY VectorAssumption DEF Sound, Typed
<1>2. ASSUME NEW u \in DOMAIN h \ {v}
      PROVE  /\ k[u] \in Headers
             /\ k[u].off = h[u].off /\ k[u].cap = h[u].cap /\ k[u].len = h[u].len
             /\ k[u].isSlice = h[u].isSlice
             /\ k[u].arr = IF h[v].arr # Null /\ h[u].arr = h[v].arr
                             THEN Freed ELSE h[u].arr
             /\ h[u] \in Headers /\ h[u].arr \in DOMAIN m \cup {Null, Freed}
             /\ h[u].len <= h[u].cap
  <2>1. /\ h[u] \in Headers /\ h[u].arr \in DOMAIN m \cup {Null, Freed}
        /\ h[u].len <= h[u].cap
    BY <1>2 DEF Sound, Typed
  <2>2. CASE h[v].arr # Null /\ h[u].arr = h[v].arr
    <3>1. k[u] = [h[u] EXCEPT !.arr = Freed]
      BY <1>2, <2>2
    <3>2. QED
      BY <2>1, <2>2, <3>1 DEF Headers
  <2>3. CASE ~(h[v].arr # Null /\ h[u].arr = h[v].arr)
    BY <1>2, <2>1, <2>3
  <2>4. QED
    BY <2>2, <2>3
<1>3. ASSUME NEW u \in DOMAIN h \ {v}, k[u].arr \in DOMAIN n
      PROVE  /\ k[u].arr = h[u].arr /\ h[u].arr \in DOMAIN m \ {h[v].arr}
             /\ k[u].arr # a
  BY <1>1, <1>2, <1>3
<1>4. Typed(n, k)
  <2>1. \A b \in DOMAIN n : b \in Arrays /\ n[b] \in Seq(Cells)
    BY <1>1 DEF Sound, Typed
  <2>2. ASSUME NEW u \in DOMAIN k
        PROVE  /\ k[u] \in Headers
               /\ k[u].arr \in DOMAIN n \cup {Null, Freed}
               /\ k[u].len <= k[u].cap
    BY <1>2
  <2>3. DOMAIN k \subseteq Vects
    BY DEF Sound, Typed
  <2>4. QED
    BY <2>1, <2>2, <2>3 DEF Typed
<1>5. Fitting(n, k)
  <2>1. ASSUME NEW u \in DOMAIN k, k[u].arr \in DOMAIN n, k[u].cap > 0
        PROVE  k[u].off + k[u].cap <= Len(n[k[u].arr])
    <3>1. CASE u = v
      <4>1. Len(n[a]) \in Nat
        OBVIOUS
      <4>2. QED
        BY <3>1, <4>1
    <3>2. CASE u # v
      BY <1>2, <1>3, <2>1, <3>2 DEF Sound, Fitting
    <3>3. QED
      BY <3>1, <3>2
  <2>2. ASSUME NEW u \in DOMAIN k, k[u].arr = Null
        PROVE  k[u].cap = 0
    BY <1>1, <1>2, <2>2 DEF Sound, Fitting
  <2>3. QED
    BY <2>1, <2>2 DEF Fitting
<1>6. Owned(n, k)
  <2>1. \A u \in DOMAIN k : Owns(k, u, a) <=> u = v
    BY <1>3 DEF Owns
  <2>2. ASSUME NEW b \in DOMAIN m \ {h[v].arr}
        PROVE  \E w \in DOMAIN k : \A u \in DOMAIN k : Owns(k, u, b) <=> u = w
    <3>1. PICK w \in DOMAIN h : \A u \in DOMAIN h : Owns(h, u, b) <=> u = w
      BY <2>2 DEF Sound, Owned
    <3>2. w # v /\ b # a
      BY <2>2, <3>1 DEF Owns
    <3>3. \A u \in DOMAIN h \ {v} : Owns(k, u, b) <=> Owns(h, u, b)
      BY <1>1, <1>2, <2>2 DEF Owns
    <3>4. ~Owns(k, v, b)
      BY <3>2 DEF Owns
    <3>5. QED
      BY <3>1, <3>2, <3>3, <3>4
  <2>3. QED
    BY <2>1, <2>2 DEF Owned
<1>7. QED
  BY <1>4, <1>5, <1>6 DEF Sound

(* The arrays and the headers stay, cells and lengths may change.          *)
LEMMA StaySound ==
  ASSUME NEW m, NEW h, NEW n, NEW k, Sound(m, h),
         DOMAIN n = DOMAIN m,
         \A a \in DOMAIN m : n[a] \in Seq(Cells) /\ Len(n[a]) = Len(m[a]),
         DOMAIN k = DOMAIN h,
         \A u \in DOMAIN h : /\ k[u] \in Headers /\ k[u].len <= k[u].cap
                             /\ k[u].arr = h[u].arr /\ k[u].off = h[u].off
                             /\ k[u].cap = h[u].cap /\ k[u].isSlice = h[u].isSlice
  PROVE  Sound(n, k)
<1>1. Typed(n, k)
  BY DEF Sound, Typed
<1>2. Fitting(n, k)
  BY DEF Sound, Fitting
<1>3. Owned(n, k)
  BY DEF Sound, Owned, Owns
<1>4. QED
  BY <1>1, <1>2, <1>3 DEF Sound

(* One more header that owns nothing: a slice, or of capacity 0.           *)
LEMMA HeaderAdded ==
  ASSUME NEW m, NEW h, NEW k, Sound(m, h), NEW v \in Vects \ DOMAIN h,
         DOMAIN k = DOMAIN h \cup {v}, \A u \in DOMAIN h : k[u] = h[u],
         k[v] \in Headers, k[v].len <= k[v].cap,
         k[v].arr \in DOMAIN m \cup {Null},
         k[v].isSlice \/ k[v].arr = Null,
         k[v].arr \in DOMAIN m /\ k[v].cap > 0 => k[v].off + k[v].cap <= Len(m[k[v].arr]),
         k[v].arr = Null => k[v].cap = 0
  PROVE  Sound(m, k)
<1>1. Null \notin DOMAIN m
  BY VectorAssumption DEF Sound, Typed
<1>2. Typed(m, k)
  BY DEF Sound, Typed
<1>3. Fitting(m, k)
  BY DEF Sound, Fitting
<1>4. Owned(m, k)
  <2>1. ASSUME NEW a \in DOMAIN m
        PROVE  \E w \in DOMAIN k : \A u \in DOMAIN k : Owns(k, u, a) <=> u = w
    <3>1. PICK w \in DOMAIN h : \A u \in DOMAIN h : Owns(h, u, a) <=> u = w
      BY <2>1 DEF Sound, Owned
    <3>2. ~Owns(k, v, a)
      BY <1>1, <2>1 DEF Owns
    <3>3. \A u \in DOMAIN h : Owns(k, u, a) <=> Owns(h, u, a)
      BY DEF Owns
    <3>4. QED
      BY <3>1, <3>2, <3>3
  <2>2. QED
    BY <2>1 DEF Owned
<1>5. QED
  BY <1>2, <1>3, <1>4 DEF Sound

(* One more header, that owns the new array a.                             *)
LEMMA ArrayAdded ==
  ASSUME NEW m, NEW h, NEW n, NEW k, Sound(m, h), NEW v \in Vects \ DOMAIN h,
         NEW a \in Arrays \ DOMAIN m,
         DOMAIN n = DOMAIN m \cup {a}, n[a] \in Seq(Cells), \A b \in DOMAIN m : n[b] = m[b],
         DOMAIN k = DOMAIN h \cup {v}, \A u \in DOMAIN h : k[u] = h[u],
         k[v] \in Headers, k[v].len <= k[v].cap, k[v].arr = a, ~k[v].isSlice,
         k[v].off = 0, k[v].cap = Len(n[a])
  PROVE  Sound(n, k)
<1>1. /\ DOMAIN m \subseteq Arrays /\ Null \notin Arrays /\ Freed \notin Arrays
      /\ \A u \in DOMAIN h : h[u].arr \in DOMAIN m \cup {Null, Freed} /\ h[u].arr # a
  BY VectorAssumption DEF Sound, Typed
<1>2. Typed(n, k)
  BY DEF Sound, Typed
<1>3. Fitting(n, k)
  <2>1. ASSUME NEW u \in DOMAIN h
        PROVE  /\ k[u].arr \in DOMAIN n /\ k[u].cap > 0
                    => k[u].off + k[u].cap <= Len(n[k[u].arr])
               /\ k[u].arr = Null => k[u].cap = 0
    BY <1>1 DEF Sound, Fitting
  <2>2. /\ 0 + Len(n[a]) <= Len(n[a])
        /\ k[v].arr # Null
    BY <1>1
  <2>3. QED
    BY <2>1, <2>2 DEF Fitting
<1>4. Owned(n, k)
  <2>1. \A u \in DOMAIN k : Owns(k, u, a) <=> u = v
    BY <1>1 DEF Owns
  <2>2. ASSUME NEW b \in DOMAIN m
        PROVE  \E w \in DOMAIN k : \A u \in DOMAIN k : Owns(k, u, b) <=> u = w
    <3>1. PICK w \in DOMAIN h : \A u \in DOMAIN h : Owns(h, u, b) <=> u = w
      BY <2>2 DEF Sound, Owned
    <3>2. ~Owns(k, v, b)
      BY <2>2 DEF Owns
    <3>3. \A u \in DOMAIN h : Owns(k, u, b) <=> Owns(h, u, b)
      BY DEF Owns
    <3>4. QED
      BY <3>1, <3>2, <3>3
  <2>3. QED
    BY <2>1, <2>2 DEF Owned
<1>5. QED
  BY <1>2, <1>3, <1>4 DEF Sound

(* The header v is gone, and with it, if it owned one, its array.          *)
LEMMA FreedIsSound ==
  ASSUME NEW m, NEW h, NEW n, NEW k, Sound(m, h), NEW v \in DOMAIN h,
         h[v].isSlice \/ h[v].arr # Freed,
         NEW gone, gone = IF h[v].isSlice \/ h[v].arr = Null THEN {} ELSE {h[v].arr},
         DOMAIN n = DOMAIN m \ gone, \A a \in DOMAIN n : n[a] = m[a],
         DOMAIN k = DOMAIN h \ {v},
         \A u \in DOMAIN k : k[u] = IF h[u].arr \in gone
                                      THEN [h[u] EXCEPT !.arr = Freed] ELSE h[u]
  PROVE  Sound(n, k)
<1>1. /\ DOMAIN m \subseteq Arrays /\ Null \notin Arrays /\ Freed \notin Arrays
      /\ Null # Freed /\ Null \notin gone
  BY VectorAssumption DEF Sound, Typed
<1>2. ASSUME NEW u \in DOMAIN k
      PROVE  /\ k[u] \in Headers
             /\ k[u].off = h[u].off /\ k[u].cap = h[u].cap /\ k[u].len = h[u].len
             /\ k[u].isSlice = h[u].isSlice
             /\ k[u].arr = IF h[u].arr \in gone THEN Freed ELSE h[u].arr
             /\ h[u].arr \in DOMAIN m \cup {Null, Freed}
             /\ h[u].len <= h[u].cap
             /\ u \in DOMAIN h
  <2>1. /\ h[u] \in Headers /\ h[u].arr \in DOMAIN m \cup {Null, Freed}
        /\ h[u].len <= h[u].cap
    BY <1>2 DEF Sound, Typed
  <2>2. CASE h[u].arr \in gone
    <3>1. k[u] = [h[u] EXCEPT !.arr = Freed]
      BY <1>2, <2>2
    <3>2. QED
      BY <2>1, <2>2, <3>1 DEF Headers
  <2>3. CASE h[u].arr \notin gone
    BY <1>2, <2>1, <2>3
  <2>4. QED
    BY <2>2, <2>3
<1>3. Typed(n, k)
  <2>1. \A a \in DOMAIN n : a \in Arrays /\ n[a] \in Seq(Cells)
    BY DEF Sound, Typed
  <2>2. \A u \in DOMAIN k : /\ k[u] \in Headers /\ k[u].len <= k[u].cap
                            /\ k[u].arr \in DOMAIN n \cup {Null, Freed}
    BY <1>2
  <2>3. DOMAIN k \subseteq Vects
    BY DEF Sound, Typed
  <2>4. QED
    BY <2>1, <2>2, <2>3 DEF Typed
<1>4. Fitting(n, k)
  <2>1. ASSUME NEW u \in DOMAIN k
        PROVE  /\ k[u].arr \in DOMAIN n /\ k[u].cap > 0
                    => k[u].off + k[u].cap <= Len(n[k[u].arr])
               /\ k[u].arr = Null => k[u].cap = 0
    BY <1>1, <1>2 DEF Sound, Fitting
  <2>2. QED
    BY <2>1 DEF Fitting
<1>5. Owned(n, k)
  <2>1. ASSUME NEW a \in DOMAIN n
        PROVE  \E w \in DOMAIN k : \A u \in DOMAIN k : Owns(k, u, a) <=> u = w
    <3>1. PICK w \in DOMAIN h : \A u \in DOMAIN h : Owns(h, u, a) <=> u = w
      BY <2>1 DEF Sound, Owned
    <3>2. ~Owns(h, v, a)
      BY <1>1, <2>1 DEF Owns
    <3>3. \A u \in DOMAIN k : Owns(k, u, a) <=> Owns(h, u, a)
      BY <1>1, <1>2, <2>1 DEF Owns
    <3>4. w \in DOMAIN k
      BY <3>1, <3>2
    <3>5. QED
      BY <3>1, <3>3, <3>4
  <2>2. QED
    BY <2>1 DEF Owned
<1>6. QED
  BY <1>3, <1>4, <1>5 DEF Sound

-----------------------------------------------------------------------------
(* The calls.                                                              *)

(* What holds of a vector that a client may use.                           *)
LEMMA LiveFacts ==
  ASSUME Sound(mem, vecs), NEW v \in Live
  PROVE  /\ v \in DOMAIN vecs /\ v \in Vects /\ vecs[v] \in Headers
         /\ vecs[v].arr \in DOMAIN mem \cup {Null} /\ vecs[v].arr # Freed
         /\ vecs[v].len <= vecs[v].cap
         /\ vecs[v].arr = Null => vecs[v].cap = 0
         /\ vecs[v].arr \in DOMAIN mem =>
              /\ mem[vecs[v].arr] \in Seq(Cells)
              /\ vecs[v].cap > 0 => vecs[v].off + vecs[v].cap <= Len(mem[vecs[v].arr])
BY VectorAssumption DEF Live, Sound, Typed, Fitting

LEMMA SequenceOfLength ==
  ASSUME NEW S, NEW n \in Nat, NEW s \in [1..n -> S]
  PROVE  s \in Seq(S) /\ Len(s) = n
OBVIOUS

(* Storing changes cells only.                                             *)
LEMMA StoredIsTyped ==
  ASSUME Sound(mem, vecs), NEW v \in Live,
         NEW f, \A k \in DOMAIN f : f[k] \in Cells
  PROVE  /\ DOMAIN Stored(v, f) = DOMAIN mem
         /\ \A a \in DOMAIN mem : /\ Stored(v, f)[a] \in Seq(Cells)
                                 /\ Len(Stored(v, f)[a]) = Len(mem[a])
<1>1. \A a \in DOMAIN mem : mem[a] \in Seq(Cells)
  BY DEF Sound, Typed
<1> DEFINE b == vecs[v].arr
           s == [k \in DOMAIN mem[b] |-> IF k - vecs[v].off \in DOMAIN f
                                           THEN f[k - vecs[v].off] ELSE mem[b][k]]
<1>2. CASE b = Null
  BY <1>1, <1>2 DEF Stored
<1>3. CASE b # Null
  <2>1. b \in DOMAIN mem /\ mem[b] \in Seq(Cells)
    BY <1>3, LiveFacts
  <2>2. DOMAIN mem[b] = 1..Len(mem[b]) /\ Len(mem[b]) \in Nat
        /\ \A k \in 1..Len(mem[b]) : mem[b][k] \in Cells
    BY <2>1
  <2>3. s = [k \in 1..Len(mem[b]) |-> s[k]] /\ \A k \in 1..Len(mem[b]) : s[k] \in Cells
    BY <2>2
  <2>4. s \in Seq(Cells) /\ Len(s) = Len(mem[b])
    <3>1. s \in [1..Len(mem[b]) -> Cells]
      <4> HIDE DEF s
      <4>1. QED
        BY <2>3
    <3> HIDE DEF s, b
    <3>2. QED
      BY <2>2, <3>1, SequenceOfLength
  <2>5. Stored(v, f) = [mem EXCEPT ![b] = s]
    BY <1>3 DEF Stored
  <2> HIDE DEF s, b
  <2>6. QED
    BY <1>1, <2>1, <2>4, <2>5
<1>4. QED
  BY <1>2, <1>3

(* The cells of a new array.                                               *)
LEMMA CopiedIsTyped ==
  ASSUME Sound(mem, vecs), NEW v \in Live, NEW c \in Nat
  PROVE  Copied(v, c) \in Seq(Cells) /\ Len(Copied(v, c)) = c
<1>1. ASSUME NEW k \in 1..c
      PROVE  Copied(v, c)[k] \in Cells
  <2>1. /\ vecs[v].cap \in Nat /\ vecs[v].off \in Nat
    BY LiveFacts, HeaderFields
  <2>2. CASE k <= Lesser(vecs[v].cap, c)
    <3>1. k <= vecs[v].cap /\ vecs[v].cap > 0
      BY <2>1, <2>2 DEF Lesser
    <3>2. /\ mem[vecs[v].arr] \in Seq(Cells)
          /\ vecs[v].off + vecs[v].cap <= Len(mem[vecs[v].arr])
      BY <2>1, <3>1, LiveFacts
    <3>3. vecs[v].off + k \in 1..Len(mem[vecs[v].arr])
      <4> DEFINE o == vecs[v].off
                 p == vecs[v].cap
                 l == Len(mem[vecs[v].arr])
      <4>1. /\ l \in Nat /\ o \in Nat /\ p \in Nat /\ k \in Nat /\ k > 0
            /\ k <= p /\ o + p <= l
        BY <2>1, <3>1, <3>2
      <4> HIDE DEF o, p, l
      <4>2. o + k \in 1..l
        BY <4>1
      <4>3. QED
        BY <4>2 DEF o, l
    <3>4. QED
      BY <2>2, <3>2, <3>3 DEF Copied
  <2>3. CASE ~(k <= Lesser(vecs[v].cap, c))
    BY <2>3 DEF Copied, Cells
  <2>4. QED
    BY <2>2, <2>3
<1>2. Copied(v, c) = [k \in 1..c |-> Copied(v, c)[k]]
  BY DEF Copied
<1>3. QED
  BY <1>1, <1>2

LEMMA ResizedIsTyped ==
  ASSUME Sound(mem, vecs), NEW v \in Live, NEW a \in Unused, NEW c \in 0..MaxCap
  PROVE  /\ Resized(v, a, c) \in Headers
         /\ Resized(v, a, c).arr = a /\ Resized(v, a, c).off = 0
         /\ Resized(v, a, c).cap = c /\ Resized(v, a, c).len <= c
         /\ ~Resized(v, a, c).isSlice
<1>1. /\ vecs[v].len \in Nat /\ c \in Nat /\ a \in Arrays
  BY LiveFacts, HeaderFields, Words DEF Unused
<1>2. /\ Counted(vecs[v].len, c) \in Nat /\ Counted(vecs[v].len, c) <= c
  BY <1>1 DEF Counted, Lesser
<1>3. Counted(vecs[v].len, c) \in 0..(Word - 1) /\ c \in 0..(Word - 1) /\ 0 \in 0..(MaxCap + 1)
  BY <1>1, <1>2, Words
<1>4. QED
  BY <1>1, <1>2, <1>3 DEF Resized, Owner, Headers

(* A vector that moved, and may then have got an element in its array.     *)
LEMMA MovedIsSound ==
  ASSUME Sound(mem, vecs), NEW v \in Live, NEW a \in Unused, NEW c \in 0..MaxCap,
         NEW n, DOMAIN n = DOMAIN MovedMem(v, a, c),
         n[a] \in Seq(Cells), Len(n[a]) = c,
         \A b \in DOMAIN n \ {a} : n[b] = MovedMem(v, a, c)[b],
         NEW k, DOMAIN k = DOMAIN Moved(v, a, c),
         \A u \in DOMAIN k \ {v} : k[u] = Moved(v, a, c)[u],
         k[v] \in Headers, k[v].arr = a, k[v].off = 0, k[v].cap = c, k[v].len <= c,
         ~k[v].isSlice
  PROVE  Sound(n, k)
<1>1. /\ v \in DOMAIN vecs /\ a \in Arrays \ DOMAIN mem
  BY LiveFacts DEF Unused
<1>2. /\ DOMAIN n = (DOMAIN mem \ {vecs[v].arr}) \cup {a}
      /\ \A b \in DOMAIN mem \ {vecs[v].arr} : n[b] = mem[b]
  BY <1>1 DEF MovedMem, With, Without
<1>3. /\ DOMAIN k = DOMAIN vecs
      /\ \A u \in DOMAIN vecs \ {v} :
           k[u] = IF vecs[v].arr # Null /\ vecs[u].arr = vecs[v].arr
                    THEN [vecs[u] EXCEPT !.arr = Freed] ELSE vecs[u]
  BY <1>1 DEF Moved, Dangling
<1>4. QED
  BY <1>1, <1>2, <1>3, MoveIsSound, SMTT(30)

LEMMA SoundAfter ==
  ASSUME NEW n, NEW k, Sound(n, k), mem' = n, vecs' = k, wild' = wild, wild = FALSE
  PROVE  VInv'
BY DEF VInv, Sound

(* vectNewCap as a whole, for capacities within the bound.                 *)
LEMMA ResizeIsSound ==
  ASSUME Sound(mem, vecs), wild = FALSE, NEW v \in Live, NEW c \in 0..MaxCap, Resize(v, c)
  PROVE  VInv'
<1>1. CASE FreesInside(v)
  BY <1>1 DEF Resize, VInv, Sound
<1>2. CASE ~FreesInside(v)
  <2>1. PICK a \in Unused : /\ mem' = MovedMem(v, a, c) /\ vecs' = Moved(v, a, c)
                            /\ wild' = wild
    BY <1>2 DEF Resize
  <2>2. v \in DOMAIN vecs /\ c \in Nat
    BY LiveFacts
  <2>3. MovedMem(v, a, c)[a] = Copied(v, c) /\ Moved(v, a, c)[v] = Resized(v, a, c)
    BY <2>2 DEF MovedMem, With, Moved, Dangling
  <2> DEFINE n == MovedMem(v, a, c)
             k == Moved(v, a, c)
  <2>4. n[a] \in Seq(Cells) /\ Len(n[a]) = c
    BY <2>2, <2>3, CopiedIsTyped
  <2>5. /\ k[v] \in Headers /\ k[v].arr = a /\ k[v].off = 0 /\ k[v].cap = c
        /\ k[v].len <= c /\ ~k[v].isSlice
    BY <2>3, ResizedIsTyped
  <2>6. Sound(n, k)
    <3>1. /\ DOMAIN n = DOMAIN MovedMem(v, a, c) /\ DOMAIN k = DOMAIN Moved(v, a, c)
          /\ \A b \in DOMAIN n \ {a} : n[b] = MovedMem(v, a, c)[b]
          /\ \A u \in DOMAIN k \ {v} : k[u] = Moved(v, a, c)[u]
      OBVIOUS
    <3> HIDE DEF n, k
    <3>2. QED
      BY <2>4, <2>5, <3>1, MovedIsSound
  <2> HIDE DEF n, k
  <2>7. QED
    BY <2>1, <2>6, SoundAfter DEF n, k
<1>3. QED
  BY <1>1, <1>2

(* Calls that only write cells of v's array, or change v's length.         *)
LEMMA WriteIsSound ==
  ASSUME Sound(mem, vecs), wild = FALSE, NEW v \in Live,
         NEW f, \A k \in DOMAIN f : f[k] \in Cells,
         NEW len \in Nat, len <= vecs[v].cap,
         mem' = Stored(v, f), vecs' = [vecs EXCEPT ![v].len = len], wild' = wild
  PROVE  VInv'
<1>1. /\ v \in DOMAIN vecs /\ vecs[v] \in Headers
      /\ \A u \in DOMAIN vecs : vecs[u] \in Headers /\ vecs[u].len <= vecs[u].cap
  BY LiveFacts DEF Sound, Typed
<1> DEFINE h == [vecs[v] EXCEPT !.len = len]
           n == Stored(v, f)
           k == [vecs EXCEPT ![v].len = len]
<1>2. /\ h \in Headers /\ h.arr = vecs[v].arr /\ h.off = vecs[v].off /\ h.cap = vecs[v].cap
      /\ h.isSlice = vecs[v].isSlice /\ h.len = len
  <2>1. vecs[v].cap \in 0..(Word - 1)
    BY <1>1 DEF Headers
  <2>2. len \in 0..(Word - 1)
    BY <2>1, Words
  <2>3. QED
    BY <1>1, <2>2 DEF Headers
<1>3. /\ DOMAIN k = DOMAIN vecs /\ k[v] = h
      /\ \A u \in DOMAIN vecs \ {v} : k[u] = vecs[u]
  BY <1>1
<1>4. /\ DOMAIN n = DOMAIN mem
      /\ \A a \in DOMAIN mem : n[a] \in Seq(Cells) /\ Len(n[a]) = Len(mem[a])
  BY StoredIsTyped
<1> HIDE DEF h
<1>5. \A u \in DOMAIN vecs : /\ k[u] \in Headers /\ k[u].len <= k[u].cap
                              /\ k[u].arr = vecs[u].arr /\ k[u].off = vecs[u].off
                              /\ k[u].cap = vecs[u].cap /\ k[u].isSlice = vecs[u].isSlice
  BY <1>1, <1>2, <1>3
<1>6. Sound(n, k)
  <2> HIDE DEF n, k
  <2>1. QED
    BY <1>3, <1>4, <1>5, StaySound
<1>7. QED
  BY <1>6, SoundAfter

LEMMA NothingWritten ==
  ASSUME Sound(mem, vecs), UNCHANGED <<mem, vecs>>, wild' \in BOOLEAN
  PROVE  VInv'
BY DEF VInv, Sound

LEMMA GrownIsEnough ==
  ASSUME NEW v \in Live, Sound(mem, vecs), NEW c \in Nat, Fits(v, c), c > vecs[v].cap
  PROVE  Grown(vecs[v].cap, c) \in 0..MaxCap /\ Grown(vecs[v].cap, c) >= c
<1>1. vecs[v].cap \in Nat
  BY LiveFacts, HeaderFields
<1>2. QED
  BY <1>1, VectorAssumption DEF Fits, Grown, Greater

LEMMA NewIsSound ==
  ASSUME Sound(mem, vecs), wild = FALSE, NEW v \in Vects \ DOMAIN vecs, NEW c \in 0..MaxCap,
         New(v, c)
  PROVE  VInv'
<1>1. CASE c = 0
  <2> DEFINE e == Empty(Null, 0)
             k == With(vecs, v, e)
  <2>1. mem' = mem /\ vecs' = k /\ wild' = wild
    BY <1>1 DEF New
  <2>2. /\ e \in Headers /\ e.arr = Null /\ e.cap = 0 /\ e.len = 0
    BY Words DEF Empty, Headers
  <2>3. DOMAIN k = DOMAIN vecs \cup {v} /\ k[v] = e /\ \A u \in DOMAIN vecs : k[u] = vecs[u]
    BY DEF With
  <2> HIDE DEF e, k
  <2>4. Sound(mem, k)
    <3>1. /\ k[v] \in Headers /\ k[v].len <= k[v].cap /\ k[v].arr = Null /\ k[v].cap = 0
          /\ k[v].arr \in DOMAIN mem \cup {Null} /\ k[v].arr \notin DOMAIN mem
      BY <2>2, <2>3, VectorAssumption DEF Sound, Typed
    <3>2. QED
      BY <2>3, <3>1, HeaderAdded
  <2>5. QED
    BY <2>1, <2>4, SoundAfter
<1>2. CASE c # 0
  <2>1. PICK a \in Unused : /\ mem' = With(mem, a, [i \in 1..c |-> 0])
                            /\ vecs' = With(vecs, v, Empty(a, c))
                            /\ wild' = wild
    BY <1>2 DEF New
  <2> DEFINE s == [i \in 1..c |-> 0]
             e == Empty(a, c)
             n == With(mem, a, s)
             k == With(vecs, v, e)
  <2>2. a \in Arrays \ DOMAIN mem /\ a # Null
    BY VectorAssumption DEF Unused
  <2>3. c \in 0..(Word - 1) /\ c \in Nat
    BY Words
  <2>4. /\ e \in Headers /\ e.arr = a /\ e.cap = c /\ e.len = 0 /\ e.off = 0 /\ ~e.isSlice
    BY <2>2, <2>3, Words DEF Empty, Headers
  <2>5. s \in Seq(Cells) /\ Len(s) = c
    BY <2>3 DEF Cells
  <2>6. /\ DOMAIN k = DOMAIN vecs \cup {v} /\ k[v] = e
        /\ \A u \in DOMAIN vecs : k[u] = vecs[u]
        /\ DOMAIN n = DOMAIN mem \cup {a} /\ n[a] = s
        /\ \A b \in DOMAIN mem : n[b] = mem[b]
    BY <2>2 DEF With
  <2>7. mem' = n /\ vecs' = k
    BY <2>1
  <2> HIDE DEF e, k, n, s
  <2>8. Sound(n, k)
    <3>1. /\ k[v] \in Headers /\ k[v].arr = a /\ k[v].cap = Len(n[a]) /\ k[v].off = 0
          /\ k[v].len <= k[v].cap /\ ~k[v].isSlice /\ n[a] \in Seq(Cells)
      BY <2>3, <2>4, <2>5, <2>6
    <3>2. QED
      BY <2>2, <2>6, <3>1, ArrayAdded
  <2>9. QED
    BY <2>1, <2>7, <2>8, SoundAfter
<1>3. QED
  BY <1>1, <1>2

(* vectSlice within the vector.                                            *)
LEMMA SliceIsSound ==
  ASSUME Sound(mem, vecs), wild = FALSE, NEW v \in Live, NEW u \in Vects \ DOMAIN vecs,
         NEW start \in Nat, NEW n \in Int, n <= MaxCap, Slice(v, u, start, n)
  PROVE  VInv'
<1> DEFINE len == SliceLen(v, start, n)
           off == Lesser(vecs[v].off + start, MaxCap + 1)
           e == [arr |-> vecs[v].arr, cap |-> len, len |-> len, off |-> off,
                 isSlice |-> TRUE]
           k == With(vecs, u, e)
<1>1. /\ mem' = mem /\ vecs' = k /\ wild' = (len > 0 /\ start + len > vecs[v].len)
  BY DEF Slice
<1>2. /\ vecs[v] \in Headers /\ vecs[v].len \in Nat /\ vecs[v].off \in Nat
      /\ vecs[v].cap \in Nat /\ vecs[v].arr \in DOMAIN mem \cup {Null}
      /\ vecs[v].len <= vecs[v].cap
  BY LiveFacts, HeaderFields
<1>3. len \in 0..(Word - 1)
  <2>1. vecs[v].len - start \in Int
    BY <1>2
  <2>2. (vecs[v].len - start) % Word \in 0..(Word - 1)
    BY <2>1, VectorAssumption
  <2>3. n >= 0 => n \in 0..(Word - 1)
    BY Words
  <2>4. QED
    BY <2>2, <2>3 DEF SliceLen
<1>4. off \in 0..(MaxCap + 1) /\ off <= vecs[v].off + start
  BY <1>2, VectorAssumption DEF Lesser
<1> HIDE DEF len, off
<1>5. /\ e \in Headers /\ e.arr = vecs[v].arr /\ e.cap = len /\ e.len = len /\ e.off = off
      /\ e.isSlice
  BY <1>2, <1>3, <1>4 DEF Headers
<1>6. DOMAIN k = DOMAIN vecs \cup {u} /\ k[u] = e /\ \A w \in DOMAIN vecs : k[w] = vecs[w]
  BY DEF With
<1> HIDE DEF e, k
<1>7. Typed(mem, k)
  BY <1>2, <1>3, <1>5, <1>6 DEF Sound, Typed
<1>8. ASSUME ~(len > 0 /\ start + len > vecs[v].len)
      PROVE  Sound(mem, k)
  <2>1. vecs[v].arr = Null => len = 0
    BY <1>2, <1>3, <1>8, LiveFacts
  <2>2. vecs[v].arr \in DOMAIN mem /\ len > 0 => off + len <= Len(mem[vecs[v].arr])
    <3>1. ASSUME vecs[v].arr \in DOMAIN mem, len > 0
          PROVE  off + len <= Len(mem[vecs[v].arr])
      <4>1. start + len <= vecs[v].len /\ vecs[v].cap > 0
        BY <1>2, <1>3, <1>8, <3>1
      <4>2. /\ vecs[v].off + vecs[v].cap <= Len(mem[vecs[v].arr])
            /\ mem[vecs[v].arr] \in Seq(Cells)
        BY <3>1, <4>1, LiveFacts
      <4>3. Len(mem[vecs[v].arr]) \in Nat
        BY <4>2
      <4>4. len \in Nat /\ off \in Nat
        BY <1>3, <1>4, Words
      <4>5. off + len <= vecs[v].off + vecs[v].cap
        BY <1>2, <1>4, <4>1, <4>4
      <4>6. QED
        BY <1>2, <4>2, <4>3, <4>4, <4>5
    <3>2. QED
      BY <3>1
  <2>3. /\ k[u] \in Headers /\ k[u].len <= k[u].cap
        /\ k[u].arr \in DOMAIN mem \cup {Null} /\ k[u].isSlice
        /\ (k[u].arr \in DOMAIN mem /\ k[u].cap > 0
              => k[u].off + k[u].cap <= Len(mem[k[u].arr]))
        /\ (k[u].arr = Null => k[u].cap = 0)
    BY <1>2, <1>3, <1>5, <1>6, <2>1, <2>2
  <2>4. QED
    BY <1>6, <2>3, HeaderAdded
<1>9. QED
  BY <1>1, <1>7, <1>8 DEF VInv

LEMMA FreeIsSound ==
  ASSUME Sound(mem, vecs), wild = FALSE, NEW v \in DOMAIN vecs,
         v \in Live \/ vecs[v].isSlice, Free(v)
  PROVE  VInv'
<1> DEFINE gone == IF vecs[v].isSlice \/ vecs[v].arr = Null THEN {} ELSE {vecs[v].arr}
           n == IF vecs[v].isSlice THEN mem ELSE Without(mem, vecs[v].arr)
           k == IF vecs[v].isSlice THEN Without(vecs, v)
                ELSE Without(Dangling(vecs, vecs[v].arr), v)
<1>1. mem' = n /\ vecs' = k /\ wild' = wild
  BY DEF Free
<1>2. vecs[v].isSlice \/ vecs[v].arr # Freed
  BY DEF Live
<1>3. Null \notin DOMAIN mem
  BY VectorAssumption DEF Sound, Typed
<1>4. /\ DOMAIN n = DOMAIN mem \ gone /\ \A a \in DOMAIN n : n[a] = mem[a]
  BY <1>3 DEF Without
<1>5. /\ DOMAIN k = DOMAIN vecs \ {v}
      /\ \A u \in DOMAIN k : k[u] = IF vecs[u].arr \in gone
                                       THEN [vecs[u] EXCEPT !.arr = Freed] ELSE vecs[u]
  BY DEF Without, Dangling
<1> HIDE DEF n, k
<1>6. Sound(n, k)
  BY <1>2, <1>4, <1>5, FreedIsSound
<1>7. QED
  BY <1>1, <1>6, SoundAfter

LEMMA PutIsSound ==
  ASSUME Sound(mem, vecs), wild = FALSE, NEW v \in Live, NEW i \in Nat, NEW x \in Values,
         NEW op, Fits(v, i + 1), Put(op, v, i, x)
  PROVE  VInv'
<1>1. /\ v \in DOMAIN vecs /\ vecs[v].cap \in Nat /\ vecs[v].len \in Nat
      /\ vecs[v].len <= vecs[v].cap /\ x \in Cells
  BY LiveFacts, HeaderFields DEF Cells
<1>2. CASE i < vecs[v].cap
  <2> DEFINE f == [j \in {i + 1} |-> x]
             len == LenPut(vecs[v].len, i)
  <2>1. /\ mem' = Stored(v, f) /\ vecs' = [vecs EXCEPT ![v].len = len] /\ wild' = wild
    BY <1>1, <1>2 DEF Put
  <2>2. len \in Nat /\ len <= vecs[v].cap /\ \A j \in DOMAIN f : f[j] \in Cells
    BY <1>1, <1>2 DEF LenPut
  <2> HIDE DEF f, len
  <2>3. QED
    BY <2>1, <2>2, WriteIsSound
<1>3. CASE ~(i < vecs[v].cap) /\ FreesInside(v)
  BY <1>3, NothingWritten DEF Put
<1>4. CASE ~(i < vecs[v].cap) /\ ~FreesInside(v)
  <2> DEFINE c == Grown(vecs[v].cap, i + 1)
  <2>1. c \in 0..MaxCap /\ c >= i + 1 /\ c \in Nat
    BY <1>1, <1>4, GrownIsEnough
  <2>2. PICK a \in Unused : /\ mem' = [MovedMem(v, a, c) EXCEPT ![a][i + 1] = x]
                            /\ vecs' = [Moved(v, a, c) EXCEPT ![v].len = LenPut(@, i)]
                            /\ wild' = wild
    BY <1>4 DEF Put
  <2> HIDE DEF c
  <2> DEFINE m == MovedMem(v, a, c)
             h == Moved(v, a, c)
             s == [Copied(v, c) EXCEPT ![i + 1] = x]
             e == [Resized(v, a, c) EXCEPT !.len = LenPut(@, i)]
             n == [m EXCEPT ![a][i + 1] = x]
             k == [h EXCEPT ![v].len = LenPut(@, i)]
  <2>3. /\ m[a] = Copied(v, c) /\ a \in DOMAIN m
        /\ h[v] = Resized(v, a, c) /\ v \in DOMAIN h
    BY <1>1 DEF MovedMem, With, Moved, Dangling
  <2>4. s \in Seq(Cells) /\ Len(s) = c
    <3>1. Copied(v, c) \in Seq(Cells) /\ Len(Copied(v, c)) = c
      BY <2>1, CopiedIsTyped
    <3>2. QED
      BY <1>1, <2>1, <3>1
  <2>5. /\ e \in Headers /\ e.arr = a /\ e.off = 0 /\ e.cap = c /\ e.len <= c /\ ~e.isSlice
    <3> DEFINE r == Resized(v, a, c)
    <3>1. /\ r \in Headers /\ r.arr = a /\ r.off = 0 /\ r.cap = c /\ r.len <= c /\ ~r.isSlice
      BY <2>1, ResizedIsTyped
    <3>2. r.len \in Nat /\ c < Word
      BY <2>1, <3>1, HeaderFields, Words
    <3>3. LenPut(r.len, i) \in 0..(Word - 1) /\ LenPut(r.len, i) <= c
      BY <2>1, <3>1, <3>2, Words DEF LenPut
    <3> HIDE DEF r
    <3>4. [r EXCEPT !.len = LenPut(@, i)] \in Headers
      BY <3>1, <3>3 DEF Headers
    <3>5. QED
      BY <3>1, <3>3, <3>4 DEF r, Headers
  <2>6. /\ DOMAIN n = DOMAIN m /\ n[a] = s /\ \A b \in DOMAIN n \ {a} : n[b] = m[b]
        /\ DOMAIN k = DOMAIN h /\ k[v] = e /\ \A u \in DOMAIN k \ {v} : k[u] = h[u]
    <3> HIDE DEF m, h
    <3>1. QED
      BY <2>3
  <2>7. mem' = n /\ vecs' = k
    BY <2>2
  <2> HIDE DEF n, k, s, e
  <2>8. Sound(n, k)
    BY <2>1, <2>4, <2>5, <2>6, MovedIsSound
  <2>9. QED
    BY <2>2, <2>7, <2>8, SoundAfter
<1>5. QED
  BY <1>2, <1>3, <1>4

-----------------------------------------------------------------------------

LEMMA InitialVInv == Init => VInv
<1> SUFFICES ASSUME Init PROVE VInv
  OBVIOUS
<1>1. DOMAIN mem = {} /\ DOMAIN vecs = {} /\ wild = FALSE
  BY DEF Init
<1>2. QED
  BY <1>1 DEF VInv, Sound, Typed, Fitting, Owned

LEMMA NextKeepsVInv == VInv /\ Next => VInv'
<1> SUFFICES ASSUME VInv, Next PROVE VInv'
  OBVIOUS
<1>1. Sound(mem, vecs) /\ wild = FALSE /\ Client
  BY DEF VInv, Next
<1>2. ASSUME NEW v \in Vects \ DOMAIN vecs, NEW c \in 0..MaxCap, New(v, c) PROVE VInv'
  BY <1>1, <1>2, NewIsSound
<1>3. ASSUME NEW v \in Vects \ DOMAIN vecs, NEW u \in Live,
             NEW start \in 0..(vecs[u].len + 1), NEW n \in -1..MaxCap,
             Slice(u, v, start, n)
      PROVE  VInv'
  <2>1. start \in Nat /\ n \in Int /\ n <= MaxCap
    BY <1>1, LiveFacts, HeaderFields, VectorAssumption
  <2>2. QED
    BY <1>1, <1>3, <2>1, SliceIsSound
<1>4. ASSUME NEW v \in Live, Free(v) PROVE VInv'
  BY <1>1, <1>4, FreeIsSound, LiveFacts
<1>5. ASSUME NEW v \in Live, Prune(v) \/ (FreeContents(v) /\ ~vecs[v].isSlice) PROVE VInv'
  <2>1. mem' = Stored(v, Cleared(v)) /\ vecs' = [vecs EXCEPT ![v].len = 0] /\ wild' = wild
    BY <1>5 DEF Prune, FreeContents
  <2>2. \A k \in DOMAIN Cleared(v) : Cleared(v)[k] \in Cells
    BY DEF Cleared, Cells
  <2>3. 0 \in Nat /\ 0 <= vecs[v].cap
    BY <1>1, LiveFacts, HeaderFields
  <2>4. QED
    BY <1>1, <2>1, <2>2, <2>3, WriteIsSound
<1>6. ASSUME NEW v \in Live, Show(v) \/ (FreeContents(v) /\ vecs[v].isSlice) PROVE VInv'
  BY <1>1, <1>6, NothingWritten DEF Show, FreeContents
<1>7. ASSUME NEW v \in Live, NEW c \in 0..MaxCap, NewCap(v, c) PROVE VInv'
  BY <1>1, <1>7, ResizeIsSound DEF NewCap
<1>8. ASSUME NEW v \in Live, NEW c \in vecs[v].cap..MaxCap, Fits(v, c), EnsureCap(v, c)
      PROVE  VInv'
  <2>1. vecs[v].cap \in Nat /\ c \in Nat
    BY <1>1, LiveFacts, HeaderFields
  <2>2. CASE c <= vecs[v].cap
    BY <1>1, <1>8, <2>2, NothingWritten DEF EnsureCap
  <2>3. CASE ~(c <= vecs[v].cap)
    <3>1. Grown(vecs[v].cap, c) \in 0..MaxCap
      BY <1>1, <1>8, <2>1, <2>3, GrownIsEnough
    <3>2. QED
      BY <1>1, <1>8, <2>3, <3>1, ResizeIsSound DEF EnsureCap
  <2>4. QED
    BY <2>2, <2>3
<1>9. ASSUME NEW v \in Live, NEW i, Get(v, i) PROVE VInv'
  BY <1>1, <1>9, NothingWritten DEF Get
<1>10. ASSUME NEW v \in Live, NEW i \in 0..MaxCap, NEW x \in Values,
              Fits(v, i + 1), Put("put", v, i, x)
       PROVE  VInv'
  <2> DEFINE op == "put"
  <2>1. Put(op, v, i, x) /\ i \in Nat
    BY <1>10, Words
  <2> HIDE DEF op
  <2>2. QED
    BY <1>1, <1>10, <2>1, PutIsSound
<1>11. ASSUME NEW v \in Live, NEW x \in Values, Fits(v, vecs[v].len + 1), Append_(v, x)
       PROVE  VInv'
  <2>1. vecs[v].len \in Nat
    BY <1>1, LiveFacts, HeaderFields
  <2>2. QED
    BY <1>1, <1>11, <2>1, PutIsSound DEF Append_
<1>12. ASSUME NEW v \in DOMAIN vecs \ Live, vecs[v].isSlice, Free(v) PROVE VInv'
  BY <1>1, <1>12, FreeIsSound
<1>13. QED
  <2>1. CASE \E v \in Vects \ DOMAIN vecs :
               \/ \E c \in 0..MaxCap : New(v, c)
               \/ \E u \in Live : \E start \in 0..(vecs[u].len + 1), n \in -1..MaxCap :
                    Slice(u, v, start, n)
    BY <1>2, <1>3, <2>1
  <2>2. CASE \E v \in Live :
               \/ Free(v) \/ Prune(v) \/ FreeContents(v) \/ Show(v)
               \/ \E c \in 0..MaxCap : NewCap(v, c)
               \/ \E c \in vecs[v].cap..MaxCap : Fits(v, c) /\ EnsureCap(v, c)
               \/ \E i \in 0..vecs[v].len : Get(v, i)
               \/ \E i \in 0..MaxCap, x \in Values : Fits(v, i + 1) /\ Put("put", v, i, x)
               \/ \E x \in Values : Fits(v, vecs[v].len + 1) /\ Append_(v, x)
    BY <1>4, <1>5, <1>6, <1>7, <1>8, <1>9, <1>10, <1>11, <2>2
  <2>3. CASE \E v \in DOMAIN vecs \ Live : vecs[v].isSlice /\ Free(v)
    BY <1>12, <2>3
  <2>4. QED
    BY <1>1, <2>1, <2>2, <2>3 DEF Client

LEMMA StutteringKeepsVInv == VInv /\ UNCHANGED vars => VInv'
BY DEF VInv, vars

(* Until a call leaves defined behaviour every live array has exactly one  *)
(* header that will free it, however vectors were sliced, grown and freed; *)
(* and the elements of every vector lie within its array.                  *)
THEOREM OwnedArrays == Spec => []ArraysAreOwned
<1>1. VInv /\ [Next]_vars => VInv'
  BY NextKeepsVInv, StutteringKeepsVInv
<1>2. QED
  BY <1>1, InitialVInv, InvariantIsEnough, PTL DEF Spec

-----------------------------------------------------------------------------
(* What the refinement mapping reads, of the heap m and the headers h.     *)

Held(h, v) == IF h[v].arr = Freed THEN 0 ELSE h[v].len

Seen(m, h, v) == IF h[v].arr = Freed THEN <<>>
                 ELSE [k \in 1..h[v].len |-> m[h[v].arr][h[v].off + k]]

Wiped(m, h, v) == h[v].arr \in DOMAIN m =>
                    \A k \in (h[v].len + 1)..h[v].cap : m[h[v].arr][h[v].off + k] = 0

(* No array is larger than a client may ask for.                           *)
Small(m) == \A a \in DOMAIN m : Len(m[a]) <= MaxCap

RInv == VInv /\ (~wild => Small(mem))

LEMMA TameView ==
  /\ DOMAIN View = DOMAIN vecs
  /\ ~wild => \A v \in DOMAIN vecs : /\ View[v] = Seen(mem, vecs, v)
                                     /\ v \in Clean <=> Wiped(mem, vecs, v)
  /\ wild => \A v \in DOMAIN vecs : View[v] = <<>>
  /\ wild => Clean = DOMAIN vecs
  /\ Clean \subseteq DOMAIN vecs
BY DEF View, Elements, Seen, Clean, Wiped

LEMMA TameViewNow ==
  /\ DOMAIN View' = DOMAIN vecs'
  /\ ~wild' => \A v \in DOMAIN vecs' : /\ View'[v] = Seen(mem', vecs', v)
                                       /\ v \in Clean' <=> Wiped(mem', vecs', v)
  /\ wild' => \A v \in DOMAIN vecs' : View'[v] = <<>>
  /\ wild' => Clean' = DOMAIN vecs'
  /\ Clean' \subseteq DOMAIN vecs'
BY DEF View, Elements, Seen, Clean, Wiped

LEMMA SeenFacts ==
  ASSUME NEW m, NEW h, Sound(m, h), NEW v \in DOMAIN h
  PROVE  /\ h[v].len \in Nat /\ h[v].cap \in Nat /\ h[v].off \in Nat
         /\ h[v].len <= h[v].cap
         /\ h[v].arr \in DOMAIN m \cup {Null, Freed}
         /\ h[v].arr = Null => h[v].cap = 0
         /\ Null \notin DOMAIN m /\ Freed \notin DOMAIN m /\ Null # Freed
         /\ h[v].arr \in DOMAIN m => m[h[v].arr] \in Seq(Cells)
         /\ h[v].arr \in DOMAIN m => \A k \in 1..h[v].cap : h[v].off + k \in 1..Len(m[h[v].arr])
         /\ Held(h, v) \in Nat
         /\ Seen(m, h, v) \in Seq(Cells) /\ Len(Seen(m, h, v)) = Held(h, v)
         /\ \A k \in 1..Held(h, v) : /\ Seen(m, h, v)[k] = m[h[v].arr][h[v].off + k]
                                     /\ h[v].arr \in DOMAIN m
<1>1. /\ h[v] \in Headers /\ h[v].arr \in DOMAIN m \cup {Null, Freed}
      /\ h[v].len <= h[v].cap /\ (h[v].arr = Null => h[v].cap = 0)
      /\ h[v].len \in Nat /\ h[v].cap \in Nat /\ h[v].off \in Nat
  BY HeaderFields DEF Sound, Typed, Fitting
<1>2. Null \notin DOMAIN m /\ Freed \notin DOMAIN m /\ Null # Freed
  BY VectorAssumption DEF Sound, Typed
<1>3. ASSUME h[v].arr \in DOMAIN m
      PROVE  /\ m[h[v].arr] \in Seq(Cells)
             /\ \A k \in 1..h[v].cap : h[v].off + k \in 1..Len(m[h[v].arr])
  <2>1. m[h[v].arr] \in Seq(Cells) /\ Len(m[h[v].arr]) \in Nat
    BY <1>3 DEF Sound, Typed
  <2>2. h[v].cap > 0 => h[v].off + h[v].cap <= Len(m[h[v].arr])
    BY <1>3 DEF Sound, Fitting
  <2>3. ASSUME NEW k \in 1..h[v].cap
        PROVE  h[v].off + k \in 1..Len(m[h[v].arr])
    <3>1. PICK o \in Nat, c \in Nat, l \in Nat :
             o = h[v].off /\ c = h[v].cap /\ l = Len(m[h[v].arr])
      BY <1>1, <2>1
    <3>2. k \in 1..c /\ (c > 0 => o + c <= l)
      BY <2>2, <3>1
    <3>3. o + k \in 1..l
      BY <3>2
    <3>4. QED
      BY <3>1, <3>3
  <2>4. QED
    BY <2>1, <2>3
<1>4. /\ Held(h, v) \in Nat
      /\ Seen(m, h, v) \in Seq(Cells) /\ Len(Seen(m, h, v)) = Held(h, v)
      /\ \A k \in 1..Held(h, v) : /\ Seen(m, h, v)[k] = m[h[v].arr][h[v].off + k]
                                  /\ h[v].arr \in DOMAIN m
  <2>1. CASE h[v].arr = Freed
    BY <2>1 DEF Held, Seen
  <2>2. CASE h[v].arr # Freed
    <3>1. Held(h, v) = h[v].len /\ Held(h, v) \in Nat
      BY <1>1, <2>2 DEF Held
    <3>2. Seen(m, h, v) = [k \in 1..Held(h, v) |-> m[h[v].arr][h[v].off + k]]
      BY <2>2, <3>1 DEF Seen
    <3>3. ASSUME NEW k \in 1..Held(h, v)
          PROVE  h[v].arr \in DOMAIN m /\ m[h[v].arr][h[v].off + k] \in Cells
      <4>1. k \in 1..h[v].cap /\ h[v].cap # 0
        BY <1>1, <3>1
      <4>2. h[v].arr \in DOMAIN m
        BY <1>1, <2>2, <4>1
      <4>3. h[v].off + k \in 1..Len(m[h[v].arr]) /\ m[h[v].arr] \in Seq(Cells)
        BY <1>3, <4>1, <4>2
      <4>4. QED
        BY <4>2, <4>3
    <3>4. Seen(m, h, v) \in [1..Held(h, v) -> Cells]
      BY <3>2, <3>3
    <3>5. Seen(m, h, v) \in Seq(Cells) /\ Len(Seen(m, h, v)) = Held(h, v)
      BY <3>1, <3>4, SequenceOfLength
    <3>6. QED
      BY <3>1, <3>2, <3>3, <3>5
  <2>3. QED
    BY <2>1, <2>2
<1>5. QED
  BY <1>1, <1>2, <1>3, <1>4

(* A vector whose header and array are as they were.                       *)
LEMMA Untouched ==
  ASSUME NEW m, NEW h, NEW n, NEW k, Sound(m, h), NEW v \in DOMAIN h,
         k[v] = h[v],
         h[v].arr \in DOMAIN m => n[h[v].arr] = m[h[v].arr],
         h[v].arr \in DOMAIN n => h[v].arr \in DOMAIN m
  PROVE  /\ Seen(n, k, v) = Seen(m, h, v)
         /\ Wiped(m, h, v) => Wiped(n, k, v)
<1>1. h[v].arr \notin DOMAIN m /\ h[v].arr # Freed => h[v].len = 0
  BY SeenFacts
<1>2. Seen(n, k, v) = Seen(m, h, v)
  <2>1. CASE h[v].arr = Freed
    BY <2>1 DEF Seen
  <2>2. CASE h[v].arr \in DOMAIN m
    BY <2>2 DEF Seen
  <2>3. CASE h[v].arr \notin DOMAIN m /\ h[v].arr # Freed
    <3>1. 1..h[v].len = {}
      BY <1>1, <2>3
    <3>2. QED
      BY <2>3, <3>1 DEF Seen
  <2>4. QED
    BY <2>1, <2>2, <2>3
<1>3. Wiped(m, h, v) => Wiped(n, k, v)
  BY DEF Wiped
<1>4. QED
  BY <1>2, <1>3

(* What was left out of vectors whose array is gone.                       *)
LEMMA LostView ==
  ASSUME NEW m, NEW h, NEW v, h[v].arr = Freed, Freed \notin DOMAIN m
  PROVE  Seen(m, h, v) = <<>> /\ Wiped(m, h, v)
BY DEF Seen, Wiped

-----------------------------------------------------------------------------
(* vectNewCap: what moves, and what it leaves behind.                      *)

(* v in an array of its own, a; all that is known of the others.           *)
MovedTo(v, a) ==
  /\ wild' = FALSE /\ ret'.vect = v
  /\ a \in Arrays \ DOMAIN mem
  /\ DOMAIN mem' = (DOMAIN mem \ {vecs[v].arr}) \cup {a}
  /\ \A b \in DOMAIN mem \ {vecs[v].arr} : mem'[b] = mem[b]
  /\ DOMAIN vecs' = DOMAIN vecs
  /\ vecs'[v].arr = a /\ vecs'[v].off = 0 /\ ~vecs'[v].isSlice
  /\ \A u \in DOMAIN vecs \ {v} :
       vecs'[u] = IF vecs[v].arr # Null /\ vecs[u].arr = vecs[v].arr
                    THEN [vecs[u] EXCEPT !.arr = Freed] ELSE vecs[u]

LEMMA MovesRefines ==
  ASSUME Sound(mem, vecs), wild = FALSE, Sound(mem', vecs'), NEW v \in Live, NEW a,
         MovedTo(v, a)
  PROVE  /\ VS!Moves /\ VS!SameVectors
         /\ \A u \in DOMAIN vecs \ {v} : u \in Clean => u \in Clean'
<1>1. /\ v \in DOMAIN vecs /\ vecs[v].arr # Freed /\ v \in DOMAIN vecs'
      /\ vecs[v].arr \in DOMAIN mem \cup {Null}
      /\ Null \notin DOMAIN mem /\ Freed \notin DOMAIN mem /\ Null # Freed
      /\ a \notin {Null, Freed}
      /\ Freed \notin DOMAIN mem'
  BY LiveFacts, SeenFacts, VectorAssumption DEF MovedTo
<1>2. ASSUME NEW u \in DOMAIN vecs \ {v}, vecs[v].arr # Null, vecs[u].arr = vecs[v].arr
      PROVE  /\ vecs'[u].arr = Freed /\ vecs'[u].isSlice = vecs[u].isSlice
             /\ View'[u] = <<>> /\ u \in Clean'
  <2>1. vecs[u] \in Headers
    BY DEF Sound, Typed
  <2>2. vecs'[u].arr = Freed /\ vecs'[u].isSlice = vecs[u].isSlice
    BY <1>2, <2>1 DEF MovedTo, Headers
  <2>3. QED
    BY <1>1, <2>2, LostView, TameViewNow DEF MovedTo
<1>3. ASSUME NEW u \in DOMAIN vecs \ {v}, ~(vecs[v].arr # Null /\ vecs[u].arr = vecs[v].arr)
      PROVE  /\ vecs'[u] = vecs[u] /\ vecs[u].arr # a
             /\ View'[u] = View[u] /\ (u \in Clean => u \in Clean')
  <2>1. vecs'[u] = vecs[u] /\ u \in DOMAIN vecs'
    BY <1>3 DEF MovedTo
  <2>2. vecs[u].arr \in DOMAIN mem \cup {Null, Freed} /\ vecs[u].arr # a
    BY <1>1, SeenFacts DEF MovedTo
  <2>3. /\ vecs[u].arr \in DOMAIN mem => mem'[vecs[u].arr] = mem[vecs[u].arr]
        /\ vecs[u].arr \in DOMAIN mem' => vecs[u].arr \in DOMAIN mem
    BY <1>1, <1>3, <2>2 DEF MovedTo
  <2>4. /\ Seen(mem', vecs', u) = Seen(mem, vecs, u)
        /\ Wiped(mem, vecs, u) => Wiped(mem', vecs', u)
    BY <2>1, <2>3, Untouched
  <2>5. QED
    BY <2>1, <2>2, <2>4, TameView, TameViewNow DEF MovedTo
<1>4. VS!V = v /\ VS!Others = DOMAIN vecs \ {v}
  BY TameView DEF VS!V, VS!Others, MovedTo
<1>5. \A u \in DOMAIN vecs \ {v} :
        u \in VS!Kin(v) <=> vecs[v].arr # Null /\ vecs[u].arr = vecs[v].arr
  BY <1>1, TameView DEF VS!Kin
<1>6. {w \in DOMAIN vecs' : vecs'[w].isSlice} = {w \in DOMAIN vecs : vecs[w].isSlice} \ {v}
  BY <1>1, <1>2, <1>3 DEF MovedTo
<1>7. VS!SameVectors
  BY TameView, TameViewNow DEF VS!SameVectors, MovedTo
<1>8. VS!Moves
  <2>1. \A u \in DOMAIN vecs \ {v} :
          /\ vecs'[u].arr = IF u \in VS!Kin(v) THEN Freed ELSE vecs[u].arr
          /\ vecs'[u].arr # vecs'[v].arr
          /\ View'[u] = IF u \in VS!Kin(v) THEN <<>> ELSE View[u]
    BY <1>1, <1>2, <1>3, <1>5 DEF MovedTo
  <2>2. wild' = wild /\ vecs'[v].arr \notin {Null, Freed} /\ DOMAIN vecs' = DOMAIN vecs
    BY <1>1 DEF MovedTo
  <2>3. QED
    BY <1>1, <1>4, <1>6, <2>1, <2>2 DEF VS!Moves
<1>9. QED
  BY <1>2, <1>3, <1>7, <1>8

-----------------------------------------------------------------------------
(* One lemma per call.                                                     *)

LEMMA KeepsCleanBy ==
  ASSUME \A u \in Clean : u \in DOMAIN vecs' =>
           \/ u \in Clean'
           \/ ret'.op \in {"prune", "contents"} /\ u = ret'.vect
           \/ ret'.op \in {"put", "append"} /\ u \in VS!Kin(ret'.vect)
  PROVE  VS!KeepsClean
<1> DEFINE X == CASE ret'.op \in {"prune", "contents"} -> {VS!V}
                  [] ret'.op \in {"put", "append"} -> VS!Kin(VS!V)
                  [] OTHER -> {}
<1>1. /\ ret'.op \in {"prune", "contents"} => X = {ret'.vect}
      /\ ret'.op \in {"put", "append"} => X = VS!Kin(ret'.vect)
  BY DEF VS!V
<1> HIDE DEF X
<1>2. \A u : u \in Clean /\ u \in DOMAIN View' => u \in Clean' \cup X
  BY <1>1, TameViewNow
<1>3. Clean \cap DOMAIN View' \subseteq Clean' \cup X
  BY <1>2
<1>4. QED
  BY <1>3 DEF VS!KeepsClean, X

(* The vectors a call leaves alone.                                        *)
LEMMA Others ==
  ASSUME Sound(mem, vecs), wild = FALSE, wild' = FALSE, NEW u \in DOMAIN vecs,
         u \in DOMAIN vecs', vecs'[u] = vecs[u],
         vecs[u].arr \in DOMAIN mem => mem'[vecs[u].arr] = mem[vecs[u].arr],
         vecs[u].arr \in DOMAIN mem' => vecs[u].arr \in DOMAIN mem
  PROVE  View'[u] = View[u] /\ (u \in Clean => u \in Clean')
<1>1. /\ Seen(mem', vecs', u) = Seen(mem, vecs, u)
      /\ Wiped(mem, vecs, u) => Wiped(mem', vecs', u)
  BY Untouched
<1>2. QED
  BY <1>1, TameView, TameViewNow

LEMMA NewRefines ==
  ASSUME Sound(mem, vecs), wild = FALSE, NEW v \in Vects \ DOMAIN vecs, NEW c \in 0..MaxCap,
         New(v, c)
  PROVE  VS!Next
<1>1. ret'.op = "new" /\ ret'.vect = v /\ wild' = FALSE
  BY DEF New, Returns
<1>2. PICK a : /\ vecs' = With(vecs, v, Empty(a, c))
               /\ a = Null \/ a \in Arrays \ DOMAIN mem
               /\ \A b \in DOMAIN mem : mem'[b] = mem[b]
               /\ DOMAIN mem \subseteq DOMAIN mem' /\ DOMAIN mem' \subseteq DOMAIN mem \cup {a}
  <2>1. CASE c = 0
    BY <2>1 DEF New
  <2>2. CASE c # 0
    <3>1. PICK a \in Unused : /\ mem' = With(mem, a, [k \in 1..c |-> 0])
                              /\ vecs' = With(vecs, v, Empty(a, c))
      BY <2>2 DEF New
    <3>2. /\ \A b \in DOMAIN mem : mem'[b] = mem[b]
          /\ DOMAIN mem' = DOMAIN mem \cup {a}
      BY <3>1 DEF With, Unused
    <3>3. QED
      BY <3>1, <3>2 DEF Unused
  <2>3. QED
    BY <2>1, <2>2
<1>3. /\ DOMAIN vecs' = DOMAIN vecs \cup {v} /\ \A u \in DOMAIN vecs : vecs'[u] = vecs[u]
      /\ vecs'[v].arr = a /\ vecs'[v].len = 0 /\ ~vecs'[v].isSlice
  BY <1>2 DEF With, Empty
<1>4. a # Freed /\ Null # Freed
  BY <1>2, VectorAssumption
<1>5. ASSUME NEW u \in DOMAIN vecs
      PROVE  /\ View'[u] = View[u] /\ (u \in Clean => u \in Clean')
             /\ vecs[u].arr = a => vecs[u].arr = Null
  <2>1. vecs[u].arr \in DOMAIN mem \cup {Null, Freed} /\ Null \notin DOMAIN mem
    BY SeenFacts
  <2>2. vecs[u].arr = a => vecs[u].arr = Null
    BY <1>2, <1>4, <2>1
  <2>3. vecs[u].arr \in DOMAIN mem' => vecs[u].arr \in DOMAIN mem
    <3>1. CASE a = Null
      <4>1. CASE c = 0
        BY <4>1 DEF New
      <4>2. CASE c # 0
        BY <4>2, <1>2, <1>3, <3>1, VectorAssumption DEF New, Unused, With, Empty
      <4>3. QED
        BY <4>1, <4>2
    <3>2. CASE a # Null
      BY <1>2, <2>2, <3>2
    <3>3. QED
      BY <3>1, <3>2
  <2>4. QED
    BY <1>1, <1>2, <1>3, <2>2, <2>3, Others
<1>6. View'[v] = <<>>
  <2>1. Seen(mem', vecs', v) = <<>>
    BY <1>3, <1>4, SMT DEF Seen
  <2>2. QED
    BY <1>1, <1>3, <2>1, TameViewNow
<1>7. {w \in DOMAIN vecs' : vecs'[w].isSlice} = {w \in DOMAIN vecs : vecs[w].isSlice}
  BY <1>3
<1>8. VS!New
  <2>1. VS!V = v /\ v \notin DOMAIN View /\ DOMAIN View' = DOMAIN View \cup {v}
    BY <1>1, <1>3, TameView, TameViewNow DEF VS!V
  <2>2. \A u \in DOMAIN View : /\ View'[u] = View[u] /\ vecs'[u].arr = vecs[u].arr
                               /\ vecs[u].arr = vecs'[v].arr => vecs[u].arr = Null
    BY <1>3, <1>5, TameView
  <2>3. QED
    BY <1>1, <1>3, <1>6, <1>7, <2>1, <2>2, TameView DEF VS!New
<1>9. VS!KeepsClean
  BY <1>5, KeepsCleanBy, TameView
<1>10. QED
  BY <1>8, <1>9 DEF VS!Next

LEMMA FreeRefines ==
  ASSUME Sound(mem, vecs), wild = FALSE, NEW v \in DOMAIN vecs,
         v \in Live \/ vecs[v].isSlice, Free(v)
  PROVE  VS!Next
<1>1. ret'.op = "free" /\ ret'.vect = v /\ wild' = FALSE
  BY DEF Free, Returns
<1> DEFINE gone(u) == /\ ~vecs[v].isSlice /\ u # v
                      /\ vecs[v].arr # Null /\ vecs[u].arr = vecs[v].arr
<1>2. /\ DOMAIN vecs' = DOMAIN vecs \ {v}
      /\ \A u \in DOMAIN vecs' : vecs'[u] = IF gone(u) THEN [vecs[u] EXCEPT !.arr = Freed]
                                            ELSE vecs[u]
  BY DEF Free, Without, Dangling
<1>3. /\ DOMAIN mem' = IF vecs[v].isSlice THEN DOMAIN mem ELSE DOMAIN mem \ {vecs[v].arr}
      /\ \A b \in DOMAIN mem' : mem'[b] = mem[b]
  BY DEF Free, Without
<1>4. /\ Null \notin DOMAIN mem /\ Freed \notin DOMAIN mem /\ Null # Freed
      /\ ~vecs[v].isSlice => vecs[v].arr # Freed
  BY SeenFacts DEF Live
<1>5. ASSUME NEW u \in DOMAIN vecs \ {v}, gone(u)
      PROVE  /\ vecs'[u].arr = Freed /\ vecs'[u].isSlice = vecs[u].isSlice
             /\ View'[u] = <<>> /\ u \in Clean'
  <2>1. vecs[u] \in Headers
    BY DEF Sound, Typed
  <2>2. vecs'[u].arr = Freed /\ vecs'[u].isSlice = vecs[u].isSlice
    BY <1>2, <1>5, <2>1 DEF Headers
  <2>3. QED
    BY <1>1, <1>2, <1>3, <1>4, <2>2, LostView, TameViewNow
<1>6. ASSUME NEW u \in DOMAIN vecs \ {v}, ~gone(u)
      PROVE  vecs'[u] = vecs[u] /\ View'[u] = View[u] /\ (u \in Clean => u \in Clean')
  <2>1. vecs'[u] = vecs[u] /\ u \in DOMAIN vecs'
    BY <1>2, <1>6
  <2>2. /\ vecs[u].arr \in DOMAIN mem => mem'[vecs[u].arr] = mem[vecs[u].arr]
        /\ vecs[u].arr \in DOMAIN mem' => vecs[u].arr \in DOMAIN mem
    BY <1>3, <1>4, <1>6
  <2>3. QED
    BY <1>1, <2>1, <2>2, Others
<1>7. \A u \in DOMAIN vecs \ {v} : gone(u) <=> ~vecs[v].isSlice /\ u \in VS!Kin(v)
  BY <1>4, TameView DEF VS!Kin
<1>8. {w \in DOMAIN vecs' : vecs'[w].isSlice} = {w \in DOMAIN vecs : vecs[w].isSlice} \ {v}
  BY <1>2, <1>5, <1>6
<1>9. VS!Free
  <2>1. VS!V = v /\ VS!Others = DOMAIN vecs \ {v}
    BY <1>1, TameView DEF VS!V, VS!Others
  <2>2. ASSUME NEW u \in DOMAIN vecs \ {v}
        PROVE  LET lost == v \notin {w \in DOMAIN vecs : vecs[w].isSlice} /\ u \in VS!Kin(v)
               IN  /\ vecs'[u].arr = IF lost THEN Freed ELSE vecs[u].arr
                   /\ View'[u] = IF lost THEN <<>> ELSE View[u]
    BY <1>5, <1>6, <1>7
  <2>3. DOMAIN View' = DOMAIN vecs \ {v} /\ wild' = wild
    BY <1>1, <1>2, TameViewNow
  <2>4. QED
    BY <1>1, <1>2, <1>8, <2>1, <2>2, <2>3 DEF VS!Free
<1>10. VS!KeepsClean
  BY <1>2, <1>5, <1>6, KeepsCleanBy, TameView
<1>11. QED
  BY <1>9, <1>10 DEF VS!Next

-----------------------------------------------------------------------------
(* vectNewCap and the calls that use it.                                   *)

(* A vector that is used, before and after.                                *)
LEMMA ViewOfLive ==
  ASSUME Sound(mem, vecs), wild = FALSE, NEW v \in Live
  PROVE  /\ v \in DOMAIN vecs /\ vecs[v].len \in Nat /\ vecs[v].cap \in Nat
         /\ vecs[v].len <= vecs[v].cap
         /\ View[v] \in Seq(Cells) /\ Len(View[v]) = vecs[v].len
         /\ View[v] = Elements(v)
         /\ \A k \in 1..vecs[v].len : View[v][k] = mem[vecs[v].arr][vecs[v].off + k]
<1>1. v \in DOMAIN vecs /\ vecs[v].arr # Freed
  BY DEF Live
<1>2. Held(vecs, v) = vecs[v].len /\ View[v] = Seen(mem, vecs, v)
  BY <1>1, TameView DEF Held
<1>3. View[v] = Elements(v)
  BY <1>1, <1>2 DEF Elements, Seen
<1>4. /\ vecs[v].len \in Nat /\ vecs[v].cap \in Nat /\ vecs[v].len <= vecs[v].cap
      /\ Seen(mem, vecs, v) \in Seq(Cells) /\ Len(Seen(mem, vecs, v)) = Held(vecs, v)
      /\ \A k \in 1..Held(vecs, v) :
           Seen(mem, vecs, v)[k] = mem[vecs[v].arr][vecs[v].off + k]
  BY <1>1, SeenFacts
<1>5. QED
  BY <1>1, <1>2, <1>3, <1>4

LEMMA ViewOfLiveNow ==
  ASSUME Sound(mem', vecs'), wild' = FALSE, NEW v \in DOMAIN vecs', vecs'[v].arr # Freed
  PROVE  /\ vecs'[v].len \in Nat /\ vecs'[v].cap \in Nat /\ vecs'[v].len <= vecs'[v].cap
         /\ View'[v] \in Seq(Cells) /\ Len(View'[v]) = vecs'[v].len
         /\ \A k \in 1..vecs'[v].len : View'[v][k] = mem'[vecs'[v].arr][vecs'[v].off + k]
<1>1. Held(vecs', v) = vecs'[v].len /\ View'[v] = Seen(mem', vecs', v)
  BY TameViewNow DEF Held
<1>2. /\ vecs'[v].len \in Nat /\ vecs'[v].cap \in Nat /\ vecs'[v].len <= vecs'[v].cap
      /\ Seen(mem', vecs', v) \in Seq(Cells) /\ Len(Seen(mem', vecs', v)) = Held(vecs', v)
      /\ \A k \in 1..Held(vecs', v) :
           Seen(mem', vecs', v)[k] = mem'[vecs'[v].arr][vecs'[v].off + k]
  BY SeenFacts
<1>3. QED
  BY <1>1, <1>2

(* A vector that moved starts at the first cell of its array.              *)
LEMMA ViewOfMoved ==
  ASSUME Sound(mem', vecs'), wild' = FALSE, NEW v \in DOMAIN vecs', vecs'[v].arr # Freed,
         vecs'[v].off = 0
  PROVE  \A k \in 1..vecs'[v].len : View'[v][k] = mem'[vecs'[v].arr][k]
<1>1. \A k \in 1..vecs'[v].len : vecs'[v].off + k = k
  OBVIOUS
<1>2. QED
  BY <1>1, ViewOfLiveNow

(* The cells that vectNewCap copies.                                       *)
LEMMA CopiedCells ==
  ASSUME Sound(mem, vecs), wild = FALSE, NEW v \in Live, NEW c \in Nat, NEW k \in 1..c
  PROVE  /\ k <= vecs[v].len => Copied(v, c)[k] = View[v][k]
         /\ v \in Clean /\ k > vecs[v].len => Copied(v, c)[k] = 0
<1>1. /\ v \in DOMAIN vecs /\ vecs[v].len \in Nat /\ vecs[v].cap \in Nat
      /\ vecs[v].len <= vecs[v].cap
      /\ \A j \in 1..vecs[v].len : View[v][j] = mem[vecs[v].arr][vecs[v].off + j]
  BY ViewOfLive
<1>2. Copied(v, c)[k] = IF k <= vecs[v].cap THEN mem[vecs[v].arr][vecs[v].off + k] ELSE 0
  BY <1>1 DEF Copied, Lesser
<1>3. k <= vecs[v].len => Copied(v, c)[k] = View[v][k]
  BY <1>1, <1>2
<1>4. ASSUME v \in Clean, k > vecs[v].len, k <= vecs[v].cap
      PROVE  mem[vecs[v].arr][vecs[v].off + k] = 0
  <2>1. vecs[v].arr \in DOMAIN mem
    BY <1>1, <1>4, LiveFacts
  <2>2. Wiped(mem, vecs, v) /\ k \in (vecs[v].len + 1)..vecs[v].cap
    BY <1>1, <1>4, TameView
  <2>3. QED
    BY <2>1, <2>2 DEF Wiped
<1>5. QED
  BY <1>2, <1>3, <1>4

LEMMA MovedIsMovedTo ==
  ASSUME Sound(mem, vecs), NEW v \in Live, NEW a \in Unused, NEW c \in 0..MaxCap,
         wild' = FALSE, ret'.vect = v,
         DOMAIN mem' = DOMAIN MovedMem(v, a, c),
         \A b \in DOMAIN mem' \ {a} : mem'[b] = MovedMem(v, a, c)[b],
         DOMAIN vecs' = DOMAIN vecs,
         \A u \in DOMAIN vecs \ {v} : vecs'[u] = Moved(v, a, c)[u],
         vecs'[v].arr = a, vecs'[v].off = 0, ~vecs'[v].isSlice
  PROVE  MovedTo(v, a)
<1>1. v \in DOMAIN vecs /\ a \in Arrays \ DOMAIN mem
  BY LiveFacts DEF Unused
<1>2. /\ DOMAIN mem' = (DOMAIN mem \ {vecs[v].arr}) \cup {a}
      /\ \A b \in DOMAIN mem \ {vecs[v].arr} : mem'[b] = mem[b]
  BY <1>1 DEF MovedMem, With, Without
<1>3. \A u \in DOMAIN vecs \ {v} :
        vecs'[u] = IF vecs[v].arr # Null /\ vecs[u].arr = vecs[v].arr
                     THEN [vecs[u] EXCEPT !.arr = Freed] ELSE vecs[u]
  BY <1>1 DEF Moved, Dangling
<1>4. QED
  BY <1>1, <1>2, <1>3 DEF MovedTo

(* A slice that would free its array from the middle: the last call.       *)
LEMMA EscapesRefines ==
  ASSUME wild = FALSE, NEW v \in DOMAIN vecs, FreesInside(v),
         wild' = TRUE, UNCHANGED <<mem, vecs>>, ret'.vect = v
  PROVE  VS!Escapes /\ VS!SameVectors /\ VS!KeepsClean
<1>1. VS!Escapes
  BY DEF VS!Escapes, VS!V, FreesInside
<1>2. VS!SameVectors
  BY TameView, TameViewNow DEF VS!SameVectors
<1>3. VS!KeepsClean
  BY KeepsCleanBy, TameViewNow
<1>4. QED
  BY <1>1, <1>2, <1>3

(* Whether an answer <<b>> says yes.                                       *)
LEMMA Answer ==
  ASSUME NEW b, NEW answer, answer = <<b>>
  PROVE  answer[1] <=> b
<1>1. <<b>>[1] = b
  OBVIOUS
<1>2. answer[1] = b
  BY <1>1, Zenon
<1>3. QED
  BY <1>2, Zenon

(* vectNewCap, whoever calls it: the elements that fit are kept.           *)
LEMMA ResizeRefines ==
  ASSUME Sound(mem, vecs), wild = FALSE, VInv', NEW v \in Live, NEW c \in 0..MaxCap,
         Resize(v, c), ret'.vect = v
  PROVE  /\ VS!SameVectors /\ VS!KeepsClean
         /\ \/ VS!Escapes
            \/ /\ VS!Moves
               /\ View'[v] = SubSeq(View[v], 1, Lesser(vecs[v].len, c))
<1>1. v \in DOMAIN vecs
  BY LiveFacts
<1>2. CASE FreesInside(v)
  <2>1. wild' = TRUE /\ UNCHANGED <<mem, vecs>>
    BY <1>2 DEF Resize
  <2>2. QED
    BY <1>1, <1>2, <2>1, EscapesRefines
<1>3. CASE ~FreesInside(v)
  <2>1. PICK a \in Unused : /\ mem' = MovedMem(v, a, c) /\ vecs' = Moved(v, a, c)
                            /\ wild' = FALSE
    BY <1>3 DEF Resize
  <2>2. /\ Sound(mem', vecs')
        /\ vecs'[v] = Resized(v, a, c) /\ DOMAIN vecs' = DOMAIN vecs
        /\ mem'[a] = Copied(v, c) /\ a \in DOMAIN mem'
    BY <1>1, <2>1 DEF VInv, MovedMem, With, Moved, Dangling
  <2>3. /\ vecs'[v].arr = a /\ vecs'[v].off = 0 /\ ~vecs'[v].isSlice
        /\ vecs'[v].cap = c /\ vecs'[v].len = Lesser(vecs[v].len, c)
    BY <2>2 DEF Resized, Owner, Counted
  <2>4. MovedTo(v, a)
    BY <2>1, <2>2, <2>3, MovedIsMovedTo
  <2>5. VS!Moves /\ VS!SameVectors /\ \A u \in DOMAIN vecs \ {v} : u \in Clean => u \in Clean'
    BY <2>2, <2>4, MovesRefines
  <2>6. /\ vecs[v].len \in Nat /\ c \in Nat /\ View[v] \in Seq(Cells)
        /\ Len(View[v]) = vecs[v].len /\ a # Freed /\ v \in DOMAIN vecs'
    <3>1. a # Freed /\ c \in Nat
      BY VectorAssumption DEF Unused
    <3>2. QED
      BY <1>1, <2>2, <3>1, ViewOfLive
  <2>7. PICK n \in Nat : n = Lesser(vecs[v].len, c) /\ n <= vecs[v].len /\ n <= c
    BY <2>6 DEF Lesser
  <2>8. View'[v] = SubSeq(View[v], 1, n)
    <3>1. /\ View'[v] \in Seq(Cells) /\ Len(View'[v]) = n
          /\ \A k \in 1..n : View'[v][k] = mem'[a][k]
      <4>1. vecs'[v].arr = a /\ vecs'[v].off = 0 /\ vecs'[v].len = n
        BY <2>3, <2>7
      <4>2. \A k \in 1..vecs'[v].len : View'[v][k] = mem'[vecs'[v].arr][k]
        BY <2>1, <2>2, <2>6, <4>1, ViewOfMoved
      <4>3. View'[v] \in Seq(Cells) /\ Len(View'[v]) = vecs'[v].len
        BY <2>1, <2>2, <2>6, <4>1, ViewOfLiveNow
      <4>4. QED
        BY <4>1, <4>2, <4>3
    <3>2. \A k \in 1..n : mem'[a][k] = View[v][k]
      <4>1. SUFFICES ASSUME NEW k \in 1..n PROVE Copied(v, c)[k] = View[v][k]
        BY <2>2
      <4>2. k \in 1..c /\ k <= vecs[v].len
        BY <2>6, <2>7
      <4>3. QED
        BY <2>6, <4>2, CopiedCells
    <3>3. /\ SubSeq(View[v], 1, n) \in Seq(Cells) /\ Len(SubSeq(View[v], 1, n)) = n
          /\ \A k \in 1..n : SubSeq(View[v], 1, n)[k] = View[v][k]
      BY <2>6, <2>7
    <3> DEFINE w == View'[v]
               z == SubSeq(View[v], 1, n)
    <3>4. /\ w \in Seq(Cells) /\ z \in Seq(Cells) /\ Len(w) = Len(z)
          /\ \A k \in 1..Len(w) : w[k] = z[k]
      BY <3>1, <3>2, <3>3
    <3> HIDE DEF w, z
    <3>5. w = z
      BY <3>4, SeqEqual
    <3>6. QED
      BY <3>5 DEF w, z
  <2>9. v \in Clean => v \in Clean'
    <3>1. ASSUME v \in Clean, NEW k \in (n + 1)..c
          PROVE  mem'[a][0 + k] = 0
      <4>1. k \in 1..c /\ k > vecs[v].len /\ 0 + k = k
        BY <2>6, <2>7 DEF Lesser
      <4>2. Copied(v, c)[k] = 0
        BY <2>6, <3>1, <4>1, CopiedCells
      <4>3. QED
        BY <2>2, <4>1, <4>2
    <3>2. v \in Clean => Wiped(mem', vecs', v)
      BY <2>3, <2>7, <3>1 DEF Wiped
    <3>3. QED
      BY <2>1, <2>6, <3>2, TameViewNow
  <2>10. VS!KeepsClean
    BY <2>2, <2>5, <2>9, KeepsCleanBy
  <2>11. QED
    BY <2>5, <2>7, <2>8, <2>10
<1>4. QED
  BY <1>2, <1>3

LEMMA NewCapRefines ==
  ASSUME Sound(mem, vecs), wild = FALSE, VInv', NEW v \in Live, NEW c \in 0..MaxCap,
         NewCap(v, c)
  PROVE  VS!Next
<1>1. Resize(v, c) /\ ret'.op = "newcap" /\ ret'.vect = v /\ ret'.n = c
  BY DEF NewCap, Returns
<1>2. /\ VS!SameVectors /\ VS!KeepsClean
      /\ \/ VS!Escapes
         \/ VS!Moves /\ View'[v] = SubSeq(View[v], 1, Lesser(vecs[v].len, c))
  BY <1>1, ResizeRefines
<1>3. Len(View[v]) = vecs[v].len
  BY ViewOfLive
<1>4. VS!NewCap
  BY <1>1, <1>2, <1>3 DEF VS!NewCap, VS!V, Lesser
<1>5. QED
  BY <1>2, <1>4 DEF VS!Next

LEMMA EnsureCapRefines ==
  ASSUME Sound(mem, vecs), wild = FALSE, VInv', NEW v \in Live, NEW c \in Nat,
         Fits(v, c), EnsureCap(v, c)
  PROVE  VS!Next
<1>1. ret'.op = "ensure" /\ ret'.vect = v /\ ret'.value = <<c > vecs[v].cap>>
  BY DEF EnsureCap, Returns
<1>2. /\ vecs[v].len \in Nat /\ vecs[v].cap \in Nat /\ vecs[v].len <= vecs[v].cap
      /\ View[v] \in Seq(Cells) /\ Len(View[v]) = vecs[v].len
  BY ViewOfLive
<1>3. CASE c <= vecs[v].cap
  <2>1. UNCHANGED <<mem, vecs, wild>> /\ ~(c > vecs[v].cap)
    BY <1>2, <1>3 DEF EnsureCap
  <2>2. UNCHANGED <<View, Clean>>
    BY <2>1 DEF View, Clean, Elements
  <2>3. VS!EnsureCap
    <3>1. VS!SameVectors /\ VS!Stays /\ UNCHANGED View
      BY <2>1, <2>2 DEF VS!SameVectors, VS!Stays
    <3>2. ~ret'.value[1]
      <4> DEFINE grows == c > vecs[v].cap
      <4>1. ret'.value = <<grows>> /\ ~grows
        BY <1>1, <2>1
      <4> HIDE DEF grows
      <4>2. QED
        BY <4>1, Answer, Zenon
    <3>3. QED
      BY <1>1, <3>1, <3>2 DEF VS!EnsureCap
  <2>4. VS!KeepsClean
    BY <2>2, KeepsCleanBy
  <2>5. QED
    BY <2>3, <2>4 DEF VS!Next
<1>4. CASE ~(c <= vecs[v].cap)
  <2>1. c > vecs[v].cap
    BY <1>2, <1>4
  <2> DEFINE grows == c > vecs[v].cap
  <2>7. ret'.value[1]
    <3>1. ret'.value = <<grows>> /\ grows
      BY <1>1, <2>1
    <3> HIDE DEF grows
    <3>2. QED
      BY <3>1, Answer, Zenon
  <2>2. PICK d \in 0..MaxCap : d = Grown(vecs[v].cap, c) /\ d >= c /\ Resize(v, d)
    BY <1>4, <2>1, GrownIsEnough DEF EnsureCap
  <2>3. /\ VS!SameVectors /\ VS!KeepsClean
        /\ \/ VS!Escapes
           \/ VS!Moves /\ View'[v] = SubSeq(View[v], 1, Lesser(vecs[v].len, d))
    BY <1>1, <2>2, ResizeRefines
  <2>4. SubSeq(View[v], 1, Lesser(vecs[v].len, d)) = View[v]
    <3>1. Lesser(vecs[v].len, d) = Len(View[v])
      BY <1>2, <2>1, <2>2 DEF Lesser
    <3>2. QED
      BY <1>2, <3>1
  <2>5. VS!EnsureCap
    BY <1>1, <2>3, <2>4, <2>7 DEF VS!EnsureCap, VS!V
  <2>6. QED
    BY <2>3, <2>5 DEF VS!Next
<1>5. QED
  BY <1>3, <1>4

-----------------------------------------------------------------------------
(* Calls that write in place.                                              *)

LEMMA StoredCells ==
  ASSUME Sound(mem, vecs), NEW v \in Live, NEW f, NEW b \in DOMAIN mem,
         NEW j \in 1..Len(mem[b])
  PROVE  Stored(v, f)[b][j] = IF b = vecs[v].arr /\ j - vecs[v].off \in DOMAIN f
                                THEN f[j - vecs[v].off] ELSE mem[b][j]
<1>1. mem[b] \in Seq(Cells) /\ DOMAIN mem[b] = 1..Len(mem[b]) /\ Null \notin DOMAIN mem
  BY VectorAssumption DEF Sound, Typed
<1>2. CASE b # vecs[v].arr
  BY <1>2 DEF Stored
<1>3. CASE b = vecs[v].arr
  <2>1. vecs[v].arr # Null
    BY <1>1, <1>3
  <2> DEFINE g == [k \in DOMAIN mem[b] |-> IF k - vecs[v].off \in DOMAIN f
                                              THEN f[k - vecs[v].off] ELSE mem[b][k]]
  <2>2. Stored(v, f) = [mem EXCEPT ![b] = g]
    BY <1>3, <2>1 DEF Stored
  <2>3. g[j] = IF j - vecs[v].off \in DOMAIN f THEN f[j - vecs[v].off] ELSE mem[b][j]
    BY <1>1
  <2> HIDE DEF g
  <2>4. Stored(v, f)[b] = g
    BY <2>2
  <2>5. QED
    BY <1>3, <2>3, <2>4
<1>4. QED
  BY <1>2, <1>3

(* x, the only value stored, is what another vector may find among its     *)
(* elements, and only if it shares the array.                              *)
Writes(v, f, x, len) ==
  /\ \A k \in DOMAIN f : f[k] = x
  /\ mem' = Stored(v, f)
  /\ vecs' = [vecs EXCEPT ![v].len = len]
  /\ wild' = FALSE
  /\ ret'.vect = v

LEMMA WriteFrame ==
  ASSUME Sound(mem, vecs), wild = FALSE, Sound(mem', vecs'), NEW v \in Live,
         NEW f, NEW x \in Cells, NEW len, Writes(v, f, x, len)
  PROVE  /\ DOMAIN vecs' = DOMAIN vecs /\ v \in DOMAIN vecs
         /\ \A u \in DOMAIN vecs \ {v} : vecs'[u] = vecs[u]
         /\ vecs'[v].arr = vecs[v].arr /\ vecs'[v].off = vecs[v].off
         /\ vecs'[v].cap = vecs[v].cap /\ vecs'[v].len = len
         /\ vecs'[v].isSlice = vecs[v].isSlice
         /\ DOMAIN mem' = DOMAIN mem
         /\ \A b \in DOMAIN mem : Len(mem'[b]) = Len(mem[b])
<1>1. v \in DOMAIN vecs /\ vecs[v] \in Headers
  BY LiveFacts
<1>2. /\ DOMAIN vecs' = DOMAIN vecs
      /\ \A u \in DOMAIN vecs \ {v} : vecs'[u] = vecs[u]
      /\ vecs'[v] = [vecs[v] EXCEPT !.len = len]
  BY <1>1 DEF Writes
<1>3. /\ vecs'[v].arr = vecs[v].arr /\ vecs'[v].off = vecs[v].off
      /\ vecs'[v].cap = vecs[v].cap /\ vecs'[v].len = len
      /\ vecs'[v].isSlice = vecs[v].isSlice
  BY <1>1, <1>2 DEF Headers
<1>4. /\ DOMAIN mem' = DOMAIN mem
      /\ \A b \in DOMAIN mem : Len(mem'[b]) = Len(mem[b])
  BY StoredIsTyped DEF Writes
<1>5. QED
  BY <1>1, <1>2, <1>3, <1>4

LEMMA WriteRefines ==
  ASSUME Sound(mem, vecs), wild = FALSE, Sound(mem', vecs'), NEW v \in Live,
         NEW f, NEW x \in Cells, NEW len, Writes(v, f, x, len)
  PROVE  /\ VS!Stays /\ VS!SameVectors /\ VS!Spills(x)
         /\ \A u \in DOMAIN vecs \ {v} :
              /\ u \in Clean /\ (x = 0 \/ u \notin VS!Kin(v)) => u \in Clean'
              /\ Len(View'[u]) = Len(View[u])
              /\ \A k \in 1..Len(View[u]) : View'[u][k] # View[u][k] =>
                   (vecs[u].off + k) - vecs[v].off \in DOMAIN f
<1>1. /\ DOMAIN vecs' = DOMAIN vecs /\ v \in DOMAIN vecs
      /\ \A u \in DOMAIN vecs \ {v} : vecs'[u] = vecs[u]
      /\ vecs'[v].arr = vecs[v].arr /\ vecs'[v].isSlice = vecs[v].isSlice
      /\ DOMAIN mem' = DOMAIN mem
  BY WriteFrame
<1>2. VS!Stays
  <2>1. \A u \in DOMAIN vecs : vecs'[u].arr = vecs[u].arr /\ vecs'[u].isSlice = vecs[u].isSlice
    BY <1>1
  <2>2. [u \in DOMAIN vecs' |-> vecs'[u].arr] = [u \in DOMAIN vecs |-> vecs[u].arr]
    BY <1>1, <2>1
  <2>3. {u \in DOMAIN vecs' : vecs'[u].isSlice} = {u \in DOMAIN vecs : vecs[u].isSlice}
    BY <1>1, <2>1
  <2>4. QED
    BY <2>2, <2>3 DEF VS!Stays, Writes
<1>3. VS!SameVectors
  BY <1>1, TameView, TameViewNow DEF VS!SameVectors
<1>4. ASSUME NEW u \in DOMAIN vecs \ {v}
      PROVE  /\ u \in Clean /\ (x = 0 \/ u \notin VS!Kin(v)) => u \in Clean'
             /\ Len(View'[u]) = Len(View[u])
             /\ \A k \in 1..Len(View[u]) : View'[u][k] # View[u][k] =>
                  /\ (vecs[u].off + k) - vecs[v].off \in DOMAIN f
                  /\ u \in VS!Kin(v) /\ View'[u][k] = x
  <2>1. u \in DOMAIN vecs' /\ vecs'[u] = vecs[u]
    BY <1>1
  <2>2. /\ View[u] = Seen(mem, vecs, u) /\ View'[u] = Seen(mem', vecs', u)
        /\ u \in Clean <=> Wiped(mem, vecs, u)
        /\ u \in Clean' <=> Wiped(mem', vecs', u)
    BY <2>1, TameView, TameViewNow DEF Writes
  <2>3. Held(vecs', u) = Held(vecs, u)
    BY <2>1 DEF Held
  <2>4. /\ Len(View[u]) = Held(vecs, u) /\ Len(View'[u]) = Held(vecs, u)
        /\ \A k \in 1..Held(vecs, u) : /\ View[u][k] = mem[vecs[u].arr][vecs[u].off + k]
                                       /\ vecs[u].arr \in DOMAIN mem
        /\ Held(vecs, u) \in Nat /\ Held(vecs, u) <= vecs[u].cap
        /\ vecs[u].len \in Nat /\ vecs[u].cap \in Nat
    <3>1. /\ Len(Seen(mem, vecs, u)) = Held(vecs, u)
          /\ \A k \in 1..Held(vecs, u) :
               /\ Seen(mem, vecs, u)[k] = mem[vecs[u].arr][vecs[u].off + k]
               /\ vecs[u].arr \in DOMAIN mem
          /\ Held(vecs, u) \in Nat
          /\ vecs[u].len \in Nat /\ vecs[u].cap \in Nat /\ vecs[u].len <= vecs[u].cap
      BY SeenFacts
    <3>2. Len(Seen(mem', vecs', u)) = Held(vecs', u)
      BY <2>1, SeenFacts
    <3>3. Held(vecs, u) <= vecs[u].cap
      BY <3>1 DEF Held
    <3>4. QED
      BY <2>2, <2>3, <3>1, <3>2, <3>3
  <2>5. \A k \in 1..Held(vecs, u) : View'[u][k] = mem'[vecs[u].arr][vecs[u].off + k]
    <3>1. \A k \in 1..Held(vecs', u) :
            Seen(mem', vecs', u)[k] = mem'[vecs'[u].arr][vecs'[u].off + k]
      BY <2>1, SeenFacts
    <3>2. QED
      BY <2>1, <2>2, <2>3, <3>1
  <2>6. ASSUME vecs[u].arr \in DOMAIN mem, NEW k \in 1..vecs[u].cap
        PROVE  \/ mem'[vecs[u].arr][vecs[u].off + k] = mem[vecs[u].arr][vecs[u].off + k]
               \/ /\ mem'[vecs[u].arr][vecs[u].off + k] = x
                  /\ (vecs[u].off + k) - vecs[v].off \in DOMAIN f
                  /\ u \in VS!Kin(v)
    <3>1. vecs[u].off + k \in 1..Len(mem[vecs[u].arr])
      BY <2>6, SeenFacts
    <3>2. mem'[vecs[u].arr][vecs[u].off + k] =
            IF vecs[u].arr = vecs[v].arr /\ (vecs[u].off + k) - vecs[v].off \in DOMAIN f
              THEN f[(vecs[u].off + k) - vecs[v].off]
              ELSE mem[vecs[u].arr][vecs[u].off + k]
      <4>1. PICK b \in DOMAIN mem : b = vecs[u].arr
        BY <2>6
      <4>2. PICK j \in 1..Len(mem[b]) : j = vecs[u].off + k
        BY <3>1, <4>1
      <4>3. mem'[b][j] = IF b = vecs[v].arr /\ j - vecs[v].off \in DOMAIN f
                           THEN f[j - vecs[v].off] ELSE mem[b][j]
        BY StoredCells DEF Writes
      <4> DEFINE o == vecs[u].off + k
      <4>4. j = o /\ b = vecs[u].arr
        BY <4>1, <4>2
      <4> HIDE DEF o
      <4>5. mem'[vecs[u].arr][o] =
              IF vecs[u].arr = vecs[v].arr /\ o - vecs[v].off \in DOMAIN f
                THEN f[o - vecs[v].off] ELSE mem[vecs[u].arr][o]
        BY <4>3, <4>4
      <4>6. QED
        BY <4>5 DEF o
    <3>3. vecs[u].arr = vecs[v].arr => u \in VS!Kin(v)
      BY <1>1, <2>6, SeenFacts, TameView DEF VS!Kin
    <3>4. QED
      BY <3>2, <3>3 DEF Writes
  <2>7. ASSUME u \in Clean, x = 0 \/ u \notin VS!Kin(v)
        PROVE  u \in Clean'
    <3>1. SUFFICES ASSUME vecs[u].arr \in DOMAIN mem, NEW k \in (vecs[u].len + 1)..vecs[u].cap
                   PROVE  mem'[vecs[u].arr][vecs[u].off + k] = 0
      BY <1>1, <2>1, <2>2 DEF Wiped
    <3>2. mem[vecs[u].arr][vecs[u].off + k] = 0 /\ k \in 1..vecs[u].cap
      BY <2>2, <2>4, <2>7, <3>1 DEF Wiped
    <3>3. QED
      BY <2>6, <2>7, <3>1, <3>2
  <2>8. ASSUME NEW k \in 1..Len(View[u]), View'[u][k] # View[u][k]
        PROVE  /\ (vecs[u].off + k) - vecs[v].off \in DOMAIN f
               /\ u \in VS!Kin(v) /\ View'[u][k] = x
    <3>1. k \in 1..Held(vecs, u) /\ k \in 1..vecs[u].cap
      BY <2>4
    <3>2. QED
      BY <2>4, <2>5, <2>6, <2>8, <3>1
  <2>9. QED
    BY <2>4, <2>7, <2>8
<1>5. VS!Spills(x)
  <2>1. VS!Others = DOMAIN vecs \ {v} /\ VS!V = v
    BY TameView DEF VS!Others, VS!V, Writes
  <2>2. QED
    BY <1>4, <2>1 DEF VS!Spills
<1>6. QED
  BY <1>2, <1>3, <1>4, <1>5

(* vectPutint within the capacity.                                         *)
LEMMA PutInPlaceRefines ==
  ASSUME Sound(mem, vecs), wild = FALSE, VInv', NEW v \in Live, NEW i \in Nat,
         NEW x \in Values, NEW op \in {"put", "append"}, Put(op, v, i, x),
         op = "append" => i = vecs[v].len, i < vecs[v].cap
  PROVE  VS!Next
<1>1. /\ v \in DOMAIN vecs /\ vecs[v].len \in Nat /\ vecs[v].cap \in Nat
      /\ vecs[v].len <= vecs[v].cap
      /\ View[v] \in Seq(Cells) /\ Len(View[v]) = vecs[v].len
      /\ \A k \in 1..vecs[v].len : View[v][k] = mem[vecs[v].arr][vecs[v].off + k]
  BY ViewOfLive
<1>2. /\ ret'.op = op /\ ret'.vect = v /\ ret'.at = i /\ ret'.arg = x
      /\ ret'.value = <<i >= vecs[v].cap>>
  BY DEF Put, Returns
<1>3. ~ret'.value[1]
  <2> DEFINE moves == i >= vecs[v].cap
  <2>1. ret'.value = <<moves>> /\ ~moves
    BY <1>1, <1>2
  <2> HIDE DEF moves
  <2>2. QED
    BY <2>1, Answer
<1> DEFINE f == [k \in {i + 1} |-> x]
           len == LenPut(vecs[v].len, i)
<1>4. Writes(v, f, x, len)
  BY <1>1, <1>2 DEF Writes, Put
<1>5. DOMAIN f = {i + 1} /\ x \in Cells /\ len \in Nat /\ f[i + 1] = x
      /\ len = (IF vecs[v].len <= i THEN i + 1 ELSE vecs[v].len) /\ i + 1 \in 1..len
  BY <1>1 DEF Cells, LenPut
<1> HIDE DEF f, len
<1>6. Sound(mem', vecs') /\ wild' = FALSE
  BY <1>4 DEF Writes, VInv
<1>7. /\ VS!Stays /\ VS!SameVectors /\ VS!Spills(x)
      /\ \A u \in DOMAIN vecs \ {v} :
           /\ u \in Clean /\ u \notin VS!Kin(v) => u \in Clean'
           /\ \A k \in 1..Len(View[u]) : View'[u][k] # View[u][k] =>
                (vecs[u].off + k) - vecs[v].off \in {i + 1}
  BY <1>4, <1>5, <1>6, WriteRefines
<1>8. /\ DOMAIN vecs' = DOMAIN vecs
      /\ vecs'[v].arr = vecs[v].arr /\ vecs'[v].off = vecs[v].off
      /\ vecs'[v].cap = vecs[v].cap /\ vecs'[v].len = len
      /\ DOMAIN mem' = DOMAIN mem
  <2>1. vecs' = [vecs EXCEPT ![v].len = len] /\ mem' = Stored(v, f)
    BY <1>4 DEF Writes
  <2>2. v \in DOMAIN vecs /\ vecs[v] \in Headers
    BY LiveFacts
  <2>3. DOMAIN Stored(v, f) = DOMAIN mem
    BY <1>5, StoredIsTyped
  <2>4. /\ DOMAIN vecs' = DOMAIN vecs
        /\ vecs'[v].arr = vecs[v].arr /\ vecs'[v].off = vecs[v].off
        /\ vecs'[v].cap = vecs[v].cap /\ vecs'[v].len = len
    BY <2>1, <2>2 DEF Headers
  <2>5. QED
    BY <2>1, <2>3, <2>4
<1>9. vecs[v].arr \in DOMAIN mem /\ vecs[v].arr # Freed /\ vecs[v].off \in Nat
  BY <1>1, LiveFacts, HeaderFields
<1>10. ASSUME NEW k \in 1..vecs[v].cap
       PROVE  mem'[vecs[v].arr][vecs[v].off + k] =
                IF k = i + 1 THEN x ELSE mem[vecs[v].arr][vecs[v].off + k]
  <2>1. vecs[v].off + k \in 1..Len(mem[vecs[v].arr])
    BY <1>1, <1>9, SeenFacts
  <2>2. PICK b \in DOMAIN mem : b = vecs[v].arr
    BY <1>9
  <2>3. PICK j \in 1..Len(mem[b]) : j = vecs[v].off + k
    BY <2>1, <2>2
  <2>4. mem'[b][j] = IF b = vecs[v].arr /\ j - vecs[v].off \in DOMAIN f
                       THEN f[j - vecs[v].off] ELSE mem[b][j]
    BY <1>4, StoredCells DEF Writes
  <2>5. j - vecs[v].off = k
    BY <1>9, <2>3
  <2>6. QED
    BY <1>5, <2>2, <2>3, <2>4, <2>5
<1>11. /\ Len(View'[v]) = len
       /\ \A k \in 1..len : View'[v][k] = mem'[vecs[v].arr][vecs[v].off + k]
       /\ len <= vecs[v].cap
  BY <1>1, <1>6, <1>8, <1>9, ViewOfLiveNow
<1>12. \A k \in 1..len : k \in 1..vecs[v].cap
  BY <1>1, <1>5, <1>11
<1>13. VS!Written(i, x)
  <2>1. View'[v][i + 1] = x
    BY <1>5, <1>10, <1>11, <1>12
  <2>2. \A k \in 1..Len(View[v]) : k # i + 1 => View'[v][k] = View[v][k]
    <3>1. SUFFICES ASSUME NEW k \in 1..vecs[v].len, k # i + 1
                   PROVE  View'[v][k] = View[v][k]
      BY <1>1
    <3>2. k \in 1..len
      BY <1>1, <1>5
    <3>3. QED
      BY <1>1, <1>10, <1>11, <1>12, <3>1, <3>2
  <2>3. v \in Clean => \A k \in (Len(View[v]) + 1)..i : View'[v][k] = 0
    <3>1. SUFFICES ASSUME v \in Clean, NEW k \in (vecs[v].len + 1)..i
                   PROVE  View'[v][k] = 0
      BY <1>1
    <3>2. k \in 1..len /\ k # i + 1 /\ k \in (vecs[v].len + 1)..vecs[v].cap
      BY <1>1, <1>5
    <3>3. mem[vecs[v].arr][vecs[v].off + k] = 0
      BY <1>1, <1>9, <3>1, <3>2, TameView DEF Wiped
    <3>4. QED
      BY <1>10, <1>11, <1>12, <3>2, <3>3
  <2>4. QED
    BY <1>1, <1>2, <1>5, <1>11, <2>1, <2>2, <2>3 DEF VS!Written, VS!V
<1>14. \A u \in VS!Others : \A k, l \in 1..Len(View[u]) :
         View'[u][k] # View[u][k] /\ View'[u][l] # View[u][l] => k = l
  <2>1. SUFFICES ASSUME NEW u \in DOMAIN vecs \ {v}, NEW k \in 1..Len(View[u]),
                        NEW l \in 1..Len(View[u]),
                        View'[u][k] # View[u][k], View'[u][l] # View[u][l]
                 PROVE  k = l
    BY <1>2, TameView DEF VS!Others, VS!V
  <2>2. /\ (vecs[u].off + k) - vecs[v].off = i + 1
        /\ (vecs[u].off + l) - vecs[v].off = i + 1
    BY <1>7, <2>1
  <2>3. vecs[u].off \in Nat /\ Len(View[u]) \in Nat
    BY SeenFacts, TameView
  <2>4. PICK a \in Nat, b \in Nat : a = vecs[u].off /\ b = vecs[v].off
    BY <1>9, <2>3
  <2>5. k \in Int /\ l \in Int /\ (a + k) - b = i + 1 /\ (a + l) - b = i + 1
    BY <2>2, <2>3, <2>4
  <2>6. QED
    BY <2>5
<1>15. VS!Put
  <2>1. ret'.op = "append" => ret'.at = Len(View[ret'.vect])
    BY <1>1, <1>2
  <2>2. VS!Written(ret'.at, ret'.arg) /\ VS!Spills(ret'.arg)
    BY <1>2, <1>7, <1>13
  <2>3. QED
    BY <1>2, <1>3, <1>7, <1>14, <2>1, <2>2 DEF VS!Put, VS!V
<1>16. v \in Clean => v \in Clean'
  <2>1. SUFFICES ASSUME v \in Clean, NEW k \in (len + 1)..vecs[v].cap
                 PROVE  mem'[vecs[v].arr][vecs[v].off + k] = 0
    BY <1>1, <1>6, <1>8, TameViewNow DEF Wiped
  <2>2. k \in 1..vecs[v].cap /\ k # i + 1 /\ k \in (vecs[v].len + 1)..vecs[v].cap
    BY <1>1, <1>5
  <2>3. mem[vecs[v].arr][vecs[v].off + k] = 0
    BY <1>1, <1>9, <2>1, <2>2, TameView DEF Wiped
  <2>4. QED
    BY <1>10, <2>2, <2>3
<1>17. VS!KeepsClean
  BY <1>2, <1>7, <1>16, KeepsCleanBy, TameView
<1>18. QED
  BY <1>15, <1>17 DEF VS!Next

(* vectPutint past the capacity: the vector moves first.                   *)
LEMMA PutAndMoveRefines ==
  ASSUME Sound(mem, vecs), wild = FALSE, VInv', NEW v \in Live, NEW i \in Nat,
         NEW x \in Values, NEW op \in {"put", "append"}, Put(op, v, i, x),
         op = "append" => i = vecs[v].len, Fits(v, i + 1), ~(i < vecs[v].cap)
  PROVE  VS!Next
<1>1. /\ v \in DOMAIN vecs /\ vecs[v].len \in Nat /\ vecs[v].cap \in Nat
      /\ vecs[v].len <= vecs[v].cap
      /\ View[v] \in Seq(Cells) /\ Len(View[v]) = vecs[v].len
  BY ViewOfLive
<1>2. /\ ret'.op = op /\ ret'.vect = v /\ ret'.at = i /\ ret'.arg = x
      /\ ret'.value = <<i >= vecs[v].cap>>
  BY DEF Put, Returns
<1>3. ret'.value[1]
  <2> DEFINE moves == i >= vecs[v].cap
  <2>1. ret'.value = <<moves>> /\ moves
    BY <1>1, <1>2
  <2> HIDE DEF moves
  <2>2. QED
    BY <2>1, Answer
<1>4. ret'.op = "append" => ret'.at = Len(View[ret'.vect])
  BY <1>1, <1>2
<1>5. CASE FreesInside(v)
  <2>1. wild' = TRUE /\ UNCHANGED <<mem, vecs>>
    BY <1>5 DEF Put
  <2>2. VS!Escapes /\ VS!SameVectors /\ VS!KeepsClean
    BY <1>1, <1>2, <1>5, <2>1, EscapesRefines
  <2>3. VS!Put
    BY <1>2, <1>3, <1>4, <2>2 DEF VS!Put, VS!V
  <2>4. QED
    BY <2>2, <2>3 DEF VS!Next
<1>6. CASE ~FreesInside(v)
  <2>1. PICK c \in 0..MaxCap : c = Grown(vecs[v].cap, i + 1) /\ c >= i + 1
    BY <1>1, GrownIsEnough
  <2>2. PICK a \in Unused : /\ mem' = [MovedMem(v, a, c) EXCEPT ![a][i + 1] = x]
                            /\ vecs' = [Moved(v, a, c) EXCEPT ![v].len = LenPut(@, i)]
                            /\ wild' = FALSE
    BY <1>6, <2>1 DEF Put
  <2>3. c \in Nat /\ i + 1 \in 1..c
    BY <2>1
  <2> DEFINE s == [Copied(v, c) EXCEPT ![i + 1] = x]
             r == [Resized(v, a, c) EXCEPT !.len = LenPut(@, i)]
  <2>4. /\ MovedMem(v, a, c)[a] = Copied(v, c) /\ a \in DOMAIN MovedMem(v, a, c)
        /\ Moved(v, a, c)[v] = Resized(v, a, c) /\ v \in DOMAIN Moved(v, a, c)
        /\ DOMAIN Moved(v, a, c) = DOMAIN vecs
    BY <1>1 DEF MovedMem, With, Moved, Dangling
  <2>5. /\ DOMAIN mem' = DOMAIN MovedMem(v, a, c) /\ mem'[a] = s
        /\ \A b \in DOMAIN mem' \ {a} : mem'[b] = MovedMem(v, a, c)[b]
        /\ DOMAIN vecs' = DOMAIN vecs /\ vecs'[v] = r
        /\ \A u \in DOMAIN vecs \ {v} : vecs'[u] = Moved(v, a, c)[u]
    <3> DEFINE m == MovedMem(v, a, c)
               h == Moved(v, a, c)
    <3>1. mem' = [m EXCEPT ![a][i + 1] = x] /\ vecs' = [h EXCEPT ![v].len = LenPut(@, i)]
      BY <2>2
    <3>2. m[a] = Copied(v, c) /\ a \in DOMAIN m /\ h[v] = Resized(v, a, c)
          /\ v \in DOMAIN h /\ DOMAIN h = DOMAIN vecs
      BY <2>4
    <3> HIDE DEF m, h
    <3>3. /\ DOMAIN mem' = DOMAIN m /\ mem'[a] = s /\ \A b \in DOMAIN mem' \ {a} : mem'[b] = m[b]
          /\ DOMAIN vecs' = DOMAIN vecs /\ vecs'[v] = r
          /\ \A u \in DOMAIN vecs \ {v} : vecs'[u] = h[u]
      BY <3>1, <3>2
    <3>4. QED
      BY <3>3 DEF m, h
  <2>6. \A k \in 1..c : s[k] = IF k = i + 1 THEN x ELSE Copied(v, c)[k]
    BY <2>3 DEF Copied
  <2> DEFINE len == IF vecs[v].len <= i THEN i + 1 ELSE vecs[v].len
  <2>7. /\ r.arr = a /\ r.off = 0 /\ ~r.isSlice /\ r.cap = c /\ r.len = len
    <3>1. Lesser(vecs[v].len, c) = vecs[v].len
      BY <1>1, <2>1, <2>3 DEF Lesser
    <3>2. QED
      BY <3>1 DEF Resized, Owner, Counted, LenPut
  <2> HIDE DEF r, s
  <2>8. Sound(mem', vecs') /\ v \in DOMAIN vecs' /\ a # Freed
    BY <1>1, <2>2, <2>5, VectorAssumption DEF VInv, Unused
  <2>9. MovedTo(v, a)
    BY <1>2, <2>2, <2>5, <2>7, MovedIsMovedTo
  <2>10. VS!Moves /\ VS!SameVectors /\ \A u \in DOMAIN vecs \ {v} : u \in Clean => u \in Clean'
    BY <2>8, <2>9, MovesRefines
  <2>11. Len(View'[v]) = len /\ \A k \in 1..len : View'[v][k] = s[k]
    <3>1. vecs'[v].arr = a /\ vecs'[v].off = 0 /\ vecs'[v].len = len
      BY <2>5, <2>7
    <3>2. \A k \in 1..vecs'[v].len : View'[v][k] = mem'[vecs'[v].arr][k]
      BY <2>2, <2>8, <3>1, ViewOfMoved
    <3>3. Len(View'[v]) = vecs'[v].len
      BY <2>2, <2>8, <3>1, ViewOfLiveNow
    <3>4. QED
      BY <2>5, <3>1, <3>2, <3>3
  <2>12. len \in Nat /\ len <= c /\ i + 1 \in 1..len /\ vecs[v].len <= len
         /\ (vecs[v].len <= i => len = i + 1)
    BY <1>1, <2>3
  <2>13. VS!Written(i, x)
    <3>1. View'[v][i + 1] = x
      BY <2>3, <2>6, <2>11, <2>12
    <3>2. ASSUME NEW k \in 1..vecs[v].len, k # i + 1
          PROVE  View'[v][k] = View[v][k]
      <4>1. k \in 1..len /\ k \in 1..c /\ k <= vecs[v].len
        BY <1>1, <2>3, <2>12
      <4>2. Copied(v, c)[k] = View[v][k]
        BY <2>3, <4>1, CopiedCells
      <4>3. QED
        BY <2>6, <2>11, <3>2, <4>1, <4>2
    <3>3. ASSUME v \in Clean, NEW k \in (vecs[v].len + 1)..i
          PROVE  View'[v][k] = 0
      <4>1. k \in 1..len /\ k \in 1..c /\ k > vecs[v].len /\ k # i + 1
        BY <1>1, <2>3, <2>12
      <4>2. Copied(v, c)[k] = 0
        BY <2>3, <3>3, <4>1, CopiedCells
      <4>3. QED
        BY <2>6, <2>11, <4>1, <4>2
    <3>4. Len(View'[v]) = IF Len(View[v]) <= i THEN i + 1 ELSE Len(View[v])
      BY <1>1, <2>11
    <3>5. QED
      BY <1>1, <1>2, <3>1, <3>2, <3>3, <3>4 DEF VS!Written, VS!V
  <2>14. v \in Clean => v \in Clean'
    <3>1. ASSUME v \in Clean, NEW k \in (len + 1)..c
          PROVE  mem'[a][0 + k] = 0
      <4>1. k \in 1..c /\ k > vecs[v].len /\ 0 + k = k /\ k # i + 1
        BY <1>1, <2>12
      <4>2. Copied(v, c)[k] = 0
        BY <2>3, <3>1, <4>1, CopiedCells
      <4>3. QED
        BY <2>5, <2>6, <4>1, <4>2
    <3>2. vecs'[v].len = len /\ vecs'[v].cap = c /\ vecs'[v].off = 0 /\ vecs'[v].arr = a
      BY <2>5, <2>7
    <3> HIDE DEF len
    <3>3. v \in Clean => Wiped(mem', vecs', v)
      BY <3>1, <3>2 DEF Wiped
    <3>4. QED
      BY <2>2, <2>8, <3>3, TameViewNow
  <2>15. VS!KeepsClean
    BY <2>5, <2>10, <2>14, KeepsCleanBy
  <2>16. VS!Put
    BY <1>2, <1>3, <1>4, <2>10, <2>13 DEF VS!Put, VS!V
  <2>17. QED
    BY <2>15, <2>16 DEF VS!Next
<1>7. QED
  BY <1>5, <1>6

(* vectPrune, and vectFreeContents of what is not a slice.                 *)
LEMMA EmptyingRefines ==
  ASSUME Sound(mem, vecs), wild = FALSE, VInv', NEW v \in Live,
         mem' = Stored(v, Cleared(v)), vecs' = [vecs EXCEPT ![v].len = 0],
         wild' = FALSE, ret'.vect = v, ret'.op \in {"prune", "contents"}
  PROVE  VS!Stays /\ VS!SameVectors /\ VS!Empties /\ VS!KeepsClean
<1> DEFINE f == Cleared(v)
           z == 0
<1>1. Writes(v, f, z, z)
  BY DEF Writes, Cleared
<1>2. z \in Cells /\ z = 0
  BY DEF Cells
<1>3. Sound(mem', vecs')
  BY DEF VInv
<1> HIDE DEF f, z
<1>4. /\ VS!Stays /\ VS!SameVectors /\ VS!Spills(z)
      /\ \A u \in DOMAIN vecs \ {v} : u \in Clean => u \in Clean'
  BY <1>1, <1>2, <1>3, WriteRefines
<1>5. v \in DOMAIN vecs' /\ vecs'[v].arr = vecs[v].arr /\ vecs'[v].len = 0
  <2>1. v \in DOMAIN vecs /\ vecs[v] \in Headers
    BY LiveFacts
  <2>2. vecs' = [vecs EXCEPT ![v].len = 0]
    OBVIOUS
  <2>3. QED
    BY <2>1, <2>2 DEF Headers
<1>6. View'[v] = <<>>
  <2>1. vecs'[v].arr # Freed
    BY <1>5 DEF Live
  <2>2. View'[v] \in Seq(Cells) /\ Len(View'[v]) = 0
    BY <1>3, <1>5, <2>1, ViewOfLiveNow
  <2>3. QED
    BY <2>2, EmptySeq
<1>7. VS!Empties
  BY <1>2, <1>4, <1>6 DEF VS!Empties, VS!V
<1>8. VS!KeepsClean
  BY <1>4, KeepsCleanBy, TameView
<1>9. QED
  BY <1>4, <1>7, <1>8

LEMMA PruneRefines ==
  ASSUME Sound(mem, vecs), wild = FALSE, VInv', NEW v \in Live, Prune(v)
  PROVE  VS!Next
<1>1. ret'.op = "prune" /\ ret'.vect = v /\ wild' = FALSE
  BY DEF Prune, Returns
<1>2. VS!Stays /\ VS!SameVectors /\ VS!Empties /\ VS!KeepsClean
  BY <1>1, EmptyingRefines DEF Prune
<1>3. QED
  BY <1>1, <1>2 DEF VS!Next, VS!Prune

LEMMA FreeContentsRefines ==
  ASSUME Sound(mem, vecs), wild = FALSE, VInv', NEW v \in Live, FreeContents(v)
  PROVE  VS!Next
<1>1. /\ ret'.op = "contents" /\ ret'.vect = v /\ wild' = FALSE
      /\ ret'.value = IF vecs[v].isSlice THEN <<>> ELSE Elements(v)
  BY DEF FreeContents, Returns
<1>2. v \in DOMAIN vecs /\ View[v] = Elements(v)
  BY ViewOfLive
<1>3. CASE vecs[v].isSlice
  <2>1. UNCHANGED <<mem, vecs, wild>>
    BY <1>1, <1>3 DEF FreeContents
  <2>2. UNCHANGED <<View, Clean>>
    BY <2>1 DEF View, Clean, Elements
  <2>3. VS!SameVectors /\ VS!Stays
    BY <2>1, <2>2 DEF VS!SameVectors, VS!Stays
  <2>4. VS!Contents
    BY <1>1, <1>2, <1>3, <2>2, <2>3 DEF VS!Contents, VS!V
  <2>5. VS!KeepsClean
    BY <2>2, KeepsCleanBy
  <2>6. QED
    BY <2>4, <2>5 DEF VS!Next
<1>4. CASE ~vecs[v].isSlice
  <2>1. VS!Stays /\ VS!SameVectors /\ VS!Empties /\ VS!KeepsClean
    BY <1>1, <1>4, EmptyingRefines DEF FreeContents
  <2>2. VS!Contents
    BY <1>1, <1>2, <1>4, <2>1 DEF VS!Contents, VS!V
  <2>3. QED
    BY <2>1, <2>2 DEF VS!Next
<1>5. QED
  BY <1>3, <1>4

-----------------------------------------------------------------------------
(* Calls that write nothing.                                               *)

LEMMA GetRefines ==
  ASSUME Sound(mem, vecs), wild = FALSE, NEW v \in Live, NEW i \in Nat, Get(v, i)
  PROVE  VS!Next
<1>1. /\ ret'.op = "get" /\ ret'.vect = v /\ ret'.at = i
      /\ ret'.value = IF vecs[v].len <= i THEN <<>>
                      ELSE <<mem[vecs[v].arr][vecs[v].off + i + 1]>>
      /\ UNCHANGED <<mem, vecs, wild>>
  BY DEF Get, Returns
<1>2. UNCHANGED <<View, Clean>>
  BY <1>1 DEF View, Clean, Elements
<1>3. VS!Stays /\ VS!KeepsClean
  BY <1>1, <1>2, KeepsCleanBy DEF VS!Stays
<1>4. /\ vecs[v].len \in Nat /\ Len(View[v]) = vecs[v].len
      /\ \A k \in 1..vecs[v].len : View[v][k] = mem[vecs[v].arr][vecs[v].off + k]
      /\ vecs[v].off \in Nat
  BY ViewOfLive, LiveFacts, HeaderFields
<1>5. ret'.value = IF i < Len(View[v]) THEN <<View[v][i + 1]>> ELSE <<>>
  <2>1. CASE i < vecs[v].len
    <3>1. PICK o \in Nat, l \in Nat : o = vecs[v].off /\ l = vecs[v].len
      BY <1>4
    <3>2. i < l
      BY <2>1, <3>1
    <3>3. i + 1 \in 1..l /\ ~(l <= i)
      BY <3>2
    <3>4. (o + i) + 1 = o + (i + 1)
      OBVIOUS
    <3>5. /\ i + 1 \in 1..vecs[v].len /\ ~(vecs[v].len <= i)
          /\ (vecs[v].off + i) + 1 = vecs[v].off + (i + 1)
      BY <3>1, <3>3, <3>4
    <3>6. View[v][i + 1] = mem[vecs[v].arr][vecs[v].off + (i + 1)]
      BY <1>4, <3>5
    <3>7. ret'.value = <<mem[vecs[v].arr][(vecs[v].off + i) + 1]>>
      BY <1>1, <3>5
    <3>8. QED
      BY <1>4, <2>1, <3>5, <3>6, <3>7
  <2>2. CASE ~(i < vecs[v].len)
    BY <1>1, <1>4, <2>2
  <2>3. QED
    BY <2>1, <2>2
<1>6. VS!Get
  BY <1>1, <1>2, <1>3, <1>5 DEF VS!Get, VS!V
<1>7. QED
  BY <1>3, <1>6 DEF VS!Next

LEMMA ShowRefines ==
  ASSUME Sound(mem, vecs), wild = FALSE, NEW v \in Live, Show(v)
  PROVE  VS!Next
<1>1. /\ ret'.op = "print" /\ ret'.vect = v /\ mem' = mem /\ vecs' = vecs
      /\ wild' = (Ends(vecs[v].len) = {})
  BY DEF Show, Returns
<1>2. /\ vecs[v].len \in Nat /\ Len(View[v]) = vecs[v].len /\ View[v] = Elements(v)
      /\ v \in DOMAIN vecs
  BY ViewOfLive
<1>3. CounterSize \in Nat \ {0}
  BY VectorAssumption
<1>4. wild' <=> Len(View[v]) > CounterSize - 1
  <2>1. Ends(vecs[v].len) = {} <=> vecs[v].len > CounterSize - 1
    BY <1>2, <1>3 DEF Ends, Stops
  <2>2. QED
    BY <1>1, <1>2, <2>1
<1>5. ASSUME ~wild'
      PROVE  ret'.value = View[v] /\ UNCHANGED <<View, Clean>>
  <2> DEFINE E == Ends(vecs[v].len)
             end == CHOOSE i \in E : \A j \in E : i <= j
  <2>1. vecs[v].len \in E /\ \A j \in E : j \in Int /\ vecs[v].len <= j
    BY <1>2, <1>3, <1>4, <1>5 DEF Ends, Stops
  <2>2. end = vecs[v].len
    <3> HIDE DEF E
    <3>1. \E i \in E : \A j \in E : i <= j
      BY <2>1
    <3>2. end \in E /\ \A j \in E : end <= j
      BY <3>1
    <3> HIDE DEF end
    <3>3. QED
      BY <2>1, <3>2
  <2>3. ret'.value = [k \in 1..end |-> mem[vecs[v].arr][vecs[v].off + k]]
    BY <1>5 DEF Show, Returns
  <2> HIDE DEF end
  <2>4. ret'.value = View[v]
    BY <1>2, <2>2, <2>3 DEF Elements
  <2>5. wild' = FALSE
    BY <1>1, <1>5
  <2>6. UNCHANGED <<View, Clean>>
    BY <1>1, <2>5 DEF View, Clean, Elements
  <2>7. QED
    BY <2>4, <2>6
<1>6. VS!Show
  BY <1>1, <1>4, <1>5 DEF VS!Show, VS!V
<1>7. VS!KeepsClean
  <2>1. Clean \subseteq Clean'
    <3>1. CASE wild'
      BY <1>1, <3>1, TameView, TameViewNow
    <3>2. CASE ~wild'
      BY <1>5, <3>2
    <3>3. QED
      BY <3>1, <3>2
  <2>2. QED
    BY <2>1, KeepsCleanBy
<1>8. QED
  BY <1>6, <1>7 DEF VS!Next

LEMMA CutOut ==
  ASSUME NEW S, NEW s \in Seq(S), NEW a \in Nat, NEW b \in Nat, a + b <= Len(s)
  PROVE  /\ SubSeq(s, a + 1, a + b) \in Seq(S) /\ Len(SubSeq(s, a + 1, a + b)) = b
         /\ \A k \in 1..b : SubSeq(s, a + 1, a + b)[k] = s[a + k]
<1>1. PICK z \in Nat : z = Len(s)
  OBVIOUS
<1> DEFINE t == SubSeq(s, a + 1, a + b)
<1>2. t = [i \in 1..((1 + (a + b)) - (a + 1)) |-> s[(i + (a + 1)) - 1]]
  OBVIOUS
<1>3. (1 + (a + b)) - (a + 1) = b
  OBVIOUS
<1>4. t = [i \in 1..b |-> s[(i + (a + 1)) - 1]]
  BY <1>2, <1>3
<1> HIDE DEF t
<1>5. ASSUME NEW i \in 1..b
      PROVE  (i + (a + 1)) - 1 = a + i /\ a + i \in 1..z
  BY <1>1
<1>6. \A i \in 1..b : t[i] = s[a + i] /\ s[a + i] \in S
  BY <1>1, <1>4, <1>5
<1>7. t \in [1..b -> S]
  BY <1>4, <1>6
<1>8. t \in Seq(S) /\ Len(t) = b
  BY <1>7, SequenceOfLength
<1>9. QED
  BY <1>6, <1>8 DEF t

(* vectSlice: what the slice holds is read through the vector's own array. *)
LEMMA SliceRefines ==
  ASSUME Sound(mem, vecs), Small(mem), wild = FALSE, VInv', NEW v \in Live,
         NEW new \in Vects \ DOMAIN vecs, NEW start \in Nat, start <= vecs[v].len + 1,
         NEW n \in Int, n <= MaxCap, Slice(v, new, start, n)
  PROVE  VS!Next
<1>1. /\ ret'.op = "slice" /\ ret'.vect = v /\ ret'.at = start /\ ret'.n = n /\ ret'.arg = new
      /\ mem' = mem
  BY DEF Slice, Returns
<1>2. /\ v \in DOMAIN vecs /\ vecs[v].len \in Nat /\ vecs[v].cap \in Nat
      /\ vecs[v].len <= vecs[v].cap /\ vecs[v].off \in Nat /\ vecs[v].len < Word
      /\ vecs[v].arr # Freed
      /\ View[v] \in Seq(Cells) /\ Len(View[v]) = vecs[v].len
      /\ \A k \in 1..vecs[v].len : View[v][k] = mem[vecs[v].arr][vecs[v].off + k]
  BY ViewOfLive, LiveFacts, HeaderFields
<1>3. PICK l \in Nat, o \in Nat : l = vecs[v].len /\ o = vecs[v].off
  BY <1>2
<1> DEFINE len == SliceLen(v, start, n)
           rest == l - start
           m == IF n < 0 \/ n > rest THEN rest ELSE n
<1>4. /\ start <= l => len = m /\ len \in 0..rest
      /\ start > l /\ n = 0 => len = 0
      /\ start > l /\ n # 0 => len > 0 /\ len \in Int
      /\ start + len > l /\ len > 0 => start > l /\ n # 0
  <2>1. /\ Word \in Nat /\ MaxCap \in Nat /\ Word > 2 * (MaxCap + 1) /\ l < Word
    BY <1>2, <1>3, VectorAssumption
  <2>2. start <= l => rest % Word = rest
    BY <2>1
  <2>3. start > l => rest = -1 /\ rest % Word = Word - 1
    <3>1. start > l => rest = -1
      BY <1>3
    <3>2. (-1) % Word = Word - 1
      BY <2>1
    <3>3. QED
      BY <3>1, <3>2
  <2>4. n >= 0 => n % Word = n
    BY <2>1
  <2>5. len = IF n < 0 \/ n % Word > rest % Word THEN rest % Word ELSE n
    BY <1>3 DEF SliceLen
  <2>6. CASE start <= l
    BY <2>1, <2>2, <2>4, <2>5, <2>6
  <2>7. CASE start > l
    <3>1. n >= 0 => ~(n % Word > rest % Word)
      BY <2>1, <2>3, <2>4, <2>7
    <3>2. len = IF n < 0 THEN Word - 1 ELSE n
      BY <2>3, <2>5, <2>7, <3>1
    <3>3. QED
      BY <2>1, <2>7, <3>2
  <2>8. QED
    BY <2>6, <2>7
<1>5. /\ DOMAIN vecs' = DOMAIN vecs \cup {new} /\ \A u \in DOMAIN vecs : vecs'[u] = vecs[u]
      /\ vecs'[new].arr = vecs[v].arr /\ vecs'[new].len = len /\ vecs'[new].cap = len
      /\ vecs'[new].off = Lesser(o + start, MaxCap + 1) /\ vecs'[new].isSlice
      /\ wild' = (len > 0 /\ start + len > l)
  BY <1>3 DEF Slice, With
<1> HIDE DEF len
<1>6. /\ wild' <=> (rest < 0 /\ n # 0)
      /\ ~wild' => len \in Nat
  <2>1. (start > l) <=> (rest < 0)
    BY <1>3
  <2>2. (len > 0 /\ start + len > l) <=> (rest < 0 /\ n # 0)
    <3>1. CASE start > l /\ n # 0
      <4>1. len > 0 /\ len \in Int
        BY <1>4, <3>1
      <4>2. start + len > l
        BY <1>3, <3>1, <4>1
      <4>3. QED
        BY <2>1, <3>1, <4>1, <4>2
    <3>2. CASE ~(start > l /\ n # 0)
      BY <1>4, <2>1, <3>2
    <3>3. QED
      BY <3>1, <3>2
  <2>3. wild' <=> (len > 0 /\ start + len > l)
    BY <1>3, <1>5
  <2> HIDE DEF rest
  <2>4. wild' <=> (rest < 0 /\ n # 0)
    BY <2>2, <2>3
  <2>5. ASSUME ~wild'
        PROVE  len \in Nat
    BY <1>4, <2>1, <2>4, <2>5 DEF rest
  <2>6. QED
    BY <2>4, <2>5
<1>7. ASSUME NEW u \in DOMAIN vecs, ~wild'
      PROVE  View'[u] = View[u] /\ (u \in Clean => u \in Clean')
  <2>1. u \in DOMAIN vecs' /\ vecs'[u] = vecs[u] /\ wild' = FALSE
    BY <1>5, <1>7
  <2>2. QED
    BY <1>1, <2>1, Others
<1>8. ASSUME ~wild'
      PROVE  View'[new] = IF m <= 0 THEN <<>> ELSE SubSeq(View[v], start + 1, start + m)
  <2>1. wild' = FALSE /\ Sound(mem', vecs') /\ new \in DOMAIN vecs'
    BY <1>5, <1>8 DEF VInv
  <2>2. /\ View'[new] \in Seq(Cells) /\ Len(View'[new]) = len
        /\ \A k \in 1..len : View'[new][k] = mem[vecs[v].arr][vecs'[new].off + k]
        /\ len \in Nat
    <3>1. vecs'[new].arr # Freed
      BY <1>2, <1>5
    <3>2. /\ View'[new] \in Seq(Cells) /\ Len(View'[new]) = vecs'[new].len
          /\ vecs'[new].len \in Nat
          /\ \A k \in 1..vecs'[new].len :
               View'[new][k] = mem'[vecs'[new].arr][vecs'[new].off + k]
      BY <2>1, <3>1, ViewOfLiveNow
    <3>3. vecs'[new].len = len /\ vecs'[new].arr = vecs[v].arr /\ mem' = mem
      BY <1>1, <1>5
    <3>4. QED
      BY <3>2, <3>3
  <2>3. CASE m <= 0
    <3>1. len = 0
      BY <1>4, <1>6, <1>8, <2>3
    <3>2. QED
      BY <2>2, <2>3, <3>1, EmptySeq
  <2>4. CASE ~(m <= 0)
    <3>1. start <= l /\ len = m /\ len > 0 /\ start + len <= l
      BY <1>4, <2>4
    <3>2. vecs'[new].off = o + start
      <4> PICK c \in Nat : c = vecs[v].cap
        BY <1>2
      <4>8. o + start <= o + c /\ c > 0 /\ c \in 1..c
        <5>1. l <= c /\ start + len <= l /\ len > 0 /\ len \in Nat
          BY <1>2, <1>3, <2>2, <3>1
        <5>2. QED
          BY <5>1
      <4>1. vecs[v].arr \in DOMAIN mem
        BY <1>2, <4>8, LiveFacts
      <4>2. vecs[v].cap \in 1..vecs[v].cap
        BY <4>8
      <4>3. vecs[v].off + vecs[v].cap \in 1..Len(mem[vecs[v].arr])
        BY <1>2, <4>1, <4>2, SeenFacts
      <4>4. Len(mem[vecs[v].arr]) <= MaxCap /\ Len(mem[vecs[v].arr]) \in Nat
        BY <1>2, <4>1, SeenFacts DEF Small
      <4>5. MaxCap \in Nat
        BY VectorAssumption
      <4>6. o + start <= MaxCap
        <5>1. PICK z \in Nat : z = Len(mem[vecs[v].arr])
          BY <4>4
        <5>2. z <= MaxCap /\ o + c <= z
          BY <1>3, <4>3, <4>4, <5>1
        <5>3. QED
          BY <4>5, <4>8, <5>2
      <4>7. QED
        BY <1>5, <4>5, <4>6 DEF Lesser
    <3> DEFINE w == View'[new]
               s == View[v]
               z == SubSeq(s, start + 1, start + len)
    <3>3. s \in Seq(Cells) /\ start + len <= Len(s) /\ \A k \in 1..l : s[k] = mem[vecs[v].arr][o + k]
      BY <1>2, <1>3, <2>2, <3>1
    <3>4. w \in Seq(Cells) /\ Len(w) = len /\ \A k \in 1..len : w[k] = mem[vecs[v].arr][(o + start) + k]
      BY <2>2, <3>2
    <3>5. len \in Nat
      BY <2>2
    <3> HIDE DEF w, s
    <3>6. z \in Seq(Cells) /\ Len(z) = len /\ \A k \in 1..len : z[k] = s[start + k]
      BY <3>3, <3>5, CutOut
    <3> HIDE DEF z
    <3>7. ASSUME NEW k \in 1..len
          PROVE  w[k] = z[k]
      <4>1. start + k \in 1..l /\ (o + start) + k = o + (start + k)
        BY <3>1, <3>5
      <4>2. QED
        BY <3>3, <3>4, <3>6, <4>1
    <3>8. w = z
      BY <3>4, <3>6, <3>7, SeqEqual
    <3>9. QED
      BY <2>4, <3>1, <3>8 DEF w, s, z
  <2>5. QED
    BY <2>3, <2>4
<1>9. {w \in DOMAIN vecs' : vecs'[w].isSlice} = {w \in DOMAIN vecs : vecs[w].isSlice} \cup {new}
  BY <1>5
<1>10. VS!Slice
  <2>1. /\ new \notin DOMAIN View /\ DOMAIN View' = DOMAIN View \cup {new}
        /\ VS!V = v
    BY <1>1, <1>5, TameView, TameViewNow DEF VS!V
  <2>2. rest = Len(View[v]) - ret'.at /\ m = IF ret'.n < 0 \/ ret'.n > rest THEN rest ELSE ret'.n
    BY <1>1, <1>2, <1>3
  <2>3. /\ vecs'[new].arr = vecs[v].arr
        /\ \A u \in DOMAIN vecs : vecs'[u].arr = vecs[u].arr
    BY <1>5
  <2>4. IF rest < 0 /\ n # 0 THEN wild'
        ELSE /\ ~wild'
             /\ View'[new] = IF m <= 0 THEN <<>> ELSE SubSeq(View[v], start + 1, start + m)
             /\ \A u \in DOMAIN View : View'[u] = View[u]
    BY <1>6, <1>7, <1>8, TameView
  <2> HIDE DEF rest, m
  <2>5. QED
    BY <1>1, <1>2, <1>5, <1>9, <2>1, <2>2, <2>3, <2>4 DEF VS!Slice
<1>11. VS!KeepsClean
  <2>1. \A u \in Clean : u \in Clean'
    <3>1. CASE wild'
      BY <1>5, <3>1, TameView, TameViewNow
    <3>2. CASE ~wild'
      BY <1>7, <3>2, TameView
    <3>3. QED
      BY <3>1, <3>2
  <2>2. QED
    BY <2>1, KeepsCleanBy
<1>12. QED
  BY <1>10, <1>11 DEF VS!Next

-----------------------------------------------------------------------------
(* No call makes a larger array: what the slices' offsets rest on.         *)

LEMMA NewKeepsSmall ==
  ASSUME Small(mem), NEW v, NEW c \in 0..MaxCap, New(v, c)
  PROVE  Small(mem')
<1>1. CASE c = 0
  BY <1>1 DEF New
<1>2. CASE c # 0
  <2>1. PICK a : mem' = With(mem, a, [k \in 1..c |-> 0])
    BY <1>2 DEF New
  <2>2. c \in Nat /\ c <= MaxCap
    BY VectorAssumption
  <2> DEFINE s == [k \in 1..c |-> 0]
  <2>3. s \in [1..c -> {0}]
    OBVIOUS
  <2> HIDE DEF s
  <2>4. Len(s) = c
    BY <2>2, <2>3, SequenceOfLength
  <2>5. \A b \in DOMAIN mem' : mem'[b] = s \/ (b \in DOMAIN mem /\ mem'[b] = mem[b])
    BY <2>1 DEF With, s
  <2>6. QED
    BY <2>2, <2>4, <2>5 DEF Small
<1>3. QED
  BY <1>1, <1>2

LEMMA MoveKeepsSmall ==
  ASSUME Sound(mem, vecs), Small(mem), NEW v \in Live, NEW a, NEW c \in 0..MaxCap
  PROVE  /\ a \in DOMAIN MovedMem(v, a, c) /\ MovedMem(v, a, c)[a] \in Seq(Cells)
         /\ Small(MovedMem(v, a, c))
<1>1. c \in Nat /\ c <= MaxCap
  BY VectorAssumption
<1>2. Copied(v, c) \in Seq(Cells) /\ Len(Copied(v, c)) = c
  BY <1>1, CopiedIsTyped
<1> DEFINE n == MovedMem(v, a, c)
<1>3. /\ \A b \in DOMAIN n : n[b] = Copied(v, c) \/ (b \in DOMAIN mem /\ n[b] = mem[b])
      /\ a \in DOMAIN n /\ n[a] = Copied(v, c)
  BY DEF MovedMem, With, Without
<1> HIDE DEF n
<1>4. Small(n)
  BY <1>1, <1>2, <1>3 DEF Small
<1>5. QED
  BY <1>2, <1>3, <1>4 DEF n

LEMMA ResizeKeepsSmall ==
  ASSUME Sound(mem, vecs), Small(mem), NEW v \in Live, NEW c \in 0..MaxCap, Resize(v, c)
  PROVE  Small(mem')
<1>1. CASE FreesInside(v)
  BY <1>1 DEF Resize
<1>2. CASE ~FreesInside(v)
  BY <1>2, MoveKeepsSmall DEF Resize
<1>3. QED
  BY <1>1, <1>2

LEMMA StoredKeepsSmall ==
  ASSUME Sound(mem, vecs), Small(mem), NEW v \in Live,
         NEW f, \A k \in DOMAIN f : f[k] \in Cells, mem' = Stored(v, f)
  PROVE  Small(mem')
BY StoredIsTyped DEF Small

LEMMA PutKeepsSmall ==
  ASSUME Sound(mem, vecs), Small(mem), NEW v \in Live, NEW i \in Nat, NEW x \in Values,
         NEW op, Fits(v, i + 1), Put(op, v, i, x)
  PROVE  Small(mem')
<1>1. vecs[v].cap \in Nat
  BY LiveFacts, HeaderFields
<1>2. CASE i < vecs[v].cap
  <2> DEFINE f == [j \in {i + 1} |-> x]
  <2>1. mem' = Stored(v, f)
    BY <1>2 DEF Put
  <2>2. \A j \in DOMAIN f : f[j] \in Cells
    BY DEF Cells
  <2> HIDE DEF f
  <2>3. QED
    BY <2>1, <2>2, StoredKeepsSmall
<1>3. CASE ~(i < vecs[v].cap) /\ FreesInside(v)
  BY <1>3 DEF Put
<1>4. CASE ~(i < vecs[v].cap) /\ ~FreesInside(v)
  <2> DEFINE c == Grown(vecs[v].cap, i + 1)
  <2>1. c \in 0..MaxCap /\ c >= i + 1
    BY <1>1, <1>4, GrownIsEnough
  <2>2. PICK a : mem' = [MovedMem(v, a, c) EXCEPT ![a][i + 1] = x]
    BY <1>4 DEF Put
  <2> HIDE DEF c
  <2> DEFINE m == MovedMem(v, a, c)
  <2>3. a \in DOMAIN m /\ m[a] \in Seq(Cells) /\ Small(m)
    BY <2>1, MoveKeepsSmall
  <2>4. mem' = [m EXCEPT ![a][i + 1] = x]
    BY <2>2
  <2> HIDE DEF m
  <2>5. Len([m[a] EXCEPT ![i + 1] = x]) = Len(m[a])
    BY <2>3
  <2>6. /\ DOMAIN mem' = DOMAIN m /\ mem'[a] = [m[a] EXCEPT ![i + 1] = x]
        /\ \A b \in DOMAIN m \ {a} : mem'[b] = m[b]
    BY <2>3, <2>4
  <2>7. QED
    BY <2>3, <2>5, <2>6 DEF Small
<1>5. QED
  BY <1>2, <1>3, <1>4

-----------------------------------------------------------------------------

LEMMA InitRefines == Init => RInv /\ VS!Init
<1> SUFFICES ASSUME Init PROVE RInv /\ VS!Init
  OBVIOUS
<1>1. DOMAIN mem = {} /\ DOMAIN vecs = {} /\ wild = FALSE /\ ret.op = "init"
  BY DEF Init
<1>2. RInv
  BY <1>1, InitialVInv DEF RInv, Small
<1>3. /\ View = <<>> /\ [v \in DOMAIN vecs |-> vecs[v].arr] = <<>>
      /\ Clean = {} /\ {v \in DOMAIN vecs : vecs[v].isSlice} = {}
  BY <1>1 DEF View, Clean
<1>4. QED
  BY <1>1, <1>2, <1>3 DEF VS!Init

LEMMA NextRefines == RInv /\ Next => RInv' /\ VS!Next
<1> SUFFICES ASSUME RInv, Next PROVE Small(mem') /\ VS!Next
  BY NextKeepsVInv DEF RInv
<1>1. Sound(mem, vecs) /\ wild = FALSE /\ Client /\ Small(mem) /\ VInv'
  BY NextKeepsVInv DEF RInv, VInv, Next
<1>2. ASSUME NEW v \in Vects \ DOMAIN vecs, NEW c \in 0..MaxCap, New(v, c)
      PROVE  Small(mem') /\ VS!Next
  BY <1>1, <1>2, NewRefines, NewKeepsSmall
<1>3. ASSUME NEW v \in Vects \ DOMAIN vecs, NEW u \in Live,
             NEW start \in 0..(vecs[u].len + 1), NEW n \in -1..MaxCap,
             Slice(u, v, start, n)
      PROVE  Small(mem') /\ VS!Next
  <2>1. start \in Nat /\ start <= vecs[u].len + 1 /\ n \in Int /\ n <= MaxCap
    BY <1>1, LiveFacts, HeaderFields, VectorAssumption
  <2>2. VS!Next
    BY <1>1, <1>3, <2>1, SliceRefines
  <2>3. mem' = mem
    BY <1>3 DEF Slice
  <2>4. QED
    BY <1>1, <2>2, <2>3
<1>4. ASSUME NEW v \in DOMAIN vecs, v \in Live \/ vecs[v].isSlice, Free(v)
      PROVE  Small(mem') /\ VS!Next
  <2>1. VS!Next
    BY <1>1, <1>4, FreeRefines
  <2>2. \A a \in DOMAIN mem' : a \in DOMAIN mem /\ mem'[a] = mem[a]
    BY <1>4 DEF Free, Without
  <2>3. QED
    BY <1>1, <2>1, <2>2 DEF Small
<1>5. ASSUME NEW v \in Live, Prune(v) \/ FreeContents(v) PROVE Small(mem') /\ VS!Next
  <2>1. VS!Next
    BY <1>1, <1>5, PruneRefines, FreeContentsRefines
  <2>2. mem' = mem \/ mem' = Stored(v, Cleared(v))
    BY <1>5 DEF Prune, FreeContents
  <2>3. \A k \in DOMAIN Cleared(v) : Cleared(v)[k] \in Cells
    BY DEF Cleared, Cells
  <2>4. Small(mem')
    BY <1>1, <2>2, <2>3, StoredKeepsSmall
  <2>5. QED
    BY <2>1, <2>4
<1>6. ASSUME NEW v \in Live, Show(v) PROVE Small(mem') /\ VS!Next
  BY <1>1, <1>6, ShowRefines DEF Show
<1>7. ASSUME NEW v \in Live, NEW c \in 0..MaxCap, NewCap(v, c)
      PROVE  Small(mem') /\ VS!Next
  BY <1>1, <1>7, NewCapRefines, ResizeKeepsSmall DEF NewCap
<1>8. ASSUME NEW v \in Live, NEW c \in vecs[v].cap..MaxCap, Fits(v, c), EnsureCap(v, c)
      PROVE  Small(mem') /\ VS!Next
  <2>1. vecs[v].cap \in Nat /\ c \in Nat
    BY <1>1, LiveFacts, HeaderFields
  <2>2. VS!Next
    BY <1>1, <1>8, <2>1, EnsureCapRefines
  <2>3. CASE c <= vecs[v].cap
    BY <1>1, <1>8, <2>2, <2>3 DEF EnsureCap
  <2>4. CASE ~(c <= vecs[v].cap)
    <3>1. Grown(vecs[v].cap, c) \in 0..MaxCap
      BY <1>1, <1>8, <2>1, <2>4, GrownIsEnough
    <3>2. Resize(v, Grown(vecs[v].cap, c))
      BY <1>8, <2>4 DEF EnsureCap
    <3>3. QED
      BY <1>1, <2>2, <3>1, <3>2, ResizeKeepsSmall
  <2>5. QED
    BY <2>3, <2>4
<1>9. ASSUME NEW v \in Live, NEW i \in 0..vecs[v].len, Get(v, i)
      PROVE  Small(mem') /\ VS!Next
  <2>1. i \in Nat
    BY <1>1, LiveFacts, HeaderFields
  <2>2. VS!Next
    BY <1>1, <1>9, <2>1, GetRefines
  <2>3. mem' = mem
    BY <1>9 DEF Get
  <2>4. QED
    BY <1>1, <2>2, <2>3
<1>10. ASSUME NEW v \in Live, NEW i \in Nat, NEW x \in Values, NEW op \in {"put", "append"},
              op = "append" => i = vecs[v].len, Fits(v, i + 1), Put(op, v, i, x)
       PROVE  Small(mem') /\ VS!Next
  <2>1. CASE i < vecs[v].cap
    BY <1>1, <1>10, <2>1, PutInPlaceRefines, PutKeepsSmall
  <2>2. CASE ~(i < vecs[v].cap)
    BY <1>1, <1>10, <2>2, PutAndMoveRefines, PutKeepsSmall
  <2>3. QED
    BY <2>1, <2>2
<1>11. ASSUME NEW v \in Live, NEW i \in 0..MaxCap, NEW x \in Values,
              Fits(v, i + 1), Put("put", v, i, x)
       PROVE  Small(mem') /\ VS!Next
  <2> DEFINE op == "put"
  <2>1. Put(op, v, i, x) /\ i \in Nat /\ op \in {"put", "append"} /\ op # "append"
    BY <1>11, Words
  <2> HIDE DEF op
  <2>2. QED
    BY <1>10, <1>11, <2>1
<1>12. ASSUME NEW v \in Live, NEW x \in Values, Fits(v, vecs[v].len + 1), Append_(v, x)
       PROVE  Small(mem') /\ VS!Next
  <2> DEFINE op == "append"
  <2>1. Put(op, v, vecs[v].len, x) /\ op \in {"put", "append"}
    BY <1>12 DEF Append_
  <2>2. vecs[v].len \in Nat
    BY <1>1, LiveFacts, HeaderFields
  <2> HIDE DEF op
  <2>3. QED
    BY <1>10, <1>12, <2>1, <2>2
<1>13. QED
  <2>1. CASE \E v \in Vects \ DOMAIN vecs :
               \/ \E c \in 0..MaxCap : New(v, c)
               \/ \E u \in Live : \E start \in 0..(vecs[u].len + 1), n \in -1..MaxCap :
                    Slice(u, v, start, n)
    BY <1>2, <1>3, <2>1
  <2>2. CASE \E v \in Live :
               \/ Free(v) \/ Prune(v) \/ FreeContents(v) \/ Show(v)
               \/ \E c \in 0..MaxCap : NewCap(v, c)
               \/ \E c \in vecs[v].cap..MaxCap : Fits(v, c) /\ EnsureCap(v, c)
               \/ \E i \in 0..vecs[v].len : Get(v, i)
               \/ \E i \in 0..MaxCap, x \in Values : Fits(v, i + 1) /\ Put("put", v, i, x)
               \/ \E x \in Values : Fits(v, vecs[v].len + 1) /\ Append_(v, x)
    <3>1. \A v \in Live : v \in DOMAIN vecs
      BY DEF Live
    <3>2. QED
      BY <1>4, <1>5, <1>6, <1>7, <1>8, <1>9, <1>11, <1>12, <2>2, <3>1
  <2>3. CASE \E v \in DOMAIN vecs \ Live : vecs[v].isSlice /\ Free(v)
    BY <1>4, <2>3
  <2>4. QED
    BY <1>1, <2>1, <2>2, <2>3 DEF Client

LEMMA StutteringRefines == RInv /\ UNCHANGED vars => RInv' /\ UNCHANGED VS!vars
<1> SUFFICES ASSUME RInv, UNCHANGED vars PROVE RInv' /\ UNCHANGED VS!vars
  OBVIOUS
<1>1. RInv'
  BY StutteringKeepsVInv DEF RInv, vars
<1>2. UNCHANGED <<View, Clean>>
  BY DEF vars, View, Clean, Elements
<1>3. UNCHANGED VS!vars
  BY <1>2 DEF vars, VS!vars
<1>4. QED
  BY <1>1, <1>3

(* A vector of spring is the sequence VectorSpec describes, however calls  *)
(* on it, on the slices cut from it and on the vector it was cut from are  *)
(* mixed: until a call leaves defined behaviour no element is lost, moved  *)
(* or changed but by a call that VectorSpec lets change it.                *)
THEOREM VectorsAreSequences == Spec => IsAVector
<1>1. RInv /\ [Next]_vars => RInv' /\ [VS!Next]_(VS!vars)
  BY NextRefines, StutteringRefines
<1>2. QED
  BY <1>1, InitRefines, PTL DEF Spec, IsAVector, VS!Spec

=============================================================================
