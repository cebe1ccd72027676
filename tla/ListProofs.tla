----------------------------- MODULE ListProofs -----------------------------
(***************************************************************************)
(* Proofs about spring's lists for a heap of any size: both lists stay     *)
(* well linked and no node is lost, which calls lose the cursor, and that  *)
(* every call does what ListSpec says.                                     *)
(*                                                                         *)
(* A list is reasoned about through its chain p, the function from the     *)
(* indices 1..len to its nodes: each call is shown to turn the chains of   *)
(* the two headers into other chains, and a header has one chain only, the *)
(* one that Path follows.                                                  *)
(***************************************************************************)
EXTENDS SpringList, FiniteSetTheorems, SequenceTheorems, WellFoundedInduction, TLAPS

-----------------------------------------------------------------------------
(* Of a heap h, headers l and o, and nodes p and q by their indices:       *)

Chain(h, l, p) ==
  /\ p \in [1..l.len -> DOMAIN h]
  /\ \A i, j \in 1..l.len : i # j => p[i] # p[j]
  /\ l.start = (IF l.len = 0 THEN Null ELSE p[1])
  /\ l.end = (IF l.len = 0 THEN Null ELSE p[l.len])
  /\ \A i \in 1..l.len :
       /\ h[p[i]].prec = (IF i = 1 THEN Null ELSE p[i - 1])
       /\ h[p[i]].next = (IF i = l.len THEN Null ELSE p[i + 1])

Typed(h) == DOMAIN h \subseteq Nodes /\ \A n \in DOMAIN h : h[n] \in Lnodes

(* The heap is what the two lists hold.                                    *)
Two(h, l, o, p, q) ==
  /\ Typed(h)
  /\ l \in Headers /\ Chain(h, l, p)
  /\ o \in Headers /\ Chain(h, o, q)
  /\ \A i \in 1..l.len, j \in 1..o.len : p[i] # q[j]
  /\ \A n \in DOMAIN h : \/ \E i \in 1..l.len : p[i] = n
                         \/ \E j \in 1..o.len : q[j] = n

(* What Ahead, Behind and Path follow, of any heap.                        *)
Follow(h, p, k) ==
  LET f[i \in 0..MaxNodes] ==
        IF i = 0 THEN p
        ELSE IF f[i - 1] \in DOMAIN h THEN h[f[i - 1]].next ELSE Null
  IN  f[k]
Precede(h, p, k) ==
  LET f[i \in 0..MaxNodes] ==
        IF i = 0 THEN p
        ELSE IF f[i - 1] \in DOMAIN h THEN h[f[i - 1]].prec ELSE Null
  IN  f[k]
PathOf(h, l) == [i \in 1..l.len |-> Follow(h, l.start, i - 1)]

-----------------------------------------------------------------------------
(* Recursive functions: least elements, and induction on a set of numbers. *)

LEMMA LeastExists ==
  ASSUME NEW S \in SUBSET Nat, S # {}
  PROVE  \E x \in S : \A j \in S : x <= j
<1> DEFINE Lt == {ss \in Nat \X Nat : ss[1] < ss[2]}
<1>1. IsWellFoundedOn(Lt, Nat)
  BY NatLessThanWellFounded DEF OpToRel
<1>2. \A x, y \in Nat : <<y, x>> \in Lt <=> y < x
  OBVIOUS
<1> HIDE DEF Lt
<1>3. \E x \in S : \A y \in S : ~(<<y, x>> \in Lt)
  BY <1>1, WFMin
<1>4. QED
  <2>1. PICK x \in S : \A y \in S : ~(<<y, x>> \in Lt)
    BY <1>3
  <2>2. ASSUME NEW y \in S
        PROVE  x <= y
    <3>1. x \in Nat /\ y \in Nat
      OBVIOUS
    <3>2. ~(y < x)
      BY <1>2, <2>1, <3>1
    <3>3. QED
      BY <3>1, <3>2
  <2>3. QED
    BY <2>2

(* Induction up to n, for a set.                                           *)
LEMMA Induction ==
  ASSUME NEW n \in Nat, NEW P, 0 \in P, \A i \in 1..n : i - 1 \in P => i \in P
  PROVE  \A i \in 0..n : i \in P
<1> DEFINE B == {i \in 0..n : i \notin P}
<1>1. SUFFICES ASSUME B # {} PROVE FALSE
  OBVIOUS
<1>2. B \in SUBSET Nat
  OBVIOUS
<1>3. PICK b \in B : \A j \in B : b <= j
  BY <1>1, <1>2, LeastExists
<1>4. b \in 1..n /\ b \notin P
  BY <1>3
<1>5. b - 1 \in P
  BY <1>3, <1>4
<1>6. QED
  BY <1>4, <1>5

(* A function that is given by its first value and a step.                 *)
Follows(f, n, a, g) == f[0] = a /\ \A i \in 1..n : f[i] = g[i][f[i - 1]]

LEMMA FollowsExists ==
  ASSUME NEW S, NEW a \in S, NEW n \in Nat, NEW g \in [1..n -> [S -> S]]
  PROVE  \E f \in [0..n -> S] : Follows(f, n, a, g)
<1> DEFINE P == {m \in 0..n : \E f \in [0..m -> S] : Follows(f, m, a, g)}
<1>1. 0 \in P
  <2>1. [i \in 0..0 |-> a] \in [0..0 -> S] /\ Follows([i \in 0..0 |-> a], 0, a, g)
    BY DEF Follows
  <2>2. QED
    BY <2>1
<1>2. ASSUME NEW m \in 1..n, m - 1 \in P
      PROVE  m \in P
  <2>1. PICK f \in [0..(m - 1) -> S] : Follows(f, m - 1, a, g)
    BY <1>2
  <2> DEFINE h == [i \in 0..m |-> IF i = m THEN g[m][f[m - 1]] ELSE f[i]]
  <2>2. f[m - 1] \in S /\ g[m] \in [S -> S]
    OBVIOUS
  <2>3. g[m][f[m - 1]] \in S
    BY <2>2
  <2>4. h \in [0..m -> S]
    BY <2>3
  <2>5. /\ h[m] = g[m][f[m - 1]] /\ \A i \in 0..(m - 1) : h[i] = f[i]
        /\ 0 \in 0..(m - 1) /\ m - 1 \in 0..(m - 1)
    OBVIOUS
  <2> HIDE DEF h
  <2>6. ASSUME NEW i \in 1..m
        PROVE  h[i] = g[i][h[i - 1]]
    <3>1. CASE i = m
      BY <2>5, <3>1
    <3>2. CASE i # m
      <4>1. i \in 1..(m - 1) /\ i \in 0..(m - 1) /\ i - 1 \in 0..(m - 1)
        BY <3>2
      <4>2. QED
        BY <2>1, <2>5, <4>1 DEF Follows
    <3>3. QED
      BY <3>1, <3>2
  <2>7. Follows(h, m, a, g)
    BY <2>1, <2>5, <2>6 DEF Follows
  <2>8. QED
    BY <2>4, <2>7
<1> HIDE DEF P
<1>3. \A m \in 0..n : m \in P
  BY <1>1, <1>2, Induction
<1>4. QED
  BY <1>3 DEF P

LEMMA FollowFacts ==
  ASSUME NEW h, Typed(h), NEW p \in Pointers
  PROVE  /\ Follow(h, p, 0) = p
         /\ \A i \in 1..MaxNodes : Follow(h, p, i) =
              IF Follow(h, p, i - 1) \in DOMAIN h THEN h[Follow(h, p, i - 1)].next ELSE Null
<1> DEFINE Step(w) == IF w \in DOMAIN h THEN h[w].next ELSE Null
           F == CHOOSE f : f = [i \in 0..MaxNodes |-> IF i = 0 THEN p ELSE Step(f[i - 1])]
           g == [i \in 1..MaxNodes |-> [w \in Pointers |-> Step(w)]]
<1>1. \A k : Follow(h, p, k) = F[k]
  BY DEF Follow
<1>2. MaxNodes \in Nat
  BY ListAssumption
<1>3. \A w \in Pointers : Step(w) \in Pointers
  BY DEF Typed, Lnodes, Pointers
<1>4. \A w : Step(w) = IF w \in DOMAIN h THEN h[w].next ELSE Null
  OBVIOUS
<1> HIDE DEF Step
<1>5. g \in [1..MaxNodes -> [Pointers -> Pointers]] /\ \A i \in 1..MaxNodes : \A w \in Pointers : g[i][w] = Step(w)
  BY <1>3
<1> HIDE DEF g
<1>6. PICK f \in [0..MaxNodes -> Pointers] : Follows(f, MaxNodes, p, g)
  BY <1>2, <1>5, FollowsExists
<1>7. f = [i \in 0..MaxNodes |-> IF i = 0 THEN p ELSE Step(f[i - 1])]
  <2>1. ASSUME NEW i \in 0..MaxNodes
        PROVE  f[i] = IF i = 0 THEN p ELSE Step(f[i - 1])
    <3>1. CASE i = 0
      BY <1>6, <3>1 DEF Follows
    <3>2. CASE i # 0
      <4>1. i \in 1..MaxNodes /\ i - 1 \in 0..MaxNodes
        BY <1>2, <3>2
      <4>2. f[i] = g[i][f[i - 1]] /\ f[i - 1] \in Pointers
        BY <1>6, <4>1 DEF Follows
      <4>3. QED
        BY <1>5, <3>2, <4>1, <4>2
    <3>3. QED
      BY <3>1, <3>2
  <2>2. QED
    BY <2>1
<1>8. F = [i \in 0..MaxNodes |-> IF i = 0 THEN p ELSE Step(F[i - 1])]
  BY <1>7, Zenon
<1> HIDE DEF F
<1>9. F[0] = p /\ \A i \in 1..MaxNodes : F[i] = Step(F[i - 1])
  <2>1. \A i \in 0..MaxNodes : F[i] = IF i = 0 THEN p ELSE Step(F[i - 1])
    BY <1>8
  <2>2. QED
    BY <1>2, <2>1
<1>10. QED
  BY <1>1, <1>4, <1>9

LEMMA PrecedeFacts ==
  ASSUME NEW h, Typed(h), NEW p \in Pointers
  PROVE  /\ Precede(h, p, 0) = p
         /\ \A i \in 1..MaxNodes : Precede(h, p, i) =
              IF Precede(h, p, i - 1) \in DOMAIN h THEN h[Precede(h, p, i - 1)].prec ELSE Null
<1> DEFINE Step(w) == IF w \in DOMAIN h THEN h[w].prec ELSE Null
           F == CHOOSE f : f = [i \in 0..MaxNodes |-> IF i = 0 THEN p ELSE Step(f[i - 1])]
           g == [i \in 1..MaxNodes |-> [w \in Pointers |-> Step(w)]]
<1>1. \A k : Precede(h, p, k) = F[k]
  BY DEF Precede
<1>2. MaxNodes \in Nat
  BY ListAssumption
<1>3. \A w \in Pointers : Step(w) \in Pointers
  BY DEF Typed, Lnodes, Pointers
<1>4. \A w : Step(w) = IF w \in DOMAIN h THEN h[w].prec ELSE Null
  OBVIOUS
<1> HIDE DEF Step
<1>5. g \in [1..MaxNodes -> [Pointers -> Pointers]] /\ \A i \in 1..MaxNodes : \A w \in Pointers : g[i][w] = Step(w)
  BY <1>3
<1> HIDE DEF g
<1>6. PICK f \in [0..MaxNodes -> Pointers] : Follows(f, MaxNodes, p, g)
  BY <1>2, <1>5, FollowsExists
<1>7. f = [i \in 0..MaxNodes |-> IF i = 0 THEN p ELSE Step(f[i - 1])]
  <2>1. ASSUME NEW i \in 0..MaxNodes
        PROVE  f[i] = IF i = 0 THEN p ELSE Step(f[i - 1])
    <3>1. CASE i = 0
      BY <1>6, <3>1 DEF Follows
    <3>2. CASE i # 0
      <4>1. i \in 1..MaxNodes /\ i - 1 \in 0..MaxNodes
        BY <1>2, <3>2
      <4>2. f[i] = g[i][f[i - 1]] /\ f[i - 1] \in Pointers
        BY <1>6, <4>1 DEF Follows
      <4>3. QED
        BY <1>5, <3>2, <4>1, <4>2
    <3>3. QED
      BY <3>1, <3>2
  <2>2. QED
    BY <2>1
<1>8. F = [i \in 0..MaxNodes |-> IF i = 0 THEN p ELSE Step(F[i - 1])]
  BY <1>7, Zenon
<1> HIDE DEF F
<1>9. F[0] = p /\ \A i \in 1..MaxNodes : F[i] = Step(F[i - 1])
  <2>1. \A i \in 0..MaxNodes : F[i] = IF i = 0 THEN p ELSE Step(F[i - 1])
    BY <1>8
  <2>2. QED
    BY <1>2, <2>1
<1>10. QED
  BY <1>1, <1>4, <1>9

-----------------------------------------------------------------------------
(* Chains.                                                                 *)

LEMMA HeaderFields ==
  ASSUME NEW l \in Headers
  PROVE  /\ l.start \in Pointers /\ l.end \in Pointers /\ l.current \in Pointers
         /\ l.len \in Nat /\ l.len <= MaxNodes /\ l.len \in 0..MaxNodes
         /\ l.pos \in Nat /\ l.pos <= MaxPos /\ l.pos \in 0..MaxPos
BY ListAssumption DEF Headers

LEMMA NodesAreNotNull ==
  /\ Null \notin Nodes /\ Null \in Pointers /\ Nodes \subseteq Pointers
  /\ MaxNodes \in Nat /\ MaxPos \in Nat /\ MaxNodes <= MaxPos
BY ListAssumption DEF Null, Nodes, Pointers

LEMMA NodeOfChain ==
  ASSUME NEW h, Typed(h), NEW l \in Headers, NEW p, Chain(h, l, p), NEW i \in 1..l.len
  PROVE  /\ p[i] \in DOMAIN h /\ p[i] \in Nodes /\ p[i] \in Pointers /\ p[i] # Null
         /\ h[p[i]] \in Lnodes
         /\ h[p[i]].prec = (IF i = 1 THEN Null ELSE p[i - 1])
         /\ h[p[i]].next = (IF i = l.len THEN Null ELSE p[i + 1])
BY NodesAreNotNull DEF Chain, Typed

(* A chain has its nodes k steps apart.                                    *)
LEMMA StepsOnChain ==
  ASSUME NEW h, Typed(h), NEW l \in Headers, NEW p, Chain(h, l, p), NEW a \in 1..l.len
  PROVE  /\ \A k \in 0..(l.len - a) : Follow(h, p[a], k) = p[a + k]
         /\ \A k \in 0..(a - 1) : Precede(h, p[a], k) = p[a - k]
<1>1. l.len \in Nat /\ l.len <= MaxNodes /\ MaxNodes \in Nat
  BY HeaderFields, NodesAreNotNull
<1>2. p[a] \in Pointers
  BY NodeOfChain
<1>3. \A k \in 0..(l.len - a) : Follow(h, p[a], k) = p[a + k]
  <2> DEFINE P == {k \in 0..(l.len - a) : Follow(h, p[a], k) = p[a + k]}
  <2>1. 0 \in P
    BY <1>1, <1>2, FollowFacts
  <2>2. ASSUME NEW k \in 1..(l.len - a), k - 1 \in P
        PROVE  k \in P
    <3>1. Follow(h, p[a], k - 1) = p[a + (k - 1)] /\ a + (k - 1) \in 1..l.len
      BY <1>1, <2>2
    <3>2. PICK i \in 1..l.len : i = a + (k - 1) /\ i + 1 = a + k /\ i # l.len
      BY <1>1, <3>1
    <3>3. p[i] \in DOMAIN h /\ h[p[i]].next = p[i + 1]
      BY <3>2, NodeOfChain
    <3>4. k \in 1..MaxNodes
      BY <1>1
    <3>5. Follow(h, p[a], k) = h[Follow(h, p[a], k - 1)].next
      BY <1>2, <3>1, <3>2, <3>3, <3>4, FollowFacts
    <3>6. QED
      BY <1>1, <3>1, <3>2, <3>3, <3>5
  <2>3. l.len - a \in Nat
    BY <1>1
  <2> HIDE DEF P
  <2>4. \A k \in 0..(l.len - a) : k \in P
    BY <2>1, <2>2, <2>3, Induction
  <2>5. QED
    BY <2>4 DEF P
<1>4. \A k \in 0..(a - 1) : Precede(h, p[a], k) = p[a - k]
  <2> DEFINE P == {k \in 0..(a - 1) : Precede(h, p[a], k) = p[a - k]}
  <2>1. 0 \in P
    BY <1>1, <1>2, PrecedeFacts
  <2>2. ASSUME NEW k \in 1..(a - 1), k - 1 \in P
        PROVE  k \in P
    <3>1. Precede(h, p[a], k - 1) = p[a - (k - 1)] /\ a - (k - 1) \in 1..l.len
      BY <1>1, <2>2
    <3>2. PICK i \in 1..l.len : i = a - (k - 1) /\ i - 1 = a - k /\ i # 1
      BY <1>1, <3>1
    <3>3. p[i] \in DOMAIN h /\ h[p[i]].prec = p[i - 1]
      BY <3>2, NodeOfChain
    <3>4. k \in 1..MaxNodes
      BY <1>1
    <3>5. Precede(h, p[a], k) = h[Precede(h, p[a], k - 1)].prec
      BY <1>2, <3>1, <3>2, <3>3, <3>4, PrecedeFacts
    <3>6. QED
      BY <1>1, <3>1, <3>2, <3>3, <3>5
  <2>3. a - 1 \in Nat
    BY <1>1
  <2> HIDE DEF P
  <2>4. \A k \in 0..(a - 1) : k \in P
    BY <2>1, <2>2, <2>3, Induction
  <2>5. QED
    BY <2>4 DEF P
<1>5. QED
  BY <1>3, <1>4

(* A header has one chain, its path.                                       *)
LEMMA ChainIsPath ==
  ASSUME NEW h, Typed(h), NEW l \in Headers, NEW p, Chain(h, l, p)
  PROVE  PathOf(h, l) = p
<1>1. l.len \in Nat
  BY HeaderFields
<1>2. ASSUME NEW i \in 1..l.len
      PROVE  Follow(h, l.start, i - 1) = p[i]
  <2>1. l.start = p[1] /\ 1 \in 1..l.len
    BY <1>1 DEF Chain
  <2>2. PICK k \in 0..(l.len - 1) : k = i - 1
    BY <1>1
  <2>3. Follow(h, p[1], k) = p[1 + k]
    BY <2>1, StepsOnChain
  <2>4. QED
    BY <1>1, <2>1, <2>2, <2>3
<1>3. p = [i \in 1..l.len |-> p[i]]
  BY DEF Chain
<1>4. QED
  BY <1>2, <1>3 DEF PathOf

LEMMA PathIsChain ==
  /\ \A l : Path(l) = PathOf(heap, l)
  /\ HeapIsTheLists <=> Two(heap, list, other, PathOf(heap, list), PathOf(heap, other))
<1>1. \A l : Path(l) = PathOf(heap, l)
  BY DEF Path, PathOf, Ahead, Follow
<1>2. \A l : NodesOf(l) = {PathOf(heap, l)[i] : i \in 1..l.len}
  BY <1>1 DEF NodesOf
<1>3. \A l : Linked(l) <=> Chain(heap, l, PathOf(heap, l))
  <2> TAKE l
  <2>1. PathOf(heap, l) = [i \in 1..l.len |-> PathOf(heap, l)[i]]
    BY DEF PathOf
  <2> DEFINE p == PathOf(heap, l)
  <2> HIDE DEF p
  <2>2. NodesOf(l) \subseteq DOMAIN heap <=> p \in [1..l.len -> DOMAIN heap]
    BY <1>2, <2>1 DEF p
  <2>3. Path(l) = p
    BY <1>1 DEF p
  <2>4. Linked(l) <=> Chain(heap, l, p)
    BY <2>2, <2>3 DEF Linked, Chain
  <2>5. QED
    BY <2>4 DEF p
<1>4. TypeOK <=> Typed(heap) /\ list \in Headers /\ other \in Headers
  BY DEF TypeOK, Typed
<1> DEFINE p == PathOf(heap, list)
           q == PathOf(heap, other)
<1>5. ASSUME TypeOK, Chain(heap, list, p), Chain(heap, other, q)
      PROVE  /\ NodesOf(list) \cap NodesOf(other) = {}
             /\ DOMAIN heap = NodesOf(list) \cup NodesOf(other)
        <=>
             /\ \A i \in 1..list.len, j \in 1..other.len : p[i] # q[j]
             /\ \A n \in DOMAIN heap : \/ \E i \in 1..list.len : p[i] = n
                                       \/ \E j \in 1..other.len : q[j] = n
  <2>1. /\ NodesOf(list) = {p[i] : i \in 1..list.len}
        /\ NodesOf(other) = {q[i] : i \in 1..other.len}
    BY <1>2
  <2>2. /\ \A i \in 1..list.len : p[i] \in DOMAIN heap
        /\ \A i \in 1..other.len : q[i] \in DOMAIN heap
    BY <1>5 DEF Chain
  <2> HIDE DEF p, q
  <2>3. QED
    BY <2>1, <2>2
<1>6. QED
  BY <1>1, <1>3, <1>4, <1>5 DEF HeapIsTheLists, Two

TheTwo == Two(heap, list, other, PathOf(heap, list), PathOf(heap, other))

LEMMA HeapIsTheTwo == HeapIsTheLists <=> TheTwo
BY PathIsChain DEF TheTwo

LEMMA HeapIsTheTwoNow ==
  HeapIsTheLists' <=> Two(heap', list', other', PathOf(heap', list'), PathOf(heap', other'))
<1>1. HeapIsTheLists' <=> TheTwo'
  BY HeapIsTheTwo, PTL
<1>2. QED
  BY <1>1 DEF TheTwo

LEMMA PathsNow == \A l : Path(l)' = PathOf(heap', l')
BY DEF Path, PathOf, Ahead, Follow

LEMMA TwoIsEnough ==
  ASSUME NEW p, NEW q, Two(heap', list', other', p, q)
  PROVE  HeapIsTheLists'
BY HeapIsTheTwoNow, ChainIsPath DEF Two

LEMMA TheChains ==
  ASSUME HeapIsTheLists
  PROVE  Two(heap, list, other, Path(list), Path(other))
BY PathIsChain

-----------------------------------------------------------------------------
(* The cursor.                                                             *)

CursorAt(l, p) == \/ l.current = Null /\ l.pos = 0
                  \/ l.pos < l.len /\ l.current = p[l.pos + 1]

LEMMA CursorOfPath == CursorIsRight <=> CursorAt(list, Path(list))
BY DEF CursorIsRight, CursorAt

LEMMA CursorOfPathNow == CursorIsRight' <=> CursorAt(list', Path(list)')
BY DEF CursorIsRight, CursorAt

(* z is l, but for its cursor, which is at index i.                        *)
Sought(z, l, p, i) ==
  /\ z \in Headers
  /\ z.start = l.start /\ z.end = l.end /\ z.len = l.len
  /\ z.current = p[i + 1] /\ z.pos = i

LEMMA SoughtIsChain ==
  ASSUME NEW h, NEW l, NEW p, Chain(h, l, p), NEW i, NEW z, Sought(z, l, p, i)
  PROVE  Chain(h, z, p)
BY DEF Chain, Sought

LEMMA AheadIsFollow == \A p, k : Ahead(p, k) = Follow(heap, p, k)
BY DEF Ahead, Follow

LEMMA BehindIsPrecede == \A p, k : Behind(p, k) = Precede(heap, p, k)
BY DEF Behind, Precede

(* From wherever the cursor is, and from either end, the node with the     *)
(* index that is asked for is found.                                       *)
LEMMA SeekFinds ==
  ASSUME Typed(heap), NEW l \in Headers, NEW p, Chain(heap, l, p), CursorAt(l, p),
         NEW i \in 0..(l.len - 1)
  PROVE  Sought(Seek(l, i), l, p, i)
<1>1. /\ l.len \in Nat /\ l.len <= MaxNodes /\ l.pos \in Nat /\ l.current \in Pointers
      /\ l.pos \in 0..MaxPos /\ MaxNodes \in Nat /\ MaxPos \in Nat /\ MaxNodes <= MaxPos
      /\ i \in Nat /\ i < l.len /\ i \in 0..MaxPos /\ 0 \in 0..MaxPos
  BY HeaderFields, NodesAreNotNull
<1>2. /\ \A j \in 1..l.len : p[j] \in Pointers /\ p[j] # Null
      /\ l.start = p[1] /\ l.end = p[l.len] /\ 1 \in 1..l.len /\ l.len \in 1..l.len
      /\ i + 1 \in 1..l.len
  <2>1. 1 \in 1..l.len /\ l.len \in 1..l.len /\ i + 1 \in 1..l.len
    BY <1>1
  <2>2. l.start = p[1] /\ l.end = p[l.len]
    BY <1>1 DEF Chain
  <2>3. QED
    BY <2>1, <2>2, NodeOfChain
<1> DEFINE z == SeekZero(l, i)
<1>3. /\ z \in Headers /\ z.start = l.start /\ z.end = l.end /\ z.len = l.len
      /\ z.pos \in 0..(l.len - 1)
      /\ \/ z.current = Null /\ z.pos = 0 /\ i > 0
         \/ z.current # Null /\ z.current = p[z.pos + 1]
  <2>1. CASE l.current = Null /\ i = 0
    <3>1. z = [l EXCEPT !.current = l.start, !.pos = 0]
      BY <2>1 DEF SeekZero
    <3>2. /\ z \in Headers /\ z.start = l.start /\ z.end = l.end /\ z.len = l.len
          /\ z.current = l.start /\ z.pos = 0
      BY <1>1, <1>2, <3>1 DEF Headers
    <3>3. z.current # Null /\ z.current = p[z.pos + 1]
      BY <1>2, <3>2
    <3>4. QED
      BY <1>1, <3>2, <3>3
  <2>2. CASE ~(l.current = Null /\ i = 0)
    <3>1. z = l
      BY <2>2 DEF SeekZero
    <3>2. CASE l.current = Null
      <4>1. ~(l.pos < l.len /\ l.current = p[l.pos + 1])
        BY <1>1, <1>2, <3>2
      <4>2. QED
        BY <1>1, <2>2, <3>1, <3>2, <4>1 DEF CursorAt
    <3>3. CASE l.current # Null
      BY <1>1, <3>1, <3>3 DEF CursorAt
    <3>4. QED
      BY <3>2, <3>3
  <2>3. QED
    BY <2>1, <2>2
<1> HIDE DEF z
<1>4. Seek(l, i) = IF i > z.pos THEN SeekAhead(z, i)
                   ELSE IF i < z.pos THEN SeekBehind(z, i) ELSE z
  BY DEF Seek, z
<1>5. CASE i > z.pos
  <2> DEFINE from == IF z.current = Null THEN z.start ELSE z.current
             at == IF z.current = Null THEN 0 ELSE z.pos
  <2>1. at = z.pos /\ from = p[at + 1] /\ at \in Nat /\ at < i
    BY <1>1, <1>2, <1>3, <1>5
  <2>2. SeekAhead(z, i) = [z EXCEPT !.current = Ahead(from, i - at), !.pos = i]
    BY DEF SeekAhead
  <2> HIDE DEF from, at
  <2>3. PICK a \in 1..l.len : \E k \in 0..(l.len - a) : a = at + 1 /\ k = i - at /\ a + k = i + 1
    BY <1>1, <1>2, <2>1
  <2>4. Ahead(from, i - at) = p[i + 1]
    BY <2>1, <2>3, StepsOnChain, AheadIsFollow
  <2>5. SeekAhead(z, i) = [z EXCEPT !.current = p[i + 1], !.pos = i]
    BY <2>2, <2>4
  <2>6. Sought([z EXCEPT !.current = p[i + 1], !.pos = i], l, p, i)
    BY <1>1, <1>2, <1>3 DEF Sought, Headers
  <2>7. QED
    BY <1>4, <1>5, <2>5, <2>6
<1>6. CASE i < z.pos
  <2> DEFINE last == z.current = Null \/ z.len - 1 = i
             from == IF last THEN z.end ELSE z.current
             at == IF last THEN z.len - 1 ELSE z.pos
  <2>1. from = p[at + 1] /\ at \in Nat /\ i <= at /\ at < l.len
    BY <1>1, <1>2, <1>3, <1>6
  <2>2. SeekBehind(z, i) = [z EXCEPT !.current = Behind(from, at - i), !.pos = i]
    BY DEF SeekBehind
  <2> HIDE DEF from, at, last
  <2>3. PICK a \in 1..l.len : \E k \in 0..(a - 1) : a = at + 1 /\ k = at - i /\ a - k = i + 1
    BY <1>1, <1>2, <2>1
  <2>4. Behind(from, at - i) = p[i + 1]
    BY <2>1, <2>3, StepsOnChain, BehindIsPrecede
  <2>5. SeekBehind(z, i) = [z EXCEPT !.current = p[i + 1], !.pos = i]
    BY <2>2, <2>4
  <2>6. Sought([z EXCEPT !.current = p[i + 1], !.pos = i], l, p, i)
    BY <1>1, <1>2, <1>3 DEF Sought, Headers
  <2>7. QED
    BY <1>4, <1>6, <2>5, <2>6, <1>1, <1>3
<1>7. CASE i = z.pos
  <2>1. Seek(l, i) = z
    BY <1>1, <1>3, <1>4, <1>7
  <2>2. Sought(z, l, p, i)
    BY <1>1, <1>3, <1>7 DEF Sought
  <2>3. QED
    BY <2>1, <2>2
<1>8. QED
  BY <1>1, <1>3, <1>5, <1>6, <1>7

-----------------------------------------------------------------------------
(* Changes of a chain.                                                     *)

(* n becomes the node j.                                                   *)
Ins(p, len, j, n) ==
  [i \in 1..(len + 1) |-> IF i < j THEN p[i] ELSE IF i = j THEN n ELSE p[i - 1]]

(* d nodes from a on are gone.                                             *)
Cut(p, len, a, d) == [i \in 1..(len - d) |-> IF i < a THEN p[i] ELSE p[i + d]]

(* A node that is free makes room in a header.                             *)
LEMMA RoomIsLeft ==
  ASSUME NEW h, NEW l, NEW o, NEW p, NEW q, Two(h, l, o, p, q), NEW n \in Nodes \ DOMAIN h
  PROVE  l.len + 1 \in 0..MaxNodes
<1>1. l.len \in Nat /\ MaxNodes \in Nat
  BY HeaderFields, NodesAreNotNull DEF Two
<1> DEFINE f == Ins(p, l.len, l.len + 1, n)
<1>2. f \in [1..(l.len + 1) -> Nodes]
  BY <1>1 DEF Two, Chain, Typed, Ins
<1>3. ~\E x, y \in 1..(l.len + 1) : x # y /\ f[x] = f[y]
  <2>1. (\A x \in 1..l.len : f[x] = p[x]) /\ f[l.len + 1] = n
    BY <1>1 DEF Ins
  <2>2. /\ \A x \in 1..l.len : p[x] \in DOMAIN h
        /\ \A x, y \in 1..l.len : x # y => p[x] # p[y]
    BY DEF Two, Chain
  <2> HIDE DEF f
  <2>3. QED
    BY <1>1, <2>1, <2>2
<1> HIDE DEF f
<1>4. /\ IsFiniteSet(1..(l.len + 1)) /\ Cardinality(1..(l.len + 1)) = l.len + 1
      /\ IsFiniteSet(Nodes) /\ Cardinality(Nodes) = MaxNodes
  <2>1. ASSUME NEW b \in Nat
        PROVE  IsFiniteSet(1..b) /\ Cardinality(1..b) = b
    <3>1. IsFiniteSet(1..b) /\ Cardinality(1..b) = IF 1 > b THEN 0 ELSE b - 1 + 1
      BY FS_Interval
    <3>2. QED
      BY <3>1
  <2>2. l.len + 1 \in Nat
    BY <1>1
  <2>3. QED
    BY <1>1, <2>1, <2>2 DEF Nodes
<1>5. ~(Cardinality(Nodes) < Cardinality(1..(l.len + 1)))
  BY <1>2, <1>3, <1>4, FS_PigeonHole
<1>6. QED
  BY <1>1, <1>4, <1>5

(* What a list holds, of any heap.                                         *)
Vals(h, len, p) == [i \in 1..len |-> h[p[i]].value]

(* From h to k: the new node n is linked in as node j.                     *)
Inserted(h, k, p, len, j, n, v) ==
  /\ DOMAIN k = DOMAIN h \cup {n}
  /\ k[n] = [prec |-> IF j = 1 THEN Null ELSE p[j - 1],
             next |-> IF j = len + 1 THEN Null ELSE p[j], value |-> v]
  /\ \A m \in DOMAIN h :
       k[m] = [prec |-> IF j <= len /\ m = p[j] THEN n ELSE h[m].prec,
               next |-> IF 1 < j /\ m = p[j - 1] THEN n ELSE h[m].next,
               value |-> h[m].value]

(* From l to z: the ends after that.                                       *)
Widened(l, z, j, n) == /\ z.len = l.len + 1
                       /\ z.start = IF j = 1 THEN n ELSE l.start
                       /\ z.end = IF j = l.len + 1 THEN n ELSE l.end

LEMMA InsIsChain ==
  ASSUME NEW h, Typed(h), NEW l \in Headers, NEW p, Chain(h, l, p),
         NEW n \in Nodes \ DOMAIN h, NEW v \in Values, NEW j \in 1..(l.len + 1),
         NEW k, Inserted(h, k, p, l.len, j, n, v), NEW z, Widened(l, z, j, n)
  PROVE  Chain(k, z, Ins(p, l.len, j, n)) /\ Typed(k)
<1>1. l.len \in Nat /\ j \in Nat /\ z.len = l.len + 1
  BY HeaderFields DEF Widened
<1> DEFINE P == Ins(p, l.len, j, n)
<1>2. \A i \in 1..(l.len + 1) : P[i] = IF i < j THEN p[i] ELSE IF i = j THEN n ELSE p[i - 1]
  BY <1>1 DEF Ins
<1>3. \A i \in 1..l.len : p[i] \in DOMAIN h /\ p[i] # n /\ p[i] \in Nodes
  BY NodeOfChain
<1>4. \A i, m \in 1..l.len : i # m => p[i] # p[m]
  BY DEF Chain
<1>5. P \in [1..z.len -> DOMAIN k]
  <2>1. \A i \in 1..(l.len + 1) : P[i] \in DOMAIN k
    BY <1>1, <1>2, <1>3 DEF Inserted
  <2>2. P = [i \in 1..(l.len + 1) |-> P[i]]
    BY DEF Ins
  <2> HIDE DEF P
  <2>3. QED
    BY <1>1, <2>1, <2>2
<1> HIDE DEF P
<1>6. ASSUME NEW x \in 1..z.len, NEW y \in 1..z.len, x # y
      PROVE  P[x] # P[y]
  <2>1. x \in 1..(l.len + 1) /\ y \in 1..(l.len + 1)
    BY <1>1
  <2>2. CASE x = j \/ y = j
    BY <1>1, <1>2, <1>3, <1>6, <2>1, <2>2
  <2>3. CASE x # j /\ y # j
    BY <1>1, <1>2, <1>4, <1>6, <2>1, <2>3
  <2>4. QED
    BY <2>2, <2>3
<1>7. z.start = P[1] /\ z.end = P[z.len] /\ z.len # 0
  <2>1. l.start = IF l.len = 0 THEN Null ELSE p[1]
    BY DEF Chain
  <2>2. l.end = IF l.len = 0 THEN Null ELSE p[l.len]
    BY DEF Chain
  <2>3. 1 \in 1..(l.len + 1) /\ l.len + 1 \in 1..(l.len + 1)
    BY <1>1
  <2>4. P[1] = IF j = 1 THEN n ELSE p[1]
    BY <1>1, <1>2, <2>3
  <2>5. P[l.len + 1] = IF j = l.len + 1 THEN n ELSE p[l.len]
    BY <1>1, <1>2, <2>3
  <2>6. QED
    BY <1>1, <2>1, <2>2, <2>4, <2>5 DEF Widened
<1>8. ASSUME NEW i \in 1..z.len
      PROVE  /\ k[P[i]].prec = (IF i = 1 THEN Null ELSE P[i - 1])
             /\ k[P[i]].next = (IF i = z.len THEN Null ELSE P[i + 1])
  <2>1. i \in 1..(l.len + 1)
    BY <1>1
  <2>2. /\ i # 1 => P[i - 1] = IF i - 1 < j THEN p[i - 1] ELSE IF i - 1 = j THEN n ELSE p[i - 2]
        /\ i # z.len => P[i + 1] = IF i + 1 < j THEN p[i + 1] ELSE IF i + 1 = j THEN n ELSE p[i]
    BY <1>1, <1>2, <2>1
  <2>3. CASE i = j
    <3>1. P[i] = n
      BY <1>1, <1>2, <2>1, <2>3
    <3>2. /\ k[n].prec = IF j = 1 THEN Null ELSE p[j - 1]
          /\ k[n].next = IF j = l.len + 1 THEN Null ELSE p[j]
      BY DEF Inserted
    <3>3. QED
      BY <1>1, <2>1, <2>2, <2>3, <3>1, <3>2
  <2>4. CASE i < j
    <3>1. P[i] = p[i] /\ i \in 1..l.len
      BY <1>1, <1>2, <2>1, <2>4
    <3>2. /\ h[p[i]].prec = (IF i = 1 THEN Null ELSE p[i - 1])
          /\ h[p[i]].next = (IF i = l.len THEN Null ELSE p[i + 1])
      BY <3>1, NodeOfChain
    <3>3. /\ k[p[i]].prec = IF j <= l.len /\ p[i] = p[j] THEN n ELSE h[p[i]].prec
          /\ k[p[i]].next = IF 1 < j /\ p[i] = p[j - 1] THEN n ELSE h[p[i]].next
      BY <1>3, <3>1 DEF Inserted
    <3>4. j <= l.len => p[i] # p[j]
      BY <1>1, <1>4, <2>4, <3>1
    <3>5. p[i] = p[j - 1] <=> i = j - 1
      BY <1>1, <1>4, <2>4, <3>1
    <3>6. QED
      BY <1>1, <2>1, <2>2, <2>4, <3>1, <3>2, <3>3, <3>4, <3>5
  <2>5. CASE i > j
    <3>1. PICK m \in 1..l.len : m = i - 1 /\ i = m + 1
      BY <1>1, <2>1, <2>5
    <3>2. P[i] = p[m]
      BY <1>1, <1>2, <2>1, <2>5, <3>1
    <3>3. /\ h[p[m]].prec = (IF m = 1 THEN Null ELSE p[m - 1])
          /\ h[p[m]].next = (IF m = l.len THEN Null ELSE p[m + 1])
      BY NodeOfChain
    <3>4. /\ k[p[m]].prec = IF j <= l.len /\ p[m] = p[j] THEN n ELSE h[p[m]].prec
          /\ k[p[m]].next = IF 1 < j /\ p[m] = p[j - 1] THEN n ELSE h[p[m]].next
      BY <1>3 DEF Inserted
    <3>5. p[m] = p[j] <=> m = j
      BY <1>1, <1>4, <2>5, <3>1
    <3>6. 1 < j => p[m] # p[j - 1]
      BY <1>1, <1>4, <2>5, <3>1
    <3>7. i - 2 = m - 1 /\ i + 1 = m + 2
      BY <1>1, <3>1
    <3>8. QED
      BY <1>1, <2>1, <2>2, <2>5, <3>1, <3>2, <3>3, <3>4, <3>5, <3>6, <3>7
  <2>6. QED
    BY <1>1, <2>3, <2>4, <2>5
<1>9. Chain(k, z, P)
  BY <1>5, <1>6, <1>7, <1>8 DEF Chain
<1>10. Typed(k)
  <2>1. DOMAIN k \subseteq Nodes
    BY DEF Inserted, Typed
  <2>2. k[n] \in Lnodes
    <3>1. j # 1 => j - 1 \in 1..l.len
      BY <1>1
    <3>2. j # l.len + 1 => j \in 1..l.len
      BY <1>1
    <3>3. (IF j = 1 THEN Null ELSE p[j - 1]) \in Pointers
      BY <3>1, NodeOfChain, NodesAreNotNull
    <3>4. (IF j = l.len + 1 THEN Null ELSE p[j]) \in Pointers
      BY <3>2, NodeOfChain, NodesAreNotNull
    <3>5. QED
      BY <3>3, <3>4 DEF Inserted, Lnodes
  <2>3. ASSUME NEW m \in DOMAIN h
        PROVE  k[m] \in Lnodes
    <3>1. n \in Pointers /\ h[m].prec \in Pointers /\ h[m].next \in Pointers /\ h[m].value \in Values
      BY NodesAreNotNull DEF Typed, Lnodes
    <3>2. QED
      BY <3>1 DEF Inserted, Lnodes
  <2>4. QED
    BY <2>1, <2>2, <2>3 DEF Typed, Inserted
<1>11. QED
  BY <1>9, <1>10 DEF P

(* A chain none of whose nodes is changed.                                 *)
LEMMA KeptIsChain ==
  ASSUME NEW h, NEW l, NEW p, Chain(h, l, p), NEW k, NEW z,
         z.len = l.len, z.start = l.start, z.end = l.end,
         \A i \in 1..l.len : /\ p[i] \in DOMAIN k
                             /\ k[p[i]].prec = h[p[i]].prec /\ k[p[i]].next = h[p[i]].next
  PROVE  Chain(k, z, p)
BY DEF Chain

LEMMA InsIsTwo ==
  ASSUME NEW h, NEW l, NEW o, NEW p, NEW q, Two(h, l, o, p, q),
         NEW n \in Nodes \ DOMAIN h, NEW v \in Values, NEW j \in 1..(l.len + 1),
         NEW k, Inserted(h, k, p, l.len, j, n, v), NEW z \in Headers, Widened(l, z, j, n)
  PROVE  Two(k, z, o, Ins(p, l.len, j, n), q)
<1>1. Typed(h) /\ l \in Headers /\ o \in Headers /\ Chain(h, l, p) /\ Chain(h, o, q)
  BY DEF Two
<1>2. l.len \in Nat /\ z.len = l.len + 1 /\ j \in Nat
  BY <1>1, HeaderFields DEF Widened
<1> DEFINE P == Ins(p, l.len, j, n)
<1>3. Chain(k, z, P) /\ Typed(k)
  BY <1>1, InsIsChain
<1>4. \A i \in 1..(l.len + 1) : P[i] = IF i < j THEN p[i] ELSE IF i = j THEN n ELSE p[i - 1]
  BY <1>2 DEF Ins
<1> HIDE DEF P
<1>5. \A i \in 1..l.len, m \in 1..o.len : p[i] # q[m]
  BY DEF Two
<1>6. \A m \in 1..o.len : q[m] \in DOMAIN h /\ q[m] # n
  BY <1>1, NodeOfChain
<1>7. Chain(k, o, q)
  <2>1. ASSUME NEW m \in 1..o.len
        PROVE  /\ q[m] \in DOMAIN k
               /\ k[q[m]].prec = h[q[m]].prec /\ k[q[m]].next = h[q[m]].next
    <3>1. j <= l.len => q[m] # p[j]
      BY <1>2, <1>5
    <3>2. 1 < j => q[m] # p[j - 1]
      <4>1. 1 < j => j - 1 \in 1..l.len
        BY <1>2
      <4>2. QED
        BY <1>5, <4>1
    <3>3. QED
      BY <1>6, <3>1, <3>2 DEF Inserted
  <2>2. QED
    BY <1>1, <2>1, KeptIsChain
<1>8. \A i \in 1..z.len, m \in 1..o.len : P[i] # q[m]
  <2>1. ASSUME NEW i \in 1..(l.len + 1), NEW m \in 1..o.len
        PROVE  P[i] # q[m]
    <3>1. i < j => i \in 1..l.len
      BY <1>2
    <3>2. i > j => i - 1 \in 1..l.len
      BY <1>2
    <3>3. QED
      BY <1>2, <1>4, <1>5, <1>6, <3>1, <3>2
  <2>2. QED
    BY <1>2, <2>1
<1>9. ASSUME NEW m \in DOMAIN k
      PROVE  (\E i \in 1..z.len : P[i] = m) \/ (\E i \in 1..o.len : q[i] = m)
  <2>1. CASE m = n
    <3>1. j \in 1..z.len /\ P[j] = n
      BY <1>2, <1>4
    <3>2. QED
      BY <2>1, <3>1
  <2>2. CASE m \in DOMAIN h
    <3>1. CASE \E i \in 1..l.len : p[i] = m
      <4>1. PICK i \in 1..l.len : p[i] = m
        BY <3>1
      <4>2. CASE i < j
        <5>1. i \in 1..z.len /\ P[i] = m
          BY <1>2, <1>4, <4>1, <4>2
        <5>2. QED
          BY <5>1
      <4>3. CASE ~(i < j)
        <5>1. i + 1 \in 1..z.len /\ P[i + 1] = m
          BY <1>2, <1>4, <4>1, <4>3
        <5>2. QED
          BY <5>1
      <4>4. QED
        BY <4>2, <4>3
    <3>2. CASE \E i \in 1..o.len : q[i] = m
      BY <3>2
    <3>3. QED
      BY <2>2, <3>1, <3>2 DEF Two
  <2>3. QED
    BY <2>1, <2>2 DEF Inserted
<1>10. Two(k, z, o, P, q)
  BY <1>1, <1>3, <1>7, <1>8, <1>9 DEF Two
<1>11. QED
  BY <1>10 DEF P

(* From h to k: the nodes before a and those from b on are linked.         *)
Before(p, a) == IF a = 1 THEN Null ELSE p[a - 1]
Behind_(p, len, b) == IF b = len + 1 THEN Null ELSE p[b]

Bridged(h, k, p, len, a, b) ==
  \A i \in (1..len) \ (a..(b - 1)) :
    /\ p[i] \in DOMAIN k
    /\ k[p[i]].prec = IF i = b THEN Before(p, a) ELSE h[p[i]].prec
    /\ k[p[i]].next = IF i = a - 1 THEN Behind_(p, len, b) ELSE h[p[i]].next
    /\ k[p[i]].value = h[p[i]].value

Narrowed(l, z, p, a, b) ==
  /\ z.len = l.len - (b - a)
  /\ z.start = IF a = 1 THEN Behind_(p, l.len, b) ELSE l.start
  /\ z.end = IF b = l.len + 1 THEN Before(p, a) ELSE l.end

LEMMA CutIsChain ==
  ASSUME NEW h, Typed(h), NEW l \in Headers, NEW p, Chain(h, l, p),
         NEW a \in 1..l.len, NEW d \in 1..(l.len - a + 1),
         NEW k, Bridged(h, k, p, l.len, a, a + d), NEW z, Narrowed(l, z, p, a, a + d)
  PROVE  Chain(k, z, Cut(p, l.len, a, d))
<1>1. /\ l.len \in Nat /\ a \in Nat /\ d \in Nat /\ a >= 1 /\ d >= 1 /\ a + d <= l.len + 1
      /\ a <= l.len /\ a + d - a = d
  BY HeaderFields
<1>2. z.len = l.len - d
  BY <1>1 DEF Narrowed
<1> DEFINE P == Cut(p, l.len, a, d)
<1>3. \A i \in 1..(l.len - d) : P[i] = IF i < a THEN p[i] ELSE p[i + d]
  BY DEF Cut
<1>4. P = [i \in 1..(l.len - d) |-> P[i]]
  BY DEF Cut
<1> HIDE DEF P
<1>5. /\ \A i \in 1..l.len : /\ h[p[i]].prec = (IF i = 1 THEN Null ELSE p[i - 1])
                             /\ h[p[i]].next = (IF i = l.len THEN Null ELSE p[i + 1])
      /\ \A x, y \in 1..l.len : x # y => p[x] # p[y]
  BY DEF Chain
(* The nodes that stay, by their old indices.                              *)
<1>6. ASSUME NEW i \in 1..(l.len - d)
      PROVE  \E m \in (1..l.len) \ (a..(a + d - 1)) : 
               m = (IF i < a THEN i ELSE i + d) /\ P[i] = p[m]
  <2>1. (IF i < a THEN i ELSE i + d) \in (1..l.len) \ (a..(a + d - 1))
    BY <1>1
  <2>2. QED
    BY <1>3, <2>1
<1>7. \A m \in (1..l.len) \ (a..(a + d - 1)) :
        /\ p[m] \in DOMAIN k
        /\ k[p[m]].prec = IF m = a + d THEN Before(p, a) ELSE h[p[m]].prec
        /\ k[p[m]].next = IF m = a - 1 THEN Behind_(p, l.len, a + d) ELSE h[p[m]].next
  BY DEF Bridged
<1>8. P \in [1..z.len -> DOMAIN k]
  BY <1>2, <1>4, <1>6, <1>7
<1>9. ASSUME NEW x \in 1..z.len, NEW y \in 1..z.len, x # y
      PROVE  P[x] # P[y]
  <2>1. PICK m \in 1..l.len : m = (IF x < a THEN x ELSE x + d) /\ P[x] = p[m]
    BY <1>2, <1>6
  <2>2. PICK n \in 1..l.len : n = (IF y < a THEN y ELSE y + d) /\ P[y] = p[n]
    BY <1>2, <1>6
  <2>3. m # n
    BY <1>1, <1>9, <1>2, <2>1, <2>2
  <2>4. QED
    BY <1>5, <2>1, <2>2, <2>3
<1>10. /\ z.start = (IF z.len = 0 THEN Null ELSE P[1])
       /\ z.end = (IF z.len = 0 THEN Null ELSE P[z.len])
  <2>1. l.start = p[1] /\ l.end = p[l.len]
    BY <1>1 DEF Chain
  <2>2. /\ z.start = IF a = 1 THEN (IF a + d = l.len + 1 THEN Null ELSE p[a + d]) ELSE p[1]
        /\ z.end = IF a + d = l.len + 1 THEN (IF a = 1 THEN Null ELSE p[a - 1]) ELSE p[l.len]
    BY <2>1 DEF Narrowed, Before, Behind_
  <2>3. CASE z.len = 0
    <3>1. a = 1 /\ a + d = l.len + 1
      BY <1>1, <1>2, <2>3
    <3>2. QED
      BY <2>2, <2>3, <3>1
  <2>4. CASE z.len # 0
    <3>1. 1 \in 1..(l.len - d) /\ z.len \in 1..(l.len - d)
      BY <1>1, <1>2, <2>4
    <3>2. P[1] = IF a = 1 THEN p[a + d] ELSE p[1]
      <4>1. 1 + d = a + d <=> a = 1
        BY <1>1
      <4>2. P[1] = IF 1 < a THEN p[1] ELSE p[1 + d]
        BY <1>3, <3>1
      <4>3. QED
        BY <1>1, <4>1, <4>2
    <3>3. P[z.len] = IF z.len < a THEN p[z.len] ELSE p[l.len]
      <4>1. z.len + d = l.len
        BY <1>1, <1>2
      <4>2. QED
        BY <1>3, <3>1, <4>1
    <3>4. z.len < a <=> a + d = l.len + 1
      BY <1>1, <1>2
    <3>5. a + d = l.len + 1 => z.len = a - 1 /\ a # 1
      BY <1>1, <1>2, <2>4
    <3>6. QED
      BY <2>2, <2>4, <3>2, <3>3, <3>4, <3>5
  <2>5. QED
    BY <2>3, <2>4
<1>11. ASSUME NEW i \in 1..z.len
       PROVE  /\ k[P[i]].prec = (IF i = 1 THEN Null ELSE P[i - 1])
              /\ k[P[i]].next = (IF i = z.len THEN Null ELSE P[i + 1])
  <2>1. i \in 1..(l.len - d) /\ i \in Nat
    BY <1>2
  <2>2. /\ i # 1 => P[i - 1] = IF i - 1 < a THEN p[i - 1] ELSE p[i - 1 + d]
        /\ i # z.len => P[i + 1] = IF i + 1 < a THEN p[i + 1] ELSE p[i + 1 + d]
    BY <1>1, <1>2, <1>3, <2>1
  <2>3. PICK m \in (1..l.len) \ (a..(a + d - 1)) :
          m = (IF i < a THEN i ELSE i + d) /\ P[i] = p[m]
    BY <1>6, <2>1
  <2>4. /\ k[p[m]].prec = IF m = a + d THEN Before(p, a)
                          ELSE IF m = 1 THEN Null ELSE p[m - 1]
        /\ k[p[m]].next = IF m = a - 1 THEN Behind_(p, l.len, a + d)
                          ELSE IF m = l.len THEN Null ELSE p[m + 1]
    BY <1>5, <1>7
  <2>5. CASE i < a
    <3>1. m = i /\ m # a + d /\ (m = l.len => d = 0)
      BY <1>1, <2>1, <2>3, <2>5
    <3>2. i # 1 => P[i - 1] = p[m - 1]
      BY <1>1, <2>1, <2>2, <2>5, <3>1
    <3>3. k[P[i]].prec = (IF i = 1 THEN Null ELSE P[i - 1])
      BY <2>3, <2>4, <3>1, <3>2
    <3>4. m # a - 1 => m # l.len /\ i # z.len /\ P[i + 1] = p[m + 1]
      BY <1>1, <1>2, <2>1, <2>2, <2>5, <3>1
    <3>5. m = a - 1 => (i = z.len <=> a + d = l.len + 1)
      BY <1>1, <1>2, <2>1, <3>1
    <3>6. m = a - 1 /\ i # z.len => P[i + 1] = p[a + d]
      <4>1. m = a - 1 => ~(i + 1 < a) /\ i + 1 + d = a + d
        BY <1>1, <2>1, <3>1
      <4>2. QED
        BY <2>2, <4>1
    <3>7. k[P[i]].next = (IF i = z.len THEN Null ELSE P[i + 1])
      BY <2>3, <2>4, <3>4, <3>5, <3>6 DEF Behind_
    <3>8. QED
      BY <3>3, <3>7
  <2>6. CASE ~(i < a)
    <3>1. m = i + d /\ m # a - 1 /\ m # 1 /\ (m = l.len <=> i = z.len) /\ (m = a + d <=> i = a)
      BY <1>1, <1>2, <2>1, <2>3, <2>6
    <3>2. i # z.len => P[i + 1] = p[m + 1]
      <4>1. ~(i + 1 < a) /\ i + 1 + d = m + 1
        BY <1>1, <2>1, <2>6, <3>1
      <4>2. QED
        BY <2>2, <4>1
    <3>3. k[P[i]].next = (IF i = z.len THEN Null ELSE P[i + 1])
      BY <2>3, <2>4, <3>1, <3>2
    <3>4. i # a => i # 1 /\ P[i - 1] = p[m - 1]
      <4>1. i # a => i # 1 /\ ~(i - 1 < a) /\ i - 1 + d = m - 1
        BY <1>1, <2>1, <2>6, <3>1
      <4>2. QED
        BY <2>2, <4>1
    <3>5. i = a /\ i # 1 => P[i - 1] = p[a - 1]
      <4>1. i = a => i - 1 < a
        BY <1>1
      <4>2. QED
        BY <2>2, <4>1
    <3>6. k[P[i]].prec = (IF i = 1 THEN Null ELSE P[i - 1])
      BY <2>3, <2>4, <3>1, <3>4, <3>5 DEF Before
    <3>7. QED
      BY <3>3, <3>6
  <2>7. QED
    BY <2>5, <2>6
<1>12. Chain(k, z, P)
  BY <1>8, <1>9, <1>10, <1>11 DEF Chain
<1>13. QED
  BY <1>12 DEF P

LEMMA Swapped ==
  ASSUME NEW h, NEW l, NEW o, NEW p, NEW q, Two(h, l, o, p, q)
  PROVE  Two(h, o, l, q, p)
BY DEF Two

LEMMA TwoFacts ==
  ASSUME NEW h, NEW l, NEW o, NEW p, NEW q, Two(h, l, o, p, q)
  PROVE  /\ Typed(h) /\ l \in Headers /\ o \in Headers /\ Chain(h, l, p) /\ Chain(h, o, q)
         /\ \A i \in 1..l.len, j \in 1..o.len : p[i] # q[j]
         /\ l.len \in Nat /\ o.len \in Nat
BY HeaderFields DEF Two

LEMMA ZeroedFacts ==
  /\ Zeroed \in Headers /\ Zeroed.len = 0 /\ Zeroed.current = Null /\ Zeroed.pos = 0
  /\ Zeroed.start = Null /\ Zeroed.end = Null
BY NodesAreNotNull DEF Zeroed, Headers

NoNodes == [i \in 1..0 |-> Null]

LEMMA EmptyIsChain ==
  ASSUME NEW h, NEW l, l.len = 0, l.start = Null, l.end = Null
  PROVE  Chain(h, l, NoNodes)
BY DEF Chain, NoNodes

(* The two lists after d nodes of one were freed.                          *)
LEMMA CutIsTwo ==
  ASSUME NEW h, NEW l, NEW o, NEW p, NEW q, Two(h, l, o, p, q),
         NEW a \in 1..l.len, NEW d \in 1..(l.len - a + 1),
         NEW k, Typed(k), DOMAIN k = DOMAIN h \ {p[i] : i \in a..(a + d - 1)},
         Bridged(h, k, p, l.len, a, a + d),
         \A m \in 1..o.len : k[q[m]] = h[q[m]],
         NEW z \in Headers, Narrowed(l, z, p, a, a + d)
  PROVE  Two(k, z, o, Cut(p, l.len, a, d), q)
<1>1. /\ Typed(h) /\ l \in Headers /\ o \in Headers /\ Chain(h, l, p) /\ Chain(h, o, q)
      /\ \A i \in 1..l.len, j \in 1..o.len : p[i] # q[j]
      /\ l.len \in Nat
  BY TwoFacts
<1>2. /\ a \in Nat /\ d \in Nat /\ a >= 1 /\ d >= 1 /\ a + d <= l.len + 1 /\ z.len = l.len - d
  BY <1>1 DEF Narrowed
<1> DEFINE P == Cut(p, l.len, a, d)
<1>3. Chain(k, z, P)
  BY <1>1, CutIsChain
<1>4. \A i \in 1..(l.len - d) : P[i] = IF i < a THEN p[i] ELSE p[i + d]
  BY DEF Cut
<1> HIDE DEF P
<1>5. Chain(k, o, q)
  <2>1. \A m \in 1..o.len : q[m] \in DOMAIN h /\ \A i \in 1..l.len : p[i] # q[m]
    BY <1>1, NodeOfChain
  <2>2. \A i \in a..(a + d - 1) : i \in 1..l.len
    BY <1>1, <1>2
  <2>3. \A m \in 1..o.len : q[m] \in DOMAIN k
    BY <2>1, <2>2
  <2>4. QED
    BY <1>1, <2>3, KeptIsChain
<1>6. \A i \in 1..z.len, m \in 1..o.len : P[i] # q[m]
  <2>1. ASSUME NEW i \in 1..z.len, NEW m \in 1..o.len
        PROVE  P[i] # q[m]
    <3>1. i \in 1..(l.len - d) /\ (IF i < a THEN i ELSE i + d) \in 1..l.len
      BY <1>1, <1>2
    <3>2. P[i] = p[IF i < a THEN i ELSE i + d]
      BY <1>4, <3>1
    <3>3. QED
      BY <1>1, <3>1, <3>2
  <2>2. QED
    BY <2>1
<1>7. ASSUME NEW m \in DOMAIN k
      PROVE  (\E i \in 1..z.len : P[i] = m) \/ (\E i \in 1..o.len : q[i] = m)
  <2>1. m \in DOMAIN h /\ \A i \in a..(a + d - 1) : p[i] # m
    OBVIOUS
  <2>2. CASE \E i \in 1..l.len : p[i] = m
    <3>1. PICK i \in 1..l.len : p[i] = m
      BY <2>2
    <3>2. i \notin a..(a + d - 1)
      BY <2>1, <3>1
    <3>3. CASE i < a
      <4>1. i \in 1..z.len /\ P[i] = m
        BY <1>1, <1>2, <1>4, <3>1, <3>3
      <4>2. QED
        BY <4>1
    <3>4. CASE ~(i < a)
      <4>1. i - d \in 1..z.len /\ i - d \in 1..(l.len - d) /\ ~(i - d < a) /\ i - d + d = i
        BY <1>1, <1>2, <3>2, <3>4
      <4>2. P[i - d] = m
        BY <1>4, <3>1, <4>1
      <4>3. QED
        BY <4>1, <4>2
    <3>5. QED
      BY <3>3, <3>4
  <2>3. CASE \E i \in 1..o.len : q[i] = m
    BY <2>3
  <2>4. QED
    BY <2>1, <2>2, <2>3 DEF Two
<1>8. Two(k, z, o, P, q)
  BY <1>1, <1>3, <1>5, <1>6, <1>7 DEF Two
<1>9. QED
  BY <1>8 DEF P

(* The two lists after d nodes have moved from the first to the second.    *)
Part(p, a, d) == [i \in 1..d |-> p[a + (i - 1)]]

LEMMA PartIsTwo ==
  ASSUME NEW h, NEW l, NEW o, NEW p, NEW q, Two(h, l, o, p, q), o.len = 0,
         NEW a \in 1..l.len, NEW d \in 1..(l.len - a + 1),
         NEW k, Typed(k), DOMAIN k = DOMAIN h,
         Bridged(h, k, p, l.len, a, a + d),
         \A i \in a..(a + d - 1) :
           /\ k[p[i]].prec = IF i = a THEN Null ELSE h[p[i]].prec
           /\ k[p[i]].next = IF i = a + d - 1 THEN Null ELSE h[p[i]].next,
         NEW z \in Headers, Narrowed(l, z, p, a, a + d),
         NEW w \in Headers, w.len = d, w.start = p[a], w.end = p[a + d - 1]
  PROVE  Two(k, z, w, Cut(p, l.len, a, d), Part(p, a, d))
<1>1. /\ Typed(h) /\ l \in Headers /\ Chain(h, l, p) /\ l.len \in Nat
  BY TwoFacts
<1>2. /\ a \in Nat /\ d \in Nat /\ a >= 1 /\ d >= 1 /\ a + d <= l.len + 1 /\ z.len = l.len - d
      /\ a + d - 1 \in a..(a + d - 1) /\ a \in a..(a + d - 1)
  BY <1>1 DEF Narrowed
<1>3. /\ \A i \in 1..l.len : /\ h[p[i]].prec = (IF i = 1 THEN Null ELSE p[i - 1])
                             /\ h[p[i]].next = (IF i = l.len THEN Null ELSE p[i + 1])
                             /\ p[i] \in DOMAIN h
      /\ \A x, y \in 1..l.len : x # y => p[x] # p[y]
  BY <1>1 DEF Chain
<1> DEFINE P == Cut(p, l.len, a, d)
           R == Part(p, a, d)
<1>4. Chain(k, z, P)
  BY <1>1, CutIsChain
<1>5. \A i \in 1..(l.len - d) : P[i] = IF i < a THEN p[i] ELSE p[i + d]
  BY DEF Cut
<1>6. R = [i \in 1..d |-> R[i]] /\ \A i \in 1..d : R[i] = p[a + (i - 1)]
  BY DEF Part
<1> HIDE DEF P, R
<1>7. \A i \in 1..d : a + (i - 1) \in 1..l.len /\ a + (i - 1) \in a..(a + d - 1)
  BY <1>1, <1>2
<1>8. Chain(k, w, R)
  <2>1. R \in [1..w.len -> DOMAIN k]
    BY <1>3, <1>6, <1>7
  <2>2. \A x, y \in 1..w.len : x # y => R[x] # R[y]
    <3>1. ASSUME NEW x \in 1..d, NEW y \in 1..d, x # y
          PROVE  R[x] # R[y]
      <4>1. a + (x - 1) # a + (y - 1)
        BY <1>2, <3>1
      <4>2. R[x] = p[a + (x - 1)] /\ R[y] = p[a + (y - 1)]
        BY <1>6
      <4>3. a + (x - 1) \in 1..l.len /\ a + (y - 1) \in 1..l.len
        BY <1>7
      <4>4. QED
        BY <1>3, <4>1, <4>2, <4>3
    <3>2. QED
      BY <3>1
  <2>3. R[1] = p[a] /\ R[d] = p[a + d - 1] /\ w.len # 0
    <3>1. a + (1 - 1) = a /\ a + (d - 1) = a + d - 1 /\ 1 \in 1..d /\ d \in 1..d
      BY <1>2
    <3>2. QED
      BY <1>2, <1>6, <3>1
  <2>4. ASSUME NEW i \in 1..d
        PROVE  /\ k[R[i]].prec = (IF i = 1 THEN Null ELSE R[i - 1])
               /\ k[R[i]].next = (IF i = d THEN Null ELSE R[i + 1])
    <3>1. PICK m \in 1..l.len : m = a + (i - 1) /\ m \in a..(a + d - 1) /\ R[i] = p[m]
      BY <1>6, <1>7
    <3>2. /\ k[p[m]].prec = IF m = a THEN Null ELSE IF m = 1 THEN Null ELSE p[m - 1]
          /\ k[p[m]].next = IF m = a + d - 1 THEN Null ELSE IF m = l.len THEN Null ELSE p[m + 1]
      BY <1>3, <3>1
    <3>3. (m = a <=> i = 1) /\ (m = a + d - 1 <=> i = d)
      BY <1>2, <3>1
    <3>4. i # 1 => m # 1 /\ R[i - 1] = p[m - 1]
      <4>1. i # 1 => m # 1 /\ i - 1 \in 1..d /\ a + (i - 1 - 1) = m - 1
        BY <1>2, <3>1
      <4>2. QED
        BY <1>6, <4>1
    <3>5. i # d => m # l.len /\ R[i + 1] = p[m + 1]
      <4>1. i # d => m # l.len /\ i + 1 \in 1..d /\ a + (i + 1 - 1) = m + 1
        <5>1. i # d => i + 1 \in 1..d /\ i < d
          BY <1>2
        <5>2. i < d => m < a + d - 1
          BY <1>2, <3>1
        <5>3. m < a + d - 1 => m # l.len
          BY <1>1, <1>2, <3>1
        <5>4. a + (i + 1 - 1) = m + 1
          BY <1>2, <3>1
        <5>5. QED
          BY <5>1, <5>2, <5>3, <5>4
      <4>2. ASSUME i # d
            PROVE  R[i + 1] = p[a + (i + 1 - 1)]
        <5>1. PICK j \in 1..d : j = i + 1
          BY <4>1, <4>2
        <5>2. R[j] = p[a + (j - 1)]
          BY <1>6
        <5>3. QED
          BY <5>1, <5>2
      <4>3. QED
        BY <4>1, <4>2
    <3>6. QED
      BY <3>1, <3>2, <3>3, <3>4, <3>5
  <2>5. QED
    BY <2>1, <2>2, <2>3, <2>4 DEF Chain
<1>9. \A i \in 1..z.len, m \in 1..w.len : P[i] # R[m]
  <2>1. ASSUME NEW i \in 1..z.len, NEW m \in 1..d
        PROVE  P[i] # R[m]
    <3>1. i \in 1..(l.len - d) /\ (IF i < a THEN i ELSE i + d) \in 1..l.len
      BY <1>1, <1>2
    <3>2. P[i] = p[IF i < a THEN i ELSE i + d]
      BY <1>5, <3>1
    <3>3. (IF i < a THEN i ELSE i + d) # a + (m - 1)
      BY <1>2
    <3>4. QED
      BY <1>3, <1>6, <1>7, <3>1, <3>2, <3>3
  <2>2. QED
    BY <2>1
<1>10. ASSUME NEW m \in DOMAIN k
       PROVE  (\E i \in 1..z.len : P[i] = m) \/ (\E i \in 1..w.len : R[i] = m)
  <2>1. PICK i \in 1..l.len : p[i] = m
    <3>1. \A j : j \notin 1..o.len
      BY SMT
    <3>2. QED
      BY <3>1 DEF Two
  <2>2. CASE i < a
    <3>1. i \in 1..z.len /\ P[i] = m
      BY <1>1, <1>2, <1>5, <2>1, <2>2
    <3>2. QED
      BY <3>1
  <2>3. CASE i >= a + d
    <3>1. i - d \in 1..z.len /\ i - d \in 1..(l.len - d) /\ ~(i - d < a) /\ i - d + d = i
      BY <1>1, <1>2, <2>3
    <3>2. P[i - d] = m
      BY <1>5, <2>1, <3>1
    <3>3. QED
      BY <3>1, <3>2
  <2>4. CASE i >= a /\ i < a + d
    <3>1. (i - a) + 1 \in 1..d /\ a + ((i - a) + 1 - 1) = i
      BY <1>1, <1>2, <2>4
    <3>2. R[(i - a) + 1] = m
      BY <1>6, <2>1, <3>1
    <3>3. QED
      BY <3>1, <3>2
  <2>5. QED
    BY <1>1, <1>2, <2>2, <2>3, <2>4
<1>11. Two(k, z, w, P, R)
  BY <1>1, <1>4, <1>8, <1>9, <1>10 DEF Two
<1>12. QED
  BY <1>11 DEF P, R

(* The two lists after all nodes of one were freed.                        *)
LEMMA FreedIsTwo ==
  ASSUME NEW h, NEW l, NEW o, NEW p, NEW q, Two(h, l, o, p, q)
  PROVE  Two(Without(h, {p[i] : i \in 1..l.len}), Zeroed, o, NoNodes, q)
<1> DEFINE k == Without(h, {p[i] : i \in 1..l.len})
<1>1. /\ Typed(h) /\ l \in Headers /\ o \in Headers /\ Chain(h, l, p) /\ Chain(h, o, q)
      /\ \A i \in 1..l.len, j \in 1..o.len : p[i] # q[j]
  BY TwoFacts
<1>2. /\ DOMAIN k = DOMAIN h \ {p[i] : i \in 1..l.len}
      /\ \A m \in DOMAIN k : k[m] = h[m]
  BY DEF Without
<1> HIDE DEF k
<1>3. \A j \in 1..o.len : q[j] \in DOMAIN k /\ k[q[j]] = h[q[j]]
  BY <1>1, <1>2, NodeOfChain
<1>4. Chain(k, o, q)
  BY <1>1, <1>3, KeptIsChain
<1>5. Typed(k)
  BY <1>1, <1>2 DEF Typed
<1>6. Chain(k, Zeroed, NoNodes)
  BY ZeroedFacts, EmptyIsChain
<1>7. \A i : i \notin 1..Zeroed.len
  BY ZeroedFacts
<1>8. \A m \in DOMAIN k : \E j \in 1..o.len : q[j] = m
  BY <1>2 DEF Two
<1>9. Two(k, Zeroed, o, NoNodes, q)
  BY <1>1, <1>4, <1>5, <1>6, <1>7, <1>8, ZeroedFacts DEF Two
<1>10. QED
  BY <1>9 DEF k

-----------------------------------------------------------------------------
(* What the lists hold.                                                    *)

LEMMA ValsFacts ==
  ASSUME NEW h, Typed(h), NEW l \in Headers, NEW p, Chain(h, l, p)
  PROVE  /\ Vals(h, l.len, p) \in Seq(Values) /\ Len(Vals(h, l.len, p)) = l.len
         /\ \A i \in 1..l.len : Vals(h, l.len, p)[i] = h[p[i]].value
<1>1. l.len \in Nat
  BY HeaderFields
<1>2. \A i \in 1..l.len : h[p[i]].value \in Values
  BY NodeOfChain DEF Lnodes
<1>3. QED
  BY <1>1, <1>2 DEF Vals

(* Two sequences in a row, element by element.                             *)
LEMMA Joined ==
  ASSUME NEW S, NEW s \in Seq(S), NEW t \in Seq(S)
  PROVE  /\ s \o t \in Seq(S) /\ Len(s \o t) = Len(s) + Len(t)
         /\ \A i \in 1..(Len(s) + Len(t)) :
              (s \o t)[i] = IF i <= Len(s) THEN s[i] ELSE t[i - Len(s)]
OBVIOUS

LEMMA Prefix ==
  ASSUME NEW S, NEW s \in Seq(S), NEW b \in 0..Len(s)
  PROVE  /\ SubSeq(s, 1, b) \in Seq(S) /\ Len(SubSeq(s, 1, b)) = b
         /\ \A i \in 1..b : SubSeq(s, 1, b)[i] = s[i]
OBVIOUS

LEMMA Suffix ==
  ASSUME NEW S, NEW s \in Seq(S), NEW a \in 1..(Len(s) + 1)
  PROVE  /\ SubSeq(s, a, Len(s)) \in Seq(S) /\ Len(SubSeq(s, a, Len(s))) = Len(s) + 1 - a
         /\ \A i \in 1..(Len(s) + 1 - a) : SubSeq(s, a, Len(s))[i] = s[a + (i - 1)]
OBVIOUS

(* t is s with v put at j.                                                 *)
Spliced(s, t, j, v) == /\ t = SubSeq(s, 1, j - 1) \o <<v>> \o SubSeq(s, j, Len(s))
                       /\ j = 1 => t = <<v>> \o s
                       /\ j = Len(s) + 1 => t = Append(s, v)

LEMMA ValsOfIns ==
  ASSUME NEW s \in Seq(Values), NEW j \in 1..(Len(s) + 1), NEW v \in Values,
         NEW t \in Seq(Values), Len(t) = Len(s) + 1,
         \A i \in 1..(Len(s) + 1) : t[i] = IF i < j THEN s[i] ELSE IF i = j THEN v ELSE s[i - 1]
  PROVE  Spliced(s, t, j, v)
<1>1. PICK n \in Nat : n = Len(s)
  OBVIOUS
<1>2. j \in Nat /\ j - 1 \in 0..Len(s) /\ j >= 1 /\ j <= n + 1
  BY <1>1
<1> DEFINE a == SubSeq(s, 1, j - 1)
           b == <<v>>
           c == SubSeq(s, j, Len(s))
<1>3. a \in Seq(Values) /\ Len(a) = j - 1 /\ \A i \in 1..(j - 1) : a[i] = s[i]
  BY <1>2, Prefix
<1>4. b \in Seq(Values) /\ Len(b) = 1 /\ b[1] = v
  OBVIOUS
<1>5. /\ c \in Seq(Values) /\ Len(c) = n + 1 - j
      /\ \A i \in 1..(n + 1 - j) : c[i] = s[j + (i - 1)]
  BY <1>1, Suffix
<1> HIDE DEF a, b, c
<1>6. /\ a \o b \in Seq(Values) /\ Len(a \o b) = j
      /\ \A i \in 1..j : (a \o b)[i] = IF i < j THEN s[i] ELSE v
  <2>1. /\ a \o b \in Seq(Values) /\ Len(a \o b) = Len(a) + Len(b)
        /\ \A i \in 1..(Len(a) + Len(b)) :
              (a \o b)[i] = IF i <= Len(a) THEN a[i] ELSE b[i - Len(a)]
    BY <1>3, <1>4, Joined
  <2>2. QED
    BY <1>2, <1>3, <1>4, <2>1
<1> DEFINE d == a \o b
<1> HIDE DEF d
<1>7. /\ d \o c \in Seq(Values) /\ Len(d \o c) = n + 1
      /\ \A i \in 1..(n + 1) : (d \o c)[i] = IF i <= j THEN d[i] ELSE c[i - j]
  <2>1. d \in Seq(Values) /\ Len(d) = j
    BY <1>6 DEF d
  <2>2. /\ d \o c \in Seq(Values) /\ Len(d \o c) = Len(d) + Len(c)
        /\ \A i \in 1..(Len(d) + Len(c)) :
              (d \o c)[i] = IF i <= Len(d) THEN d[i] ELSE c[i - Len(d)]
    BY <1>5, <2>1, Joined
  <2>3. j + (n + 1 - j) = n + 1
    BY <1>2
  <2>4. QED
    BY <1>5, <2>1, <2>2, <2>3
<1>8. ASSUME NEW i \in 1..(n + 1)
      PROVE  (d \o c)[i] = t[i]
  <2>1. t[i] = IF i < j THEN s[i] ELSE IF i = j THEN v ELSE s[i - 1]
    BY <1>1
  <2>2. CASE i <= j
    BY <1>2, <1>6, <1>7, <2>1, <2>2 DEF d
  <2>3. CASE i > j
    <3>1. i - j \in 1..(n + 1 - j) /\ j + (i - j - 1) = i - 1
      BY <1>2, <2>3
    <3>2. c[i - j] = s[i - 1]
      BY <1>5, <3>1
    <3>3. ~(i < j) /\ i # j /\ ~(i <= j)
      BY <1>2, <2>3
    <3>4. t[i] = s[i - 1]
      BY <2>1, <3>3
    <3>5. (d \o c)[i] = c[i - j]
      BY <1>7, <3>3
    <3>6. QED
      BY <3>2, <3>4, <3>5
  <2>4. i <= j \/ i > j
    BY <1>2
  <2>5. QED
    BY <2>2, <2>3, <2>4
<1>9. d \o c = t
  BY <1>1, <1>7, <1>8, SeqEqual
<1>10. t = a \o b \o c
  BY <1>9 DEF d
<1>11. ASSUME j = 1
       PROVE  t = b \o s
  <2>1. /\ b \o s \in Seq(Values) /\ Len(b \o s) = Len(b) + Len(s)
        /\ \A i \in 1..(Len(b) + Len(s)) :
              (b \o s)[i] = IF i <= Len(b) THEN b[i] ELSE s[i - Len(b)]
    <3>1. b \in Seq(Values) /\ s \in Seq(Values)
      BY <1>4
    <3>2. QED
      BY <3>1, Joined, Zenon
  <2>2. Len(b \o s) = Len(t)
    BY <1>1, <1>4, <2>1
  <2>3. \A i \in 1..(n + 1) : (b \o s)[i] = t[i]
    BY <1>1, <1>4, <1>11, <2>1
  <2>4. \A i \in 1..Len(b \o s) : (b \o s)[i] = t[i]
    BY <1>1, <2>2, <2>3
  <2>5. b \o s = t
    BY <2>1, <2>2, <2>4, SeqEqual, Zenon
  <2>6. QED
    BY <2>5
<1>12. ASSUME j = Len(s) + 1
       PROVE  t = Append(s, v)
  <2>1. \A i \in 1..(n + 1) : Append(s, v)[i] = t[i]
    BY <1>1, <1>12
  <2>2. QED
    BY <1>1, <2>1, SeqEqual
<1>13. QED
  BY <1>10, <1>11, <1>12 DEF Spliced, a, b, c

LEMMA ValsOfCut ==
  ASSUME NEW s \in Seq(Values), NEW a \in 1..Len(s), NEW d \in 1..(Len(s) - a + 1),
         NEW t \in Seq(Values), Len(t) = Len(s) - d,
         \A i \in 1..(Len(s) - d) : t[i] = IF i < a THEN s[i] ELSE s[i + d]
  PROVE  t = SubSeq(s, 1, a - 1) \o SubSeq(s, a + d, Len(s))
<1>1. PICK n \in Nat : n = Len(s)
  OBVIOUS
<1>2. /\ a \in Nat /\ a - 1 \in 0..Len(s) /\ a >= 1 /\ a <= n /\ d \in Nat /\ d >= 1
      /\ a + d \in 1..(Len(s) + 1) /\ a + d <= n + 1
  BY <1>1
<1> DEFINE x == SubSeq(s, 1, a - 1)
           y == SubSeq(s, a + d, Len(s))
<1>3. x \in Seq(Values) /\ Len(x) = a - 1 /\ \A i \in 1..(a - 1) : x[i] = s[i]
  BY <1>2, Prefix
<1>4. /\ y \in Seq(Values) /\ Len(y) = n + 1 - (a + d)
      /\ \A i \in 1..(n + 1 - (a + d)) : y[i] = s[a + d + (i - 1)]
  <2>1. PICK b \in 1..(Len(s) + 1) : b = a + d
    BY <1>2
  <2>2. /\ SubSeq(s, b, Len(s)) \in Seq(Values) /\ Len(SubSeq(s, b, Len(s))) = Len(s) + 1 - b
        /\ \A i \in 1..(Len(s) + 1 - b) : SubSeq(s, b, Len(s))[i] = s[b + (i - 1)]
    BY Suffix, SMTT(40)
  <2>3. QED
    BY <1>1, <2>1, <2>2
<1> HIDE DEF x, y
<1>5. /\ x \o y \in Seq(Values) /\ Len(x \o y) = n - d
      /\ \A i \in 1..(n - d) : (x \o y)[i] = IF i < a THEN x[i] ELSE y[i - (a - 1)]
  <2>1. /\ x \o y \in Seq(Values) /\ Len(x \o y) = Len(x) + Len(y)
        /\ \A i \in 1..(Len(x) + Len(y)) :
              (x \o y)[i] = IF i <= Len(x) THEN x[i] ELSE y[i - Len(x)]
    BY <1>3, <1>4, Joined
  <2>2. Len(x) + Len(y) = n - d /\ \A i \in 1..(n - d) : i <= Len(x) <=> i < a
    BY <1>2, <1>3, <1>4
  <2>3. QED
    BY <1>3, <2>1, <2>2
<1>6. ASSUME NEW i \in 1..(n - d)
      PROVE  (x \o y)[i] = t[i]
  <2>1. CASE i < a
    BY <1>1, <1>2, <1>3, <1>5, <2>1
  <2>2. CASE ~(i < a)
    <3>1. i - (a - 1) \in 1..(n + 1 - (a + d)) /\ a + d + (i - (a - 1) - 1) = i + d
      BY <1>2, <2>2
    <3>2. y[i - (a - 1)] = s[i + d]
      BY <1>4, <3>1
    <3>3. QED
      BY <1>1, <1>5, <2>2, <3>2
  <2>3. QED
    BY <2>1, <2>2
<1>7. t = x \o y
  BY <1>1, <1>5, <1>6, SeqEqual
<1>8. QED
  BY <1>7 DEF x, y

-----------------------------------------------------------------------------
(* Links.                                                                  *)

LEMMA SetPrecFacts ==
  ASSUME NEW h, Typed(h), NEW x \in Pointers, NEW y \in Pointers, x # Null => x \in DOMAIN h
  PROVE  /\ Typed(SetPrec(h, x, y)) /\ DOMAIN SetPrec(h, x, y) = DOMAIN h
         /\ \A m \in DOMAIN h :
              /\ SetPrec(h, x, y)[m].prec = IF m = x THEN y ELSE h[m].prec
              /\ SetPrec(h, x, y)[m].next = h[m].next
              /\ SetPrec(h, x, y)[m].value = h[m].value
<1>1. \A m \in DOMAIN h : m # Null /\ h[m] \in Lnodes
  BY NodesAreNotNull DEF Typed
<1>2. CASE x = Null
  BY <1>1, <1>2 DEF SetPrec
<1>3. CASE x # Null
  <2>1. SetPrec(h, x, y) = [h EXCEPT ![x].prec = y]
    BY <1>3 DEF SetPrec
  <2>2. [h[x] EXCEPT !.prec = y] \in Lnodes
    BY <1>1, <1>3 DEF Lnodes
  <2>3. \A m \in DOMAIN h : SetPrec(h, x, y)[m] = IF m = x THEN [h[x] EXCEPT !.prec = y] ELSE h[m]
    BY <1>3, <2>1
  <2>4. DOMAIN SetPrec(h, x, y) = DOMAIN h
    BY <2>1
  <2>5. /\ [h[x] EXCEPT !.prec = y].prec = y /\ [h[x] EXCEPT !.prec = y].next = h[x].next
        /\ [h[x] EXCEPT !.prec = y].value = h[x].value
    BY <1>1, <1>3 DEF Lnodes
  <2>6. QED
    BY <1>1, <2>2, <2>3, <2>4, <2>5 DEF Typed
<1>4. QED
  BY <1>2, <1>3

LEMMA SetNextFacts ==
  ASSUME NEW h, Typed(h), NEW x \in Pointers, NEW y \in Pointers, x # Null => x \in DOMAIN h
  PROVE  /\ Typed(SetNext(h, x, y)) /\ DOMAIN SetNext(h, x, y) = DOMAIN h
         /\ \A m \in DOMAIN h :
              /\ SetNext(h, x, y)[m].next = IF m = x THEN y ELSE h[m].next
              /\ SetNext(h, x, y)[m].prec = h[m].prec
              /\ SetNext(h, x, y)[m].value = h[m].value
<1>1. \A m \in DOMAIN h : m # Null /\ h[m] \in Lnodes
  BY NodesAreNotNull DEF Typed
<1>2. CASE x = Null
  BY <1>1, <1>2 DEF SetNext
<1>3. CASE x # Null
  <2>1. SetNext(h, x, y) = [h EXCEPT ![x].next = y]
    BY <1>3 DEF SetNext
  <2>2. [h[x] EXCEPT !.next = y] \in Lnodes
    BY <1>1, <1>3 DEF Lnodes
  <2>3. \A m \in DOMAIN h : SetNext(h, x, y)[m] = IF m = x THEN [h[x] EXCEPT !.next = y] ELSE h[m]
    BY <1>3, <2>1
  <2>4. DOMAIN SetNext(h, x, y) = DOMAIN h
    BY <2>1
  <2>5. /\ [h[x] EXCEPT !.next = y].next = y /\ [h[x] EXCEPT !.next = y].prec = h[x].prec
        /\ [h[x] EXCEPT !.next = y].value = h[x].value
    BY <1>1, <1>3 DEF Lnodes
  <2>6. QED
    BY <1>1, <2>2, <2>3, <2>4, <2>5 DEF Typed
<1>4. QED
  BY <1>2, <1>3

(* From h to k: x'next is f, and y'prec is g.                              *)
Relinked(h, k, x, f, y, g) ==
  /\ Typed(k) /\ DOMAIN k = DOMAIN h
  /\ \A m \in DOMAIN h : /\ k[m].prec = IF m = y THEN g ELSE h[m].prec
                         /\ k[m].next = IF m = x THEN f ELSE h[m].next
                         /\ k[m].value = h[m].value
                         /\ k[m] \in Lnodes /\ h[m] \in Lnodes

LEMMA LinkedFacts ==
  ASSUME NEW h, Typed(h), NEW x \in Pointers, NEW y \in Pointers,
         NEW f \in Pointers, NEW g \in Pointers,
         x # Null => x \in DOMAIN h, y # Null => y \in DOMAIN h
  PROVE  Relinked(h, SetPrec(SetNext(h, x, f), y, g), x, f, y, g)
<1> DEFINE n == SetNext(h, x, f)
<1>1. /\ Typed(n) /\ DOMAIN n = DOMAIN h
      /\ \A m \in DOMAIN h : /\ n[m].next = IF m = x THEN f ELSE h[m].next
                             /\ n[m].prec = h[m].prec
                             /\ n[m].value = h[m].value
  BY SetNextFacts
<1> HIDE DEF n
<1> DEFINE k == SetPrec(n, y, g)
<1>2. /\ Typed(k) /\ DOMAIN k = DOMAIN n
      /\ \A m \in DOMAIN n : /\ k[m].prec = IF m = y THEN g ELSE n[m].prec
                             /\ k[m].next = n[m].next
                             /\ k[m].value = n[m].value
  BY <1>1, SetPrecFacts
<1> HIDE DEF k
<1>3. Relinked(h, k, x, f, y, g)
  BY <1>1, <1>2 DEF Typed, Relinked
<1>4. QED
  BY <1>3 DEF k, n

LEMMA RecordOfLnode ==
  ASSUME NEW n \in Lnodes, NEW x, NEW y, NEW v, n.prec = x, n.next = y, n.value = v
  PROVE  n = [prec |-> x, next |-> y, value |-> v]
BY DEF Lnodes

LEMMA LinksOfNode ==
  ASSUME NEW h, Typed(h), NEW l \in Headers, NEW p, Chain(h, l, p), NEW j \in 1..(l.len + 1)
  PROVE  /\ Before(p, j) \in Pointers /\ Behind_(p, l.len, j) \in Pointers
         /\ Before(p, j) # Null => Before(p, j) \in DOMAIN h
         /\ Behind_(p, l.len, j) # Null => Behind_(p, l.len, j) \in DOMAIN h
         /\ j # 1 => Before(p, j) = p[j - 1] /\ j - 1 \in 1..l.len
         /\ j # l.len + 1 => Behind_(p, l.len, j) = p[j] /\ j \in 1..l.len
         /\ j = 1 => Before(p, j) = Null
         /\ j = l.len + 1 => Behind_(p, l.len, j) = Null
<1>1. l.len \in Nat
  BY HeaderFields
<1>2. (j # 1 => j - 1 \in 1..l.len) /\ (j # l.len + 1 => j \in 1..l.len)
  BY <1>1
<1>3. QED
  BY <1>2, NodeOfChain, NodesAreNotNull DEF Before, Behind_

(* A node linked in between two others.                                    *)
LEMMA LinksInsert ==
  ASSUME NEW h, Typed(h), NEW l \in Headers, NEW p, Chain(h, l, p),
         NEW n \in Nodes \ DOMAIN h, NEW v \in Values, NEW j \in 1..(l.len + 1)
  PROVE  LET x == Before(p, j)
             y == Behind_(p, l.len, j)
         IN  Inserted(h, With(SetPrec(SetNext(h, x, n), y, n), n,
                              [prec |-> x, next |-> y, value |-> v]), p, l.len, j, n, v)
<1> DEFINE x == Before(p, j)
           y == Behind_(p, l.len, j)
           g == SetPrec(SetNext(h, x, n), y, n)
           k == With(g, n, [prec |-> x, next |-> y, value |-> v])
<1>1. l.len \in Nat /\ n \in Pointers /\ j \in Nat /\ j <= l.len + 1 /\ j >= 1
  BY HeaderFields, NodesAreNotNull
<1>2. /\ x \in Pointers /\ y \in Pointers
      /\ x # Null => x \in DOMAIN h
      /\ y # Null => y \in DOMAIN h
      /\ x = IF j = 1 THEN Null ELSE p[j - 1]
      /\ y = IF j = l.len + 1 THEN Null ELSE p[j]
  BY LinksOfNode DEF Before, Behind_
<1> HIDE DEF x, y
<1>3. /\ DOMAIN g = DOMAIN h
      /\ \A m \in DOMAIN h : /\ g[m].prec = IF m = y THEN n ELSE h[m].prec
                             /\ g[m].next = IF m = x THEN n ELSE h[m].next
                             /\ g[m].value = h[m].value
                             /\ g[m] \in Lnodes
  <2>1. /\ n \in Pointers /\ x \in Pointers /\ y \in Pointers
        /\ x # Null => x \in DOMAIN h
        /\ y # Null => y \in DOMAIN h
    BY <1>1, <1>2
  <2>2. Relinked(h, g, x, n, y, n)
    BY <2>1, LinkedFacts, Zenon
  <2> HIDE DEF g
  <2>3. QED
    BY <2>2 DEF Relinked
<1> HIDE DEF g
<1>4. /\ DOMAIN k = DOMAIN h \cup {n}
      /\ k[n] = [prec |-> x, next |-> y, value |-> v]
      /\ \A m \in DOMAIN h : k[m] = g[m]
  BY <1>3 DEF With
<1> HIDE DEF k
<1>5. ASSUME NEW m \in DOMAIN h
      PROVE  k[m] = [prec |-> IF j <= l.len /\ m = p[j] THEN n ELSE h[m].prec,
                     next |-> IF 1 < j /\ m = p[j - 1] THEN n ELSE h[m].next,
                     value |-> h[m].value]
  <2>1. m # Null
    BY NodesAreNotNull DEF Typed
  <2>2. m = y <=> j <= l.len /\ m = p[j]
    BY <1>1, <1>2, <2>1
  <2>3. m = x <=> 1 < j /\ m = p[j - 1]
    BY <1>1, <1>2, <2>1
  <2>4. QED
    BY <1>3, <1>4, <2>2, <2>3, RecordOfLnode
<1>6. Inserted(h, k, p, l.len, j, n, v)
  BY <1>2, <1>4, <1>5 DEF Inserted
<1>7. QED
  BY <1>6 DEF k, g, x, y

(* The ends of a gap linked to each other; g is the heap h, or what is     *)
(* left of it, and k is g after that.                                      *)
Relink(g, x, y) == SetPrec(SetNext(g, x, y), y, x)

Closed(h, g, k, l, p, a, b) ==
  /\ Typed(k) /\ DOMAIN k = DOMAIN g
  /\ Bridged(h, k, p, l.len, a, b)
  /\ \A m \in DOMAIN g : /\ k[m].value = g[m].value
                         /\ (\A i \in 1..l.len : i \in {a - 1, b} => m # p[i])
                              => k[m] = g[m]

LEMMA LinksBridge ==
  ASSUME NEW h, Typed(h), NEW l \in Headers, NEW p, Chain(h, l, p),
         NEW a \in 1..l.len, NEW d \in 1..(l.len - a + 1),
         NEW g, Typed(g), \A i \in (1..l.len) \ (a..(a + d - 1)) : p[i] \in DOMAIN g /\ g[p[i]] = h[p[i]]
  PROVE  Closed(h, g, Relink(g, Before(p, a), Behind_(p, l.len, a + d)), l, p, a, a + d)
<1> DEFINE x == Before(p, a)
           y == Behind_(p, l.len, a + d)
           k == SetPrec(SetNext(g, x, y), y, x)
<1>1. /\ l.len \in Nat /\ a \in Nat /\ d \in Nat /\ a >= 1 /\ d >= 1 /\ a + d <= l.len + 1
      /\ a \in 1..(l.len + 1) /\ a + d \in 1..(l.len + 1)
  BY HeaderFields
<1>2. /\ x \in Pointers /\ y \in Pointers
      /\ a # 1 => x = p[a - 1] /\ a - 1 \in 1..l.len
      /\ a + d # l.len + 1 => y = p[a + d] /\ a + d \in 1..l.len
      /\ a = 1 => x = Null
      /\ a + d = l.len + 1 => y = Null
  BY <1>1, LinksOfNode
<1> HIDE DEF x, y
<1>3. (x # Null => x \in DOMAIN g) /\ (y # Null => y \in DOMAIN g)
  <2>1. a - 1 \notin a..(a + d - 1) /\ a + d \notin a..(a + d - 1)
    BY <1>1
  <2>2. QED
    BY <1>2, <2>1
<1>4. /\ Typed(k) /\ DOMAIN k = DOMAIN g
      /\ \A m \in DOMAIN g : /\ k[m].prec = IF m = y THEN x ELSE g[m].prec
                             /\ k[m].next = IF m = x THEN y ELSE g[m].next
                             /\ k[m].value = g[m].value
                             /\ k[m] \in Lnodes /\ g[m] \in Lnodes
  <2>1. Relinked(g, k, x, y, y, x)
    BY <1>2, <1>3, LinkedFacts, Zenon
  <2> HIDE DEF k
  <2>2. QED
    BY <2>1 DEF Relinked
<1> HIDE DEF k
<1>5. \A m \in DOMAIN g : m # Null
  BY NodesAreNotNull DEF Typed
<1>6. Bridged(h, k, p, l.len, a, a + d)
  <2>1. ASSUME NEW i \in (1..l.len) \ (a..(a + d - 1))
        PROVE  /\ p[i] \in DOMAIN k
               /\ k[p[i]].prec = IF i = a + d THEN x ELSE h[p[i]].prec
               /\ k[p[i]].next = IF i = a - 1 THEN y ELSE h[p[i]].next
               /\ k[p[i]].value = h[p[i]].value
    <3>1. p[i] \in DOMAIN g /\ g[p[i]] = h[p[i]] /\ p[i] # Null
      BY <1>5
    <3>2. \A m \in 1..l.len : p[m] = p[i] <=> m = i
      BY DEF Chain
    <3>3. p[i] = y <=> i = a + d
      BY <1>1, <1>2, <3>1, <3>2
    <3>4. p[i] = x <=> i = a - 1
      BY <1>1, <1>2, <3>1, <3>2
    <3>5. QED
      BY <1>4, <3>1, <3>3, <3>4
  <2>2. QED
    BY <2>1 DEF Bridged, x, y
<1>7. ASSUME NEW m \in DOMAIN g, \A i \in 1..l.len : i \in {a - 1, a + d} => m # p[i]
      PROVE  k[m] = g[m]
  <2>1. m # x /\ m # y
    BY <1>2, <1>5, <1>7
  <2>2. k[m].prec = g[m].prec /\ k[m].next = g[m].next /\ k[m].value = g[m].value
    BY <1>4, <2>1
  <2>3. QED
    BY <1>4, <2>2 DEF Lnodes
<1>8. Closed(h, g, k, l, p, a, a + d)
  BY <1>4, <1>6, <1>7 DEF Closed
<1>9. QED
  BY <1>8 DEF k, x, y, Relink

-----------------------------------------------------------------------------
(* The calls.  Each turns the chains of the two headers into others.       *)

CursorMoves(p, P) == CursorAt(list, p) => (CursorAt(list', P) <=> ~CursorLost)

LEMMA NewIsFree == Available # {} => New \in Nodes \ DOMAIN heap
<1>1. Available \in SUBSET Nat
  BY DEF Available, Nodes
<1>2. ASSUME Available # {}
      PROVE  New \in Available
  <2>1. \E n \in Available : \A m \in Available : n <= m
    BY <1>1, <1>2, LeastExists
  <2>2. QED
    BY <2>1 DEF New
<1>3. QED
  BY <1>2 DEF Available

(* What the lists hold before and after v is put at j.                     *)
PutAt(h, l, o, p, q, k, z, P, j, v) ==
  /\ Spliced(Vals(h, l.len, p), Vals(k, z.len, P), j, v)
  /\ Vals(k, o.len, q) = Vals(h, o.len, q)

LEMMA InsVals ==
  ASSUME NEW h, NEW l, NEW o, NEW p, NEW q, Two(h, l, o, p, q),
         NEW n \in Nodes \ DOMAIN h, NEW v \in Values, NEW j \in 1..(l.len + 1),
         NEW k, Inserted(h, k, p, l.len, j, n, v), NEW z \in Headers, Widened(l, z, j, n)
  PROVE  PutAt(h, l, o, p, q, k, z, Ins(p, l.len, j, n), j, v)
<1>1. /\ Typed(h) /\ l \in Headers /\ o \in Headers /\ Chain(h, l, p) /\ Chain(h, o, q)
      /\ l.len \in Nat
  BY TwoFacts
<1> DEFINE P == Ins(p, l.len, j, n)
           s == Vals(h, l.len, p)
           t == Vals(k, z.len, P)
<1>2. Two(k, z, o, P, q)
  BY InsIsTwo
<1>3. Typed(k) /\ Chain(k, z, P)
  BY <1>2, TwoFacts
<1>4. /\ s \in Seq(Values) /\ Len(s) = l.len
      /\ \A i \in 1..l.len : s[i] = h[p[i]].value
  BY <1>1, ValsFacts
<1>5. \A i \in 1..(l.len + 1) : P[i] = IF i < j THEN p[i] ELSE IF i = j THEN n ELSE p[i - 1]
  BY <1>1 DEF Ins
<1> HIDE DEF s, P
<1>6. t \in Seq(Values) /\ Len(t) = z.len /\ \A i \in 1..z.len : t[i] = k[P[i]].value
  BY <1>3, ValsFacts
<1> HIDE DEF t
<1>7. z.len = l.len + 1 /\ j \in Nat
  BY <1>1 DEF Widened
<1>8. /\ k[n].value = v
      /\ \A m \in DOMAIN h : k[m].value = h[m].value
  BY DEF Inserted
<1>9. ASSUME NEW i \in 1..(l.len + 1)
      PROVE  t[i] = IF i < j THEN s[i] ELSE IF i = j THEN v ELSE s[i - 1]
  <2>1. t[i] = k[P[i]].value
    BY <1>6, <1>7
  <2>2. CASE i < j
    <3>1. i \in 1..l.len
      BY <1>1, <1>7, <2>2
    <3>2. p[i] \in DOMAIN h
      BY <1>1, <3>1, NodeOfChain
    <3>3. P[i] = p[i]
      BY <1>5, <2>2
    <3>4. QED
      BY <1>4, <1>8, <2>1, <2>2, <3>1, <3>2, <3>3
  <2>3. CASE i = j
    <3>1. P[i] = n
      BY <1>5, <1>7, <2>3
    <3>2. QED
      BY <1>7, <1>8, <2>1, <2>3, <3>1
  <2>4. CASE i > j
    <3>1. i - 1 \in 1..l.len /\ ~(i < j) /\ i # j
      BY <1>1, <1>7, <2>4
    <3>2. p[i - 1] \in DOMAIN h
      BY <1>1, <3>1, NodeOfChain
    <3>3. P[i] = p[i - 1]
      BY <1>5, <3>1
    <3>4. QED
      BY <1>4, <1>8, <2>1, <3>1, <3>2, <3>3
  <2>5. i < j \/ i = j \/ i > j
    BY <1>7
  <2>6. QED
    BY <2>2, <2>3, <2>4, <2>5
<1>10. Spliced(s, t, j, v)
  <2>1. j \in 1..(Len(s) + 1) /\ Len(t) = Len(s) + 1
    BY <1>4, <1>6, <1>7
  <2>2. \A i \in 1..(Len(s) + 1) : t[i] = IF i < j THEN s[i] ELSE IF i = j THEN v ELSE s[i - 1]
    BY <1>4, <1>9
  <2>3. QED
    BY <1>4, <1>6, <2>1, <2>2, ValsOfIns, Zenon
<1>11. Vals(k, o.len, q) = Vals(h, o.len, q)
  <2>1. \A i \in 1..o.len : q[i] \in DOMAIN h
    BY <1>1, NodeOfChain
  <2>2. QED
    BY <1>8, <2>1 DEF Vals
<1>12. QED
  BY <1>10, <1>11 DEF s, t, P, PutAt

(* A new first node.                                                       *)
LEMMA PushesIns ==
  ASSUME NEW p, NEW q, Two(heap, list, other, p, q), NEW n \in Nodes \ DOMAIN heap,
         NEW v \in Values, list.end = Null \/ list.pos < MaxPos
  PROVE  /\ Inserted(heap, PushOnHeap(list, n, v), p, list.len, 1, n, v)
         /\ Pushed(list, n) \in Headers
         /\ Widened(list, Pushed(list, n), 1, n)
         /\ 1 \in 1..(list.len + 1)
<1>1. /\ Typed(heap) /\ list \in Headers /\ Chain(heap, list, p)
      /\ list.len \in Nat /\ 1 \in 1..(list.len + 1)
  BY TwoFacts
<1>2. /\ list.start = Behind_(p, list.len, 1) /\ Before(p, 1) = Null
      /\ list.end = Null <=> list.len = 0
  <2>1. list.len # 0 => p[list.len] # Null
    <3>1. list.len # 0 => list.len \in 1..list.len
      BY <1>1
    <3>2. QED
      BY <1>1, <3>1, NodeOfChain
  <2>2. QED
    BY <1>1, <2>1 DEF Chain, Before, Behind_
<1>3. Inserted(heap, PushOnHeap(list, n, v), p, list.len, 1, n, v)
  <2>1. SetNext(heap, Null, n) = heap
    BY DEF SetNext
  <2>2. Inserted(heap, With(SetPrec(SetNext(heap, Before(p, 1), n), Behind_(p, list.len, 1), n), n,
                   [prec |-> Before(p, 1), next |-> Behind_(p, list.len, 1), value |-> v]),
                 p, list.len, 1, n, v)
    BY <1>1, LinksInsert
  <2>3. QED
    BY <1>2, <2>1, <2>2 DEF PushOnHeap
<1>4. list.len + 1 \in 0..MaxNodes
  BY RoomIsLeft
<1>5. n \in Pointers
  BY NodesAreNotNull
<1>6. Pushed(list, n) \in Headers /\ Widened(list, Pushed(list, n), 1, n)
  <2>1. CASE list.end = Null
    <3>1. list.len = 0
      BY <1>2, <2>1
    <3>2. Pushed(list, n) = [list EXCEPT !.start = n, !.end = n, !.current = n, !.len = @ + 1]
      BY <2>1 DEF Pushed
    <3>3. Pushed(list, n) = [start |-> n, end |-> n, len |-> list.len + 1,
                             current |-> n, pos |-> list.pos]
      BY <1>1, <3>2 DEF Headers
    <3>4. list.pos \in 0..MaxPos
      BY <1>1, HeaderFields
    <3>5. QED
      BY <1>1, <1>4, <1>5, <3>1, <3>3, <3>4 DEF Headers, Widened
  <2>2. CASE list.end # Null
    <3>1. list.len # 0 /\ list.pos < MaxPos
      BY <1>2, <2>2
    <3>2. Pushed(list, n) = [list EXCEPT !.start = n, !.pos = @ + 1, !.len = @ + 1]
      BY <2>2 DEF Pushed, PosPushed
    <3>3. list.pos + 1 \in 0..MaxPos
      BY <1>1, <3>1, HeaderFields, NodesAreNotNull
    <3>4. Pushed(list, n) = [start |-> n, end |-> list.end, len |-> list.len + 1,
                             current |-> list.current, pos |-> list.pos + 1]
      BY <1>1, <3>2 DEF Headers
    <3>5. list.end \in Pointers /\ list.current \in Pointers
      BY <1>1, HeaderFields
    <3>6. QED
      BY <1>1, <1>4, <1>5, <3>1, <3>3, <3>4, <3>5 DEF Headers, Widened
  <2>3. QED
    BY <2>1, <2>2
<1>7. QED
  BY <1>1, <1>3, <1>6

(* What a call of the first list leaves: its chain P, and the second list  *)
(* as it was.                                                              *)
Leaves(p, q, P) ==
  /\ Two(heap', list', other, P, q)
  /\ Vals(heap', other.len, q) = Vals(heap, other.len, q)

LEMMA PushStep ==
  ASSUME NEW p, NEW q, Two(heap, list, other, p, q), NEW v \in Values,
         list.pos < MaxPos, Push(v)
  PROVE  \E P : /\ Leaves(p, q, P)
                /\ CursorMoves(p, P)
                /\ Spliced(Vals(heap, list.len, p), Vals(heap', list'.len, P), 1, v)
<1>1. Available # {} /\ heap' = PushOnHeap(list, New, v) /\ list' = Pushed(list, New)
      /\ ret'.op = "push"
  BY DEF Push, Returns
<1>2. New \in Nodes \ DOMAIN heap
  BY <1>1, NewIsFree
<1> DEFINE n == New
<1> HIDE DEF n
<1>3. n \in Nodes \ DOMAIN heap /\ heap' = PushOnHeap(list, n, v) /\ list' = Pushed(list, n)
  BY <1>1, <1>2 DEF n
<1>4. PICK k, z : k = heap' /\ z = list'
  OBVIOUS
<1>5. /\ Inserted(heap, k, p, list.len, 1, n, v) /\ z \in Headers /\ Widened(list, z, 1, n)
      /\ 1 \in 1..(list.len + 1)
  BY <1>3, <1>4, PushesIns
<1>6. list \in Headers /\ Typed(heap) /\ Chain(heap, list, p) /\ list.len \in Nat /\ list.pos \in Nat
  BY TwoFacts, HeaderFields
<1> DEFINE P == Ins(p, list.len, 1, n)
<1>7. Two(k, z, other, P, q)
  BY <1>3, <1>5, InsIsTwo
<1>8. PutAt(heap, list, other, p, q, k, z, P, 1, v)
  BY <1>3, <1>5, InsVals, Zenon
<1>9. \A i \in 1..(list.len + 1) : P[i] = IF i = 1 THEN n ELSE p[i - 1]
  BY <1>6 DEF Ins
<1> HIDE DEF P
<1>10. z.len = list.len + 1
  BY <1>5 DEF Widened
<1>11. ASSUME CursorAt(list, p)
       PROVE  CursorAt(z, P) <=> ~(list.len > 0 /\ list.current = Null)
  <2>1. list.end = Null <=> list.len = 0
    <3>1. list.len # 0 => list.len \in 1..list.len
      BY <1>6
    <3>2. QED
      BY <1>6, <3>1, NodeOfChain DEF Chain
  <2>2. CASE list.len = 0
    <3>1. z = [list EXCEPT !.start = n, !.end = n, !.current = n, !.len = @ + 1]
      BY <1>3, <1>4, <2>1, <2>2 DEF Pushed
    <3>2. z.current = n /\ z.pos = list.pos
      BY <1>6, <3>1 DEF Headers
    <3>3. list.pos = 0
      BY <1>6, <1>11, <2>2 DEF CursorAt
    <3>4. P[1] = n
      BY <1>6, <1>9
    <3>5. QED
      BY <1>6, <1>10, <2>2, <3>2, <3>3, <3>4 DEF CursorAt
  <2>3. CASE list.len # 0
    <3>1. z = [list EXCEPT !.start = n, !.pos = @ + 1, !.len = @ + 1]
      BY <1>3, <1>4, <2>1, <2>3 DEF Pushed, PosPushed
    <3>2. z.current = list.current /\ z.pos = list.pos + 1
      BY <1>6, <3>1 DEF Headers
    <3>3. \A i \in 1..list.len : P[i + 1] = p[i] /\ p[i] # Null
      <4>1. \A i \in 1..list.len : i + 1 \in 1..(list.len + 1) /\ i + 1 # 1 /\ i + 1 - 1 = i
        BY <1>6
      <4>2. QED
        BY <1>6, <1>9, <4>1, NodeOfChain
    <3>4. CASE list.current = Null
      <4>1. list.pos = 0
        <5>1. list.pos < list.len => list.pos + 1 \in 1..list.len
          BY <1>6
        <5>2. QED
          BY <1>11, <3>3, <3>4, <5>1 DEF CursorAt
      <4>2. z.pos + 1 = 1 + 1 /\ 1 \in 1..list.len /\ z.pos # 0
        BY <1>6, <2>3, <3>2, <4>1
      <4>3. P[z.pos + 1] # Null
        BY <3>3, <4>2
      <4>4. QED
        BY <1>6, <2>3, <3>2, <3>4, <4>2, <4>3 DEF CursorAt
    <3>5. CASE list.current # Null
      <4>1. list.pos < list.len /\ list.current = p[list.pos + 1]
        BY <1>11, <3>5 DEF CursorAt
      <4>2. list.pos + 1 \in 1..list.len
        BY <1>6, <4>1
      <4>3. P[z.pos + 1] = list.current
        BY <3>2, <3>3, <4>1, <4>2
      <4>4. QED
        BY <1>6, <1>10, <3>2, <3>5, <4>1, <4>3 DEF CursorAt
    <3>6. QED
      BY <3>4, <3>5
  <2>4. QED
    BY <2>2, <2>3
<1>12. CursorMoves(p, P)
  <2>1. CursorLost <=> list.len > 0 /\ list.current = Null
    BY <1>1 DEF CursorLost
  <2>2. QED
    BY <1>4, <1>11, <2>1 DEF CursorMoves
<1>13. QED
  BY <1>4, <1>7, <1>8, <1>12 DEF Leaves, PutAt

LEMMA AppendsStep ==
  ASSUME NEW p, NEW q, Two(heap, list, other, p, q), NEW v \in Values, Appends(v)
  PROVE  \E P : /\ Leaves(p, q, P)
                /\ CursorAt(list, p) => CursorAt(list', P)
                /\ Spliced(Vals(heap, list.len, p), Vals(heap', list'.len, P), list.len + 1, v)
<1>1. /\ Available # {}
      /\ list.start = Null => heap' = PushOnHeap(list, New, v) /\ list' = Pushed(list, New)
      /\ list.start # Null => /\ heap' = AppendLinked(list, New, v)
                              /\ list' = [list EXCEPT !.end = New, !.len = @ + 1]
  BY DEF Appends
<1>2. New \in Nodes \ DOMAIN heap
  BY <1>1, NewIsFree
<1> DEFINE n == New
<1> HIDE DEF n
<1>3. n \in Nodes \ DOMAIN heap
  BY <1>2 DEF n
<1>4. PICK k, z : k = heap' /\ z = list'
  OBVIOUS
<1>5. list \in Headers /\ Typed(heap) /\ Chain(heap, list, p) /\ list.len \in Nat /\ list.pos \in Nat
      /\ list.len + 1 \in 1..(list.len + 1)
  BY TwoFacts, HeaderFields
<1>6. /\ list.len # 0 => list.len \in 1..list.len /\ 1 \in 1..list.len
      /\ list.len # 0 => list.start # Null /\ list.end # Null
      /\ list.len = 0 => list.start = Null /\ list.end = Null
  <2>1. list.len # 0 => list.len \in 1..list.len /\ 1 \in 1..list.len
    BY <1>5
  <2>2. /\ list.start = (IF list.len = 0 THEN Null ELSE p[1])
        /\ list.end = (IF list.len = 0 THEN Null ELSE p[list.len])
    BY <1>5 DEF Chain
  <2>3. \A i \in 1..list.len : p[i] # Null
    BY <1>5, NodeOfChain
  <2>4. QED
    BY <2>1, <2>2, <2>3
<1>7. /\ Inserted(heap, k, p, list.len, list.len + 1, n, v)
      /\ z \in Headers /\ Widened(list, z, list.len + 1, n)
  <2>1. CASE list.len = 0
    <3>1. list.end = Null /\ k = PushOnHeap(list, n, v) /\ z = Pushed(list, n)
      BY <1>1, <1>4, <1>6, <2>1 DEF n
    <3>2. 1 = list.len + 1
      BY <2>1
    <3>3. /\ Inserted(heap, k, p, list.len, 1, n, v) /\ z \in Headers /\ Widened(list, z, 1, n)
      BY <1>3, <3>1, PushesIns
    <3>4. QED
      BY <3>2, <3>3
  <2>2. CASE list.len # 0
    <3>1. k = AppendLinked(list, n, v) /\ z = [list EXCEPT !.end = n, !.len = @ + 1]
      BY <1>1, <1>4, <1>6, <2>2 DEF n
    <3>2. Before(p, list.len + 1) = list.end /\ Behind_(p, list.len, list.len + 1) = Null
      <4>1. list.len + 1 # 1 /\ list.len + 1 - 1 = list.len
        BY <1>5, <2>2
      <4>2. QED
        BY <1>5, <2>2, <4>1 DEF Before, Behind_, Chain
    <3>3. Inserted(heap, With(SetPrec(SetNext(heap, list.end, n), Null, n), n,
                     [prec |-> list.end, next |-> Null, value |-> v]),
                   p, list.len, list.len + 1, n, v)
      BY <1>3, <1>5, <3>2, LinksInsert
    <3>4. Inserted(heap, k, p, list.len, list.len + 1, n, v)
      BY <3>1, <3>3 DEF AppendLinked, SetPrec
    <3>5. z = [start |-> list.start, end |-> n, len |-> list.len + 1,
               current |-> list.current, pos |-> list.pos]
      BY <1>5, <3>1 DEF Headers
    <3>6. /\ list.len + 1 \in 0..MaxNodes /\ list.start \in Pointers /\ n \in Pointers
          /\ list.current \in Pointers /\ list.pos \in 0..MaxPos
      BY <1>3, <1>5, RoomIsLeft, HeaderFields, NodesAreNotNull
    <3>7. z \in Headers
      BY <3>5, <3>6 DEF Headers
    <3>8. Widened(list, z, list.len + 1, n)
      BY <1>5, <2>2, <3>5 DEF Widened
    <3>9. QED
      BY <3>4, <3>7, <3>8
  <2>3. QED
    BY <2>1, <2>2
<1> DEFINE P == Ins(p, list.len, list.len + 1, n)
<1>8. Two(k, z, other, P, q)
  BY <1>3, <1>5, <1>7, InsIsTwo
<1>9. PutAt(heap, list, other, p, q, k, z, P, list.len + 1, v)
  BY <1>3, <1>5, <1>7, InsVals, Zenon
<1>10. /\ \A i \in 1..list.len : P[i] = p[i]
       /\ P[list.len + 1] = n
  BY <1>5 DEF Ins
<1> HIDE DEF P
<1>11. ASSUME CursorAt(list, p)
       PROVE  CursorAt(z, P)
  <2>1. z.len = list.len + 1
    BY <1>7 DEF Widened
  <2>2. CASE list.len = 0
    <3>1. z = [list EXCEPT !.start = n, !.end = n, !.current = n, !.len = @ + 1]
      BY <1>1, <1>4, <1>6, <2>2 DEF Pushed, n
    <3>2. z.current = n /\ z.pos = list.pos
      BY <1>5, <3>1 DEF Headers
    <3>3. list.pos = 0
      BY <1>5, <1>11, <2>2 DEF CursorAt
    <3>4. QED
      BY <1>10, <2>1, <2>2, <3>2, <3>3 DEF CursorAt
  <2>3. CASE list.len # 0
    <3>1. z = [list EXCEPT !.end = n, !.len = @ + 1]
      BY <1>1, <1>4, <1>6, <2>3 DEF n
    <3>2. z.current = list.current /\ z.pos = list.pos
      BY <1>5, <3>1 DEF Headers
    <3>3. list.pos < list.len => list.pos + 1 \in 1..list.len /\ list.pos < list.len + 1
      BY <1>5
    <3>4. QED
      BY <1>10, <1>11, <2>1, <3>2, <3>3 DEF CursorAt
  <2>4. QED
    BY <2>2, <2>3
<1>12. QED
  BY <1>4, <1>8, <1>9, <1>11 DEF Leaves, PutAt

LEMMA SoughtIsTwo ==
  ASSUME NEW p, NEW q, Two(heap, list, other, p, q), CursorAt(list, p), NEW i \in 0..(list.len - 1)
  PROVE  LET z == Seek(list, i)
         IN  /\ Sought(z, list, p, i) /\ Two(heap, z, other, p, q) /\ CursorAt(z, p)
             /\ i \in Nat /\ i + 1 \in 1..list.len /\ i < list.len /\ z.current # Null
<1> DEFINE z == Seek(list, i)
<1>1. list \in Headers /\ Typed(heap) /\ Chain(heap, list, p) /\ list.len \in Nat
  BY TwoFacts
<1>2. Sought(z, list, p, i)
  BY <1>1, SeekFinds
<1> HIDE DEF z
<1>3. z \in Headers /\ Chain(heap, z, p) /\ z.len = list.len
  BY <1>1, <1>2, SoughtIsChain DEF Sought
<1>4. Two(heap, z, other, p, q)
  BY <1>3 DEF Two
<1>5. i \in Nat /\ i + 1 \in 1..list.len /\ i < list.len
  BY <1>1
<1>6. CursorAt(z, p) /\ z.current # Null
  BY <1>1, <1>2, <1>3, <1>5, NodeOfChain DEF CursorAt, Sought
<1>7. QED
  BY <1>2, <1>4, <1>5, <1>6 DEF z

LEMMA AddBeforeStep ==
  ASSUME NEW p, NEW q, Two(heap, list, other, p, q), CursorAt(list, p),
         NEW i \in 1..(list.len - 1), NEW v \in Values, AddBefore(i, v)
  PROVE  \E P : /\ Leaves(p, q, P)
                /\ CursorAt(list', P)
                /\ Spliced(Vals(heap, list.len, p), Vals(heap', list'.len, P), i + 1, v)
<1> DEFINE n == New
           l == Seek(list, i)
           x == heap[l.current].prec
<1>1. /\ Available # {}
      /\ heap' = With(SetPrec(SetNext(heap, x, n), l.current, n), n,
                      [prec |-> x, next |-> l.current, value |-> v])
      /\ list' = [l EXCEPT !.current = Null, !.pos = 0, !.len = @ + 1]
  BY DEF AddBefore
<1>2. n \in Nodes \ DOMAIN heap
  BY <1>1, NewIsFree
<1> HIDE DEF n
<1>3. PICK k, z : k = heap' /\ z = list'
  OBVIOUS
<1>4. list \in Headers /\ Typed(heap) /\ Chain(heap, list, p) /\ list.len \in Nat
      /\ i \in 0..(list.len - 1)
  BY TwoFacts
<1>5. Sought(l, list, p, i) /\ i \in Nat /\ i + 1 \in 1..list.len
  BY <1>4, SoughtIsTwo
<1> HIDE DEF l
<1>6. /\ l.current = p[i + 1] /\ l \in Headers /\ l.len = list.len
      /\ l.start = list.start /\ l.end = list.end
  BY <1>5 DEF Sought
<1>7. x = p[i]
  <2>1. i + 1 # 1 /\ i + 1 - 1 = i
    BY <1>5
  <2>2. QED
    BY <1>4, <1>5, <1>6, <2>1, NodeOfChain
<1> HIDE DEF x
<1>8. i + 1 \in 1..(list.len + 1) /\ i + 1 # list.len + 1 /\ i + 1 # 1
  BY <1>4, <1>5
<1>9. Inserted(heap, k, p, list.len, i + 1, n, v)
  <2>1. Before(p, i + 1) = x /\ Behind_(p, list.len, i + 1) = l.current
    BY <1>5, <1>6, <1>7, <1>8 DEF Before, Behind_
  <2>2. Inserted(heap, With(SetPrec(SetNext(heap, x, n), l.current, n), n,
                   [prec |-> x, next |-> l.current, value |-> v]),
                 p, list.len, i + 1, n, v)
    BY <1>2, <1>4, <1>8, <2>1, LinksInsert
  <2>3. QED
    BY <1>1, <1>3, <2>2
<1>10. z = [start |-> list.start, end |-> list.end, len |-> list.len + 1,
            current |-> Null, pos |-> 0]
  BY <1>1, <1>3, <1>6 DEF Headers
<1>11. z \in Headers /\ Widened(list, z, i + 1, n)
  <2>1. /\ list.len + 1 \in 0..MaxNodes /\ list.start \in Pointers /\ list.end \in Pointers
        /\ Null \in Pointers /\ 0 \in 0..MaxPos
    BY <1>2, <1>4, RoomIsLeft, HeaderFields, NodesAreNotNull
  <2>2. QED
    BY <1>8, <1>10, <2>1 DEF Headers, Widened
<1> DEFINE P == Ins(p, list.len, i + 1, n)
<1>12. Two(k, z, other, P, q)
  BY <1>2, <1>8, <1>9, <1>11, InsIsTwo
<1>13. PutAt(heap, list, other, p, q, k, z, P, i + 1, v)
  BY <1>2, <1>8, <1>9, <1>11, InsVals, Zenon
<1> HIDE DEF P
<1>14. CursorAt(z, P)
  BY <1>10 DEF CursorAt
<1>15. QED
  BY <1>3, <1>12, <1>13, <1>14 DEF Leaves, PutAt

(* Writing a value through the cursor.                                     *)
Writes(i, v) == /\ list' = Seek(list, i)
                /\ heap' = [heap EXCEPT ![list'.current].value = v]

Written(p, q, i, v) ==
  /\ Leaves(p, q, p)
  /\ CursorAt(list', p)
  /\ Vals(heap', list'.len, p) = [Vals(heap, list.len, p) EXCEPT ![i + 1] = v]

LEMMA InsertStep ==
  ASSUME NEW p, NEW q, Two(heap, list, other, p, q), CursorAt(list, p),
         NEW i \in 0..(list.len - 1), NEW v \in Values, Writes(i, v)
  PROVE  Written(p, q, i, v)
<1>1. PICK k, z : /\ k = heap' /\ z = list' /\ list' = Seek(list, i)
                  /\ heap' = [heap EXCEPT ![list'.current].value = v]
  BY DEF Writes
<1>2. /\ Sought(z, list, p, i) /\ Two(heap, z, other, p, q) /\ CursorAt(z, p)
      /\ i \in Nat /\ i + 1 \in 1..list.len
  BY <1>1, SoughtIsTwo
<1>3. z.len = list.len /\ z.current = p[i + 1] /\ z \in Headers
  BY <1>2 DEF Sought
<1>4. /\ Typed(heap) /\ Chain(heap, z, p) /\ Chain(heap, list, p) /\ Chain(heap, other, q)
      /\ list \in Headers /\ other \in Headers
      /\ \A a \in 1..list.len, b \in 1..other.len : p[a] # q[b]
  BY <1>2, TwoFacts
<1>5. k = [heap EXCEPT ![p[i + 1]].value = v]
  BY <1>1, <1>3
<1>6. p[i + 1] \in DOMAIN heap
  BY <1>2, <1>4, NodeOfChain
<1>7. /\ DOMAIN k = DOMAIN heap
      /\ \A m \in DOMAIN heap :
           k[m] = [prec |-> heap[m].prec, next |-> heap[m].next,
                   value |-> IF m = p[i + 1] THEN v ELSE heap[m].value]
  <2>1. \A m \in DOMAIN heap : heap[m] \in Lnodes
    BY <1>4 DEF Typed
  <2>2. ASSUME NEW m \in DOMAIN heap
        PROVE  k[m] = [prec |-> heap[m].prec, next |-> heap[m].next,
                       value |-> IF m = p[i + 1] THEN v ELSE heap[m].value]
    <3>1. CASE m = p[i + 1]
      <4>1. k[m] = [heap[m] EXCEPT !.value = v]
        BY <1>5, <3>1
      <4>2. QED
        BY <2>1, <3>1, <4>1 DEF Lnodes
    <3>2. CASE m # p[i + 1]
      <4>1. k[m] = heap[m]
        BY <1>5, <3>2
      <4>2. QED
        BY <2>1, <3>2, <4>1 DEF Lnodes
    <3>3. QED
      BY <3>1, <3>2
  <2>3. QED
    BY <1>5, <2>2
<1>8. Typed(k)
  BY <1>4, <1>7 DEF Typed, Lnodes
<1>9. Chain(k, z, p)
  <2>1. \A m \in 1..z.len : /\ p[m] \in DOMAIN k /\ k[p[m]].prec = heap[p[m]].prec
                            /\ k[p[m]].next = heap[p[m]].next
    BY <1>3, <1>4, <1>7, NodeOfChain
  <2>2. QED
    BY <1>4, <2>1, KeptIsChain
<1>10. Chain(k, other, q)
  <2>1. \A m \in 1..other.len : /\ q[m] \in DOMAIN k /\ k[q[m]].prec = heap[q[m]].prec
                                /\ k[q[m]].next = heap[q[m]].next
    BY <1>4, <1>7, NodeOfChain
  <2>2. QED
    BY <1>4, <2>1, KeptIsChain
<1>11. Two(k, z, other, p, q)
  BY <1>2, <1>7, <1>8, <1>9, <1>10 DEF Two
<1>12. Vals(k, other.len, q) = Vals(heap, other.len, q)
  <2>1. \A m \in 1..other.len : k[q[m]].value = heap[q[m]].value
    BY <1>2, <1>4, <1>7, NodeOfChain
  <2>2. QED
    BY <2>1 DEF Vals
<1>13. Vals(k, z.len, p) = [Vals(heap, list.len, p) EXCEPT ![i + 1] = v]
  <2>1. \A m \in 1..list.len : k[p[m]].value = IF m = i + 1 THEN v ELSE heap[p[m]].value
    <3>1. \A m \in 1..list.len : p[m] \in DOMAIN heap
      BY <1>4, NodeOfChain
    <3>2. \A m \in 1..list.len : p[m] = p[i + 1] <=> m = i + 1
      BY <1>2, <1>4 DEF Chain
    <3>3. QED
      BY <1>7, <3>1, <3>2
  <2>2. QED
    BY <1>3, <2>1 DEF Vals
<1>14. QED
  BY <1>1, <1>2, <1>11, <1>12, <1>13 DEF Leaves, Written

(* t is s without d elements from a on.                                    *)
CutOut(s, t, a, d) == t = SubSeq(s, 1, a - 1) \o SubSeq(s, a + d, Len(s))

LEMMA CutVals ==
  ASSUME NEW h, Typed(h), NEW l \in Headers, NEW p, Chain(h, l, p),
         NEW a \in 1..l.len, NEW d \in 1..(l.len - a + 1),
         NEW k, Typed(k), Bridged(h, k, p, l.len, a, a + d),
         NEW z \in Headers, Narrowed(l, z, p, a, a + d)
  PROVE  CutOut(Vals(h, l.len, p), Vals(k, z.len, Cut(p, l.len, a, d)), a, d)
<1>1. /\ l.len \in Nat /\ a \in Nat /\ d \in Nat /\ a >= 1 /\ d >= 1 /\ a + d <= l.len + 1
      /\ z.len = l.len - d
  BY HeaderFields DEF Narrowed
<1> DEFINE P == Cut(p, l.len, a, d)
           s == Vals(h, l.len, p)
           t == Vals(k, z.len, P)
<1>2. Chain(k, z, P)
  BY CutIsChain
<1>3. /\ s \in Seq(Values) /\ Len(s) = l.len
      /\ \A i \in 1..l.len : s[i] = h[p[i]].value
  BY ValsFacts
<1>4. \A i \in 1..(l.len - d) : P[i] = IF i < a THEN p[i] ELSE p[i + d]
  BY DEF Cut
<1> HIDE DEF s, P
<1>5. t \in Seq(Values) /\ Len(t) = z.len /\ \A i \in 1..z.len : t[i] = k[P[i]].value
  BY <1>2, ValsFacts
<1> HIDE DEF t
<1>6. ASSUME NEW i \in 1..(l.len - d)
      PROVE  t[i] = IF i < a THEN s[i] ELSE s[i + d]
  <2>1. t[i] = k[P[i]].value
    BY <1>1, <1>5
  <2>2. PICK m \in (1..l.len) \ (a..(a + d - 1)) : m = IF i < a THEN i ELSE i + d
    BY <1>1
  <2>3. P[i] = p[m]
    BY <1>4, <2>2
  <2>4. k[p[m]].value = h[p[m]].value
    BY <2>2 DEF Bridged
  <2>5. t[i] = s[m]
    BY <1>3, <2>1, <2>2, <2>3, <2>4
  <2>6. QED
    BY <2>2, <2>5
<1>7. t = SubSeq(s, 1, a - 1) \o SubSeq(s, a + d, Len(s))
  <2>1. a \in 1..Len(s) /\ d \in 1..(Len(s) - a + 1) /\ Len(t) = Len(s) - d
    BY <1>1, <1>3, <1>5
  <2>2. \A i \in 1..(Len(s) - d) : t[i] = IF i < a THEN s[i] ELSE s[i + d]
    BY <1>3, <1>6
  <2>3. QED
    BY <1>3, <1>5, <2>1, <2>2, ValsOfCut
<1>8. QED
  BY <1>7 DEF s, t, P, CutOut

(* Reading through the cursor.                                             *)
LEMMA GetStep ==
  ASSUME NEW p, NEW q, Two(heap, list, other, p, q), CursorAt(list, p),
         NEW i \in 0..(list.len - 1), heap' = heap, list' = Seek(list, i)
  PROVE  /\ Leaves(p, q, p)
         /\ CursorAt(list', p)
         /\ list'.current # Null
         /\ heap[list'.current].value = Vals(heap, list.len, p)[i + 1]
         /\ Vals(heap', list'.len, p) = Vals(heap, list.len, p)
<1>1. PICK k, z : k = heap' /\ z = list'
  OBVIOUS
<1>2. /\ Sought(z, list, p, i) /\ Two(heap, z, other, p, q) /\ CursorAt(z, p)
      /\ i + 1 \in 1..list.len /\ z.current # Null
  BY <1>1, SoughtIsTwo
<1>3. z.len = list.len /\ z.current = p[i + 1] /\ k = heap
  BY <1>1, <1>2 DEF Sought
<1>4. Vals(heap, list.len, p)[i + 1] = heap[p[i + 1]].value
  BY <1>2 DEF Vals
<1>5. QED
  BY <1>1, <1>2, <1>3, <1>4 DEF Leaves

(* What is left of the heap when node a is freed.                          *)
Freed(h, g, l, o, p, q, a) ==
  /\ Typed(g) /\ DOMAIN g = DOMAIN h \ {p[a]}
  /\ \A i \in (1..l.len) \ {a} : p[i] \in DOMAIN g /\ g[p[i]] = h[p[i]]
  /\ \A m \in 1..o.len : /\ q[m] \in DOMAIN g /\ g[q[m]] = h[q[m]]
                         /\ \A i \in 1..l.len : q[m] # p[i]

LEMMA FreedNode ==
  ASSUME NEW h, NEW l, NEW o, NEW p, NEW q, Two(h, l, o, p, q), NEW a \in 1..l.len
  PROVE  Freed(h, Without(h, {p[a]}), l, o, p, q, a)
<1> DEFINE g == Without(h, {p[a]})
<1>1. /\ Typed(h) /\ l \in Headers /\ o \in Headers /\ Chain(h, l, p) /\ Chain(h, o, q)
      /\ \A i \in 1..l.len, j \in 1..o.len : p[i] # q[j]
  BY TwoFacts
<1>2. DOMAIN g = DOMAIN h \ {p[a]} /\ \A m \in DOMAIN g : g[m] = h[m]
  BY DEF Without
<1> HIDE DEF g
<1>3. Typed(g)
  BY <1>1, <1>2 DEF Typed
<1>4. \A i \in (1..l.len) \ {a} : p[i] \in DOMAIN g /\ g[p[i]] = h[p[i]]
  BY <1>1, <1>2 DEF Chain
<1>5. \A m \in 1..o.len : q[m] \in DOMAIN g /\ g[q[m]] = h[q[m]]
  BY <1>1, <1>2 DEF Chain
<1>6. QED
  BY <1>1, <1>2, <1>3, <1>4, <1>5 DEF g, Freed

(* A node freed and its neighbours linked, from h to k.                    *)
LEMMA UnlinkIsTwo ==
  ASSUME NEW h, NEW l, NEW o, NEW p, NEW q, Two(h, l, o, p, q), NEW a \in 1..l.len,
         NEW k, k = Relink(Without(h, {p[a]}), Before(p, a), Behind_(p, l.len, a + 1)),
         NEW z \in Headers, Narrowed(l, z, p, a, a + 1)
  PROVE  /\ Two(k, z, o, Cut(p, l.len, a, 1), q)
         /\ Vals(k, o.len, q) = Vals(h, o.len, q)
         /\ CutOut(Vals(h, l.len, p), Vals(k, z.len, Cut(p, l.len, a, 1)), a, 1)
<1> DEFINE g == Without(h, {p[a]})
<1>1. /\ Typed(h) /\ l \in Headers /\ Chain(h, l, p) /\ l.len \in Nat
      /\ 1 \in 1..(l.len - a + 1) /\ a..((a + 1) - 1) = {a} /\ (a + 1) - 1 = a /\ a \in Nat
  <2>1. Typed(h) /\ l \in Headers /\ Chain(h, l, p) /\ l.len \in Nat
    BY TwoFacts
  <2>2. 1 \in 1..(l.len - a + 1) /\ a..((a + 1) - 1) = {a} /\ (a + 1) - 1 = a /\ a \in Nat
    BY <2>1
  <2>3. QED
    BY <2>1, <2>2
<1>2. Freed(h, g, l, o, p, q, a)
  BY FreedNode, Zenon
<1>3. k = Relink(g, Before(p, a), Behind_(p, l.len, a + 1))
  OBVIOUS
<1> HIDE DEF g
<1>4. PICK d \in 1..(l.len - a + 1) : d = 1 /\ a..(a + d - 1) = {a}
  BY <1>1
<1>5. Closed(h, g, k, l, p, a, a + d)
  <2>1. \A i \in (1..l.len) \ (a..(a + d - 1)) : p[i] \in DOMAIN g /\ g[p[i]] = h[p[i]]
    BY <1>2, <1>4 DEF Freed
  <2>2. k = Relink(g, Before(p, a), Behind_(p, l.len, a + d)) /\ Typed(g)
    BY <1>2, <1>3, <1>4 DEF Freed
  <2>3. Closed(h, g, Relink(g, Before(p, a), Behind_(p, l.len, a + d)), l, p, a, a + d)
    BY <1>1, <2>1, <2>2, LinksBridge, Zenon
  <2>4. QED
    BY <2>2, <2>3
<1>6. \A m \in 1..o.len : k[q[m]] = h[q[m]]
  BY <1>2, <1>5 DEF Freed, Closed
<1>7. DOMAIN k = DOMAIN h \ {p[i] : i \in a..(a + d - 1)}
  <2>1. {p[i] : i \in a..(a + d - 1)} = {p[a]}
    BY <1>4
  <2>2. QED
    BY <1>2, <1>5, <2>1 DEF Freed, Closed
<1>8. Typed(k) /\ Bridged(h, k, p, l.len, a, a + d) /\ Narrowed(l, z, p, a, a + d)
  BY <1>4, <1>5 DEF Closed
<1>9. Two(k, z, o, Cut(p, l.len, a, d), q)
  BY <1>6, <1>7, <1>8, CutIsTwo, ZenonT(40)
<1>10. CutOut(Vals(h, l.len, p), Vals(k, z.len, Cut(p, l.len, a, d)), a, d)
  BY <1>1, <1>8, CutVals, Zenon
<1>11. Vals(k, o.len, q) = Vals(h, o.len, q)
  BY <1>6 DEF Vals
<1>12. QED
  BY <1>4, <1>9, <1>10, <1>11

LEMMA PopStep ==
  ASSUME NEW p, NEW q, Two(heap, list, other, p, q), list.start # Null, Pop
  PROVE  \E P : /\ Leaves(p, q, P)
                /\ CursorMoves(p, P)
                /\ list.len # 0 /\ ret'.value = Vals(heap, list.len, p)[1]
                /\ CutOut(Vals(heap, list.len, p), Vals(heap', list'.len, P), 1, 1)
<1> DEFINE next == heap[list.start].next
<1>1. /\ heap' = SetPrec(Without(heap, {list.start}), next, Null)
      /\ list' = IF list.start = list.end THEN Zeroed
                 ELSE [list EXCEPT !.start = next, !.len = @ - 1]
      /\ ret'.op = "pop" /\ ret'.value = heap[list.start].value
  BY DEF Pop, Returns
<1>2. PICK k, z : k = heap' /\ z = list'
  OBVIOUS
<1>3. /\ list \in Headers /\ Typed(heap) /\ Chain(heap, list, p)
      /\ list.len \in Nat /\ list.pos \in Nat
  BY TwoFacts, HeaderFields
<1>4. list.len # 0 /\ 1 \in 1..list.len /\ list.len \in 1..list.len /\ list.start = p[1] /\ list.end = p[list.len]
  <2>1. list.len # 0
    BY <1>3 DEF Chain
  <2>2. QED
    BY <1>3, <2>1 DEF Chain
<1>5. Before(p, 1) = Null /\ next = Behind_(p, list.len, 1 + 1)
  BY <1>3, <1>4, NodeOfChain DEF Before, Behind_
<1> HIDE DEF next
<1>6. k = Relink(Without(heap, {p[1]}), Before(p, 1), Behind_(p, list.len, 1 + 1))
  BY <1>1, <1>2, <1>4, <1>5 DEF Relink, SetNext
<1>7. /\ list.len = 1 => z = Zeroed
      /\ list.len # 1 => z = [start |-> next, end |-> list.end, len |-> list.len - 1,
                              current |-> list.current, pos |-> list.pos]
  <2>1. list.start = list.end <=> list.len = 1
    BY <1>3, <1>4 DEF Chain
  <2>2. list.len # 1 => z = [list EXCEPT !.start = next, !.len = @ - 1]
    BY <1>1, <1>2, <2>1
  <2>3. QED
    BY <1>1, <1>2, <1>3, <2>1, <2>2 DEF Headers
<1>8. z \in Headers /\ Narrowed(list, z, p, 1, 1 + 1) /\ z.len = list.len - 1
  <2>1. CASE list.len = 1
    <3>1. z = Zeroed /\ next = Null
      BY <1>5, <1>7, <2>1 DEF Behind_
    <3>2. QED
      BY <1>5, <2>1, <3>1, ZeroedFacts DEF Narrowed
  <2>2. CASE list.len # 1
    <3>1. z = [start |-> next, end |-> list.end, len |-> list.len - 1,
               current |-> list.current, pos |-> list.pos]
      BY <1>7, <2>2
    <3>2. /\ list.end \in Pointers /\ list.current \in Pointers /\ list.pos \in 0..MaxPos
          /\ list.len - 1 \in 0..MaxNodes
      BY <1>3, <1>4, HeaderFields, NodesAreNotNull
    <3>3. next \in Pointers
      <4>1. 1 + 1 \in 1..(list.len + 1)
        BY <1>3, <1>4
      <4>2. QED
        BY <1>3, <1>5, <4>1, LinksOfNode
    <3>4. z \in Headers
      BY <3>1, <3>2, <3>3 DEF Headers
    <3>5. QED
      BY <1>3, <1>5, <2>2, <3>1, <3>4 DEF Narrowed
  <2>3. QED
    BY <2>1, <2>2
<1> DEFINE P == Cut(p, list.len, 1, 1)
<1>9. /\ Two(k, z, other, P, q)
      /\ Vals(k, other.len, q) = Vals(heap, other.len, q)
      /\ CutOut(Vals(heap, list.len, p), Vals(k, z.len, P), 1, 1)
  BY <1>4, <1>6, <1>8, UnlinkIsTwo
<1>10. \A i \in 1..(list.len - 1) : P[i] = p[i + 1]
  BY <1>3 DEF Cut
<1> HIDE DEF P
<1>11. ASSUME CursorAt(list, p)
       PROVE  CursorAt(z, P) <=> ~(list.len > 1 /\ list.current # Null)
  <2>1. CASE list.len = 1
    BY <1>7, <2>1, ZeroedFacts DEF CursorAt
  <2>2. CASE list.len # 1 /\ list.current = Null
    <3>1. list.pos = 0
      <4>1. list.pos < list.len => list.pos + 1 \in 1..list.len
        BY <1>3
      <4>2. QED
        BY <1>3, <1>11, <2>2, <4>1, NodeOfChain DEF CursorAt
    <3>2. QED
      BY <1>7, <2>2, <3>1 DEF CursorAt
  <2>3. CASE list.len # 1 /\ list.current # Null
    <3>1. list.pos < list.len /\ list.current = p[list.pos + 1]
      BY <1>11, <2>3 DEF CursorAt
    <3>2. z.pos = list.pos /\ z.current = list.current
      BY <1>7, <2>3
    <3>3. ASSUME list.pos < list.len - 1
          PROVE  P[list.pos + 1] # list.current
      <4>1. list.pos + 1 \in 1..(list.len - 1) /\ list.pos + 1 \in 1..list.len
            /\ (list.pos + 1) + 1 \in 1..list.len /\ (list.pos + 1) + 1 # list.pos + 1
        BY <1>3, <3>3
      <4>2. P[list.pos + 1] = p[(list.pos + 1) + 1]
        BY <1>10, <4>1
      <4>3. QED
        BY <1>3, <3>1, <4>1, <4>2 DEF Chain
    <3>4. QED
      BY <1>3, <1>4, <1>8, <2>3, <3>2, <3>3 DEF CursorAt
  <2>4. QED
    BY <2>1, <2>2, <2>3
<1>12. CursorMoves(p, P)
  <2>1. CursorLost <=> list.len > 1 /\ list.current # Null
    BY <1>1 DEF CursorLost
  <2>2. QED
    BY <1>2, <1>11, <2>1 DEF CursorMoves
<1>13. ret'.value = Vals(heap, list.len, p)[1]
  BY <1>1, <1>4 DEF Vals
<1>14. QED
  BY <1>2, <1>4, <1>9, <1>12, <1>13 DEF Leaves

LEMMA RemoveStep ==
  ASSUME NEW p, NEW q, Two(heap, list, other, p, q), CursorAt(list, p),
         NEW i \in 0..(list.len - 1), Remove(i)
  PROVE  \E P : /\ Leaves(p, q, P)
                /\ CursorAt(list', P)
                /\ CutOut(Vals(heap, list.len, p), Vals(heap', list'.len, P), i + 1, 1)
<1>1. /\ list \in Headers /\ Typed(heap) /\ Chain(heap, list, p)
      /\ list.len \in Nat /\ i \in Nat /\ i < list.len /\ i + 1 \in 1..list.len
  BY TwoFacts
<1> DEFINE l == Seek(list, i)
           x == heap[l.current].prec
           y == heap[l.current].next
           linked == [l EXCEPT !.start = IF x = Null THEN y ELSE @,
                               !.end = IF y = Null THEN x ELSE @,
                               !.len = @ - 1]
<1>2. /\ heap' = SetPrec(SetNext(Without(heap, {l.current}), x, y), y, x)
      /\ list' = CursorRemoved(linked, i, x, y)
  BY <1>1 DEF Remove
<1>3. PICK k, z : k = heap' /\ z = list'
  OBVIOUS
<1>4. Sought(l, list, p, i)
  BY SoughtIsTwo
<1> HIDE DEF l
<1>5. /\ l.current = p[i + 1] /\ l.pos = i /\ l \in Headers /\ l.len = list.len
      /\ l.start = list.start /\ l.end = list.end
  BY <1>4 DEF Sought
<1>6. x = Before(p, i + 1) /\ y = Behind_(p, list.len, (i + 1) + 1)
  BY <1>1, <1>5, NodeOfChain DEF Before, Behind_
<1>7. /\ i + 1 \in 1..(list.len + 1) /\ (i + 1) + 1 \in 1..(list.len + 1)
      /\ (i + 1) + 1 # 1 /\ (i + 1) - 1 = i /\ i + 1 # list.len + 1
  BY <1>1
<1>8. /\ x \in Pointers /\ y \in Pointers
      /\ i = 0 => x = Null
      /\ i # 0 => x = p[i] /\ x # Null /\ i \in 1..list.len
      /\ i + 1 = list.len => y = Null
      /\ i + 1 # list.len => y = p[(i + 1) + 1] /\ y # Null /\ (i + 1) + 1 \in 1..list.len
  <2>1. x \in Pointers /\ y \in Pointers
    BY <1>1, <1>6, <1>7, LinksOfNode
  <2>2. i # 0 => i \in 1..list.len
    BY <1>1
  <2>3. i + 1 # list.len => (i + 1) + 1 \in 1..list.len
    BY <1>1
  <2>4. QED
    BY <1>1, <1>6, <1>7, <2>1, <2>2, <2>3, NodeOfChain DEF Before, Behind_
<1> HIDE DEF x, y
<1>9. k = Relink(Without(heap, {p[i + 1]}), Before(p, i + 1), Behind_(p, list.len, (i + 1) + 1))
  BY <1>2, <1>3, <1>5, <1>6 DEF Relink
<1>10. z = [start |-> IF x = Null THEN y ELSE list.start,
            end |-> IF y = Null THEN x ELSE list.end,
            len |-> list.len - 1,
            current |-> IF i = 0 THEN y ELSE x,
            pos |-> IF i = 0 THEN 0 ELSE i - 1]
  BY <1>2, <1>3, <1>5 DEF CursorRemoved, Headers
<1>11. z \in Headers
  <2>1. /\ list.start \in Pointers /\ list.end \in Pointers
        /\ list.len - 1 \in 0..MaxNodes
        /\ (IF i = 0 THEN 0 ELSE i - 1) \in 0..MaxPos
    BY <1>1, HeaderFields, NodesAreNotNull
  <2>2. QED
    BY <1>8, <1>10, <2>1 DEF Headers
<1>12. Narrowed(list, z, p, i + 1, (i + 1) + 1)
  <2>1. z.len = list.len - (((i + 1) + 1) - (i + 1))
    BY <1>1, <1>10
  <2>2. x = Null <=> i + 1 = 1
    BY <1>1, <1>8
  <2>3. y = Null <=> (i + 1) + 1 = list.len + 1
    BY <1>1, <1>8
  <2>4. QED
    BY <1>6, <1>10, <2>1, <2>2, <2>3 DEF Narrowed
<1> DEFINE P == Cut(p, list.len, i + 1, 1)
<1>13. /\ Two(k, z, other, P, q)
       /\ Vals(k, other.len, q) = Vals(heap, other.len, q)
       /\ CutOut(Vals(heap, list.len, p), Vals(k, z.len, P), i + 1, 1)
  BY <1>1, <1>9, <1>11, <1>12, UnlinkIsTwo
<1>14. \A m \in 1..(list.len - 1) : P[m] = IF m < i + 1 THEN p[m] ELSE p[m + 1]
  BY <1>1 DEF Cut
<1> HIDE DEF P
<1>15. CursorAt(z, P)
  <2>1. CASE i = 0 /\ i + 1 = list.len
    BY <1>8, <1>10, <2>1 DEF CursorAt
  <2>2. CASE i = 0 /\ i + 1 # list.len
    <3>1. 1 \in 1..(list.len - 1) /\ 0 < list.len - 1 /\ ~(1 < i + 1)
      BY <1>1, <2>2
    <3>2. P[1] = y
      BY <1>8, <1>14, <2>2, <3>1
    <3>3. QED
      BY <1>10, <2>2, <3>1, <3>2 DEF CursorAt
  <2>3. CASE i # 0
    <3>1. i \in 1..(list.len - 1) /\ i - 1 < list.len - 1 /\ i < i + 1 /\ (i - 1) + 1 = i
      BY <1>1, <2>3
    <3>2. P[i] = x
      BY <1>8, <1>14, <2>3, <3>1
    <3>3. QED
      BY <1>10, <2>3, <3>1, <3>2 DEF CursorAt
  <2>4. QED
    BY <2>1, <2>2, <2>3
<1>16. QED
  BY <1>3, <1>13, <1>15 DEF Leaves

LEMMA PathsOfTwo ==
  ASSUME NEW p, NEW q, Two(heap, list, other, p, q)
  PROVE  Path(list) = p /\ Path(other) = q
BY TwoFacts, ChainIsPath, PathIsChain

LEMMA PruneStep ==
  ASSUME NEW p, NEW q, Two(heap, list, other, p, q), Prune
  PROVE  /\ Leaves(p, q, NoNodes)
         /\ CursorAt(list', NoNodes)
         /\ Vals(heap', list'.len, NoNodes) = <<>>
<1>1. heap' = Without(heap, {p[i] : i \in 1..list.len}) /\ list' = Zeroed
  BY PathsOfTwo DEF Prune, NodesOf
<1>2. PICK k, z : k = heap' /\ z = list'
  OBVIOUS
<1>3. Two(k, z, other, NoNodes, q)
  BY <1>1, <1>2, FreedIsTwo
<1>4. Typed(heap) /\ other \in Headers /\ Chain(heap, other, q)
      /\ \A i \in 1..list.len, j \in 1..other.len : p[i] # q[j]
  BY TwoFacts
<1>5. Vals(k, other.len, q) = Vals(heap, other.len, q)
  <2>1. \A j \in 1..other.len : k[q[j]] = heap[q[j]]
    BY <1>1, <1>2, <1>4, NodeOfChain DEF Without
  <2>2. QED
    BY <2>1 DEF Vals
<1>6. z.len = 0 /\ CursorAt(z, NoNodes)
  BY <1>1, <1>2, ZeroedFacts DEF CursorAt
<1>7. Vals(k, z.len, NoNodes) = <<>>
  BY <1>6 DEF Vals
<1>8. QED
  BY <1>2, <1>3, <1>5, <1>6, <1>7 DEF Leaves

LEMMA FreeStep ==
  ASSUME NEW p, NEW q, Two(heap, list, other, p, q), Free
  PROVE  /\ Two(heap', list', other', p, NoNodes) /\ list' = list
         /\ Vals(heap', other'.len, NoNodes) = <<>>
         /\ Vals(heap', list'.len, p) = Vals(heap, list.len, p)
<1>1. /\ heap' = Without(heap, {q[i] : i \in 1..other.len})
      /\ list' = list /\ other' = Zeroed
  BY PathsOfTwo DEF Free, NodesOf
<1>2. PICK k, w : k = heap' /\ w = other'
  OBVIOUS
<1>3. Two(heap, other, list, q, p)
  BY Swapped
<1>4. Two(k, w, list, NoNodes, p)
  BY <1>1, <1>2, <1>3, FreedIsTwo
<1>5. Two(k, list, w, p, NoNodes)
  BY <1>4, Swapped
<1>6. Typed(heap) /\ list \in Headers /\ Chain(heap, list, p)
      /\ \A i \in 1..list.len, j \in 1..other.len : p[i] # q[j]
  BY TwoFacts
<1>7. Vals(k, list.len, p) = Vals(heap, list.len, p)
  <2>1. \A j \in 1..list.len : k[p[j]] = heap[p[j]]
    BY <1>1, <1>2, <1>6, NodeOfChain DEF Without
  <2>2. QED
    BY <2>1 DEF Vals
<1>8. Vals(k, w.len, NoNodes) = <<>>
  BY <1>1, <1>2, ZeroedFacts DEF Vals
<1>9. QED
  BY <1>1, <1>2, <1>5, <1>7, <1>8

(* There are nodes for a copy.                                             *)
OneToOne(r, k, S) == r \in [1..k -> S] /\ \A i, j \in 1..k : i # j => r[i] # r[j]

LEMMA RoomForCopy ==
  ASSUME NEW S, IsFiniteSet(S), NEW k \in Nat, k <= Cardinality(S)
  PROVE  \E r : OneToOne(r, k, S)
<1>1. ExistsBijection(1..Cardinality(S), S) /\ Cardinality(S) \in Nat
  BY FS_CardinalityType
<1>2. PICK f : f \in Bijection(1..Cardinality(S), S)
  BY <1>1 DEF ExistsBijection
<1>3. /\ f \in [1..Cardinality(S) -> S]
      /\ \A i, j \in 1..Cardinality(S) : i # j => f[i] # f[j]
  BY <1>2 DEF Bijection, Injection, IsInjective
<1>4. \A i \in 1..k : i \in 1..Cardinality(S)
  BY <1>1
<1> DEFINE r == [i \in 1..k |-> f[i]]
<1>5. OneToOne(r, k, S)
  BY <1>3, <1>4 DEF OneToOne
<1>6. QED
  BY <1>5

(* A copy of a chain in new nodes.                                         *)
Copied(h, k, p, len, r) ==
  LET At(i) == IF i \in 1..len THEN r[i] ELSE Null
  IN  /\ DOMAIN k = DOMAIN h \cup {r[i] : i \in 1..len}
      /\ \A n \in DOMAIN h : k[n] = h[n]
      /\ \A i \in 1..len : k[r[i]] = [prec |-> At(i - 1), next |-> At(i + 1),
                                      value |-> h[p[i]].value]

CopyMade(h, l, p, k, w, r) ==
  /\ Two(k, l, w, p, r)
  /\ Vals(k, l.len, p) = Vals(h, l.len, p)
  /\ Vals(k, w.len, r) = Vals(h, l.len, p)

LEMMA CopyIsTwo ==
  ASSUME NEW h, NEW l, NEW o, NEW p, NEW q, Two(h, l, o, p, q), o.len = 0,
         NEW r, OneToOne(r, l.len, Nodes \ DOMAIN h), NEW k, Copied(h, k, p, l.len, r),
         NEW w \in Headers, w.len = l.len,
         w.start = (IF l.len = 0 THEN Null ELSE r[1]),
         w.end = (IF l.len = 0 THEN Null ELSE r[l.len])
  PROVE  CopyMade(h, l, p, k, w, r)
<1> DEFINE At(i) == IF i \in 1..l.len THEN r[i] ELSE Null
<1>1. /\ Typed(h) /\ l \in Headers /\ Chain(h, l, p) /\ l.len \in Nat
  BY TwoFacts
<1>2. /\ r \in [1..l.len -> Nodes \ DOMAIN h]
      /\ \A i, j \in 1..l.len : i # j => r[i] # r[j]
  BY DEF OneToOne
<1>3. /\ DOMAIN k = DOMAIN h \cup {r[i] : i \in 1..l.len}
      /\ \A n \in DOMAIN h : k[n] = h[n]
      /\ \A i \in 1..l.len : k[r[i]] = [prec |-> At(i - 1), next |-> At(i + 1),
                                        value |-> h[p[i]].value]
  BY DEF Copied
<1>4. \A i : At(i) \in Pointers
  BY <1>2, NodesAreNotNull
<1>5. ASSUME NEW i \in 1..l.len
      PROVE  /\ At(i - 1) = (IF i = 1 THEN Null ELSE r[i - 1])
             /\ At(i + 1) = (IF i = l.len THEN Null ELSE r[i + 1])
  <2>1. i - 1 \in 1..l.len <=> i # 1
    BY <1>1
  <2>2. i + 1 \in 1..l.len <=> i # l.len
    BY <1>1
  <2>3. QED
    BY <2>1, <2>2
<1>6. \A i \in 1..l.len : p[i] \in DOMAIN h /\ h[p[i]] \in Lnodes
  BY <1>1, NodeOfChain
<1>6a. ASSUME NEW i \in 1..l.len
       PROVE  /\ k[r[i]].prec = (IF i = 1 THEN Null ELSE r[i - 1])
              /\ k[r[i]].next = (IF i = l.len THEN Null ELSE r[i + 1])
              /\ k[r[i]].value = h[p[i]].value
              /\ k[r[i]] \in Lnodes
  <2>1. PICK x, y, v : x = At(i - 1) /\ y = At(i + 1) /\ v = h[p[i]].value
    OBVIOUS
  <2>2. k[r[i]] = [prec |-> At(i - 1), next |-> At(i + 1), value |-> h[p[i]].value]
    BY <1>3
  <2>3. k[r[i]] = [prec |-> x, next |-> y, value |-> v]
    BY <2>1, <2>2
  <2>4. x \in Pointers /\ y \in Pointers /\ v \in Values
    BY <1>4, <1>6, <2>1 DEF Lnodes
  <2>5. k[r[i]].prec = x /\ k[r[i]].next = y /\ k[r[i]].value = v /\ k[r[i]] \in Lnodes
    BY <2>3, <2>4 DEF Lnodes
  <2>6. QED
    BY <1>5, <2>1, <2>5
<1> HIDE DEF At
<1>7. Typed(k)
  <2>1. \A i \in 1..l.len : k[r[i]] \in Lnodes
    BY <1>6a
  <2>2. QED
    BY <1>1, <1>2, <1>3, <2>1 DEF Typed
<1>8. Chain(k, l, p)
  <2>1. \A i \in 1..l.len : p[i] \in DOMAIN k /\ k[p[i]] = h[p[i]]
    BY <1>3, <1>6
  <2>2. QED
    BY <1>1, <2>1, KeptIsChain
<1>9. Chain(k, w, r)
  <2>1. r \in [1..w.len -> DOMAIN k]
    BY <1>2, <1>3
  <2>2. \A i \in 1..w.len : /\ k[r[i]].prec = (IF i = 1 THEN Null ELSE r[i - 1])
                            /\ k[r[i]].next = (IF i = w.len THEN Null ELSE r[i + 1])
    BY <1>6a
  <2>3. QED
    BY <1>2, <2>1, <2>2 DEF Chain
<1>10. \A i \in 1..l.len, j \in 1..w.len : p[i] # r[j]
  BY <1>2, <1>6
<1>11. \A n \in DOMAIN k : \/ \E i \in 1..l.len : p[i] = n
                           \/ \E j \in 1..w.len : r[j] = n
  <2>1. \A n \in DOMAIN h : \E i \in 1..l.len : p[i] = n
    BY DEF Two
  <2>2. QED
    BY <1>3, <2>1
<1>12. Two(k, l, w, p, r)
  BY <1>1, <1>7, <1>8, <1>9, <1>10, <1>11 DEF Two
<1>13. Vals(k, l.len, p) = Vals(h, l.len, p)
  BY <1>3, <1>6 DEF Vals
<1>14. Vals(k, w.len, r) = Vals(h, l.len, p)
  <2>1. \A i \in 1..l.len : k[r[i]].value = h[p[i]].value
    BY <1>6a
  <2>2. QED
    BY <2>1 DEF Vals
<1>15. QED
  BY <1>12, <1>13, <1>14 DEF CopyMade

LEMMA CopyStep ==
  ASSUME NEW p, NEW q, Two(heap, list, other, p, q), CursorAt(list, p), other.len = 0, Copy
  PROVE  \E r : /\ Two(heap', list', other', p, r)
                /\ CursorAt(list', p)
                /\ Vals(heap', list'.len, p) = Vals(heap, list.len, p)
                /\ Vals(heap', other'.len, r) = Vals(heap, list.len, p)
<1> DEFINE k == list.len
           room == CHOOSE r \in [1..k -> Available] :
                     \A i, j \in 1..k : i # j => r[i] # r[j]
           At(i) == IF i \in 1..k THEN room[i] ELSE Null
           node(i) == [prec |-> At(i - 1), next |-> At(i + 1),
                       value |-> heap[Path(list)[i]].value]
<1>1. /\ k <= Cardinality(Available)
      /\ heap' = [n \in DOMAIN heap \cup {room[i] : i \in 1..k} |->
                    IF n \in DOMAIN heap THEN heap[n]
                                         ELSE node(CHOOSE i \in 1..k : room[i] = n)]
      /\ list' = IF k = 0 THEN list ELSE Seek(Seek(list, 0), k - 1)
      /\ other' = [start |-> At(1), end |-> At(k), len |-> k,
                   current |-> At(1), pos |-> 0]
  BY DEF Copy
<1>2. /\ list \in Headers /\ Typed(heap) /\ Chain(heap, list, p)
      /\ k \in Nat /\ Path(list) = p /\ k \in 0..MaxNodes
  BY TwoFacts, PathsOfTwo, HeaderFields
<1>3. OneToOne(room, k, Available)
  <2>1. IsFiniteSet(Available)
    <3>1. IsFiniteSet(Nodes)
      BY NodesAreNotNull, FS_Interval DEF Nodes
    <3>2. QED
      BY <3>1, FS_Subset DEF Available
  <2>2. PICK r : OneToOne(r, k, Available)
    BY <1>1, <1>2, <2>1, RoomForCopy
  <2>3. \E f \in [1..k -> Available] : \A i, j \in 1..k : i # j => f[i] # f[j]
    BY <2>2 DEF OneToOne
  <2>4. QED
    BY <2>3 DEF OneToOne
<1> HIDE DEF room
<1>4. /\ room \in [1..k -> Nodes \ DOMAIN heap]
      /\ \A i, j \in 1..k : i # j => room[i] # room[j]
  BY <1>3 DEF OneToOne, Available
<1>5. ASSUME NEW i \in 1..k
      PROVE  heap'[room[i]] = [prec |-> At(i - 1), next |-> At(i + 1),
                               value |-> heap[p[i]].value]
  <2>1. room[i] \notin DOMAIN heap
    BY <1>4
  <2>2. i = CHOOSE j \in 1..k : room[j] = room[i]
    BY <1>4
  <2>3. room[i] \in DOMAIN heap \cup {room[j] : j \in 1..k}
    OBVIOUS
  <2>4. heap'[room[i]] = node(CHOOSE j \in 1..k : room[j] = room[i])
    <3> HIDE DEF node
    <3>1. QED
      BY <1>1, <2>1, <2>3
  <2>5. heap'[room[i]] = node(i)
    BY <2>2, <2>4
  <2>6. QED
    BY <1>2, <2>5
<1>6. Copied(heap, heap', p, k, room)
  <2>1. /\ DOMAIN heap' = DOMAIN heap \cup {room[i] : i \in 1..k}
        /\ \A n \in DOMAIN heap : heap'[n] = heap[n]
    <3> HIDE DEF node
    <3>1. QED
      BY <1>1
  <2>2. QED
    BY <1>5, <2>1 DEF Copied
<1>7. PICK h, z, w : h = heap' /\ z = list' /\ w = other'
  OBVIOUS
<1>8. /\ w \in Headers /\ w.len = k
      /\ w.start = (IF k = 0 THEN Null ELSE room[1])
      /\ w.end = (IF k = 0 THEN Null ELSE room[k])
  <2>1. At(1) = (IF k = 0 THEN Null ELSE room[1]) /\ At(k) = (IF k = 0 THEN Null ELSE room[k])
    BY <1>2
  <2>2. At(1) \in Pointers /\ At(k) \in Pointers /\ 0 \in 0..MaxPos
    BY <1>4, NodesAreNotNull
  <2>3. PICK x, y : x = At(1) /\ y = At(k)
    OBVIOUS
  <2>4. w = [start |-> x, end |-> y, len |-> k, current |-> x, pos |-> 0]
    BY <1>1, <1>7, <2>3
  <2>5. QED
    BY <1>2, <2>1, <2>2, <2>3, <2>4 DEF Headers
<1> HIDE DEF At, node
<1>9. /\ Two(h, list, w, p, room)
      /\ Vals(h, list.len, p) = Vals(heap, list.len, p)
      /\ Vals(h, w.len, room) = Vals(heap, list.len, p)
  <2>1. Copied(heap, h, p, list.len, room) /\ OneToOne(room, list.len, Nodes \ DOMAIN heap)
    BY <1>3, <1>6, <1>7 DEF Available
  <2>2. CopyMade(heap, list, p, h, w, room)
    BY <1>8, <2>1, CopyIsTwo, Zenon
  <2>3. QED
    BY <2>2 DEF CopyMade
<1>10. CursorAt(z, p) /\ z \in Headers /\ z.len = list.len /\ z.start = list.start /\ z.end = list.end
  <2>1. CASE k = 0
    BY <1>1, <1>2, <1>7, <2>1
  <2>2. CASE k # 0
    <3> DEFINE y == Seek(list, 0)
    <3>1. 0 \in 0..(list.len - 1)
      BY <1>2, <2>2
    <3>2. Sought(y, list, p, 0) /\ CursorAt(y, p)
      BY <3>1, SoughtIsTwo
    <3>3. z = Seek(y, k - 1)
      BY <1>1, <1>7, <2>2
    <3> HIDE DEF y
    <3>4. y \in Headers /\ y.len = k /\ y.start = list.start /\ y.end = list.end /\ Chain(heap, y, p)
      BY <1>2, <3>2, SoughtIsChain DEF Sought
    <3>5. PICK i \in 0..(y.len - 1) : i = k - 1 /\ i + 1 = k
      BY <1>2, <2>2, <3>4
    <3>6. Sought(z, y, p, i)
      BY <1>2, <3>2, <3>3, <3>4, <3>5, SeekFinds
    <3>7. QED
      BY <1>2, <2>2, <3>4, <3>5, <3>6 DEF Sought, CursorAt
  <2>3. QED
    BY <2>1, <2>2
<1>11. Two(h, z, w, p, room)
  <2>1. Chain(h, z, p)
    BY <1>9, <1>10 DEF Two, Chain
  <2>2. QED
    BY <1>9, <1>10, <2>1 DEF Two
<1>12. QED
  BY <1>7, <1>9, <1>10, <1>11

(* A chain of which d nodes from a on are cut off, from h to m.            *)
Severed(h, m, l, p, a, d) ==
  /\ Typed(m) /\ DOMAIN m = DOMAIN h
  /\ Bridged(h, m, p, l.len, a, a + d)
  /\ \A i \in a..(a + d - 1) :
       /\ m[p[i]].prec = IF i = a THEN Null ELSE h[p[i]].prec
       /\ m[p[i]].next = IF i = a + d - 1 THEN Null ELSE h[p[i]].next
  /\ \A n \in DOMAIN h : m[n].value = h[n].value

LEMMA CutOff ==
  ASSUME NEW h, Typed(h), NEW l \in Headers, NEW p, Chain(h, l, p),
         NEW a \in 1..l.len, NEW d \in 1..(l.len - a + 1),
         NEW m, m = SetNext(SetPrec(Relink(h, Before(p, a), Behind_(p, l.len, a + d)),
                                    p[a], Null),
                            p[a + d - 1], Null)
  PROVE  Severed(h, m, l, p, a, d)
<1> DEFINE e == a + d - 1
           g == Relink(h, Before(p, a), Behind_(p, l.len, a + d))
           k == SetPrec(g, p[a], Null)
<1>1. /\ l.len \in Nat /\ a \in Nat /\ d \in Nat /\ a >= 1 /\ d >= 1 /\ a + d <= l.len + 1
      /\ e \in 1..l.len /\ e + 1 = a + d /\ a \in a..e /\ e \in a..e
      /\ \A i \in a..e : i \in 1..l.len /\ i \notin {a - 1, a + d}
  BY HeaderFields
<1>2. /\ \A i \in 1..l.len : p[i] \in DOMAIN h /\ p[i] \in Pointers /\ p[i] # Null
      /\ \A i, j \in 1..l.len : p[i] = p[j] <=> i = j
  <2>1. \A i \in 1..l.len : p[i] \in DOMAIN h /\ p[i] \in Pointers /\ p[i] # Null
    BY NodeOfChain
  <2>2. \A i, j \in 1..l.len : p[i] = p[j] <=> i = j
    BY DEF Chain
  <2>3. QED
    BY <2>1, <2>2
<1>3. /\ Typed(g) /\ DOMAIN g = DOMAIN h
      /\ Bridged(h, g, p, l.len, a, a + d)
      /\ \A n \in DOMAIN h : g[n].value = h[n].value
      /\ \A i \in a..e : g[p[i]] = h[p[i]]
  <2>1. Closed(h, h, g, l, p, a, a + d)
    BY <1>2, LinksBridge, Zenon
  <2>2. \A i \in a..e : p[i] \in DOMAIN h /\ \A j \in 1..l.len : j \in {a - 1, a + d} => p[i] # p[j]
    BY <1>1, <1>2
  <2> HIDE DEF g
  <2>3. QED
    BY <2>1, <2>2 DEF Closed
<1> HIDE DEF g
<1>4. /\ Typed(k) /\ DOMAIN k = DOMAIN g
      /\ \A n \in DOMAIN g : /\ k[n].prec = IF n = p[a] THEN Null ELSE g[n].prec
                             /\ k[n].next = g[n].next
                             /\ k[n].value = g[n].value
  <2>1. /\ p[a] \in DOMAIN g /\ p[a] \in Pointers /\ Null \in Pointers /\ Typed(g)
    BY <1>2, <1>3, NodesAreNotNull
  <2>2. PICK b \in Pointers : b = p[a]
    BY <2>1
  <2>3. b \in DOMAIN g /\ k = SetPrec(g, b, Null)
    BY <2>1, <2>2
  <2> HIDE DEF k
  <2>4. QED
    BY <2>1, <2>2, <2>3, SetPrecFacts, SMTT(40)
<1> HIDE DEF k
<1>5. m = SetNext(k, p[e], Null)
  BY DEF k, g
<1>6. /\ Typed(m) /\ DOMAIN m = DOMAIN k
      /\ \A n \in DOMAIN k : /\ m[n].next = IF n = p[e] THEN Null ELSE k[n].next
                             /\ m[n].prec = k[n].prec
                             /\ m[n].value = k[n].value
  <2>1. p[e] \in DOMAIN k /\ p[e] \in Pointers /\ Null \in Pointers /\ Typed(k)
    BY <1>1, <1>2, <1>3, <1>4, NodesAreNotNull
  <2>2. PICK b \in Pointers : b = p[e]
    BY <2>1
  <2>3. m = SetNext(k, b, Null)
    BY <1>5, <2>2
  <2> HIDE DEF e
  <2>4. QED
    BY <2>1, <2>2, <2>3, SetNextFacts, SMTT(40)
<1> HIDE DEF e
<1>7. Bridged(h, m, p, l.len, a, a + d)
  <2>1. ASSUME NEW i \in (1..l.len) \ (a..((a + d) - 1))
        PROVE  /\ p[i] \in DOMAIN m
               /\ m[p[i]].prec = g[p[i]].prec /\ m[p[i]].next = g[p[i]].next
               /\ m[p[i]].value = g[p[i]].value
    <3>1. i # a /\ i # e
      BY <1>1
    <3>2. p[i] # p[a] /\ p[i] # p[e] /\ p[i] \in DOMAIN h
      BY <1>1, <1>2, <3>1
    <3>3. QED
      BY <1>3, <1>4, <1>6, <3>2
  <2>2. QED
    BY <1>3, <2>1 DEF Bridged
<1>8. ASSUME NEW i \in a..e
      PROVE  /\ m[p[i]].prec = IF i = a THEN Null ELSE h[p[i]].prec
             /\ m[p[i]].next = IF i = e THEN Null ELSE h[p[i]].next
  <2>1. (p[i] = p[a] <=> i = a) /\ (p[i] = p[e] <=> i = e) /\ p[i] \in DOMAIN h
    BY <1>1, <1>2
  <2>2. QED
    BY <1>3, <1>4, <1>6, <2>1
<1>9. \A n \in DOMAIN h : m[n].value = h[n].value
  BY <1>3, <1>4, <1>6
<1>10. QED
  BY <1>3, <1>4, <1>6, <1>7, <1>8, <1>9 DEF e, Severed

LEMMA ValsOfPart ==
  ASSUME NEW s \in Seq(Values), NEW a \in 1..Len(s), NEW d \in 1..(Len(s) - a + 1),
         NEW t \in Seq(Values), Len(t) = d,
         \A i \in 1..d : t[i] = s[a + (i - 1)]
  PROVE  t = SubSeq(s, a, a + d - 1)
<1>1. PICK n \in Nat : n = Len(s)
  OBVIOUS
<1>2. PICK b \in Nat : b = a + d - 1 /\ b <= n /\ a \in Nat /\ a >= 1 /\ b >= a /\ (b - a) + 1 = d
  BY <1>1
<1>3. /\ SubSeq(s, a, b) \in Seq(Values) /\ Len(SubSeq(s, a, b)) = d
      /\ \A i \in 1..d : SubSeq(s, a, b)[i] = s[a + (i - 1)]
  BY <1>1, <1>2
<1>4. \A i \in 1..Len(t) : t[i] = SubSeq(s, a, b)[i]
  BY <1>3
<1>5. t = SubSeq(s, a, b)
  BY <1>3, <1>4, SeqEqual
<1>6. QED
  BY <1>2, <1>5

(* Extract, of k nodes that are there.                                     *)
ExtractTo(i, k) ==
  LET first == Seek(list, i)
      last == Seek(first, i + k - 1)
      prec == heap[first.current].prec
      next == heap[last.current].next
      cut == [SetPrec(SetNext(heap, prec, next), next, prec)
                EXCEPT ![first.current].prec = Null]
      start == IF prec = Null THEN next ELSE list.start
  IN  /\ heap' = [cut EXCEPT ![last.current].next = Null]
      /\ other' = [start |-> first.current, end |-> last.current,
                   len |-> k, current |-> first.current, pos |-> 0]
      /\ list' = [start |-> start,
                  end |-> IF next = Null THEN prec ELSE list.end,
                  len |-> list.len - k, current |-> start, pos |-> 0]

(* d nodes from a on moved to the other list.                              *)
LEMMA ExtractStep ==
  ASSUME NEW p, NEW q, Two(heap, list, other, p, q), CursorAt(list, p), other.len = 0,
         NEW i \in 0..(list.len - 1), NEW n \in Int, n # 0,
         i + n <= list.len \/ n > list.len, Extract(i, n),
         NEW d, d = IF n < 0 \/ n > list.len THEN list.len - i ELSE n
  PROVE  \E P, r :
           /\ Two(heap', list', other', P, r)
           /\ CursorAt(list', P)
           /\ CutOut(Vals(heap, list.len, p), Vals(heap', list'.len, P), i + 1, d)
           /\ Vals(heap', other'.len, r) = SubSeq(Vals(heap, list.len, p), i + 1, i + d)
<1>1. /\ list \in Headers /\ Typed(heap) /\ Chain(heap, list, p)
      /\ list.len \in Nat /\ i \in Nat /\ i < list.len /\ i + 1 \in 1..list.len
      /\ d \in Nat /\ d >= 1 /\ i + d <= list.len /\ d \in 1..(list.len - (i + 1) + 1)
      /\ (i + d) - 1 \in 0..(list.len - 1) /\ ((i + d) - 1) + 1 = i + d
      /\ (i + 1) + d = (i + d) + 1 /\ i + d \in 1..list.len
      /\ (i + 1) + d - 1 = i + d
  <2>1. list \in Headers /\ Typed(heap) /\ Chain(heap, list, p) /\ list.len \in Nat
    BY TwoFacts
  <2>2. i \in Nat /\ i < list.len /\ i + 1 \in 1..list.len
    BY <2>1
  <2>3. d \in Nat /\ d >= 1 /\ i + d <= list.len
    BY <2>1, <2>2
  <2>4. QED
    BY <2>1, <2>2, <2>3
<1> DEFINE first == Seek(list, i)
           last == Seek(first, i + d - 1)
           x == heap[first.current].prec
           y == heap[last.current].next
           cut == [SetPrec(SetNext(heap, x, y), y, x) EXCEPT ![first.current].prec = Null]
           start == IF x = Null THEN y ELSE list.start
<1>2. /\ heap' = [cut EXCEPT ![last.current].next = Null]
      /\ other' = [start |-> first.current, end |-> last.current,
                   len |-> d, current |-> first.current, pos |-> 0]
      /\ list' = [start |-> start, end |-> IF y = Null THEN x ELSE list.end,
                  len |-> list.len - d, current |-> start, pos |-> 0]
  <2>1. ExtractTo(i, IF n < 0 \/ n > list.len THEN list.len - i ELSE n)
    <3>1. ~(i >= list.len)
      BY <1>1
    <3>2. QED
      BY <3>1, Zenon DEF Extract, ExtractTo
  <2>2. ExtractTo(i, d)
    BY <2>1, Zenon
  <2>3. QED
    BY <2>2 DEF ExtractTo
<1>3. PICK m, z, w : m = heap' /\ z = list' /\ w = other'
  OBVIOUS
<1>4. first.current = p[i + 1] /\ first \in Headers /\ first.len = list.len
      /\ Chain(heap, first, p) /\ CursorAt(first, p)
  <2>1. Sought(first, list, p, i) /\ CursorAt(first, p)
    BY SoughtIsTwo
  <2> HIDE DEF first
  <2>2. QED
    BY <1>1, <2>1, SoughtIsChain DEF Sought
<1> HIDE DEF first
<1>5. last.current = p[i + d]
  <2>1. PICK j \in 0..(first.len - 1) : j = i + d - 1 /\ j + 1 = i + d
    BY <1>1, <1>4
  <2>2. Sought(last, first, p, j)
    BY <1>1, <1>4, <2>1, SeekFinds
  <2> HIDE DEF last
  <2>3. QED
    BY <2>1, <2>2 DEF Sought
<1> HIDE DEF last
<1>6. x = Before(p, i + 1) /\ y = Behind_(p, list.len, (i + 1) + d)
  <2>1. /\ i + 1 = 1 <=> i = 0
        /\ (i + 1) - 1 = i
        /\ i + d = list.len <=> (i + 1) + d = list.len + 1
    BY <1>1
  <2>2. /\ heap[p[i + 1]].prec = (IF i + 1 = 1 THEN Null ELSE p[(i + 1) - 1])
        /\ heap[p[i + d]].next = (IF i + d = list.len THEN Null ELSE p[(i + d) + 1])
    BY <1>1, NodeOfChain
  <2>3. QED
    BY <1>1, <1>4, <1>5, <2>1, <2>2 DEF Before, Behind_
<1>7. /\ x \in Pointers /\ y \in Pointers
      /\ x = Null <=> i + 1 = 1
      /\ y = Null <=> (i + 1) + d = list.len + 1
  <2>1. i + 1 \in 1..(list.len + 1) /\ (i + 1) + d \in 1..(list.len + 1)
        /\ (i + 1 # 1 => (i + 1) - 1 \in 1..list.len)
        /\ ((i + 1) + d # list.len + 1 => (i + 1) + d \in 1..list.len)
    BY <1>1
  <2>2. x \in Pointers /\ y \in Pointers
    BY <1>1, <1>6, <2>1, LinksOfNode
  <2>3. \A j \in 1..list.len : p[j] # Null
    BY <1>1, NodeOfChain
  <2>4. QED
    BY <1>6, <2>1, <2>2, <2>3 DEF Before, Behind_
<1> HIDE DEF x, y
<1>8. p[i + 1] # Null /\ p[i + d] # Null /\ p[i + 1] \in Pointers /\ p[i + d] \in Pointers
  BY <1>1, NodeOfChain
<1>9. m = SetNext(SetPrec(Relink(heap, Before(p, i + 1), Behind_(p, list.len, (i + 1) + d)),
                          p[i + 1], Null),
                  p[(i + 1) + d - 1], Null)
  <2>1. PICK g : g = SetPrec(SetNext(heap, x, y), y, x)
    OBVIOUS
  <2>2. g = Relink(heap, Before(p, i + 1), Behind_(p, list.len, (i + 1) + d))
    BY <1>6, <2>1 DEF Relink
  <2>3. m = [[g EXCEPT ![p[i + 1]].prec = Null] EXCEPT ![p[i + d]].next = Null]
    BY <1>2, <1>3, <1>4, <1>5, <2>1
  <2>4. m = SetNext(SetPrec(g, p[i + 1], Null), p[i + d], Null)
    BY <1>8, <2>3 DEF SetPrec, SetNext
  <2>5. (i + 1) + d - 1 = i + d
    BY <1>1
  <2>6. QED
    BY <2>2, <2>4, <2>5
<1>10. Severed(heap, m, list, p, i + 1, d)
  <2>1. \A h, l : /\ Typed(h) /\ l \in Headers /\ Chain(h, l, p)
                  /\ i + 1 \in 1..l.len /\ d \in 1..(l.len - (i + 1) + 1)
                  /\ m = SetNext(SetPrec(Relink(h, Before(p, i + 1), Behind_(p, l.len, (i + 1) + d)),
                                         p[i + 1], Null),
                                 p[(i + 1) + d - 1], Null)
                  => Severed(h, m, l, p, i + 1, d)
    BY CutOff, Zenon
  <2>2. QED
    BY <1>1, <1>9, <2>1
<1>11. /\ z \in Headers /\ Narrowed(list, z, p, i + 1, (i + 1) + d)
       /\ z.current = z.start /\ z.pos = 0 /\ z.len = list.len - d
  <2>1. z = [start |-> start, end |-> IF y = Null THEN x ELSE list.end,
             len |-> list.len - d, current |-> start, pos |-> 0]
    BY <1>2, <1>3
  <2>2. /\ list.start \in Pointers /\ list.end \in Pointers
        /\ list.len - d \in 0..MaxNodes /\ 0 \in 0..MaxPos
    <3>1. /\ list.start \in Pointers /\ list.end \in Pointers /\ list.len <= MaxNodes
          /\ MaxNodes \in Nat /\ MaxPos \in Nat
      BY <1>1, HeaderFields, NodesAreNotNull
    <3>2. list.len \in Nat /\ d \in Nat /\ d <= list.len
      BY <1>1
    <3>3. QED
      BY <3>1, <3>2
  <2>3. start \in Pointers
    BY <1>7, <2>2
  <2>4. z \in Headers
    BY <1>7, <2>1, <2>2, <2>3 DEF Headers
  <2>5. list.len - d = list.len - (((i + 1) + d) - (i + 1))
    BY <1>1
  <2>6. QED
    BY <1>6, <1>7, <2>1, <2>4, <2>5 DEF Narrowed
<1>12. w \in Headers /\ w.len = d /\ w.start = p[i + 1] /\ w.end = p[(i + 1) + d - 1]
  <2>1. d \in 0..MaxNodes /\ 0 \in 0..MaxPos
    BY <1>1, HeaderFields, NodesAreNotNull
  <2>2. w = [start |-> p[i + 1], end |-> p[i + d], len |-> d, current |-> p[i + 1], pos |-> 0]
    BY <1>2, <1>3, <1>4, <1>5
  <2>3. QED
    BY <1>1, <1>8, <2>1, <2>2 DEF Headers
<1> DEFINE P == Cut(p, list.len, i + 1, d)
           r == Part(p, i + 1, d)
<1>13. Two(m, z, w, P, r)
  <2>1. PICK a \in 1..list.len : a = i + 1 /\ d \in 1..(list.len - a + 1)
    BY <1>1
  <2>2. Severed(heap, m, list, p, a, d) /\ Narrowed(list, z, p, a, a + d)
        /\ w.start = p[a] /\ w.end = p[a + d - 1]
    BY <1>10, <1>11, <1>12, <2>1
  <2>3. Two(m, z, w, Cut(p, list.len, a, d), Part(p, a, d))
    <3>1. /\ Typed(m) /\ DOMAIN m = DOMAIN heap
          /\ Bridged(heap, m, p, list.len, a, a + d)
          /\ \A j \in a..(a + d - 1) :
               /\ m[p[j]].prec = IF j = a THEN Null ELSE heap[p[j]].prec
               /\ m[p[j]].next = IF j = a + d - 1 THEN Null ELSE heap[p[j]].next
      BY <2>2 DEF Severed
    <3>2. z \in Headers /\ w \in Headers /\ w.len = d
      BY <1>11, <1>12
    <3>3. QED
      BY <2>1, <2>2, <3>1, <3>2, PartIsTwo, ZenonT(40)
  <2>4. QED
    BY <2>1, <2>3
<1>14. CutOut(Vals(heap, list.len, p), Vals(m, z.len, P), i + 1, d)
  <2>1. Typed(m) /\ Bridged(heap, m, p, list.len, i + 1, (i + 1) + d)
    BY <1>10 DEF Severed
  <2>2. QED
    BY <1>1, <1>11, <2>1, CutVals, Zenon
<1>15. Vals(m, w.len, r) = SubSeq(Vals(heap, list.len, p), i + 1, i + d)
  <2> DEFINE s == Vals(heap, list.len, p)
             t == Vals(m, w.len, r)
  <2>1. /\ s \in Seq(Values) /\ Len(s) = list.len
        /\ \A j \in 1..list.len : s[j] = heap[p[j]].value
    BY <1>1, ValsFacts
  <2> HIDE DEF s
  <2>2. Typed(m) /\ Chain(m, w, r)
    BY <1>13, TwoFacts
  <2>3. /\ t \in Seq(Values) /\ Len(t) = w.len
        /\ \A j \in 1..w.len : t[j] = m[r[j]].value
    BY <1>12, <2>2, ValsFacts, SMTT(30)
  <2>4. \A j \in 1..d : r[j] = p[(i + 1) + (j - 1)]
    BY DEF Part
  <2> HIDE DEF t, r
  <2>5. ASSUME NEW j \in 1..d
        PROVE  t[j] = s[(i + 1) + (j - 1)]
    <3>1. (i + 1) + (j - 1) \in 1..list.len
      BY <1>1
    <3>2. p[(i + 1) + (j - 1)] \in DOMAIN heap
      BY <1>1, <3>1, NodeOfChain
    <3>3. m[p[(i + 1) + (j - 1)]].value = heap[p[(i + 1) + (j - 1)]].value
      BY <1>10, <3>2 DEF Severed
    <3>4. t[j] = m[p[(i + 1) + (j - 1)]].value
      <4>1. j \in 1..w.len
        BY <1>12
      <4>2. t[j] = m[r[j]].value
        BY <2>3, <4>1
      <4>3. r[j] = p[(i + 1) + (j - 1)]
        BY <2>4
      <4>4. QED
        BY <4>2, <4>3
    <3>5. s[(i + 1) + (j - 1)] = heap[p[(i + 1) + (j - 1)]].value
      BY <2>1, <3>1
    <3>6. QED
      BY <3>3, <3>4, <3>5
  <2>6. PICK a \in 1..Len(s) : a = i + 1 /\ d \in 1..(Len(s) - a + 1)
    BY <1>1, <2>1
  <2>7. t = SubSeq(s, a, a + d - 1)
    <3>1. Len(t) = d /\ \A j \in 1..d : t[j] = s[a + (j - 1)]
      BY <1>12, <2>3, <2>5, <2>6
    <3>2. s \in Seq(Values) /\ t \in Seq(Values) /\ d \in 1..(Len(s) - a + 1)
      BY <2>1, <2>3, <2>6
    <3>3. QED
      BY <3>1, <3>2, ValsOfPart
  <2>8. a + d - 1 = i + d
    BY <1>1, <2>6
  <2>9. t = SubSeq(s, i + 1, i + d)
    BY <2>6, <2>7, <2>8
  <2>10. QED
    BY <2>9 DEF s, t
<1> HIDE DEF P, r
<1>16. CursorAt(z, P)
  <2>1. Chain(m, z, P) /\ z.len \in Nat
    BY <1>13, TwoFacts
  <2>2. QED
    BY <1>11, <2>1 DEF Chain, CursorAt
<1>17. QED
  BY <1>3, <1>13, <1>14, <1>15, <1>16

-----------------------------------------------------------------------------
(* The calls, as what they do to the sequences of values.                  *)

LEMMA ContentsOfTwo ==
  ASSUME NEW p, NEW q, Two(heap, list, other, p, q)
  PROVE  /\ Contents(list) = Vals(heap, list.len, p)
         /\ Contents(other) = Vals(heap, other.len, q)
         /\ Contents(list) \in Seq(Values) /\ Len(Contents(list)) = list.len
         /\ Contents(other) \in Seq(Values) /\ Len(Contents(other)) = other.len
         /\ list.len \in Nat
<1>1. /\ Path(list) = p /\ Path(other) = q
      /\ Typed(heap) /\ list \in Headers /\ other \in Headers /\ Chain(heap, list, p)
      /\ Chain(heap, other, q) /\ list.len \in Nat
  BY PathsOfTwo, TwoFacts
<1>2. /\ \A i \in 1..list.len : p[i] \in DOMAIN heap
      /\ \A i \in 1..other.len : q[i] \in DOMAIN heap
  BY <1>1 DEF Chain
<1>3. Contents(list) = Vals(heap, list.len, p) /\ Contents(other) = Vals(heap, other.len, q)
  BY <1>1, <1>2 DEF Contents, Vals
<1>4. QED
  BY <1>1, <1>3, ValsFacts

LEMMA ContentsOfTwoNow ==
  ASSUME NEW P, NEW Q, Two(heap', list', other', P, Q)
  PROVE  /\ Contents(list)' = Vals(heap', list'.len, P)
         /\ Contents(other)' = Vals(heap', other'.len, Q)
<1>1. /\ Typed(heap') /\ list' \in Headers /\ other' \in Headers /\ Chain(heap', list', P)
      /\ Chain(heap', other', Q)
  BY TwoFacts
<1>2. Path(list)' = P /\ Path(other)' = Q
  BY <1>1, PathsNow, ChainIsPath
<1>3. /\ \A i \in 1..list'.len : P[i] \in DOMAIN heap'
      /\ \A i \in 1..other'.len : Q[i] \in DOMAIN heap'
  BY <1>1 DEF Chain
<1>4. QED
  BY <1>2, <1>3 DEF Contents, Vals

(* From the chains p and q the call goes on to two others, and keeps the   *)
(* cursor and answers as it should.                                        *)
Goes(p) == \E P, Q : /\ Two(heap', list', other', P, Q)
                     /\ CursorMoves(p, P)
                     /\ L!Next

LEMMA LeavesFacts ==
  ASSUME NEW p, NEW q, Two(heap, list, other, p, q), NEW P, Leaves(p, q, P), other' = other
  PROVE  /\ Two(heap', list', other', P, q)
         /\ Contents(list) = Vals(heap, list.len, p)
         /\ Contents(list)' = Vals(heap', list'.len, P)
         /\ Contents(other)' = Contents(other)
         /\ Contents(list) \in Seq(Values) /\ Len(Contents(list)) = list.len
         /\ list.len \in Nat
<1>1. Two(heap', list', other', P, q)
  BY DEF Leaves
<1>2. Contents(other)' = Contents(other)
  BY <1>1, ContentsOfTwo, ContentsOfTwoNow DEF Leaves
<1>3. QED
  BY <1>1, <1>2, ContentsOfTwo, ContentsOfTwoNow

LEMMA CursorStays ==
  ASSUME NEW p, NEW P, CursorAt(list, p) => CursorAt(list', P),
         ret'.op # "pop", ret'.op # "push"
  PROVE  CursorMoves(p, P)
BY DEF CursorMoves, CursorLost

LEMMA PushGoes ==
  ASSUME NEW p, NEW q, Two(heap, list, other, p, q), NEW v \in Values,
         list.pos < MaxPos, Push(v)
  PROVE  Goes(p)
<1>1. PICK P : /\ Leaves(p, q, P)
               /\ CursorMoves(p, P)
               /\ Spliced(Vals(heap, list.len, p), Vals(heap', list'.len, P), 1, v)
  BY PushStep
<1>2. other' = other /\ ret'.op = "push" /\ ret'.arg = v
  BY DEF Push, Returns
<1>3. L!Push
  <2>1. Contents(list)' = <<v>> \o Contents(list) /\ Contents(other)' = Contents(other)
    BY <1>1, <1>2, LeavesFacts DEF Spliced
  <2>2. QED
    BY <1>2, <2>1 DEF L!Push
<1>4. QED
  BY <1>1, <1>2, <1>3, LeavesFacts DEF Goes, L!Next

LEMMA AppendGoes ==
  ASSUME NEW p, NEW q, Two(heap, list, other, p, q), NEW v \in Values, AppendAt(v)
  PROVE  Goes(p)
<1>1. other' = other /\ ret'.op = "append" /\ ret'.arg = v /\ Appends(v)
  BY DEF AppendAt, Returns
<1>2. PICK P : /\ Leaves(p, q, P)
               /\ CursorAt(list, p) => CursorAt(list', P)
               /\ Spliced(Vals(heap, list.len, p), Vals(heap', list'.len, P), list.len + 1, v)
  BY <1>1, AppendsStep
<1>3. L!Append_
  <2>1. Contents(list)' = Append(Contents(list), v) /\ Contents(other)' = Contents(other)
    BY <1>1, <1>2, LeavesFacts DEF Spliced
  <2>2. QED
    BY <1>1, <2>1 DEF L!Append_
<1>4. CursorMoves(p, P)
  BY <1>1, <1>2, CursorStays
<1>5. QED
  BY <1>1, <1>2, <1>3, <1>4, LeavesFacts DEF Goes, L!Next

LEMMA KeptLeaves ==
  ASSUME NEW p, NEW q, Two(heap, list, other, p, q), heap' = heap, list' = list
  PROVE  Leaves(p, q, p) /\ (CursorAt(list, p) => CursorAt(list', p))
BY DEF Leaves

LEMMA AddGoes ==
  ASSUME NEW p, NEW q, Two(heap, list, other, p, q), CursorAt(list, p),
         NEW i \in 0..(list.len + 1), NEW v \in Values, i > 0 \/ list.len = 0, Add(i, v)
  PROVE  Goes(p)
<1>1. /\ other' = other /\ ret'.op = "add" /\ ret'.arg = v /\ ret'.at = i
      /\ ret'.value = (i <= list.len)
  BY DEF Add, Returns
<1>2. list.len \in Nat /\ i \in Nat
  BY TwoFacts
<1>3. CASE i > list.len
  <2>1. heap' = heap /\ list' = list /\ ~(i <= list.len)
    BY <1>2, <1>3 DEF Add
  <2>2. Leaves(p, q, p) /\ (CursorAt(list, p) => CursorAt(list', p))
    BY <2>1, KeptLeaves
  <2>3. L!Add
    <3>1. /\ Contents(list)' = Contents(list) /\ Contents(other)' = Contents(other)
          /\ Len(Contents(list)) = list.len
      BY <1>1, <2>1, <2>2, LeavesFacts DEF Leaves
    <3>2. QED
      BY <1>1, <2>1, <3>1 DEF L!Add
  <2>4. CursorMoves(p, p)
    BY <1>1, <2>2, CursorStays
  <2>5. QED
    BY <1>1, <2>2, <2>3, <2>4, LeavesFacts DEF Goes, L!Next
<1>4. CASE i <= list.len
  <2>1. \E P : /\ Leaves(p, q, P)
               /\ CursorAt(list, p) => CursorAt(list', P)
               /\ Spliced(Vals(heap, list.len, p), Vals(heap', list'.len, P), i + 1, v)
    <3>1. CASE i = list.len
      <4>1. Appends(v)
        BY <1>2, <3>1 DEF Add
      <4>2. QED
        BY <3>1, <4>1, AppendsStep
    <3>2. CASE i # list.len
      <4>1. AddBefore(i, v) /\ i \in 1..(list.len - 1)
        BY <1>2, <1>4, <3>2 DEF Add
      <4>2. QED
        BY <4>1, AddBeforeStep
    <3>3. QED
      BY <3>1, <3>2
  <2>2. PICK P : /\ Leaves(p, q, P)
                 /\ CursorAt(list, p) => CursorAt(list', P)
                 /\ Spliced(Vals(heap, list.len, p), Vals(heap', list'.len, P), i + 1, v)
    BY <2>1
  <2>3. L!Add
    <3>1. /\ Contents(list)' = L!S!InsertAt(Contents(list), i + 1, v)
          /\ Contents(other)' = Contents(other)
          /\ Len(Contents(list)) = list.len
      BY <1>1, <2>2, LeavesFacts DEF Spliced, L!S!InsertAt
    <3>2. QED
      BY <1>1, <1>4, <3>1 DEF L!Add
  <2>4. CursorMoves(p, P)
    BY <1>1, <2>2, CursorStays
  <2>5. QED
    BY <1>1, <2>2, <2>3, <2>4, LeavesFacts DEF Goes, L!Next
<1>5. QED
  BY <1>2, <1>3, <1>4

LEMMA GetGoes ==
  ASSUME NEW p, NEW q, Two(heap, list, other, p, q), CursorAt(list, p),
         NEW i \in 0..(list.len + 1), Get(i)
  PROVE  Goes(p)
<1>1. /\ other' = other /\ heap' = heap /\ ret'.op = "get" /\ ret'.at = i
  BY DEF Get, Returns
<1>2. list.len \in Nat /\ i \in Nat
  BY TwoFacts
<1>3. CASE i >= list.len
  <2>1. list' = list /\ ret'.value = NoValue /\ ~(i < list.len)
    BY <1>2, <1>3 DEF Get, Returns
  <2>2. Leaves(p, q, p) /\ (CursorAt(list, p) => CursorAt(list', p))
    BY <1>1, <2>1, KeptLeaves
  <2>3. L!Get
    <3>1. /\ Contents(list)' = Contents(list) /\ Contents(other)' = Contents(other)
          /\ Len(Contents(list)) = list.len
      BY <1>1, <2>1, <2>2, LeavesFacts DEF Leaves
    <3>2. QED
      BY <1>1, <2>1, <3>1 DEF L!Get
  <2>4. CursorMoves(p, p)
    BY <1>1, <2>2, CursorStays
  <2>5. QED
    BY <1>1, <2>2, <2>3, <2>4, LeavesFacts DEF Goes, L!Next
<1>4. CASE i < list.len
  <2>1. /\ list' = Seek(list, i) /\ i \in 0..(list.len - 1)
        /\ ret'.value = IF Seek(list, i).current # Null THEN heap[Seek(list, i).current].value
                                                        ELSE NoValue
    BY <1>2, <1>4 DEF Get, Returns
  <2>2. /\ Leaves(p, q, p)
        /\ CursorAt(list', p)
        /\ list'.current # Null
        /\ heap[list'.current].value = Vals(heap, list.len, p)[i + 1]
        /\ Vals(heap', list'.len, p) = Vals(heap, list.len, p)
    BY <1>1, <2>1, GetStep
  <2>3. L!Get
    <3>1. /\ Contents(list)' = Contents(list) /\ Contents(other)' = Contents(other)
          /\ Len(Contents(list)) = list.len
          /\ Contents(list) = Vals(heap, list.len, p)
      BY <1>1, <2>2, LeavesFacts
    <3>2. ret'.value = Contents(list)[i + 1]
      BY <2>1, <2>2, <3>1
    <3>3. QED
      BY <1>1, <1>4, <3>1, <3>2 DEF L!Get
  <2>4. CursorMoves(p, p)
    BY <1>1, <2>2, CursorStays
  <2>5. QED
    BY <1>1, <2>2, <2>3, <2>4, LeavesFacts DEF Goes, L!Next
<1>5. QED
  BY <1>2, <1>3, <1>4

LEMMA InsertGoes ==
  ASSUME NEW p, NEW q, Two(heap, list, other, p, q), CursorAt(list, p),
         NEW i \in 0..(list.len + 1), NEW v \in Values, Insert(i, v)
  PROVE  Goes(p)
<1>1. /\ other' = other /\ ret'.op = "insert" /\ ret'.arg = v /\ ret'.at = i
      /\ ret'.value = (i <= list.len)
  BY DEF Insert, Returns
<1>2. list.len \in Nat /\ i \in Nat
  BY TwoFacts
<1>3. CASE i > list.len
  <2>1. heap' = heap /\ list' = list /\ ~(i <= list.len) /\ ~(i < list.len)
    BY <1>2, <1>3 DEF Insert
  <2>2. Leaves(p, q, p) /\ (CursorAt(list, p) => CursorAt(list', p))
    BY <2>1, KeptLeaves
  <2>3. L!Insert
    <3>1. /\ Contents(list)' = Contents(list) /\ Contents(other)' = Contents(other)
          /\ Len(Contents(list)) = list.len
      BY <1>1, <2>1, <2>2, LeavesFacts DEF Leaves
    <3>2. QED
      BY <1>1, <2>1, <3>1 DEF L!Insert
  <2>4. CursorMoves(p, p)
    BY <1>1, <2>2, CursorStays
  <2>5. QED
    BY <1>1, <2>2, <2>3, <2>4, LeavesFacts DEF Goes, L!Next
<1>4. CASE i = list.len
  <2>1. Appends(v) /\ i <= list.len /\ ~(i < list.len)
    BY <1>2, <1>4 DEF Insert
  <2>2. PICK P : /\ Leaves(p, q, P)
                 /\ CursorAt(list, p) => CursorAt(list', P)
                 /\ Spliced(Vals(heap, list.len, p), Vals(heap', list'.len, P), list.len + 1, v)
    BY <2>1, AppendsStep
  <2>3. L!Insert
    <3>1. /\ Contents(list)' = Append(Contents(list), v)
          /\ Contents(other)' = Contents(other)
          /\ Len(Contents(list)) = list.len
      BY <1>1, <2>2, LeavesFacts DEF Spliced
    <3>2. QED
      BY <1>1, <2>1, <3>1 DEF L!Insert
  <2>4. CursorMoves(p, P)
    BY <1>1, <2>2, CursorStays
  <2>5. QED
    BY <1>1, <2>2, <2>3, <2>4, LeavesFacts DEF Goes, L!Next
<1>5. CASE i < list.len
  <2>1. /\ list' = Seek(list, i) /\ heap' = [heap EXCEPT ![list'.current].value = v]
        /\ i \in 0..(list.len - 1) /\ i <= list.len
    BY <1>2, <1>5 DEF Insert
  <2>2. /\ Leaves(p, q, p)
        /\ CursorAt(list', p)
        /\ Vals(heap', list'.len, p) = [Vals(heap, list.len, p) EXCEPT ![i + 1] = v]
    <3>1. Writes(i, v)
      BY <2>1 DEF Writes
    <3>2. Written(p, q, i, v)
      BY <2>1, <3>1, InsertStep, Zenon
    <3>3. QED
      BY <3>2 DEF Written
  <2>3. L!Insert
    <3>1. /\ Contents(list)' = L!S!ReplaceAt(Contents(list), i + 1, v)
          /\ Contents(other)' = Contents(other)
          /\ Len(Contents(list)) = list.len
      BY <1>1, <2>2, LeavesFacts DEF L!S!ReplaceAt
    <3>2. QED
      BY <1>1, <1>5, <2>1, <3>1 DEF L!Insert
  <2>4. CursorMoves(p, p)
    BY <1>1, <2>2, CursorStays
  <2>5. QED
    BY <1>1, <2>2, <2>3, <2>4, LeavesFacts DEF Goes, L!Next
<1>6. QED
  BY <1>2, <1>3, <1>4, <1>5

LEMMA PopGoes ==
  ASSUME NEW p, NEW q, Two(heap, list, other, p, q), Pop
  PROVE  Goes(p)
<1>1. other' = other /\ ret'.op = "pop"
  BY DEF Pop, Returns
<1>2. list.len \in Nat /\ list.len <= MaxNodes
      /\ Contents(list) \in Seq(Values) /\ Len(Contents(list)) = list.len
  BY TwoFacts, ContentsOfTwo, HeaderFields
<1>3. CASE list.start = Null
  <2>1. heap' = heap /\ list' = list /\ ret'.value = NoValue
    BY <1>3 DEF Pop, Returns
  <2>2. Leaves(p, q, p) /\ (CursorAt(list, p) => CursorAt(list', p))
    BY <2>1, KeptLeaves
  <2>3. list.len = 0
    <3>1. list.len # 0 => 1 \in 1..list.len
      BY <1>2
    <3>2. Typed(heap) /\ list \in Headers /\ Chain(heap, list, p)
      BY TwoFacts
    <3>3. list.len # 0 => list.start = p[1]
      BY <3>2 DEF Chain
    <3>4. list.len # 0 => p[1] # Null
      BY <3>1, <3>2, NodeOfChain
    <3>5. QED
      BY <1>3, <3>3, <3>4
  <2>4. L!Pop
    <3>1. Contents(list)' = Contents(list) /\ Contents(other)' = Contents(other)
      BY <1>1, <2>1, <2>2, LeavesFacts DEF Leaves
    <3>2. Contents(list) = <<>>
      BY <1>2, <2>3
    <3>3. QED
      BY <1>1, <2>1, <3>1, <3>2 DEF L!Pop
  <2>5. CursorMoves(p, p)
    BY <2>2, <2>3 DEF CursorMoves, CursorLost
  <2>6. QED
    BY <1>1, <2>2, <2>4, <2>5, LeavesFacts DEF Goes, L!Next
<1>4. CASE list.start # Null
  <2>1. PICK P : /\ Leaves(p, q, P)
                 /\ CursorMoves(p, P)
                 /\ list.len # 0 /\ ret'.value = Vals(heap, list.len, p)[1]
                 /\ CutOut(Vals(heap, list.len, p), Vals(heap', list'.len, P), 1, 1)
    BY <1>4, PopStep
  <2>2. L!Pop
    <3>1. PICK s : s = Contents(list)
      OBVIOUS
    <3>2. /\ Contents(other)' = Contents(other)
          /\ ret'.value = s[1] /\ CutOut(s, Contents(list)', 1, 1)
      BY <1>1, <2>1, <3>1, LeavesFacts
    <3>3. s \in Seq(Values) /\ s # <<>> /\ Len(s) \in Nat /\ Len(s) >= 1
      BY <1>2, <2>1, <3>1
    <3>4. SubSeq(s, 1, 1 - 1) \o SubSeq(s, 1 + 1, Len(s)) = Tail(s) /\ Head(s) = s[1]
      <4>1. /\ Tail(s) \in Seq(Values) /\ Len(Tail(s)) = Len(s) - 1
            /\ \A i \in 1..(Len(s) - 1) : Tail(s)[i] = s[i + 1]
        BY <3>3
      <4>2. 1 \in 1..Len(s) /\ 1 \in 1..(Len(s) - 1 + 1)
        BY <3>3
      <4>3. \A i \in 1..(Len(s) - 1) : Tail(s)[i] = IF i < 1 THEN s[i] ELSE s[i + 1]
        BY <4>1
      <4>4. Tail(s) = SubSeq(s, 1, 1 - 1) \o SubSeq(s, 1 + 1, Len(s))
        BY <3>3, <4>1, <4>2, <4>3, ValsOfCut
      <4>5. Head(s) = s[1]
        BY <3>3
      <4>6. QED
        BY <4>4, <4>5
    <3>5. Contents(list)' = Tail(s)
      BY <3>2, <3>4 DEF CutOut
    <3>6. QED
      BY <1>1, <3>1, <3>2, <3>3, <3>4, <3>5 DEF L!Pop
  <2>3. QED
    BY <1>1, <2>1, <2>2, LeavesFacts DEF Goes, L!Next
<1>5. QED
  BY <1>3, <1>4

LEMMA RemoveGoes ==
  ASSUME NEW p, NEW q, Two(heap, list, other, p, q), CursorAt(list, p),
         NEW i \in 0..(list.len + 1), Remove(i)
  PROVE  Goes(p)
<1>1. /\ other' = other /\ ret'.op = "remove" /\ ret'.at = i
      /\ ret'.value = (i < list.len)
  BY DEF Remove, Returns
<1>2. list.len \in Nat /\ i \in Nat
  BY TwoFacts
<1>3. CASE i >= list.len
  <2>1. heap' = heap /\ list' = list /\ ~(i < list.len)
    BY <1>2, <1>3 DEF Remove
  <2>2. Leaves(p, q, p) /\ (CursorAt(list, p) => CursorAt(list', p))
    BY <2>1, KeptLeaves
  <2>3. L!Remove
    <3>1. /\ Contents(list)' = Contents(list) /\ Contents(other)' = Contents(other)
          /\ Len(Contents(list)) = list.len
      BY <1>1, <2>1, <2>2, LeavesFacts DEF Leaves
    <3>2. QED
      BY <1>1, <2>1, <3>1 DEF L!Remove
  <2>4. CursorMoves(p, p)
    BY <1>1, <2>2, CursorStays
  <2>5. QED
    BY <1>1, <2>2, <2>3, <2>4, LeavesFacts DEF Goes, L!Next
<1>4. CASE i < list.len
  <2>1. i \in 0..(list.len - 1)
    BY <1>2, <1>4
  <2>2. PICK P : /\ Leaves(p, q, P)
                 /\ CursorAt(list', P)
                 /\ CutOut(Vals(heap, list.len, p), Vals(heap', list'.len, P), i + 1, 1)
    BY <2>1, RemoveStep
  <2>3. L!Remove
    <3>1. PICK s : s = Contents(list)
      OBVIOUS
    <3>2. /\ CutOut(s, Contents(list)', i + 1, 1)
          /\ Contents(other)' = Contents(other)
          /\ Len(s) = list.len
      BY <1>1, <2>2, <3>1, LeavesFacts
    <3>3. Contents(list)' = SubSeq(s, 1, (i + 1) - 1) \o SubSeq(s, (i + 1) + 1, Len(s))
      BY <3>2 DEF CutOut
    <3>4. Contents(list)' = L!S!RemoveAt(s, i + 1)
      BY <3>3 DEF L!S!RemoveAt
    <3>5. QED
      BY <1>1, <1>4, <3>1, <3>2, <3>4 DEF L!Remove
  <2>4. CursorMoves(p, P)
    BY <1>1, <2>2, CursorStays
  <2>5. QED
    BY <1>1, <2>2, <2>3, <2>4, LeavesFacts DEF Goes, L!Next
<1>5. QED
  BY <1>2, <1>3, <1>4

LEMMA PruneGoes ==
  ASSUME NEW p, NEW q, Two(heap, list, other, p, q), Prune
  PROVE  Goes(p)
<1>1. other' = other /\ ret'.op = "prune"
  BY DEF Prune, Returns
<1>2. /\ Leaves(p, q, NoNodes)
      /\ CursorAt(list', NoNodes)
      /\ Vals(heap', list'.len, NoNodes) = <<>>
  BY PruneStep
<1>3. L!Prune
  <2>1. Contents(list)' = <<>> /\ Contents(other)' = Contents(other)
    BY <1>1, <1>2, LeavesFacts
  <2>2. QED
    BY <1>1, <2>1 DEF L!Prune
<1>4. CursorMoves(p, NoNodes)
  BY <1>1, <1>2, CursorStays
<1>5. QED
  BY <1>1, <1>2, <1>3, <1>4, LeavesFacts DEF Goes, L!Next

LEMMA FreeGoes ==
  ASSUME NEW p, NEW q, Two(heap, list, other, p, q), Free
  PROVE  Goes(p)
<1>1. ret'.op = "free"
  BY DEF Free, Returns
<1>2. /\ Two(heap', list', other', p, NoNodes) /\ list' = list
      /\ Vals(heap', other'.len, NoNodes) = <<>>
      /\ Vals(heap', list'.len, p) = Vals(heap, list.len, p)
  BY FreeStep
<1>3. L!Free
  <2>1. Contents(list)' = Contents(list) /\ Contents(other)' = <<>>
    BY <1>2, ContentsOfTwo, ContentsOfTwoNow
  <2>2. QED
    BY <1>1, <2>1 DEF L!Free
<1>4. CursorMoves(p, p)
  <2>1. CursorAt(list, p) => CursorAt(list', p)
    BY <1>2
  <2>2. QED
    BY <1>1, <2>1, CursorStays
<1>5. QED
  BY <1>2, <1>3, <1>4 DEF Goes, L!Next

LEMMA CopyGoes ==
  ASSUME NEW p, NEW q, Two(heap, list, other, p, q), CursorAt(list, p), other.len = 0, Copy
  PROVE  Goes(p)
<1>1. ret'.op = "copy"
  BY DEF Copy, Returns
<1>2. PICK r : /\ Two(heap', list', other', p, r)
               /\ CursorAt(list', p)
               /\ Vals(heap', list'.len, p) = Vals(heap, list.len, p)
               /\ Vals(heap', other'.len, r) = Vals(heap, list.len, p)
  BY CopyStep
<1>3. L!Copy
  <2>1. Contents(list)' = Contents(list) /\ Contents(other)' = Contents(list)
    BY <1>2, ContentsOfTwo, ContentsOfTwoNow
  <2>2. QED
    BY <1>1, <2>1 DEF L!Copy
<1>4. CursorMoves(p, p)
  BY <1>1, <1>2, CursorStays
<1>5. QED
  BY <1>2, <1>3, <1>4 DEF Goes, L!Next

LEMMA ExtractGoes ==
  ASSUME NEW p, NEW q, Two(heap, list, other, p, q), CursorAt(list, p), other.len = 0,
         NEW i \in 0..(list.len + 1), NEW n \in Int, n # 0,
         i + n <= list.len \/ n > list.len, Extract(i, n)
  PROVE  Goes(p)
<1>1. ret'.op = "extract" /\ ret'.at = i /\ ret'.n = n
  BY DEF Extract
<1>2. list.len \in Nat /\ i \in Nat /\ Contents(list) = Vals(heap, list.len, p)
      /\ Len(Contents(list)) = list.len
  BY TwoFacts, ContentsOfTwo
<1>3. CASE i >= list.len
  <2>1. heap' = heap /\ list' = list /\ other' = Zeroed
    BY <1>3 DEF Extract
  <2>2. PICK w : w = other' /\ w = Zeroed /\ w.len = 0
    BY <2>1, ZeroedFacts
  <2>3. Two(heap, list, w, p, NoNodes)
    <3>1. Typed(heap) /\ list \in Headers /\ Chain(heap, list, p)
          /\ \A m \in DOMAIN heap : \E j \in 1..list.len : p[j] = m
      BY TwoFacts DEF Two
    <3>2. Chain(heap, w, NoNodes) /\ w \in Headers
      BY <2>2, ZeroedFacts, EmptyIsChain
    <3>3. \A j : j \notin 1..w.len
      BY <2>2
    <3>4. QED
      BY <3>1, <3>2, <3>3 DEF Two
  <2>4. Two(heap', list', other', p, NoNodes)
    BY <2>1, <2>2, <2>3
  <2>5. L!Extract
    <3>1. /\ Contents(list)' = Contents(list)
          /\ Contents(other)' = Vals(heap', other'.len, NoNodes)
      BY <1>2, <2>1, <2>4, ContentsOfTwoNow
    <3>2. Vals(heap', w.len, NoNodes) = <<>>
      BY <2>2 DEF Vals
    <3>3. Contents(other)' = <<>>
      BY <2>2, <3>1, <3>2
    <3>4. QED
      BY <1>1, <1>2, <1>3, <3>1, <3>3 DEF L!Extract
  <2>6. CursorMoves(p, p)
    <3>1. CursorAt(list, p) => CursorAt(list', p)
      BY <2>1
    <3>2. QED
      BY <1>1, <3>1, CursorStays
  <2>7. QED
    BY <2>4, <2>5, <2>6 DEF Goes, L!Next
<1>4. CASE i < list.len
  <2>1. PICK d : d = IF n < 0 \/ n > list.len THEN list.len - i ELSE n
    OBVIOUS
  <2>2. i \in 0..(list.len - 1) /\ ~(i >= list.len)
    BY <1>2, <1>4
  <2>3. PICK P, r :
           /\ Two(heap', list', other', P, r)
           /\ CursorAt(list', P)
           /\ CutOut(Vals(heap, list.len, p), Vals(heap', list'.len, P), i + 1, d)
           /\ Vals(heap', other'.len, r) = SubSeq(Vals(heap, list.len, p), i + 1, i + d)
    BY <2>1, <2>2, ExtractStep
  <2>4. L!Extract
    <3>1. PICK s : s = Contents(list)
      OBVIOUS
    <3>2. CutOut(s, Contents(list)', i + 1, d) /\ Contents(other)' = SubSeq(s, i + 1, i + d)
      BY <1>2, <2>3, <3>1, ContentsOfTwoNow
    <3>3. Contents(list)' = SubSeq(s, 1, (i + 1) - 1) \o SubSeq(s, (i + 1) + d, Len(s))
      BY <3>2 DEF CutOut
    <3>4. (i + 1) - 1 = i /\ (i + 1) + d = i + d + 1
      BY <1>2, <2>1
    <3>5. Contents(list)' = SubSeq(s, 1, i) \o SubSeq(s, i + d + 1, Len(s))
      BY <3>3, <3>4
    <3>6. d = IF ret'.n < 0 \/ ret'.n > Len(s) THEN Len(s) - ret'.at ELSE ret'.n
      BY <1>1, <1>2, <2>1, <3>1
    <3>7. QED
      BY <1>1, <1>2, <2>2, <3>1, <3>2, <3>5, <3>6 DEF L!Extract
  <2>5. CursorMoves(p, P)
    BY <1>1, <2>3, CursorStays
  <2>6. QED
    BY <2>3, <2>4, <2>5 DEF Goes, L!Next
<1>5. QED
  BY <1>2, <1>3, <1>4

-----------------------------------------------------------------------------
(* The theorems.                                                           *)

LEMMA StepGoes ==
  ASSUME HeapIsTheLists, Next
  PROVE  Goes(Path(list))
<1> SUFFICES ASSUME NEW p, NEW q, p = Path(list), q = Path(other)
             PROVE  Goes(p)
  OBVIOUS
<1>1. Two(heap, list, other, p, q) /\ list.len \in Nat
  BY TheChains, TwoFacts
<1>2. CASE Blind
  <2>1. CASE \E v \in Values : list.pos < MaxPos /\ Push(v)
    BY <1>1, <2>1, PushGoes
  <2>2. CASE \E v \in Values : AppendAt(v)
    BY <1>1, <2>2, AppendGoes
  <2>3. CASE Pop
    BY <1>1, <2>3, PopGoes
  <2>4. CASE Prune
    BY <1>1, <2>4, PruneGoes
  <2>5. CASE Free
    BY <1>1, <2>5, FreeGoes
  <2>6. QED
    BY <1>2, <2>1, <2>2, <2>3, <2>4, <2>5 DEF Blind
<1>3. CASE CursorIsRight /\ Seeking
  <2>1. CursorAt(list, p)
    BY <1>3, CursorOfPath
  <2>2. CASE \E i \in Indices : Get(i)
    BY <1>1, <2>1, <2>2, GetGoes DEF Indices
  <2>3. CASE \E i \in Indices : Remove(i)
    BY <1>1, <2>1, <2>3, RemoveGoes DEF Indices
  <2>4. CASE \E i \in Indices : \E v \in Values : (i > 0 \/ list.len = 0) /\ Add(i, v)
    BY <1>1, <2>1, <2>4, AddGoes DEF Indices
  <2>5. CASE \E i \in Indices : \E v \in Values : Insert(i, v)
    BY <1>1, <2>1, <2>5, InsertGoes DEF Indices
  <2>6. CASE other.len = 0 /\ Copy
    BY <1>1, <2>1, <2>6, CopyGoes
  <2>7. ASSUME other.len = 0, NEW i \in Indices, NEW n \in (-1..(list.len + 1)) \ {0},
               i + n <= list.len \/ n > list.len, Extract(i, n)
        PROVE  Goes(p)
    <3>1. n \in Int /\ n # 0 /\ i \in 0..(list.len + 1)
      BY <1>1 DEF Indices
    <3>2. QED
      BY <1>1, <2>1, <2>7, <3>1, ExtractGoes
  <2>8. QED
    BY <1>3, <2>2, <2>3, <2>4, <2>5, <2>6, <2>7 DEF Seeking
<1>4. QED
  BY <1>2, <1>3 DEF Next

LEMMA StepKeeps ==
  ASSUME HeapIsTheLists, Next
  PROVE  /\ HeapIsTheLists'
         /\ CursorIsRight => (CursorIsRight' <=> ~CursorLost)
         /\ L!Next
<1>1. PICK P, Q : /\ Two(heap', list', other', P, Q)
                  /\ CursorMoves(Path(list), P)
                  /\ L!Next
  BY StepGoes DEF Goes
<1>2. HeapIsTheLists'
  BY <1>1, TwoIsEnough
<1>3. Path(list)' = P
  <2>1. Typed(heap') /\ list' \in Headers /\ Chain(heap', list', P)
    BY <1>1, TwoFacts
  <2>2. QED
    BY <2>1, PathsNow, ChainIsPath
<1>4. CursorIsRight => (CursorIsRight' <=> ~CursorLost)
  <2>1. CursorIsRight' <=> CursorAt(list', P)
    BY <1>3, CursorOfPathNow
  <2>2. QED
    BY <1>1, <2>1, CursorOfPath DEF CursorMoves
<1>5. QED
  BY <1>1, <1>2, <1>4

LEMMA InitIsTwo ==
  ASSUME Init
  PROVE  Two(heap, list, other, NoNodes, NoNodes) /\ list.len = 0 /\ other.len = 0
<1>1. DOMAIN heap = {} /\ list = Zeroed /\ other = Zeroed
  BY DEF Init
<1>2. Typed(heap)
  BY <1>1 DEF Typed
<1>3. Chain(heap, list, NoNodes) /\ Chain(heap, other, NoNodes)
  BY <1>1, ZeroedFacts, EmptyIsChain
<1>4. QED
  BY <1>1, <1>2, <1>3, ZeroedFacts DEF Two

LEMMA InitIsTheLists == Init => HeapIsTheLists
<1>1. SUFFICES ASSUME Init PROVE HeapIsTheLists
  OBVIOUS
<1>2. Two(heap, list, other, NoNodes, NoNodes)
  BY <1>1, InitIsTwo
<1>3. Path(list) = NoNodes /\ Path(other) = NoNodes
  BY <1>2, PathsOfTwo
<1>4. QED
  BY <1>2, <1>3, PathIsChain

(* Both lists stay well linked in both directions, their ends and lengths  *)
(* right; they share no node and none is lost: for every heap and every    *)
(* sequence of calls the client makes, listSeek walking from either side,  *)
(* listRemove and listExtract relinking the neighbours.                    *)
THEOREM ListsStayLinked == Spec => []HeapIsTheLists
<1>1. Init => HeapIsTheLists
  BY InitIsTheLists
<1>2. HeapIsTheLists /\ [Next]_vars => HeapIsTheLists'
  <2>1. SUFFICES ASSUME HeapIsTheLists, [Next]_vars PROVE HeapIsTheLists'
    OBVIOUS
  <2>2. CASE Next
    BY <2>1, <2>2, StepKeeps
  <2>3. CASE UNCHANGED vars
    <3>1. heap' = heap /\ list' = list /\ other' = other
      BY <2>3 DEF vars
    <3>2. QED
      BY <2>1, <3>1, HeapIsTheTwo, HeapIsTheTwoNow DEF TheTwo
  <2>4. QED
    BY <2>1, <2>2, <2>3
<1>3. QED
  BY <1>1, <1>2, PTL DEF Spec

(* A right cursor is lost by a pop that leaves nodes while it is somewhere *)
(* and by a push while it is nowhere, always, and by no other call.        *)
THEOREM CursorIsKept == Spec => CursorKept
<1>1. HeapIsTheLists /\ [Next]_vars
        => [CursorIsRight => (CursorIsRight' <=> ~CursorLost)]_vars
  BY StepKeeps
<1>2. QED
  BY <1>1, ListsStayLinked, PTL DEF Spec, CursorKept

(* Every call does to the values, and answers, what ListSpec says.         *)
THEOREM ListsAreSequences == Spec => IsASequence
<1>1. Init => L!Init
  <2>1. SUFFICES ASSUME Init PROVE L!Init
    OBVIOUS
  <2>2. Contents(list) = <<>> /\ Contents(other) = <<>>
    BY <2>1, InitIsTwo DEF Contents
  <2>3. QED
    BY <2>1, <2>2 DEF L!Init, Init
<1>2. HeapIsTheLists /\ [Next]_vars => [L!Next]_L!vars
  <2>1. SUFFICES ASSUME HeapIsTheLists, [Next]_vars PROVE [L!Next]_L!vars
    OBVIOUS
  <2>2. CASE Next
    BY <2>1, <2>2, StepKeeps
  <2>3. CASE UNCHANGED vars
    BY <2>3 DEF vars, L!vars, Contents, Path, Ahead
  <2>4. QED
    BY <2>1, <2>2, <2>3
<1>3. QED
  BY <1>1, <1>2, ListsStayLinked, PTL DEF Spec, IsASequence, L!Spec

=============================================================================
