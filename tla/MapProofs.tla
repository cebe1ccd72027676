----------------------------- MODULE MapProofs -----------------------------
(***************************************************************************)
(* spring's map is a dictionary, and its tree balanced (SpringMap), for   *)
(* any bound on the keys.                                                  *)
(*                                                                         *)
(* The tree below a node is described without recursion, by a certificate: *)
(* a set of claims "S are the nodes below n, to black depth b", each       *)
(* resting on one for either child.  The functions that call themselves    *)
(* are followed by induction on the number of nodes below.  In the order   *)
(* of the file: certificates and how to join and split them, the           *)
(* recursive functions step by step, rotations and flips, what nodeFixUp   *)
(* does to a nearly balanced node, nodeAdd, the borrowing of a deletion,   *)
(* nodeDeleteMin, nodeDelete, the drop of unreachable nodes, and the map.  *)
(***************************************************************************)
EXTENDS SpringMap, FiniteSetTheorems, WellFoundedInduction, TLAPS

-----------------------------------------------------------------------------
(* Induction on a set of numbers.                                          *)

LEMMA LeastExists ==
  ASSUME NEW S \in SUBSET Nat, S # {}
  PROVE  \E x \in S : \A j \in S : x <= j
<1> DEFINE Lt == {ss \in Nat \X Nat : ss[1] < ss[2]}
<1>1. IsWellFoundedOn(Lt, Nat)
  BY NatLessThanWellFounded DEF OpToRel
<1>2. \A x, y \in Nat : <<y, x>> \in Lt <=> y < x
  OBVIOUS
<1> HIDE DEF Lt
<1>3. \E x \in S : \A y \in S : ~(<<y, x>> \in Lt)
  BY <1>1, WFMin
<1>4. QED
  <2>1. PICK x \in S : \A y \in S : ~(<<y, x>> \in Lt)
    BY <1>3
  <2>2. ASSUME NEW y \in S
        PROVE  x <= y
    <3>1. x \in Nat /\ y \in Nat
      OBVIOUS
    <3>2. ~(y < x)
      BY <1>2, <2>1, <3>1
    <3>3. QED
      BY <3>1, <3>2
  <2>3. QED
    BY <2>2

(* Induction up to n, for a set.                                           *)
LEMMA Induction ==
  ASSUME NEW n \in Nat, NEW M, 0 \in M, \A i \in 1..n : i - 1 \in M => i \in M
  PROVE  \A i \in 0..n : i \in M
<1> DEFINE B == {i \in 0..n : i \notin M}
<1>1. SUFFICES ASSUME B # {} PROVE FALSE
  OBVIOUS
<1>2. B \in SUBSET Nat
  OBVIOUS
<1>3. PICK b \in B : \A j \in B : b <= j
  BY <1>1, <1>2, LeastExists
<1>4. b \in 1..n /\ b \notin M
  BY <1>3
<1>5. b - 1 \in M
  BY <1>3, <1>4
<1>6. QED
  BY <1>4, <1>5

-----------------------------------------------------------------------------
(* Trees in a heap.                                                        *)

IsHeap(h) == DOMAIN h \subseteq Nodes /\ h \in [DOMAIN h -> Mnodes]

Lesser(h, S, n) == {m \in S : h[m].key < h[n].key}
Greater(h, S, n) == {m \in S : h[m].key > h[n].key}

(* The black depth below n, when that of n is b; a negative depth is for a *)
(* tree whose colours do not matter.                                       *)
Under(h, n, b) == IF b < 0 \/ h[n].red THEN b ELSE b - 1

LeansLeft(h, n, b) ==
  b < 0 \/ /\ h[n].red \/ b >= 1
           /\ ~Red(h, h[n].right)
           /\ h[n].red => ~Red(h, h[n].left)

Splits(h, n, S) ==
  /\ n \in S /\ S \subseteq DOMAIN h
  /\ S = Lesser(h, S, n) \cup {n} \cup Greater(h, S, n)

(* The nodes below n are those of S, to depth b: claims that rest on other *)
(* claims of C only.                                                       *)
Claim(n, S, b) == [n |-> n, s |-> S, b |-> b]
Rests(h, C, n, S, b) ==
  \/ n = Null /\ S = {} /\ b <= 0
  \/ /\ Splits(h, n, S) /\ LeansLeft(h, n, b)
     /\ Claim(h[n].left, Lesser(h, S, n), Under(h, n, b)) \in C
     /\ Claim(h[n].right, Greater(h, S, n), Under(h, n, b)) \in C
Certifies(h, C) == \A t \in C : Rests(h, C, t.n, t.s, t.b)

Distinct(h, S) == \A x, y \in S : h[x].key = h[y].key => x = y

(* S are the nodes of a search tree below n; where b is not negative, of a *)
(* left-leaning red-black tree of black depth b.                           *)
Span(h, n, S, b) ==
  Distinct(h, S) /\ \E C : Certifies(h, C) /\ Claim(n, S, b) \in C

NoDepth == -1
Tree(h, n, S) == Span(h, n, S, NoDepth)

(* A lies before n and B after it.                                         *)
Joined(h, n, A, B) ==
  /\ n \in DOMAIN h /\ A \subseteq DOMAIN h /\ B \subseteq DOMAIN h
  /\ \A a \in A : h[a].key < h[n].key
  /\ \A c \in B : h[c].key > h[n].key

(* Below n are A on the left and B on the right, to depth c.               *)
Halves(h, n, A, B, c) ==
  Joined(h, n, A, B) /\ Span(h, h[n].left, A, c) /\ Span(h, h[n].right, B, c)

LEMMA NoDepthFacts == NoDepth \in Int /\ NoDepth < 0
BY DEF NoDepth

LEMMA LinkFacts ==
  /\ Null \notin Nodes /\ Null \in Links /\ Nodes \subseteq Links
  /\ \A n \in Nodes : n \in Nat /\ n > 0 /\ n # Null
  /\ \A n \in Links : ~(n < 0) /\ n \in Int
BY MapAssumption DEF Nodes, Keys, Links, Null

LEMMA HeapFacts ==
  ASSUME NEW h, IsHeap(h)
  PROVE  \A n \in DOMAIN h :
           /\ n \in Nodes /\ h[n] \in Mnodes
           /\ h[n].left \in Links /\ h[n].right \in Links
           /\ h[n].key \in Keys /\ h[n].key \in Int /\ h[n].red \in BOOLEAN
           /\ h[n].value \in Values
<1>1. \A n \in DOMAIN h : n \in Nodes /\ h[n] \in Mnodes
  BY DEF IsHeap
<1>2. \A r \in Mnodes : /\ r.left \in Links /\ r.right \in Links
                        /\ r.key \in Keys /\ r.red \in BOOLEAN /\ r.value \in Values
  BY DEF Mnodes
<1>3. Keys \subseteq Int
  BY DEF Keys
<1>4. QED
  BY <1>1, <1>2, <1>3

LEMMA ClaimFacts ==
  ASSUME NEW n, NEW S, NEW b
  PROVE  Claim(n, S, b).n = n /\ Claim(n, S, b).s = S /\ Claim(n, S, b).b = b
BY DEF Claim

LEMMA NothingSpans ==
  ASSUME NEW h, NEW b \in Int, b <= 0
  PROVE  Span(h, Null, {}, b)
<1>1. Certifies(h, {Claim(Null, {}, b)})
  BY ClaimFacts DEF Certifies, Rests
<1>2. QED
  BY <1>1 DEF Span, Distinct

LEMMA SpanOfNull ==
  ASSUME NEW h, IsHeap(h), NEW S, NEW b \in Int, Span(h, Null, S, b)
  PROVE  S = {} /\ b <= 0
<1>1. PICK C : Certifies(h, C) /\ Claim(Null, S, b) \in C
  BY DEF Span
<1>2. Rests(h, C, Null, S, b)
  BY <1>1, ClaimFacts DEF Certifies
<1>3. ~Splits(h, Null, S)
  BY LinkFacts DEF Splits, IsHeap
<1>4. QED
  BY <1>2, <1>3 DEF Rests

(* What is below a node.                                                   *)
LEMMA SpanOfNode ==
  ASSUME NEW h, IsHeap(h), NEW n, NEW S, NEW b \in Int, Span(h, n, S, b), n # Null
  PROVE  /\ Splits(h, n, S) /\ LeansLeft(h, n, b)
         /\ Span(h, h[n].left, Lesser(h, S, n), Under(h, n, b))
         /\ Span(h, h[n].right, Greater(h, S, n), Under(h, n, b))
<1>1. PICK C : Certifies(h, C) /\ Claim(n, S, b) \in C
  BY DEF Span
<1>2. Rests(h, C, n, S, b)
  BY <1>1, ClaimFacts DEF Certifies
<1>3. Distinct(h, Lesser(h, S, n)) /\ Distinct(h, Greater(h, S, n))
  BY DEF Span, Distinct, Lesser, Greater
<1>4. QED
  BY <1>1, <1>2, <1>3 DEF Rests, Span

LEMMA HalvesOf ==
  ASSUME NEW h, IsHeap(h), NEW n, NEW S, NEW b \in Int, Span(h, n, S, b), n # Null
  PROVE  \E A, B : /\ Halves(h, n, A, B, Under(h, n, b))
                   /\ S = A \cup {n} \cup B /\ LeansLeft(h, n, b)
<1>1. /\ Splits(h, n, S) /\ LeansLeft(h, n, b)
      /\ Span(h, h[n].left, Lesser(h, S, n), Under(h, n, b))
      /\ Span(h, h[n].right, Greater(h, S, n), Under(h, n, b))
  BY SpanOfNode
<1>2. Joined(h, n, Lesser(h, S, n), Greater(h, S, n))
  BY <1>1 DEF Joined, Splits, Lesser, Greater
<1>3. QED
  BY <1>1, <1>2 DEF Splits, Halves

(* Two trees joined by a node between them.                                *)
LEMMA JoinSpans ==
  ASSUME NEW h, IsHeap(h), NEW n, NEW A, NEW B, NEW b \in Int,
         Halves(h, n, A, B, Under(h, n, b)), LeansLeft(h, n, b)
  PROVE  Span(h, n, A \cup {n} \cup B, b)
<1> DEFINE S == A \cup {n} \cup B
           u == Under(h, n, b)
<1>1. Joined(h, n, A, B) /\ Span(h, h[n].left, A, u) /\ Span(h, h[n].right, B, u)
  BY DEF Halves
<1>2. PICK C : Certifies(h, C) /\ Claim(h[n].left, A, u) \in C
  BY <1>1 DEF Span
<1>3. PICK D : Certifies(h, D) /\ Claim(h[n].right, B, u) \in D
  BY <1>1 DEF Span
<1>4. S \subseteq DOMAIN h /\ \A m \in S : h[m].key \in Int
  BY <1>1, HeapFacts DEF Joined
<1>5. Lesser(h, S, n) = A /\ Greater(h, S, n) = B
  BY <1>1, <1>4 DEF Joined, Lesser, Greater
<1>6. Splits(h, n, S)
  BY <1>4, <1>5 DEF Splits
<1>7. Distinct(h, S)
  <2>1. Distinct(h, A) /\ Distinct(h, B)
    BY <1>1 DEF Span
  <2>2. QED
    BY <1>1, <1>4, <2>1 DEF Joined, Distinct
<1> DEFINE E == C \cup D \cup {Claim(n, S, b)}
<1>8. Certifies(h, E)
  <2>1. ASSUME NEW t \in E
        PROVE  Rests(h, E, t.n, t.s, t.b)
    <3>1. CASE t \in C
      BY <1>2, <3>1 DEF Certifies, Rests
    <3>2. CASE t \in D
      BY <1>3, <3>2 DEF Certifies, Rests
    <3>3. CASE t = Claim(n, S, b)
      <4>1. t.n = n /\ t.s = S /\ t.b = b
        BY <3>3, ClaimFacts
      <4>2. Rests(h, E, n, S, b)
        BY <1>2, <1>3, <1>5, <1>6 DEF Rests
      <4>3. QED
        BY <4>1, <4>2
    <3>4. QED
      BY <3>1, <3>2, <3>3
  <2>2. QED
    BY <2>1 DEF Certifies
<1>9. QED
  BY <1>7, <1>8 DEF Span

LEMMA UnderFacts ==
  ASSUME NEW h, IsHeap(h), NEW n \in DOMAIN h, NEW b \in Int
  PROVE  /\ Under(h, n, b) \in Int
         /\ b < 0 => Under(h, n, b) = b
         /\ h[n].red => Under(h, n, b) = b
         /\ b >= 0 /\ ~h[n].red => Under(h, n, b) = b - 1
BY DEF Under

LEMMA SpanInHeap ==
  ASSUME NEW h, IsHeap(h), NEW n, NEW S, NEW b \in Int, Span(h, n, S, b)
  PROVE  /\ S \subseteq DOMAIN h /\ S \subseteq Nodes /\ n \in Links
         /\ n # Null => n \in S
         /\ n = Null <=> S = {}
         /\ n = Null => b <= 0
         /\ Distinct(h, S)
<1>1. CASE n = Null
  BY <1>1, SpanOfNull, LinkFacts DEF Span
<1>2. CASE n # Null
  <2>1. Splits(h, n, S)
    BY <1>2, SpanOfNode
  <2>2. n \in S /\ S \subseteq DOMAIN h
    BY <2>1 DEF Splits
  <2>3. QED
    BY <1>2, <2>2, LinkFacts DEF IsHeap, Span
<1>3. QED
  BY <1>1, <1>2

(* In g the nodes of S are as they are in h; their colours count if b is a *)
(* depth.                                                                  *)
Alike(h, g, S, b) ==
  /\ S \subseteq DOMAIN g
  /\ \A m \in S : /\ g[m].left = h[m].left /\ g[m].right = h[m].right
                  /\ g[m].key = h[m].key
                  /\ b < 0 \/ g[m].red = h[m].red

LEMMA SpanKept ==
  ASSUME NEW h, IsHeap(h), NEW g, NEW n, NEW S, NEW b \in Int,
         Span(h, n, S, b), Alike(h, g, S, b)
  PROVE  Span(g, n, S, b)
<1>1. PICK C : Certifies(h, C) /\ Claim(n, S, b) \in C
  BY DEF Span
<1> DEFINE D == {t \in C : t.s \subseteq S /\ (b < 0 => t.b < 0)}
<1>2. Claim(n, S, b) \in D
  BY <1>1, ClaimFacts
<1>3. S \subseteq DOMAIN h
  BY SpanInHeap
<1>4. ASSUME NEW t \in D
      PROVE  Rests(g, D, t.n, t.s, t.b)
  <2>1. Rests(h, C, t.n, t.s, t.b) /\ t.s \subseteq S /\ (b < 0 => t.b < 0)
    BY <1>1, <1>4 DEF Certifies
  <2>2. CASE t.n = Null /\ t.s = {} /\ t.b <= 0
    BY <2>2 DEF Rests
  <2>3. CASE ~(t.n = Null /\ t.s = {} /\ t.b <= 0)
    <3> DEFINE m == t.n
               A == Lesser(h, t.s, t.n)
               B == Greater(h, t.s, t.n)
               u == Under(h, t.n, t.b)
    <3>1. /\ Splits(h, m, t.s) /\ LeansLeft(h, m, t.b)
          /\ Claim(h[m].left, A, u) \in C /\ Claim(h[m].right, B, u) \in C
      BY <2>1, <2>3 DEF Rests
    <3>2. m \in S /\ A \subseteq S /\ B \subseteq S
      BY <2>1, <3>1 DEF Splits, Lesser, Greater
    <3>3. Rests(h, C, h[m].left, A, u) /\ Rests(h, C, h[m].right, B, u)
      BY <1>1, <3>1, ClaimFacts DEF Certifies
    <3>4. /\ h[m].left = Null \/ h[m].left \in S
          /\ h[m].right = Null \/ h[m].right \in S
      BY <3>2, <3>3 DEF Rests, Splits
    <3>5. Lesser(g, t.s, m) = A /\ Greater(g, t.s, m) = B
      BY <2>1, <3>2 DEF Alike, Lesser, Greater
    <3>6. Splits(g, m, t.s)
      BY <2>1, <3>1, <3>5 DEF Alike, Splits
    <3>7. /\ g[m].left = h[m].left /\ g[m].right = h[m].right
          /\ Under(g, m, t.b) = u /\ LeansLeft(g, m, t.b)
          /\ b < 0 => u < 0
      <4>1. CASE b < 0
        <5>1. t.b < 0
          BY <2>1, <4>1
        <5>2. Under(g, m, t.b) = t.b /\ u = t.b
          BY <5>1 DEF Under
        <5>3. LeansLeft(g, m, t.b)
          BY <5>1 DEF LeansLeft
        <5>4. QED
          BY <3>2, <5>1, <5>2, <5>3 DEF Alike
      <4>2. CASE ~(b < 0)
        <5>2. \A x \in S : g[x].red = h[x].red
          BY <4>2 DEF Alike
        <5>3. Red(g, h[m].left) = Red(h, h[m].left) /\ Red(g, h[m].right) = Red(h, h[m].right)
          BY <3>4, <5>2 DEF Red
        <5>4. QED
          BY <3>1, <3>2, <4>2, <5>2, <5>3 DEF Alike, Under, LeansLeft
      <4>3. QED
        BY <4>1, <4>2
    <3>8. Claim(h[m].left, A, u) \in D /\ Claim(h[m].right, B, u) \in D
      BY <3>1, <3>2, <3>7, ClaimFacts
    <3>9. QED
      BY <3>5, <3>6, <3>7, <3>8 DEF Rests
  <2>4. QED
    BY <2>2, <2>3
<1>5. Distinct(g, S)
  BY DEF Alike, Distinct, Span
<1>6. QED
  BY <1>2, <1>4, <1>5 DEF Span, Certifies

(* A balanced tree is a tree.                                              *)
LEMMA SpanIsTree ==
  ASSUME NEW h, IsHeap(h), NEW n, NEW S, NEW b \in Int, Span(h, n, S, b)
  PROVE  Tree(h, n, S)
<1>1. PICK C : Certifies(h, C) /\ Claim(n, S, b) \in C
  BY DEF Span
<1> DEFINE D == {Claim(t.n, t.s, NoDepth) : t \in C}
<1>2. Claim(n, S, NoDepth) \in D
  BY <1>1, ClaimFacts
<1>3. ASSUME NEW t \in C
      PROVE  Rests(h, D, t.n, t.s, NoDepth)
  <2>1. Rests(h, C, t.n, t.s, t.b)
    BY <1>1 DEF Certifies
  <2>2. \A m, A, u : Claim(m, A, u) \in C => Claim(m, A, NoDepth) \in D
    BY ClaimFacts
  <2>3. LeansLeft(h, t.n, NoDepth) /\ Under(h, t.n, NoDepth) = NoDepth /\ NoDepth <= 0
    BY NoDepthFacts DEF LeansLeft, Under
  <2>4. QED
    BY <2>1, <2>2, <2>3 DEF Rests
<1>4. Certifies(h, D)
  <2>1. ASSUME NEW e \in D
        PROVE  Rests(h, D, e.n, e.s, e.b)
    <3>1. PICK t \in C : e = Claim(t.n, t.s, NoDepth)
      OBVIOUS
    <3>2. e.n = t.n /\ e.s = t.s /\ e.b = NoDepth
      BY <3>1, ClaimFacts
    <3>3. QED
      BY <1>3, <3>2
  <2>2. QED
    BY <2>1 DEF Certifies
<1>5. QED
  BY <1>2, <1>4 DEF Span, Tree

(* Each half of a tree is smaller than the tree.                           *)
LEMMA HalvesAreLess ==
  ASSUME NEW h, IsHeap(h), NEW n, NEW A, NEW B, Joined(h, n, A, B)
  PROVE  /\ IsFiniteSet(A \cup {n} \cup B)
         /\ Cardinality(A) < Cardinality(A \cup {n} \cup B)
         /\ Cardinality(B) < Cardinality(A \cup {n} \cup B)
         /\ n \notin A /\ n \notin B /\ A \cap B = {}
         /\ Cardinality(A) \in Nat /\ Cardinality(B) \in Nat
         /\ Cardinality(A \cup {n} \cup B) \in Nat
<1> DEFINE S == A \cup {n} \cup B
<1>1. \A m \in DOMAIN h : m \in 1..MaxKey /\ h[m].key \in Int
  BY HeapFacts DEF Nodes, Keys
<1>2. S \subseteq 1..MaxKey /\ n \in S
  BY <1>1 DEF Joined
<1>3. n \notin A /\ n \notin B /\ A \cap B = {}
  BY <1>1 DEF Joined
<1>4. IsFiniteSet(S)
  <2>1. IsFiniteSet(1..MaxKey)
    BY MapAssumption, FS_Interval
  <2>2. S \in SUBSET (1..MaxKey)
    BY <1>2
  <2> HIDE DEF S
  <2>3. QED
    BY <2>1, <2>2, FS_Subset
<1>5. /\ IsFiniteSet(A) /\ IsFiniteSet(B)
      /\ Cardinality(A) \in Nat /\ Cardinality(B) \in Nat /\ Cardinality(S) \in Nat
  BY <1>4, FS_Subset, FS_CardinalityType
<1>6. \A X \in SUBSET S : X # S => Cardinality(X) < Cardinality(S)
  <2> HIDE DEF S
  <2>1. ASSUME NEW X \in SUBSET S, X # S
        PROVE  Cardinality(X) < Cardinality(S)
    <3>1. IsFiniteSet(X) /\ Cardinality(X) <= Cardinality(S) /\ Cardinality(X) # Cardinality(S)
      BY <1>4, <2>1, FS_Subset
    <3>2. Cardinality(X) \in Nat /\ Cardinality(S) \in Nat
      BY <1>4, <3>1, FS_CardinalityType
    <3>3. QED
      BY <3>1, <3>2
  <2>2. QED
    BY <2>1
<1>7. A # S /\ B # S
  BY <1>2, <1>3
<1>8. Cardinality(A) < Cardinality(S) /\ Cardinality(B) < Cardinality(S)
  BY <1>6, <1>7
<1>9. QED
  BY <1>3, <1>4, <1>5, <1>8

LEMMA JoinedApart ==
  ASSUME NEW h, IsHeap(h), NEW n, NEW A, NEW B, Joined(h, n, A, B)
  PROVE  n \notin A /\ n \notin B /\ A \cap B = {}
BY HalvesAreLess

LEMMA SizeOfTree ==
  ASSUME NEW S \in SUBSET Nodes
  PROVE  IsFiniteSet(S) /\ Cardinality(S) \in Nat /\ Cardinality(S) <= MaxKey
<1>1. IsFiniteSet(1..MaxKey) /\ Cardinality(1..MaxKey) = MaxKey
  BY MapAssumption, FS_Interval
<1>2. S \in SUBSET (1..MaxKey) /\ MaxKey \in Nat
  BY MapAssumption DEF Nodes, Keys
<1>3. IsFiniteSet(S) /\ Cardinality(S) <= MaxKey
  BY <1>1, <1>2, FS_Subset
<1>4. QED
  BY <1>3, FS_CardinalityType

-----------------------------------------------------------------------------
(* Rotations and flips.                                                    *)

(* No node is taken away, and none changes its key or its value.           *)
SameData(h, g) ==
  /\ DOMAIN g = DOMAIN h
  /\ \A m \in DOMAIN h : g[m].key = h[m].key /\ g[m].value = h[m].value

(* Only nodes of S change.                                                 *)
Only(h, g, S) ==
  /\ DOMAIN g = DOMAIN h
  /\ \A m \in DOMAIN h : m \notin S => g[m] = h[m]

(* g is h with up, the right (left) child of n, turned up.                 *)
TurnedLeft(h, g, n, up) ==
  /\ IsHeap(g) /\ SameData(h, g) /\ Only(h, g, {n, up})
  /\ g[n].left = h[n].left /\ g[n].right = h[up].left /\ g[n].red
  /\ g[up].left = n /\ g[up].right = h[up].right /\ g[up].red = h[n].red
TurnedRight(h, g, n, up) ==
  /\ IsHeap(g) /\ SameData(h, g) /\ Only(h, g, {n, up})
  /\ g[n].right = h[n].right /\ g[n].left = h[up].right /\ g[n].red
  /\ g[up].right = n /\ g[up].left = h[up].left /\ g[up].red = h[n].red

(* g is h with the colours of n and its children l and r flipped.          *)
Flipped(h, g, n, l, r) ==
  /\ IsHeap(g) /\ SameData(h, g) /\ Only(h, g, {n, l, r})
  /\ \A m \in {n, l, r} : g[m].left = h[m].left /\ g[m].right = h[m].right
                          /\ g[m].red = ~h[m].red

LEMMA RFacts ==
  ASSUME NEW h, NEW n
  PROVE  R(h, n).h = h /\ R(h, n).n = n /\ R(h, n).hit = NoValue
BY DEF R

(* A heap with a node replaced by another.                                 *)
LEMMA HeapWith ==
  ASSUME NEW h, IsHeap(h), NEW n \in DOMAIN h, NEW r \in Mnodes
  PROVE  /\ IsHeap([h EXCEPT ![n] = r]) /\ DOMAIN [h EXCEPT ![n] = r] = DOMAIN h
         /\ [h EXCEPT ![n] = r][n] = r
         /\ \A m \in DOMAIN h : m # n => [h EXCEPT ![n] = r][m] = h[m]
BY DEF IsHeap

LEMMA RotateLeftTurns ==
  ASSUME NEW h, IsHeap(h), NEW n \in DOMAIN h, h[n].right \in DOMAIN h,
         h[n].right # n, h[h[n].right].red
  PROVE  \E g : RotateLeft(h, n) = R(g, h[n].right) /\ TurnedLeft(h, g, n, h[n].right)
<1> DEFINE up == h[n].right
           a == [h[n] EXCEPT !.right = h[up].left, !.red = TRUE]
           b == [h[up] EXCEPT !.left = n, !.red = h[n].red]
           g == [h EXCEPT ![n].right = h[up].left, ![n].red = TRUE,
                          ![up].left = n, ![up].red = h[n].red]
<1>1. up \in DOMAIN h /\ up # n /\ up # Null
  BY LinkFacts, HeapFacts
<1>2. RotateLeft(h, n) = R(g, up)
  BY <1>1 DEF RotateLeft
<1>3. /\ h[n] \in Mnodes /\ h[up] \in Mnodes /\ n \in Links
      /\ h[up].left \in Links /\ h[n].red \in BOOLEAN
  BY <1>1, HeapFacts, LinkFacts
<1>4. a \in Mnodes /\ b \in Mnodes
  BY <1>3 DEF Mnodes
<1>5. /\ a.left = h[n].left /\ a.right = h[up].left /\ a.red
      /\ a.key = h[n].key /\ a.value = h[n].value
      /\ b.left = n /\ b.right = h[up].right /\ b.red = h[n].red
      /\ b.key = h[up].key /\ b.value = h[up].value
  BY <1>3 DEF Mnodes
<1>6. g = [[h EXCEPT ![n] = a] EXCEPT ![up] = b]
  BY <1>1, <1>3 DEF IsHeap, Mnodes
<1> HIDE DEF a, b, g
<1>7. /\ IsHeap(g) /\ DOMAIN g = DOMAIN h /\ g[n] = a /\ g[up] = b
      /\ \A m \in DOMAIN h : m # n /\ m # up => g[m] = h[m]
  BY <1>1, <1>4, <1>6, HeapWith
<1> HIDE DEF up
<1>8. TurnedLeft(h, g, n, up)
  BY <1>5, <1>7 DEF TurnedLeft, SameData, Only
<1>9. QED
  BY <1>2, <1>8 DEF up

LEMMA RotateRightTurns ==
  ASSUME NEW h, IsHeap(h), NEW n \in DOMAIN h, h[n].left \in DOMAIN h,
         h[n].left # n, h[h[n].left].red
  PROVE  \E g : RotateRight(h, n) = R(g, h[n].left) /\ TurnedRight(h, g, n, h[n].left)
<1> DEFINE up == h[n].left
           a == [h[n] EXCEPT !.left = h[up].right, !.red = TRUE]
           b == [h[up] EXCEPT !.right = n, !.red = h[n].red]
           g == [h EXCEPT ![n].left = h[up].right, ![n].red = TRUE,
                          ![up].right = n, ![up].red = h[n].red]
<1>1. up \in DOMAIN h /\ up # n /\ up # Null
  BY LinkFacts, HeapFacts
<1>2. RotateRight(h, n) = R(g, up)
  BY <1>1 DEF RotateRight
<1>3. /\ h[n] \in Mnodes /\ h[up] \in Mnodes /\ n \in Links
      /\ h[up].right \in Links /\ h[n].red \in BOOLEAN
  BY <1>1, HeapFacts, LinkFacts
<1>4. a \in Mnodes /\ b \in Mnodes
  BY <1>3 DEF Mnodes
<1>5. /\ a.right = h[n].right /\ a.left = h[up].right /\ a.red
      /\ a.key = h[n].key /\ a.value = h[n].value
      /\ b.right = n /\ b.left = h[up].left /\ b.red = h[n].red
      /\ b.key = h[up].key /\ b.value = h[up].value
  BY <1>3 DEF Mnodes
<1>6. g = [[h EXCEPT ![n] = a] EXCEPT ![up] = b]
  BY <1>1, <1>3 DEF IsHeap, Mnodes
<1> HIDE DEF a, b, g
<1>7. /\ IsHeap(g) /\ DOMAIN g = DOMAIN h /\ g[n] = a /\ g[up] = b
      /\ \A m \in DOMAIN h : m # n /\ m # up => g[m] = h[m]
  BY <1>1, <1>4, <1>6, HeapWith
<1> HIDE DEF up
<1>8. TurnedRight(h, g, n, up)
  BY <1>5, <1>7 DEF TurnedRight, SameData, Only
<1>9. QED
  BY <1>2, <1>8 DEF up

LEMMA ColorFlipFlips ==
  ASSUME NEW h, IsHeap(h), NEW n \in DOMAIN h, h[n].left \in DOMAIN h, h[n].right \in DOMAIN h,
         h[n].left # n, h[n].right # n, h[n].left # h[n].right
  PROVE  \E g : ColorFlip(h, n) = R(g, n) /\ Flipped(h, g, n, h[n].left, h[n].right)
<1> DEFINE l == h[n].left
           r == h[n].right
           a == [h[n] EXCEPT !.red = ~@]
           b == [h[l] EXCEPT !.red = ~@]
           c == [h[r] EXCEPT !.red = ~@]
           g == [h EXCEPT ![n].red = ~@, ![h[n].left].red = ~@, ![h[n].right].red = ~@]
<1>1. /\ l \in DOMAIN h /\ r \in DOMAIN h /\ l # Null /\ r # Null
      /\ l # n /\ r # n /\ l # r
  BY LinkFacts, HeapFacts
<1>2. ColorFlip(h, n) = R(g, n)
  BY <1>1 DEF ColorFlip
<1>3. h[n] \in Mnodes /\ h[l] \in Mnodes /\ h[r] \in Mnodes
  BY <1>1, HeapFacts
<1>4. a \in Mnodes /\ b \in Mnodes /\ c \in Mnodes
  BY <1>3 DEF Mnodes
<1>5. /\ a.left = h[n].left /\ a.right = h[n].right /\ a.red = ~h[n].red
      /\ a.key = h[n].key /\ a.value = h[n].value
      /\ b.left = h[l].left /\ b.right = h[l].right /\ b.red = ~h[l].red
      /\ b.key = h[l].key /\ b.value = h[l].value
      /\ c.left = h[r].left /\ c.right = h[r].right /\ c.red = ~h[r].red
      /\ c.key = h[r].key /\ c.value = h[r].value
  BY <1>3 DEF Mnodes
<1>6. g = [[[h EXCEPT ![n] = a] EXCEPT ![l] = b] EXCEPT ![r] = c]
  BY <1>1, <1>3 DEF IsHeap, Mnodes
<1> HIDE DEF a, b, c, g
<1>7. /\ IsHeap(g) /\ DOMAIN g = DOMAIN h /\ g[n] = a /\ g[l] = b /\ g[r] = c
      /\ \A m \in DOMAIN h : m # n /\ m # l /\ m # r => g[m] = h[m]
  <2> DEFINE x == [h EXCEPT ![n] = a]
             y == [x EXCEPT ![l] = b]
  <2>1. /\ IsHeap(x) /\ DOMAIN x = DOMAIN h /\ x[n] = a
        /\ \A m \in DOMAIN h : m # n => x[m] = h[m]
    BY <1>4, HeapWith
  <2>2. g = [y EXCEPT ![r] = c]
    BY <1>6
  <2> HIDE DEF x
  <2>3. /\ IsHeap(y) /\ DOMAIN y = DOMAIN h /\ y[l] = b
        /\ \A m \in DOMAIN h : m # l => y[m] = x[m]
    BY <1>1, <1>4, <2>1, HeapWith
  <2> HIDE DEF y
  <2>4. /\ IsHeap(g) /\ DOMAIN g = DOMAIN h /\ g[r] = c
        /\ \A m \in DOMAIN h : m # r => g[m] = y[m]
    BY <1>1, <1>4, <2>2, <2>3, HeapWith
  <2>5. QED
    BY <1>1, <2>1, <2>3, <2>4
<1> HIDE DEF l, r
<1>8. Flipped(h, g, n, l, r)
  BY <1>1, <1>5, <1>7 DEF Flipped, SameData, Only
<1>9. QED
  BY <1>2, <1>8 DEF l, r

(* Subtrees that an operation leaves alone.                                *)

LEMMA OnlyIsAlike ==
  ASSUME NEW h, NEW g, NEW X, NEW S, NEW b, Only(h, g, X), S \subseteq DOMAIN h, S \cap X = {}
  PROVE  Alike(h, g, S, b)
BY DEF Only, Alike

LEMMA SpanUntouched ==
  ASSUME NEW h, IsHeap(h), NEW g, NEW X, Only(h, g, X), NEW n, NEW S, NEW b \in Int,
         Span(h, n, S, b), S \cap X = {}
  PROVE  Span(g, n, S, b)
<1>1. S \subseteq DOMAIN h
  BY SpanInHeap
<1>2. Alike(h, g, S, b)
  BY <1>1, OnlyIsAlike
<1>3. QED
  BY <1>2, SpanKept

LEMMA JoinedKept ==
  ASSUME NEW h, NEW g, NEW n, NEW A, NEW B, Joined(h, n, A, B), SameData(h, g)
  PROVE  Joined(g, n, A, B)
BY DEF Joined, SameData

LEMMA TurnLeftHalves ==
  ASSUME NEW h, IsHeap(h), NEW n, NEW up, up = h[n].right, up # Null, NEW g,
         TurnedLeft(h, g, n, up), NEW c \in Int, NEW A, NEW B, NEW C,
         Joined(h, n, A, B \cup {up} \cup C),
         Span(h, h[n].left, A, c), Halves(h, up, B, C, c)
  PROVE  /\ Halves(g, n, A, B, c)
         /\ Joined(g, up, A \cup {n} \cup B, C)
         /\ Span(g, g[up].right, C, c)
<1>1. /\ n \in DOMAIN h /\ up \in DOMAIN h /\ A \subseteq DOMAIN h
      /\ B \subseteq DOMAIN h /\ C \subseteq DOMAIN h
  BY DEF Joined
<1>2. \A m \in DOMAIN h : h[m].key \in Int
  BY HeapFacts
<1>3. /\ \A a \in A : h[a].key < h[n].key
      /\ \A a \in B : h[a].key > h[n].key /\ h[a].key < h[up].key
      /\ \A a \in C : h[a].key > h[up].key
      /\ h[up].key > h[n].key
  BY DEF Joined, Halves
<1>4. Joined(h, n, A, B) /\ Joined(h, up, A \cup {n} \cup B, C)
  BY <1>1, <1>2, <1>3 DEF Joined
<1>5. /\ Joined(g, n, A, B) /\ Joined(g, up, A \cup {n} \cup B, C)
      /\ Only(h, g, {n, up})
  BY <1>4, JoinedKept DEF TurnedLeft
<1>6. A \cap {n, up} = {} /\ B \cap {n, up} = {} /\ C \cap {n, up} = {}
  BY <1>1, <1>2, <1>3
<1>7. Span(h, h[up].left, B, c) /\ Span(h, h[up].right, C, c)
  BY DEF Halves
<1>8. Span(g, h[n].left, A, c) /\ Span(g, h[up].left, B, c) /\ Span(g, h[up].right, C, c)
  BY <1>5, <1>6, <1>7, SpanUntouched
<1>9. QED
  BY <1>5, <1>8 DEF Halves, TurnedLeft

LEMMA TurnRightHalves ==
  ASSUME NEW h, IsHeap(h), NEW n, NEW up, up = h[n].left, up # Null, NEW g,
         TurnedRight(h, g, n, up), NEW c \in Int, NEW A, NEW B, NEW C,
         Joined(h, n, A \cup {up} \cup B, C),
         Span(h, h[n].right, C, c), Halves(h, up, A, B, c)
  PROVE  /\ Halves(g, n, B, C, c)
         /\ Joined(g, up, A, B \cup {n} \cup C)
         /\ Span(g, g[up].left, A, c)
<1>1. /\ n \in DOMAIN h /\ up \in DOMAIN h /\ A \subseteq DOMAIN h
      /\ B \subseteq DOMAIN h /\ C \subseteq DOMAIN h
  BY DEF Joined
<1>2. \A m \in DOMAIN h : h[m].key \in Int
  BY HeapFacts
<1>3. /\ \A a \in A : h[a].key < h[up].key
      /\ \A a \in B : h[a].key > h[up].key /\ h[a].key < h[n].key
      /\ \A a \in C : h[a].key > h[n].key
      /\ h[up].key < h[n].key
  BY DEF Joined, Halves
<1>4. Joined(h, n, B, C) /\ Joined(h, up, A, B \cup {n} \cup C)
  BY <1>1, <1>2, <1>3 DEF Joined
<1>5. /\ Joined(g, n, B, C) /\ Joined(g, up, A, B \cup {n} \cup C)
      /\ Only(h, g, {n, up})
  BY <1>4, JoinedKept DEF TurnedRight
<1>6. A \cap {n, up} = {} /\ B \cap {n, up} = {} /\ C \cap {n, up} = {}
  BY <1>1, <1>2, <1>3
<1>7. Span(h, h[up].left, A, c) /\ Span(h, h[up].right, B, c)
  BY DEF Halves
<1>8. Span(g, h[up].left, A, c) /\ Span(g, h[up].right, B, c) /\ Span(g, h[n].right, C, c)
  BY <1>5, <1>6, <1>7, SpanUntouched
<1>9. QED
  BY <1>5, <1>8 DEF Halves, TurnedRight

(* Below n are l and r, below l are A and B, and below r are C and D.       *)
Quarters(h, n, l, r, A, B, C, D, c) ==
  /\ h[n].left = l /\ h[n].right = r
  /\ Joined(h, n, A \cup {l} \cup B, C \cup {r} \cup D)
  /\ Halves(h, l, A, B, c) /\ Halves(h, r, C, D, c)

LEMMA FlipHalves ==
  ASSUME NEW h, IsHeap(h), NEW n, NEW l, NEW r, NEW g, Flipped(h, g, n, l, r),
         NEW A, NEW B, NEW C, NEW D, NEW c \in Int, Quarters(h, n, l, r, A, B, C, D, c)
  PROVE  Quarters(g, n, l, r, A, B, C, D, c)
<1>1. /\ n \in DOMAIN h /\ l \in DOMAIN h /\ r \in DOMAIN h /\ A \subseteq DOMAIN h
      /\ B \subseteq DOMAIN h /\ C \subseteq DOMAIN h /\ D \subseteq DOMAIN h
  BY DEF Quarters, Joined
<1>2. \A m \in DOMAIN h : h[m].key \in Int
  BY HeapFacts
<1>3. /\ \A a \in A : h[a].key < h[l].key
      /\ \A a \in B : h[a].key > h[l].key /\ h[a].key < h[n].key
      /\ \A a \in C : h[a].key > h[n].key /\ h[a].key < h[r].key
      /\ \A a \in D : h[a].key > h[r].key
      /\ h[l].key < h[n].key /\ h[n].key < h[r].key
  BY DEF Quarters, Joined, Halves
<1>4. /\ A \cap {n, l, r} = {} /\ B \cap {n, l, r} = {}
      /\ C \cap {n, l, r} = {} /\ D \cap {n, l, r} = {}
  BY <1>1, <1>2, <1>3
<1>5. /\ Joined(g, n, A \cup {l} \cup B, C \cup {r} \cup D)
      /\ Joined(g, l, A, B) /\ Joined(g, r, C, D) /\ Only(h, g, {n, l, r})
  BY JoinedKept DEF Flipped, Quarters, Halves
<1>6. /\ Span(h, h[l].left, A, c) /\ Span(h, h[l].right, B, c)
      /\ Span(h, h[r].left, C, c) /\ Span(h, h[r].right, D, c)
  BY DEF Quarters, Halves
<1>7. /\ Span(g, h[l].left, A, c) /\ Span(g, h[l].right, B, c)
      /\ Span(g, h[r].left, C, c) /\ Span(g, h[r].right, D, c)
  BY <1>4, <1>5, <1>6, SpanUntouched
<1>8. QED
  BY <1>5, <1>7 DEF Quarters, Halves, Flipped

-----------------------------------------------------------------------------
(* What a function that only reshapes the tree returns.                    *)
Reshaped(h, r, S) ==
  /\ r = R(r.h, r.n) /\ IsHeap(r.h) /\ r.n \in S
  /\ SameData(h, r.h) /\ Only(h, r.h, S) /\ Tree(r.h, r.n, S)

LEMMA Reshapes ==
  ASSUME NEW h, NEW S, NEW r, NEW q, Reshaped(h, r, S), Reshaped(r.h, q, S)
  PROVE  Reshaped(h, q, S)
BY DEF Reshaped, SameData, Only

(* The parts of a tree.                                                    *)
LEMMA TreeHalves ==
  ASSUME NEW h, IsHeap(h), NEW n, NEW S, Tree(h, n, S), n # Null
  PROVE  \E A, B : Halves(h, n, A, B, NoDepth) /\ S = A \cup {n} \cup B
<1>1. n \in DOMAIN h
  BY SpanInHeap, NoDepthFacts DEF Tree
<1>2. Under(h, n, NoDepth) = NoDepth
  BY <1>1, UnderFacts, NoDepthFacts
<1>3. QED
  BY <1>2, HalvesOf, NoDepthFacts DEF Tree

LEMMA JoinTrees ==
  ASSUME NEW h, IsHeap(h), NEW n, NEW A, NEW B, Halves(h, n, A, B, NoDepth)
  PROVE  Tree(h, n, A \cup {n} \cup B)
<1>1. Under(h, n, NoDepth) = NoDepth /\ LeansLeft(h, n, NoDepth)
  BY NoDepthFacts DEF Under, LeansLeft
<1>2. QED
  BY <1>1, JoinSpans, NoDepthFacts DEF Tree

LEMMA RotateLeftReshapes ==
  ASSUME NEW h, IsHeap(h), NEW n, NEW S, Tree(h, n, S), n # Null, Red(h, h[n].right)
  PROVE  Reshaped(h, RotateLeft(h, n), S)
<1> DEFINE up == h[n].right
<1>1. PICK A, U : Halves(h, n, A, U, NoDepth) /\ S = A \cup {n} \cup U
  BY TreeHalves
<1>2. up # Null /\ h[up].red /\ Tree(h, up, U)
  BY <1>1 DEF Red, Halves, Tree
<1>3. PICK B, C : Halves(h, up, B, C, NoDepth) /\ U = B \cup {up} \cup C
  BY <1>2, TreeHalves
<1>4. /\ n \in DOMAIN h /\ up \in DOMAIN h /\ up # n
      /\ Joined(h, n, A, B \cup {up} \cup C) /\ up = h[n].right
  <2>1. Joined(h, n, A, U) /\ n \in DOMAIN h
    BY <1>1 DEF Halves, Joined
  <2>2. n \notin U
    BY <2>1, HalvesAreLess
  <2>3. up \in U /\ up \in DOMAIN h
    BY <1>3 DEF Halves, Joined
  <2>4. QED
    BY <1>3, <2>1, <2>2, <2>3
<1>5. PICK g : RotateLeft(h, n) = R(g, up) /\ TurnedLeft(h, g, n, up)
  BY <1>2, <1>4, RotateLeftTurns
<1>6. Span(h, h[n].left, A, NoDepth)
  BY <1>1 DEF Halves
<1>7. /\ Halves(g, n, A, B, NoDepth) /\ Joined(g, up, A \cup {n} \cup B, C)
      /\ Span(g, g[up].right, C, NoDepth)
  <2> HIDE DEF up
  <2>1. QED
    BY <1>2, <1>3, <1>4, <1>5, <1>6, NoDepthFacts, TurnLeftHalves
<1>8. IsHeap(g) /\ g[up].left = n /\ SameData(h, g) /\ Only(h, g, {n, up})
  BY <1>5 DEF TurnedLeft
<1>9. Span(g, n, A \cup {n} \cup B, NoDepth)
  BY <1>7, <1>8, JoinTrees DEF Tree
<1>10. Halves(g, up, A \cup {n} \cup B, C, NoDepth)
  BY <1>7, <1>8, <1>9 DEF Halves
<1>11. Tree(g, up, S)
  <2>1. S = (A \cup {n} \cup B) \cup {up} \cup C
    BY <1>1, <1>3
  <2>2. QED
    BY <1>8, <1>10, <2>1, JoinTrees
<1>12. up \in S /\ Only(h, g, S)
  BY <1>1, <1>3, <1>8 DEF Only
<1>13. QED
  BY <1>5, <1>8, <1>11, <1>12, RFacts DEF Reshaped

LEMMA RotateRightReshapes ==
  ASSUME NEW h, IsHeap(h), NEW n, NEW S, Tree(h, n, S), n # Null, Red(h, h[n].left)
  PROVE  Reshaped(h, RotateRight(h, n), S)
<1> DEFINE up == h[n].left
<1>1. PICK U, C : Halves(h, n, U, C, NoDepth) /\ S = U \cup {n} \cup C
  BY TreeHalves
<1>2. up # Null /\ h[up].red /\ Tree(h, up, U)
  BY <1>1 DEF Red, Halves, Tree
<1>3. PICK A, B : Halves(h, up, A, B, NoDepth) /\ U = A \cup {up} \cup B
  BY <1>2, TreeHalves
<1>4. /\ n \in DOMAIN h /\ up \in DOMAIN h /\ up # n
      /\ Joined(h, n, A \cup {up} \cup B, C) /\ up = h[n].left
  <2>1. Joined(h, n, U, C) /\ n \in DOMAIN h
    BY <1>1 DEF Halves, Joined
  <2>2. n \notin U
    BY <2>1, HalvesAreLess
  <2>3. up \in U /\ up \in DOMAIN h
    BY <1>3 DEF Halves, Joined
  <2>4. QED
    BY <1>3, <2>1, <2>2, <2>3
<1>5. PICK g : RotateRight(h, n) = R(g, up) /\ TurnedRight(h, g, n, up)
  BY <1>2, <1>4, RotateRightTurns
<1>6. Span(h, h[n].right, C, NoDepth)
  BY <1>1 DEF Halves
<1>7. /\ Halves(g, n, B, C, NoDepth) /\ Joined(g, up, A, B \cup {n} \cup C)
      /\ Span(g, g[up].left, A, NoDepth)
  <2> HIDE DEF up
  <2>1. QED
    BY <1>2, <1>3, <1>4, <1>5, <1>6, NoDepthFacts, TurnRightHalves
<1>8. IsHeap(g) /\ g[up].right = n /\ SameData(h, g) /\ Only(h, g, {n, up})
  BY <1>5 DEF TurnedRight
<1>9. Span(g, n, B \cup {n} \cup C, NoDepth)
  BY <1>7, <1>8, JoinTrees DEF Tree
<1>10. Halves(g, up, A, B \cup {n} \cup C, NoDepth)
  BY <1>7, <1>8, <1>9 DEF Halves
<1>11. Tree(g, up, S)
  <2>1. S = A \cup {up} \cup (B \cup {n} \cup C)
    BY <1>1, <1>3
  <2>2. QED
    BY <1>8, <1>10, <2>1, JoinTrees
<1>12. up \in S /\ Only(h, g, S)
  BY <1>1, <1>3, <1>8 DEF Only
<1>13. QED
  BY <1>5, <1>8, <1>11, <1>12, RFacts DEF Reshaped

LEMMA ColorFlipReshapes ==
  ASSUME NEW h, IsHeap(h), NEW n, NEW S, Tree(h, n, S), n # Null,
         h[n].left # Null, h[n].right # Null
  PROVE  Reshaped(h, ColorFlip(h, n), S)
<1> DEFINE l == h[n].left
           r == h[n].right
<1>1. PICK A, B : Halves(h, n, A, B, NoDepth) /\ S = A \cup {n} \cup B
  BY TreeHalves
<1>2. Joined(h, n, A, B) /\ Span(h, l, A, NoDepth) /\ Span(h, r, B, NoDepth)
  BY <1>1 DEF Halves
<1>3. l \in A /\ r \in B /\ n \in DOMAIN h /\ A \subseteq DOMAIN h /\ B \subseteq DOMAIN h
  BY <1>2, SpanInHeap, NoDepthFacts DEF Joined
<1>4. l # n /\ r # n /\ l # r
  <2>1. n \notin A /\ n \notin B /\ A \cap B = {}
    BY <1>2, HalvesAreLess
  <2>2. QED
    BY <1>3, <2>1
<1>5. PICK g : ColorFlip(h, n) = R(g, n) /\ Flipped(h, g, n, l, r)
  BY <1>3, <1>4, ColorFlipFlips
<1>6. IsHeap(g) /\ SameData(h, g) /\ Only(h, g, S)
  BY <1>1, <1>3, <1>5 DEF Flipped, Only
<1>7. Alike(h, g, S, NoDepth)
  <2>1. S \subseteq DOMAIN h /\ DOMAIN g = DOMAIN h
    BY <1>1, <1>3, <1>6 DEF SameData
  <2>2. \A m \in DOMAIN h : /\ g[m].left = h[m].left /\ g[m].right = h[m].right
                            /\ g[m].key = h[m].key
    BY <1>5 DEF Flipped, SameData, Only
  <2>3. QED
    BY <2>1, <2>2, NoDepthFacts DEF Alike
<1>8. Tree(g, n, S)
  BY <1>7, SpanKept, NoDepthFacts DEF Tree
<1>9. n \in S
  BY <1>1
<1>10. QED
  BY <1>5, <1>6, <1>8, <1>9, RFacts DEF Reshaped

LEMMA NothingReshapes ==
  ASSUME NEW h, IsHeap(h), NEW n, NEW S, Tree(h, n, S), n # Null
  PROVE  Reshaped(h, R(h, n), S)
BY SpanInHeap, RFacts, NoDepthFacts DEF Tree, Reshaped, SameData, Only

(* What goes on with a node it was given.                                  *)
LEMMA ReshapedFacts ==
  ASSUME NEW h, NEW r, NEW S, IsHeap(h), S \subseteq DOMAIN h, Reshaped(h, r, S)
  PROVE  IsHeap(r.h) /\ Tree(r.h, r.n, S) /\ r.n # Null /\ r.n \in S /\ ~(r.n < 0)
         /\ S \subseteq DOMAIN r.h
BY LinkFacts DEF Reshaped, IsHeap, SameData

(* nodeFixUp never aborts.                                                 *)
LEMMA FixUpReshapes ==
  ASSUME NEW h, IsHeap(h), NEW n, NEW S, Tree(h, n, S), n # Null
  PROVE  Reshaped(h, FixUp(h, n), S)
<1> DEFINE r == LeanLeft(h, n)
           s == SplitFour(r.h, r.n)
           t == PassRedUp(s.h, s.n)
<1>1. Reshaped(h, r, S)
  BY RotateLeftReshapes, NothingReshapes DEF LeanLeft
<1>2. S \subseteq DOMAIN h
  BY SpanInHeap, NoDepthFacts DEF Tree
<1>3. IsHeap(r.h) /\ Tree(r.h, r.n, S) /\ r.n # Null /\ ~(r.n < 0) /\ S \subseteq DOMAIN r.h
  BY <1>1, <1>2, ReshapedFacts
<1> HIDE DEF r
<1>4. Reshaped(r.h, s, S)
  BY <1>3, RotateRightReshapes, NothingReshapes DEF SplitFour
<1>5. IsHeap(s.h) /\ Tree(s.h, s.n, S) /\ s.n # Null /\ ~(s.n < 0)
  BY <1>3, <1>4, ReshapedFacts
<1>6. Then(r, SplitFour) = s
  BY <1>3 DEF Then
<1> HIDE DEF s
<1>7. Reshaped(s.h, t, S)
  BY <1>5, ColorFlipReshapes, NothingReshapes DEF PassRedUp, Red
<1>8. Then(s, PassRedUp) = t
  BY <1>5 DEF Then
<1>9. FixUp(h, n) = t
  BY <1>6, <1>8 DEF FixUp, r
<1>10. Reshaped(h, s, S)
  BY <1>1, <1>4, Reshapes
<1>11. Reshaped(h, t, S)
  BY <1>7, <1>10, Reshapes
<1>12. QED
  BY <1>9, <1>11

-----------------------------------------------------------------------------
(* A child that is replaced.                                               *)

HungLeft(h, g, n, l) ==
  /\ IsHeap(g) /\ SameData(h, g) /\ Only(h, g, {n})
  /\ g[n].left = l /\ g[n].right = h[n].right /\ g[n].red = h[n].red
HungRight(h, g, n, r) ==
  /\ IsHeap(g) /\ SameData(h, g) /\ Only(h, g, {n})
  /\ g[n].left = h[n].left /\ g[n].right = r /\ g[n].red = h[n].red

LEMMA HangLeft ==
  ASSUME NEW h, IsHeap(h), NEW n \in DOMAIN h, NEW l \in Links
  PROVE  HungLeft(h, [h EXCEPT ![n].left = l], n, l)
<1> DEFINE a == [h[n] EXCEPT !.left = l]
           g == [h EXCEPT ![n].left = l]
<1>1. h[n] \in Mnodes
  BY HeapFacts
<1>2. /\ a \in Mnodes /\ a.left = l /\ a.right = h[n].right /\ a.red = h[n].red
      /\ a.key = h[n].key /\ a.value = h[n].value
  BY <1>1 DEF Mnodes
<1>3. g = [h EXCEPT ![n] = a]
  OBVIOUS
<1> HIDE DEF a, g
<1>4. /\ IsHeap(g) /\ DOMAIN g = DOMAIN h /\ g[n] = a
      /\ \A m \in DOMAIN h : m # n => g[m] = h[m]
  BY <1>2, <1>3, HeapWith
<1>5. HungLeft(h, g, n, l)
  BY <1>2, <1>4 DEF HungLeft, SameData, Only
<1>6. QED
  BY <1>5 DEF g

LEMMA HangRight ==
  ASSUME NEW h, IsHeap(h), NEW n \in DOMAIN h, NEW r \in Links
  PROVE  HungRight(h, [h EXCEPT ![n].right = r], n, r)
<1> DEFINE a == [h[n] EXCEPT !.right = r]
           g == [h EXCEPT ![n].right = r]
<1>1. h[n] \in Mnodes
  BY HeapFacts
<1>2. /\ a \in Mnodes /\ a.left = h[n].left /\ a.right = r /\ a.red = h[n].red
      /\ a.key = h[n].key /\ a.value = h[n].value
  BY <1>1 DEF Mnodes
<1>3. g = [h EXCEPT ![n] = a]
  OBVIOUS
<1> HIDE DEF a, g
<1>4. /\ IsHeap(g) /\ DOMAIN g = DOMAIN h /\ g[n] = a
      /\ \A m \in DOMAIN h : m # n => g[m] = h[m]
  BY <1>2, <1>3, HeapWith
<1>5. HungRight(h, g, n, r)
  BY <1>2, <1>4 DEF HungRight, SameData, Only
<1>6. QED
  BY <1>5 DEF g

(* The tree with the new child, and what nodeFixUp makes of it.            *)
Fixed(h, g, n, S, q, hit) ==
  /\ q = [h |-> FixUp(g, n).h, n |-> FixUp(g, n).n, hit |-> hit]
  /\ IsHeap(q.h) /\ q.n \in S /\ SameData(h, q.h) /\ Only(h, q.h, S)
  /\ Tree(q.h, q.n, S)

LEMMA FixUpOf ==
  ASSUME NEW h, IsHeap(h), NEW g, IsHeap(g), NEW n, NEW A, NEW B,
         SameData(h, g), Only(h, g, {n}), Halves(g, n, A, B, NoDepth), NEW hit
  PROVE  Fixed(h, g, n, A \cup {n} \cup B, [FixUp(g, n) EXCEPT !.hit = hit], hit)
<1> DEFINE S == A \cup {n} \cup B
           f == FixUp(g, n)
           q == [f EXCEPT !.hit = hit]
<1>1. Tree(g, n, S)
  BY JoinTrees
<1>2. n # Null
  BY LinkFacts DEF Halves, Joined, IsHeap
<1>3. Reshaped(g, f, S)
  BY <1>1, <1>2, FixUpReshapes
<1> HIDE DEF f
<1>4. q = [h |-> f.h, n |-> f.n, hit |-> hit]
  BY <1>3 DEF Reshaped, R
<1>5. SameData(h, f.h) /\ Only(h, f.h, S)
  BY <1>3 DEF Reshaped, SameData, Only
<1>6. q.h = f.h /\ q.n = f.n
  BY <1>4
<1>7. QED
  BY <1>3, <1>4, <1>5, <1>6 DEF Fixed, Reshaped, f

LEMMA FixLeftIs ==
  ASSUME NEW n, NEW l, NEW A, NEW B, NEW c \in Int, NEW d \in Int,
         IsHeap(l.h), Joined(l.h, n, A, B),
         Span(l.h, l.n, A, c), Span(l.h, l.h[n].right, B, d)
  PROVE  \E g : /\ HungLeft(l.h, g, n, l.n)
                /\ Joined(g, n, A, B) /\ Span(g, l.n, A, c) /\ Span(g, g[n].right, B, d)
                /\ Fixed(l.h, g, n, A \cup {n} \cup B, FixLeft(n, l), l.hit)
<1> DEFINE h == l.h
           g == [h EXCEPT ![n].left = l.n]
<1>1. n \in DOMAIN h
  BY DEF Joined
<1>2. l.n \in Links /\ ~(l.n < 0)
  BY SpanInHeap, LinkFacts
<1>3. HungLeft(h, g, n, l.n)
  BY <1>1, <1>2, HangLeft
<1>4. FixLeft(n, l) = [FixUp(g, n) EXCEPT !.hit = l.hit]
  BY <1>2 DEF FixLeft
<1> HIDE DEF g
<1>5. Only(h, g, {n}) /\ SameData(h, g) /\ IsHeap(g)
  BY <1>3 DEF HungLeft
<1>6. n \notin A /\ n \notin B
  BY HalvesAreLess, ZenonT(30)
<1>7. Joined(g, n, A, B) /\ Span(g, l.n, A, c) /\ Span(g, h[n].right, B, d)
  BY <1>5, <1>6, JoinedKept, SpanUntouched
<1>8. g[n].right = h[n].right /\ g[n].left = l.n
  BY <1>3 DEF HungLeft
<1>9. Span(g, l.n, A, NoDepth) /\ Span(g, g[n].right, B, NoDepth)
  BY <1>5, <1>7, <1>8, SpanIsTree DEF Tree
<1>10. Halves(g, n, A, B, NoDepth)
  BY <1>7, <1>8, <1>9 DEF Halves
<1>11. Fixed(h, g, n, A \cup {n} \cup B, FixLeft(n, l), l.hit)
  BY <1>4, <1>5, <1>10, FixUpOf
<1>12. QED
  BY <1>3, <1>7, <1>8, <1>11

LEMMA FixRightIs ==
  ASSUME NEW n, NEW r, NEW A, NEW B, NEW c \in Int, NEW d \in Int,
         IsHeap(r.h), Joined(r.h, n, A, B),
         Span(r.h, r.h[n].left, A, c), Span(r.h, r.n, B, d)
  PROVE  \E g : /\ HungRight(r.h, g, n, r.n)
                /\ Joined(g, n, A, B) /\ Span(g, g[n].left, A, c) /\ Span(g, r.n, B, d)
                /\ Fixed(r.h, g, n, A \cup {n} \cup B, FixRight(n, r), r.hit)
<1> DEFINE h == r.h
           g == [h EXCEPT ![n].right = r.n]
<1>1. n \in DOMAIN h
  BY DEF Joined
<1>2. r.n \in Links /\ ~(r.n < 0)
  BY SpanInHeap, LinkFacts
<1>3. HungRight(h, g, n, r.n)
  BY <1>1, <1>2, HangRight
<1>4. FixRight(n, r) = [FixUp(g, n) EXCEPT !.hit = r.hit]
  BY <1>2 DEF FixRight
<1> HIDE DEF g
<1>5. Only(h, g, {n}) /\ SameData(h, g) /\ IsHeap(g)
  BY <1>3 DEF HungRight
<1>6. n \notin A /\ n \notin B
  BY HalvesAreLess, ZenonT(30)
<1>7. Joined(g, n, A, B) /\ Span(g, r.n, B, d) /\ Span(g, h[n].left, A, c)
  BY <1>5, <1>6, JoinedKept, SpanUntouched
<1>8. g[n].left = h[n].left /\ g[n].right = r.n
  BY <1>3 DEF HungRight
<1>9. Span(g, g[n].left, A, NoDepth) /\ Span(g, r.n, B, NoDepth)
  BY <1>5, <1>7, <1>8, SpanIsTree DEF Tree
<1>10. Halves(g, n, A, B, NoDepth)
  BY <1>7, <1>8, <1>9 DEF Halves
<1>11. Fixed(h, g, n, A \cup {n} \cup B, FixRight(n, r), r.hit)
  BY <1>4, <1>5, <1>10, FixUpOf
<1>12. QED
  BY <1>3, <1>7, <1>8, <1>11

-----------------------------------------------------------------------------
(* The functions that call themselves: f[d] is the function of a call that *)
(* may nest d deep.                                                        *)

LEMMA DeepestFacts == Deepest \in Nat /\ Deepest = MaxKey + 1 /\ Room = 0..Deepest
BY MapAssumption DEF Deepest, Room

(* The steps of the search for the nodes below one. *)
LEMMA BelowSteps ==
  ASSUME NEW h
  PROVE  \E f : /\ \A d \in 1..Deepest : \A m \in Links : f[d][m] = Reaching(f[d - 1], h, m)
                /\ \A n : Reachable(h, n) = IF n > 0 THEN f[Deepest][n] ELSE {}
<1> DEFINE Step(d, w) == [m \in Links |-> IF d = 0 THEN {} ELSE Reaching(w, h, m)]
           F == CHOOSE f : f = [d \in Room |-> Step(d, f[d - 1])]
           M == {i \in 0..Deepest : \E f : f = [d \in 0..i |-> Step(d, f[d - 1])]}
<1>1. \A n : Reachable(h, n) = IF n > 0 THEN F[Deepest][n] ELSE {}
  BY DEF Reachable
<1>2. \A w, x : Step(0, w) = Step(0, x)
  OBVIOUS
<1>3. \A d \in 1..Deepest : \A w : \A m \in Links : Step(d, w)[m] = Reaching(w, h, m)
  BY DeepestFacts
<1> HIDE DEF Step
<1>4. 0 \in M
  <2>1. [d \in 0..0 |-> Step(0, 0)] = [d \in 0..0 |-> Step(d, [e \in 0..0 |-> Step(0, 0)][d - 1])]
    BY <1>2
  <2>2. QED
    BY <2>1, DeepestFacts
<1>5. ASSUME NEW i \in 1..Deepest, i - 1 \in M
      PROVE  i \in M
  <2>1. PICK e : e = [d \in 0..(i - 1) |-> Step(d, e[d - 1])]
    BY <1>5
  <2> DEFINE f == [d \in 0..i |-> IF d = i THEN Step(i, e[i - 1]) ELSE e[d]]
  <2>2. i \in 0..Deepest /\ \A d \in 0..(i - 1) : e[d] = Step(d, e[d - 1])
    BY <2>1, DeepestFacts
  <2>3. \A d \in 0..i : f[d] = Step(d, f[d - 1])
    BY <1>2, <2>2
  <2>4. f = [d \in 0..i |-> Step(d, f[d - 1])]
    BY <2>3
  <2>5. QED
    BY <2>2, <2>4
<1>6. \A i \in 0..Deepest : i \in M
  <2> HIDE DEF M
  <2>1. QED
    BY <1>4, <1>5, DeepestFacts, Induction
<1>7. \E f : f = [d \in Room |-> Step(d, f[d - 1])]
  BY <1>6, DeepestFacts
<1>8. F = [d \in Room |-> Step(d, F[d - 1])]
  BY <1>7, Zenon
<1> HIDE DEF F
<1>9. \A d \in 1..Deepest : F[d] = Step(d, F[d - 1])
  BY <1>8, DeepestFacts
<1>10. \A d \in 1..Deepest : \A m \in Links : F[d][m] = Reaching(F[d - 1], h, m)
  BY <1>3, <1>9
<1>11. QED
  BY <1>1, <1>10, Zenon

(* The activations of nodeAdd. *)
LEMMA AddSteps ==
  ASSUME NEW h, NEW k, NEW v
  PROVE  \E f : /\ \A d \in 1..Deepest : \A m \in Links : f[d][m] = Adding(f[d - 1], h, m, k, v)
                /\ \A n : NodeAdd(h, n, k, v) = f[Deepest][n]
<1> DEFINE Step(d, w) == [m \in Links |-> IF d = 0 THEN R(h, Crashed) ELSE Adding(w, h, m, k, v)]
           F == CHOOSE f : f = [d \in Room |-> Step(d, f[d - 1])]
           M == {i \in 0..Deepest : \E f : f = [d \in 0..i |-> Step(d, f[d - 1])]}
<1>1. \A n : NodeAdd(h, n, k, v) = F[Deepest][n]
  BY DEF NodeAdd
<1>2. \A w, x : Step(0, w) = Step(0, x)
  OBVIOUS
<1>3. \A d \in 1..Deepest : \A w : \A m \in Links : Step(d, w)[m] = Adding(w, h, m, k, v)
  BY DeepestFacts
<1> HIDE DEF Step
<1>4. 0 \in M
  <2>1. [d \in 0..0 |-> Step(0, 0)] = [d \in 0..0 |-> Step(d, [e \in 0..0 |-> Step(0, 0)][d - 1])]
    BY <1>2
  <2>2. QED
    BY <2>1, DeepestFacts
<1>5. ASSUME NEW i \in 1..Deepest, i - 1 \in M
      PROVE  i \in M
  <2>1. PICK e : e = [d \in 0..(i - 1) |-> Step(d, e[d - 1])]
    BY <1>5
  <2> DEFINE f == [d \in 0..i |-> IF d = i THEN Step(i, e[i - 1]) ELSE e[d]]
  <2>2. i \in 0..Deepest /\ \A d \in 0..(i - 1) : e[d] = Step(d, e[d - 1])
    BY <2>1, DeepestFacts
  <2>3. \A d \in 0..i : f[d] = Step(d, f[d - 1])
    BY <1>2, <2>2
  <2>4. f = [d \in 0..i |-> Step(d, f[d - 1])]
    BY <2>3
  <2>5. QED
    BY <2>2, <2>4
<1>6. \A i \in 0..Deepest : i \in M
  <2> HIDE DEF M
  <2>1. QED
    BY <1>4, <1>5, DeepestFacts, Induction
<1>7. \E f : f = [d \in Room |-> Step(d, f[d - 1])]
  BY <1>6, DeepestFacts
<1>8. F = [d \in Room |-> Step(d, F[d - 1])]
  BY <1>7, Zenon
<1> HIDE DEF F
<1>9. \A d \in 1..Deepest : F[d] = Step(d, F[d - 1])
  BY <1>8, DeepestFacts
<1>10. \A d \in 1..Deepest : \A m \in Links : F[d][m] = Adding(F[d - 1], h, m, k, v)
  BY <1>3, <1>9
<1>11. QED
  BY <1>1, <1>10, Zenon

(* The activations of nodeGetnode. *)
LEMMA GetSteps ==
  ASSUME NEW h, NEW k
  PROVE  \E f : /\ \A d \in 1..Deepest : \A m \in Links : f[d][m] = Getting(f[d - 1], h, m, k)
                /\ \A n : NodeGetnode(h, n, k) = f[Deepest][n]
<1> DEFINE Step(d, w) == [m \in Links |-> IF d = 0 THEN Crashed ELSE Getting(w, h, m, k)]
           F == CHOOSE f : f = [d \in Room |-> Step(d, f[d - 1])]
           M == {i \in 0..Deepest : \E f : f = [d \in 0..i |-> Step(d, f[d - 1])]}
<1>1. \A n : NodeGetnode(h, n, k) = F[Deepest][n]
  BY DEF NodeGetnode
<1>2. \A w, x : Step(0, w) = Step(0, x)
  OBVIOUS
<1>3. \A d \in 1..Deepest : \A w : \A m \in Links : Step(d, w)[m] = Getting(w, h, m, k)
  BY DeepestFacts
<1> HIDE DEF Step
<1>4. 0 \in M
  <2>1. [d \in 0..0 |-> Step(0, 0)] = [d \in 0..0 |-> Step(d, [e \in 0..0 |-> Step(0, 0)][d - 1])]
    BY <1>2
  <2>2. QED
    BY <2>1, DeepestFacts
<1>5. ASSUME NEW i \in 1..Deepest, i - 1 \in M
      PROVE  i \in M
  <2>1. PICK e : e = [d \in 0..(i - 1) |-> Step(d, e[d - 1])]
    BY <1>5
  <2> DEFINE f == [d \in 0..i |-> IF d = i THEN Step(i, e[i - 1]) ELSE e[d]]
  <2>2. i \in 0..Deepest /\ \A d \in 0..(i - 1) : e[d] = Step(d, e[d - 1])
    BY <2>1, DeepestFacts
  <2>3. \A d \in 0..i : f[d] = Step(d, f[d - 1])
    BY <1>2, <2>2
  <2>4. f = [d \in 0..i |-> Step(d, f[d - 1])]
    BY <2>3
  <2>5. QED
    BY <2>2, <2>4
<1>6. \A i \in 0..Deepest : i \in M
  <2> HIDE DEF M
  <2>1. QED
    BY <1>4, <1>5, DeepestFacts, Induction
<1>7. \E f : f = [d \in Room |-> Step(d, f[d - 1])]
  BY <1>6, DeepestFacts
<1>8. F = [d \in Room |-> Step(d, F[d - 1])]
  BY <1>7, Zenon
<1> HIDE DEF F
<1>9. \A d \in 1..Deepest : F[d] = Step(d, F[d - 1])
  BY <1>8, DeepestFacts
<1>10. \A d \in 1..Deepest : \A m \in Links : F[d][m] = Getting(F[d - 1], h, m, k)
  BY <1>3, <1>9
<1>11. QED
  BY <1>1, <1>10, Zenon

(* The activations of nodeMin. *)
LEMMA MinSteps ==
  ASSUME NEW h
  PROVE  \E f : /\ \A d \in 1..Deepest : \A m \in Links :
                    f[d][m] = (IF h[m].left = Null THEN h[m].key ELSE f[d - 1][h[m].left])
                /\ \A n : NodeMin(h, n) = f[Deepest][n]
<1> DEFINE Step(d, w) ==
              [m \in Links |->
                IF d = 0 THEN NoKey ELSE IF h[m].left = Null THEN h[m].key ELSE w[h[m].left]]
           F == CHOOSE f : f = [d \in Room |-> Step(d, f[d - 1])]
           M == {i \in 0..Deepest : \E f : f = [d \in 0..i |-> Step(d, f[d - 1])]}
<1>1. \A n : NodeMin(h, n) = F[Deepest][n]
  BY DEF NodeMin
<1>2. \A w, x : Step(0, w) = Step(0, x)
  OBVIOUS
<1>3. \A d \in 1..Deepest : \A w : \A m \in Links :
          Step(d, w)[m] = (IF h[m].left = Null THEN h[m].key ELSE w[h[m].left])
  BY DeepestFacts
<1> HIDE DEF Step
<1>4. 0 \in M
  <2>1. [d \in 0..0 |-> Step(0, 0)] = [d \in 0..0 |-> Step(d, [e \in 0..0 |-> Step(0, 0)][d - 1])]
    BY <1>2
  <2>2. QED
    BY <2>1, DeepestFacts
<1>5. ASSUME NEW i \in 1..Deepest, i - 1 \in M
      PROVE  i \in M
  <2>1. PICK e : e = [d \in 0..(i - 1) |-> Step(d, e[d - 1])]
    BY <1>5
  <2> DEFINE f == [d \in 0..i |-> IF d = i THEN Step(i, e[i - 1]) ELSE e[d]]
  <2>2. i \in 0..Deepest /\ \A d \in 0..(i - 1) : e[d] = Step(d, e[d - 1])
    BY <2>1, DeepestFacts
  <2>3. \A d \in 0..i : f[d] = Step(d, f[d - 1])
    BY <1>2, <2>2
  <2>4. f = [d \in 0..i |-> Step(d, f[d - 1])]
    BY <2>3
  <2>5. QED
    BY <2>2, <2>4
<1>6. \A i \in 0..Deepest : i \in M
  <2> HIDE DEF M
  <2>1. QED
    BY <1>4, <1>5, DeepestFacts, Induction
<1>7. \E f : f = [d \in Room |-> Step(d, f[d - 1])]
  BY <1>6, DeepestFacts
<1>8. F = [d \in Room |-> Step(d, F[d - 1])]
  BY <1>7, Zenon
<1> HIDE DEF F
<1>9. \A d \in 1..Deepest : F[d] = Step(d, F[d - 1])
  BY <1>8, DeepestFacts
<1>10. \A d \in 1..Deepest : \A m \in Links :
          F[d][m] = (IF h[m].left = Null THEN h[m].key ELSE F[d - 1][h[m].left])
  BY <1>3, <1>9
<1>11. QED
  BY <1>1, <1>10, Zenon

(* The activations of nodeDeleteMin. *)
LEMMA DeleteMinSteps ==
  ASSUME NEW h
  PROVE  \E f : /\ \A d \in 1..Deepest : \A c \in Calls(h) : f[d][c] = DeletingMin(f[d - 1], c.h, c.n)
                /\ \A n : NodeDeleteMin(h, n) = f[Deepest][Call(h, n)]
<1> DEFINE Step(d, w) == [c \in Calls(h) |-> IF d = 0 THEN R(c.h, Crashed) ELSE DeletingMin(w, c.h, c.n)]
           F == CHOOSE f : f = [d \in Room |-> Step(d, f[d - 1])]
           M == {i \in 0..Deepest : \E f : f = [d \in 0..i |-> Step(d, f[d - 1])]}
<1>1. \A n : NodeDeleteMin(h, n) = F[Deepest][Call(h, n)]
  BY DEF NodeDeleteMin
<1>2. \A w, x : Step(0, w) = Step(0, x)
  OBVIOUS
<1>3. \A d \in 1..Deepest : \A w : \A c \in Calls(h) : Step(d, w)[c] = DeletingMin(w, c.h, c.n)
  BY DeepestFacts
<1> HIDE DEF Step
<1>4. 0 \in M
  <2>1. [d \in 0..0 |-> Step(0, 0)] = [d \in 0..0 |-> Step(d, [e \in 0..0 |-> Step(0, 0)][d - 1])]
    BY <1>2
  <2>2. QED
    BY <2>1, DeepestFacts
<1>5. ASSUME NEW i \in 1..Deepest, i - 1 \in M
      PROVE  i \in M
  <2>1. PICK e : e = [d \in 0..(i - 1) |-> Step(d, e[d - 1])]
    BY <1>5
  <2> DEFINE f == [d \in 0..i |-> IF d = i THEN Step(i, e[i - 1]) ELSE e[d]]
  <2>2. i \in 0..Deepest /\ \A d \in 0..(i - 1) : e[d] = Step(d, e[d - 1])
    BY <2>1, DeepestFacts
  <2>3. \A d \in 0..i : f[d] = Step(d, f[d - 1])
    BY <1>2, <2>2
  <2>4. f = [d \in 0..i |-> Step(d, f[d - 1])]
    BY <2>3
  <2>5. QED
    BY <2>2, <2>4
<1>6. \A i \in 0..Deepest : i \in M
  <2> HIDE DEF M
  <2>1. QED
    BY <1>4, <1>5, DeepestFacts, Induction
<1>7. \E f : f = [d \in Room |-> Step(d, f[d - 1])]
  BY <1>6, DeepestFacts
<1>8. F = [d \in Room |-> Step(d, F[d - 1])]
  BY <1>7, Zenon
<1> HIDE DEF F
<1>9. \A d \in 1..Deepest : F[d] = Step(d, F[d - 1])
  BY <1>8, DeepestFacts
<1>10. \A d \in 1..Deepest : \A c \in Calls(h) : F[d][c] = DeletingMin(F[d - 1], c.h, c.n)
  BY <1>3, <1>9
<1>11. QED
  BY <1>1, <1>10, Zenon

(* The activations of nodeDelete. *)
LEMMA DeleteSteps ==
  ASSUME NEW h, NEW k
  PROVE  \E f : /\ \A d \in 1..Deepest : \A c \in Calls(h) : f[d][c] = Deleting(f[d - 1], c.h, c.n, k)
                /\ \A n : NodeDelete(h, n, k) = f[Deepest][Call(h, n)]
<1> DEFINE Step(d, w) == [c \in Calls(h) |-> IF d = 0 THEN R(c.h, Crashed) ELSE Deleting(w, c.h, c.n, k)]
           F == CHOOSE f : f = [d \in Room |-> Step(d, f[d - 1])]
           M == {i \in 0..Deepest : \E f : f = [d \in 0..i |-> Step(d, f[d - 1])]}
<1>1. \A n : NodeDelete(h, n, k) = F[Deepest][Call(h, n)]
  BY DEF NodeDelete
<1>2. \A w, x : Step(0, w) = Step(0, x)
  OBVIOUS
<1>3. \A d \in 1..Deepest : \A w : \A c \in Calls(h) : Step(d, w)[c] = Deleting(w, c.h, c.n, k)
  BY DeepestFacts
<1> HIDE DEF Step
<1>4. 0 \in M
  <2>1. [d \in 0..0 |-> Step(0, 0)] = [d \in 0..0 |-> Step(d, [e \in 0..0 |-> Step(0, 0)][d - 1])]
    BY <1>2
  <2>2. QED
    BY <2>1, DeepestFacts
<1>5. ASSUME NEW i \in 1..Deepest, i - 1 \in M
      PROVE  i \in M
  <2>1. PICK e : e = [d \in 0..(i - 1) |-> Step(d, e[d - 1])]
    BY <1>5
  <2> DEFINE f == [d \in 0..i |-> IF d = i THEN Step(i, e[i - 1]) ELSE e[d]]
  <2>2. i \in 0..Deepest /\ \A d \in 0..(i - 1) : e[d] = Step(d, e[d - 1])
    BY <2>1, DeepestFacts
  <2>3. \A d \in 0..i : f[d] = Step(d, f[d - 1])
    BY <1>2, <2>2
  <2>4. f = [d \in 0..i |-> Step(d, f[d - 1])]
    BY <2>3
  <2>5. QED
    BY <2>2, <2>4
<1>6. \A i \in 0..Deepest : i \in M
  <2> HIDE DEF M
  <2>1. QED
    BY <1>4, <1>5, DeepestFacts, Induction
<1>7. \E f : f = [d \in Room |-> Step(d, f[d - 1])]
  BY <1>6, DeepestFacts
<1>8. F = [d \in Room |-> Step(d, F[d - 1])]
  BY <1>7, Zenon
<1> HIDE DEF F
<1>9. \A d \in 1..Deepest : F[d] = Step(d, F[d - 1])
  BY <1>8, DeepestFacts
<1>10. \A d \in 1..Deepest : \A c \in Calls(h) : F[d][c] = Deleting(F[d - 1], c.h, c.n, k)
  BY <1>3, <1>9
<1>11. QED
  BY <1>1, <1>10, Zenon

(* The activations of iterIntNext. *)
LEMMA LaterSteps ==
  ASSUME NEW h, NEW last
  PROVE  \E f : /\ \A d \in 1..Deepest : \A m \in Links : f[d][m] = IteratingNext(f[d - 1], h, m, last)
                /\ \A n : IterIntNext(h, n, last) = f[Deepest][n]
<1> DEFINE Step(d, w) == [m \in Links |-> IF d = 0 THEN Crashed ELSE IteratingNext(w, h, m, last)]
           F == CHOOSE f : f = [d \in Room |-> Step(d, f[d - 1])]
           M == {i \in 0..Deepest : \E f : f = [d \in 0..i |-> Step(d, f[d - 1])]}
<1>1. \A n : IterIntNext(h, n, last) = F[Deepest][n]
  BY DEF IterIntNext
<1>2. \A w, x : Step(0, w) = Step(0, x)
  OBVIOUS
<1>3. \A d \in 1..Deepest : \A w : \A m \in Links : Step(d, w)[m] = IteratingNext(w, h, m, last)
  BY DeepestFacts
<1> HIDE DEF Step
<1>4. 0 \in M
  <2>1. [d \in 0..0 |-> Step(0, 0)] = [d \in 0..0 |-> Step(d, [e \in 0..0 |-> Step(0, 0)][d - 1])]
    BY <1>2
  <2>2. QED
    BY <2>1, DeepestFacts
<1>5. ASSUME NEW i \in 1..Deepest, i - 1 \in M
      PROVE  i \in M
  <2>1. PICK e : e = [d \in 0..(i - 1) |-> Step(d, e[d - 1])]
    BY <1>5
  <2> DEFINE f == [d \in 0..i |-> IF d = i THEN Step(i, e[i - 1]) ELSE e[d]]
  <2>2. i \in 0..Deepest /\ \A d \in 0..(i - 1) : e[d] = Step(d, e[d - 1])
    BY <2>1, DeepestFacts
  <2>3. \A d \in 0..i : f[d] = Step(d, f[d - 1])
    BY <1>2, <2>2
  <2>4. f = [d \in 0..i |-> Step(d, f[d - 1])]
    BY <2>3
  <2>5. QED
    BY <2>2, <2>4
<1>6. \A i \in 0..Deepest : i \in M
  <2> HIDE DEF M
  <2>1. QED
    BY <1>4, <1>5, DeepestFacts, Induction
<1>7. \E f : f = [d \in Room |-> Step(d, f[d - 1])]
  BY <1>6, DeepestFacts
<1>8. F = [d \in Room |-> Step(d, F[d - 1])]
  BY <1>7, Zenon
<1> HIDE DEF F
<1>9. \A d \in 1..Deepest : F[d] = Step(d, F[d - 1])
  BY <1>8, DeepestFacts
<1>10. \A d \in 1..Deepest : \A m \in Links : F[d][m] = IteratingNext(F[d - 1], h, m, last)
  BY <1>3, <1>9
<1>11. QED
  BY <1>1, <1>10, Zenon

(* The activations that count the black nodes on the left. *)
LEMMA DepthSteps ==
  ASSUME NEW h
  PROVE  \E f : /\ \A d \in 1..Deepest : \A m \in Links :
                    f[d][m] = (IF m = Null THEN 0 ELSE f[d - 1][h[m].left] + (IF h[m].red THEN 0 ELSE 1))
                /\ \A n : BlackDepth(h, n) = f[Deepest][n]
<1> DEFINE Step(d, w) ==
              [m \in Links |->
                IF d = 0 \/ m = Null THEN 0 ELSE w[h[m].left] + (IF h[m].red THEN 0 ELSE 1)]
           F == CHOOSE f : f = [d \in Room |-> Step(d, f[d - 1])]
           M == {i \in 0..Deepest : \E f : f = [d \in 0..i |-> Step(d, f[d - 1])]}
<1>1. \A n : BlackDepth(h, n) = F[Deepest][n]
  BY DEF BlackDepth
<1>2. \A w, x : Step(0, w) = Step(0, x)
  OBVIOUS
<1>3. \A d \in 1..Deepest : \A w : \A m \in Links :
          Step(d, w)[m] = (IF m = Null THEN 0 ELSE w[h[m].left] + (IF h[m].red THEN 0 ELSE 1))
  BY DeepestFacts
<1> HIDE DEF Step
<1>4. 0 \in M
  <2>1. [d \in 0..0 |-> Step(0, 0)] = [d \in 0..0 |-> Step(d, [e \in 0..0 |-> Step(0, 0)][d - 1])]
    BY <1>2
  <2>2. QED
    BY <2>1, DeepestFacts
<1>5. ASSUME NEW i \in 1..Deepest, i - 1 \in M
      PROVE  i \in M
  <2>1. PICK e : e = [d \in 0..(i - 1) |-> Step(d, e[d - 1])]
    BY <1>5
  <2> DEFINE f == [d \in 0..i |-> IF d = i THEN Step(i, e[i - 1]) ELSE e[d]]
  <2>2. i \in 0..Deepest /\ \A d \in 0..(i - 1) : e[d] = Step(d, e[d - 1])
    BY <2>1, DeepestFacts
  <2>3. \A d \in 0..i : f[d] = Step(d, f[d - 1])
    BY <1>2, <2>2
  <2>4. f = [d \in 0..i |-> Step(d, f[d - 1])]
    BY <2>3
  <2>5. QED
    BY <2>2, <2>4
<1>6. \A i \in 0..Deepest : i \in M
  <2> HIDE DEF M
  <2>1. QED
    BY <1>4, <1>5, DeepestFacts, Induction
<1>7. \E f : f = [d \in Room |-> Step(d, f[d - 1])]
  BY <1>6, DeepestFacts
<1>8. F = [d \in Room |-> Step(d, F[d - 1])]
  BY <1>7, Zenon
<1> HIDE DEF F
<1>9. \A d \in 1..Deepest : F[d] = Step(d, F[d - 1])
  BY <1>8, DeepestFacts
<1>10. \A d \in 1..Deepest : \A m \in Links :
          F[d][m] = (IF m = Null THEN 0 ELSE F[d - 1][h[m].left] + (IF h[m].red THEN 0 ELSE 1))
  BY <1>3, <1>9
<1>11. QED
  BY <1>1, <1>10, Zenon

-----------------------------------------------------------------------------
(* Looking a tree up.                                                      *)

(* The subtrees of a tree with fewer than d nodes have fewer than d - 1.   *)
LEMMA TreeDescent ==
  ASSUME NEW h, IsHeap(h), NEW n, NEW S, Tree(h, n, S), n # Null,
         NEW d \in Int, Cardinality(S) < d
  PROVE  \E A, B : /\ Halves(h, n, A, B, NoDepth) /\ S = A \cup {n} \cup B
                   /\ Joined(h, n, A, B) /\ n \in DOMAIN h
                   /\ A \in SUBSET Nodes /\ B \in SUBSET Nodes
                   /\ h[n].left \in Links /\ h[n].right \in Links
                   /\ Tree(h, h[n].left, A) /\ Tree(h, h[n].right, B)
                   /\ Cardinality(A) < d - 1 /\ Cardinality(B) < d - 1
<1>1. PICK A, B : Halves(h, n, A, B, NoDepth) /\ S = A \cup {n} \cup B
  BY TreeHalves
<1>2. Joined(h, n, A, B) /\ Tree(h, h[n].left, A) /\ Tree(h, h[n].right, B)
  BY <1>1 DEF Halves, Tree
<1>3. /\ Cardinality(A) \in Nat /\ Cardinality(B) \in Nat /\ Cardinality(S) \in Nat
      /\ Cardinality(A) < Cardinality(S) /\ Cardinality(B) < Cardinality(S)
  BY <1>1, <1>2, HalvesAreLess
<1>4. n \in DOMAIN h /\ A \in SUBSET Nodes /\ B \in SUBSET Nodes
  BY <1>2 DEF Joined, IsHeap
<1>5. h[n].left \in Links /\ h[n].right \in Links
  BY <1>4, HeapFacts
<1>6. Cardinality(A) < d - 1 /\ Cardinality(B) < d - 1
  BY <1>3
<1>7. QED
  BY <1>1, <1>2, <1>4, <1>5, <1>6

LEMMA TreeFits ==
  ASSUME NEW h, IsHeap(h), NEW n, NEW S, Tree(h, n, S)
  PROVE  S \in SUBSET Nodes /\ Cardinality(S) < Deepest /\ n \in Links
<1>1. S \in SUBSET Nodes /\ n \in Links
  BY SpanInHeap, NoDepthFacts DEF Tree
<1>2. QED
  BY <1>1, SizeOfTree, DeepestFacts, MapAssumption

(* The nodes of a tree are those the search for live nodes finds.          *)
LEMMA ReachableIsTree ==
  ASSUME NEW h, IsHeap(h), NEW n, NEW S, Tree(h, n, S)
  PROVE  Reachable(h, n) = S
<1>1. PICK f : /\ \A d \in 1..Deepest : \A m \in Links : f[d][m] = Reaching(f[d - 1], h, m)
               /\ \A m : Reachable(h, m) = IF m > 0 THEN f[Deepest][m] ELSE {}
  BY BelowSteps
<1> DEFINE M == {d \in 0..Deepest : \A x \in Links, X \in SUBSET Nodes :
                   Tree(h, x, X) /\ Cardinality(X) < d => f[d][x] = X}
<1>2. 0 \in M
  BY SizeOfTree, DeepestFacts
<1>3. ASSUME NEW d \in 1..Deepest, d - 1 \in M
      PROVE  d \in M
  <2>1. ASSUME NEW x \in Links, NEW X \in SUBSET Nodes, Tree(h, x, X), Cardinality(X) < d
        PROVE  f[d][x] = X
    <3>1. f[d][x] = Reaching(f[d - 1], h, x)
      BY <1>1
    <3>2. CASE x = Null
      BY <2>1, <3>1, <3>2, SpanInHeap, NoDepthFacts DEF Tree, Reaching
    <3>3. CASE x # Null
      <4>1. PICK A, B : /\ X = A \cup {x} \cup B
                        /\ A \in SUBSET Nodes /\ B \in SUBSET Nodes
                        /\ h[x].left \in Links /\ h[x].right \in Links
                        /\ Tree(h, h[x].left, A) /\ Tree(h, h[x].right, B)
                        /\ Cardinality(A) < d - 1 /\ Cardinality(B) < d - 1
        BY <2>1, <3>3, TreeDescent
      <4>2. f[d - 1][h[x].left] = A /\ f[d - 1][h[x].right] = B
        BY <1>3, <4>1
      <4>3. QED
        BY <3>1, <3>3, <4>1, <4>2 DEF Reaching
    <3>4. QED
      BY <3>2, <3>3
  <2>2. d \in 0..Deepest
    BY DeepestFacts
  <2>3. QED
    BY <2>1, <2>2
<1>4. \A d \in 0..Deepest : d \in M
  <2> HIDE DEF M
  <2>1. QED
    BY <1>2, <1>3, DeepestFacts, Induction
<1>5. Deepest \in M
  BY <1>4, DeepestFacts
<1>6. CASE n = Null
  BY <1>1, <1>6, SpanInHeap, NoDepthFacts DEF Tree, Null
<1>7. CASE n # Null
  <2>1. n \in Links /\ S \in SUBSET Nodes /\ Cardinality(S) < Deepest
    BY TreeFits
  <2>2. n > 0
    BY <1>7, <2>1, LinkFacts DEF Links
  <2>3. f[Deepest][n] = S
    BY <1>5, <2>1
  <2>4. QED
    BY <1>1, <2>2, <2>3
<1>8. QED
  BY <1>6, <1>7

(* The node of a key, if it has one.                                       *)
Finds(h, S, k, m) == \/ m \in S /\ h[m].key = k
                     \/ m = Null /\ \A x \in S : h[x].key # k

LEMMA GetnodeFinds ==
  ASSUME NEW h, IsHeap(h), NEW n, NEW S, Tree(h, n, S), NEW k \in Int
  PROVE  Finds(h, S, k, NodeGetnode(h, n, k))
<1>1. PICK f : /\ \A d \in 1..Deepest : \A m \in Links : f[d][m] = Getting(f[d - 1], h, m, k)
               /\ \A m : NodeGetnode(h, m, k) = f[Deepest][m]
  BY GetSteps
<1> DEFINE M == {d \in 0..Deepest : \A x \in Links, X \in SUBSET Nodes :
                   Tree(h, x, X) /\ Cardinality(X) < d => Finds(h, X, k, f[d][x])}
<1>2. 0 \in M
  BY SizeOfTree, DeepestFacts
<1>3. ASSUME NEW d \in 1..Deepest, d - 1 \in M
      PROVE  d \in M
  <2>1. ASSUME NEW x \in Links, NEW X \in SUBSET Nodes, Tree(h, x, X), Cardinality(X) < d
        PROVE  Finds(h, X, k, f[d][x])
    <3>1. f[d][x] = Getting(f[d - 1], h, x, k)
      BY <1>1
    <3>2. CASE x = Null
      BY <2>1, <3>1, <3>2, SpanInHeap, NoDepthFacts DEF Tree, Getting, Finds
    <3>3. CASE x # Null
      <4>1. PICK A, B : /\ X = A \cup {x} \cup B /\ Joined(h, x, A, B)
                        /\ A \in SUBSET Nodes /\ B \in SUBSET Nodes
                        /\ h[x].left \in Links /\ h[x].right \in Links
                        /\ Tree(h, h[x].left, A) /\ Tree(h, h[x].right, B)
                        /\ Cardinality(A) < d - 1 /\ Cardinality(B) < d - 1
        BY <2>1, <3>3, TreeDescent
      <4>2. Finds(h, A, k, f[d - 1][h[x].left]) /\ Finds(h, B, k, f[d - 1][h[x].right])
        BY <1>3, <4>1
      <4>3. h[x].key \in Int /\ \A y \in A \cup B : h[y].key \in Int
        BY <4>1, HeapFacts DEF Joined
      <4>4. CASE k = h[x].key
        BY <3>1, <3>3, <4>1, <4>4 DEF Getting, Finds
      <4>5. CASE k < h[x].key
        BY <3>1, <3>3, <4>1, <4>2, <4>3, <4>5 DEF Getting, Finds, Joined
      <4>6. CASE k > h[x].key
        BY <3>1, <3>3, <4>1, <4>2, <4>3, <4>6 DEF Getting, Finds, Joined
      <4>7. QED
        BY <4>3, <4>4, <4>5, <4>6
    <3>4. QED
      BY <3>2, <3>3
  <2>2. d \in 0..Deepest
    BY DeepestFacts
  <2>3. QED
    BY <2>1, <2>2
<1>4. \A d \in 0..Deepest : d \in M
  <2> HIDE DEF M
  <2>1. QED
    BY <1>2, <1>3, DeepestFacts, Induction
<1>5. Deepest \in M
  BY <1>4, DeepestFacts
<1>6. n \in Links /\ S \in SUBSET Nodes /\ Cardinality(S) < Deepest
  BY TreeFits
<1>7. QED
  BY <1>1, <1>5, <1>6

(* The least key.                                                          *)
LeastKey(h, S, k) == /\ \E m \in S : h[m].key = k
                     /\ \A x \in S : k <= h[x].key

LEMMA MinIsLeast ==
  ASSUME NEW h, IsHeap(h), NEW n, NEW S, Tree(h, n, S), n # Null
  PROVE  LeastKey(h, S, NodeMin(h, n))
<1>1. PICK f : /\ \A d \in 1..Deepest : \A m \in Links :
                    f[d][m] = IF h[m].left = Null THEN h[m].key ELSE f[d - 1][h[m].left]
               /\ \A m : NodeMin(h, m) = f[Deepest][m]
  BY MinSteps
<1> DEFINE M == {d \in 0..Deepest : \A x \in Links, X \in SUBSET Nodes :
                   Tree(h, x, X) /\ x # Null /\ Cardinality(X) < d => LeastKey(h, X, f[d][x])}
<1>2. 0 \in M
  BY SizeOfTree, DeepestFacts
<1>3. ASSUME NEW d \in 1..Deepest, d - 1 \in M
      PROVE  d \in M
  <2>1. ASSUME NEW x \in Links, NEW X \in SUBSET Nodes, Tree(h, x, X), x # Null,
               Cardinality(X) < d
        PROVE  LeastKey(h, X, f[d][x])
    <3>1. f[d][x] = IF h[x].left = Null THEN h[x].key ELSE f[d - 1][h[x].left]
      BY <1>1
    <3>2. PICK A, B : /\ X = A \cup {x} \cup B /\ Joined(h, x, A, B)
                      /\ A \in SUBSET Nodes /\ B \in SUBSET Nodes
                      /\ h[x].left \in Links /\ Tree(h, h[x].left, A)
                      /\ Cardinality(A) < d - 1
      BY <2>1, TreeDescent
    <3>3. h[x].key \in Int /\ \A y \in A \cup B : h[y].key \in Int
      BY <3>2, HeapFacts DEF Joined
    <3>4. CASE h[x].left = Null
      <4>1. A = {}
        BY <3>2, <3>4, SpanInHeap, NoDepthFacts DEF Tree
      <4>2. QED
        BY <3>1, <3>2, <3>3, <3>4, <4>1 DEF LeastKey, Joined
    <3>5. CASE h[x].left # Null
      <4>1. LeastKey(h, A, f[d - 1][h[x].left])
        BY <1>3, <3>2, <3>5
      <4>2. f[d][x] = f[d - 1][h[x].left]
        BY <3>1, <3>5
      <4>3. QED
        BY <3>2, <3>3, <4>1, <4>2 DEF LeastKey, Joined
    <3>6. QED
      BY <3>4, <3>5
  <2>2. d \in 0..Deepest
    BY DeepestFacts
  <2>3. QED
    BY <2>1, <2>2
<1>4. \A d \in 0..Deepest : d \in M
  <2> HIDE DEF M
  <2>1. QED
    BY <1>2, <1>3, DeepestFacts, Induction
<1>5. Deepest \in M
  BY <1>4, DeepestFacts
<1>6. n \in Links /\ S \in SUBSET Nodes /\ Cardinality(S) < Deepest
  BY TreeFits
<1>7. QED
  BY <1>1, <1>5, <1>6

(* The node of the least key after another.                                *)
Follows(h, S, last, m) ==
  \/ m \in S /\ last < h[m].key /\ \A x \in S : last < h[x].key => h[m].key <= h[x].key
  \/ m = Null /\ \A x \in S : ~(last < h[x].key)

LEMMA IterIntNextFollows ==
  ASSUME NEW h, IsHeap(h), NEW n, NEW S, Tree(h, n, S), NEW last \in Int
  PROVE  Follows(h, S, last, IterIntNext(h, n, last))
<1>1. PICK f : /\ \A d \in 1..Deepest : \A m \in Links :
                    f[d][m] = IteratingNext(f[d - 1], h, m, last)
               /\ \A m : IterIntNext(h, m, last) = f[Deepest][m]
  BY LaterSteps
<1> DEFINE M == {d \in 0..Deepest : \A x \in Links, X \in SUBSET Nodes :
                   Tree(h, x, X) /\ Cardinality(X) < d => Follows(h, X, last, f[d][x])}
<1>2. 0 \in M
  BY SizeOfTree, DeepestFacts
<1>3. ASSUME NEW d \in 1..Deepest, d - 1 \in M
      PROVE  d \in M
  <2>1. ASSUME NEW x \in Links, NEW X \in SUBSET Nodes, Tree(h, x, X), Cardinality(X) < d
        PROVE  Follows(h, X, last, f[d][x])
    <3>1. f[d][x] = IteratingNext(f[d - 1], h, x, last)
      BY <1>1
    <3>2. CASE x = Null
      BY <2>1, <3>1, <3>2, SpanInHeap, NoDepthFacts DEF Tree, IteratingNext, Follows
    <3>3. CASE x # Null
      <4>1. PICK A, B : /\ X = A \cup {x} \cup B /\ Joined(h, x, A, B)
                        /\ A \in SUBSET Nodes /\ B \in SUBSET Nodes
                        /\ h[x].left \in Links /\ h[x].right \in Links
                        /\ Tree(h, h[x].left, A) /\ Tree(h, h[x].right, B)
                        /\ Cardinality(A) < d - 1 /\ Cardinality(B) < d - 1
        BY <2>1, <3>3, TreeDescent
      <4>2. /\ Follows(h, A, last, f[d - 1][h[x].left])
            /\ Follows(h, B, last, f[d - 1][h[x].right])
        BY <1>3, <4>1
      <4>3. h[x].key \in Int /\ \A y \in A \cup B : h[y].key \in Int
        BY <4>1, HeapFacts DEF Joined
      <4>4. CASE last < h[x].key /\ f[d - 1][h[x].left] # Null
        <5>1. f[d][x] = f[d - 1][h[x].left]
          BY <3>1, <3>3, <4>4 DEF IteratingNext
        <5>2. QED
          BY <4>1, <4>2, <4>3, <4>4, <5>1, SMTT(30) DEF Follows, Joined
      <4>5. CASE last < h[x].key /\ f[d - 1][h[x].left] = Null
        <5>1. f[d][x] = x
          BY <3>1, <3>3, <4>5 DEF IteratingNext
        <5>2. Null \notin A
          BY <4>1, LinkFacts
        <5>3. \A y \in A : ~(last < h[y].key)
          BY <4>2, <4>5, <5>2 DEF Follows
        <5>4. QED
          BY <4>1, <4>3, <4>5, <5>1, <5>3 DEF Follows, Joined
      <4>6. CASE ~(last < h[x].key)
        <5>1. f[d][x] = f[d - 1][h[x].right]
          BY <3>1, <3>3, <4>6 DEF IteratingNext
        <5>2. QED
          BY <4>1, <4>2, <4>3, <4>6, <5>1, SMTT(30) DEF Follows, Joined
      <4>7. QED
        BY <4>4, <4>5, <4>6
    <3>4. QED
      BY <3>2, <3>3
  <2>2. d \in 0..Deepest
    BY DeepestFacts
  <2>3. QED
    BY <2>1, <2>2
<1>4. \A d \in 0..Deepest : d \in M
  <2> HIDE DEF M
  <2>1. QED
    BY <1>2, <1>3, DeepestFacts, Induction
<1>5. Deepest \in M
  BY <1>4, DeepestFacts
<1>6. n \in Links /\ S \in SUBSET Nodes /\ Cardinality(S) < Deepest
  BY TreeFits
<1>7. QED
  BY <1>1, <1>5, <1>6

-----------------------------------------------------------------------------
(* What nodeFixUp makes of a balanced tree with one child changed.         *)

LEMMA SpanHalves ==
  ASSUME NEW h, IsHeap(h), NEW n, NEW A, NEW B, NEW b \in Int, Joined(h, n, A, B),
         Span(h, n, A \cup {n} \cup B, b)
  PROVE  Halves(h, n, A, B, Under(h, n, b)) /\ LeansLeft(h, n, b)
<1> DEFINE S == A \cup {n} \cup B
<1>1. n # Null
  BY LinkFacts DEF Joined, IsHeap
<1>2. /\ LeansLeft(h, n, b)
      /\ Span(h, h[n].left, Lesser(h, S, n), Under(h, n, b))
      /\ Span(h, h[n].right, Greater(h, S, n), Under(h, n, b))
  BY <1>1, SpanOfNode
<1>3. \A m \in A \cup {n} \cup B : h[m].key \in Int
  BY HeapFacts DEF Joined
<1>4. Lesser(h, S, n) = A /\ Greater(h, S, n) = B
  BY <1>3 DEF Joined, Lesser, Greater
<1>5. QED
  BY <1>2, <1>4 DEF Halves

LEMMA RedKept ==
  ASSUME NEW h, NEW g, NEW X, Only(h, g, X), NEW m, m = Null \/ m \in DOMAIN h, m \notin X
  PROVE  Red(g, m) = Red(h, m)
BY DEF Only, Red

(* A red root that turns black.                                            *)
LEMMA BlackSpan ==
  ASSUME NEW h, IsHeap(h), NEW g, IsHeap(g), NEW n, NEW S, NEW c \in Int, c >= 0,
         Span(h, n, S, c), n # Null, h[n].red, SameData(h, g),
         \A m \in S : m # n => g[m] = h[m],
         g[n].left = h[n].left, g[n].right = h[n].right, ~g[n].red
  PROVE  Span(g, n, S, c + 1)
<1>1. n \in DOMAIN h
  BY SpanInHeap
<1>2. Under(h, n, c) = c
  BY <1>1, UnderFacts
<1>3. PICK A, B : Halves(h, n, A, B, c) /\ S = A \cup {n} \cup B /\ LeansLeft(h, n, c)
  BY <1>2, HalvesOf
<1>4. Joined(h, n, A, B) /\ Span(h, h[n].left, A, c) /\ Span(h, h[n].right, B, c)
  BY <1>3 DEF Halves
<1>5. n \notin A /\ n \notin B
  BY <1>4, HalvesAreLess
<1>6. Alike(h, g, A, c) /\ Alike(h, g, B, c)
  BY <1>3, <1>4, <1>5 DEF Alike, SameData, Joined
<1>7. Span(g, h[n].left, A, c) /\ Span(g, h[n].right, B, c)
  BY <1>4, <1>6, SpanKept
<1>8. Joined(g, n, A, B)
  BY <1>4, JoinedKept
<1>9. Halves(g, n, A, B, c)
  BY <1>7, <1>8 DEF Halves
<1>10. Under(g, n, c + 1) = c
  BY DEF Under
<1>11. ~Red(h, h[n].right)
  BY <1>3 DEF LeansLeft
<1>12. h[n].right = Null \/ h[n].right \in B
  BY <1>4, SpanInHeap
<1>13. ~Red(g, g[n].right)
  BY <1>3, <1>5, <1>11, <1>12 DEF Red
<1>14. LeansLeft(g, n, c + 1)
  BY <1>13 DEF LeansLeft
<1>15. QED
  BY <1>3, <1>9, <1>10, <1>14, JoinSpans

LEMMA FixUpOfLean ==
  ASSUME NEW g, IsHeap(g), NEW n \in DOMAIN g, ~Red(g, g[n].right),
         ~(Red(g, g[n].left) /\ Red(g, g[g[n].left].left))
  PROVE  FixUp(g, n) = R(g, n)
<1>1. ~(n < 0)
  BY HeapFacts, LinkFacts
<1>2. LeanLeft(g, n) = R(g, n) /\ SplitFour(g, n) = R(g, n) /\ PassRedUp(g, n) = R(g, n)
  BY DEF LeanLeft, SplitFour, PassRedUp
<1>3. Then(R(g, n), SplitFour) = R(g, n)
  BY <1>1, <1>2, RFacts DEF Then
<1>4. Then(R(g, n), PassRedUp) = R(g, n)
  BY <1>1, <1>2, RFacts DEF Then
<1>5. QED
  BY <1>2, <1>3, <1>4 DEF FixUp

(* Two reds in a row on the left of a black node.                          *)
LEMMA FixUpOfTwoReds ==
  ASSUME NEW g, IsHeap(g), NEW n, NEW l, l = g[n].left, NEW c \in Int, c >= 0,
         NEW A, NEW B, NEW C, Joined(g, n, A \cup {l} \cup B, C),
         Halves(g, l, A, B, c), Span(g, g[n].right, C, c),
         Red(g, l), Red(g, g[l].left), ~Red(g, g[n].right), ~Red(g, n)
  PROVE  LET r == FixUp(g, n) IN
         /\ r.n = l /\ Span(r.h, r.n, A \cup {l} \cup B \cup {n} \cup C, c + 1)
<1> DEFINE k == g[l].left
           S == A \cup {l} \cup B \cup {n} \cup C
<1>1. /\ Joined(g, l, A, B) /\ Span(g, k, A, c) /\ Span(g, g[l].right, B, c)
      /\ n \in DOMAIN g /\ l \in DOMAIN g
  BY DEF Halves, Joined
<1>2. k \in A /\ k # Null /\ k \in DOMAIN g /\ g[k].red /\ g[l].red /\ l # Null /\ ~g[n].red
  BY <1>1, SpanInHeap, LinkFacts DEF Red, IsHeap
<1>3. n \notin A /\ n \notin B /\ n # l /\ n \notin C /\ (A \cup {l} \cup B) \cap C = {}
  <2>1. n \notin A \cup {l} \cup B /\ n \notin C /\ (A \cup {l} \cup B) \cap C = {}
    BY JoinedApart
  <2>2. QED
    BY <2>1
<1>4. l \notin A /\ l \notin B /\ A \cap B = {}
  BY <1>1, JoinedApart
<1>5. PICK g1 : RotateRight(g, n) = R(g1, l) /\ TurnedRight(g, g1, n, l)
  BY <1>1, <1>2, <1>3, RotateRightTurns
<1>6. /\ Halves(g1, n, B, C, c) /\ Joined(g1, l, A, B \cup {n} \cup C)
      /\ Span(g1, g1[l].left, A, c)
  BY <1>2, <1>5, TurnRightHalves
<1>7. /\ IsHeap(g1) /\ SameData(g, g1) /\ Only(g, g1, {n, l})
      /\ g1[n].right = g[n].right /\ g1[n].left = g[l].right /\ g1[n].red
      /\ g1[l].right = n /\ g1[l].left = k /\ ~g1[l].red
  BY <1>2, <1>5 DEF TurnedRight
<1>8. LeanLeft(g, n) = R(g, n) /\ SplitFour(g, n) = R(g1, l)
  BY <1>5 DEF LeanLeft, SplitFour
<1>9. ~(n < 0) /\ ~(l < 0) /\ n # Null
  BY <1>1, HeapFacts, LinkFacts
<1>10. Red(g1, k) /\ Red(g1, n)
  BY <1>2, <1>3, <1>4, <1>7, <1>9 DEF Only, Red
<1>11. k # l /\ k # n /\ k \in DOMAIN g1 /\ n \in DOMAIN g1 /\ l \in DOMAIN g1
  BY <1>1, <1>2, <1>3, <1>4, <1>7 DEF SameData
<1>12. PICK g2 : ColorFlip(g1, l) = R(g2, l) /\ Flipped(g1, g2, l, k, n)
  BY <1>3, <1>7, <1>11, ColorFlipFlips
<1>13. FixUp(g, n) = R(g2, l)
  <2>1. PassRedUp(g1, l) = R(g2, l)
    BY <1>7, <1>10, <1>12 DEF PassRedUp
  <2>2. Then(R(g, n), SplitFour) = R(g1, l)
    BY <1>8, <1>9, RFacts DEF Then
  <2>3. Then(R(g1, l), PassRedUp) = R(g2, l)
    BY <1>9, <2>1, RFacts DEF Then
  <2>4. QED
    BY <1>8, <2>2, <2>3 DEF FixUp
<1>14. /\ IsHeap(g2) /\ SameData(g1, g2) /\ Only(g1, g2, {l, k, n})
       /\ \A m \in {l, k, n} : g2[m].left = g1[m].left /\ g2[m].right = g1[m].right
                               /\ g2[m].red = ~g1[m].red
  BY <1>12 DEF Flipped
<1>15. Span(g2, k, A, c + 1)
  <2>1. g1[k].red /\ ~g2[k].red
    BY <1>10, <1>14 DEF Red
  <2>2. \A m \in A : m # k => g2[m] = g1[m]
    <3>1. A \subseteq DOMAIN g1
      BY <1>6 DEF Joined
    <3>2. QED
      BY <1>3, <1>4, <1>14, <3>1 DEF Only
  <2>3. Span(g1, k, A, c) /\ g2[k].left = g1[k].left /\ g2[k].right = g1[k].right
    BY <1>6, <1>7, <1>14
  <2>4. QED
    BY <1>2, <1>7, <1>14, <2>1, <2>2, <2>3, BlackSpan, ZenonT(30)
<1>16. Span(g2, n, B \cup {n} \cup C, c + 1)
  <2>1. /\ Joined(g1, n, B, C) /\ Span(g1, g1[n].left, B, c) /\ Span(g1, g1[n].right, C, c)
    BY <1>6 DEF Halves
  <2>2. B \cap {l, k, n} = {} /\ C \cap {l, k, n} = {}
    BY <1>2, <1>3, <1>4
  <2>3. Joined(g2, n, B, C) /\ Span(g2, g1[n].left, B, c) /\ Span(g2, g1[n].right, C, c)
    <3> DEFINE X == {l, k, n}
    <3>1. Only(g1, g2, X) /\ B \cap X = {} /\ C \cap X = {}
      BY <1>14, <2>2
    <3> HIDE DEF X
    <3>2. Joined(g2, n, B, C)
      BY <1>14, <2>1, JoinedKept
    <3>3. Span(g2, g1[n].left, B, c) /\ Span(g2, g1[n].right, C, c)
      BY <1>7, <2>1, <3>1, SpanUntouched
    <3>4. QED
      BY <3>2, <3>3
  <2>4. Halves(g2, n, B, C, c)
    BY <1>14, <2>3 DEF Halves
  <2>5. Under(g2, n, c + 1) = c /\ ~g2[n].red
    <3>1. ~g2[n].red
      BY <1>7, <1>14
    <3>2. QED
      BY <3>1 DEF Under
  <2>6. g2[n].right = g[n].right /\ (g[n].right = Null \/ g[n].right \in C)
    BY <1>7, <1>14, SpanInHeap
  <2>7. ~Red(g1, g[n].right)
    <3>1. C \subseteq DOMAIN g
      BY SpanInHeap
    <3>2. QED
      BY <1>3, <1>7, <1>9, <2>6, <3>1, RedKept DEF Red, Only
  <2>8. ~Red(g2, g2[n].right)
    <3>1. C \subseteq DOMAIN g1
      BY <2>1 DEF Joined
    <3>2. QED
      BY <1>14, <2>2, <2>6, <2>7, <3>1, ZenonT(30) DEF Red, Only
  <2>9. LeansLeft(g2, n, c + 1)
    BY <2>5, <2>8 DEF LeansLeft
  <2>10. QED
    BY <1>14, <2>4, <2>5, <2>9, JoinSpans, SMTT(30)
<1>17. Span(g2, l, S, c + 1)
  <2>1. Joined(g2, l, A, B \cup {n} \cup C)
    BY <1>6, <1>14, JoinedKept
  <2>2. g2[l].left = k /\ g2[l].right = n /\ g2[l].red /\ ~g2[n].red /\ ~g2[k].red
    BY <1>7, <1>10, <1>14 DEF Red
  <2>3. Halves(g2, l, A, B \cup {n} \cup C, c + 1)
    BY <1>15, <1>16, <2>1, <2>2 DEF Halves
  <2>4. Under(g2, l, c + 1) = c + 1 /\ LeansLeft(g2, l, c + 1)
    BY <2>2 DEF Under, LeansLeft, Red
  <2>5. S = A \cup {l} \cup (B \cup {n} \cup C)
    OBVIOUS
  <2>6. QED
    BY <1>14, <2>3, <2>4, <2>5, JoinSpans, SMTT(30)
<1>18. QED
  BY <1>13, <1>17, RFacts

(* A red child on the right.                                               *)
RedRight(g, n, u, A, B, C, c) ==
  /\ u = g[n].right /\ c >= 0 /\ Joined(g, n, A, B \cup {u} \cup C)
  /\ Span(g, g[n].left, A, c) /\ Halves(g, u, B, C, c)
  /\ Red(g, u) /\ ~Red(g, g[u].left) /\ ~Red(g, g[u].right)

(* The first step turns it up.                                             *)
LEMMA RedRightTurns ==
  ASSUME NEW g, IsHeap(g), NEW n, NEW u, NEW A, NEW B, NEW C, NEW c \in Int,
         RedRight(g, n, u, A, B, C, c)
  PROVE  /\ \E g1 :
              /\ LeanLeft(g, n) = R(g1, u) /\ TurnedLeft(g, g1, n, u)
              /\ Halves(g1, n, A, B, c) /\ Joined(g1, u, A \cup {n} \cup B, C)
              /\ Span(g1, g1[u].right, C, c)
              /\ Red(g1, g[n].left) = Red(g, g[n].left)
              /\ ~Red(g1, g1[u].right)
         /\ n \in DOMAIN g /\ u \in DOMAIN g /\ n # u /\ ~(n < 0) /\ ~(u < 0)
         /\ n # Null /\ u # Null
<1>1. /\ u = g[n].right /\ Joined(g, n, A, B \cup {u} \cup C)
      /\ Span(g, g[n].left, A, c) /\ Halves(g, u, B, C, c)
      /\ Red(g, u) /\ ~Red(g, g[u].right)
  BY DEF RedRight
<1>2. n \in DOMAIN g /\ u \in DOMAIN g
  BY <1>1 DEF Joined, Halves
<1>3. n \notin A /\ n \notin B \cup {u} \cup C /\ A \cap (B \cup {u} \cup C) = {}
  BY <1>1, JoinedApart
<1>4. n # u /\ n # Null /\ u # Null /\ ~(n < 0) /\ ~(u < 0) /\ g[u].red
  BY <1>1, <1>2, <1>3, HeapFacts, LinkFacts DEF Red
<1>5. PICK g1 : RotateLeft(g, n) = R(g1, u) /\ TurnedLeft(g, g1, n, u)
  BY <1>1, <1>2, <1>4, RotateLeftTurns
<1>6. /\ Halves(g1, n, A, B, c) /\ Joined(g1, u, A \cup {n} \cup B, C)
      /\ Span(g1, g1[u].right, C, c)
  BY <1>1, <1>4, <1>5, TurnLeftHalves
<1>7. LeanLeft(g, n) = R(g1, u)
  BY <1>1, <1>5 DEF LeanLeft
<1>8. Only(g, g1, {n, u}) /\ g1[u].right = g[u].right
  BY <1>5 DEF TurnedLeft
<1>9. Red(g1, g[n].left) = Red(g, g[n].left)
  <2>1. g[n].left = Null \/ (g[n].left \in A /\ g[n].left \in DOMAIN g)
    BY <1>1, SpanInHeap
  <2>2. g[n].left \notin {n, u}
    BY <1>3, <1>4, <2>1
  <2>3. QED
    BY <1>8, <2>1, <2>2, RedKept
<1>10. ~Red(g1, g1[u].right)
  <2>1. Span(g, g[u].right, C, c) /\ Joined(g, u, B, C)
    BY <1>1 DEF Halves
  <2>2. g[u].right = Null \/ (g[u].right \in C /\ g[u].right \in DOMAIN g)
    BY <2>1, SpanInHeap
  <2>3. u \notin C
    BY <2>1, JoinedApart
  <2>4. g[u].right \notin {n, u}
    BY <1>3, <1>4, <2>2, <2>3
  <2>5. QED
    BY <1>1, <1>8, <2>2, <2>4, RedKept
<1>11. QED
  BY <1>2, <1>4, <1>5, <1>6, <1>7, <1>9, <1>10

LEMMA FixUpOfRedRight ==
  ASSUME NEW g, IsHeap(g), NEW n, NEW u, NEW A, NEW B, NEW C, NEW c \in Int,
         RedRight(g, n, u, A, B, C, c), ~Red(g, g[n].left)
  PROVE  LET r == FixUp(g, n) IN
         /\ r.n = u /\ r.h[u].red = g[n].red
         /\ Halves(r.h, u, A \cup {n} \cup B, C, c) /\ ~Red(r.h, r.h[u].right)
<1>1. PICK g1 : /\ LeanLeft(g, n) = R(g1, u) /\ TurnedLeft(g, g1, n, u)
                /\ Halves(g1, n, A, B, c) /\ Joined(g1, u, A \cup {n} \cup B, C)
                /\ Span(g1, g1[u].right, C, c)
                /\ Red(g1, g[n].left) = Red(g, g[n].left)
                /\ ~Red(g1, g1[u].right)
  BY RedRightTurns
<1>2. /\ n \in DOMAIN g /\ u \in DOMAIN g /\ n # u /\ ~(n < 0) /\ ~(u < 0)
      /\ n # Null /\ u # Null
  BY RedRightTurns
<1>3. /\ IsHeap(g1) /\ DOMAIN g1 = DOMAIN g
      /\ g1[n].left = g[n].left /\ g1[n].right = g[u].left /\ g1[n].red
      /\ g1[u].left = n /\ g1[u].red = g[n].red
  BY <1>1 DEF TurnedLeft, SameData
<1>4. SplitFour(g1, u) = R(g1, u) /\ PassRedUp(g1, u) = R(g1, u)
  BY <1>1, <1>3 DEF SplitFour, PassRedUp
<1>5. FixUp(g, n) = R(g1, u)
  <2>1. Then(R(g1, u), SplitFour) = R(g1, u) /\ Then(R(g1, u), PassRedUp) = R(g1, u)
    BY <1>2, <1>4, RFacts DEF Then
  <2>2. QED
    BY <1>1, <2>1 DEF FixUp
<1>6. Span(g1, n, A \cup {n} \cup B, c)
  <2>1. Under(g1, n, c) = c
    BY <1>3 DEF Under
  <2>2. ~Red(g1, g1[n].right)
    <3>1. g1[n].right = g[u].left /\ ~Red(g, g[u].left)
      BY <1>3 DEF RedRight
    <3>2. Span(g, g[u].left, B, c) /\ Joined(g, u, B, C) /\ Joined(g, n, A, B \cup {u} \cup C)
      BY DEF RedRight, Halves
    <3>3. g[u].left = Null \/ (g[u].left \in B /\ g[u].left \in DOMAIN g)
      BY <3>2, SpanInHeap
    <3>4. u \notin B /\ n \notin B \cup {u} \cup C
      BY <3>2, JoinedApart
    <3>5. g[u].left \notin {n, u}
      BY <1>2, <3>3, <3>4
    <3>6. Only(g, g1, {n, u})
      BY <1>1 DEF TurnedLeft
    <3>7. QED
      BY <3>1, <3>3, <3>5, <3>6, RedKept
  <2>3. ~Red(g1, g1[n].left)
    BY <1>1, <1>3
  <2>4. LeansLeft(g1, n, c)
    BY <1>3, <2>2, <2>3 DEF LeansLeft
  <2>5. QED
    BY <1>1, <1>3, <2>1, <2>4, JoinSpans
<1>7. Halves(g1, u, A \cup {n} \cup B, C, c)
  BY <1>1, <1>3, <1>6 DEF Halves
<1>8. QED
  BY <1>1, <1>3, <1>5, <1>7, RFacts

LEMMA FixUpOfTwoRedChildren ==
  ASSUME NEW g, IsHeap(g), NEW n, NEW u, NEW A, NEW B, NEW C, NEW c \in Int,
         RedRight(g, n, u, A, B, C, c), Red(g, g[n].left)
  PROVE  LET r == FixUp(g, n) IN
         /\ r.n = n /\ r.h[n].red = ~g[n].red
         /\ Halves(r.h, n, A, B \cup {u} \cup C, c + 1)
         /\ ~Red(r.h, r.h[n].left) /\ ~Red(r.h, r.h[n].right)
<1> DEFINE l == g[n].left
           U == B \cup {u} \cup C
<1>1. PICK g1 : /\ LeanLeft(g, n) = R(g1, u) /\ TurnedLeft(g, g1, n, u)
                /\ Halves(g1, n, A, B, c) /\ Joined(g1, u, A \cup {n} \cup B, C)
                /\ Span(g1, g1[u].right, C, c)
                /\ Red(g1, g[n].left) = Red(g, g[n].left)
                /\ ~Red(g1, g1[u].right)
  BY RedRightTurns
<1>2. /\ n \in DOMAIN g /\ u \in DOMAIN g /\ n # u /\ ~(n < 0) /\ ~(u < 0)
      /\ n # Null /\ u # Null
  BY RedRightTurns
<1>3. /\ IsHeap(g1) /\ DOMAIN g1 = DOMAIN g
      /\ g1[n].left = l /\ g1[n].right = g[u].left /\ g1[n].red
      /\ g1[u].left = n /\ g1[u].right = g[u].right /\ g1[u].red = g[n].red
  BY <1>1 DEF TurnedLeft, SameData
<1>4. /\ c >= 0 /\ Joined(g, n, A, U) /\ Span(g, l, A, c) /\ Halves(g, u, B, C, c)
      /\ Joined(g, u, B, C)
  BY DEF RedRight, Halves
<1>5. n \notin A /\ n \notin U /\ A \cap U = {} /\ u \notin B /\ u \notin C
  BY <1>4, JoinedApart
<1>6. l \in A /\ l \in DOMAIN g /\ l # Null /\ l # n /\ l # u
  BY <1>4, <1>5, SpanInHeap DEF Red
<1> HIDE DEF l
<1>7. PICK g2 : RotateRight(g1, u) = R(g2, n) /\ TurnedRight(g1, g2, u, n)
  BY <1>2, <1>3, RotateRightTurns
<1>8. /\ Halves(g2, u, B, C, c) /\ Joined(g2, n, A, U) /\ Span(g2, g2[n].left, A, c)
  BY <1>1, <1>2, <1>3, <1>7, TurnRightHalves
<1>9. /\ IsHeap(g2) /\ DOMAIN g2 = DOMAIN g /\ SameData(g1, g2) /\ Only(g1, g2, {u, n})
      /\ g2[n].left = l /\ g2[n].right = u /\ g2[n].red = g[n].red
      /\ g2[u].red /\ g2[u].right = g[u].right
  BY <1>3, <1>7 DEF TurnedRight, SameData
<1>10. Red(g2, l) /\ Red(g2, u)
  BY <1>1, <1>2, <1>3, <1>6, <1>9, RedKept DEF Red, l
<1>11. PICK g3 : ColorFlip(g2, n) = R(g3, n) /\ Flipped(g2, g3, n, l, u)
  BY <1>2, <1>6, <1>9, ColorFlipFlips
<1>12. FixUp(g, n) = R(g3, n)
  <2>1. SplitFour(g1, u) = R(g2, n)
    BY <1>1, <1>3, <1>2, <1>7 DEF SplitFour, Red, l
  <2>2. PassRedUp(g2, n) = R(g3, n)
    BY <1>9, <1>10, <1>11 DEF PassRedUp
  <2>3. Then(R(g1, u), SplitFour) = R(g2, n)
    BY <1>2, <2>1, RFacts DEF Then
  <2>4. Then(R(g2, n), PassRedUp) = R(g3, n)
    BY <1>2, <2>2, RFacts DEF Then
  <2>5. QED
    BY <1>1, <2>3, <2>4 DEF FixUp
<1>13. /\ IsHeap(g3) /\ SameData(g2, g3) /\ Only(g2, g3, {n, l, u})
       /\ \A m \in {n, l, u} : g3[m].left = g2[m].left /\ g3[m].right = g2[m].right
                               /\ g3[m].red = ~g2[m].red
  BY <1>11 DEF Flipped
<1>14. Span(g3, l, A, c + 1)
  <2>1. g2[l].red /\ ~g3[l].red
    BY <1>10, <1>13 DEF Red
  <2>2. \A m \in A : m # l => g3[m] = g2[m]
    <3>1. A \subseteq DOMAIN g2
      BY <1>8 DEF Joined
    <3>2. u \notin A
      BY <1>5
    <3>3. QED
      BY <1>5, <1>13, <3>1, <3>2 DEF Only
  <2>3. Span(g2, l, A, c) /\ g3[l].left = g2[l].left /\ g3[l].right = g2[l].right
    BY <1>8, <1>9, <1>13
  <2>4. QED
    BY <1>4, <1>6, <1>9, <1>13, <2>1, <2>2, <2>3, BlackSpan
<1>15. Span(g3, u, U, c + 1)
  <2>1. Joined(g2, u, B, C) /\ Span(g2, g2[u].left, B, c) /\ Span(g2, g2[u].right, C, c)
    BY <1>8 DEF Halves
  <2> DEFINE X == {n, l, u}
  <2>2. Only(g2, g3, X) /\ B \cap X = {} /\ C \cap X = {}
    BY <1>5, <1>6, <1>13
  <2> HIDE DEF X
  <2>3. Joined(g3, u, B, C)
    BY <1>13, <2>1, JoinedKept
  <2>4. Span(g3, g2[u].left, B, c) /\ Span(g3, g2[u].right, C, c)
    BY <1>9, <2>1, <2>2, SpanUntouched
  <2>5. Halves(g3, u, B, C, c)
    BY <1>13, <2>3, <2>4 DEF Halves
  <2>6. ~g3[u].red
    BY <1>9, <1>13
  <2>7. ~Red(g3, g3[u].right)
    <3>1. g2[u].right = Null \/ (g2[u].right \in C /\ g2[u].right \in DOMAIN g2)
      BY <1>9, <2>1, SpanInHeap
    <3>2. g2[u].right \notin X
      BY <1>2, <1>6, <1>9, <2>2, <3>1 DEF X
    <3>3. Red(g3, g2[u].right) = Red(g2, g2[u].right)
      BY <2>2, <3>1, <3>2, RedKept
    <3>4. g2[u].right \notin {u, n}
      BY <3>2 DEF X
    <3>5. Red(g2, g2[u].right) = Red(g1, g2[u].right)
      BY <1>3, <1>9, <3>1, <3>4, RedKept
    <3>6. QED
      BY <1>1, <1>3, <1>9, <1>13, <3>3, <3>5
  <2>8. Under(g3, u, c + 1) = c /\ LeansLeft(g3, u, c + 1)
    BY <1>4, <2>6, <2>7 DEF Under, LeansLeft
  <2>9. QED
    BY <1>13, <2>5, <2>8, JoinSpans
<1>16. Joined(g3, n, A, U)
  BY <1>8, <1>13, JoinedKept
<1>17. Halves(g3, n, A, U, c + 1)
  BY <1>9, <1>13, <1>14, <1>15, <1>16 DEF Halves
<1>18. ~Red(g3, g3[n].left) /\ ~Red(g3, g3[n].right) /\ g3[n].red = ~g[n].red
  BY <1>9, <1>10, <1>13 DEF Red
<1>19. QED
  BY <1>12, <1>17, <1>18, RFacts

(* A red root that may have a red left child, above balanced halves.       *)
Raised(h, n, S, c) ==
  /\ n \in DOMAIN h /\ h[n].red /\ ~Red(h, h[n].right)
  /\ \E A, B : Halves(h, n, A, B, c) /\ S = A \cup {n} \cup B

LEMMA RedHasBlackChildren ==
  ASSUME NEW h, IsHeap(h), NEW n, NEW S, NEW c \in Int, c >= 0, Span(h, n, S, c), Red(h, n)
  PROVE  ~Red(h, h[n].left) /\ ~Red(h, h[n].right) /\ Raised(h, n, S, c)
<1>1. n # Null /\ h[n].red
  BY DEF Red
<1>2. n \in DOMAIN h
  BY <1>1, SpanInHeap
<1>3. PICK A, B : /\ Halves(h, n, A, B, Under(h, n, c))
                  /\ S = A \cup {n} \cup B /\ LeansLeft(h, n, c)
  BY <1>1, HalvesOf
<1>4. Under(h, n, c) = c
  BY <1>1, <1>2, UnderFacts
<1>5. ~Red(h, h[n].left) /\ ~Red(h, h[n].right)
  BY <1>1, <1>3 DEF LeansLeft
<1>6. QED
  BY <1>1, <1>2, <1>3, <1>4, <1>5 DEF Raised

(* Halves under a black root, or under a red one.                          *)
LEMMA JoinUnderBlack ==
  ASSUME NEW h, IsHeap(h), NEW n, NEW A, NEW B, NEW c \in Int, c >= 0,
         Halves(h, n, A, B, c), ~Red(h, n), ~Red(h, h[n].right)
  PROVE  Span(h, n, A \cup {n} \cup B, c + 1)
<1>1. n \in DOMAIN h
  BY DEF Halves, Joined
<1>2. ~h[n].red
  BY <1>1, HeapFacts, LinkFacts DEF Red
<1>3. Under(h, n, c + 1) = c
  BY <1>2 DEF Under
<1>4. LeansLeft(h, n, c + 1)
  BY <1>2 DEF LeansLeft
<1>5. QED
  BY <1>3, <1>4, JoinSpans

LEMMA JoinUnderRed ==
  ASSUME NEW h, IsHeap(h), NEW n, NEW A, NEW B, NEW c \in Int, c >= 0,
         Halves(h, n, A, B, c), Red(h, n), ~Red(h, h[n].left), ~Red(h, h[n].right)
  PROVE  Span(h, n, A \cup {n} \cup B, c)
<1>1. Under(h, n, c) = c /\ LeansLeft(h, n, c)
  BY DEF Red, Under, LeansLeft
<1>2. QED
  BY <1>1, JoinSpans

(* nodeFixUp after a change on the left.                                   *)
LEMMA NothingToFix ==
  ASSUME NEW g, IsHeap(g), NEW n \in DOMAIN g, NEW A, NEW c \in Int, c >= 0,
         ~Red(g, g[n].right), Span(g, g[n].left, A, c)
  PROVE  FixUp(g, n) = R(g, n)
<1>1. ~(Red(g, g[n].left) /\ Red(g, g[g[n].left].left))
  BY RedHasBlackChildren
<1>2. QED
  BY <1>1, FixUpOfLean

LEMMA LeftFixed ==
  ASSUME NEW g, IsHeap(g), NEW n, NEW A, NEW B, NEW c \in Int, c >= 0,
         Joined(g, n, A, B), Span(g, g[n].right, B, c), ~Red(g, g[n].right),
         Span(g, g[n].left, A, c) \/ (~Red(g, n) /\ Raised(g, g[n].left, A, c))
  PROVE  LET r == FixUp(g, n) IN
         /\ ~Red(g, n) => Span(r.h, r.n, A \cup {n} \cup B, c + 1)
         /\ Red(g, n) => Raised(r.h, r.n, A \cup {n} \cup B, c)
         /\ ~Red(g, g[n].left) => r = R(g, n)
<1> DEFINE l == g[n].left
           r == FixUp(g, n)
           S == A \cup {n} \cup B
<1>1. n \in DOMAIN g
  BY DEF Joined
<1>2. CASE Span(g, l, A, c)
  <2>2. r = R(g, n)
    BY <1>1, <1>2, NothingToFix
  <2>3. r.h = g /\ r.n = n
    BY <2>2, RFacts
  <2>4. Halves(g, n, A, B, c)
    BY <1>2 DEF Halves
  <2>5. ~Red(g, n) => Span(g, n, S, c + 1)
    BY <2>4, JoinUnderBlack
  <2>6. Red(g, n) => Raised(g, n, S, c)
    BY <1>1, <2>4 DEF Raised, Red
  <2> HIDE DEF r
  <2>7. QED
    BY <2>2, <2>3, <2>5, <2>6 DEF r
<1>3. CASE ~Red(g, n) /\ Raised(g, l, A, c)
  <2>1. PICK P, Q : Halves(g, l, P, Q, c) /\ A = P \cup {l} \cup Q
    BY <1>3 DEF Raised
  <2>2. l \in DOMAIN g /\ g[l].red /\ ~Red(g, g[l].right)
    BY <1>3 DEF Raised
  <2>3. Red(g, l)
    BY <2>2, HeapFacts, LinkFacts DEF Red
  <2>4. CASE Red(g, g[l].left)
    <3>1. r.n = l /\ Span(r.h, r.n, P \cup {l} \cup Q \cup {n} \cup B, c + 1)
      <4>1. Joined(g, n, P \cup {l} \cup Q, B) /\ l = g[n].left
        BY <2>1
      <4> HIDE DEF l
      <4>2. QED
        BY <1>3, <2>1, <2>3, <2>4, <4>1, FixUpOfTwoReds
    <3>2. P \cup {l} \cup Q \cup {n} \cup B = S
      BY <2>1
    <3>3. QED
      BY <1>3, <2>3, <3>1, <3>2
  <2>5. CASE ~Red(g, g[l].left)
    <3>1. Span(g, l, A, c)
      BY <2>1, <2>2, <2>3, <2>5, JoinUnderRed
    <3>2. QED
      BY <1>2, <3>1
  <2>6. QED
    BY <2>4, <2>5
<1>4. QED
  BY <1>2, <1>3

(* nodeFixUp after a change on the right.                                  *)
LEMMA RightFixed ==
  ASSUME NEW g, IsHeap(g), NEW n, NEW A, NEW B, NEW c \in Int, c >= 0,
         Joined(g, n, A, B), Span(g, g[n].right, B, c), Span(g, g[n].left, A, c)
  PROVE  LET r == FixUp(g, n) IN
         /\ ~Red(g, n) => Span(r.h, r.n, A \cup {n} \cup B, c + 1)
         /\ Red(g, n) /\ ~Red(g, g[n].left) => Raised(r.h, r.n, A \cup {n} \cup B, c)
         /\ Red(g, n) /\ Red(g, g[n].left) /\ Red(g, g[n].right) =>
              Span(r.h, r.n, A \cup {n} \cup B, c + 2)
<1> DEFINE u == g[n].right
           r == FixUp(g, n)
           S == A \cup {n} \cup B
<1>1. n \in DOMAIN g
  BY DEF Joined
<1>2. CASE ~Red(g, u)
  BY <1>2, LeftFixed
<1>3. CASE Red(g, u)
  <2>1. /\ u # Null /\ g[u].red /\ ~Red(g, g[u].left) /\ ~Red(g, g[u].right)
        /\ Raised(g, u, B, c)
    BY <1>3, RedHasBlackChildren DEF Red
  <2>2. PICK P, Q : Halves(g, u, P, Q, c) /\ B = P \cup {u} \cup Q
    BY <2>1 DEF Raised
  <2>3. RedRight(g, n, u, A, P, Q, c)
    BY <1>3, <2>1, <2>2 DEF RedRight
  <2>4. n # Null
    BY <1>1, HeapFacts, LinkFacts
  <2> HIDE DEF u
  <2>5. CASE ~Red(g, g[n].left)
    <3>1. /\ r.n = u /\ r.h[u].red = g[n].red
          /\ Halves(r.h, u, A \cup {n} \cup P, Q, c) /\ ~Red(r.h, r.h[u].right)
      BY <2>3, <2>5, FixUpOfRedRight
    <3>2. IsHeap(r.h)
      <4>1. Span(g, g[n].left, A, NoDepth) /\ Span(g, g[n].right, B, NoDepth)
        BY SpanIsTree DEF Tree
      <4>2. Tree(g, n, S)
        BY <4>1, JoinTrees DEF Halves
      <4>3. QED
        BY <2>4, <4>2, FixUpReshapes DEF Reshaped
    <3>3. S = (A \cup {n} \cup P) \cup {u} \cup Q
      BY <2>2
    <3> HIDE DEF r, S
    <3>4. Red(r.h, u) = Red(g, n)
      BY <2>1, <2>4, <3>1 DEF Red
    <3>5. ~Red(g, n) => Span(r.h, u, S, c + 1)
      BY <3>1, <3>2, <3>3, <3>4, JoinUnderBlack
    <3>6. Red(g, n) => Raised(r.h, u, S, c)
      <4>1. u \in DOMAIN r.h
        BY <3>1 DEF Halves, Joined
      <4>2. QED
        BY <3>1, <3>3, <4>1 DEF Raised, Red
    <3>7. QED
      BY <2>5, <3>1, <3>5, <3>6 DEF r, S
  <2>6. CASE Red(g, g[n].left)
    <3>1. /\ r.n = n /\ r.h[n].red = ~g[n].red
          /\ Halves(r.h, n, A, B, c + 1)
          /\ ~Red(r.h, r.h[n].left) /\ ~Red(r.h, r.h[n].right)
      <4>1. LET q == FixUp(g, n) IN
              /\ q.n = n /\ q.h[n].red = ~g[n].red
              /\ Halves(q.h, n, A, P \cup {u} \cup Q, c + 1)
              /\ ~Red(q.h, q.h[n].left) /\ ~Red(q.h, q.h[n].right)
        BY <2>3, <2>6, FixUpOfTwoRedChildren
      <4>2. QED
        BY <2>2, <4>1
    <3>2. IsHeap(r.h)
      <4>1. Span(g, g[n].left, A, NoDepth) /\ Span(g, g[n].right, B, NoDepth)
        BY SpanIsTree DEF Tree
      <4>2. Tree(g, n, S)
        BY <4>1, JoinTrees DEF Halves
      <4>3. QED
        BY <2>4, <4>2, FixUpReshapes DEF Reshaped
    <3> HIDE DEF r
    <3>3. Red(r.h, n) = ~Red(g, n)
      BY <2>4, <3>1 DEF Red
    <3>4. ~Red(g, n) => Span(r.h, n, S, c + 1)
      <4>1. c + 1 >= 0 /\ c + 1 \in Int
        OBVIOUS
      <4>2. QED
        BY <3>1, <3>2, <3>3, <4>1, JoinUnderRed
    <3>5. Red(g, n) => Span(r.h, n, S, c + 2)
      <4>1. (c + 1) + 1 = c + 2 /\ c + 1 >= 0 /\ c + 1 \in Int
        OBVIOUS
      <4>2. ASSUME Red(g, n)
            PROVE  Span(r.h, n, S, (c + 1) + 1)
        BY <3>1, <3>2, <3>3, <4>1, <4>2, JoinUnderBlack
      <4>3. QED
        BY <4>1, <4>2
    <3>6. QED
      BY <2>6, <3>1, <3>4, <3>5 DEF r
  <2>7. QED
    BY <2>5, <2>6
<1>4. QED
  BY <1>2, <1>3

-----------------------------------------------------------------------------
(* nodeAdd.                                                                *)

KeysAreAddresses(h) == \A m \in DOMAIN h : h[m].key = m

(* r.h is h with the pair of k and v in the tree of S.                     *)
Holds(h, S, k, v, r) ==
  /\ IsHeap(r.h) /\ DOMAIN r.h = DOMAIN h \cup {k} /\ KeysAreAddresses(r.h)
  /\ r.h[k].value = v
  /\ \A m \in DOMAIN h : m # k => r.h[m].value = h[m].value
  /\ \A m \in DOMAIN h : m \notin S \cup {k} => r.h[m] = h[m]
  /\ Tree(r.h, r.n, S \cup {k})
  /\ r.hit = IF k \in S THEN h[k].value ELSE NoValue

(* A balanced tree below n stays balanced below r.n, but for a red child   *)
(* of a red root.                                                          *)
NearlyKept(h, n, S, T, r) ==
  \A b \in Nat : Span(h, n, S, b) =>
    IF Red(h, n) THEN Raised(r.h, r.n, T, b) ELSE Span(r.h, r.n, T, b)

(* The parts of a balanced tree.                                           *)
LEMMA NearlyKeptHalves ==
  ASSUME NEW h, IsHeap(h), NEW n, NEW A, NEW B, NEW b \in Nat, Joined(h, n, A, B),
         Span(h, n, A \cup {n} \cup B, b)
  PROVE  \E c \in Nat : /\ Span(h, h[n].left, A, c) /\ Span(h, h[n].right, B, c)
                        /\ ~Red(h, h[n].right) /\ (Red(h, n) => ~Red(h, h[n].left))
                        /\ Red(h, n) => b = c
                        /\ ~Red(h, n) => b = c + 1
<1>1. Halves(h, n, A, B, Under(h, n, b)) /\ LeansLeft(h, n, b)
  BY SpanHalves
<1>2. n \in DOMAIN h /\ n # Null
  BY HeapFacts, LinkFacts DEF Joined
<1>3. Red(h, n) = h[n].red /\ h[n].red \in BOOLEAN
  BY <1>2, HeapFacts DEF Red
<1>4. ~Red(h, h[n].right) /\ (Red(h, n) => ~Red(h, h[n].left)) /\ (Red(h, n) \/ b >= 1)
  BY <1>1, <1>3 DEF LeansLeft
<1>5. /\ Under(h, n, b) \in Int
      /\ Red(h, n) => b = Under(h, n, b)
      /\ ~Red(h, n) => b = Under(h, n, b) + 1
  BY <1>2, <1>3, UnderFacts
<1>6. Under(h, n, b) \in Nat
  BY <1>4, <1>5
<1>7. QED
  BY <1>1, <1>4, <1>5, <1>6 DEF Halves

(* What an addition to the right leaves as it is.                          *)
LEMMA BesideRight ==
  ASSUME NEW h, IsHeap(h), KeysAreAddresses(h), NEW n, NEW A, NEW B, Joined(h, n, A, B),
         NEW k \in Keys, k > h[n].key, NEW v, NEW p, Holds(h, B, k, v, p)
  PROVE  /\ p.h[n] = h[n] /\ \A a \in A : p.h[a] = h[a]
         /\ Joined(p.h, n, A, B \cup {k})
         /\ \A m, b : b \in Int /\ Span(h, m, A, b) => Span(p.h, m, A, b)
<1>1. n \notin B /\ A \cap B = {} /\ n \in DOMAIN h /\ A \subseteq DOMAIN h /\ B \subseteq DOMAIN h
  <2>1. n \in DOMAIN h /\ A \subseteq DOMAIN h /\ B \subseteq DOMAIN h
    BY DEF Joined
  <2>2. QED
    BY <2>1, JoinedApart
<1>2. \A m \in DOMAIN h : h[m].key = m /\ m \in Int
  BY HeapFacts DEF KeysAreAddresses
<1>3. n # k /\ k \in Int /\ \A a \in A : a < k
  BY <1>1, <1>2 DEF Joined, Keys
<1>4. p.h[n] = h[n] /\ \A a \in A : p.h[a] = h[a]
  BY <1>1, <1>3 DEF Holds
<1>5. Joined(p.h, n, A, B \cup {k})
  BY <1>1, <1>2, <1>3 DEF Joined, Holds, KeysAreAddresses
<1>6. ASSUME NEW m, NEW b \in Int, Span(h, m, A, b)
      PROVE  Span(p.h, m, A, b)
  <2>1. Alike(h, p.h, A, b)
    BY <1>4, <1>5 DEF Alike, Joined
  <2>2. QED
    BY <1>6, <2>1, SpanKept
<1>7. QED
  BY <1>4, <1>5, <1>6

LEMMA BesideLeft ==
  ASSUME NEW h, IsHeap(h), KeysAreAddresses(h), NEW n, NEW A, NEW B, Joined(h, n, A, B),
         NEW k \in Keys, k < h[n].key, NEW v, NEW p, Holds(h, A, k, v, p)
  PROVE  /\ p.h[n] = h[n] /\ \A c \in B : p.h[c] = h[c]
         /\ Joined(p.h, n, A \cup {k}, B)
         /\ \A m, b : b \in Int /\ Span(h, m, B, b) => Span(p.h, m, B, b)
<1>1. n \notin A /\ A \cap B = {} /\ n \in DOMAIN h /\ A \subseteq DOMAIN h /\ B \subseteq DOMAIN h
  <2>1. n \in DOMAIN h /\ A \subseteq DOMAIN h /\ B \subseteq DOMAIN h
    BY DEF Joined
  <2>2. QED
    BY <2>1, JoinedApart
<1>2. \A m \in DOMAIN h : h[m].key = m /\ m \in Int
  BY HeapFacts DEF KeysAreAddresses
<1>3. n # k /\ k \in Int /\ \A c \in B : c > k
  BY <1>1, <1>2 DEF Joined, Keys
<1>4. p.h[n] = h[n] /\ \A c \in B : p.h[c] = h[c]
  BY <1>1, <1>3 DEF Holds
<1>5. Joined(p.h, n, A \cup {k}, B)
  BY <1>1, <1>2, <1>3 DEF Joined, Holds, KeysAreAddresses
<1>6. ASSUME NEW m, NEW b \in Int, Span(h, m, B, b)
      PROVE  Span(p.h, m, B, b)
  <2>1. Alike(h, p.h, B, b)
    BY <1>4, <1>5 DEF Alike, Joined
  <2>2. QED
    BY <1>6, <2>1, SpanKept
<1>7. QED
  BY <1>4, <1>5, <1>6

(* The call below was given its part of the tree; so is this one.          *)
LEMMA HoldsFixed ==
  ASSUME NEW h, IsHeap(h), NEW k, NEW v, NEW p, NEW S, NEW T, S \subseteq T,
         Holds(h, S, k, v, p), NEW g, NEW n, NEW q, k \in T => k \in S,
         Fixed(p.h, g, n, T \cup {k}, q, p.hit)
  PROVE  Holds(h, T, k, v, q)
<1>1. q.hit = p.hit
  BY DEF Fixed
<1>2. /\ IsHeap(q.h) /\ DOMAIN q.h = DOMAIN p.h /\ Tree(q.h, q.n, T \cup {k})
      /\ \A m \in DOMAIN p.h : /\ q.h[m].key = p.h[m].key /\ q.h[m].value = p.h[m].value
                               /\ m \notin T \cup {k} => q.h[m] = p.h[m]
  BY DEF Fixed, SameData, Only
<1>3. QED
  BY <1>1, <1>2 DEF Holds, KeysAreAddresses

LEMMA RaisedUntouched ==
  ASSUME NEW h, IsHeap(h), NEW g, NEW X, Only(h, g, X), SameData(h, g), NEW n, NEW S,
         NEW c \in Int, Raised(h, n, S, c), S \cap X = {}
  PROVE  Raised(g, n, S, c)
<1>1. /\ n \in DOMAIN h /\ h[n].red /\ ~Red(h, h[n].right) /\ DOMAIN g = DOMAIN h
      /\ \A m \in DOMAIN h : m \notin X => g[m] = h[m]
  BY DEF Raised, Only
<1>2. PICK A, B : Halves(h, n, A, B, c) /\ S = A \cup {n} \cup B
  BY DEF Raised
<1>3. Joined(h, n, A, B) /\ Span(h, h[n].left, A, c) /\ Span(h, h[n].right, B, c)
  BY <1>2 DEF Halves
<1>4. A \cap X = {} /\ B \cap X = {} /\ n \notin X
  BY <1>2
<1>5. g[n] = h[n]
  BY <1>1, <1>4
<1>6. Joined(g, n, A, B)
  BY <1>3, JoinedKept
<1>7. Span(g, g[n].left, A, c) /\ Span(g, g[n].right, B, c)
  BY <1>3, <1>4, <1>5, SpanUntouched
<1>8. h[n].right = Null \/ h[n].right \in B
  BY <1>3, SpanInHeap
<1>9. Red(g, g[n].right) = Red(h, h[n].right)
  BY <1>1, <1>3, <1>4, <1>5, <1>8 DEF Red, Joined
<1>10. QED
  BY <1>1, <1>2, <1>5, <1>6, <1>7, <1>9 DEF Raised, Halves

(* nodeAdd in the half on the right, and in the half on the left.          *)
LEMMA AddRight ==
  ASSUME NEW h, IsHeap(h), KeysAreAddresses(h), NEW n, NEW A, NEW B, Halves(h, n, A, B, NoDepth),
         NEW k \in Keys, k > h[n].key, NEW v, NEW p, Holds(h, B, k, v, p),
         NearlyKept(h, h[n].right, B, B \cup {k}, p), k \in A \cup {n} \cup B => k \in B
  PROVE  LET T == A \cup {n} \cup B
         IN  /\ Holds(h, T, k, v, FixRight(n, p))
             /\ NearlyKept(h, n, T, T \cup {k}, FixRight(n, p))
<1> DEFINE T == A \cup {n} \cup B
           D == B \cup {k}
           q == FixRight(n, p)
<1>1. Joined(h, n, A, B)
  BY DEF Halves
<1>2. /\ p.h[n] = h[n] /\ \A a \in A : p.h[a] = h[a]
      /\ Joined(p.h, n, A, D)
      /\ \A m, b : b \in Int /\ Span(h, m, A, b) => Span(p.h, m, A, b)
  BY <1>1, BesideRight
<1>3. IsHeap(p.h) /\ Span(p.h, p.n, D, NoDepth)
  BY DEF Holds, Tree
<1>4. T \cup {k} = A \cup {n} \cup D
  OBVIOUS
<1> HIDE DEF D
<1>5. Holds(h, T, k, v, q)
  <2>1. Span(p.h, p.h[n].left, A, NoDepth)
    BY <1>2, NoDepthFacts DEF Halves
  <2>2. PICK g : Fixed(p.h, g, n, A \cup {n} \cup D, q, p.hit)
    BY <1>2, <1>3, <2>1, NoDepthFacts, FixRightIs
  <2>3. Fixed(p.h, g, n, T \cup {k}, q, p.hit)
    BY <1>4, <2>2
  <2>4. B \subseteq T
    OBVIOUS
  <2> HIDE DEF T, q
  <2>5. k \in T => k \in B
    BY DEF T
  <2>6. QED
    BY <2>3, <2>4, <2>5, HoldsFixed
<1>6. ASSUME NEW b \in Nat, Span(h, n, T, b)
      PROVE  IF Red(h, n) THEN Raised(q.h, q.n, T \cup {k}, b) ELSE Span(q.h, q.n, T \cup {k}, b)
  <2>1. PICK c \in Nat : /\ Span(h, h[n].left, A, c)
                         /\ ~Red(h, h[n].right) /\ (Red(h, n) => ~Red(h, h[n].left))
                         /\ Red(h, n) => b = c
                         /\ ~Red(h, n) => b = c + 1
    BY <1>1, <1>6, NearlyKeptHalves
  <2>2. /\ c \in Int /\ c >= 0
        /\ h[n].right # Null \/ h[n].right = Null
    OBVIOUS
  <2>3. Span(h, h[n].right, B, c)
    BY <1>1, <1>6, <2>1, NearlyKeptHalves
  <2>4. Span(p.h, p.n, D, c)
    BY <2>1, <2>3 DEF NearlyKept, D
  <2>5. Span(p.h, p.h[n].left, A, c)
    BY <1>2, <2>1, <2>2
  <2>6. PICK g : /\ HungRight(p.h, g, n, p.n)
                 /\ Joined(g, n, A, D) /\ Span(g, g[n].left, A, c) /\ Span(g, p.n, D, c)
                 /\ Fixed(p.h, g, n, A \cup {n} \cup D, q, p.hit)
    BY <1>2, <1>3, <2>2, <2>4, <2>5, FixRightIs
  <2>7. IsHeap(g) /\ g[n].right = p.n /\ g[n].left = h[n].left /\ g[n].red = h[n].red
    BY <1>2, <2>6 DEF HungRight
  <2>8. Red(g, n) = Red(h, n)
    BY <2>7 DEF Red
  <2>9. Red(g, g[n].left) = Red(h, h[n].left)
    <3>1. h[n].left = Null \/ h[n].left \in A
      BY <2>1, <2>2, SpanInHeap
    <3>2. n \notin A /\ A \subseteq DOMAIN p.h
      <4>1. A \subseteq DOMAIN p.h
        BY <1>2 DEF Joined
      <4>2. QED
        BY <1>2, <1>3, <4>1, JoinedApart
    <3>3. \A a \in A : g[a] = h[a]
      BY <1>2, <2>6, <3>2 DEF HungRight, Only
    <3>4. QED
      BY <2>7, <3>1, <3>3 DEF Red
  <2>10. q.h = FixUp(g, n).h /\ q.n = FixUp(g, n).n
    BY <2>6 DEF Fixed
  <2>11. /\ ~Red(g, n) => Span(q.h, q.n, A \cup {n} \cup D, c + 1)
         /\ Red(g, n) /\ ~Red(g, g[n].left) => Raised(q.h, q.n, A \cup {n} \cup D, c)
    <3>1. Span(g, g[n].right, D, c)
      BY <2>6, <2>7
    <3> HIDE DEF q
    <3>2. QED
      BY <2>2, <2>6, <2>7, <2>10, <3>1, RightFixed
  <2> HIDE DEF q, T
  <2>12. QED
    BY <1>4, <2>1, <2>8, <2>9, <2>11
<1>7. QED
  BY <1>5, <1>6 DEF NearlyKept

LEMMA AddLeft ==
  ASSUME NEW h, IsHeap(h), KeysAreAddresses(h), NEW n, NEW A, NEW B, Halves(h, n, A, B, NoDepth),
         NEW k \in Keys, k < h[n].key, NEW v, NEW p, Holds(h, A, k, v, p),
         NearlyKept(h, h[n].left, A, A \cup {k}, p), k \in A \cup {n} \cup B => k \in A
  PROVE  LET T == A \cup {n} \cup B
         IN  /\ Holds(h, T, k, v, FixLeft(n, p))
             /\ NearlyKept(h, n, T, T \cup {k}, FixLeft(n, p))
<1> DEFINE T == A \cup {n} \cup B
           D == A \cup {k}
           q == FixLeft(n, p)
<1>1. Joined(h, n, A, B)
  BY DEF Halves
<1>2. /\ p.h[n] = h[n] /\ \A c \in B : p.h[c] = h[c]
      /\ Joined(p.h, n, D, B)
      /\ \A m, b : b \in Int /\ Span(h, m, B, b) => Span(p.h, m, B, b)
  BY <1>1, BesideLeft
<1>3. IsHeap(p.h) /\ Span(p.h, p.n, D, NoDepth)
  BY DEF Holds, Tree
<1>4. T \cup {k} = D \cup {n} \cup B
  OBVIOUS
<1> HIDE DEF D
<1>5. Holds(h, T, k, v, q)
  <2>1. Span(p.h, p.h[n].right, B, NoDepth)
    BY <1>2, NoDepthFacts DEF Halves
  <2>2. PICK g : Fixed(p.h, g, n, D \cup {n} \cup B, q, p.hit)
    BY <1>2, <1>3, <2>1, NoDepthFacts, FixLeftIs
  <2>3. Fixed(p.h, g, n, T \cup {k}, q, p.hit)
    BY <1>4, <2>2
  <2>4. A \subseteq T
    OBVIOUS
  <2> HIDE DEF T, q
  <2>5. k \in T => k \in A
    BY DEF T
  <2>6. QED
    BY <2>3, <2>4, <2>5, HoldsFixed
<1>6. ASSUME NEW b \in Nat, Span(h, n, T, b)
      PROVE  IF Red(h, n) THEN Raised(q.h, q.n, T \cup {k}, b) ELSE Span(q.h, q.n, T \cup {k}, b)
  <2>1. PICK c \in Nat : /\ Span(h, h[n].left, A, c) /\ Span(h, h[n].right, B, c)
                         /\ ~Red(h, h[n].right) /\ (Red(h, n) => ~Red(h, h[n].left))
                         /\ Red(h, n) => b = c
                         /\ ~Red(h, n) => b = c + 1
    BY <1>1, <1>6, NearlyKeptHalves
  <2>2. c \in Int /\ c >= 0
    OBVIOUS
  <2>4. /\ Red(h, h[n].left) => Raised(p.h, p.n, D, c)
        /\ ~Red(h, h[n].left) => Span(p.h, p.n, D, c)
    BY <2>1 DEF NearlyKept, D
  <2>5. Span(p.h, p.h[n].right, B, c)
    BY <1>2, <2>1, <2>2
  <2>6. PICK g : /\ HungLeft(p.h, g, n, p.n)
                 /\ Joined(g, n, D, B) /\ Span(g, g[n].right, B, c)
                 /\ Fixed(p.h, g, n, D \cup {n} \cup B, q, p.hit)
    BY <1>2, <1>3, <2>2, <2>5, NoDepthFacts, FixLeftIs
  <2>7. IsHeap(g) /\ g[n].left = p.n /\ g[n].right = h[n].right /\ g[n].red = h[n].red
    BY <1>2, <2>6 DEF HungLeft
  <2>8. Red(g, n) = Red(h, n)
    BY <2>7 DEF Red
  <2>9. ~Red(g, g[n].right)
    <3>1. h[n].right = Null \/ h[n].right \in B
      BY <2>1, <2>2, SpanInHeap
    <3>2. n \notin B /\ B \subseteq DOMAIN p.h
      <4>1. B \subseteq DOMAIN p.h
        BY <1>2 DEF Joined
      <4>2. QED
        BY <1>2, <1>3, <4>1, JoinedApart
    <3>3. \A c1 \in B : g[c1] = h[c1]
      BY <1>2, <2>6, <3>2 DEF HungLeft, Only
    <3>4. QED
      BY <2>1, <2>7, <3>1, <3>3 DEF Red
  <2>10. q.h = FixUp(g, n).h /\ q.n = FixUp(g, n).n
    BY <2>6 DEF Fixed
  <2> DEFINE X == {n}
  <2>11. D \cap X = {} /\ Only(p.h, g, X) /\ SameData(p.h, g)
    <3>1. n \notin D
      BY <1>2, <1>3, JoinedApart
    <3>2. QED
      BY <2>6, <3>1 DEF HungLeft
  <2> HIDE DEF X
  <2>12. ~Red(h, h[n].left) => Span(g, g[n].left, D, c)
    BY <1>3, <2>2, <2>4, <2>7, <2>11, SpanUntouched
  <2>13. Red(h, h[n].left) => Raised(g, g[n].left, D, c)
    BY <1>3, <2>2, <2>4, <2>7, <2>11, RaisedUntouched
  <2>14. /\ ~Red(g, n) => Span(q.h, q.n, D \cup {n} \cup B, c + 1)
         /\ Red(g, n) => Raised(q.h, q.n, D \cup {n} \cup B, c)
    <3>1. Span(g, g[n].left, D, c) \/ (~Red(g, n) /\ Raised(g, g[n].left, D, c))
      BY <2>1, <2>8, <2>12, <2>13
    <3> HIDE DEF q
    <3>2. QED
      BY <2>2, <2>6, <2>7, <2>9, <2>10, <3>1, LeftFixed
  <2> HIDE DEF q, T
  <2>15. QED
    BY <1>4, <2>1, <2>8, <2>14
<1>7. QED
  BY <1>5, <1>6 DEF NearlyKept

(* nodeAdd in an empty tree.                                               *)
LEMMA AddLeaf ==
  ASSUME NEW h, IsHeap(h), KeysAreAddresses(h), NEW k \in Keys, k \notin DOMAIN h, NEW v \in Values
  PROVE  LET r == R(Added(h, k, v), k)
         IN  Holds(h, {}, k, v, r) /\ NearlyKept(h, Null, {}, {} \cup {k}, r)
<1> DEFINE g == Added(h, k, v)
           r == R(g, k)
<1>1. /\ DOMAIN g = DOMAIN h \cup {k} /\ g[k] = Leaf(k, v)
      /\ \A m \in DOMAIN h : g[m] = h[m]
      /\ g = [m \in DOMAIN h \cup {k} |-> g[m]]
  BY DEF Added
<1>2. Leaf(k, v) \in Mnodes
  BY LinkFacts DEF Leaf, Mnodes
<1>3. /\ g[k].left = Null /\ g[k].right = Null /\ g[k].key = k /\ g[k].value = v /\ g[k].red
  BY <1>1 DEF Leaf
<1> HIDE DEF g
<1>4. IsHeap(g)
  <2>1. DOMAIN h \subseteq Nodes /\ \A m \in DOMAIN h : h[m] \in Mnodes
    BY DEF IsHeap
  <2>2. \A m \in DOMAIN h \cup {k} : g[m] \in Mnodes
    BY <1>1, <1>2, <2>1
  <2>3. QED
    BY <1>1, <2>1, <2>2 DEF IsHeap, Nodes
<1>5. r.h = g /\ r.n = k /\ r.hit = NoValue
  BY RFacts
<1>6. ASSUME NEW b \in Int, b <= 0
      PROVE  Span(g, k, {k}, b)
  <2>1. Under(g, k, b) = b /\ LeansLeft(g, k, b)
    BY <1>3 DEF Under, LeansLeft, Red
  <2>2. Span(g, Null, {}, b)
    BY <1>6, NothingSpans
  <2>3. Joined(g, k, {}, {})
    BY <1>1 DEF Joined
  <2>4. Halves(g, k, {}, {}, Under(g, k, b))
    BY <1>3, <2>1, <2>2, <2>3 DEF Halves
  <2>5. Span(g, k, {} \cup {k} \cup {}, b)
    BY <1>4, <2>1, <2>4, JoinSpans
  <2>6. QED
    BY <2>5
<1> HIDE DEF r
<1>7. Holds(h, {}, k, v, r)
  <2>1. Tree(g, k, {k})
    BY <1>6, NoDepthFacts DEF Tree
  <2>2. k \notin {} /\ {} \cup {k} = {k}
    OBVIOUS
  <2>3. KeysAreAddresses(g)
    BY <1>1, <1>3 DEF KeysAreAddresses
  <2>4. QED
    BY <1>1, <1>3, <1>4, <1>5, <2>1, <2>2, <2>3 DEF Holds
<1>8. ASSUME NEW b \in Nat, Span(h, Null, {}, b)
      PROVE  ~Red(h, Null) /\ Span(r.h, r.n, {} \cup {k}, b)
  <2>1. b <= 0
    BY <1>8, SpanOfNull
  <2>2. {} \cup {k} = {k}
    OBVIOUS
  <2>3. QED
    BY <1>5, <1>6, <2>1, <2>2 DEF Red
<1>9. QED
  BY <1>7, <1>8 DEF NearlyKept, r, g

(* nodeAdd of a key that is there.                                         *)
LEMMA AddHere ==
  ASSUME NEW h, IsHeap(h), KeysAreAddresses(h), NEW n, NEW A, NEW B, Halves(h, n, A, B, NoDepth),
         NEW k, k = h[n].key, NEW v \in Values
  PROVE  LET T == A \cup {n} \cup B
             q == [FixUp([h EXCEPT ![n].value = v], n) EXCEPT !.hit = h[n].value]
         IN  Holds(h, T, k, v, q) /\ NearlyKept(h, n, T, T \cup {k}, q)
<1> DEFINE T == A \cup {n} \cup B
           g == [h EXCEPT ![n].value = v]
           hit == h[n].value
           q == [FixUp(g, n) EXCEPT !.hit = hit]
<1>1. Joined(h, n, A, B) /\ n \in DOMAIN h /\ A \subseteq DOMAIN h /\ B \subseteq DOMAIN h
  BY DEF Halves, Joined
<1>2. k = n /\ T \cup {k} = T
  BY <1>1 DEF KeysAreAddresses
<1>3. g = [h EXCEPT ![n] = [h[n] EXCEPT !.value = v]] /\ [h[n] EXCEPT !.value = v] \in Mnodes
  BY <1>1, HeapFacts DEF Mnodes
<1>4. /\ IsHeap(g) /\ DOMAIN g = DOMAIN h
      /\ \A m \in DOMAIN h : m # n => g[m] = h[m]
      /\ g[n] = [h[n] EXCEPT !.value = v]
  BY <1>1, <1>3, HeapWith
<1>5. /\ g[n].left = h[n].left /\ g[n].right = h[n].right /\ g[n].key = h[n].key
      /\ g[n].value = v /\ g[n].red = h[n].red
  BY <1>1, <1>4, HeapFacts DEF Mnodes
<1> HIDE DEF g
<1>6. \A m, S, b : b \in Int /\ S \subseteq DOMAIN h /\ Span(h, m, S, b) => Span(g, m, S, b)
  <2>1. ASSUME NEW m, NEW S, NEW b \in Int, S \subseteq DOMAIN h, Span(h, m, S, b)
        PROVE  Span(g, m, S, b)
    <3>1. Alike(h, g, S, b)
      BY <1>4, <1>5, <2>1 DEF Alike
    <3>2. QED
      BY <2>1, <3>1, SpanKept
  <2>2. QED
    BY <2>1
<1>7. Joined(g, n, A, B)
  <2>1. \A m \in DOMAIN h : g[m].key = h[m].key
    BY <1>4, <1>5
  <2>2. QED
    BY <1>1, <1>4, <2>1 DEF Joined
<1>8. SameData(g, g) /\ Only(g, g, {n})
  BY DEF SameData, Only
<1>9. Halves(g, n, A, B, NoDepth)
  BY <1>1, <1>5, <1>6, <1>7, NoDepthFacts DEF Halves
<1>10. Fixed(g, g, n, T, q, hit)
  BY <1>4, <1>8, <1>9, FixUpOf
<1> HIDE DEF hit, q
<1>11. q.hit = hit /\ q.h = FixUp(g, n).h /\ q.n = FixUp(g, n).n
  BY <1>10 DEF Fixed
<1>12. /\ IsHeap(q.h) /\ DOMAIN q.h = DOMAIN g /\ Tree(q.h, q.n, T)
       /\ \A m \in DOMAIN g : /\ q.h[m].key = g[m].key /\ q.h[m].value = g[m].value
                              /\ m \notin T => q.h[m] = g[m]
  BY <1>10 DEF Fixed, SameData, Only
<1>13. Holds(h, T, k, v, q)
  <2>1. \A m \in DOMAIN h : g[m].key = m /\ (m # k => g[m].value = h[m].value)
    BY <1>2, <1>4, <1>5 DEF KeysAreAddresses
  <2>2. DOMAIN h \cup {k} = DOMAIN h /\ k \in T /\ n \in T
    BY <1>1, <1>2
  <2> HIDE DEF T
  <2>3. KeysAreAddresses(q.h) /\ \A m \in DOMAIN h : m # k => q.h[m].value = h[m].value
    BY <1>4, <1>12, <2>1 DEF KeysAreAddresses
  <2>4. q.h[k].value = v
    BY <1>1, <1>2, <1>4, <1>5, <1>12
  <2>5. \A m \in DOMAIN h : m \notin T => q.h[m] = h[m]
    BY <1>4, <1>12, <2>2
  <2>6. q.hit = h[k].value
    BY <1>2, <1>11 DEF hit
  <2>7. QED
    BY <1>2, <1>4, <1>12, <2>2, <2>3, <2>4, <2>5, <2>6 DEF Holds
<1>14. ASSUME NEW b \in Nat, Span(h, n, T, b)
       PROVE  IF Red(h, n) THEN Raised(q.h, q.n, T \cup {k}, b) ELSE Span(q.h, q.n, T \cup {k}, b)
  <2>1. PICK c \in Nat : /\ Span(h, h[n].left, A, c) /\ Span(h, h[n].right, B, c)
                         /\ ~Red(h, h[n].right) /\ (Red(h, n) => ~Red(h, h[n].left))
                         /\ Red(h, n) => b = c
                         /\ ~Red(h, n) => b = c + 1
    BY <1>1, <1>14, NearlyKeptHalves
  <2>2. c \in Int /\ c >= 0
    OBVIOUS
  <2>3. Span(g, g[n].left, A, c) /\ Span(g, g[n].right, B, c)
    BY <1>1, <1>5, <1>6, <2>1, <2>2
  <2>4. Red(g, n) = Red(h, n)
    BY <1>5 DEF Red
  <2>5. ~Red(g, g[n].right)
    <3>1. h[n].right = Null \/ h[n].right \in B
      BY <2>1, <2>2, SpanInHeap
    <3>2. \A m \in B : g[m].red = h[m].red
      BY <1>1, <1>4, <1>5
    <3>3. QED
      BY <1>5, <2>1, <3>1, <3>2 DEF Red
  <2>6. /\ ~Red(g, n) => Span(q.h, q.n, T, c + 1)
        /\ Red(g, n) => Raised(q.h, q.n, T, c)
    BY <1>4, <1>7, <1>11, <2>2, <2>3, <2>5, LeftFixed
  <2> HIDE DEF T
  <2>7. QED
    BY <1>2, <2>1, <2>4, <2>6
<1>15. QED
  BY <1>13, <1>14 DEF NearlyKept, q, g, hit

(* nodeAdd puts the pair in the tree, and aborts nowhere.                  *)
LEMMA NodeAddHolds ==
  ASSUME NEW h, IsHeap(h), KeysAreAddresses(h), NEW n, NEW S, Tree(h, n, S),
         NEW k \in Keys, k \in DOMAIN h => k \in S, NEW v \in Values
  PROVE  LET r == NodeAdd(h, n, k, v)
         IN  Holds(h, S, k, v, r) /\ NearlyKept(h, n, S, S \cup {k}, r)
<1>1. PICK f : /\ \A d \in 1..Deepest : \A m \in Links :
                    f[d][m] = Adding(f[d - 1], h, m, k, v)
               /\ \A m : NodeAdd(h, m, k, v) = f[Deepest][m]
  BY AddSteps
<1> DEFINE Good(x, X, r) == Holds(h, X, k, v, r) /\ NearlyKept(h, x, X, X \cup {k}, r)
           M == {d \in 0..Deepest : \A x \in Links, X \in SUBSET Nodes :
                   /\ Tree(h, x, X) /\ Cardinality(X) < d
                   /\ k \in DOMAIN h => k \in X
                   => Good(x, X, f[d][x])}
<1>2. 0 \in M
  BY SizeOfTree, DeepestFacts
<1>3. ASSUME NEW d \in 1..Deepest, d - 1 \in M
      PROVE  d \in M
  <2>1. ASSUME NEW x \in Links, NEW X \in SUBSET Nodes, Tree(h, x, X), Cardinality(X) < d,
               k \in DOMAIN h => k \in X
        PROVE  Good(x, X, f[d][x])
    <3>1. f[d][x] = Adding(f[d - 1], h, x, k, v)
      BY <1>1
    <3>2. CASE x = Null
      <4>1. X = {}
        BY <2>1, <3>2, SpanInHeap, NoDepthFacts DEF Tree
      <4>2. f[d][x] = R(Added(h, k, v), k)
        BY <3>1, <3>2 DEF Adding
      <4>3. k \notin DOMAIN h
        BY <2>1, <4>1
      <4>4. QED
        BY <3>2, <4>1, <4>2, <4>3, AddLeaf
    <3>3. CASE x # Null
      <4>1. PICK A, B : /\ Halves(h, x, A, B, NoDepth)
                        /\ X = A \cup {x} \cup B /\ Joined(h, x, A, B) /\ x \in DOMAIN h
                        /\ A \in SUBSET Nodes /\ B \in SUBSET Nodes
                        /\ h[x].left \in Links /\ h[x].right \in Links
                        /\ Tree(h, h[x].left, A) /\ Tree(h, h[x].right, B)
                        /\ Cardinality(A) < d - 1 /\ Cardinality(B) < d - 1
        BY <2>1, <3>3, TreeDescent
      <4>2. \A m \in A \cup {x} \cup B : h[m].key = m /\ m \in Int
        BY <4>1, HeapFacts DEF KeysAreAddresses, Joined
      <4>3. k \in Int /\ h[x].key = x /\ h[x].key \in Int
        BY <4>2 DEF Keys
      <4> DEFINE l == f[d - 1][h[x].left]
                 r == f[d - 1][h[x].right]
      <4>4. CASE k > h[x].key
        <5>1. k \in X => k \in B
          BY <4>1, <4>2, <4>3, <4>4 DEF Joined
        <5>2. Good(h[x].right, B, r)
          BY <1>3, <2>1, <4>1, <5>1
        <5>3. f[d][x] = FixRight(x, r)
          BY <3>1, <3>3, <4>3, <4>4 DEF Adding
        <5> HIDE DEF r
        <5>4. Holds(h, B, k, v, r) /\ NearlyKept(h, h[x].right, B, B \cup {k}, r)
          BY <5>2
        <5>5. k \in A \cup {x} \cup B => k \in B
          BY <4>1, <5>1
        <5> HIDE DEF M, Good
        <5>6. /\ Holds(h, A \cup {x} \cup B, k, v, FixRight(x, r))
              /\ NearlyKept(h, x, A \cup {x} \cup B, (A \cup {x} \cup B) \cup {k}, FixRight(x, r))
          BY <4>1, <4>4, <5>4, <5>5, AddRight
        <5>7. QED
          BY <4>1, <5>3, <5>6 DEF Good
      <4>5. CASE k < h[x].key
        <5>1. k \in X => k \in A
          BY <4>1, <4>2, <4>3, <4>5 DEF Joined
        <5>2. Good(h[x].left, A, l)
          BY <1>3, <2>1, <4>1, <5>1
        <5>3. f[d][x] = FixLeft(x, l)
          BY <3>1, <3>3, <4>3, <4>5 DEF Adding
        <5> HIDE DEF l
        <5>4. Holds(h, A, k, v, l) /\ NearlyKept(h, h[x].left, A, A \cup {k}, l)
          BY <5>2
        <5>5. k \in A \cup {x} \cup B => k \in A
          BY <4>1, <5>1
        <5> HIDE DEF M, Good
        <5>6. /\ Holds(h, A \cup {x} \cup B, k, v, FixLeft(x, l))
              /\ NearlyKept(h, x, A \cup {x} \cup B, (A \cup {x} \cup B) \cup {k}, FixLeft(x, l))
          BY <4>1, <4>5, <5>4, <5>5, AddLeft
        <5>7. QED
          BY <4>1, <5>3, <5>6 DEF Good
      <4>6. CASE k = h[x].key
        <5> DEFINE q == [FixUp([h EXCEPT ![x].value = v], x) EXCEPT !.hit = h[x].value]
        <5>1. f[d][x] = q
          BY <3>1, <3>3, <4>3, <4>6 DEF Adding
        <5> HIDE DEF M, Good
        <5>2. /\ Holds(h, A \cup {x} \cup B, k, v, q)
              /\ NearlyKept(h, x, A \cup {x} \cup B, (A \cup {x} \cup B) \cup {k}, q)
          BY <4>1, <4>6, AddHere
        <5> HIDE DEF q
        <5>3. QED
          BY <4>1, <5>1, <5>2 DEF Good
      <4>7. QED
        BY <4>3, <4>4, <4>5, <4>6
    <3>4. QED
      BY <3>2, <3>3
  <2>2. d \in 0..Deepest
    BY DeepestFacts
  <2>3. QED
    BY <2>1, <2>2
<1>4. \A d \in 0..Deepest : d \in M
  <2> HIDE DEF M
  <2>1. QED
    BY <1>2, <1>3, DeepestFacts, Induction
<1>5. Deepest \in M
  <2> HIDE DEF M
  <2>1. QED
    BY <1>4, DeepestFacts
<1>6. n \in Links /\ S \in SUBSET Nodes /\ Cardinality(S) < Deepest
  BY TreeFits
<1>7. QED
  BY <1>1, <1>5, <1>6

-----------------------------------------------------------------------------
(* moveRedLeft and moveRedRight.                                           *)

(* g is h reshaped among the nodes of S.                                   *)
Changes(h, g, S) == IsHeap(g) /\ SameData(h, g) /\ Only(h, g, S)

LEMMA ChangesAgain ==
  ASSUME NEW h, NEW g, NEW e, NEW S, NEW T, Changes(h, g, S), Changes(g, e, T), T \subseteq S
  PROVE  Changes(h, e, S)
BY DEF Changes, SameData, Only

(* A black node that is not at the bottom.                                 *)
LEMMA BlackHalves ==
  ASSUME NEW h, IsHeap(h), NEW n, NEW S, NEW c \in Nat, Span(h, n, S, c + 1), ~Red(h, n)
  PROVE  /\ n \in DOMAIN h /\ n # Null
         /\ \E A, B : Halves(h, n, A, B, c) /\ S = A \cup {n} \cup B
         /\ ~Red(h, h[n].right)
<1>1. c + 1 \in Int /\ ~(c + 1 <= 0)
  OBVIOUS
<1>2. n # Null /\ n \in DOMAIN h
  BY <1>1, SpanInHeap
<1>3. ~h[n].red
  BY <1>2 DEF Red
<1>4. PICK A, B : /\ Halves(h, n, A, B, Under(h, n, c + 1))
                  /\ S = A \cup {n} \cup B /\ LeansLeft(h, n, c + 1)
  BY <1>1, <1>2, HalvesOf
<1>5. Under(h, n, c + 1) = c
  BY <1>3 DEF Under
<1>6. ~Red(h, h[n].right)
  BY <1>1, <1>4 DEF LeansLeft
<1>7. QED
  BY <1>2, <1>4, <1>5, <1>6

(* The flip that both begin with.                                          *)
Flip(h, n, g, l, r, P, Q, C, D, c) ==
  /\ ColorFlip(h, n) = R(g, n)
  /\ Changes(h, g, P \cup {l} \cup Q \cup {n} \cup C \cup {r} \cup D)
  /\ Quarters(g, n, l, r, P, Q, C, D, c)
  /\ g[n].red = ~h[n].red /\ Red(g, l) /\ Red(g, r)
  /\ ~Red(g, g[l].right) /\ ~Red(g, g[r].right)
  /\ g[l].left = h[l].left /\ Red(g, g[l].left) = Red(h, h[l].left)
  /\ g[r].left = h[r].left /\ Red(g, g[r].left) = Red(h, h[r].left)

LEMMA FlipsFirst ==
  ASSUME NEW h, IsHeap(h), NEW n, NEW A, NEW B, NEW c \in Nat, Joined(h, n, A, B),
         Span(h, h[n].left, A, c + 1), Span(h, h[n].right, B, c + 1),
         ~Red(h, h[n].left), ~Red(h, h[n].right)
  PROVE  \E g, P, Q, C, D :
           /\ A = P \cup {h[n].left} \cup Q /\ B = C \cup {h[n].right} \cup D
           /\ Flip(h, n, g, h[n].left, h[n].right, P, Q, C, D, c)
<1> DEFINE l == h[n].left
           r == h[n].right
<1> HIDE DEF l, r
<1>1. /\ l \in DOMAIN h /\ l # Null /\ ~Red(h, h[l].right)
      /\ \E P, Q : Halves(h, l, P, Q, c) /\ A = P \cup {l} \cup Q
  BY BlackHalves DEF l
<1>2. /\ r \in DOMAIN h /\ r # Null /\ ~Red(h, h[r].right)
      /\ \E C, D : Halves(h, r, C, D, c) /\ B = C \cup {r} \cup D
  BY BlackHalves DEF r
<1>3. PICK P, Q : Halves(h, l, P, Q, c) /\ A = P \cup {l} \cup Q
  BY <1>1
<1>4. PICK C, D : Halves(h, r, C, D, c) /\ B = C \cup {r} \cup D
  BY <1>2
<1>5. Joined(h, n, P \cup {l} \cup Q, C \cup {r} \cup D)
  BY <1>3, <1>4
<1>6. n \in DOMAIN h
  BY DEF Joined
<1>7. n \notin A /\ n \notin B /\ A \cap B = {}
  BY JoinedApart
<1>8. l # n /\ r # n /\ l # r
  BY <1>3, <1>4, <1>7
<1>9. PICK g : ColorFlip(h, n) = R(g, n) /\ Flipped(h, g, n, l, r)
  BY <1>1, <1>2, <1>6, <1>8, ColorFlipFlips DEF l, r
<1>10. Quarters(g, n, l, r, P, Q, C, D, c)
  <2>1. Quarters(h, n, l, r, P, Q, C, D, c)
    BY <1>3, <1>4, <1>5 DEF Quarters, l, r
  <2>2. c \in Int
    OBVIOUS
  <2>3. QED
    BY <1>9, <2>1, <2>2, FlipHalves
<1>11. /\ IsHeap(g) /\ SameData(h, g) /\ Only(h, g, {n, l, r})
       /\ g[n].left = l /\ g[n].right = r /\ g[n].red = ~h[n].red
       /\ g[l].left = h[l].left /\ g[l].right = h[l].right /\ g[l].red = ~h[l].red
       /\ g[r].left = h[r].left /\ g[r].right = h[r].right /\ g[r].red = ~h[r].red
  BY <1>9 DEF Flipped, l, r
<1>12. Changes(h, g, P \cup {l} \cup Q \cup {n} \cup C \cup {r} \cup D)
  BY <1>11 DEF Changes, Only
<1>13. ~h[l].red /\ ~h[r].red
  BY <1>1, <1>2 DEF Red, l, r
<1>14. Red(g, l) /\ Red(g, r)
  BY <1>1, <1>2, <1>11, <1>13 DEF Red
<1>15. \A m : m = Null \/ m \in P \/ m \in Q \/ m \in C \/ m \in D => Red(g, m) = Red(h, m)
  <2>1. P \subseteq DOMAIN h /\ Q \subseteq DOMAIN h /\ C \subseteq DOMAIN h /\ D \subseteq DOMAIN h
    BY <1>3, <1>4 DEF Halves, Joined
  <2>2. l \notin P /\ l \notin Q /\ r \notin C /\ r \notin D
    BY <1>3, <1>4, JoinedApart DEF Halves
  <2>3. \A m \in P \cup Q \cup C \cup D : m \notin {n, l, r}
    BY <1>3, <1>4, <1>7, <2>2
  <2>4. QED
    BY <1>11, <2>1, <2>3 DEF Only, Red
<1>16. /\ h[l].left = Null \/ h[l].left \in P
       /\ h[l].right = Null \/ h[l].right \in Q
       /\ h[r].left = Null \/ h[r].left \in C
       /\ h[r].right = Null \/ h[r].right \in D
  BY <1>3, <1>4, SpanInHeap DEF Halves
<1>17. /\ ~Red(g, g[l].right) /\ ~Red(g, g[r].right)
       /\ Red(g, g[l].left) = Red(h, h[l].left)
       /\ Red(g, g[r].left) = Red(h, h[r].left)
  BY <1>1, <1>2, <1>11, <1>15, <1>16
<1>18. Flip(h, n, g, l, r, P, Q, C, D, c)
  BY <1>9, <1>10, <1>11, <1>12, <1>14, <1>17 DEF Flip
<1>19. QED
  BY <1>3, <1>4, <1>18 DEF l, r

(* The parts of a tree with up on the right of n.                          *)
OnTheRight(h, n, up, A, B, C, c) ==
  /\ up = h[n].right /\ up # Null
  /\ Joined(h, n, A, B \cup {up} \cup C)
  /\ Span(h, h[n].left, A, c) /\ Halves(h, up, B, C, c)

LEMMA TurnLeftParts ==
  ASSUME NEW h, IsHeap(h), NEW n, NEW up, NEW g, TurnedLeft(h, g, n, up),
         NEW A, NEW B, NEW C, NEW c \in Int, OnTheRight(h, n, up, A, B, C, c)
  PROVE  /\ Halves(g, n, A, B, c)
         /\ Joined(g, up, A \cup {n} \cup B, C)
         /\ Span(g, g[up].right, C, c)
BY TurnLeftHalves DEF OnTheRight

LEMMA HalvesUntouched ==
  ASSUME NEW h, IsHeap(h), NEW g, NEW X, Changes(h, g, X), NEW n, NEW A, NEW B, NEW c \in Int,
         Halves(h, n, A, B, c), n \notin X, A \cap X = {}, B \cap X = {}
  PROVE  Halves(g, n, A, B, c) /\ g[n] = h[n]
<1>1. SameData(h, g) /\ Only(h, g, X)
  BY DEF Changes
<1>2. Joined(h, n, A, B) /\ Span(h, h[n].left, A, c) /\ Span(h, h[n].right, B, c)
  BY DEF Halves
<1>3. g[n] = h[n]
  BY <1>1, <1>2 DEF Only, Joined
<1>4. Joined(g, n, A, B)
  BY <1>1, <1>2, JoinedKept
<1>5. Span(g, h[n].left, A, c) /\ Span(g, h[n].right, B, c)
  BY <1>1, <1>2, SpanUntouched
<1>6. QED
  BY <1>3, <1>4, <1>5 DEF Halves

(* Where the keys of the quarters are.                                     *)
LEMMA QuartersApart ==
  ASSUME NEW h, IsHeap(h), NEW n, NEW l, NEW r, NEW A, NEW B, NEW C, NEW D, NEW c,
         Quarters(h, n, l, r, A, B, C, D, c)
  PROVE  /\ n \in DOMAIN h /\ l \in DOMAIN h /\ r \in DOMAIN h
         /\ n # Null /\ l # Null /\ r # Null /\ ~(n < 0) /\ ~(l < 0) /\ ~(r < 0)
         /\ n # l /\ n # r /\ l # r
         /\ A \cap {n, l, r} = {} /\ B \cap {n, l, r} = {}
         /\ C \cap {n, l, r} = {} /\ D \cap {n, l, r} = {}
<1>1. /\ n \in DOMAIN h /\ l \in DOMAIN h /\ r \in DOMAIN h /\ A \subseteq DOMAIN h
      /\ B \subseteq DOMAIN h /\ C \subseteq DOMAIN h /\ D \subseteq DOMAIN h
  BY DEF Quarters, Joined
<1>2. \A m \in DOMAIN h : h[m].key \in Int
  BY HeapFacts
<1>3. /\ \A a \in A : h[a].key < h[l].key
      /\ \A a \in B : h[a].key > h[l].key /\ h[a].key < h[n].key
      /\ \A a \in C : h[a].key > h[n].key /\ h[a].key < h[r].key
      /\ \A a \in D : h[a].key > h[r].key
      /\ h[l].key < h[n].key /\ h[n].key < h[r].key
  BY DEF Quarters, Joined, Halves
<1>4. /\ A \cap {n, l, r} = {} /\ B \cap {n, l, r} = {}
      /\ C \cap {n, l, r} = {} /\ D \cap {n, l, r} = {}
  BY <1>1, <1>2, <1>3
<1>5. n # l /\ n # r /\ l # r
  BY <1>1, <1>2, <1>3
<1>6. QED
  BY <1>1, <1>4, <1>5, HeapFacts, LinkFacts

(* The parts after a node is borrowed: x is the root, n and r are below it,*)
(* both black.                                                             *)
Borrowed(h, e, n, x, r, A, E, F, D, c, S) ==
  /\ Changes(h, e, S) /\ e[x].red = ~h[n].red
  /\ Quarters(e, x, n, r, A, E, F, D, c)
  /\ ~e[n].red /\ ~e[r].red

BorrowsFromRight(h, n, l, r, x, A, C, D, c) ==
  \E e, E, F :
    /\ Then(RotateLeft([RotateRight(h, r).h EXCEPT ![n].right = RotateRight(h, r).n], n),
            ColorFlip) = R(e, x)
    /\ ~(RotateRight(h, r).n < 0)
    /\ C = E \cup {x} \cup F
    /\ Borrowed(h, e, n, x, r, A, E, F, D, c, A \cup {n} \cup C \cup {r} \cup D)
    /\ e[n].left = l /\ Red(e, l) = Red(h, l)
    /\ ~Red(e, e[n].right) /\ ~Red(e, e[r].right)

(* A node borrowed from the right.                                         *)
LEMMA BorrowFromRight ==
  ASSUME NEW h, IsHeap(h), NEW n, NEW l, NEW r, NEW P, NEW Q, NEW C, NEW D, NEW c \in Nat,
         Quarters(h, n, l, r, P, Q, C, D, c), NEW A, A = P \cup {l} \cup Q,
         Span(h, l, A, c), Red(h, r), ~Red(h, h[r].right), NEW x, x = h[r].left, Red(h, x)
  PROVE  BorrowsFromRight(h, n, l, r, x, A, C, D, c)
<1>1. /\ n \in DOMAIN h /\ l \in DOMAIN h /\ r \in DOMAIN h
      /\ n # Null /\ l # Null /\ r # Null /\ ~(n < 0) /\ ~(r < 0)
      /\ n # l /\ n # r /\ l # r
      /\ P \cap {n, l, r} = {} /\ Q \cap {n, l, r} = {}
      /\ C \cap {n, l, r} = {} /\ D \cap {n, l, r} = {}
  BY QuartersApart
<1>2. /\ Joined(h, n, A, C \cup {r} \cup D) /\ Joined(h, r, C, D)
      /\ Span(h, x, C, c) /\ Span(h, h[r].right, D, c) /\ h[n].right = r /\ h[n].left = l
  BY DEF Quarters, Halves
<1>3. c \in Int /\ c >= 0 /\ h[r].red /\ h[x].red /\ x # Null
  BY DEF Red
<1>4. x \in C /\ x \in DOMAIN h
  BY <1>2, <1>3, SpanInHeap
<1>5. ~Red(h, h[x].left) /\ ~Red(h, h[x].right) /\ Raised(h, x, C, c)
  BY <1>2, <1>3, RedHasBlackChildren
<1>6. PICK E, F : Halves(h, x, E, F, c) /\ C = E \cup {x} \cup F
  BY <1>5 DEF Raised
<1> DEFINE X == {n, r, x}
<1>7. /\ x # n /\ x # r /\ x \notin A /\ x \notin D /\ x \notin E /\ x \notin F
      /\ A \cap X = {} /\ D \cap X = {} /\ E \cap X = {} /\ F \cap X = {}
      /\ X \subseteq A \cup {n} \cup C \cup {r} \cup D
  <2>1. A \cap (C \cup {r} \cup D) = {} /\ C \cap D = {} /\ x \notin E /\ x \notin F
    BY <1>2, <1>6, JoinedApart DEF Halves
  <2>2. QED
    BY <1>1, <1>4, <1>6, <2>1
<1>8. /\ h[x].left = Null \/ h[x].left \in E
      /\ h[x].right = Null \/ h[x].right \in F
      /\ h[r].right = Null \/ h[r].right \in D
      /\ l \in A
  BY <1>1, <1>2, <1>3, <1>6, SpanInHeap DEF Halves
<1>9. /\ A \subseteq DOMAIN h /\ E \subseteq DOMAIN h /\ F \subseteq DOMAIN h /\ D \subseteq DOMAIN h
  BY <1>2, <1>6 DEF Joined, Halves
<1>10. PICK g1 : RotateRight(h, r) = R(g1, x) /\ TurnedRight(h, g1, r, x)
  BY <1>1, <1>3, <1>4, <1>7, RotateRightTurns
<1>11. Changes(h, g1, X)
  BY <1>10 DEF TurnedRight, Changes, Only
<1>12. IsHeap(g1) /\ DOMAIN g1 = DOMAIN h
  BY <1>11 DEF Changes, SameData
<1>13. /\ Halves(g1, r, F, D, c)
       /\ Joined(g1, x, E, F \cup {r} \cup D)
       /\ Span(g1, g1[x].left, E, c)
  <2>1. Joined(h, r, E \cup {x} \cup F, D)
    BY <1>2, <1>6
  <2>2. Span(h, h[r].right, D, c) /\ Halves(h, x, E, F, c) /\ x # Null /\ x = h[r].left
    BY <1>2, <1>3, <1>6
  <2>3. QED
    BY <1>3, <1>10, <2>1, <2>2, TurnRightHalves
<1> DEFINE g2 == [g1 EXCEPT ![n].right = x]
<1>14. HungRight(g1, g2, n, x)
  <2>1. n \in DOMAIN g1 /\ x \in Links
    BY <1>1, <1>4, <1>12, HeapFacts, LinkFacts
  <2>2. QED
    BY <1>12, <2>1, HangRight
<1> HIDE DEF g2
<1>15. Changes(h, g2, X) /\ Changes(g1, g2, {n}) /\ IsHeap(g2) /\ DOMAIN g2 = DOMAIN h
  <2>1. Changes(g1, g2, {n}) /\ {n} \subseteq X
    BY <1>14 DEF HungRight, Changes
  <2> HIDE DEF X
  <2>2. Changes(h, g2, X)
    BY <1>11, <2>1, ChangesAgain
  <2>3. QED
    BY <2>1, <2>2 DEF Changes, SameData
<1>16. g2[n].left = l /\ g2[n].right = x /\ g2[n].red = h[n].red
  <2>1. g1[n] = h[n]
    BY <1>1, <1>7, <1>10 DEF TurnedRight, Only
  <2>2. QED
    BY <1>2, <1>14, <2>1 DEF HungRight
<1>17. g2[x] = g1[x] /\ g2[r] = g1[r]
  BY <1>1, <1>4, <1>7, <1>12, <1>14 DEF HungRight, Only
<1>18. /\ g2[x].left = h[x].left /\ g2[x].right = r /\ g2[x].red
       /\ g2[r].left = h[x].right /\ g2[r].right = h[r].right /\ g2[r].red
  BY <1>3, <1>10, <1>17 DEF TurnedRight
<1>19. /\ \A m \in A \cup E \cup F \cup D : g2[m] = h[m]
       /\ ~Red(g2, h[x].left) /\ ~Red(g2, h[x].right) /\ ~Red(g2, h[r].right)
  <2>1. \A m \in A \cup E \cup F \cup D : g2[m] = h[m]
    BY <1>7, <1>9, <1>15 DEF Changes, Only
  <2>2. QED
    BY <1>5, <1>8, <2>1 DEF Red
<1>20. Halves(g2, r, F, D, c)
  <2> DEFINE Y == {n}
  <2>1. r \notin Y /\ F \cap Y = {} /\ D \cap Y = {} /\ Changes(g1, g2, Y)
    BY <1>1, <1>7, <1>15
  <2> HIDE DEF Y
  <2>2. QED
    BY <1>3, <1>12, <1>13, <2>1, HalvesUntouched
<1> DEFINE G == F \cup {r} \cup D
<1>21. Span(g2, r, G, c)
  <2>1. Red(g2, r) /\ ~Red(g2, g2[r].left) /\ ~Red(g2, g2[r].right)
    BY <1>1, <1>18, <1>19 DEF Red
  <2>2. QED
    BY <1>3, <1>15, <1>20, <2>1, JoinUnderRed
<1>22. Halves(g2, x, E, G, c) /\ Joined(g2, x, E, G)
  <2>1. Joined(g2, x, E, G)
    <3>1. Joined(g1, x, E, G)
      BY <1>13
    <3> HIDE DEF G
    <3>2. QED
      BY <1>15, <3>1, JoinedKept DEF Changes
  <2>2. Span(g2, g2[x].left, E, c)
    <3>1. Span(h, h[x].left, E, c)
      BY <1>6 DEF Halves
    <3> HIDE DEF X
    <3>2. QED
      BY <1>3, <1>7, <1>15, <1>18, <3>1, SpanUntouched DEF Changes
  <2> HIDE DEF G
  <2>3. QED
    BY <1>18, <1>21, <2>1, <2>2 DEF Halves
<1>23. Joined(g2, n, A, E \cup {x} \cup G) /\ Span(g2, l, A, c)
  <2>1. E \cup {x} \cup G = C \cup {r} \cup D
    BY <1>6
  <2> HIDE DEF X, G
  <2>2. Joined(g2, n, A, C \cup {r} \cup D)
    BY <1>2, <1>15, JoinedKept DEF Changes
  <2>3. Span(g2, l, A, c)
    BY <1>3, <1>7, <1>15, SpanUntouched DEF Changes
  <2>4. QED
    BY <2>1, <2>2, <2>3
<1>24. PICK g3 : RotateLeft(g2, n) = R(g3, x) /\ TurnedLeft(g2, g3, n, x)
  <2>1. n \in DOMAIN g2 /\ x \in DOMAIN g2
    BY <1>1, <1>4, <1>15
  <2>2. QED
    BY <1>7, <1>15, <1>16, <1>18, <2>1, RotateLeftTurns
<1>25. /\ Halves(g3, n, A, E, c) /\ Joined(g3, x, A \cup {n} \cup E, G)
       /\ Span(g3, g3[x].right, G, c)
  <2> HIDE DEF G, X
  <2>1. /\ x = g2[n].right /\ x # Null /\ Span(g2, g2[n].left, A, c) /\ c \in Int
        /\ IsHeap(g2) /\ TurnedLeft(g2, g3, n, x)
    BY <1>3, <1>15, <1>16, <1>23, <1>24
  <2>2. OnTheRight(g2, n, x, A, E, G, c)
    BY <1>22, <1>23, <2>1 DEF OnTheRight
  <2>3. QED
    BY <2>1, <2>2, TurnLeftParts
<1>26. Changes(g2, g3, {n, x}) /\ IsHeap(g3) /\ DOMAIN g3 = DOMAIN h
  BY <1>15, <1>24 DEF TurnedLeft, Changes, SameData
<1>27. /\ g3[x].left = n /\ g3[x].right = r /\ g3[x].red = h[n].red
       /\ g3[n].left = l /\ g3[n].right = h[x].left /\ g3[n].red
  BY <1>16, <1>18, <1>24 DEF TurnedLeft
<1>28. Halves(g3, r, F, D, c) /\ g3[r] = g2[r]
  <2> DEFINE Y == {n, x}
  <2>1. r \notin Y /\ F \cap Y = {} /\ D \cap Y = {} /\ Changes(g2, g3, Y)
    BY <1>1, <1>7, <1>26
  <2> HIDE DEF Y
  <2>2. QED
    BY <1>3, <1>15, <1>20, <2>1, HalvesUntouched
<1>29. Quarters(g3, x, n, r, A, E, F, D, c)
  BY <1>25, <1>27, <1>28 DEF Quarters
<1>30. PICK e : ColorFlip(g3, x) = R(e, x) /\ Flipped(g3, e, x, n, r)
  <2>1. n \in DOMAIN g3 /\ x \in DOMAIN g3 /\ r \in DOMAIN g3
    BY <1>1, <1>4, <1>26
  <2>2. QED
    BY <1>1, <1>7, <1>26, <1>27, <2>1, ColorFlipFlips
<1>31. Quarters(e, x, n, r, A, E, F, D, c)
  BY <1>3, <1>26, <1>29, <1>30, FlipHalves
<1>32. /\ e[x].red = ~h[n].red /\ ~e[n].red /\ ~e[r].red
       /\ e[n].left = l /\ e[n].right = h[x].left /\ e[r].right = h[r].right
  BY <1>18, <1>27, <1>28, <1>30, ZenonT(30) DEF Flipped
<1>33. Changes(h, e, X)
  <2>1. Changes(g3, e, X) /\ Changes(g2, g3, X)
    BY <1>26, <1>30 DEF Flipped, Changes, Only
  <2> HIDE DEF X
  <2>2. QED
    BY <1>15, <2>1, ChangesAgain
<1>34. Red(e, l) = Red(h, l) /\ ~Red(e, e[n].right) /\ ~Red(e, e[r].right)
  <2>1. \A m \in A \cup E \cup F \cup D : e[m] = h[m]
    BY <1>7, <1>9, <1>33 DEF Changes, Only
  <2>2. QED
    BY <1>3, <1>5, <1>8, <1>32, <2>1 DEF Red
<1>35. Changes(h, e, A \cup {n} \cup C \cup {r} \cup D)
  BY <1>7, <1>33 DEF Changes, Only
<1>36. /\ Then(RotateLeft([RotateRight(h, r).h EXCEPT ![n].right = RotateRight(h, r).n], n),
                ColorFlip) = R(e, x)
       /\ ~(RotateRight(h, r).n < 0)
  <2>1. ~(x < 0)
    BY <1>4, HeapFacts, LinkFacts
  <2>2. RotateRight(h, r).h = g1 /\ RotateRight(h, r).n = x
    BY <1>10, RFacts
  <2>3. RotateLeft(g2, n).h = g3 /\ RotateLeft(g2, n).n = x
    BY <1>24, RFacts
  <2>4. Then(RotateLeft(g2, n), ColorFlip) = R(e, x)
    BY <1>30, <2>1, <2>3 DEF Then
  <2>5. QED
    BY <2>1, <2>2, <2>4 DEF g2
<1>37. Borrowed(h, e, n, x, r, A, E, F, D, c, A \cup {n} \cup C \cup {r} \cup D)
  BY <1>31, <1>32, <1>35 DEF Borrowed
<1>38. QED
  BY <1>6, <1>32, <1>34, <1>36, <1>37 DEF BorrowsFromRight

(* The parts of a tree with up on the left of n.                           *)
OnTheLeft(h, n, up, A, B, C, c) ==
  /\ up = h[n].left /\ up # Null
  /\ Joined(h, n, A \cup {up} \cup B, C)
  /\ Span(h, h[n].right, C, c) /\ Halves(h, up, A, B, c)

LEMMA TurnRightParts ==
  ASSUME NEW h, IsHeap(h), NEW n, NEW up, NEW g, TurnedRight(h, g, n, up),
         NEW A, NEW B, NEW C, NEW c \in Int, OnTheLeft(h, n, up, A, B, C, c)
  PROVE  /\ Halves(g, n, B, C, c)
         /\ Joined(g, up, A, B \cup {n} \cup C)
         /\ Span(g, g[up].left, A, c)
BY TurnRightHalves DEF OnTheLeft

BorrowsFromLeft(h, n, l, y, P, Q, B, c) ==
  \E e :
    /\ Then(RotateRight(h, n), ColorFlip) = R(e, l)
    /\ Changes(h, e, P \cup {l} \cup Q \cup {n} \cup B)
    /\ Joined(e, l, P, Q \cup {n} \cup B)
    /\ e[l].left = y /\ e[l].right = n /\ Span(e, y, P, c + 1)
    /\ Halves(e, n, Q, B, c) /\ ~Red(e, e[n].left)

(* A node borrowed from the left.                                          *)
LEMMA BorrowFromLeft ==
  ASSUME NEW h, IsHeap(h), NEW n, NEW l, NEW r, NEW P, NEW Q, NEW C, NEW D, NEW c \in Nat,
         Quarters(h, n, l, r, P, Q, C, D, c), NEW B, B = C \cup {r} \cup D,
         Span(h, r, B, c), Red(h, l), ~Red(h, h[l].right), NEW y, y = h[l].left, Red(h, y)
  PROVE  BorrowsFromLeft(h, n, l, y, P, Q, B, c)
<1>1. /\ n \in DOMAIN h /\ l \in DOMAIN h /\ r \in DOMAIN h
      /\ n # Null /\ l # Null /\ r # Null /\ ~(n < 0) /\ ~(l < 0)
      /\ n # l /\ n # r /\ l # r
      /\ P \cap {n, l, r} = {} /\ Q \cap {n, l, r} = {}
      /\ C \cap {n, l, r} = {} /\ D \cap {n, l, r} = {}
  BY QuartersApart
<1>2. /\ Joined(h, n, P \cup {l} \cup Q, B) /\ Halves(h, l, P, Q, c) /\ Joined(h, l, P, Q)
      /\ Span(h, y, P, c) /\ Span(h, h[l].right, Q, c) /\ h[n].right = r /\ h[n].left = l
  BY DEF Quarters, Halves
<1>3. c \in Int /\ c >= 0 /\ h[l].red /\ h[y].red /\ y # Null
  BY DEF Red
<1>4. y \in P /\ y \in DOMAIN h
  BY <1>2, <1>3, SpanInHeap
<1>5. ~Red(h, h[y].left) /\ ~Red(h, h[y].right) /\ Raised(h, y, P, c)
  BY <1>2, <1>3, RedHasBlackChildren
<1>6. PICK E, F : Halves(h, y, E, F, c) /\ P = E \cup {y} \cup F
  BY <1>5 DEF Raised
<1> DEFINE X == {l, n}
           Y == {l, n, y}
<1>7. /\ y # n /\ y # l /\ y \notin Q /\ y \notin B /\ y \notin E /\ y \notin F
      /\ E \cap Y = {} /\ F \cap Y = {} /\ Q \cap Y = {} /\ E \cap X = {} /\ F \cap X = {}
      /\ Y \subseteq P \cup {l} \cup Q \cup {n} \cup B /\ X \subseteq Y /\ y \notin X
  <2>1. (P \cup {l} \cup Q) \cap B = {} /\ P \cap Q = {} /\ y \notin E /\ y \notin F
    BY <1>2, <1>6, JoinedApart DEF Halves
  <2>2. QED
    BY <1>1, <1>4, <1>6, <2>1
<1>8. /\ h[y].right = Null \/ h[y].right \in F
      /\ h[l].right = Null \/ h[l].right \in Q
  BY <1>2, <1>3, <1>6, SpanInHeap DEF Halves
<1>9. /\ Q \subseteq DOMAIN h /\ F \subseteq DOMAIN h
  BY <1>2, <1>6 DEF Joined, Halves
<1>10. PICK g : RotateRight(h, n) = R(g, l) /\ TurnedRight(h, g, n, l)
  BY <1>1, <1>2, <1>3, RotateRightTurns
<1>11. Changes(h, g, X) /\ IsHeap(g) /\ DOMAIN g = DOMAIN h
  BY <1>10 DEF TurnedRight, Changes, Only
<1>12. OnTheLeft(h, n, l, P, Q, B, c)
  BY <1>1, <1>2 DEF OnTheLeft
<1>13. /\ Halves(g, n, Q, B, c) /\ Joined(g, l, P, Q \cup {n} \cup B)
       /\ Span(g, g[l].left, P, c)
  BY <1>3, <1>10, <1>12, TurnRightParts
<1>14. /\ g[l].left = y /\ g[l].right = n
       /\ g[n].left = h[l].right /\ g[n].red
  BY <1>10 DEF TurnedRight
<1>15. Halves(g, y, E, F, c) /\ g[y] = h[y]
  <2> HIDE DEF X
  <2>1. QED
    BY <1>3, <1>6, <1>7, <1>11, HalvesUntouched
<1>16. Quarters(g, l, y, n, E, F, Q, B, c)
  BY <1>6, <1>13, <1>14, <1>15 DEF Quarters
<1>17. PICK e : ColorFlip(g, l) = R(e, l) /\ Flipped(g, e, l, y, n)
  <2>1. l \in DOMAIN g /\ y \in DOMAIN g /\ n \in DOMAIN g
    BY <1>1, <1>4, <1>11
  <2>2. QED
    BY <1>1, <1>7, <1>11, <1>14, <2>1, ColorFlipFlips
<1>18. Quarters(e, l, y, n, E, F, Q, B, c)
  BY <1>3, <1>11, <1>16, <1>17, FlipHalves
<1>19. /\ e[y].right = h[y].right /\ ~e[y].red /\ e[n].left = h[l].right
  BY <1>3, <1>14, <1>15, <1>17 DEF Flipped
<1>20. Changes(h, e, Y)
  <2>1. Changes(g, e, Y) /\ Changes(h, g, Y)
    BY <1>7, <1>11, <1>17 DEF Flipped, Changes, Only
  <2> HIDE DEF Y
  <2>2. QED
    BY <2>1, ChangesAgain
<1>21. ~Red(e, e[y].right) /\ ~Red(e, e[n].left)
  <2>1. \A m \in F \cup Q : e[m] = h[m]
    BY <1>7, <1>9, <1>20 DEF Changes, Only
  <2>2. QED
    BY <1>5, <1>8, <1>19, <2>1 DEF Red
<1>22. Changes(h, e, P \cup {l} \cup Q \cup {n} \cup B)
  BY <1>7, <1>20 DEF Changes, Only
<1>23. /\ Joined(e, l, P, Q \cup {n} \cup B) /\ Halves(e, n, Q, B, c) /\ Halves(e, y, E, F, c)
       /\ e[l].left = y /\ e[l].right = n
  BY <1>6, <1>18 DEF Quarters
<1>24. Span(e, y, P, c + 1)
  <2>1. ~Red(e, y) /\ IsHeap(e)
    BY <1>3, <1>19, <1>22 DEF Red, Changes
  <2>2. Span(e, y, E \cup {y} \cup F, c + 1)
    BY <1>3, <1>21, <1>23, <2>1, JoinUnderBlack
  <2>3. QED
    BY <1>6, <2>2
<1>25. Then(RotateRight(h, n), ColorFlip) = R(e, l)
  <2>1. RotateRight(h, n).h = g /\ RotateRight(h, n).n = l
    BY <1>10, RFacts
  <2>2. QED
    BY <1>1, <1>17, <2>1 DEF Then
<1>26. QED
  BY <1>21, <1>22, <1>23, <1>24, <1>25 DEF BorrowsFromLeft

-----------------------------------------------------------------------------
(* The way down of a deletion.                                             *)

LEMMA BlackIsDeep ==
  ASSUME NEW h, IsHeap(h), NEW n, NEW S, NEW c \in Nat, Span(h, n, S, c), ~Red(h, n), n # Null
  PROVE  c >= 1
<1>1. c \in Int
  OBVIOUS
<1>2. LeansLeft(h, n, c)
  BY <1>1, SpanOfNode
<1>3. QED
  BY <1>2 DEF LeansLeft, Red

LEMMA HalvesMakeTree ==
  ASSUME NEW h, IsHeap(h), NEW n, NEW A, NEW B, NEW c \in Int, Halves(h, n, A, B, c)
  PROVE  /\ Tree(h, n, A \cup {n} \cup B) /\ Joined(h, n, A, B)
         /\ Tree(h, h[n].left, A) /\ Tree(h, h[n].right, B)
<1>1. Joined(h, n, A, B) /\ Tree(h, h[n].left, A) /\ Tree(h, h[n].right, B)
  BY SpanIsTree DEF Halves
<1>2. Halves(h, n, A, B, NoDepth)
  BY <1>1 DEF Halves, Tree
<1>3. QED
  BY <1>1, <1>2, JoinTrees

LEMMA ChangesNothing ==
  ASSUME NEW h, IsHeap(h), NEW S
  PROVE  Changes(h, h, S)
BY DEF Changes, SameData, Only

(* What nodeDelete and nodeDeleteMin need below n, where k is to go.       *)
Ready(h, n, S, k) ==
  \E A, B : \E c \in Nat :
    /\ Halves(h, n, A, B, c) /\ S = A \cup {n} \cup B
    /\ ~Red(h, h[n].right) \/ (~Red(h, h[n].left) /\ k >= h[n].key)

(* The parts of a balanced tree, and their depth.                          *)
LEMMA SpanParts ==
  ASSUME NEW h, IsHeap(h), NEW n, NEW S, NEW b \in Nat, Span(h, n, S, b), n # Null
  PROVE  \E A, B : \E c \in Nat :
           /\ Halves(h, n, A, B, c) /\ S = A \cup {n} \cup B
           /\ ~Red(h, h[n].right) /\ (Red(h, n) => ~Red(h, h[n].left))
           /\ Red(h, n) => b = c
           /\ ~Red(h, n) => b = c + 1
<1>1. b \in Int
  OBVIOUS
<1>2. PICK A, B : Halves(h, n, A, B, Under(h, n, b)) /\ S = A \cup {n} \cup B
  BY <1>1, HalvesOf
<1>3. Joined(h, n, A, B)
  BY <1>2 DEF Halves
<1>4. Span(h, n, A \cup {n} \cup B, b)
  BY <1>2
<1>5. PICK c \in Nat : /\ Span(h, h[n].left, A, c) /\ Span(h, h[n].right, B, c)
                       /\ ~Red(h, h[n].right) /\ (Red(h, n) => ~Red(h, h[n].left))
                       /\ Red(h, n) => b = c
                       /\ ~Red(h, n) => b = c + 1
  BY <1>3, <1>4, NearlyKeptHalves
<1>6. Halves(h, n, A, B, c)
  BY <1>3, <1>5 DEF Halves
<1>7. QED
  BY <1>2, <1>5, <1>6

LEMMA SpanIsReady ==
  ASSUME NEW h, IsHeap(h), NEW n, NEW S, NEW c \in Nat, Span(h, n, S, c), n # Null, NEW k
  PROVE  Ready(h, n, S, k)
<1>1. PICK A, B : \E d \in Nat : /\ Halves(h, n, A, B, d) /\ S = A \cup {n} \cup B
                                 /\ ~Red(h, h[n].right)
  BY SpanParts
<1>2. QED
  BY <1>1 DEF Ready

(* A node that a deletion can make red or whose left child it can, as it   *)
(* goes on, without a node above it.                                       *)
Warm(h, n) == Red(h, n) \/ Red(h, h[n].left)

(* To the left: m is the root, E and F are below it.                       *)
WentLeft(h, n, A, B, c, g, m, E, F, d) ==
  /\ Changes(h, g, A \cup {n} \cup B) /\ A \subseteq E
  /\ A \cup {n} \cup B = E \cup {m} \cup F
  /\ Halves(g, m, E, F, d)
  /\ g[m].left # Null /\ Warm(g, g[m].left)
  /\ \/ /\ d = c /\ ~Red(g, g[m].right) /\ g[m].red = h[n].red
        /\ Red(g, g[m].left) => Red(h, h[n].left)
     \/ /\ d + 1 = c /\ Red(g, g[m].right) /\ g[m].red = ~h[n].red
        /\ ~Red(h, h[n].left)

LEMMA GoLeft ==
  ASSUME NEW h, IsHeap(h), NEW n, NEW A, NEW B, NEW c \in Nat, Halves(h, n, A, B, c),
         ~Red(h, h[n].right), h[n].left # Null
  PROVE  \E g, m, E, F : \E d \in Nat :
           /\ (IF TwoNodeLeft(h, n) THEN MoveRedLeft(h, n) ELSE R(h, n)) = R(g, m)
           /\ WentLeft(h, n, A, B, c, g, m, E, F, d)
<1>1. /\ Joined(h, n, A, B) /\ n \in DOMAIN h
      /\ Span(h, h[n].left, A, c) /\ Span(h, h[n].right, B, c)
  BY DEF Halves, Joined
<1>2. CASE ~TwoNodeLeft(h, n)
  <2>1. Warm(h, h[n].left)
    BY <1>2 DEF TwoNodeLeft, Black, Warm
  <2>2. WentLeft(h, n, A, B, c, h, n, A, B, c)
    BY <2>1, ChangesNothing DEF WentLeft
  <2>3. QED
    BY <1>2, <2>2
<1>3. CASE TwoNodeLeft(h, n)
  <2>1. ~Red(h, h[n].left) /\ ~Red(h, h[h[n].left].left)
    BY <1>3 DEF TwoNodeLeft, Black
  <2>2. c >= 1
    BY <1>1, <2>1, BlackIsDeep
  <2>3. PICK b \in Nat : c = b + 1
    BY <2>2
  <2> DEFINE l == h[n].left
             r == h[n].right
             S == A \cup {n} \cup B
  <2>4. Span(h, l, A, b + 1) /\ Span(h, r, B, b + 1)
    BY <1>1, <2>3
  <2>5. PICK g, P, Q, C, D :
             /\ A = P \cup {l} \cup Q /\ B = C \cup {r} \cup D
             /\ Flip(h, n, g, l, r, P, Q, C, D, b)
    BY <1>1, <2>1, <2>4, FlipsFirst
  <2> HIDE DEF l, r
  <2>6. /\ ColorFlip(h, n) = R(g, n) /\ Quarters(g, n, l, r, P, Q, C, D, b)
        /\ g[n].red = ~h[n].red /\ Red(g, l) /\ Red(g, r)
        /\ ~Red(g, g[l].right) /\ ~Red(g, g[r].right)
        /\ ~Red(g, g[l].left)
    BY <2>1, <2>5 DEF Flip, l
  <2>7. Changes(h, g, S) /\ IsHeap(g)
    <3>1. P \cup {l} \cup Q \cup {n} \cup C \cup {r} \cup D = S
      BY <2>5
    <3> HIDE DEF S
    <3>2. QED
      BY <2>5, <3>1 DEF Flip, Changes
  <2>8. /\ Joined(g, n, A, B) /\ Halves(g, l, P, Q, b) /\ Halves(g, r, C, D, b)
        /\ g[n].left = l /\ g[n].right = r
    BY <2>5, <2>6 DEF Quarters
  <2>9. b \in Int /\ b >= 0
    OBVIOUS
  <2>10. Span(g, l, A, b)
    <3>1. Span(g, l, P \cup {l} \cup Q, b)
      BY <2>6, <2>7, <2>8, <2>9, JoinUnderRed
    <3>2. QED
      BY <2>5, <3>1
  <2>11. n # Null /\ l # Null /\ r # Null /\ ~(n < 0)
    BY <2>6, <2>7, QuartersApart
  <2>12. MoveRedLeft(h, n) = IF Red(g, g[r].left)
                               THEN IF RotateRight(g, r).n < 0 THEN RotateRight(g, r)
                                    ELSE Then(RotateLeft([RotateRight(g, r).h EXCEPT
                                                            ![n].right = RotateRight(g, r).n], n),
                                              ColorFlip)
                               ELSE R(g, n)
    <3>1. R(g, n).h = g /\ R(g, n).n = n
      BY RFacts
    <3>2. QED
      BY <2>6, <2>8, <2>11, <3>1 DEF MoveRedLeft, Then
  <2>13. CASE ~Red(g, g[r].left)
    <3>1. Span(g, r, C \cup {r} \cup D, b)
      BY <2>6, <2>7, <2>8, <2>9, <2>13, JoinUnderRed
    <3>2. Span(g, r, B, b)
      BY <2>5, <3>1
    <3>3. Halves(g, n, A, B, b)
      BY <2>8, <2>10, <3>2 DEF Halves
    <3>4. WentLeft(h, n, A, B, c, g, n, A, B, b)
      BY <2>1, <2>3, <2>6, <2>7, <2>8, <2>11, <3>3 DEF WentLeft, Warm
    <3>5. MoveRedLeft(h, n) = R(g, n)
      BY <2>12, <2>13
    <3>6. QED
      BY <1>3, <3>4, <3>5
  <2>14. CASE Red(g, g[r].left)
    <3> DEFINE x == g[r].left
    <3> HIDE DEF x
    <3>1. x = g[r].left
      BY DEF x
    <3>2. BorrowsFromRight(g, n, l, r, x, A, C, D, b)
      <4>1. Quarters(g, n, l, r, P, Q, C, D, b) /\ A = P \cup {l} \cup Q /\ Span(g, l, A, b)
        BY <2>5, <2>6, <2>10
      <4>2. Red(g, r) /\ ~Red(g, g[r].right) /\ Red(g, x)
        BY <2>6, <2>14 DEF x
      <4>3. QED
        BY <2>7, <3>1, <4>1, <4>2, BorrowFromRight
    <3>3. PICK e, E, F :
             /\ Then(RotateLeft([RotateRight(g, r).h EXCEPT ![n].right = RotateRight(g, r).n], n),
                     ColorFlip) = R(e, x)
             /\ ~(RotateRight(g, r).n < 0)
             /\ C = E \cup {x} \cup F
             /\ Borrowed(g, e, n, x, r, A, E, F, D, b, A \cup {n} \cup C \cup {r} \cup D)
             /\ e[n].left = l /\ Red(e, l) = Red(g, l)
             /\ ~Red(e, e[n].right) /\ ~Red(e, e[r].right)
      BY <3>2 DEF BorrowsFromRight
    <3>4. MoveRedLeft(h, n) = R(e, x)
      BY <2>12, <2>14, <3>3
    <3>5. /\ Changes(g, e, A \cup {n} \cup C \cup {r} \cup D) /\ e[x].red = ~g[n].red
          /\ Quarters(e, x, n, r, A, E, F, D, b) /\ ~e[n].red /\ ~e[r].red
      BY <3>3 DEF Borrowed
    <3>6. A \cup {n} \cup C \cup {r} \cup D = S
      BY <2>5
    <3>7. Changes(h, e, S) /\ IsHeap(e)
      <4> HIDE DEF S
      <4>1. QED
        BY <2>7, <3>5, <3>6, ChangesAgain DEF Changes
    <3>8. /\ Joined(e, x, A \cup {n} \cup E, F \cup {r} \cup D)
          /\ Halves(e, n, A, E, b) /\ Halves(e, r, F, D, b)
          /\ e[x].left = n /\ e[x].right = r
      BY <3>5 DEF Quarters
    <3>9. ~Red(e, n) /\ ~Red(e, r)
      BY <3>5 DEF Red
    <3>10. Span(e, n, A \cup {n} \cup E, c) /\ Span(e, r, F \cup {r} \cup D, c)
      BY <2>3, <2>9, <3>3, <3>7, <3>8, <3>9, JoinUnderBlack
    <3>11. Halves(e, x, A \cup {n} \cup E, F \cup {r} \cup D, c)
      BY <3>8, <3>10 DEF Halves
    <3>12. S = (A \cup {n} \cup E) \cup {x} \cup (F \cup {r} \cup D)
      BY <3>3, <3>6
    <3>13. Warm(e, n)
      BY <2>6, <3>3 DEF Warm
    <3>14. e[x].red = h[n].red
      <4>1. h[n].red \in BOOLEAN
        BY <1>1, HeapFacts
      <4>2. QED
        BY <2>6, <3>5, <4>1
    <3>15. A \subseteq A \cup {n} \cup E
      OBVIOUS
    <3>16. WentLeft(h, n, A, B, c, e, x, A \cup {n} \cup E, F \cup {r} \cup D, c)
      BY <2>11, <3>7, <3>8, <3>9, <3>11, <3>12, <3>13, <3>14, <3>15 DEF WentLeft
    <3>17. QED
      BY <1>3, <3>4, <3>16
  <2>15. QED
    BY <2>13, <2>14
<1>4. QED
  BY <1>2, <1>3

(* To the right: m is the root, E and F are below it.                      *)
WentRight(h, S, k, g, m, E, F) ==
  /\ Changes(h, g, S) /\ S = E \cup {m} \cup F /\ Joined(g, m, E, F)
  /\ Tree(g, g[m].left, E) /\ Tree(g, g[m].right, F)
  /\ g[m].right # Null /\ Ready(g, g[m].right, F, k)
  /\ g[m].key <= k
  /\ g[m].key = k => \E d \in Nat : Span(g, g[m].right, F, d)

(* After the first step of nodeDelete, to g and m.                         *)
GoesRight(h, S, k, g, m) ==
  \E e, x, E, F :
    /\ (IF TwoNodeRight(g, m) THEN MoveRedRight(g, m) ELSE R(g, m)) = R(e, x)
    /\ WentRight(h, S, k, e, x, E, F)

(* A red left child is turned up first.                                    *)
LEMMA GoRightFromRed ==
  ASSUME NEW h, IsHeap(h), NEW n, NEW A, NEW B, NEW c \in Nat, Halves(h, n, A, B, c),
         Red(h, h[n].left), ~Red(h, h[n].right), NEW k \in Int, k >= h[n].key
  PROVE  \E g, m : /\ RotateRight(h, n) = R(g, m) /\ ~(m < 0) /\ g[m].key # k
                   /\ GoesRight(h, A \cup {n} \cup B, k, g, m)
<1> DEFINE l == h[n].left
           S == A \cup {n} \cup B
<1> HIDE DEF l
<1>1. /\ Joined(h, n, A, B) /\ n \in DOMAIN h /\ A \subseteq DOMAIN h /\ B \subseteq DOMAIN h
      /\ Span(h, l, A, c) /\ Span(h, h[n].right, B, c)
  BY DEF Halves, Joined, l
<1>2. c \in Int /\ c >= 0 /\ l # Null /\ h[l].red /\ Red(h, l) /\ l = h[n].left
  BY DEF Red, l
<1>3. l \in A /\ l \in DOMAIN h
  BY <1>1, <1>2, SpanInHeap
<1>4. PICK P, Q : Halves(h, l, P, Q, c) /\ A = P \cup {l} \cup Q
  BY <1>1, <1>2, RedHasBlackChildren DEF Raised
<1>5. n \notin A /\ n \notin B /\ A \cap B = {}
  BY <1>1, JoinedApart
<1>6. PICK g : RotateRight(h, n) = R(g, l) /\ TurnedRight(h, g, n, l)
  <2>1. l # n
    BY <1>3, <1>5
  <2>2. QED
    BY <1>1, <1>2, <1>3, <2>1, RotateRightTurns
<1>7. OnTheLeft(h, n, l, P, Q, B, c)
  BY <1>1, <1>2, <1>4 DEF OnTheLeft
<1>8. /\ Halves(g, n, Q, B, c) /\ Joined(g, l, P, Q \cup {n} \cup B)
      /\ Span(g, g[l].left, P, c)
  BY <1>2, <1>6, <1>7, TurnRightParts
<1>9. /\ IsHeap(g) /\ g[l].right = n /\ g[n].right = h[n].right /\ g[n].red
      /\ \A m \in DOMAIN h : g[m].key = h[m].key
  BY <1>6 DEF TurnedRight, SameData
<1>10. n # Null
  BY <1>1, HeapFacts, LinkFacts
<1>11. Changes(h, g, S)
  BY <1>3, <1>6 DEF TurnedRight, Changes, Only
<1>12. ~Red(g, g[n].right)
  <2>1. h[n].right = Null \/ h[n].right \in B
    BY <1>1, <1>2, SpanInHeap
  <2>2. \A m \in B : g[m] = h[m]
    BY <1>1, <1>3, <1>5, <1>6 DEF TurnedRight, Only
  <2>3. QED
    BY <1>9, <2>1, <2>2 DEF Red
<1> DEFINE F == Q \cup {n} \cup B
<1>13. Ready(g, n, F, k)
  BY <1>8, <1>12 DEF Ready
<1>14. Tree(g, n, F) /\ Tree(g, g[l].left, P)
  BY <1>2, <1>8, <1>9, HalvesMakeTree, SpanIsTree
<1>15. g[l].key < k
  <2>1. h[l].key < h[n].key /\ h[l].key \in Int /\ h[n].key \in Int
    BY <1>1, <1>3, HeapFacts DEF Joined
  <2>2. QED
    BY <1>3, <1>9, <2>1
<1>16. S = P \cup {l} \cup F
  BY <1>4
<1>17. g[l].key \in Int
  BY <1>3, <1>9, HeapFacts
<1>18. WentRight(h, S, k, g, l, P, F)
  <2> HIDE DEF F, S
  <2>1. Joined(g, l, P, F)
    BY <1>8 DEF F
  <2>2. QED
    BY <1>9, <1>10, <1>11, <1>13, <1>14, <1>15, <1>16, <1>17, <2>1 DEF WentRight
<1>19. ~TwoNodeRight(g, l)
  BY <1>9, <1>10 DEF TwoNodeRight, Black, Red
<1>20. GoesRight(h, S, k, g, l)
  BY <1>18, <1>19 DEF GoesRight
<1>21. ~(l < 0)
  BY <1>3, HeapFacts, LinkFacts
<1>22. QED
  BY <1>6, <1>15, <1>17, <1>20, <1>21

(* A red is moved to the right, or is not needed there.                    *)
LEMMA GoRightFromBlack ==
  ASSUME NEW h, IsHeap(h), NEW n, NEW A, NEW B, NEW c \in Nat, Halves(h, n, A, B, c),
         ~Red(h, h[n].left), NEW k \in Int, k >= h[n].key, h[n].right # Null
  PROVE  GoesRight(h, A \cup {n} \cup B, k, h, n)
<1> DEFINE l == h[n].left
           r == h[n].right
           S == A \cup {n} \cup B
<1>1. /\ Joined(h, n, A, B) /\ n \in DOMAIN h /\ Span(h, l, A, c) /\ Span(h, r, B, c)
  BY DEF Halves, Joined
<1>2. h[n].key \in Int /\ h[n].key <= k
  BY <1>1, HeapFacts
<1>3. CASE ~TwoNodeRight(h, n)
  <2>1. Ready(h, r, B, k)
    BY <1>1, SpanIsReady
  <2>2. Tree(h, l, A) /\ Tree(h, r, B)
    <3>1. c \in Int
      OBVIOUS
    <3>2. QED
      BY <1>1, <3>1, SpanIsTree
  <2>3. WentRight(h, S, k, h, n, A, B)
    BY <1>1, <1>2, <2>1, <2>2, ChangesNothing DEF WentRight
  <2>4. QED
    BY <1>3, <2>3 DEF GoesRight
<1>4. CASE TwoNodeRight(h, n)
  <2>1. ~Red(h, r) /\ ~Red(h, h[r].left)
    BY <1>4 DEF TwoNodeRight, Black
  <2>2. c >= 1
    BY <1>1, <2>1, BlackIsDeep
  <2>3. PICK b \in Nat : c = b + 1
    BY <2>2
  <2>4. Span(h, l, A, b + 1) /\ Span(h, r, B, b + 1)
    BY <1>1, <2>3
  <2>5. PICK g, P, Q, C, D :
             /\ A = P \cup {l} \cup Q /\ B = C \cup {r} \cup D
             /\ Flip(h, n, g, l, r, P, Q, C, D, b)
    BY <1>1, <2>1, <2>4, FlipsFirst
  <2> HIDE DEF l, r
  <2>6. /\ ColorFlip(h, n) = R(g, n) /\ Quarters(g, n, l, r, P, Q, C, D, b)
        /\ Red(g, l) /\ Red(g, r)
        /\ ~Red(g, g[l].right) /\ ~Red(g, g[r].right)
        /\ ~Red(g, g[r].left)
    BY <2>1, <2>5 DEF Flip, r
  <2>7. Changes(h, g, S) /\ IsHeap(g)
    <3>1. P \cup {l} \cup Q \cup {n} \cup C \cup {r} \cup D = S
      BY <2>5
    <3> HIDE DEF S
    <3>2. QED
      BY <2>5, <3>1 DEF Flip, Changes
  <2>8. /\ Joined(g, n, A, B) /\ Halves(g, l, P, Q, b) /\ Halves(g, r, C, D, b)
        /\ g[n].left = l /\ g[n].right = r
    BY <2>5, <2>6 DEF Quarters
  <2>9. b \in Int /\ b >= 0
    OBVIOUS
  <2>10. Span(g, r, B, b)
    <3>1. Span(g, r, C \cup {r} \cup D, b)
      BY <2>6, <2>7, <2>8, <2>9, JoinUnderRed
    <3>2. QED
      BY <2>5, <3>1
  <2>11. n # Null /\ l # Null /\ r # Null /\ ~(n < 0) /\ n \in DOMAIN g /\ l \in DOMAIN g
    BY <2>6, <2>7, QuartersApart
  <2>12. MoveRedRight(h, n) = IF Red(g, g[l].left) THEN Then(RotateRight(g, n), ColorFlip)
                                                   ELSE R(g, n)
    <3>1. R(g, n).h = g /\ R(g, n).n = n
      BY RFacts
    <3>2. QED
      BY <2>6, <2>8, <2>11, <3>1 DEF MoveRedRight, Then
  <2>13. \A m \in DOMAIN g : g[m].key = h[m].key
    BY <2>7 DEF Changes, SameData
  <2>14. Tree(g, l, A) /\ Tree(g, r, B)
    <3>1. Tree(g, l, P \cup {l} \cup Q)
      BY <2>7, <2>8, <2>9, HalvesMakeTree
    <3>2. Tree(g, r, B)
      BY <2>7, <2>9, <2>10, SpanIsTree
    <3>3. QED
      BY <2>5, <3>1, <3>2
  <2>15. CASE ~Red(g, g[l].left)
    <3>1. Ready(g, r, B, k)
      BY <2>7, <2>10, <2>11, SpanIsReady
    <3>2. WentRight(h, S, k, g, n, A, B)
      BY <1>2, <2>7, <2>8, <2>10, <2>11, <2>13, <2>14, <3>1 DEF WentRight
    <3>3. QED
      BY <1>4, <2>12, <2>15, <3>2 DEF GoesRight
  <2>16. CASE Red(g, g[l].left)
    <3> DEFINE y == g[l].left
    <3> HIDE DEF y
    <3>1. y = g[l].left
      BY DEF y
    <3>2. BorrowsFromLeft(g, n, l, y, P, Q, B, b)
      <4>1. Span(g, r, B, b) /\ B = C \cup {r} \cup D /\ Quarters(g, n, l, r, P, Q, C, D, b)
        BY <2>5, <2>6, <2>10
      <4>2. Red(g, l) /\ ~Red(g, g[l].right) /\ Red(g, y)
        BY <2>6, <2>16, <3>1
      <4>3. QED
        BY <2>7, <3>1, <4>1, <4>2, BorrowFromLeft
    <3>3. PICK e : /\ Then(RotateRight(g, n), ColorFlip) = R(e, l)
                   /\ Changes(g, e, P \cup {l} \cup Q \cup {n} \cup B)
                   /\ Joined(e, l, P, Q \cup {n} \cup B)
                   /\ e[l].left = y /\ e[l].right = n /\ Span(e, y, P, b + 1)
                   /\ Halves(e, n, Q, B, b) /\ ~Red(e, e[n].left)
      BY <3>2 DEF BorrowsFromLeft
    <3>4. P \cup {l} \cup Q \cup {n} \cup B = S
      BY <2>5
    <3> DEFINE F == Q \cup {n} \cup B
    <3>5. Changes(h, e, S) /\ IsHeap(e)
      <4> HIDE DEF S
      <4>1. QED
        BY <2>7, <3>3, <3>4, ChangesAgain DEF Changes
    <3>6. \A m \in DOMAIN h : e[m].key = h[m].key /\ h[m].key \in Int
      BY <3>5, HeapFacts DEF Changes, SameData
    <3>7. DOMAIN g = DOMAIN h
      BY <2>7 DEF Changes, SameData
    <3>8. e[l].key < k /\ e[n].key <= k /\ e[l].key \in Int
      <4>1. h[l].key < h[n].key
        BY <1>1, <2>5 DEF Joined
      <4>2. QED
        BY <1>1, <1>2, <2>11, <3>6, <3>7, <4>1
    <3>9. k >= e[n].key
      BY <1>1, <3>6, <3>8
    <3>10. Ready(e, n, F, k)
      BY <3>3, <3>9 DEF Ready
    <3>11. Tree(e, n, F) /\ Tree(e, y, P)
      <4>1. b + 1 \in Int
        BY <2>9
      <4>2. QED
        BY <2>9, <3>3, <3>5, <4>1, HalvesMakeTree, SpanIsTree
    <3>12. WentRight(h, S, k, e, l, P, F)
      <4>1. Joined(e, l, P, F) /\ e[l].left = y /\ e[l].right = n /\ S = P \cup {l} \cup F
        BY <3>3, <3>4
      <4> HIDE DEF F, S
      <4>2. QED
        BY <2>11, <3>5, <3>8, <3>10, <3>11, <4>1 DEF WentRight
    <3>13. MoveRedRight(h, n) = R(e, l)
      BY <2>12, <2>16, <3>3
    <3> HIDE DEF F, S
    <3>14. GoesRight(h, S, k, h, n)
      BY <1>4, <3>12, <3>13 DEF GoesRight
    <3>15. QED
      BY <3>14 DEF S
  <2>17. QED
    BY <2>15, <2>16
<1>5. QED
  BY <1>3, <1>4

-----------------------------------------------------------------------------
(* What a deletion leaves: T of the nodes of S, and all pairs but k's.     *)

Pair(h, m) == <<h[m].key, h[m].value>>
Pairs(h, S) == {Pair(h, m) : m \in S}
Without(P, k) == {p \in P : p[1] # k}

LEMMA PairFacts ==
  /\ \A h, m : Pair(h, m)[1] = h[m].key /\ Pair(h, m)[2] = h[m].value
  /\ \A h, S, p : p \in Pairs(h, S) <=> \E m \in S : p = Pair(h, m)
BY DEF Pair, Pairs

LEMMA PairsKept ==
  ASSUME NEW h, NEW g, SameData(h, g), NEW S, S \subseteq DOMAIN h
  PROVE  Pairs(g, S) = Pairs(h, S)
<1>1. \A m \in S : Pair(g, m) = Pair(h, m)
  BY DEF SameData, Pair
<1>2. QED
  BY <1>1 DEF Pairs

LEMMA PairsSame ==
  ASSUME NEW h, NEW g, NEW S, \A m \in S : g[m] = h[m]
  PROVE  Pairs(g, S) = Pairs(h, S)
<1>1. \A m \in S : Pair(g, m) = Pair(h, m)
  BY DEF Pair
<1>2. QED
  BY <1>1 DEF Pairs

IsAnswer(r) == r = [h |-> r.h, n |-> r.n, hit |-> r.hit]

Removed(h, S, k, r, T) ==
  /\ IsAnswer(r)
  /\ IsHeap(r.h) /\ Only(h, r.h, S) /\ T \subseteq S
  /\ Tree(r.h, r.n, T) /\ Pairs(r.h, T) = Without(Pairs(h, S), k)

LEMMA AnswerFacts ==
  /\ \A h, n : IsAnswer(R(h, n))
  /\ \A r : /\ IsAnswer(Found(r)) /\ Found(r).h = r.h
            /\ Found(r).n = r.n /\ Found(r).hit = TRUE
<1>1. \A h, n : IsAnswer(R(h, n))
  BY DEF IsAnswer, R
<1>2. \A r : /\ IsAnswer(Found(r)) /\ Found(r).h = r.h
             /\ Found(r).n = r.n /\ Found(r).hit = TRUE
  BY DEF IsAnswer, Found
<1>3. QED
  BY <1>1, <1>2

(* The keys that are left were there before.                               *)
LEMMA RemovedKeys ==
  ASSUME NEW h, NEW S, NEW k, NEW r, NEW T, Removed(h, S, k, r, T)
  PROVE  \A t \in T : \E s \in S : r.h[t].key = h[s].key /\ h[s].key # k
<1> SUFFICES ASSUME NEW t \in T
             PROVE  \E s \in S : r.h[t].key = h[s].key /\ h[s].key # k
  OBVIOUS
<1>1. Pair(r.h, t) \in Without(Pairs(h, S), k)
  BY PairFacts DEF Removed
<1>2. Pair(r.h, t) \in Pairs(h, S) /\ Pair(r.h, t)[1] # k
  BY <1>1 DEF Without
<1>3. PICK s \in S : Pair(r.h, t) = Pair(h, s)
  BY <1>2, PairFacts
<1>4. QED
  BY <1>2, <1>3, PairFacts

(* The same deletion, seen from the heap before it was reshaped.           *)
LEMMA PairsOfChanges ==
  ASSUME NEW h, NEW g, NEW S, Changes(h, g, S), S \subseteq DOMAIN h
  PROVE  Pairs(g, S) = Pairs(h, S)
BY PairsKept DEF Changes

(* What a deletion in the left half leaves at m and on its right.          *)
LEMMA BesideDeletedLeft ==
  ASSUME NEW h, IsHeap(h), NEW n, NEW A, NEW B, Joined(h, n, A, B),
         NEW k, NEW p, NEW T, Removed(h, A, k, p, T)
  PROVE  /\ p.h[n] = h[n] /\ \A m \in B : p.h[m] = h[m]
         /\ Joined(p.h, n, T, B)
         /\ \A m, b : b \in Int /\ Span(h, m, B, b) => Span(p.h, m, B, b)
<1>1. n \in DOMAIN h /\ A \subseteq DOMAIN h /\ B \subseteq DOMAIN h
  BY DEF Joined
<1>2. n \notin A /\ A \cap B = {}
  BY JoinedApart
<1>3. Only(h, p.h, A) /\ T \subseteq A /\ DOMAIN p.h = DOMAIN h
  BY DEF Removed, Only
<1>4. p.h[n] = h[n] /\ \A m \in B : p.h[m] = h[m]
  BY <1>1, <1>2, <1>3 DEF Only
<1>5. \A t \in T : p.h[t].key < p.h[n].key
  BY <1>4, RemovedKeys DEF Joined
<1>6. Joined(p.h, n, T, B)
  BY <1>1, <1>3, <1>4, <1>5 DEF Joined
<1>7. ASSUME NEW m, NEW b \in Int, Span(h, m, B, b)
      PROVE  Span(p.h, m, B, b)
  <2>1. B \cap A = {}
    BY <1>2
  <2>2. QED
    BY <1>3, <1>7, <2>1, SpanUntouched
<1>8. QED
  BY <1>4, <1>6, <1>7

LEMMA BesideDeletedRight ==
  ASSUME NEW h, IsHeap(h), NEW n, NEW A, NEW B, Joined(h, n, A, B),
         NEW k, NEW p, NEW T, Removed(h, B, k, p, T)
  PROVE  /\ p.h[n] = h[n] /\ \A m \in A : p.h[m] = h[m]
         /\ Joined(p.h, n, A, T)
         /\ \A m, b : b \in Int /\ Span(h, m, A, b) => Span(p.h, m, A, b)
<1>1. n \in DOMAIN h /\ A \subseteq DOMAIN h /\ B \subseteq DOMAIN h
  BY DEF Joined
<1>2. n \notin B /\ A \cap B = {}
  BY JoinedApart
<1>3. Only(h, p.h, B) /\ T \subseteq B /\ DOMAIN p.h = DOMAIN h
  BY DEF Removed, Only
<1>4. p.h[n] = h[n] /\ \A m \in A : p.h[m] = h[m]
  BY <1>1, <1>2, <1>3 DEF Only
<1>5. \A t \in T : p.h[t].key > p.h[n].key
  BY <1>4, RemovedKeys DEF Joined
<1>6. Joined(p.h, n, A, T)
  BY <1>1, <1>3, <1>4, <1>5 DEF Joined
<1>7. ASSUME NEW m, NEW b \in Int, Span(h, m, A, b)
      PROVE  Span(p.h, m, A, b)
  <2>1. QED
    BY <1>2, <1>3, <1>7, SpanUntouched
<1>8. QED
  BY <1>4, <1>6, <1>7

(* A deletion on one side, with what nodeFixUp made of it.                 *)
LEMMA RemovedFixed ==
  ASSUME NEW h, NEW S, S \subseteq DOMAIN h, NEW k, NEW e, NEW q, NEW T, NEW g, NEW m, NEW hit,
         Only(h, e, S), T \subseteq S, T \subseteq DOMAIN e,
         Pairs(e, T) = Without(Pairs(h, S), k), Fixed(e, g, m, T, q, hit)
  PROVE  Removed(h, S, k, q, T)
<1>1. /\ IsHeap(q.h) /\ SameData(e, q.h) /\ Only(e, q.h, T) /\ Tree(q.h, q.n, T)
  BY DEF Fixed
<1>2. Pairs(q.h, T) = Pairs(e, T)
  BY <1>1, PairsKept
<1>3. Only(h, q.h, S)
  BY <1>1 DEF Only
<1>4. IsAnswer(q)
  BY DEF Fixed, IsAnswer
<1>5. QED
  BY <1>1, <1>2, <1>3, <1>4 DEF Removed

(* The deletion of k goes on in the left half, or in the right half.       *)
LEMMA DeletedLeft ==
  ASSUME NEW h, NEW g, NEW S, S \subseteq DOMAIN h, Changes(h, g, S),
         NEW E, NEW m, NEW F, S = E \cup {m} \cup F, Joined(g, m, E, F),
         Tree(g, g[m].right, F), NEW k, \E s \in E : g[s].key = k,
         NEW p, NEW T, Removed(g, E, k, p, T)
  PROVE  /\ Removed(h, S, k, FixLeft(m, p), T \cup {m} \cup F)
         /\ FixLeft(m, p).hit = p.hit
<1> DEFINE q == FixLeft(m, p)
           N == T \cup {m} \cup F
<1>1. IsHeap(g) /\ SameData(h, g) /\ Only(h, g, S)
  BY DEF Changes
<1>2. /\ p.h[m] = g[m] /\ \A x \in F : p.h[x] = g[x]
      /\ Joined(p.h, m, T, F)
      /\ \A x, b : b \in Int /\ Span(g, x, F, b) => Span(p.h, x, F, b)
  BY <1>1, BesideDeletedLeft
<1>3. IsHeap(p.h) /\ Span(p.h, p.n, T, NoDepth) /\ Only(g, p.h, E) /\ T \subseteq E
  BY DEF Removed, Tree
<1>4. Span(p.h, p.h[m].right, F, NoDepth)
  BY <1>2, NoDepthFacts DEF Tree
<1>5. PICK e : Fixed(p.h, e, m, N, q, p.hit)
  BY <1>2, <1>3, <1>4, NoDepthFacts, FixLeftIs
<1>6. Only(h, p.h, S) /\ N \subseteq S /\ N \subseteq DOMAIN p.h
  BY <1>1, <1>2, <1>3 DEF Only, Joined
<1>7. g[m].key # k /\ \A x \in F : g[x].key # k
  <2>1. \A x \in DOMAIN g : g[x].key \in Int
    BY <1>1, HeapFacts
  <2>2. QED
    BY <2>1 DEF Joined
<1>8. Pairs(p.h, N) = Without(Pairs(h, S), k)
  <2>1. Without(Pairs(g, S), k) = Without(Pairs(g, E), k) \cup {Pair(g, m)} \cup Pairs(g, F)
    <3>1. Pairs(g, S) = Pairs(g, E) \cup {Pair(g, m)} \cup Pairs(g, F)
      BY DEF Pairs
    <3>2. Pair(g, m)[1] # k /\ \A z \in Pairs(g, F) : z[1] # k
      BY <1>7, PairFacts
    <3>3. QED
      BY <3>1, <3>2 DEF Without
  <2>2. Pairs(p.h, N) = Pairs(p.h, T) \cup {Pair(p.h, m)} \cup Pairs(p.h, F)
    BY DEF Pairs
  <2>3. Pairs(p.h, T) = Without(Pairs(g, E), k)
    BY DEF Removed
  <2>4. Pairs(p.h, F) = Pairs(g, F) /\ Pair(p.h, m) = Pair(g, m)
    BY <1>2, PairsSame DEF Pair
  <2>5. Pairs(g, S) = Pairs(h, S)
    BY PairsOfChanges
  <2>6. QED
    BY <2>1, <2>2, <2>3, <2>4, <2>5
<1> HIDE DEF N, q
<1>9. Removed(h, S, k, q, N)
  BY <1>5, <1>6, <1>8, RemovedFixed
<1>10. q.hit = p.hit
  BY <1>5 DEF Fixed
<1>11. QED
  BY <1>9, <1>10 DEF N, q

(* q has removed k and hits what p hit.                                    *)
HasRemoved(h, S, k, p, q) == q.hit = p.hit /\ \E N : Removed(h, S, k, q, N)

Joins(g, S, E, m, F) == S = E \cup {m} \cup F /\ Joined(g, m, E, F)

LEMMA DeletedRight ==
  ASSUME NEW h, NEW g, NEW S, S \subseteq DOMAIN h, Changes(h, g, S),
         NEW E, NEW m, NEW F, Joins(g, S, E, m, F),
         Tree(g, g[m].left, E), NEW k, \E s \in F : g[s].key = k,
         NEW p, NEW T, Removed(g, F, k, p, T)
  PROVE  HasRemoved(h, S, k, p, FixRight(m, p))
<1> DEFINE q == FixRight(m, p)
           N == E \cup {m} \cup T
<1> S = E \cup {m} \cup F /\ Joined(g, m, E, F)
  BY DEF Joins
<1>1. IsHeap(g) /\ SameData(h, g) /\ Only(h, g, S)
  BY DEF Changes
<1>2. /\ p.h[m] = g[m] /\ \A x \in E : p.h[x] = g[x]
      /\ Joined(p.h, m, E, T)
      /\ \A x, b : b \in Int /\ Span(g, x, E, b) => Span(p.h, x, E, b)
  BY <1>1, BesideDeletedRight
<1>3. IsHeap(p.h) /\ Span(p.h, p.n, T, NoDepth) /\ Only(g, p.h, F) /\ T \subseteq F
  BY DEF Removed, Tree
<1>4. Span(p.h, p.h[m].left, E, NoDepth)
  BY <1>2, NoDepthFacts DEF Tree
<1>5. PICK e : Fixed(p.h, e, m, N, q, p.hit)
  BY <1>2, <1>3, <1>4, NoDepthFacts, FixRightIs
<1>6. Only(h, p.h, S) /\ N \subseteq S /\ N \subseteq DOMAIN p.h
  BY <1>1, <1>2, <1>3 DEF Only, Joined
<1>7. g[m].key # k /\ \A x \in E : g[x].key # k
  <2>1. \A x \in DOMAIN g : g[x].key \in Int
    BY <1>1, HeapFacts
  <2>2. QED
    BY <2>1 DEF Joined
<1>8. Pairs(p.h, N) = Without(Pairs(h, S), k)
  <2>1. Without(Pairs(g, S), k) = Pairs(g, E) \cup {Pair(g, m)} \cup Without(Pairs(g, F), k)
    <3>1. Pairs(g, S) = Pairs(g, E) \cup {Pair(g, m)} \cup Pairs(g, F)
      BY DEF Pairs
    <3>2. Pair(g, m)[1] # k /\ \A z \in Pairs(g, E) : z[1] # k
      BY <1>7, PairFacts
    <3>3. QED
      BY <3>1, <3>2 DEF Without
  <2>2. Pairs(p.h, N) = Pairs(p.h, E) \cup {Pair(p.h, m)} \cup Pairs(p.h, T)
    BY DEF Pairs
  <2>3. Pairs(p.h, T) = Without(Pairs(g, F), k)
    BY DEF Removed
  <2>4. Pairs(p.h, E) = Pairs(g, E) /\ Pair(p.h, m) = Pair(g, m)
    BY <1>2, PairsSame DEF Pair
  <2>5. Pairs(g, S) = Pairs(h, S)
    BY PairsOfChanges
  <2>6. QED
    BY <2>1, <2>2, <2>3, <2>4, <2>5
<1> HIDE DEF N, q
<1>9. Removed(h, S, k, q, N)
  BY <1>5, <1>6, <1>8, RemovedFixed
<1>10. q.hit = p.hit
  BY <1>5 DEF Fixed
<1>11. QED
  BY <1>9, <1>10 DEF HasRemoved, q

(* The pair of the least key on the right moves up.                        *)
LEMMA PairMovedIs ==
  ASSUME NEW h, IsHeap(h), NEW m \in DOMAIN h, NEW k \in Keys, NEW v \in Values
  PROVE  LET g == PairMoved(h, m, k, v) IN
         /\ IsHeap(g) /\ Only(h, g, {m}) /\ g[m].key = k /\ g[m].value = v
         /\ g[m].left = h[m].left /\ g[m].right = h[m].right /\ g[m].red = h[m].red
<1> DEFINE r == [h[m] EXCEPT !.key = k, !.value = v]
           g == PairMoved(h, m, k, v)
<1>1. h[m] \in Mnodes
  BY HeapFacts
<1>2. /\ r \in Mnodes /\ r.key = k /\ r.value = v
      /\ r.left = h[m].left /\ r.right = h[m].right /\ r.red = h[m].red
  BY <1>1 DEF Mnodes
<1>3. g = [h EXCEPT ![m] = r]
  BY <1>1 DEF PairMoved
<1> HIDE DEF r, g
<1>4. IsHeap(g) /\ DOMAIN g = DOMAIN h /\ g[m] = r /\ \A x \in DOMAIN h : x # m => g[x] = h[x]
  BY <1>2, <1>3, HeapWith
<1>5. QED
  BY <1>2, <1>4 DEF Only, g

LEMMA DeletedHere ==
  ASSUME NEW h, NEW g, NEW S, S \subseteq DOMAIN h, Changes(h, g, S),
         NEW E, NEW m, NEW F, Joins(g, S, E, m, F),
         Tree(g, g[m].left, E), Distinct(g, F), NEW k, k = g[m].key,
         NEW min, LeastKey(g, F, min), NEW y \in F, g[y].key = min, NEW v, v = g[y].value,
         NEW p, NEW T, Removed(PairMoved(g, m, min, v), F, min, p, T)
  PROVE  HasRemoved(h, S, k, p, FixRight(m, p))
<1> DEFINE q == FixRight(m, p)
           N == E \cup {m} \cup T
           f == PairMoved(g, m, min, v)
<1> S = E \cup {m} \cup F /\ Joined(g, m, E, F)
  BY DEF Joins
<1>1. IsHeap(g) /\ SameData(h, g) /\ Only(h, g, S) /\ m \in DOMAIN g
  BY DEF Changes, Joined
<1>2. E \subseteq DOMAIN g /\ F \subseteq DOMAIN g /\ y \in DOMAIN g
  BY DEF Joined
<1>3. m \notin E /\ m \notin F /\ E \cap F = {}
  BY <1>1, JoinedApart
<1>4. /\ IsHeap(f) /\ Only(g, f, {m}) /\ f[m].key = min /\ f[m].value = v
      /\ f[m].left = g[m].left
  <2>1. min \in Keys /\ v \in Values
    BY <1>1, <1>2, HeapFacts
  <2>2. QED
    BY <1>1, <2>1, PairMovedIs
<1> HIDE DEF f
<1>5. Removed(f, F, min, p, T)
  BY DEF f
<1>6. IsHeap(p.h) /\ Span(p.h, p.n, T, NoDepth) /\ Only(f, p.h, F) /\ T \subseteq F
  BY <1>5 DEF Removed, Tree
<1> DEFINE X == {m} \cup F
<1>7. Only(g, p.h, X)
  BY <1>4, <1>6 DEF Only
<1>8. DOMAIN f = DOMAIN g /\ DOMAIN p.h = DOMAIN g /\ \A x \in F : f[x] = g[x]
  BY <1>2, <1>3, <1>4, <1>6 DEF Only
<1>9. p.h[m] = f[m] /\ \A x \in E : p.h[x] = g[x]
  <2>1. p.h[m] = f[m]
    BY <1>1, <1>3, <1>6, <1>8 DEF Only
  <2>2. \A x \in E : p.h[x] = g[x]
    BY <1>2, <1>3, <1>7 DEF Only
  <2>3. QED
    BY <2>1, <2>2
<1>10. \A x \in DOMAIN g : g[x].key \in Int
  BY <1>1, HeapFacts
<1>11. Joined(p.h, m, E, T)
  <2>1. \A t \in T : p.h[t].key > min
    <3>1. ASSUME NEW t \in T
          PROVE  p.h[t].key > min
      <4>1. PICK s \in F : p.h[t].key = f[s].key /\ f[s].key # min
        BY <1>5, RemovedKeys
      <4>2. f[s].key = g[s].key /\ min <= g[s].key /\ g[s].key \in Int /\ min \in Int
        BY <1>2, <1>8, <1>10 DEF LeastKey
      <4>3. QED
        BY <4>1, <4>2
    <3>2. QED
      BY <3>1
  <2>2. \A x \in E : p.h[x].key < min
    <3>1. \A x \in E : g[x].key < g[m].key /\ g[m].key < g[y].key
      BY DEF Joined
    <3>2. QED
      BY <1>1, <1>2, <1>9, <1>10, <3>1
  <2>3. QED
    BY <1>1, <1>2, <1>4, <1>6, <1>8, <1>9, <2>1, <2>2 DEF Joined
<1>12. Span(p.h, p.h[m].left, E, NoDepth)
  <2>1. E \cap X = {} /\ Span(g, g[m].left, E, NoDepth)
    BY <1>3 DEF Tree
  <2> HIDE DEF X
  <2>2. Span(p.h, g[m].left, E, NoDepth)
    BY <1>1, <1>7, <2>1, NoDepthFacts, SpanUntouched
  <2>3. QED
    BY <1>4, <1>9, <2>2
<1>13. PICK e : Fixed(p.h, e, m, N, q, p.hit)
  BY <1>6, <1>11, <1>12, NoDepthFacts, FixRightIs
<1>14. Only(h, p.h, S) /\ N \subseteq S /\ N \subseteq DOMAIN p.h
  BY <1>1, <1>2, <1>6, <1>7, <1>8 DEF Only
<1>15. Pairs(p.h, N) = Without(Pairs(h, S), k)
  <2>1. \A x \in E \cup F : g[x].key # k
    BY <1>1, <1>2, <1>10 DEF Joined
  <2>2. Without(Pairs(g, S), k) = Pairs(g, E) \cup Pairs(g, F)
    <3>1. Pairs(g, S) = Pairs(g, E) \cup {Pair(g, m)} \cup Pairs(g, F)
      BY DEF Pairs
    <3>2. Pair(g, m)[1] = k /\ \A z \in Pairs(g, E) \cup Pairs(g, F) : z[1] # k
      BY <2>1, PairFacts
    <3>3. QED
      BY <3>1, <3>2 DEF Without
  <2>3. Pairs(g, F) = {Pair(g, y)} \cup Without(Pairs(g, F), min)
    <3>1. Pair(g, y) \in Pairs(g, F)
      BY PairFacts
    <3>2. ASSUME NEW z \in Pairs(g, F), z[1] = min
          PROVE  z = Pair(g, y)
      <4>1. PICK s \in F : z = Pair(g, s)
        BY PairFacts
      <4>2. g[s].key = g[y].key
        BY <3>2, <4>1, PairFacts
      <4>3. QED
        BY <4>1, <4>2 DEF Distinct
    <3>3. QED
      BY <3>1, <3>2 DEF Without
  <2>4. Pairs(p.h, N) = Pairs(p.h, E) \cup {Pair(p.h, m)} \cup Pairs(p.h, T)
    BY DEF Pairs
  <2>5. Pairs(p.h, T) = Without(Pairs(f, F), min)
    BY <1>5 DEF Removed
  <2>6. Pairs(f, F) = Pairs(g, F) /\ Pairs(p.h, E) = Pairs(g, E)
    BY <1>8, <1>9, PairsSame
  <2>7. Pair(p.h, m) = Pair(g, y)
    BY <1>4, <1>9 DEF Pair
  <2>8. Pairs(g, S) = Pairs(h, S)
    BY PairsOfChanges
  <2>9. QED
    BY <2>2, <2>3, <2>4, <2>5, <2>6, <2>7, <2>8, SMTT(30)
<1> HIDE DEF N, q
<1>16. Removed(h, S, k, q, N)
  BY <1>13, <1>14, <1>15, RemovedFixed
<1>17. q.hit = p.hit
  BY <1>13 DEF Fixed
<1>18. QED
  BY <1>16, <1>17 DEF HasRemoved, q

-----------------------------------------------------------------------------
(* nodeDeleteMin.                                                          *)

LEMMA CallFacts ==
  ASSUME NEW h, IsHeap(h), NEW g, IsHeap(g), DOMAIN g = DOMAIN h, NEW n \in Links
  PROVE  Call(g, n) \in Calls(h) /\ Call(g, n).h = g /\ Call(g, n).n = n
BY DEF Call, Calls, IsHeap

(* A leaf goes.                                                            *)
LEMMA LeafRemoved ==
  ASSUME NEW h, IsHeap(h), NEW n, NEW k, k = h[n].key, NEW r, IsAnswer(r), r.h = h, r.n = Null
  PROVE  Removed(h, {n}, k, r, {})
<1>1. Tree(h, Null, {})
  BY NothingSpans, NoDepthFacts DEF Tree
<1>2. Pairs(h, {}) = {}
  BY DEF Pairs
<1>3. Without(Pairs(h, {n}), k) = {}
  <2>1. \A p \in Pairs(h, {n}) : p[1] = k
    BY PairFacts
  <2>2. QED
    BY <2>1 DEF Without
<1>4. QED
  BY <1>1, <1>2, <1>3 DEF Removed, Only

(* Nothing below a black right child next to nothing on the left.          *)
LEMMA NothingBeside ==
  ASSUME NEW h, IsHeap(h), NEW n, NEW A, NEW B, NEW c \in Nat, Halves(h, n, A, B, c),
         \/ h[n].left = Null /\ ~Red(h, h[n].right)
         \/ h[n].right = Null /\ ~Red(h, h[n].left)
  PROVE  A = {} /\ B = {} /\ h[n].left = Null /\ h[n].right = Null
<1>1. Span(h, h[n].left, A, c) /\ Span(h, h[n].right, B, c) /\ c \in Int
  BY DEF Halves
<1>2. c <= 0
  BY <1>1, SpanInHeap
<1>3. h[n].left = Null /\ h[n].right = Null
  BY <1>1, <1>2, BlackIsDeep
<1>4. QED
  BY <1>1, <1>3, SpanInHeap

(* The least key is on the left if there is a left.                        *)
LEMMA LeastIsLeft ==
  ASSUME NEW h, IsHeap(h), NEW g, NEW S, S \subseteq DOMAIN h, Changes(h, g, S),
         NEW m, NEW E, NEW F, S = E \cup {m} \cup F, Joined(g, m, E, F), E # {},
         NEW k, LeastKey(h, S, k)
  PROVE  LeastKey(g, E, k)
<1>1. \A x \in S : g[x].key = h[x].key /\ g[x].key \in Int
  BY HeapFacts DEF Changes, SameData
<1>2. PICK s \in S : g[s].key = k
  BY <1>1 DEF LeastKey
<1>3. \A x \in S : k <= g[x].key
  BY <1>1 DEF LeastKey
<1>4. s \in E
  BY <1>1, <1>2, <1>3 DEF Joined
<1>5. QED
  BY <1>2, <1>3, <1>4 DEF LeastKey

LEMMA DeleteMinRemoves ==
  ASSUME NEW h, IsHeap(h), NEW n, NEW S, NEW b \in Nat, Span(h, n, S, b), n # Null,
         NEW k, LeastKey(h, S, k)
  PROVE  \E T : Removed(h, S, k, NodeDeleteMin(h, n), T)
<1>1. PICK f : /\ \A d \in 1..Deepest : \A c \in Calls(h) :
                    f[d][c] = DeletingMin(f[d - 1], c.h, c.n)
               /\ \A m : NodeDeleteMin(h, m) = f[Deepest][Call(h, m)]
  BY DeleteMinSteps
<1> DEFINE Good(g, x, X, d) == \E T : Removed(g, X, k, f[d][Call(g, x)], T)
           M == {d \in 0..Deepest : \A g, x, X : \A c \in Nat :
                   (/\ IsHeap(g) /\ DOMAIN g = DOMAIN h /\ Span(g, x, X, c) /\ x # Null
                    /\ LeastKey(g, X, k) /\ Cardinality(X) < d)
                   => Good(g, x, X, d)}
<1>2. 0 \in M
  <2>1. \A g, x, X : \A c \in Nat :
          (/\ IsHeap(g) /\ Span(g, x, X, c)) => ~(Cardinality(X) < 0)
    BY SpanInHeap, SizeOfTree
  <2>2. QED
    BY <2>1, DeepestFacts
<1>3. ASSUME NEW d \in 1..Deepest, d - 1 \in M
      PROVE  d \in M
  <2>1. ASSUME NEW g, NEW x, NEW X, NEW a \in Nat, IsHeap(g), DOMAIN g = DOMAIN h,
               Span(g, x, X, a), x # Null, LeastKey(g, X, k), Cardinality(X) < d
        PROVE  Good(g, x, X, d)
    <3>1. X \subseteq DOMAIN g /\ x \in Links
      BY <2>1, SpanInHeap
    <3>2. f[d][Call(g, x)] = DeletingMin(f[d - 1], g, x)
      BY <1>1, <2>1, <3>1, CallFacts
    <3>3. PICK A, B : \E c \in Nat : /\ Halves(g, x, A, B, c) /\ X = A \cup {x} \cup B
                                     /\ ~Red(g, g[x].right)
      BY <2>1, SpanParts
    <3>4. PICK c \in Nat : /\ Halves(g, x, A, B, c) /\ X = A \cup {x} \cup B
                           /\ ~Red(g, g[x].right)
      BY <3>3
    <3>5. CASE g[x].left = Null
      <4>1. A = {} /\ B = {}
        BY <2>1, <3>4, <3>5, NothingBeside
      <4>2. X = {x} /\ k = g[x].key
        BY <2>1, <3>4, <4>1 DEF LeastKey
      <4>3. f[d][Call(g, x)] = R(g, Null)
        BY <3>2, <3>5 DEF DeletingMin
      <4> DEFINE p == f[d][Call(g, x)]
      <4>4. p.h = g /\ p.n = Null /\ IsAnswer(p)
        BY <4>3, RFacts, AnswerFacts
      <4> HIDE DEF p, M
      <4>5. Removed(g, {x}, k, p, {})
        BY <2>1, <4>2, <4>4, LeafRemoved
      <4>6. QED
        BY <4>2, <4>5 DEF p
    <3>6. CASE g[x].left # Null
      <4>1. PICK e, m, E, F : \E l \in Nat :
               /\ (IF TwoNodeLeft(g, x) THEN MoveRedLeft(g, x) ELSE R(g, x)) = R(e, m)
               /\ WentLeft(g, x, A, B, c, e, m, E, F, l)
        BY <2>1, <3>4, <3>6, GoLeft
      <4>2. PICK l \in Nat :
               /\ (IF TwoNodeLeft(g, x) THEN MoveRedLeft(g, x) ELSE R(g, x)) = R(e, m)
               /\ WentLeft(g, x, A, B, c, e, m, E, F, l)
        BY <4>1
      <4>3. /\ Changes(g, e, X) /\ X = E \cup {m} \cup F /\ Halves(e, m, E, F, l)
            /\ e[m].left # Null
        BY <3>4, <4>2 DEF WentLeft
      <4>4. /\ IsHeap(e) /\ DOMAIN e = DOMAIN h /\ Joined(e, m, E, F)
            /\ Span(e, e[m].left, E, l) /\ l \in Int
        BY <2>1, <4>3 DEF Changes, SameData, Halves
      <4>5. e[m].left \in E /\ e[m].left \in Links
        BY <4>3, <4>4, SpanInHeap
      <4>6. LeastKey(e, E, k)
        BY <2>1, <3>1, <4>3, <4>4, <4>5, LeastIsLeft
      <4>7. Cardinality(E) < d - 1
        <5>1. /\ Cardinality(E) < Cardinality(X) /\ Cardinality(E) \in Nat
              /\ Cardinality(X) \in Nat
          BY <4>3, <4>4, HalvesAreLess
        <5>2. QED
          BY <2>1, <5>1
      <4> DEFINE p == f[d - 1][Call(e, e[m].left)]
      <4>8. Good(e, e[m].left, E, d - 1)
        BY <1>3, <4>3, <4>4, <4>6, <4>7
      <4>9. PICK T : Removed(e, E, k, p, T)
        BY <4>8
      <4>10. f[d][Call(g, x)] = FixLeft(m, p)
        <5>1. ~(m < 0)
          BY <4>4, HeapFacts, LinkFacts DEF Joined
        <5>2. QED
          BY <3>2, <3>6, <4>2, <5>1, RFacts DEF DeletingMin, Then
      <4> HIDE DEF p, M
      <4>11. Tree(e, e[m].right, F)
        BY <4>3, <4>4, SpanIsTree DEF Halves
      <4>12. \E s \in E : e[s].key = k
        BY <4>6 DEF LeastKey
      <4>13. Removed(g, X, k, FixLeft(m, p), T \cup {m} \cup F)
        BY <3>1, <4>3, <4>4, <4>9, <4>11, <4>12, DeletedLeft
      <4>14. QED
        BY <4>10, <4>13
    <3>7. QED
      BY <3>5, <3>6
  <2>2. d \in 0..Deepest
    BY DeepestFacts
  <2>3. QED
    BY <2>1, <2>2
<1>4. \A d \in 0..Deepest : d \in M
  <2> HIDE DEF M
  <2>1. QED
    BY <1>2, <1>3, DeepestFacts, Induction
<1>5. Deepest \in M
  <2> HIDE DEF M
  <2>1. QED
    BY <1>4, DeepestFacts
<1>6. Cardinality(S) < Deepest
  <2>1. Tree(h, n, S)
    BY SpanIsTree
  <2>2. QED
    BY <2>1, TreeFits
<1>7. Good(h, n, S, Deepest)
  BY <1>5, <1>6
<1>8. QED
  BY <1>1, <1>7


-----------------------------------------------------------------------------
(* nodeDelete.                                                             *)

(* A tree has one black depth.                                             *)
LEMMA OneDepth ==
  ASSUME NEW h, IsHeap(h), NEW n, NEW S, NEW b \in Nat, NEW c \in Nat,
         Span(h, n, S, b), Span(h, n, S, c)
  PROVE  b = c
<1> DEFINE M == {d \in 0..Deepest : \A x, X : \A i, j \in Nat :
                   Span(h, x, X, i) /\ Span(h, x, X, j) /\ Cardinality(X) < d => i = j}
<1>1. 0 \in M
  <2>1. \A x, X : \A i \in Nat : Span(h, x, X, i) => ~(Cardinality(X) < 0)
    BY SpanInHeap, SizeOfTree
  <2>2. QED
    BY <2>1, DeepestFacts
<1>2. ASSUME NEW d \in 1..Deepest, d - 1 \in M
      PROVE  d \in M
  <2>1. ASSUME NEW x, NEW X, NEW i \in Nat, NEW j \in Nat,
               Span(h, x, X, i), Span(h, x, X, j), Cardinality(X) < d
        PROVE  i = j
    <3>1. CASE x = Null
      <4>1. i <= 0 /\ j <= 0
        BY <2>1, <3>1, SpanInHeap
      <4>2. QED
        BY <4>1
    <3>2. CASE x # Null
      <4>1. PICK A, B : \E u \in Nat :
               /\ Halves(h, x, A, B, u) /\ X = A \cup {x} \cup B
               /\ Red(h, x) => i = u
               /\ ~Red(h, x) => i = u + 1
        BY <2>1, <3>2, SpanParts
      <4>2. PICK u \in Nat :
               /\ Halves(h, x, A, B, u) /\ X = A \cup {x} \cup B
               /\ Red(h, x) => i = u
               /\ ~Red(h, x) => i = u + 1
        BY <4>1
      <4>3. Joined(h, x, A, B) /\ Span(h, h[x].left, A, u)
        BY <4>2 DEF Halves
      <4>4. PICK w \in Nat : /\ Span(h, h[x].left, A, w)
                             /\ Red(h, x) => j = w
                             /\ ~Red(h, x) => j = w + 1
        <5>1. Span(h, x, A \cup {x} \cup B, j)
          BY <2>1, <4>2
        <5>2. QED
          BY <4>3, <5>1, NearlyKeptHalves
      <4>5. Cardinality(A) < d - 1
        <5>1. /\ Cardinality(A) < Cardinality(X) /\ Cardinality(A) \in Nat
              /\ Cardinality(X) \in Nat
          BY <4>2, <4>3, HalvesAreLess
        <5>2. QED
          BY <2>1, <5>1
      <4>6. u = w
        BY <1>2, <4>3, <4>4, <4>5
      <4>7. QED
        BY <4>2, <4>4, <4>6
    <3>3. QED
      BY <3>1, <3>2
  <2>2. d \in 0..Deepest
    BY DeepestFacts
  <2>3. QED
    BY <2>1, <2>2
<1>3. \A d \in 0..Deepest : d \in M
  <2> HIDE DEF M
  <2>1. QED
    BY <1>1, <1>2, DeepestFacts, Induction
<1>4. Deepest \in M
  <2> HIDE DEF M
  <2>1. QED
    BY <1>3, DeepestFacts
<1>5. Cardinality(S) < Deepest
  <2>1. Tree(h, n, S)
    BY SpanIsTree
  <2>2. QED
    BY <2>1, TreeFits
<1>6. QED
  BY <1>4, <1>5

(* A balanced tree stays balanced below r.n, of the same black depth if    *)
(* there was a red node to take from.                                      *)
Cooled(h, n, S, r, T) ==
  \A b \in Nat : Span(h, n, S, b) =>
    IF Warm(h, n)
      THEN Span(r.h, r.n, T, b) /\ (~Red(h, n) => ~Red(r.h, r.n))
      ELSE \E e \in Nat : Span(r.h, r.n, T, e) \/ Raised(r.h, r.n, T, e)

(* k goes, and if it was the least key the balance is kept.                *)
Deleted(h, n, S, k, r) ==
  /\ r.hit = TRUE
  /\ \E T : Removed(h, S, k, r, T) /\ (LeastKey(h, S, k) => Cooled(h, n, S, r, T))

(* A balanced tree and its halves have the depths of the halves.           *)
LEMMA DepthOfHalves ==
  ASSUME NEW h, IsHeap(h), NEW n, NEW A, NEW B, NEW c \in Nat, Halves(h, n, A, B, c),
         NEW b \in Nat, Span(h, n, A \cup {n} \cup B, b)
  PROVE  /\ ~Red(h, h[n].right) /\ (Red(h, n) => ~Red(h, h[n].left))
         /\ Red(h, n) => b = c
         /\ ~Red(h, n) => b = c + 1
<1>1. Joined(h, n, A, B) /\ Span(h, h[n].left, A, c)
  BY DEF Halves
<1>2. PICK w \in Nat : /\ Span(h, h[n].left, A, w)
                       /\ ~Red(h, h[n].right) /\ (Red(h, n) => ~Red(h, h[n].left))
                       /\ Red(h, n) => b = w
                       /\ ~Red(h, n) => b = w + 1
  BY <1>1, NearlyKeptHalves
<1>3. w = c
  BY <1>1, <1>2, OneDepth
<1>4. QED
  BY <1>2, <1>3

(* On the way to the right there is a key less than k on the left.         *)
LEMMA NotTheLeast ==
  ASSUME NEW h, IsHeap(h), NEW n, NEW A, NEW B, NEW c \in Nat, Halves(h, n, A, B, c),
         h[n].left # Null \/ h[n].right # Null, NEW k \in Int, k >= h[n].key,
         NEW r, NEW T, LeastKey(h, A \cup {n} \cup B, k)
  PROVE  Cooled(h, n, A \cup {n} \cup B, r, T)
<1>1. SUFFICES ASSUME NEW b \in Nat, Span(h, n, A \cup {n} \cup B, b)
               PROVE  FALSE
  BY DEF Cooled
<1>2. ~Red(h, h[n].right)
  BY <1>1, DepthOfHalves
<1>3. h[n].left # Null
  BY <1>2, NothingBeside
<1>4. Joined(h, n, A, B) /\ Span(h, h[n].left, A, c) /\ c \in Int
  BY DEF Halves
<1>5. h[n].left \in A
  BY <1>3, <1>4, SpanInHeap
<1>6. /\ h[h[n].left].key < h[n].key /\ k <= h[h[n].left].key
      /\ h[h[n].left].key \in Int /\ h[n].key \in Int
  BY <1>4, <1>5, HeapFacts DEF LeastKey, Joined
<1>7. QED
  BY <1>6

(* k is on the left: the node that nodeFixUp restores there.               *)
LEMMA CooledLeft ==
  ASSUME NEW h, IsHeap(h), NEW n, NEW A, NEW B, NEW c \in Nat, Halves(h, n, A, B, c),
         NEW g, NEW m, NEW E, NEW F, NEW d \in Nat, WentLeft(h, n, A, B, c, g, m, E, F, d),
         NEW k, NEW p, NEW T, Removed(g, E, k, p, T), Cooled(g, g[m].left, E, p, T)
  PROVE  Cooled(h, n, A \cup {n} \cup B, FixLeft(m, p), T \cup {m} \cup F)
<1> DEFINE q == FixLeft(m, p)
           N == T \cup {m} \cup F
<1>1. /\ IsHeap(g) /\ Joined(g, m, E, F) /\ d \in Int
      /\ Span(g, g[m].left, E, d) /\ Span(g, g[m].right, F, d)
  BY DEF WentLeft, Changes, Halves
<1>2. Span(p.h, p.n, T, d) /\ (~Red(g, g[m].left) => ~Red(p.h, p.n))
  BY <1>1 DEF Cooled, WentLeft
<1>3. /\ p.h[m] = g[m] /\ \A x \in F : p.h[x] = g[x]
      /\ Joined(p.h, m, T, F) /\ Span(p.h, g[m].right, F, d)
  BY <1>1, BesideDeletedLeft
<1>4. IsHeap(p.h)
  BY DEF Removed
<1>5. Span(p.h, p.h[m].right, F, d)
  BY <1>3
<1>6. PICK e : /\ HungLeft(p.h, e, m, p.n) /\ Joined(e, m, T, F)
               /\ Span(e, p.n, T, d) /\ Span(e, e[m].right, F, d)
               /\ Fixed(p.h, e, m, N, q, p.hit)
  BY <1>1, <1>2, <1>3, <1>4, <1>5, FixLeftIs
<1>7. /\ IsHeap(e) /\ e[m].left = p.n /\ e[m].right = g[m].right
      /\ e[m].red = g[m].red /\ Only(p.h, e, {m}) /\ m \in DOMAIN e /\ m # Null
      /\ m \in DOMAIN g
  <2>1. m \in DOMAIN e /\ m \in DOMAIN g /\ m # Null
    BY <1>1, <1>6, HeapFacts, LinkFacts DEF Joined
  <2>2. QED
    BY <1>3, <1>6, <2>1 DEF HungLeft
<1>8. Red(e, m) = g[m].red /\ g[m].red \in BOOLEAN
  BY <1>1, <1>7, HeapFacts DEF Red
<1>9. Red(e, p.n) = Red(p.h, p.n)
  <2>1. p.n = Null \/ p.n \in T
    BY <1>1, <1>2, <1>4, SpanInHeap
  <2>2. m \notin T
    BY <1>3, <1>4, JoinedApart
  <2>3. T \subseteq DOMAIN p.h
    BY <1>3 DEF Joined
  <2>4. QED
    BY <1>7, <2>1, <2>2, <2>3, RedKept
<1>10. Red(e, e[m].right) = Red(g, g[m].right)
  <2>1. g[m].right = Null \/ g[m].right \in F
    BY <1>1, SpanInHeap
  <2>2. m \notin F
    BY <1>1, JoinedApart
  <2>3. F \subseteq DOMAIN p.h
    BY <1>3 DEF Joined
  <2>4. Red(e, g[m].right) = Red(p.h, g[m].right)
    BY <1>7, <2>1, <2>2, <2>3, RedKept
  <2>5. Red(p.h, g[m].right) = Red(g, g[m].right)
    BY <1>3, <2>1 DEF Red
  <2>6. QED
    BY <1>7, <2>4, <2>5
<1>11. q.h = FixUp(e, m).h /\ q.n = FixUp(e, m).n
  BY <1>6 DEF Fixed
<1> HIDE DEF q
<1>12. ASSUME NEW b \in Nat, Span(h, n, A \cup {n} \cup B, b)
       PROVE  IF Warm(h, n) THEN Span(q.h, q.n, N, b) /\ (~Red(h, n) => ~Red(q.h, q.n))
              ELSE \E i \in Nat : Span(q.h, q.n, N, i) \/ Raised(q.h, q.n, N, i)
  <2>1. /\ Red(h, n) => ~Red(h, h[n].left)
        /\ Red(h, n) => b = c
        /\ ~Red(h, n) => b = c + 1
    BY <1>12, DepthOfHalves
  <2>2. Red(h, n) = h[n].red /\ h[n].red \in BOOLEAN
    <3>1. n \in DOMAIN h
      BY DEF Halves, Joined
    <3>2. n # Null
      BY <3>1, HeapFacts, LinkFacts
    <3>3. QED
      BY <3>1, <3>2, HeapFacts DEF Red
  <2>3. Halves(e, m, T, F, d)
    BY <1>6, <1>7 DEF Halves
  <2>4. CASE /\ d = c /\ ~Red(g, g[m].right) /\ g[m].red = h[n].red
             /\ Red(g, g[m].left) => Red(h, h[n].left)
    <3>1. FixUp(e, m) = R(e, m)
      BY <1>1, <1>6, <1>7, <1>10, <2>4, NothingToFix
    <3>2. q.h = e /\ q.n = m
      BY <1>11, <3>1, RFacts
    <3>3. CASE Red(h, n)
      <4>1. ~Red(e, e[m].left)
        BY <1>2, <1>7, <1>9, <2>1, <2>4, <3>3
      <4>2. Red(e, m) /\ ~Red(e, e[m].right)
        BY <1>7, <1>8, <1>10, <2>2, <2>4, <3>3
      <4>3. Span(e, m, N, d)
        BY <1>1, <1>7, <2>3, <4>1, <4>2, JoinUnderRed
      <4>4. QED
        BY <2>1, <2>4, <3>2, <3>3, <4>3 DEF Warm
    <3>4. CASE ~Red(h, n)
      <4>1. ~Red(e, m)
        BY <1>8, <2>2, <2>4, <3>4
      <4>2. Span(e, m, N, d + 1)
        BY <1>1, <1>7, <1>10, <2>3, <2>4, <4>1, JoinUnderBlack
      <4>3. QED
        BY <2>1, <2>4, <3>2, <3>4, <4>1, <4>2
    <3>5. QED
      BY <3>3, <3>4
  <2>5. CASE /\ d + 1 = c /\ Red(g, g[m].right) /\ g[m].red = ~h[n].red
             /\ ~Red(h, h[n].left)
    <3>1. /\ ~Red(e, m) => Span(q.h, q.n, N, d + 1)
          /\ Red(e, m) /\ ~Red(e, e[m].left) => Raised(q.h, q.n, N, d)
          /\ Red(e, m) /\ Red(e, e[m].left) /\ Red(e, e[m].right) => Span(q.h, q.n, N, d + 2)
      <4>1. Span(e, e[m].left, T, d)
        BY <1>6, <1>7
      <4>2. QED
        BY <1>1, <1>6, <1>7, <1>11, <4>1, RightFixed
    <3>2. CASE Red(h, n)
      <4>1. ~Red(e, m)
        BY <1>8, <2>2, <2>5, <3>2
      <4>2. QED
        BY <2>1, <2>5, <3>1, <3>2, <4>1 DEF Warm
    <3>3. CASE ~Red(h, n)
      <4>1. Red(e, m) /\ Red(e, e[m].right)
        BY <1>8, <1>10, <2>2, <2>5, <3>3
      <4>2. Raised(q.h, q.n, N, d) \/ Span(q.h, q.n, N, d + 2)
        BY <3>1, <4>1
      <4>3. d + 2 \in Nat
        OBVIOUS
      <4>4. QED
        BY <2>5, <3>3, <4>2, <4>3 DEF Warm
    <3>4. QED
      BY <3>2, <3>3
  <2>6. QED
    BY <2>4, <2>5 DEF WentLeft
<1>13. QED
  BY <1>12 DEF Cooled, q

LEMMA DeletedOnLeft ==
  ASSUME NEW h, IsHeap(h), NEW n, NEW A, NEW B, NEW c \in Nat, Halves(h, n, A, B, c),
         NEW g, NEW m, NEW E, NEW F, NEW d \in Nat, WentLeft(h, n, A, B, c, g, m, E, F, d),
         NEW k, \E s \in E : g[s].key = k, NEW p, Deleted(g, g[m].left, E, k, p)
  PROVE  Deleted(h, n, A \cup {n} \cup B, k, FixLeft(m, p))
<1> DEFINE S == A \cup {n} \cup B
<1>1. /\ Changes(h, g, S) /\ S = E \cup {m} \cup F /\ IsHeap(g) /\ Joined(g, m, E, F)
      /\ Span(g, g[m].right, F, d) /\ d \in Int
  BY DEF WentLeft, Changes, Halves
<1>2. S \subseteq DOMAIN h /\ Tree(g, g[m].right, F)
  <2>1. S \subseteq DOMAIN h
    BY DEF Halves, Joined
  <2>2. QED
    BY <1>1, <2>1, SpanIsTree
<1>3. PICK T : Removed(g, E, k, p, T) /\ (LeastKey(g, E, k) => Cooled(g, g[m].left, E, p, T))
  BY DEF Deleted
<1> DEFINE N == T \cup {m} \cup F
           q == FixLeft(m, p)
<1>4. Removed(h, S, k, q, N) /\ q.hit = p.hit
  <2> HIDE DEF S
  <2>1. QED
    BY <1>1, <1>2, <1>3, DeletedLeft
<1>5. ASSUME LeastKey(h, S, k)
      PROVE  Cooled(h, n, S, q, N)
  <2>1. E # {}
    OBVIOUS
  <2>2. LeastKey(g, E, k)
    <3> HIDE DEF S
    <3>1. QED
      BY <1>1, <1>2, <1>5, <2>1, LeastIsLeft
  <2>3. Cooled(g, g[m].left, E, p, T)
    BY <1>3, <2>2
  <2>4. QED
    BY <1>3, <2>3, CooledLeft
<1>6. p.hit = TRUE
  BY DEF Deleted
<1> HIDE DEF q, N, S
<1>7. Deleted(h, n, S, k, q)
  BY <1>4, <1>5, <1>6 DEF Deleted
<1>8. QED
  BY <1>7 DEF q, S

(* k is in a leaf.                                                         *)
LEMMA DeletedLeaf ==
  ASSUME NEW h, IsHeap(h), NEW n, NEW c \in Nat, Halves(h, n, {}, {}, c),
         h[n].left = Null, NEW k, k = h[n].key
  PROVE  Deleted(h, n, {n}, k, Found(R(h, Null)))
<1> DEFINE r == Found(R(h, Null))
<1>1. IsAnswer(r) /\ r.h = h /\ r.n = Null /\ r.hit = TRUE
  BY AnswerFacts, RFacts
<1> HIDE DEF r
<1>2. Removed(h, {n}, k, r, {})
  BY <1>1, LeafRemoved
<1>3. Span(r.h, r.n, {}, 0) /\ ~Red(r.h, r.n)
  BY <1>1, NothingSpans DEF Red
<1>4. Cooled(h, n, {n}, r, {})
  <2>1. SUFFICES ASSUME NEW b \in Nat, Span(h, n, {n}, b), Warm(h, n)
                 PROVE  b = 0
    BY <1>3 DEF Cooled
  <2>2. Span(h, n, {} \cup {n} \cup {}, b)
    BY <2>1
  <2>3. Red(h, n) => b = c
    BY <2>2, DepthOfHalves
  <2>4. Red(h, n)
    BY <2>1 DEF Warm, Red
  <2>5. c <= 0
    <3>1. Span(h, Null, {}, c) /\ c \in Int
      BY DEF Halves
    <3>2. QED
      BY <3>1, SpanOfNull
  <2>6. QED
    BY <2>3, <2>4, <2>5
<1>5. QED
  BY <1>1, <1>2, <1>4 DEF Deleted, r

(* k has nodes on its right: the pair of the least of them moves up.       *)
Gone(h, S, k, q) == q.hit = TRUE /\ \E T : Removed(h, S, k, q, T)

LEMMA ReplaceRemoves ==
  ASSUME NEW h, IsHeap(h), NEW S, S \subseteq DOMAIN h, NEW k, NEW g, NEW m, NEW E, NEW F,
         WentRight(h, S, k, g, m, E, F), g[m].key = k
  PROVE  Gone(h, S, k, Replace(g, m))
<1>1. /\ Changes(h, g, S) /\ S = E \cup {m} \cup F /\ Joined(g, m, E, F) /\ IsHeap(g)
      /\ Tree(g, g[m].left, E) /\ Tree(g, g[m].right, F) /\ g[m].right # Null
  BY DEF WentRight, Changes
<1>2. PICK d \in Nat : Span(g, g[m].right, F, d)
  BY DEF WentRight
<1> DEFINE min == NodeMin(g, g[m].right)
           y == NodeGetnode(g, g[m].right, min)
           val == g[y].value
           f == PairMoved(g, m, min, val)
           z == NodeDeleteMin(f, g[m].right)
           p == Found(z)
<1>3. Replace(g, m) = FixRight(m, p)
  BY <1>1 DEF Replace
<1>4. LeastKey(g, F, min)
  BY <1>1, MinIsLeast
<1>5. F \subseteq DOMAIN g /\ m \in DOMAIN g
  BY <1>1 DEF Joined
<1>6. min \in Keys /\ min \in Int
  BY <1>1, <1>4, <1>5, HeapFacts DEF LeastKey
<1>7. y \in F /\ g[y].key = min
  <2> HIDE DEF min
  <2>1. Finds(g, F, min, y)
    BY <1>1, <1>6, GetnodeFinds
  <2>2. QED
    BY <1>4, <2>1 DEF Finds, LeastKey
<1> HIDE DEF min, y
<1>8. val \in Values
  BY <1>1, <1>5, <1>7, HeapFacts
<1> HIDE DEF val
<1>9. IsHeap(f) /\ Only(g, f, {m})
  BY <1>1, <1>5, <1>6, <1>8, PairMovedIs
<1>10. m \notin F
  BY <1>1, JoinedApart
<1> HIDE DEF f
<1>11. \A x \in F : f[x] = g[x]
  BY <1>5, <1>9, <1>10 DEF Only
<1>12. LeastKey(f, F, min)
  BY <1>4, <1>11 DEF LeastKey
<1>13. Span(f, g[m].right, F, d)
  <2>1. d \in Int /\ F \cap {m} = {}
    BY <1>10
  <2>2. QED
    BY <1>1, <1>2, <1>9, <2>1, SpanUntouched
<1>14. PICK T : Removed(f, F, min, z, T)
  BY <1>1, <1>9, <1>12, <1>13, DeleteMinRemoves
<1> HIDE DEF z
<1>15. Removed(f, F, min, p, T) /\ p.hit = TRUE
  <2>1. IsAnswer(z)
    BY <1>14 DEF Removed
  <2>2. IsAnswer(p) /\ p.h = z.h /\ p.n = z.n /\ p.hit = TRUE
    BY <2>1, AnswerFacts
  <2> HIDE DEF p
  <2>3. QED
    BY <1>14, <2>2 DEF Removed
<1> HIDE DEF p
<1>16. Distinct(g, F)
  BY <1>2 DEF Span
<1>17. HasRemoved(h, S, k, p, FixRight(m, p))
  <2>1. Removed(PairMoved(g, m, min, val), F, min, p, T) /\ val = g[y].value
    BY <1>15 DEF f, val
  <2>2. Joins(g, S, E, m, F)
    BY <1>1 DEF Joins
  <2>3. Changes(h, g, S) /\ Tree(g, g[m].left, E)
    BY <1>1
  <2>4. y \in F /\ g[y].key = min /\ k = g[m].key
    BY <1>7
  <2>5. QED
    BY <1>4, <1>16, <2>1, <2>2, <2>3, <2>4, DeletedHere
<1>18. QED
  BY <1>3, <1>15, <1>17 DEF HasRemoved, Gone

(* k is here or on the right.                                              *)
Rightward(D, g, m, k) ==
  LET Go(e, x) == IF e[x].key = k THEN Replace(e, x)
                                  ELSE FixRight(x, D[Call(e, e[x].right)])
  IN  Then(IF TwoNodeRight(g, m) THEN MoveRedRight(g, m) ELSE R(g, m), Go)

LEMMA DeletingLeft ==
  ASSUME NEW D, NEW h, NEW n, NEW k, n # Null, k < h[n].key, h[n].left # Null,
         NEW g, NEW m, ~(m < 0),
         (IF TwoNodeLeft(h, n) THEN MoveRedLeft(h, n) ELSE R(h, n)) = R(g, m)
  PROVE  Deleting(D, h, n, k) = FixLeft(m, D[Call(g, g[m].left)])
BY RFacts, SMTT(30) DEF Deleting, Then

LEMMA DeletingRight ==
  ASSUME NEW D, NEW h, NEW n, NEW k, n # Null, ~(k < h[n].key),
         NEW r, r = (IF Red(h, h[n].left) THEN RotateRight(h, n) ELSE R(h, n)),
         NEW g, g = r.h, NEW m, m = r.n, ~(m < 0)
  PROVE  Deleting(D, h, n, k) =
           IF g[m].key = k /\ g[m].right = Null THEN Found(R(g, Null))
           ELSE Rightward(D, g, m, k)
<1>1. CASE g[m].key = k /\ g[m].right = Null
  BY <1>1 DEF Deleting, Then
<1>2. CASE ~(g[m].key = k /\ g[m].right = Null) /\ TwoNodeRight(g, m)
  BY <1>2 DEF Deleting, Then, Rightward
<1>3. CASE ~(g[m].key = k /\ g[m].right = Null) /\ ~TwoNodeRight(g, m)
  BY <1>3 DEF Deleting, Then, Rightward
<1>4. QED
  BY <1>1, <1>2, <1>3

DeletesSmaller(D, h, S, k) ==
  \A e, x, X : (/\ IsHeap(e) /\ DOMAIN e = DOMAIN h /\ Ready(e, x, X, k)
                /\ (\E s \in X : e[s].key = k) /\ Cardinality(X) < Cardinality(S))
               => Deleted(e, x, X, k, D[Call(e, x)])

LEMMA DeletedOnRight ==
  ASSUME NEW h, IsHeap(h), NEW S, S \subseteq DOMAIN h, NEW k \in Int, \E s \in S : h[s].key = k,
         NEW g, NEW m, GoesRight(h, S, k, g, m), NEW D,
         DeletesSmaller(D, h, S, k)
  PROVE  Gone(h, S, k, Rightward(D, g, m, k))
<1>1. PICK e, x, E, F :
         /\ (IF TwoNodeRight(g, m) THEN MoveRedRight(g, m) ELSE R(g, m)) = R(e, x)
         /\ WentRight(h, S, k, e, x, E, F)
  BY DEF GoesRight
<1>2. /\ Changes(h, e, S) /\ S = E \cup {x} \cup F /\ Joined(e, x, E, F) /\ IsHeap(e)
      /\ DOMAIN e = DOMAIN h
      /\ Tree(e, e[x].left, E) /\ Ready(e, e[x].right, F, k)
      /\ e[x].key <= k
  BY <1>1 DEF WentRight, Changes, SameData
<1>3. ~(x < 0) /\ e[x].key \in Int
  BY <1>2, HeapFacts, LinkFacts DEF Joined
<1> DEFINE p == D[Call(e, e[x].right)]
<1>4. Rightward(D, g, m, k) = IF e[x].key = k THEN Replace(e, x) ELSE FixRight(x, p)
  BY <1>1, <1>3, RFacts DEF Rightward, Then
<1>5. CASE e[x].key = k
  <2>1. Gone(h, S, k, Replace(e, x))
    BY <1>1, <1>5, ReplaceRemoves
  <2>2. QED
    BY <1>4, <1>5, <2>1
<1>6. CASE e[x].key # k
  <2>1. \E s \in F : e[s].key = k
    <3>1. PICK s \in S : h[s].key = k
      OBVIOUS
    <3>2. e[s].key = k /\ s \in S
      BY <1>2, <3>1 DEF Changes, SameData
    <3>3. s \notin E
      <4>1. \A z \in E : e[z].key < e[x].key /\ e[z].key \in Int
        BY <1>2, HeapFacts DEF Joined
      <4>2. QED
        BY <1>2, <1>3, <3>2, <4>1
    <3>4. QED
      BY <1>2, <1>6, <3>2, <3>3
  <2>2. Cardinality(F) < Cardinality(S)
    BY <1>2, HalvesAreLess
  <2>3. Deleted(e, e[x].right, F, k, p)
    BY <1>2, <2>1, <2>2 DEF DeletesSmaller
  <2> HIDE DEF p
  <2>4. PICK T : Removed(e, F, k, p, T)
    BY <2>3 DEF Deleted
  <2>5. HasRemoved(h, S, k, p, FixRight(x, p))
    <3>1. Joins(e, S, E, x, F)
      BY <1>2 DEF Joins
    <3>2. QED
      BY <1>2, <2>1, <2>4, <3>1, DeletedRight
  <2>6. p.hit = TRUE
    BY <2>3 DEF Deleted
  <2>7. QED
    BY <1>4, <1>6, <2>5, <2>6 DEF HasRemoved, Gone
<1>7. QED
  BY <1>5, <1>6

(* nodeDelete takes k away, and finds its way to it.                       *)
LEMMA NodeDeleteRemoves ==
  ASSUME NEW h, IsHeap(h), NEW n, NEW S, NEW k \in Int, Ready(h, n, S, k),
         \E s \in S : h[s].key = k
  PROVE  Deleted(h, n, S, k, NodeDelete(h, n, k))
<1>1. PICK f : /\ \A d \in 1..Deepest : \A c \in Calls(h) :
                    f[d][c] = Deleting(f[d - 1], c.h, c.n, k)
               /\ \A m : NodeDelete(h, m, k) = f[Deepest][Call(h, m)]
  BY DeleteSteps
<1> DEFINE M == {d \in 0..Deepest : \A g, x, X :
                   (/\ IsHeap(g) /\ DOMAIN g = DOMAIN h /\ Ready(g, x, X, k)
                    /\ (\E s \in X : g[s].key = k) /\ Cardinality(X) < d)
                   => Deleted(g, x, X, k, f[d][Call(g, x)])}
<1>2. \A g, x, X : IsHeap(g) /\ Ready(g, x, X, k) => Tree(g, x, X)
  <2> SUFFICES ASSUME NEW g, NEW x, NEW X, IsHeap(g), Ready(g, x, X, k)
               PROVE  Tree(g, x, X)
    OBVIOUS
  <2>1. PICK A, B : \E c \in Nat : Halves(g, x, A, B, c) /\ X = A \cup {x} \cup B
    BY DEF Ready
  <2>2. PICK c \in Nat : Halves(g, x, A, B, c) /\ X = A \cup {x} \cup B
    BY <2>1
  <2>3. c \in Int
    OBVIOUS
  <2>4. QED
    BY <2>2, <2>3, HalvesMakeTree
<1>3. 0 \in M
  <2>1. \A g, x, X : IsHeap(g) /\ Ready(g, x, X, k) => ~(Cardinality(X) < 0)
    BY <1>2, SpanInHeap, SizeOfTree, NoDepthFacts DEF Tree
  <2>2. QED
    BY <2>1, DeepestFacts
<1>4. ASSUME NEW d \in 1..Deepest, d - 1 \in M
      PROVE  d \in M
  <2>1. ASSUME NEW g, NEW x, NEW X, IsHeap(g), DOMAIN g = DOMAIN h, Ready(g, x, X, k),
               \E s \in X : g[s].key = k, Cardinality(X) < d
        PROVE  Deleted(g, x, X, k, f[d][Call(g, x)])
    <3>1. PICK A, B : \E c \in Nat :
             /\ Halves(g, x, A, B, c) /\ X = A \cup {x} \cup B
             /\ ~Red(g, g[x].right) \/ (~Red(g, g[x].left) /\ k >= g[x].key)
      BY <2>1 DEF Ready
    <3>2. PICK c \in Nat :
             /\ Halves(g, x, A, B, c) /\ X = A \cup {x} \cup B
             /\ ~Red(g, g[x].right) \/ (~Red(g, g[x].left) /\ k >= g[x].key)
      BY <3>1
    <3>3. /\ Joined(g, x, A, B) /\ x \in DOMAIN g /\ A \subseteq DOMAIN g /\ B \subseteq DOMAIN g
          /\ Span(g, g[x].left, A, c) /\ Span(g, g[x].right, B, c) /\ c \in Int
      BY <3>2 DEF Halves, Joined
    <3>4. x \in Links /\ x # Null /\ g[x].key \in Int /\ X \subseteq DOMAIN g
      BY <2>1, <3>2, <3>3, HeapFacts, LinkFacts
    <3>5. f[d][Call(g, x)] = Deleting(f[d - 1], g, x, k)
      BY <1>1, <2>1, <3>4, CallFacts
    <3>6. Cardinality(X) - 1 < d - 1 /\ Cardinality(X) \in Nat
      <4>1. Cardinality(A \cup {x} \cup B) \in Nat
        BY <2>1, <3>3, HalvesAreLess
      <4>2. Cardinality(X) \in Nat
        BY <3>2, <4>1
      <4>3. QED
        BY <2>1, <4>2
    <3>7. DeletesSmaller(f[d - 1], g, X, k)
      <4>1. ASSUME NEW e, NEW y, NEW Y, IsHeap(e), DOMAIN e = DOMAIN g, Ready(e, y, Y, k),
                   \E s \in Y : e[s].key = k, Cardinality(Y) < Cardinality(X)
            PROVE  Deleted(e, y, Y, k, f[d - 1][Call(e, y)])
        <5>1. Cardinality(Y) \in Nat
          BY <1>2, <4>1, SpanInHeap, SizeOfTree, NoDepthFacts DEF Tree
        <5>2. Cardinality(Y) < d - 1
          BY <2>1, <3>6, <4>1, <5>1
        <5>3. QED
          BY <1>4, <2>1, <4>1, <5>2
      <4>2. QED
        BY <4>1 DEF DeletesSmaller
    <3> HIDE DEF M
    <3>8. CASE k < g[x].key
      <4>1. ~Red(g, g[x].right)
        BY <3>2, <3>4, <3>8
      <4>2. PICK s \in A : g[s].key = k
        <5>1. \A z \in B : g[z].key > g[x].key /\ g[z].key \in Int
          BY <2>1, <3>3, HeapFacts DEF Joined
        <5>2. QED
          BY <2>1, <3>2, <3>4, <3>8, <5>1
      <4>3. g[x].left # Null
        BY <2>1, <3>3, <4>2, SpanInHeap
      <4>4. PICK e, m, E, F : \E l \in Nat :
               /\ (IF TwoNodeLeft(g, x) THEN MoveRedLeft(g, x) ELSE R(g, x)) = R(e, m)
               /\ WentLeft(g, x, A, B, c, e, m, E, F, l)
        BY <2>1, <3>2, <4>1, <4>3, GoLeft
      <4>5. PICK l \in Nat :
               /\ (IF TwoNodeLeft(g, x) THEN MoveRedLeft(g, x) ELSE R(g, x)) = R(e, m)
               /\ WentLeft(g, x, A, B, c, e, m, E, F, l)
        BY <4>4
      <4>6. /\ Changes(g, e, X) /\ X = E \cup {m} \cup F /\ A \subseteq E
            /\ e[m].left # Null /\ IsHeap(e) /\ DOMAIN e = DOMAIN g /\ Joined(e, m, E, F)
            /\ Span(e, e[m].left, E, l)
        BY <3>2, <4>5 DEF WentLeft, Changes, SameData, Halves
      <4> DEFINE p == f[d - 1][Call(e, e[m].left)]
      <4>7. s \in E /\ e[s].key = k
        BY <3>3, <4>2, <4>6 DEF Changes, SameData
      <4>8. Cardinality(E) < Cardinality(X)
        BY <4>6, HalvesAreLess
      <4>9. Ready(e, e[m].left, E, k)
        BY <4>6, SpanIsReady
      <4>10. Deleted(e, e[m].left, E, k, p)
        BY <3>7, <4>6, <4>7, <4>8, <4>9 DEF DeletesSmaller
      <4>11. f[d][Call(g, x)] = FixLeft(m, p)
        <5>1. ~(m < 0)
          BY <4>6, HeapFacts, LinkFacts DEF Joined
        <5>2. QED
          BY <3>4, <3>5, <3>8, <4>3, <4>5, <5>1, RFacts, DeletingLeft
      <4> HIDE DEF p
      <4>12. \E z \in E : e[z].key = k
        BY <4>7
      <4>13. Deleted(g, x, A \cup {x} \cup B, k, FixLeft(m, p))
        BY <2>1, <3>2, <4>5, <4>10, <4>12, DeletedOnLeft
      <4>14. QED
        BY <3>2, <4>11, <4>13
    <3>9. CASE ~(k < g[x].key)
      <4>1. k >= g[x].key
        BY <3>4, <3>9
      <4> DEFINE q == f[d][Call(g, x)]
      <4>2. ASSUME NEW e, NEW m, GoesRight(g, X, k, e, m), q = Rightward(f[d - 1], e, m, k),
                   g[x].left # Null \/ g[x].right # Null
            PROVE  Deleted(g, x, X, k, q)
        <5> HIDE DEF q
        <5>1. q.hit = TRUE /\ \E T : Removed(g, X, k, q, T)
          <6>1. Gone(g, X, k, Rightward(f[d - 1], e, m, k))
            BY <2>1, <3>4, <3>7, <4>2, DeletedOnRight
          <6>2. QED
            BY <4>2, <6>1 DEF Gone
        <5>2. PICK T : Removed(g, X, k, q, T)
          BY <5>1
        <5>3. LeastKey(g, X, k) => Cooled(g, x, X, q, T)
          <6>1. LeastKey(g, A \cup {x} \cup B, k) => Cooled(g, x, A \cup {x} \cup B, q, T)
            BY <2>1, <3>2, <4>1, <4>2, NotTheLeast
          <6>2. QED
            BY <3>2, <6>1
        <5>4. QED
          BY <5>1, <5>2, <5>3 DEF Deleted
      <4>3. CASE Red(g, g[x].left)
        <5>1. ~Red(g, g[x].right) /\ g[x].left # Null
          BY <3>2, <4>3 DEF Red
        <5>2. PICK e, m : /\ RotateRight(g, x) = R(e, m) /\ ~(m < 0) /\ e[m].key # k
                          /\ GoesRight(g, A \cup {x} \cup B, k, e, m)
          BY <2>1, <3>2, <4>1, <4>3, <5>1, GoRightFromRed
        <5>3. q = Rightward(f[d - 1], e, m, k)
          <6>1. e = RotateRight(g, x).h /\ m = RotateRight(g, x).n
            BY <5>2, RFacts
          <6>2. Deleting(f[d - 1], g, x, k) = Rightward(f[d - 1], e, m, k)
            BY <3>4, <3>9, <4>3, <5>2, <6>1, DeletingRight
          <6>3. QED
            BY <3>5, <6>2
        <5> HIDE DEF q
        <5>4. GoesRight(g, X, k, e, m)
          BY <3>2, <5>2
        <5>5. QED
          BY <4>2, <5>1, <5>3, <5>4 DEF q
      <4>4. CASE ~Red(g, g[x].left) /\ g[x].right # Null
        <5>1. GoesRight(g, A \cup {x} \cup B, k, g, x)
          BY <2>1, <3>2, <4>1, <4>4, GoRightFromBlack
        <5>2. ~(x < 0)
          BY <3>4, LinkFacts
        <5>3. q = Rightward(f[d - 1], g, x, k)
          <6>1. g = R(g, x).h /\ x = R(g, x).n
            BY RFacts
          <6>2. Deleting(f[d - 1], g, x, k) = Rightward(f[d - 1], g, x, k)
            BY <3>4, <3>9, <4>4, <5>2, <6>1, DeletingRight
          <6>3. QED
            BY <3>5, <6>2
        <5> HIDE DEF q
        <5>4. GoesRight(g, X, k, g, x)
          BY <3>2, <5>1
        <5>5. QED
          BY <4>2, <4>4, <5>3, <5>4 DEF q
      <4>5. CASE ~Red(g, g[x].left) /\ g[x].right = Null
        <5>1. A = {} /\ B = {} /\ g[x].left = Null
          BY <2>1, <3>2, <4>5, NothingBeside
        <5>2. X = {x} /\ k = g[x].key
          BY <2>1, <3>2, <5>1
        <5>3. ~(x < 0)
          BY <3>4, LinkFacts
        <5>4. q = Found(R(g, Null))
          <6>1. g = R(g, x).h /\ x = R(g, x).n
            BY RFacts
          <6>2. Deleting(f[d - 1], g, x, k) = Found(R(g, Null))
            BY <3>4, <3>9, <4>5, <5>2, <5>3, <6>1, DeletingRight
          <6>3. QED
            BY <3>5, <6>2
        <5> HIDE DEF q
        <5>5. Deleted(g, x, {x}, k, Found(R(g, Null)))
          <6>1. Halves(g, x, {}, {}, c)
            BY <3>2, <5>1
          <6>2. QED
            BY <2>1, <5>1, <5>2, <6>1, DeletedLeaf
        <5>6. QED
          BY <5>2, <5>4, <5>5 DEF q
      <4>6. QED
        BY <4>3, <4>4, <4>5
    <3>10. QED
      BY <3>8, <3>9
  <2>2. d \in 0..Deepest
    BY DeepestFacts
  <2>3. QED
    BY <2>1, <2>2
<1>5. \A d \in 0..Deepest : d \in M
  <2> HIDE DEF M
  <2>1. QED
    BY <1>3, <1>4, DeepestFacts, Induction
<1>6. Deepest \in M
  <2> HIDE DEF M
  <2>1. QED
    BY <1>5, DeepestFacts
<1>7. Cardinality(S) < Deepest
  BY <1>2, TreeFits
<1>8. QED
  BY <1>1, <1>6, <1>7

-----------------------------------------------------------------------------
(* The heap between two calls.                                             *)

(* g is the part S of h, with every node at the address of its key.        *)
KeysOf(h, S) == {h[m].key : m \in S}
Moved(h, S, g) ==
  /\ IsHeap(g) /\ DOMAIN g = KeysOf(h, S)
  /\ \A m \in S : LET k == h[m].key IN
       /\ g[k].key = k /\ g[k].value = h[m].value /\ g[k].red = h[m].red
       /\ g[k].left = Key(h, h[m].left) /\ g[k].right = Key(h, h[m].right)

LEMMA KeyFacts ==
  ASSUME NEW h, IsHeap(h), NEW n, n = Null \/ n \in DOMAIN h
  PROVE  /\ Key(h, n) = IF n = Null THEN Null ELSE h[n].key
         /\ Key(h, n) \in Links /\ (Key(h, n) = Null <=> n = Null)
<1>1. CASE n = Null
  BY <1>1, LinkFacts DEF Key, Null
<1>2. CASE n \in DOMAIN h
  <2>1. n > 0 /\ n \in Nat /\ n # Null /\ h[n].key \in Nodes
    BY <1>2, HeapFacts, LinkFacts DEF Nodes
  <2>2. Key(h, n) = h[n].key
    BY <2>1 DEF Key
  <2>3. QED
    BY <2>1, <2>2, LinkFacts
<1>3. QED
  BY <1>1, <1>2

(* Both children of a node of a tree are in the tree.                      *)
Closed(h, S) == \A m \in S : /\ h[m].left = Null \/ h[m].left \in S
                             /\ h[m].right = Null \/ h[m].right \in S

LEMMA TreeIsClosed ==
  ASSUME NEW h, IsHeap(h), NEW n, NEW S, Tree(h, n, S)
  PROVE  Closed(h, S)
<1> DEFINE M == {d \in 0..Deepest : \A x \in Links, X \in SUBSET Nodes :
                   Tree(h, x, X) /\ Cardinality(X) < d => Closed(h, X)}
<1>1. 0 \in M
  BY SizeOfTree, DeepestFacts
<1>2. ASSUME NEW d \in 1..Deepest, d - 1 \in M
      PROVE  d \in M
  <2>1. ASSUME NEW x \in Links, NEW X \in SUBSET Nodes, Tree(h, x, X), Cardinality(X) < d
        PROVE  Closed(h, X)
    <3>1. CASE x = Null
      BY <2>1, <3>1, SpanInHeap, NoDepthFacts DEF Tree, Closed
    <3>2. CASE x # Null
      <4>1. PICK A, B : /\ X = A \cup {x} \cup B
                        /\ A \in SUBSET Nodes /\ B \in SUBSET Nodes
                        /\ h[x].left \in Links /\ h[x].right \in Links
                        /\ Tree(h, h[x].left, A) /\ Tree(h, h[x].right, B)
                        /\ Cardinality(A) < d - 1 /\ Cardinality(B) < d - 1
        BY <2>1, <3>2, TreeDescent
      <4>2. Closed(h, A) /\ Closed(h, B)
        BY <1>2, <4>1
      <4>3. /\ h[x].left = Null \/ h[x].left \in A
            /\ h[x].right = Null \/ h[x].right \in B
        BY <4>1, SpanInHeap, NoDepthFacts DEF Tree
      <4>4. QED
        BY <4>1, <4>2, <4>3 DEF Closed
    <3>3. QED
      BY <3>1, <3>2
  <2>2. d \in 0..Deepest
    BY DeepestFacts
  <2>3. QED
    BY <2>1, <2>2
<1>3. \A d \in 0..Deepest : d \in M
  <2> HIDE DEF M
  <2>1. QED
    BY <1>1, <1>2, DeepestFacts, Induction
<1>4. Deepest \in M
  <2> HIDE DEF M
  <2>1. QED
    BY <1>3, DeepestFacts
<1>5. n \in Links /\ S \in SUBSET Nodes /\ Cardinality(S) < Deepest
  BY TreeFits
<1>6. QED
  BY <1>4, <1>5

LEMMA KeptMoves ==
  ASSUME NEW h, IsHeap(h), NEW n, NEW S, Tree(h, n, S)
  PROVE  Moved(h, S, Kept(h, n))
<1> DEFINE At(k) == h[CHOOSE m \in S : h[m].key = k]
           g == Kept(h, n)
<1>1. S \subseteq DOMAIN h /\ Distinct(h, S)
  BY SpanInHeap, NoDepthFacts DEF Tree
<1>2. g = [k \in KeysOf(h, S) |-> [At(k) EXCEPT !.left = Key(h, @), !.right = Key(h, @)]]
  <2>1. Reachable(h, n) = S
    BY ReachableIsTree
  <2>2. QED
    BY <2>1 DEF Kept, KeysOf
<1>3. \A m \in S : At(h[m].key) = h[m]
  <2>1. ASSUME NEW m \in S
        PROVE  (CHOOSE x \in S : h[x].key = h[m].key) = m
    BY <1>1 DEF Distinct
  <2>2. QED
    BY <2>1
<1> HIDE DEF At, g
<1>4. ASSUME NEW m \in S
      PROVE  /\ g[h[m].key] \in Mnodes /\ h[m].key \in DOMAIN g /\ h[m].key \in Nodes
             /\ LET k == h[m].key IN
                /\ g[k].key = k /\ g[k].value = h[m].value /\ g[k].red = h[m].red
                /\ g[k].left = Key(h, h[m].left) /\ g[k].right = Key(h, h[m].right)
  <2> DEFINE l == Key(h, h[m].left)
             r == Key(h, h[m].right)
  <2>1. h[m].key \in KeysOf(h, S)
    BY DEF KeysOf
  <2>2. g[h[m].key] = [h[m] EXCEPT !.left = Key(h, @), !.right = Key(h, @)]
    BY <1>2, <1>3, <2>1
  <2>3. h[m] \in Mnodes /\ h[m].key \in Nodes
    BY <1>1, HeapFacts DEF Nodes
  <2>4. l \in Links /\ r \in Links
    <3>1. Closed(h, S)
      BY TreeIsClosed
    <3>2. /\ h[m].left = Null \/ h[m].left \in DOMAIN h
          /\ h[m].right = Null \/ h[m].right \in DOMAIN h
      BY <1>1, <3>1 DEF Closed
    <3>3. QED
      BY <3>2, KeyFacts
  <2>5. g[h[m].key] = [h[m] EXCEPT !.left = l, !.right = r]
    BY <2>2, <2>3 DEF Mnodes
  <2> HIDE DEF l, r
  <2>6. /\ g[h[m].key] \in Mnodes
        /\ g[h[m].key].key = h[m].key /\ g[h[m].key].value = h[m].value
        /\ g[h[m].key].red = h[m].red
        /\ g[h[m].key].left = l /\ g[h[m].key].right = r
    BY <2>3, <2>4, <2>5 DEF Mnodes
  <2>7. h[m].key \in DOMAIN g
    BY <1>2, <2>1
  <2>8. QED
    BY <2>3, <2>6, <2>7 DEF l, r
<1>5. DOMAIN g = KeysOf(h, S)
  BY <1>2
<1>6. IsHeap(g)
  <2>1. \A k \in DOMAIN g : k \in Nodes /\ g[k] \in Mnodes
    BY <1>4, <1>5 DEF KeysOf
  <2>2. g = [k \in DOMAIN g |-> g[k]]
    BY <1>2
  <2>3. QED
    BY <2>1, <2>2 DEF IsHeap
<1>7. QED
  BY <1>4, <1>5, <1>6 DEF Moved, g

(* The tree is the same one.                                               *)
LEMMA MovedSpans ==
  ASSUME NEW h, IsHeap(h), NEW S, NEW g, Moved(h, S, g), NEW n, NEW b \in Int,
         Span(h, n, S, b)
  PROVE  /\ Span(g, Key(h, n), DOMAIN g, b)
         /\ Red(g, Key(h, n)) = Red(h, n)
<1>1. S \subseteq DOMAIN h /\ IsHeap(g) /\ DOMAIN g = KeysOf(h, S)
  BY SpanInHeap DEF Moved
<1>2. \A m : m = Null \/ m \in S => Red(g, Key(h, m)) = Red(h, m)
  <2>1. ASSUME NEW m, m = Null \/ m \in S
        PROVE  Red(g, Key(h, m)) = Red(h, m)
    <3>1. CASE m = Null
      BY <1>1, <3>1, KeyFacts DEF Red
    <3>2. CASE m \in S
      <4>1. m \in DOMAIN h /\ m # Null
        BY <1>1, <3>2, HeapFacts, LinkFacts
      <4>2. Key(h, m) = h[m].key /\ Key(h, m) # Null
        BY <4>1, KeyFacts
      <4>3. g[h[m].key].red = h[m].red
        BY <3>2 DEF Moved
      <4>4. QED
        BY <4>1, <4>2, <4>3 DEF Red
    <3>3. QED
      BY <2>1, <3>1, <3>2
  <2>2. QED
    BY <2>1
<1> DEFINE M == {d \in 0..Deepest : \A x, X : \A c \in Int :
                   (X \subseteq S /\ Span(h, x, X, c) /\ Cardinality(X) < d)
                   => Span(g, Key(h, x), KeysOf(h, X), c)}
<1>3. 0 \in M
  <2>1. \A x, X : \A c \in Int : Span(h, x, X, c) => ~(Cardinality(X) < 0)
    BY SpanInHeap, SizeOfTree
  <2>2. QED
    BY <2>1, DeepestFacts
<1>4. ASSUME NEW d \in 1..Deepest, d - 1 \in M
      PROVE  d \in M
  <2>1. ASSUME NEW x, NEW X, NEW c \in Int, X \subseteq S, Span(h, x, X, c), Cardinality(X) < d
        PROVE  Span(g, Key(h, x), KeysOf(h, X), c)
    <3>1. CASE x = Null
      <4>1. X = {} /\ c <= 0
        BY <2>1, <3>1, SpanInHeap
      <4>2. Key(h, x) = Null /\ KeysOf(h, X) = {}
        BY <3>1, <4>1, KeyFacts DEF KeysOf
      <4>3. QED
        BY <4>1, <4>2, NothingSpans
    <3>2. CASE x # Null
      <4> DEFINE u == Under(h, x, c)
      <4>1. PICK A, B : /\ Halves(h, x, A, B, u)
                        /\ X = A \cup {x} \cup B /\ LeansLeft(h, x, c)
        BY <2>1, <3>2, HalvesOf
      <4>2. /\ Joined(h, x, A, B) /\ x \in DOMAIN h /\ A \subseteq S /\ B \subseteq S
            /\ x \in S /\ Span(h, h[x].left, A, u) /\ Span(h, h[x].right, B, u)
        BY <2>1, <4>1 DEF Halves, Joined
      <4>3. u \in Int
        BY <4>2, UnderFacts
      <4>4. Cardinality(A) < d - 1 /\ Cardinality(B) < d - 1
        <5>1. /\ Cardinality(A) < Cardinality(X) /\ Cardinality(A) \in Nat
              /\ Cardinality(B) < Cardinality(X) /\ Cardinality(B) \in Nat
              /\ Cardinality(X) \in Nat
          BY <4>1, <4>2, HalvesAreLess
        <5>2. QED
          BY <2>1, <5>1
      <4> HIDE DEF u
      <4>5. /\ Span(g, Key(h, h[x].left), KeysOf(h, A), u)
            /\ Span(g, Key(h, h[x].right), KeysOf(h, B), u)
        BY <1>4, <4>2, <4>3, <4>4
      <4> DEFINE k == h[x].key
      <4>6. /\ Key(h, x) = k /\ g[k].left = Key(h, h[x].left)
            /\ g[k].right = Key(h, h[x].right) /\ g[k].red = h[x].red
        BY <3>2, <4>2, KeyFacts DEF Moved
      <4>7. Joined(g, k, KeysOf(h, A), KeysOf(h, B))
        <5>1. \A m \in S : h[m].key \in DOMAIN g /\ g[h[m].key].key = h[m].key
          BY <1>1 DEF Moved, KeysOf
        <5>2. QED
          BY <4>2, <5>1 DEF Joined, KeysOf
      <4>8. Under(g, k, c) = u
        BY <4>6 DEF Under, u
      <4>9. LeansLeft(g, k, c)
        <5>1. /\ h[x].left = Null \/ h[x].left \in S
              /\ h[x].right = Null \/ h[x].right \in S
          BY <4>2, <4>3, SpanInHeap
        <5>2. /\ Red(g, g[k].left) = Red(h, h[x].left)
              /\ Red(g, g[k].right) = Red(h, h[x].right)
          BY <1>2, <4>6, <5>1
        <5>3. QED
          BY <4>1, <4>6, <5>2 DEF LeansLeft
      <4>10. KeysOf(h, X) = KeysOf(h, A) \cup {k} \cup KeysOf(h, B)
        BY <4>1 DEF KeysOf
      <4> HIDE DEF k
      <4>11. Halves(g, k, KeysOf(h, A), KeysOf(h, B), Under(g, k, c))
        BY <4>5, <4>6, <4>7, <4>8 DEF Halves
      <4>12. Span(g, k, KeysOf(h, A) \cup {k} \cup KeysOf(h, B), c)
        BY <1>1, <2>1, <4>9, <4>11, JoinSpans
      <4>13. QED
        BY <4>6, <4>10, <4>12
    <3>3. QED
      BY <3>1, <3>2
  <2>2. d \in 0..Deepest
    BY DeepestFacts
  <2>3. QED
    BY <2>1, <2>2
<1>5. \A d \in 0..Deepest : d \in M
  <2> HIDE DEF M
  <2>1. QED
    BY <1>3, <1>4, DeepestFacts, Induction
<1>6. Deepest \in M
  <2> HIDE DEF M
  <2>1. QED
    BY <1>5, DeepestFacts
<1>7. Cardinality(S) < Deepest /\ Tree(h, n, S)
  BY SpanIsTree, TreeFits
<1>8. Span(g, Key(h, n), KeysOf(h, S), b)
  BY <1>6, <1>7
<1>9. n = Null \/ n \in S
  BY SpanInHeap
<1>10. QED
  BY <1>1, <1>2, <1>8, <1>9

(* The root is painted black.                                              *)
LEMMA BlackenedIs ==
  ASSUME NEW h, IsHeap(h), NEW n, NEW S, Tree(h, n, S)
  PROVE  LET g == Blackened(h, n) IN
         /\ IsHeap(g) /\ SameData(h, g) /\ Only(h, g, {n}) /\ Tree(g, n, S) /\ ~Red(g, n)
         /\ \A c \in Nat : Span(h, n, S, c) \/ Raised(h, n, S, c)
                            => \E b \in Nat : Span(g, n, S, b)
<1> DEFINE g == Blackened(h, n)
<1>1. CASE n = Null
  <2>1. g = h
    BY <1>1, LinkFacts DEF Blackened, Null
  <2>2. SameData(h, h) /\ Only(h, h, {n}) /\ ~Red(h, n)
    BY <1>1 DEF SameData, Only, Red
  <2>3. ~(n \in DOMAIN h)
    BY <1>1, LinkFacts DEF IsHeap
  <2>4. \A c : ~Raised(h, n, S, c)
    BY <2>3 DEF Raised
  <2> HIDE DEF g
  <2>5. QED
    BY <2>1, <2>2, <2>4 DEF g
<1>2. CASE n # Null
  <2>1. n \in S /\ S \subseteq DOMAIN h
    BY <1>2, SpanInHeap, NoDepthFacts DEF Tree
  <2>2. n > 0 /\ n \in DOMAIN h /\ h[n] \in Mnodes
    BY <2>1, HeapFacts, LinkFacts
  <2> DEFINE r == [h[n] EXCEPT !.red = FALSE]
  <2>3. g = [h EXCEPT ![n] = r]
    BY <2>2 DEF Blackened
  <2>4. r \in Mnodes
    BY <2>2 DEF Mnodes
  <2>5. ~r.red /\ r.left = h[n].left /\ r.right = h[n].right /\ r.key = h[n].key /\ r.value = h[n].value
    BY <2>2 DEF Mnodes
  <2> HIDE DEF r, g
  <2>6. /\ IsHeap(g) /\ DOMAIN g = DOMAIN h /\ g[n] = r
        /\ \A m \in DOMAIN h : m # n => g[m] = h[m]
    BY <2>2, <2>3, <2>4, HeapWith
  <2>7. SameData(h, g) /\ Only(h, g, {n}) /\ ~Red(g, n)
    BY <2>5, <2>6 DEF SameData, Only, Red
  <2>8. Tree(g, n, S)
    <3>1. Alike(h, g, S, NoDepth)
      BY <2>1, <2>5, <2>6, NoDepthFacts DEF Alike
    <3>2. QED
      BY <3>1, SpanKept, NoDepthFacts DEF Tree
  <2>9. ASSUME NEW c \in Nat, Span(h, n, S, c)
        PROVE  \E b \in Nat : Span(g, n, S, b)
    <3>1. CASE h[n].red
      <4>1. Span(g, n, S, c + 1)
        <5>1. /\ c \in Int /\ c >= 0 /\ SameData(h, g) /\ IsHeap(g)
              /\ \A m \in S : m # n => g[m] = h[m]
              /\ g[n].left = h[n].left /\ g[n].right = h[n].right /\ ~g[n].red
          BY <2>1, <2>5, <2>6, <2>7
        <5>2. QED
          BY <1>2, <2>9, <3>1, <5>1, BlackSpan
      <4>2. QED
        BY <4>1
    <3>2. CASE ~h[n].red
      <4>1. h[n].red = FALSE /\ r.red = FALSE
        BY <2>2, <2>4, <2>5, <3>2, HeapFacts DEF Mnodes
      <4>2. Alike(h, g, S, c)
        BY <2>1, <2>5, <2>6, <4>1 DEF Alike
      <4>3. c \in Int
        OBVIOUS
      <4>4. Span(g, n, S, c)
        BY <2>9, <4>2, <4>3, SpanKept
      <4>5. QED
        BY <4>4
    <3>3. QED
      BY <3>1, <3>2
  <2>10. ASSUME NEW c \in Nat, Raised(h, n, S, c)
         PROVE  \E b \in Nat : Span(g, n, S, b)
    <3>1. PICK A, B : Halves(h, n, A, B, c) /\ S = A \cup {n} \cup B
      BY <2>10 DEF Raised
    <3>2. /\ Joined(h, n, A, B) /\ Span(h, h[n].left, A, c) /\ Span(h, h[n].right, B, c)
          /\ c \in Int /\ c >= 0
      BY <3>1 DEF Halves
    <3>3. n \notin A /\ n \notin B
      BY <3>2, JoinedApart
    <3>4. A \cap {n} = {} /\ B \cap {n} = {}
      BY <3>3
    <3>5. Joined(g, n, A, B)
      BY <2>7, <3>2, JoinedKept
    <3>6. Span(g, h[n].left, A, c) /\ Span(g, h[n].right, B, c)
      BY <2>7, <3>2, <3>4, SpanUntouched
    <3>7. Halves(g, n, A, B, c)
      BY <2>5, <2>6, <3>5, <3>6 DEF Halves
    <3>8. ~Red(g, g[n].right)
      <4>1. ~Red(h, h[n].right)
        BY <2>10 DEF Raised
      <4>2. h[n].right = Null \/ h[n].right \in B
        BY <3>2, SpanInHeap
      <4>3. h[n].right = Null \/ h[n].right \in DOMAIN h
        BY <3>2, <4>2 DEF Joined
      <4>4. h[n].right \notin {n}
        BY <1>2, <3>3, <4>2
      <4>5. Red(g, h[n].right) = Red(h, h[n].right)
        BY <2>7, <4>3, <4>4, RedKept
      <4>6. QED
        BY <2>5, <2>6, <4>1, <4>5
    <3>9. Span(g, n, S, c + 1)
      BY <2>6, <2>7, <3>1, <3>2, <3>7, <3>8, JoinUnderBlack
    <3>10. QED
      BY <3>9
  <2>11. QED
    BY <2>6, <2>7, <2>8, <2>9, <2>10 DEF g
<1>3. QED
  BY <1>1, <1>2

-----------------------------------------------------------------------------
(* Balance, as Balanced sees it and as a span.                             *)

LEMMA DepthOfSpan ==
  ASSUME NEW h, IsHeap(h), NEW n, NEW S, NEW b \in Nat, Span(h, n, S, b)
  PROVE  BlackDepth(h, n) = b
<1>1. PICK f : /\ \A d \in 1..Deepest : \A m \in Links :
                    f[d][m] = (IF m = Null THEN 0
                               ELSE f[d - 1][h[m].left] + (IF h[m].red THEN 0 ELSE 1))
               /\ \A m : BlackDepth(h, m) = f[Deepest][m]
  BY DepthSteps
<1> DEFINE M == {d \in 0..Deepest : \A x, X : \A c \in Nat :
                   Span(h, x, X, c) /\ Cardinality(X) < d => f[d][x] = c}
<1>2. 0 \in M
  <2>1. \A x, X : \A c \in Nat : Span(h, x, X, c) => ~(Cardinality(X) < 0)
    BY SpanInHeap, SizeOfTree
  <2>2. QED
    BY <2>1, DeepestFacts
<1>3. ASSUME NEW d \in 1..Deepest, d - 1 \in M
      PROVE  d \in M
  <2>1. ASSUME NEW x, NEW X, NEW c \in Nat, Span(h, x, X, c), Cardinality(X) < d
        PROVE  f[d][x] = c
    <3>1. x \in Links /\ c \in Int /\ (x = Null => c <= 0) /\ (x # Null => x \in X)
      BY <2>1, SpanInHeap
    <3>2. f[d][x] = (IF x = Null THEN 0
                     ELSE f[d - 1][h[x].left] + (IF h[x].red THEN 0 ELSE 1))
      BY <1>1, <3>1
    <3>3. CASE x = Null
      BY <3>1, <3>2, <3>3
    <3>4. CASE x # Null
      <4>1. PICK A, B : \E u \in Nat :
               /\ Halves(h, x, A, B, u) /\ X = A \cup {x} \cup B
               /\ Red(h, x) => c = u
               /\ ~Red(h, x) => c = u + 1
        BY <2>1, <3>4, SpanParts
      <4>2. PICK u \in Nat :
               /\ Halves(h, x, A, B, u) /\ X = A \cup {x} \cup B
               /\ Red(h, x) => c = u
               /\ ~Red(h, x) => c = u + 1
        BY <4>1
      <4>3. Joined(h, x, A, B) /\ Span(h, h[x].left, A, u)
        BY <4>2 DEF Halves
      <4>4. Cardinality(A) < d - 1
        <5>1. /\ Cardinality(A) < Cardinality(X) /\ Cardinality(A) \in Nat
              /\ Cardinality(X) \in Nat
          BY <4>2, <4>3, HalvesAreLess
        <5>2. QED
          BY <2>1, <5>1
      <4>5. f[d - 1][h[x].left] = u
        BY <1>3, <4>3, <4>4
      <4>6. QED
        BY <3>2, <3>4, <4>2, <4>5 DEF Red
    <3>5. QED
      BY <3>3, <3>4
  <2>2. d \in 0..Deepest
    BY DeepestFacts
  <2>3. QED
    BY <2>1, <2>2
<1>4. \A d \in 0..Deepest : d \in M
  <2> HIDE DEF M
  <2>1. QED
    BY <1>2, <1>3, DeepestFacts, Induction
<1>5. Deepest \in M
  <2> HIDE DEF M
  <2>1. QED
    BY <1>4, DeepestFacts
<1>6. Cardinality(S) < Deepest
  <2>1. Tree(h, n, S)
    BY SpanIsTree
  <2>2. QED
    BY <2>1, TreeFits
<1>7. QED
  BY <1>1, <1>5, <1>6

(* A span is balanced everywhere.                                          *)
LEMMA SpanLooksBalanced ==
  ASSUME NEW h, IsHeap(h), NEW n, NEW S, NEW b \in Nat, Span(h, n, S, b)
  PROVE  \A m \in S : LooksBalanced(h, m)
<1> DEFINE M == {d \in 0..Deepest : \A x, X : \A c \in Nat :
                   Span(h, x, X, c) /\ Cardinality(X) < d => \A m \in X : LooksBalanced(h, m)}
<1>1. 0 \in M
  <2>1. \A x, X : \A c \in Nat : Span(h, x, X, c) => ~(Cardinality(X) < 0)
    BY SpanInHeap, SizeOfTree
  <2>2. QED
    BY <2>1, DeepestFacts
<1>2. ASSUME NEW d \in 1..Deepest, d - 1 \in M
      PROVE  d \in M
  <2>1. ASSUME NEW x, NEW X, NEW c \in Nat, Span(h, x, X, c), Cardinality(X) < d
        PROVE  \A m \in X : LooksBalanced(h, m)
    <3>1. CASE x = Null
      BY <2>1, <3>1, SpanInHeap
    <3>2. CASE x # Null
      <4>1. PICK A, B : \E u \in Nat :
               /\ Halves(h, x, A, B, u) /\ X = A \cup {x} \cup B
               /\ ~Red(h, h[x].right) /\ (Red(h, x) => ~Red(h, h[x].left))
        BY <2>1, <3>2, SpanParts
      <4>2. PICK u \in Nat :
               /\ Halves(h, x, A, B, u) /\ X = A \cup {x} \cup B
               /\ ~Red(h, h[x].right) /\ (Red(h, x) => ~Red(h, h[x].left))
        BY <4>1
      <4>3. /\ Joined(h, x, A, B)
            /\ Span(h, h[x].left, A, u) /\ Span(h, h[x].right, B, u)
        BY <4>2 DEF Halves
      <4>4. Cardinality(A) < d - 1 /\ Cardinality(B) < d - 1
        <5>1. /\ Cardinality(A) < Cardinality(X) /\ Cardinality(A) \in Nat
              /\ Cardinality(B) < Cardinality(X) /\ Cardinality(B) \in Nat
              /\ Cardinality(X) \in Nat
          BY <4>2, <4>3, HalvesAreLess
        <5>2. QED
          BY <2>1, <5>1
      <4>5. \A m \in A \cup B : LooksBalanced(h, m)
        BY <1>2, <4>3, <4>4
      <4>6. BlackDepth(h, h[x].left) = u /\ BlackDepth(h, h[x].right) = u
        BY <4>3, DepthOfSpan
      <4>7. LooksBalanced(h, x)
        BY <3>2, <4>2, <4>6 DEF LooksBalanced, Red
      <4>8. QED
        BY <4>2, <4>5, <4>7
    <3>3. QED
      BY <3>1, <3>2
  <2>2. d \in 0..Deepest
    BY DeepestFacts
  <2>3. QED
    BY <2>1, <2>2
<1>3. \A d \in 0..Deepest : d \in M
  <2> HIDE DEF M
  <2>1. QED
    BY <1>1, <1>2, DeepestFacts, Induction
<1>4. Deepest \in M
  <2> HIDE DEF M
  <2>1. QED
    BY <1>3, DeepestFacts
<1>5. Cardinality(S) < Deepest
  <2>1. Tree(h, n, S)
    BY SpanIsTree
  <2>2. QED
    BY <2>1, TreeFits
<1>6. QED
  BY <1>4, <1>5

(* And a tree that looks balanced everywhere is a span.                    *)
LEMMA BalancedSpans ==
  ASSUME NEW h, IsHeap(h), NEW n, NEW S, Tree(h, n, S), \A m \in S : LooksBalanced(h, m)
  PROVE  \E b \in Nat : Span(h, n, S, b)
<1> DEFINE M == {d \in 0..Deepest : \A x \in Links, X \in SUBSET Nodes :
                   /\ Tree(h, x, X) /\ Cardinality(X) < d
                   /\ \A m \in X : LooksBalanced(h, m)
                   => \E c \in Nat : Span(h, x, X, c)}
<1>1. 0 \in M
  BY SizeOfTree, DeepestFacts
<1>2. ASSUME NEW d \in 1..Deepest, d - 1 \in M
      PROVE  d \in M
  <2>1. ASSUME NEW x \in Links, NEW X \in SUBSET Nodes, Tree(h, x, X), Cardinality(X) < d,
               \A m \in X : LooksBalanced(h, m)
        PROVE  \E c \in Nat : Span(h, x, X, c)
    <3>1. CASE x = Null
      <4>1. X = {}
        BY <2>1, <3>1, SpanInHeap, NoDepthFacts DEF Tree
      <4>2. Span(h, x, X, 0)
        BY <3>1, <4>1, NothingSpans
      <4>3. QED
        BY <4>2
    <3>2. CASE x # Null
      <4>1. PICK A, B : /\ X = A \cup {x} \cup B /\ Joined(h, x, A, B)
                        /\ A \in SUBSET Nodes /\ B \in SUBSET Nodes
                        /\ h[x].left \in Links /\ h[x].right \in Links
                        /\ Tree(h, h[x].left, A) /\ Tree(h, h[x].right, B)
                        /\ Cardinality(A) < d - 1 /\ Cardinality(B) < d - 1
        BY <2>1, <3>2, TreeDescent
      <4>2. PICK u \in Nat : Span(h, h[x].left, A, u)
        BY <1>2, <2>1, <4>1
      <4>3. PICK w \in Nat : Span(h, h[x].right, B, w)
        BY <1>2, <2>1, <4>1
      <4>4. LooksBalanced(h, x)
        BY <2>1, <4>1
      <4>5. u = w
        BY <4>2, <4>3, <4>4, DepthOfSpan DEF LooksBalanced
      <4>6. Halves(h, x, A, B, u) /\ u \in Int /\ u >= 0
        BY <4>1, <4>2, <4>3, <4>5 DEF Halves
      <4>7. ~Red(h, h[x].right) /\ (Red(h, x) => ~Red(h, h[x].left))
        BY <4>4 DEF LooksBalanced, Red
      <4>8. CASE Red(h, x)
        <5>1. Span(h, x, A \cup {x} \cup B, u)
          BY <4>6, <4>7, <4>8, JoinUnderRed
        <5>2. QED
          BY <4>1, <5>1
      <4>9. CASE ~Red(h, x)
        <5>1. Span(h, x, A \cup {x} \cup B, u + 1)
          BY <4>6, <4>7, <4>9, JoinUnderBlack
        <5>2. QED
          BY <4>1, <5>1
      <4>10. QED
        BY <4>8, <4>9
    <3>3. QED
      BY <3>1, <3>2
  <2>2. d \in 0..Deepest
    BY DeepestFacts
  <2>3. QED
    BY <2>1, <2>2
<1>3. \A d \in 0..Deepest : d \in M
  <2> HIDE DEF M
  <2>1. QED
    BY <1>1, <1>2, DeepestFacts, Induction
<1>4. Deepest \in M
  <2> HIDE DEF M
  <2>1. QED
    BY <1>3, DeepestFacts
<1>5. n \in Links /\ S \in SUBSET Nodes /\ Cardinality(S) < Deepest
  BY TreeFits
<1>6. QED
  BY <1>4, <1>5

LEMMA BalancedTreeIsSpan ==
  ASSUME NEW h, IsHeap(h), NEW n, Tree(h, n, DOMAIN h)
  PROVE  BalancedTree(h, n) <=> ~Red(h, n) /\ \E b \in Nat : Span(h, n, DOMAIN h, b)
<1>1. n >= Null
  <2>1. n \in Links
    BY TreeFits
  <2>2. QED
    BY <2>1 DEF Links, Nodes, Keys, Null
<1>2. (\A m \in DOMAIN h : LooksBalanced(h, m)) <=> \E b \in Nat : Span(h, n, DOMAIN h, b)
  BY SpanLooksBalanced, BalancedSpans
<1>3. QED
  BY <1>1, <1>2 DEF BalancedTree

-----------------------------------------------------------------------------
(* mapPut and mapRemove.                                                   *)

(* A map between two calls.                                                *)
IsMap(h, n) == IsHeap(h) /\ KeysAreAddresses(h) /\ Tree(h, n, DOMAIN h)

(* What is left of the tree of S below n when the root is black again and  *)
(* what cannot be reached is dropped.                                      *)
Settled(h, n, S, g) ==
  /\ IsMap(g, Key(h, n)) /\ DOMAIN g = KeysOf(h, S)
  /\ \A x \in S : g[h[x].key].value = h[x].value
  /\ (\E c \in Nat : Span(h, n, S, c) \/ Raised(h, n, S, c)) => BalancedTree(g, Key(h, n))

LEMMA RootSettles ==
  ASSUME NEW h, IsHeap(h), NEW n, NEW S, Tree(h, n, S)
  PROVE  Settled(h, n, S, Kept(Blackened(h, n), n))
<1> DEFINE f == Blackened(h, n)
           g == Kept(f, n)
           m == Key(h, n)
<1>1. /\ IsHeap(f) /\ SameData(h, f) /\ Tree(f, n, S) /\ ~Red(f, n)
      /\ \A c \in Nat : Span(h, n, S, c) \/ Raised(h, n, S, c) => \E b \in Nat : Span(f, n, S, b)
  BY BlackenedIs
<1> HIDE DEF f
<1>2. Moved(f, S, g)
  BY <1>1, KeptMoves
<1>3. S \subseteq DOMAIN h /\ (n = Null \/ n \in S)
  BY SpanInHeap, NoDepthFacts DEF Tree
<1>4. KeysOf(f, S) = KeysOf(h, S)
  BY <1>1, <1>3 DEF KeysOf, SameData
<1>5. Key(f, n) = m
  <2>1. n = Null \/ n \in DOMAIN h
    BY <1>3
  <2>2. DOMAIN f = DOMAIN h /\ \A x \in DOMAIN h : f[x].key = h[x].key
    BY <1>1 DEF SameData
  <2>3. Key(h, n) = IF n = Null THEN Null ELSE h[n].key
    BY <2>1, KeyFacts
  <2>4. Key(f, n) = IF n = Null THEN Null ELSE f[n].key
    BY <1>1, <2>1, <2>2, KeyFacts
  <2>5. QED
    BY <2>1, <2>2, <2>3, <2>4
<1> HIDE DEF g, m
<1>6. IsHeap(g) /\ DOMAIN g = KeysOf(h, S)
  BY <1>2, <1>4 DEF Moved
<1>7. \A x \in S : g[h[x].key].value = h[x].value /\ g[h[x].key].key = h[x].key
  BY <1>1, <1>2, <1>3 DEF Moved, SameData
<1>8. KeysAreAddresses(g)
  BY <1>6, <1>7 DEF KeysOf, KeysAreAddresses
<1>9. Tree(g, m, DOMAIN g) /\ ~Red(g, m)
  BY <1>1, <1>2, <1>5, MovedSpans, NoDepthFacts DEF Tree
<1>10. ASSUME NEW c \in Nat, Span(h, n, S, c) \/ Raised(h, n, S, c)
       PROVE  BalancedTree(g, m)
  <2>1. PICK b \in Nat : Span(f, n, S, b)
    BY <1>1, <1>10
  <2>2. b \in Int
    OBVIOUS
  <2>3. Span(g, Key(f, n), DOMAIN g, b)
    BY <1>1, <1>2, <2>1, <2>2, MovedSpans
  <2>4. \E c1 \in Nat : Span(g, m, DOMAIN g, c1)
    BY <1>5, <2>3
  <2>5. QED
    BY <1>6, <1>9, <2>4, BalancedTreeIsSpan
<1>11. QED
  BY <1>6, <1>7, <1>8, <1>9, <1>10 DEF Settled, IsMap, f, g, m

(* mapPut.                                                                 *)
HasPut(h, n, k, v, g, m) ==
  /\ IsMap(g, m) /\ DOMAIN g = DOMAIN h \cup {k} /\ g[k].value = v
  /\ \A j \in DOMAIN h : j # k => g[j].value = h[j].value
  /\ BalancedTree(h, n) => BalancedTree(g, m)

LEMMA PutPuts ==
  ASSUME NEW h, NEW n, IsMap(h, n), NEW k \in Keys, NEW v \in Values,
         NEW r, r = NodeAdd(h, n, k, v)
  PROVE  /\ HasPut(h, n, k, v, Kept(Blackened(r.h, r.n), r.n), Key(r.h, r.n))
         /\ r.hit = IF k \in DOMAIN h THEN h[k].value ELSE NoValue
<1> DEFINE S == DOMAIN h
           T == S \cup {k}
           g == Kept(Blackened(r.h, r.n), r.n)
           m == Key(r.h, r.n)
<1>1. IsHeap(h) /\ KeysAreAddresses(h) /\ Tree(h, n, S)
  BY DEF IsMap
<1>2. Holds(h, S, k, v, r) /\ NearlyKept(h, n, S, T, r)
  BY <1>1, NodeAddHolds
<1>3. /\ IsHeap(r.h) /\ DOMAIN r.h = T /\ KeysAreAddresses(r.h) /\ Tree(r.h, r.n, T)
      /\ r.h[k].value = v /\ \A j \in S : j # k => r.h[j].value = h[j].value
      /\ r.hit = IF k \in S THEN h[k].value ELSE NoValue
  BY <1>2 DEF Holds
<1>4. Settled(r.h, r.n, T, g)
  <2> HIDE DEF T
  <2>1. QED
    BY <1>3, RootSettles
<1>5. /\ IsMap(g, m) /\ DOMAIN g = KeysOf(r.h, T)
      /\ \A x \in T : g[r.h[x].key].value = r.h[x].value
      /\ (\E c \in Nat : Span(r.h, r.n, T, c) \/ Raised(r.h, r.n, T, c)) => BalancedTree(g, m)
  BY <1>4 DEF Settled
<1> HIDE DEF g, m
<1>6. \A x \in T : r.h[x].key = x
  BY <1>3 DEF KeysAreAddresses
<1>7. DOMAIN g = T /\ \A x \in T : g[x].value = r.h[x].value
  BY <1>5, <1>6 DEF KeysOf
<1>8. ASSUME BalancedTree(h, n)
      PROVE  BalancedTree(g, m)
  <2>1. PICK b \in Nat : Span(h, n, S, b)
    BY <1>1, <1>8, BalancedTreeIsSpan
  <2>2. Span(r.h, r.n, T, b) \/ Raised(r.h, r.n, T, b)
    BY <1>2, <2>1 DEF NearlyKept
  <2>3. QED
    BY <1>5, <2>2
<1>9. HasPut(h, n, k, v, g, m)
  BY <1>3, <1>5, <1>7, <1>8 DEF HasPut
<1>10. QED
  BY <1>3, <1>9 DEF g, m

(* mapRemove of a key that is there, in a balanced tree.                   *)
HasLost(h, k, g, m) ==
  /\ IsMap(g, m) /\ DOMAIN g = DOMAIN h \ {k}
  /\ \A j \in DOMAIN h : j # k => g[j].value = h[j].value
  /\ LeastKey(h, DOMAIN h, k) => BalancedTree(g, m)

LEMMA RemoveRemoves ==
  ASSUME NEW h, NEW n, IsMap(h, n), BalancedTree(h, n), NEW k \in DOMAIN h,
         NEW r, r = NodeDelete(h, n, k)
  PROVE  /\ HasLost(h, k, Kept(Blackened(r.h, r.n), r.n), Key(r.h, r.n))
         /\ r.hit = TRUE
<1> DEFINE S == DOMAIN h
           g == Kept(Blackened(r.h, r.n), r.n)
           m == Key(r.h, r.n)
<1>1. IsHeap(h) /\ KeysAreAddresses(h) /\ Tree(h, n, S)
  BY DEF IsMap
<1>2. k \in Int /\ h[k].key = k /\ \A j \in S : h[j].key = j
  BY <1>1, HeapFacts DEF KeysAreAddresses
<1>3. PICK b \in Nat : Span(h, n, S, b) /\ ~Red(h, n)
  BY <1>1, BalancedTreeIsSpan
<1>4. n # Null
  BY <1>1, SpanInHeap, NoDepthFacts DEF Tree
<1>5. Ready(h, n, S, k)
  BY <1>1, <1>3, <1>4, SpanIsReady
<1>6. Deleted(h, n, S, k, r)
  BY <1>1, <1>2, <1>5, NodeDeleteRemoves
<1>7. PICK T : Removed(h, S, k, r, T) /\ (LeastKey(h, S, k) => Cooled(h, n, S, r, T))
  BY <1>6 DEF Deleted
<1>8. /\ IsHeap(r.h) /\ T \subseteq S /\ Tree(r.h, r.n, T)
      /\ Pairs(r.h, T) = Without(Pairs(h, S), k)
  BY <1>7 DEF Removed
<1>9. Settled(r.h, r.n, T, g)
  BY <1>8, RootSettles
<1>10. /\ IsMap(g, m) /\ DOMAIN g = KeysOf(r.h, T)
       /\ \A x \in T : g[r.h[x].key].value = r.h[x].value
       /\ (\E c \in Nat : Span(r.h, r.n, T, c) \/ Raised(r.h, r.n, T, c)) => BalancedTree(g, m)
  BY <1>9 DEF Settled
<1> HIDE DEF g, m
<1>11. DOMAIN g \subseteq S \ {k}
  <2>1. ASSUME NEW t \in T
        PROVE  r.h[t].key \in S \ {k}
    <3>1. PICK s \in S : r.h[t].key = h[s].key /\ h[s].key # k
      BY <1>7, RemovedKeys
    <3>2. QED
      BY <1>2, <3>1
  <2>2. QED
    BY <1>10, <2>1 DEF KeysOf
<1>12. ASSUME NEW j \in S, j # k
       PROVE  j \in DOMAIN g /\ g[j].value = h[j].value
  <2>1. Pair(h, j) \in Pairs(h, S) /\ Pair(h, j)[1] # k
    BY <1>2, <1>12, PairFacts
  <2>2. Pair(h, j) \in Pairs(r.h, T)
    BY <1>8, <2>1 DEF Without
  <2>3. PICK t \in T : Pair(h, j) = Pair(r.h, t)
    BY <2>2, PairFacts
  <2>4. r.h[t].key = j /\ r.h[t].value = h[j].value
    BY <1>2, <2>3, PairFacts
  <2>5. QED
    BY <1>10, <2>4 DEF KeysOf
<1>13. ASSUME LeastKey(h, S, k)
       PROVE  BalancedTree(g, m)
  <2>1. Cooled(h, n, S, r, T)
    BY <1>7, <1>13
  <2>2. \E c \in Nat : Span(r.h, r.n, T, c) \/ Raised(r.h, r.n, T, c)
    BY <1>3, <2>1 DEF Cooled
  <2>3. QED
    BY <1>10, <2>2
<1>14. HasLost(h, k, g, m)
  BY <1>10, <1>11, <1>12, <1>13 DEF HasLost
<1>15. r.hit = TRUE
  BY <1>6 DEF Deleted
<1>16. QED
  BY <1>14, <1>15 DEF g, m

-----------------------------------------------------------------------------
(* The map over its calls.                                                 *)

(* What holds between two calls.                                           *)
MapInv ==
  /\ IsMap(heap, root)
  /\ len = Cardinality(DOMAIN heap)
  /\ iter \in [begin : BOOLEAN, last : Keys \cup {NoKey}]
  /\ iter.begin => iter.last = NoKey

LEMMA MapSize ==
  ASSUME NEW h, NEW n, IsMap(h, n)
  PROVE  IsFiniteSet(DOMAIN h) /\ Cardinality(DOMAIN h) \in 0..MaxKey
<1>1. DOMAIN h \in SUBSET Nodes
  BY DEF IsMap, IsHeap
<1>2. QED
  BY <1>1, SizeOfTree, MapAssumption

LEMMA MapStarts == Init => MapInv
<1> SUFFICES ASSUME Init PROVE MapInv
  OBVIOUS
<1>1. heap = <<>> /\ root = Null /\ len = 0 /\ iter = [begin |-> TRUE, last |-> NoKey]
  BY DEF Init
<1>2. DOMAIN heap = {}
  BY <1>1
<1>3. IsHeap(heap)
  BY <1>1, <1>2 DEF IsHeap
<1>4. Tree(heap, root, DOMAIN heap)
  BY <1>1, <1>2, NothingSpans, NoDepthFacts DEF Tree
<1>5. KeysAreAddresses(heap)
  BY <1>2 DEF KeysAreAddresses
<1>6. len = Cardinality(DOMAIN heap)
  BY <1>1, <1>2, FS_EmptySet
<1>7. QED
  BY <1>1, <1>3, <1>4, <1>5, <1>6 DEF MapInv, IsMap

LEMMA PutStep ==
  ASSUME MapInv, NEW k \in Keys, NEW v \in Values, Put(k, v)
  PROVE  /\ MapInv' /\ HasPut(heap, root, k, v, heap', root') /\ UNCHANGED iter
         /\ len' = IF k \in DOMAIN heap THEN len ELSE len + 1
         /\ Returns("put", k, v, IF k \in DOMAIN heap THEN heap[k].value ELSE NoValue)
<1> DEFINE r == NodeAdd(heap, root, k, v)
<1>1. /\ heap' = Kept(Blackened(r.h, r.n), r.n) /\ root' = Key(r.h, r.n)
      /\ len' = Grown(r.hit) /\ Returns("put", k, v, r.hit) /\ UNCHANGED iter
  BY DEF Put
<1>2. IsMap(heap, root) /\ IsHeap(heap)
  BY DEF MapInv, IsMap
<1> HIDE DEF r
<1>3. /\ HasPut(heap, root, k, v, heap', root')
      /\ r.hit = IF k \in DOMAIN heap THEN heap[k].value ELSE NoValue
  BY <1>1, <1>2, PutPuts DEF r
<1>4. len' = IF k \in DOMAIN heap THEN len ELSE len + 1
  <2>1. k \in DOMAIN heap => heap[k].value # NoValue
    BY <1>2, HeapFacts, MapAssumption
  <2>2. QED
    BY <1>1, <1>3, <2>1 DEF Grown
<1>5. len' = Cardinality(DOMAIN heap')
  <2>1. DOMAIN heap' = DOMAIN heap \cup {k}
    BY <1>3 DEF HasPut
  <2>2. QED
    BY <1>2, <1>4, <2>1, MapSize, FS_AddElement DEF MapInv
<1>6. MapInv'
  BY <1>1, <1>3, <1>5 DEF MapInv, HasPut
<1>7. QED
  BY <1>1, <1>3, <1>4, <1>6

LEMMA RemoveStep ==
  ASSUME MapInv, Balanced, NEW k \in DOMAIN heap, Remove(k)
  PROVE  /\ MapInv' /\ HasLost(heap, k, heap', root') /\ UNCHANGED iter
         /\ len' = len - 1
         /\ Returns("remove", k, NoValue, TRUE)
<1> DEFINE r == NodeDelete(heap, root, k)
<1>1. IsMap(heap, root)
  BY DEF MapInv
<1>2. /\ HasLost(heap, k, Kept(Blackened(r.h, r.n), r.n), Key(r.h, r.n))
      /\ r.hit = TRUE
  BY <1>1, RemoveRemoves DEF Balanced
<1>3. /\ heap' = Kept(Blackened(r.h, r.n), r.n) /\ root' = Key(r.h, r.n)
      /\ len' = len - 1 /\ Returns("remove", k, NoValue, TRUE) /\ UNCHANGED iter
  <2>1. (r.hit = TRUE) = TRUE
    BY <1>2
  <2>2. QED
    BY <1>2, <2>1 DEF Remove
<1> HIDE DEF r
<1>4. HasLost(heap, k, heap', root')
  BY <1>2, <1>3
<1>5. len' = Cardinality(DOMAIN heap')
  <2>1. DOMAIN heap' = DOMAIN heap \ {k}
    BY <1>4 DEF HasLost
  <2>2. QED
    BY <1>1, <1>3, <2>1, MapSize, FS_RemoveElement DEF MapInv
<1>6. MapInv'
  BY <1>3, <1>4, <1>5 DEF MapInv, HasLost
<1>7. QED
  BY <1>3, <1>4, <1>6

(* The node the iterator gives, and its key.                               *)
LEMMA IterStep ==
  ASSUME MapInv, MapiterNext
  PROVE  /\ UNCHANGED <<heap, root, len>>
         /\ \/ \E k \in DOMAIN heap :
                 /\ iter.last < k
                 /\ \A j \in DOMAIN heap : iter.last < j => k <= j
                 /\ iter' = [begin |-> FALSE, last |-> k]
                 /\ ret' = [op |-> "next", key |-> k, arg |-> NoValue, value |-> heap[k].value]
            \/ /\ \A j \in DOMAIN heap : ~(iter.last < j)
               /\ iter' = iter
               /\ ret' = [op |-> "next", key |-> NoKey, arg |-> NoValue, value |-> NoValue]
<1> DEFINE S == DOMAIN heap
           n == IF root = Null THEN Null
                ELSE IF iter.begin THEN NodeGetnode(heap, root, NodeMin(heap, root))
                ELSE IterIntNext(heap, root, iter.last)
<1>1. /\ iter' = IF n = Null THEN iter ELSE [begin |-> FALSE, last |-> heap[n].key]
      /\ ret' = [op |-> "next", key |-> IF n = Null THEN NoKey ELSE heap[n].key,
                 arg |-> NoValue, value |-> IF n = Null THEN NoValue ELSE heap[n].value]
      /\ UNCHANGED <<heap, root, len>>
  BY DEF MapiterNext
<1>2. IsHeap(heap) /\ KeysAreAddresses(heap) /\ Tree(heap, root, S)
  BY DEF MapInv, IsMap
<1>3. \A j \in S : heap[j].key = j /\ j \in Nat /\ j > 0 /\ j # Null
  BY <1>2, HeapFacts, LinkFacts DEF KeysAreAddresses
<1>4. iter.last \in Int /\ (iter.begin => iter.last = 0) /\ iter.begin \in BOOLEAN
  BY DEF MapInv, Keys, NoKey
<1>5. Follows(heap, S, iter.last, n)
  <2>1. CASE root = Null
    <3>1. S = {} /\ n = Null
      BY <1>2, <2>1, SpanInHeap, NoDepthFacts DEF Tree
    <3>2. QED
      BY <3>1 DEF Follows
  <2>2. CASE root # Null /\ iter.begin
    <3> DEFINE min == NodeMin(heap, root)
    <3>1. LeastKey(heap, S, min)
      BY <1>2, <2>2, MinIsLeast
    <3>2. n = NodeGetnode(heap, root, min)
      BY <2>2
    <3> HIDE DEF min, n
    <3>3. min \in Int
      BY <1>3, <3>1 DEF LeastKey
    <3>4. Finds(heap, S, min, n)
      BY <1>2, <3>2, <3>3, GetnodeFinds
    <3>5. n \in S /\ heap[n].key = min
      BY <3>1, <3>4 DEF Finds, LeastKey
    <3>6. iter.last = 0 /\ heap[n].key > 0
      BY <1>3, <1>4, <2>2, <3>5
    <3>7. QED
      BY <1>3, <3>1, <3>5, <3>6 DEF Follows, LeastKey
  <2>3. CASE root # Null /\ ~iter.begin
    <3>1. n = IterIntNext(heap, root, iter.last)
      BY <2>3
    <3> HIDE DEF n
    <3>2. QED
      BY <1>2, <1>4, <3>1, IterIntNextFollows
  <2>4. QED
    BY <1>4, <2>1, <2>2, <2>3
<1> HIDE DEF n
<1>6. CASE n = Null
  <2>1. \A j \in S : ~(iter.last < heap[j].key)
    BY <1>3, <1>5, <1>6 DEF Follows
  <2>2. QED
    BY <1>1, <1>3, <1>6, <2>1
<1>7. CASE n # Null
  <2>1. /\ n \in S /\ iter.last < heap[n].key
        /\ \A x \in S : iter.last < heap[x].key => heap[n].key <= heap[x].key
    BY <1>5, <1>7 DEF Follows
  <2>2. heap[n].key = n
    BY <1>3, <2>1
  <2>3. QED
    BY <1>1, <1>3, <1>7, <2>1, <2>2
<1>8. QED
  BY <1>6, <1>7

(* What a step owes: the invariant, MapSpec, and the balance.              *)
BalanceStays ==
  Balanced /\ (ret'.op = "remove" => ret'.key \in Least) => Balanced'

Owed == MapInv' /\ Abstract!Next /\ BalanceStays

LEMMA DictFacts == DOMAIN Dict = DOMAIN heap /\ \A k \in DOMAIN heap : Dict[k] = heap[k].value
BY DEF Dict, Present

LEMMA LookupIs ==
  ASSUME NEW k
  PROVE  Abstract!Lookup(k) = IF k \in DOMAIN heap THEN heap[k].value ELSE NoValue
BY DictFacts DEF Abstract!Lookup, Abstract!Present

LEMMA PutOwed ==
  ASSUME MapInv, NEW k \in Keys, NEW v \in Values, Put(k, v)
  PROVE  Owed
<1>1. /\ MapInv' /\ HasPut(heap, root, k, v, heap', root') /\ UNCHANGED iter
      /\ len' = IF k \in DOMAIN heap THEN len ELSE len + 1
      /\ Returns("put", k, v, IF k \in DOMAIN heap THEN heap[k].value ELSE NoValue)
  BY PutStep
<1>2. DOMAIN heap' = DOMAIN heap \cup {k}
  BY <1>1 DEF HasPut
<1>3. Dict' = [j \in Abstract!Present \cup {k} |-> IF j = k THEN v ELSE Dict[j]]
  <2>1. Dict' = [j \in DOMAIN heap \cup {k} |-> heap'[j].value]
    BY <1>2 DEF Dict, Present
  <2>2. \A j \in DOMAIN heap \cup {k} : heap'[j].value = IF j = k THEN v ELSE Dict[j]
    BY <1>1, DictFacts DEF HasPut
  <2>3. QED
    BY <2>1, <2>2, DictFacts DEF Abstract!Present
<1>4. len' = IF k \in Abstract!Present THEN len ELSE len + 1
  BY <1>1, DictFacts DEF Abstract!Present
<1>5. ret' = Abstract!Call("put", k, v, Abstract!Lookup(k))
  BY <1>1, LookupIs DEF Returns, Abstract!Call
<1>6. Abstract!Next
  <2>1. Abstract!Put(k, v)
    BY <1>1, <1>3, <1>4, <1>5 DEF Abstract!Put
  <2>2. QED
    BY <2>1 DEF Abstract!Next, Abstract!Keys, Keys
<1>7. BalanceStays
  BY <1>1 DEF BalanceStays, Balanced, HasPut
<1>8. QED
  BY <1>1, <1>6, <1>7 DEF Owed

LEMMA RemoveOwed ==
  ASSUME MapInv, Balanced, NEW k \in DOMAIN heap, Remove(k)
  PROVE  Owed
<1>1. /\ MapInv' /\ HasLost(heap, k, heap', root') /\ UNCHANGED iter
      /\ len' = len - 1
      /\ Returns("remove", k, NoValue, TRUE)
  BY RemoveStep
<1>2. IsHeap(heap) /\ KeysAreAddresses(heap) /\ k \in Keys
  BY DEF MapInv, IsMap, IsHeap, Nodes
<1>3. DOMAIN heap' = DOMAIN heap \ {k}
  BY <1>1 DEF HasLost
<1>4. Dict' = [j \in Abstract!Present \ {k} |-> Dict[j]]
  <2>1. Dict' = [j \in DOMAIN heap \ {k} |-> heap'[j].value]
    BY <1>3 DEF Dict, Present
  <2>2. \A j \in DOMAIN heap \ {k} : heap'[j].value = Dict[j]
    BY <1>1, DictFacts DEF HasLost
  <2>3. QED
    BY <2>1, <2>2, DictFacts DEF Abstract!Present
<1>5. k \in Abstract!Present
  BY DictFacts DEF Abstract!Present
<1>6. ret' = Abstract!Call("remove", k, NoValue, k \in Abstract!Present)
  <2>1. (k \in Abstract!Present) = TRUE
    BY <1>5
  <2>2. ret' = [op |-> "remove", key |-> k, arg |-> NoValue, value |-> TRUE]
    BY <1>1 DEF Returns
  <2>3. Abstract!Call("remove", k, NoValue, TRUE) = ret'
    BY <2>2 DEF Abstract!Call
  <2>4. QED
    BY <2>1, <2>3
<1>7. Abstract!Next
  <2>1. Abstract!Remove(k)
    BY <1>1, <1>4, <1>5, <1>6 DEF Abstract!Remove
  <2>2. QED
    BY <1>2, <2>1 DEF Abstract!Next, Abstract!Keys, Keys
<1>8. BalanceStays
  <2>1. ret'.op = "remove" /\ ret'.key = k
    BY <1>1 DEF Returns
  <2>2. k \in Least => LeastKey(heap, DOMAIN heap, k)
    BY <1>2 DEF Least, Present, LeastKey, KeysAreAddresses
  <2>3. QED
    BY <1>1, <2>1, <2>2 DEF BalanceStays, Balanced, HasLost
<1>9. QED
  BY <1>1, <1>7, <1>8 DEF Owed

LEMMA GetOwed ==
  ASSUME MapInv, NEW k \in Keys, Get(k)
  PROVE  Owed
<1> DEFINE n == NodeGetnode(heap, root, k)
<1>1. /\ Returns("get", k, NoValue, IF n = Null THEN NoValue ELSE heap[n].value)
      /\ UNCHANGED <<heap, root, len, iter>>
  BY DEF Get
<1>2. IsHeap(heap) /\ KeysAreAddresses(heap) /\ Tree(heap, root, DOMAIN heap)
  BY DEF MapInv, IsMap
<1> HIDE DEF n
<1>3. Finds(heap, DOMAIN heap, k, n)
  <2>1. k \in Int
    BY DEF Keys
  <2>2. QED
    BY <1>2, <2>1, GetnodeFinds DEF n
<1>4. \A j \in DOMAIN heap : heap[j].key = j /\ j # Null
  BY <1>2, HeapFacts, LinkFacts DEF KeysAreAddresses
<1>5. (IF n = Null THEN NoValue ELSE heap[n].value) = Abstract!Lookup(k)
  BY <1>3, <1>4, LookupIs DEF Finds
<1>6. Dict' = Dict /\ iter'.last = iter.last
  BY <1>1 DEF Dict, Present
<1>7. Abstract!Next
  <2>1. Abstract!Get(k)
    BY <1>1, <1>5, <1>6 DEF Abstract!Get, Abstract!Call, Returns
  <2>2. QED
    BY <2>1 DEF Abstract!Next, Abstract!Keys, Keys
<1>8. MapInv'
  BY <1>1 DEF MapInv
<1>9. BalanceStays
  BY <1>1 DEF BalanceStays, Balanced
<1>10. QED
  BY <1>7, <1>8, <1>9 DEF Owed

LEMMA StartOwed ==
  ASSUME MapInv, MapiterStart
  PROVE  Owed
<1>1. /\ iter' = [begin |-> TRUE, last |-> NoKey]
      /\ Returns("iter", NoKey, NoValue, NoValue)
      /\ UNCHANGED <<heap, root, len>>
  BY DEF MapiterStart
<1>2. Dict' = Dict
  BY <1>1 DEF Dict, Present
<1>3. Abstract!Next
  BY <1>1, <1>2 DEF Abstract!Next, Abstract!Start, Abstract!Call, Returns, Abstract!NoKey, NoKey
<1>4. MapInv'
  BY <1>1 DEF MapInv
<1>5. BalanceStays
  BY <1>1 DEF BalanceStays, Balanced
<1>6. QED
  BY <1>3, <1>4, <1>5 DEF Owed

LEMMA NextOwed ==
  ASSUME MapInv, MapiterNext
  PROVE  Owed
<1>1. UNCHANGED <<heap, root, len>>
  BY IterStep
<1>2. Dict' = Dict
  BY <1>1 DEF Dict, Present
<1>3. BalanceStays
  BY <1>1 DEF BalanceStays, Balanced
<1>4. \A j \in DOMAIN heap : j \in Keys /\ j > 0
  BY DEF MapInv, IsMap, IsHeap, Nodes, Keys
<1>5. iter.last \in Int
  BY DEF MapInv, Keys, NoKey
<1>6. \A j : j \in Abstract!Later <=> j \in DOMAIN heap /\ iter.last < j
  BY <1>4, <1>5, DictFacts DEF Abstract!Later, Abstract!Present, Keys
<1>7. CASE \E k \in DOMAIN heap :
             /\ iter.last < k
             /\ \A j \in DOMAIN heap : iter.last < j => k <= j
             /\ iter' = [begin |-> FALSE, last |-> k]
             /\ ret' = [op |-> "next", key |-> k, arg |-> NoValue, value |-> heap[k].value]
  <2>1. PICK k \in DOMAIN heap :
           /\ iter.last < k
           /\ \A j \in DOMAIN heap : iter.last < j => k <= j
           /\ iter' = [begin |-> FALSE, last |-> k]
           /\ ret' = [op |-> "next", key |-> k, arg |-> NoValue, value |-> heap[k].value]
    BY <1>7
  <2>2. k \in Abstract!Later /\ \A j \in Abstract!Later : k <= j
    BY <1>6, <2>1
  <2>3. iter'.last = k /\ ret' = Abstract!Call("next", k, NoValue, Dict[k])
    BY <2>1, DictFacts DEF Abstract!Call
  <2>4. Abstract!Give
    BY <1>1, <1>2, <2>2, <2>3 DEF Abstract!Give
  <2>5. iter' \in [begin : BOOLEAN, last : Keys \cup {NoKey}] /\ ~iter'.begin
    BY <1>4, <2>1
  <2>6. MapInv'
    BY <1>1, <2>5 DEF MapInv
  <2>7. QED
    BY <1>3, <2>4, <2>6 DEF Owed, Abstract!Next
<1>8. CASE /\ \A j \in DOMAIN heap : ~(iter.last < j)
           /\ iter' = iter
           /\ ret' = [op |-> "next", key |-> NoKey, arg |-> NoValue, value |-> NoValue]
  <2>1. Abstract!Later = {}
    BY <1>6, <1>8
  <2>2. iter'.last = iter.last /\ ret' = Abstract!Call("next", Abstract!NoKey, NoValue, NoValue)
    BY <1>8 DEF Abstract!Call, Abstract!NoKey, NoKey
  <2>3. Abstract!Give
    BY <1>1, <1>2, <2>1, <2>2 DEF Abstract!Give
  <2>4. MapInv'
    BY <1>1, <1>8 DEF MapInv
  <2>5. QED
    BY <1>3, <2>3, <2>4 DEF Owed, Abstract!Next
<1>9. QED
  BY <1>7, <1>8, IterStep

LEMMA RemovableIs ==
  ASSUME Removing = "balanced", NEW k \in Removable
  PROVE  Balanced /\ k \in DOMAIN heap
<1>1. Removing # "any" /\ Removing # "present"
  OBVIOUS
<1>2. Removable = IF Balanced THEN Present ELSE {}
  BY <1>1 DEF Removable
<1>3. QED
  BY <1>2 DEF Present

LEMMA StepOwed ==
  ASSUME Removing = "balanced", MapInv, Next
  PROVE  Owed
<1>1. CASE \E k \in Keys, v \in Values : Put(k, v)
  BY <1>1, PutOwed
<1>2. CASE \E k \in Removable : Remove(k)
  BY <1>2, RemovableIs, RemoveOwed
<1>3. CASE \E k \in Keys : Get(k)
  BY <1>3, GetOwed
<1>4. CASE MapiterStart
  BY <1>4, StartOwed
<1>5. CASE MapiterNext
  BY <1>5, NextOwed
<1>6. QED
  BY <1>1, <1>2, <1>3, <1>4, <1>5 DEF Next

LEMMA MapInvIsTyped == MapInv => TypeOK
<1> SUFFICES ASSUME MapInv PROVE TypeOK
  OBVIOUS
<1>1. IsMap(heap, root) /\ IsHeap(heap)
  BY DEF MapInv, IsMap
<1>2. \A n \in DOMAIN heap : heap[n] \in Mnodes /\ heap[n].key = n
  BY <1>1 DEF IsMap, IsHeap, KeysAreAddresses
<1>3. root \in Links
  BY <1>1, SpanInHeap, NoDepthFacts DEF IsMap, Tree, IsHeap, Links
<1>4. len \in 0..MaxKey
  BY <1>1, MapSize DEF MapInv
<1>5. QED
  BY <1>1, <1>2, <1>3, <1>4 DEF TypeOK, MapInv, IsHeap

(* Between two calls the nodes reached from the root are a search tree of  *)
(* exactly the nodes kept, each at its own key, and len counts them: for   *)
(* every bound on the keys and every sequence of calls in which a key is   *)
(* removed only while it is there and the tree balanced.  No call of these *)
(* aborts in a rotation or follows a null pointer (nodeAdd, nodeDelete).   *)
THEOREM MapStaysATree == ASSUME Removing = "balanced" PROVE Spec => []MapInv
<1>1. Init => MapInv
  BY MapStarts
<1>2. MapInv /\ [Next]_vars => MapInv'
  <2>1. SUFFICES ASSUME MapInv, [Next]_vars PROVE MapInv'
    OBVIOUS
  <2>2. CASE Next
    BY <2>1, <2>2, StepOwed DEF Owed
  <2>3. CASE UNCHANGED vars
    BY <2>1, <2>3 DEF vars, MapInv
  <2>4. QED
    BY <2>1, <2>2, <2>3
<1>3. QED
  BY <1>1, <1>2, PTL DEF Spec

(* Every put, lookup and removal of the least key leaves a balanced tree   *)
(* balanced: nodeFixUp and the borrowing on nodeDelete's way down restore  *)
(* what they disturb.                                                      *)
THEOREM MapStaysBalanced == ASSUME Removing = "balanced" PROVE Spec => BalanceIsKept
<1>1. MapInv /\ [Next]_vars
        => [/\ TypeOK'
            /\ Balanced /\ (ret'.op = "remove" => ret'.key \in Least) => Balanced']_vars
  <2>1. SUFFICES ASSUME MapInv, Next
                 PROVE  TypeOK' /\ BalanceStays
    BY DEF BalanceStays
  <2>2. MapInv' /\ BalanceStays
    BY <2>1, StepOwed DEF Owed
  <2>3. (MapInv => TypeOK)'
    BY MapInvIsTyped, PTL
  <2>4. QED
    BY <2>2, <2>3
<1>2. QED
  BY <1>1, MapStaysATree, PTL DEF Spec, BalanceIsKept

(* The tree implements MapSpec's dictionary: puts, removals and lookups    *)
(* answer for the keys and values put, and the iterator, which keeps only  *)
(* the last key it gave, gives the keys in order whatever changed between  *)
(* two of its steps.                                                       *)
THEOREM MapIsADictionary == ASSUME Removing = "balanced" PROVE Spec => IsADictionary
<1>1. Init => Abstract!Init
  <2>1. SUFFICES ASSUME Init PROVE Abstract!Init
    OBVIOUS
  <2>2. heap = <<>>
    BY <2>1 DEF Init
  <2>3. Dict = <<>>
    BY <2>2 DEF Dict, Present
  <2>4. QED
    BY <2>1, <2>3 DEF Init, Abstract!Init, Abstract!Call, Abstract!NoKey, NoKey
<1>2. MapInv /\ [Next]_vars => [Abstract!Next]_Abstract!vars
  <2>1. SUFFICES ASSUME MapInv, [Next]_vars PROVE [Abstract!Next]_Abstract!vars
    OBVIOUS
  <2>2. CASE Next
    BY <2>1, <2>2, StepOwed DEF Owed
  <2>3. CASE UNCHANGED vars
    BY <2>3 DEF vars, Abstract!vars, Dict, Present
  <2>4. QED
    BY <2>1, <2>2, <2>3
<1>3. QED
  BY <1>1, <1>2, MapStaysATree, PTL DEF Spec, IsADictionary, Abstract!Spec

(* A removal takes its key away, tells that it was there, and loses no     *)
(* other key, although nodeDelete moves another pair into the node: what   *)
(* an absent key can break (map.fork:248) a present one cannot.            *)
THEOREM PresentKeysGoAlone == ASSUME Removing = "balanced" PROVE Spec => RemoveTakesItsKeyOnly
<1>1. MapInv /\ [Next]_vars
        => [ret'.op = "remove" =>
              /\ ret'.value = (ret'.key \in Present)
              /\ Present' = Present \ {ret'.key}]_vars
  <2>1. SUFFICES ASSUME MapInv, Next, ret'.op = "remove"
                 PROVE  /\ ret'.value = (ret'.key \in Present)
                        /\ Present' = Present \ {ret'.key}
    OBVIOUS
  <2>2. PICK k \in Removable : Remove(k)
    <3>1. ~ \E k \in Keys, v \in Values : Put(k, v)
      BY <2>1 DEF Put, Returns
    <3>2. ~ \E k \in Keys : Get(k)
      BY <2>1 DEF Get, Returns
    <3>3. ~MapiterStart /\ ~MapiterNext
      BY <2>1 DEF MapiterStart, MapiterNext, Returns
    <3>4. QED
      BY <2>1, <3>1, <3>2, <3>3 DEF Next
  <2>3. Balanced /\ k \in DOMAIN heap
    BY <2>2, RemovableIs
  <2>4. HasLost(heap, k, heap', root') /\ Returns("remove", k, NoValue, TRUE)
    BY <2>1, <2>2, <2>3, RemoveStep
  <2>5. ret'.key = k /\ ret'.value = TRUE
    BY <2>4 DEF Returns
  <2>6. (k \in Present) = TRUE
    BY <2>3 DEF Present
  <2>7. Present' = Present \ {k}
    BY <2>4 DEF HasLost, Present
  <2>8. QED
    BY <2>5, <2>6, <2>7
<1>2. QED
  BY <1>1, MapStaysATree, PTL DEF Spec, RemoveTakesItsKeyOnly
=============================================================================
