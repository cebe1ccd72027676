---------------------------- MODULE NamesProofs ----------------------------
(***************************************************************************)
(* Proofs about Names for texts of every length and every set of names:    *)
(* what the parser's tables hold while they grow and shrink is what the    *)
(* text says, so that C finds the same declarations in it.                 *)
(***************************************************************************)
EXTENDS Names, SequenceTheorems, FiniteSetTheorems, TLAPS

-----------------------------------------------------------------------------
(* What the states look like.                                              *)

Ids == TypeIds \cup VarIds \cup FuncIds \cup ModuleNames \cup {ModuleType, "number", NoName}

UseRecords == [name : Ids, member : BOOLEAN]
Refs == [sort : {"none", "module", "var", "func", "param"}, name : Ids, at : Nat]
Items == [c : {"alias", "var", "func", "open", "close", "use"}, name : Ids,
          use : UseRecords, ref : Refs, type : Int, params : Seq(VarIds)]
Tables == UNION {[D -> Refs] : D \in SUBSET VarIds}
Scopes == [kind : {"root", "func", "body"}, name : Ids, at : Nat, syms : Tables]

TypeOK == /\ scopes \in Seq(Scopes)
          /\ funcs \in Seq(Refs)
          /\ aliases \in Seq([name : TypeIds, type : Int])
          /\ called \in [Structs -> Ids]
          /\ text \in Seq(Items)
          /\ stopped \in BOOLEAN

(* A use of a name is in an expression, and only a variable and a          *)
(* structure have a type and a name; a variable is one of VarIds.          *)
ItemsAreBuilt ==
  \A p \in DOMAIN text :
    /\ text[p].ref # None => /\ text[p].c \in {"var", "use"}
                             /\ text[p].use.name \in VarIds \cup FuncIds
    /\ text[p].c = "var" => text[p].name \in VarIds
    /\ text[p].c = "use" => text[p].name = NoName

-----------------------------------------------------------------------------
(* What the text says of a name.                                           *)

IsVar(q, n) == q \in DOMAIN text /\ text[q].c = "var" /\ text[q].name = n
IsFunc(q) == q \in DOMAIN text /\ text[q].c = "func"

(* The block that q is in goes on to p; p is in the body of function q.    *)
StillOpen(q, p) == \A k \in (q + 1)..p : Depth(k) >= Depth(q)
Enclosed(q, p) == IsFunc(q) /\ q < p /\ \A k \in (q + 1)..p : Depth(k) > 0

(* The name use, read at p, is that of r: m's; the innermost variable; a   *)
(* parameter that no variable of the body hides; or a function, that of    *)
(* the body before its parameters.                                         *)
Hides(n, k, p) == IsVar(k, n) /\ k < p /\ StillOpen(k, p)
HasParam(n, k, p) == Enclosed(k, p) /\ n \in ToSet(text[k].params)

FoundVar(n, r, p) ==
  \E q \in 1..(p - 1) : /\ Hides(n, q, p)
                        /\ r = Ref("var", n, q)
                        /\ \A k \in 1..(p - 1) : Hides(n, k, p) => Depth(k) <= Depth(q)
                        /\ Depth(q) = 0 => \A k \in 1..(p - 1) : ~HasParam(n, k, p)

NoLocal(n, p) == \A k \in 1..(p - 1) : Hides(n, k, p) => Depth(k) = 0

FoundParam(n, r, p) ==
  \E q \in 1..(p - 1) : /\ HasParam(n, q, p)
                        /\ r = Ref("param", n, q)
                        /\ NoLocal(n, p)

FoundFunc(n, r, p) ==
  \E q \in 1..(p - 1) : /\ IsFunc(q) /\ text[q].name = n
                        /\ r = Ref("func", n, q)
                        /\ NoLocal(n, p)
                        /\ \A k \in 1..(p - 1) : HasParam(n, k, p) => k = q

Found(use, r, p) ==
  \/ use.member /\ use.name \in ModuleNames /\ r = OfModule(use.name)
  \/ FoundVar(use.name, r, p)
  \/ FoundParam(use.name, r, p)
  \/ FoundFunc(use.name, r, p)

-----------------------------------------------------------------------------
(* The inductive invariant.                                                *)

(* Of the text alone: blocks nest, functions are in no block, a name is    *)
(* declared once in a block, an alias of its name comes after a variable,  *)
(* and each use was found as written.                                      *)
TextIsRight ==
  /\ \A p \in 1..Here : Depth(p) >= 0
  /\ \A p \in DOMAIN text : text[p].c = "func" => Depth(p) = 0
  /\ \A p, q \in DOMAIN text :
       /\ text[p].c = "var" /\ text[q].c = "var" /\ text[p].name = text[q].name
       /\ p < q /\ Depth(p) = Depth(q)
       => ~StillOpen(p, q)
  /\ \A p, q \in DOMAIN text :
       text[p].c = "alias" /\ text[q].c = "var" /\ p < q => text[p].name # text[q].name
  /\ \A p \in DOMAIN text : text[p].ref # None => Found(text[p].use, text[p].ref, p)

(* The nodes are the blocks open at the end of the text.                   *)
LevelOf(i) == IF i = 1 THEN 0 ELSE i - 2

NodesAreBlocks ==
  /\ Len(scopes) >= 1 /\ Len(scopes) # 2
  /\ \A i \in DOMAIN scopes :
       scopes[i].kind = IF i = 1 THEN "root" ELSE IF i = 2 THEN "func" ELSE "body"
  /\ Depth(Here) = LevelOf(Len(scopes))
  /\ Len(scopes) > 1 =>
       LET q == scopes[2].at
       IN  /\ Enclosed(q, Here)
           /\ scopes[2].name = text[q].name
           /\ scopes[2].syms = [p \in ToSet(text[q].params) |-> Ref("param", p, q)]

(* A table has the variables of its block, and all of them.                *)
InTable(n, i, q) == Hides(n, q, Here) /\ Depth(q) = LevelOf(i)

RightTable(i, syms) ==
  /\ \A n \in DOMAIN syms :
       \E q \in DOMAIN text : InTable(n, i, q) /\ syms[n] = Ref("var", n, q)
  /\ \A q \in DOMAIN text :
       InTable(text[q].name, i, q) => text[q].name \in DOMAIN syms

TablesAreRight == \A i \in DOMAIN scopes \ {2} : RightTable(i, scopes[i].syms)

(* The functions and the aliases are the text's.                           *)
RootIsRight ==
  /\ \A i \in DOMAIN funcs :
       \E q \in DOMAIN text : IsFunc(q) /\ funcs[i] = Ref("func", text[q].name, q)
  /\ \A i \in DOMAIN aliases :
       \E q \in DOMAIN text : text[q].c = "alias" /\ text[q].name = aliases[i].name
  /\ \A q \in DOMAIN text :
       text[q].c = "alias" => \E i \in DOMAIN aliases : aliases[i].name = text[q].name
  /\ \A i, j \in DOMAIN aliases : aliases[i].name = aliases[j].name => i = j

(* A structure of m that goes by another name was looked up by one.        *)
NamesOfTypes ==
  /\ TypeNamesDeclared
  /\ called[OwnType] # ModuleType => LookUps(OwnType) # {}

IInv == /\ TypeOK
        /\ ItemsAreBuilt
        /\ TextIsRight
        /\ NodesAreBlocks
        /\ TablesAreRight
        /\ RootIsRight
        /\ NamesOfTypes

-----------------------------------------------------------------------------
(* Helpers.                                                                *)

LEMMA LeastExists ==
  ASSUME NEW S \in SUBSET Nat, S # {}
  PROVE  \E x \in S : \A j \in S : x <= j
<1> DEFINE Lt == {ss \in Nat \X Nat : ss[1] < ss[2]}
<1>1. IsWellFoundedOn(Lt, Nat)
  BY NatLessThanWellFounded DEF OpToRel
<1>2. \A x, y \in Nat : <<y, x>> \in Lt <=> y < x
  OBVIOUS
<1> HIDE DEF Lt
<1>3. PICK x \in S : \A y \in S : ~(<<y, x>> \in Lt)
  BY <1>1, WFMin
<1>4. ASSUME NEW y \in S
      PROVE  x <= y
  <2>1. x \in Nat /\ y \in Nat
    OBVIOUS
  <2>2. ~(y < x)
    BY <1>2, <1>3, <2>1
  <2>3. QED
    BY <2>1, <2>2
<1>5. QED
  BY <1>4

(* A bounded set of integers has a greatest element, and Max is it.        *)
LEMMA GreatestExists ==
  ASSUME NEW S \in SUBSET Int, S # {}, NEW b \in Int, \A x \in S : x <= b
  PROVE  Max(S) \in S /\ \A y \in S : y <= Max(S)
<1> DEFINE T == {b - x : x \in S}
<1>1. T \in SUBSET Nat /\ T # {}
  <2>1. \A x \in S : b - x \in Nat
    OBVIOUS
  <2>2. QED
    BY <2>1
<1>2. PICK t \in T : \A j \in T : t <= j
  <2> HIDE DEF T
  <2>1. QED
    BY <1>1, LeastExists
<1>3. PICK x \in S : t = b - x
  OBVIOUS
<1>4. \A y \in S : b - y \in T
  OBVIOUS
<1> HIDE DEF T
<1>5. ASSUME NEW y \in S
      PROVE  x >= y
  <2>1. b - x <= b - y
    BY <1>2, <1>3, <1>4
  <2>2. x \in Int /\ y \in Int
    OBVIOUS
  <2>3. QED
    BY <2>1, <2>2
<1>6. Max(S) \in S /\ \A y \in S : Max(S) >= y
  BY <1>5 DEF Max
<1>7. ASSUME NEW y \in S
      PROVE  y <= Max(S)
  <2>1. Max(S) \in Int /\ y \in Int /\ Max(S) >= y
    BY <1>6
  <2>2. QED
    BY <2>1
<1>8. QED
  BY <1>6, <1>7

(* The first entry of a name is one of the entries, and has the name.      *)
LEMMA FirstHasName ==
  ASSUME NEW s, NEW N \in Nat, DOMAIN s = 1..N, NEW n, \E i \in DOMAIN s : s[i].name = n
  PROVE  \E i \in DOMAIN s : First(s, n) = s[i] /\ s[i].name = n
<1> DEFINE S == {i \in 1..N : s[i].name = n}
<1>1. S \in SUBSET Nat /\ S # {}
  OBVIOUS
<1>2. PICK i \in S : \A j \in S : i <= j
  <2> HIDE DEF S
  <2>1. QED
    BY <1>1, LeastExists
<1>3. i \in DOMAIN s /\ s[i].name = n
  OBVIOUS
<1>4. \A j \in 1..(i - 1) : s[j].name # n
  <2> SUFFICES ASSUME NEW j \in 1..(i - 1), s[j].name = n
               PROVE  FALSE
    OBVIOUS
  <2>1. j \in S /\ i \in 1..N
    OBVIOUS
  <2>2. i <= j
    BY <1>2, <2>1
  <2>3. QED
    BY <2>1, <2>2
<1> HIDE DEF S
<1> DEFINE IsFirst(k) == s[k].name = n /\ \A j \in 1..(k - 1) : s[j].name # n
<1>5. i \in DOMAIN s /\ IsFirst(i)
  BY <1>3, <1>4
<1>6. First(s, n) = s[CHOOSE k \in DOMAIN s : IsFirst(k)]
  BY DEF First
<1> DEFINE k == CHOOSE m \in DOMAIN s : IsFirst(m)
<1>7. k \in DOMAIN s /\ IsFirst(k)
  <2> HIDE DEF IsFirst
  <2>1. QED
    BY <1>5
<1>8. QED
  BY <1>6, <1>7

LEMMA RefFields ==
  ASSUME NEW s, NEW n, NEW q
  PROVE  /\ Ref(s, n, q).sort = s /\ Ref(s, n, q).name = n /\ Ref(s, n, q).at = q
         /\ s # "none" => Ref(s, n, q) # None
<1>1. Ref(s, n, q).sort = s /\ Ref(s, n, q).name = n /\ Ref(s, n, q).at = q
  BY DEF Ref
<1>2. None.sort = "none"
  BY DEF None, Ref
<1>3. QED
  BY <1>1, <1>2

-----------------------------------------------------------------------------
(* Counting in the text.                                                   *)

Openers == {"func", "open"}
Closers == {"close"}

CountIn(r, p, sorts) == Cardinality({q \in 1..p : r[q].c \in sorts})

Change(c) == IF c \in Openers THEN 1 ELSE IF c \in Closers THEN -1 ELSE 0

LEMMA CountStep ==
  ASSUME NEW r, NEW sorts, NEW p \in Nat
  PROVE  /\ CountIn(r, p, sorts) \in Nat
         /\ p > 0 => CountIn(r, p, sorts) =
                       CountIn(r, p - 1, sorts) + IF r[p].c \in sorts THEN 1 ELSE 0
<1> DEFINE S(n) == {q \in 1..n : r[q].c \in sorts}
<1>1. ASSUME NEW n \in Nat
      PROVE  IsFiniteSet(S(n)) /\ Cardinality(S(n)) \in Nat
  <2>1. IsFiniteSet(1..n)
    BY FS_Interval
  <2>2. IsFiniteSet(S(n))
    BY <2>1, FS_Subset
  <2>3. QED
    BY <2>2, FS_CardinalityType
<1>2. ASSUME p > 0, r[p].c \in sorts
      PROVE  Cardinality(S(p)) = Cardinality(S(p - 1)) + 1
  <2>1. S(p) = S(p - 1) \cup {p} /\ p \notin S(p - 1)
    BY <1>2
  <2>2. IsFiniteSet(S(p - 1))
    BY <1>1, <1>2
  <2> HIDE DEF S
  <2>3. QED
    BY <2>1, <2>2, FS_AddElement
<1>3. p > 0 /\ r[p].c \notin sorts => S(p) = S(p - 1)
  OBVIOUS
<1>4. /\ CountIn(r, p, sorts) = Cardinality(S(p))
      /\ CountIn(r, p - 1, sorts) = Cardinality(S(p - 1))
  BY DEF CountIn
<1>5. p > 0 => Cardinality(S(p - 1)) \in Nat
  <2>1. p > 0 => p - 1 \in Nat
    OBVIOUS
  <2>2. QED
    BY <2>1, <1>1
<1>6. Cardinality(S(p)) \in Nat
  BY <1>1
<1> HIDE DEF S
<1>7. QED
  BY <1>2, <1>3, <1>4, <1>5, <1>6

(* The depth at p of a text r is counted before p.                         *)
DepthIn(r, p) == CountIn(r, p - 1, Openers) - CountIn(r, p - 1, Closers)

LEMMA DepthInStep ==
  ASSUME NEW r, NEW p \in Nat \ {0}
  PROVE  /\ DepthIn(r, p) \in Int
         /\ DepthIn(r, p + 1) = DepthIn(r, p) + Change(r[p].c)
<1>1. p - 1 \in Nat /\ (p + 1) - 1 = p /\ p > 0
  OBVIOUS
<1>2. /\ CountIn(r, p - 1, Openers) \in Nat /\ CountIn(r, p - 1, Closers) \in Nat
      /\ CountIn(r, p, Openers) =
           CountIn(r, p - 1, Openers) + IF r[p].c \in Openers THEN 1 ELSE 0
      /\ CountIn(r, p, Closers) =
           CountIn(r, p - 1, Closers) + IF r[p].c \in Closers THEN 1 ELSE 0
  BY <1>1, CountStep
<1>3. ~(r[p].c \in Openers /\ r[p].c \in Closers)
  BY DEF Openers, Closers
<1>4. DepthIn(r, p + 1) = CountIn(r, p, Openers) - CountIn(r, p, Closers)
  BY <1>1 DEF DepthIn
<1>5. QED
  BY <1>2, <1>3, <1>4 DEF Change, DepthIn

LEMMA DepthIsDepthIn ==
  ASSUME NEW p
  PROVE  Depth(p) = DepthIn(text, p) /\ Depth(p)' = DepthIn(text', p)
<1>1. ASSUME NEW r
      PROVE  {q \in 1..(p - 1) : r[q].c = "close"} = {q \in 1..(p - 1) : r[q].c \in {"close"}}
  OBVIOUS
<1>2. QED
  BY <1>1 DEF Depth, DepthIn, CountIn, Openers, Closers

LEMMA DepthStep ==
  ASSUME NEW p \in Nat \ {0}
  PROVE  /\ Depth(p) \in Int
         /\ Depth(p + 1) = Depth(p) + Change(text[p].c)
BY DepthInStep, DepthIsDepthIn

LEMMA DepthAtStart == Depth(1) = 0
<1>1. {q \in 1..(1 - 1) : text[q].c \in {"func", "open"}} = {}
  OBVIOUS
<1>2. {q \in 1..(1 - 1) : text[q].c = "close"} = {}
  OBVIOUS
<1>3. QED
  BY <1>1, <1>2, FS_EmptySet DEF Depth

-----------------------------------------------------------------------------
(* An item is added to the text: what was written is what it was.          *)

Grows(it) == /\ text \in Seq(Items)
             /\ it \in Items
             /\ text' = Append(text, it)

LEMMA TextGrows ==
  ASSUME NEW it, Grows(it)
  PROVE  /\ Len(text) \in Nat /\ Here = Len(text) + 1 /\ Here \in Nat
         /\ DOMAIN text = 1..Len(text) /\ DOMAIN text' = 1..Here
         /\ text' \in Seq(Items) /\ Len(text') = Here /\ Here' = Here + 1
         /\ text'[Here] = it
         /\ \A p \in 1..Len(text) : text'[p] = text[p]
BY DEF Grows, Here

LEMMA ItemsAreKept ==
  ASSUME NEW it, Grows(it)
  PROVE  /\ DOMAIN text = 1..(Here - 1) /\ DOMAIN text' = 1..Here /\ Here \in Nat \ {0}
         /\ text'[Here] = it /\ \A k \in DOMAIN text : text'[k] = text[k]
BY TextGrows

LEMMA DepthIsKept ==
  ASSUME NEW it, Grows(it)
  PROVE  /\ \A p \in 1..Here : Depth(p) \in Int /\ Depth(p)' = Depth(p)
         /\ Depth(Here)' = Depth(Here) + Change(it.c)
<1>1. ASSUME NEW p \in 1..Here
      PROVE  Depth(p)' = Depth(p)
  <2>1. \A q \in 1..(p - 1) : text'[q] = text[q]
    BY TextGrows
  <2>2. /\ {q \in 1..(p - 1) : text'[q].c \in {"func", "open"}}
             = {q \in 1..(p - 1) : text[q].c \in {"func", "open"}}
        /\ {q \in 1..(p - 1) : text'[q].c = "close"}
             = {q \in 1..(p - 1) : text[q].c = "close"}
    BY <2>1
  <2>3. QED
    BY <2>2 DEF Depth
<1>2. ASSUME NEW p \in 1..Here
      PROVE  Depth(p) \in Int
  BY DepthStep, TextGrows
<1>3. Depth(Here)' = Depth(Here) + Change(it.c)
  <2>1. Here \in Nat \ {0} /\ Here \in 1..Here /\ text'[Here] = it /\ Here' = Here + 1
    BY TextGrows
  <2>2. PICK h \in Nat \ {0} : h = Here
    BY <2>1
  <2>3. DepthIn(text', h + 1) = DepthIn(text', h) + Change(text'[h].c)
    BY DepthInStep
  <2>4. Depth(h)' = Depth(h)
    BY <1>1, <2>1, <2>2
  <2>5. Depth(Here)' = DepthIn(text', h + 1)
    <3>1. Depth(h + 1)' = DepthIn(text', h + 1)
      BY DepthIsDepthIn
    <3>2. Here' = h + 1
      BY <2>1, <2>2
    <3>3. QED
      BY <3>1, <3>2 DEF Depth
  <2>6. QED
    BY <2>1, <2>2, <2>3, <2>4, <2>5, DepthIsDepthIn
<1>4. QED
  BY <1>1, <1>2, <1>3
LEMMA NamesAreKept ==
  ASSUME NEW it, Grows(it), NEW p \in 1..Here, NEW k \in 1..(p - 1), NEW n
  PROVE  /\ k \in DOMAIN text /\ text'[k] = text[k]
         /\ Depth(k)' = Depth(k)
         /\ IsVar(k, n)' <=> IsVar(k, n)
         /\ IsFunc(k)' <=> IsFunc(k)
         /\ StillOpen(k, p)' <=> StillOpen(k, p)
         /\ Hides(n, k, p)' <=> Hides(n, k, p)
         /\ Enclosed(k, p)' <=> Enclosed(k, p)
         /\ HasParam(n, k, p)' <=> HasParam(n, k, p)
<1>1. k \in 1..Len(text) /\ k \in 1..Here /\ k \in DOMAIN text /\ k \in DOMAIN text'
  BY TextGrows
<1>2. \A q \in (k + 1)..p : q \in 1..Here
  BY TextGrows
<1>3. text'[k] = text[k] /\ Depth(k)' = Depth(k) /\ \A q \in (k + 1)..p : Depth(q)' = Depth(q)
  BY <1>1, <1>2, TextGrows, DepthIsKept
<1>4. (IsVar(k, n)' <=> IsVar(k, n)) /\ (IsFunc(k)' <=> IsFunc(k))
  BY <1>1, <1>3 DEF IsVar, IsFunc
<1>5. StillOpen(k, p)' <=> StillOpen(k, p)
  BY <1>3 DEF StillOpen
<1>6. Enclosed(k, p)' <=> Enclosed(k, p)
  BY <1>3, <1>4 DEF Enclosed
<1>7. (Hides(n, k, p)' <=> Hides(n, k, p)) /\ (HasParam(n, k, p)' <=> HasParam(n, k, p))
  BY <1>3, <1>4, <1>5, <1>6 DEF Hides, HasParam
<1>8. QED
  BY <1>1, <1>3, <1>4, <1>5, <1>6, <1>7

LEMMA FoundIsKept ==
  ASSUME NEW it, Grows(it), NEW p \in 1..Here, NEW use, NEW r, Found(use, r, p)
  PROVE  Found(use, r, p)'
<1> DEFINE n == use.name
<1>1. \A k \in 1..(p - 1) :
         /\ text'[k] = text[k] /\ Depth(k)' = Depth(k)
         /\ IsFunc(k)' <=> IsFunc(k)
         /\ Hides(n, k, p)' <=> Hides(n, k, p)
         /\ HasParam(n, k, p)' <=> HasParam(n, k, p)
  BY NamesAreKept
<1> HIDE DEF n
<1>2. FoundVar(n, r, p) => FoundVar(n, r, p)'
  BY <1>1 DEF FoundVar
<1>3. NoLocal(n, p) => NoLocal(n, p)'
  BY <1>1 DEF NoLocal
<1>4. FoundParam(n, r, p) => FoundParam(n, r, p)'
  BY <1>1, <1>3 DEF FoundParam
<1>5. FoundFunc(n, r, p) => FoundFunc(n, r, p)'
  BY <1>1, <1>3 DEF FoundFunc
<1>6. QED
  BY <1>2, <1>4, <1>5 DEF Found, n

(* What an item owes the text.                                             *)
ItemIsRight(it) ==
  /\ Depth(Here) + Change(it.c) >= 0
  /\ it.c = "func" => Depth(Here) = 0
  /\ it.c = "var" => \A q \in DOMAIN text :
       /\ Hides(it.name, q, Here) => Depth(q) # Depth(Here)
       /\ text[q].c = "alias" => text[q].name # it.name
  /\ it.ref # None => Found(it.use, it.ref, Here)

LEMMA GrowingKeepsText ==
  ASSUME NEW it, Grows(it), ItemIsRight(it), TextIsRight
  PROVE  TextIsRight'
<1>1. /\ DOMAIN text = 1..Len(text) /\ DOMAIN text' = 1..Here /\ Here' = Here + 1
      /\ Len(text) \in Nat /\ Here = Len(text) + 1
      /\ text'[Here] = it /\ \A p \in 1..Len(text) : text'[p] = text[p]
  BY TextGrows
<1>2. \A p \in 1..Here : Depth(p) \in Int /\ Depth(p)' = Depth(p)
  BY DepthIsKept
<1>3. (\A p \in 1..Here : Depth(p) >= 0)'
  <2>1. PICK h \in Nat : h = Here /\ Here' = h + 1
    BY <1>1
  <2>2. Depth(h + 1)' >= 0
    <3>1. Depth(Here)' >= 0
      BY DepthIsKept DEF ItemIsRight
    <3>2. QED
      BY <2>1, <3>1 DEF Depth
  <2>3. \A p \in 1..h : Depth(p)' >= 0
    BY <1>2, <2>1 DEF TextIsRight
  <2>4. \A p \in 1..(h + 1) : p \in 1..h \/ p = h + 1
    BY <2>1
  <2>5. ASSUME NEW p \in 1..(h + 1)
        PROVE  Depth(p)' >= 0
    BY <2>2, <2>3, <2>4
  <2>6. QED
    BY <2>1, <2>5
<1>4. \A p \in DOMAIN text' : (p \in DOMAIN text /\ text'[p] = text[p]) \/ (p = Here /\ text'[p] = it)
  BY <1>1
<1>5. \A p \in DOMAIN text' : p \in 1..Here /\ Depth(p)' = Depth(p)
  BY <1>1, <1>2
<1>6. \A p \in DOMAIN text' : text'[p].c = "func" => Depth(p)' = 0
  BY <1>4, <1>5 DEF TextIsRight, ItemIsRight
<1>7. ASSUME NEW p \in DOMAIN text', NEW q \in DOMAIN text',
             text'[p].c = "var", text'[q].c = "var", text'[p].name = text'[q].name,
             p < q, Depth(p)' = Depth(q)', StillOpen(p, q)'
      PROVE  FALSE
  <2>1. p \in DOMAIN text /\ text'[p] = text[p] /\ q \in 1..Here /\ p \in 1..(q - 1)
    BY <1>1, <1>7
  <2>2. StillOpen(p, q) /\ Depth(p) = Depth(q)
    BY <1>5, <1>7, <2>1, NamesAreKept
  <2>3. CASE q \in DOMAIN text
    BY <1>1, <1>7, <2>1, <2>2, <2>3 DEF TextIsRight
  <2>4. CASE q = Here
    <3>1. it.c = "var" /\ it.name = text[p].name
      BY <1>1, <1>7, <2>1, <2>4
    <3>2. Hides(it.name, p, Here)
      BY <1>7, <2>1, <2>2, <2>4, <3>1 DEF Hides, IsVar
    <3>3. QED
      BY <2>1, <2>2, <2>4, <3>1, <3>2 DEF ItemIsRight
  <2>5. QED
    BY <1>4, <2>3, <2>4
<1>8. ASSUME NEW p \in DOMAIN text', NEW q \in DOMAIN text',
             text'[p].c = "alias", text'[q].c = "var", p < q
      PROVE  text'[p].name # text'[q].name
  <2>1. p \in DOMAIN text /\ text'[p] = text[p]
    BY <1>1, <1>8
  <2>2. QED
    BY <1>4, <1>8, <2>1 DEF TextIsRight, ItemIsRight
<1>9. ASSUME NEW p \in DOMAIN text', text'[p].ref # None
      PROVE  Found(text[p].use, text[p].ref, p)'
  <2>1. PICK u, r : u = text'[p].use /\ r = text'[p].ref
    OBVIOUS
  <2>2. Found(u, r, p)
    BY <1>4, <1>9, <2>1 DEF TextIsRight, ItemIsRight
  <2>3. Found(u, r, p)'
    BY <1>5, <2>2, FoundIsKept
  <2>4. QED
    BY <2>1, <2>3 DEF Found, FoundVar, FoundParam, FoundFunc
<1>10. QED
  BY <1>3, <1>6, <1>7, <1>8, <1>9 DEF TextIsRight
-----------------------------------------------------------------------------
(* Looking up.                                                             *)

LEMMA StateFacts ==
  ASSUME TypeOK, NodesAreBlocks
  PROVE  /\ Len(text) \in Nat /\ Here = Len(text) + 1 /\ DOMAIN text = 1..Len(text)
         /\ Len(scopes) \in Nat /\ DOMAIN scopes = 1..Len(scopes)
         /\ Len(scopes) = 1 \/ Len(scopes) >= 3
         /\ \A i \in DOMAIN scopes : scopes[i] \in Scopes
         /\ Innermost = scopes[Len(scopes)]
         /\ Len(scopes) \in DOMAIN scopes \ {2}
         /\ 1 \in DOMAIN scopes
         /\ \A p \in 1..Here : Depth(p) \in Int
<1>1. Len(text) \in Nat /\ Here = Len(text) + 1 /\ DOMAIN text = 1..Len(text)
  BY DEF TypeOK, Here
<1>2. /\ Len(scopes) \in Nat /\ DOMAIN scopes = 1..Len(scopes)
      /\ \A i \in DOMAIN scopes : scopes[i] \in Scopes
  BY DEF TypeOK
<1>3. Len(scopes) >= 1 /\ Len(scopes) # 2
  BY DEF NodesAreBlocks
<1>4. \A p \in 1..Here : Depth(p) \in Int
  BY <1>1, DepthStep
<1>5. QED
  BY <1>1, <1>2, <1>3, <1>4 DEF Innermost

(* Only one function is open.                                              *)
LEMMA OneEnclosed ==
  ASSUME TextIsRight, NEW p \in Int, NEW q \in Int, NEW k \in Int,
         Enclosed(q, p), Enclosed(k, p)
  PROVE  k = q
<1>1. Depth(q) = 0 /\ Depth(k) = 0
  BY DEF Enclosed, IsFunc, TextIsRight
<1>2. ~(q < k) /\ ~(k < q)
  BY <1>1 DEF Enclosed
<1>3. QED
  BY <1>2

LEMMA LocalIsInTable ==
  ASSUME IInv, NEW n, NEW k \in 1..(Here - 1), Hides(n, k, Here), Depth(k) > 0
  PROVE  /\ Depth(k) + 2 \in 3..Len(scopes)
         /\ n \in DOMAIN scopes[Depth(k) + 2].syms
<1>1. /\ Len(text) \in Nat /\ Here = Len(text) + 1 /\ DOMAIN text = 1..Len(text)
      /\ Len(scopes) \in Nat /\ DOMAIN scopes = 1..Len(scopes)
      /\ \A p \in 1..Here : Depth(p) \in Int
  BY StateFacts DEF IInv
<1>2. Depth(k) <= Depth(Here) /\ Depth(k) \in Int
  BY <1>1 DEF Hides, StillOpen
<1>3. PICK i \in Int : i = Depth(k) + 2
  BY <1>2
<1>4. Depth(Here) = LevelOf(Len(scopes)) /\ Len(scopes) >= 1
  BY DEF IInv, NodesAreBlocks
<1>5. i \in 3..Len(scopes) /\ LevelOf(i) = Depth(k)
  <2>1. i >= 3 /\ LevelOf(i) = Depth(k)
    BY <1>2, <1>3 DEF LevelOf
  <2>2. Len(scopes) # 1
    BY <1>2, <1>4 DEF LevelOf
  <2>3. Depth(Here) = Len(scopes) - 2
    BY <1>4, <2>2 DEF LevelOf
  <2>4. i <= Len(scopes)
    BY <1>1, <1>2, <1>3, <2>3
  <2>5. QED
    BY <1>1, <2>1, <2>4
<1>6. i \in DOMAIN scopes \ {2}
  BY <1>1, <1>5
<1>7. text[k].name = n /\ k \in DOMAIN text
  BY DEF Hides, IsVar
<1>8. InTable(text[k].name, i, k)
  BY <1>5, <1>7 DEF InTable
<1>9. n \in DOMAIN scopes[i].syms
  BY <1>6, <1>7, <1>8 DEF IInv, TablesAreRight, RightTable
<1>10. QED
  BY <1>3, <1>5, <1>9

LEMMA ParamIsInNode ==
  ASSUME IInv, NEW n, NEW k \in 1..(Here - 1), HasParam(n, k, Here)
  PROVE  /\ Len(scopes) > 1
         /\ k = scopes[2].at
         /\ n \in DOMAIN scopes[2].syms
<1>1. /\ Len(text) \in Nat /\ Here = Len(text) + 1
      /\ Len(scopes) \in Nat /\ DOMAIN scopes = 1..Len(scopes)
      /\ \A p \in 1..Here : Depth(p) \in Int
      /\ Len(scopes) = 1 \/ Len(scopes) >= 3
      /\ \A i \in DOMAIN scopes : scopes[i] \in Scopes
  BY StateFacts DEF IInv
<1>2. Depth(Here) > 0
  BY <1>1 DEF HasParam, Enclosed
<1>3. Len(scopes) > 1
  BY <1>1, <1>2 DEF IInv, NodesAreBlocks, LevelOf
<1>4. /\ Enclosed(scopes[2].at, Here)
      /\ scopes[2].syms = [p \in ToSet(text[scopes[2].at].params) |-> Ref("param", p, scopes[2].at)]
  BY <1>3 DEF IInv, NodesAreBlocks
<1>5. scopes[2].at \in Int
  BY <1>1, <1>3 DEF Scopes
<1>6. k = scopes[2].at
  <2>1. k \in Int /\ Here \in Int
    BY <1>1
  <2>2. Enclosed(k, Here)
    BY DEF HasParam
  <2>3. QED
    BY <1>4, <1>5, <2>1, <2>2, OneEnclosed DEF IInv
<1>7. n \in ToSet(text[k].params)
  BY DEF HasParam
<1>8. QED
  BY <1>3, <1>4, <1>6, <1>7

LEMMA RootFuncFound ==
  ASSUME IInv, NEW n, RootFunc(n) # None
  PROVE  \E q \in DOMAIN text : /\ IsFunc(q) /\ text[q].name = n
                                /\ RootFunc(n) = Ref("func", n, q)
<1>1. \E i \in DOMAIN funcs : funcs[i].name = n
  BY DEF RootFunc
<1>2. RootFunc(n) = First(funcs, n)
  BY <1>1 DEF RootFunc
<1>3. Len(funcs) \in Nat /\ DOMAIN funcs = 1..Len(funcs)
  BY DEF IInv, TypeOK
<1>4. PICK i \in DOMAIN funcs : First(funcs, n) = funcs[i] /\ funcs[i].name = n
  BY <1>1, <1>3, FirstHasName
<1>5. PICK q \in DOMAIN text : IsFunc(q) /\ funcs[i] = Ref("func", text[q].name, q)
  BY DEF IInv, RootIsRight
<1>6. text[q].name = n
  BY <1>4, <1>5 DEF Ref
<1>7. QED
  BY <1>2, <1>4, <1>5, <1>6
(* Where a name is in the table of a block, it is found there.             *)
LEMMA FoundInBody ==
  ASSUME IInv, NEW i \in DOMAIN scopes, i >= 3, NEW n
  PROVE  /\ n \in DOMAIN scopes[i].syms => FoundIn(scopes[i], n) # None
         /\ FoundIn(scopes[i], n) # None =>
              /\ n \in DOMAIN scopes[i].syms
              /\ FoundIn(scopes[i], n) = scopes[i].syms[n]
<1>1. Len(scopes) \in Nat /\ DOMAIN scopes = 1..Len(scopes)
  BY StateFacts DEF IInv
<1>2. i # 1 /\ i # 2
  BY <1>1
<1>3. scopes[i].kind = "body"
  BY <1>2 DEF IInv, NodesAreBlocks
<1>4. FoundIn(scopes[i], n) = InScope(scopes[i], n)
  BY <1>3 DEF FoundIn
<1>5. n \in DOMAIN scopes[i].syms => scopes[i].syms[n] # None
  <2> SUFFICES ASSUME n \in DOMAIN scopes[i].syms
               PROVE  scopes[i].syms[n] # None
    OBVIOUS
  <2>1. i \in DOMAIN scopes \ {2}
    BY <1>2
  <2>2. PICK q \in DOMAIN text : scopes[i].syms[n] = Ref("var", n, q)
    BY <2>1 DEF IInv, TablesAreRight, RightTable
  <2>3. QED
    BY <2>2, RefFields
<1>6. QED
  BY <1>4, <1>5 DEF InScope

LEMMA FoundInFunc ==
  ASSUME IInv, Len(scopes) > 1, NEW n
  PROVE  LET q == scopes[2].at
         IN  FoundIn(scopes[2], n) =
               IF text[q].name = n THEN Ref("func", n, q)
               ELSE IF n \in ToSet(text[q].params) THEN Ref("param", n, q) ELSE None
<1>1. 2 \in DOMAIN scopes
  BY StateFacts DEF IInv
<1>2. /\ scopes[2].kind = "func"
      /\ scopes[2].name = text[scopes[2].at].name
      /\ scopes[2].syms = [p \in ToSet(text[scopes[2].at].params) |-> Ref("param", p, scopes[2].at)]
  BY <1>1 DEF IInv, NodesAreBlocks
<1>3. FoundIn(scopes[2], n) =
        IF scopes[2].name = n THEN Ref("func", n, scopes[2].at) ELSE InScope(scopes[2], n)
  BY <1>2 DEF FoundIn
<1>4. QED
  BY <1>2, <1>3 DEF InScope

LEMMA FoundInRoot ==
  ASSUME IInv, NEW n
  PROVE  FoundIn(scopes[1], n) =
           IF RootFunc(n) # None THEN RootFunc(n) ELSE InScope(scopes[1], n)
<1>1. scopes[1].kind = "root"
  BY StateFacts DEF IInv, NodesAreBlocks
<1>2. QED
  BY <1>1 DEF FoundIn

(* What the tables say of a name is what the text says of it.              *)
LEMMA ResolvedIsFound ==
  ASSUME IInv, NEW use, use.member \in BOOLEAN, Resolve(use) # None
  PROVE  /\ Found(use, Resolve(use), Here)
         /\ Resolve(use).sort = "var" =>
              \E q \in DOMAIN text : Resolve(use).at = q /\ text[q].c = "var"
<1> DEFINE n == use.name
           hits == {i \in DOMAIN scopes : FoundIn(scopes[i], n) # None}
           m == Max(hits)
           r == FoundIn(scopes[m], n)
<1>1. CASE use.member
  <2>1. use.name \in ModuleNames /\ Resolve(use) = OfModule(use.name)
    BY <1>1 DEF Resolve
  <2>2. QED
    BY <1>1, <2>1 DEF Found, OfModule, Ref
<1>2. CASE ~use.member
  <2>1. hits # {} /\ Resolve(use) = r
    BY <1>2 DEF Resolve
  <2>2. /\ Len(text) \in Nat /\ Here = Len(text) + 1 /\ DOMAIN text = 1..Len(text)
        /\ Len(scopes) \in Nat /\ DOMAIN scopes = 1..Len(scopes)
        /\ \A p \in 1..Here : Depth(p) \in Int
        /\ 1..(Here - 1) = DOMAIN text
        /\ \A i \in DOMAIN scopes : scopes[i] \in Scopes
    BY StateFacts DEF IInv
  <2>3. m \in hits /\ \A i \in hits : i <= m
    <3> DEFINE b == Len(scopes)
    <3>1. b \in Int
      BY <2>2
    <3>2. hits \in SUBSET Int /\ \A i \in hits : i <= b
      BY <2>2, <3>1
    <3> HIDE DEF hits, b
    <3>3. QED
      BY <2>1, <3>1, <3>2, GreatestExists
  <2>4. \A i \in DOMAIN scopes : FoundIn(scopes[i], n) # None => i <= m
    BY <2>3
  <2>5. m \in DOMAIN scopes /\ r # None
    BY <2>3
  <2> HIDE DEF m, hits, n
  <2>6. ASSUME NEW k \in 1..(Here - 1), Hides(n, k, Here), Depth(k) > 0
        PROVE  Depth(k) + 2 <= m
    <3>1. Depth(k) + 2 \in 3..Len(scopes) /\ n \in DOMAIN scopes[Depth(k) + 2].syms
      BY <2>6, LocalIsInTable
    <3>2. PICK i \in 3..Len(scopes) : i = Depth(k) + 2
      BY <3>1
    <3>3. FoundIn(scopes[i], n) # None
      BY <2>2, <3>1, <3>2, FoundInBody
    <3>4. QED
      BY <2>2, <2>4, <3>2, <3>3
  <2>7. ASSUME NEW k \in 1..(Here - 1), HasParam(n, k, Here)
        PROVE  m >= 2
    <3>1. Len(scopes) > 1 /\ k = scopes[2].at /\ n \in ToSet(text[k].params)
      BY <2>7, ParamIsInNode DEF HasParam
    <3>2. FoundIn(scopes[2], n) # None
      BY <3>1, FoundInFunc, RefFields
    <3>3. 2 \in DOMAIN scopes
      BY <2>2, <3>1
    <3>4. QED
      BY <2>4, <2>5, <2>2, <3>2, <3>3
  <2>8. m < 3 => NoLocal(n, Here)
    <3> SUFFICES ASSUME m < 3, NEW k \in 1..(Here - 1), Hides(n, k, Here), Depth(k) # 0
                 PROVE  FALSE
      BY DEF NoLocal
    <3>1. Depth(k) \in Int /\ Depth(k) >= 0
      BY <2>2 DEF IInv, TextIsRight
    <3>2. Depth(k) + 2 <= m
      BY <2>6, <3>1
    <3>3. QED
      BY <2>2, <2>5, <3>1, <3>2
  <2>9. CASE m = 1
    <3>1. NoLocal(n, Here) /\ \A k \in 1..(Here - 1) : ~HasParam(n, k, Here)
      BY <2>7, <2>8, <2>9
    <3>2. r = IF RootFunc(n) # None THEN RootFunc(n) ELSE InScope(scopes[1], n)
      BY <2>9, FoundInRoot
    <3>3. CASE RootFunc(n) # None
      <4>1. PICK q \in DOMAIN text : IsFunc(q) /\ text[q].name = n /\ r = Ref("func", n, q)
        BY <3>2, <3>3, RootFuncFound
      <4>2. FoundFunc(n, r, Here)
        BY <2>2, <3>1, <4>1 DEF FoundFunc
      <4>3. QED
        BY <2>1, <4>1, <4>2 DEF Found, n, Ref
    <3>4. CASE RootFunc(n) = None
      <4>1. n \in DOMAIN scopes[1].syms /\ r = scopes[1].syms[n]
        BY <2>5, <3>2, <3>4 DEF InScope
      <4>2. PICK q \in DOMAIN text : InTable(n, 1, q) /\ r = Ref("var", n, q)
        BY <2>5, <2>9, <4>1 DEF IInv, TablesAreRight, RightTable
      <4>3. Depth(q) = 0 /\ Hides(n, q, Here) /\ text[q].c = "var"
        BY <4>2 DEF InTable, LevelOf, Hides, IsVar
      <4>4. \A k \in 1..(Here - 1) : Hides(n, k, Here) => Depth(k) <= Depth(q)
        BY <3>1, <4>3 DEF NoLocal
      <4>5. FoundVar(n, r, Here)
        BY <2>2, <3>1, <4>2, <4>3, <4>4 DEF FoundVar
      <4>6. QED
        BY <2>1, <4>2, <4>3, <4>5 DEF Found, n, Ref
    <3>5. QED
      BY <3>3, <3>4
  <2>10. CASE m = 2
    <3>1. Len(scopes) > 1
      BY <2>2, <2>5, <2>10
    <3>2. PICK q \in Int : q = scopes[2].at
      BY <2>5, <2>10, <2>2 DEF Scopes
    <3>3. Enclosed(q, Here)
      BY <3>1, <3>2 DEF IInv, NodesAreBlocks
    <3>4. q \in 1..(Here - 1) /\ IsFunc(q)
      BY <2>2, <3>3 DEF Enclosed, IsFunc
    <3>5. r = IF text[q].name = n THEN Ref("func", n, q)
              ELSE IF n \in ToSet(text[q].params) THEN Ref("param", n, q) ELSE None
      BY <2>10, <3>1, <3>2, FoundInFunc
    <3>6. CASE text[q].name = n
      <4>1. \A k \in 1..(Here - 1) : HasParam(n, k, Here) => k = q
        BY <2>2, <3>2, <3>3, OneEnclosed DEF HasParam, IInv
      <4>2. FoundFunc(n, r, Here)
        BY <2>8, <2>10, <3>4, <3>5, <3>6, <4>1 DEF FoundFunc
      <4>3. QED
        BY <2>1, <3>5, <3>6, <4>2 DEF Found, n, Ref
    <3>7. CASE text[q].name # n
      <4>1. n \in ToSet(text[q].params) /\ r = Ref("param", n, q)
        BY <2>5, <3>5, <3>7
      <4>2. FoundParam(n, r, Here)
        BY <2>8, <2>10, <3>3, <3>4, <4>1 DEF FoundParam, HasParam
      <4>3. QED
        BY <2>1, <4>1, <4>2 DEF Found, n, Ref
    <3>8. QED
      BY <3>6, <3>7
  <2>11. CASE m >= 3
    <3>1. n \in DOMAIN scopes[m].syms /\ r = scopes[m].syms[n]
      BY <2>5, <2>11, FoundInBody
    <3>2. m \in DOMAIN scopes \ {2} /\ LevelOf(m) = m - 2
      BY <2>2, <2>5, <2>11 DEF LevelOf
    <3>3. PICK q \in DOMAIN text : InTable(n, m, q) /\ r = Ref("var", n, q)
      BY <3>1, <3>2 DEF IInv, TablesAreRight, RightTable
    <3>4. Depth(q) = m - 2 /\ Hides(n, q, Here) /\ text[q].c = "var"
      BY <3>2, <3>3 DEF InTable, Hides, IsVar
    <3>5. ASSUME NEW k \in 1..(Here - 1), Hides(n, k, Here)
          PROVE  Depth(k) <= Depth(q)
      <4>1. Depth(k) \in Int /\ m \in Int
        BY <2>2, <2>5
      <4>2. Depth(k) > 0 => Depth(k) + 2 <= m
        BY <2>6, <3>5
      <4>3. QED
        BY <2>11, <3>4, <4>1, <4>2
    <3>6. Depth(q) # 0
      BY <2>2, <2>5, <2>11, <3>4
    <3>7. FoundVar(n, r, Here)
      BY <2>2, <3>3, <3>4, <3>5, <3>6 DEF FoundVar
    <3>8. QED
      BY <2>1, <3>3, <3>4, <3>7 DEF Found, n, Ref
  <2>12. m = 1 \/ m = 2 \/ m >= 3
    BY <2>2, <2>5
  <2>13. QED
    BY <2>9, <2>10, <2>11, <2>12
<1>3. QED
  BY <1>1, <1>2
-----------------------------------------------------------------------------
(* The tables follow the text.                                             *)

LEMMA HidesNext ==
  ASSUME NEW it, Grows(it), NEW n, NEW k \in 1..Here
  PROVE  Hides(n, k, Here)' <=>
           /\ Depth(Here)' >= Depth(k)
           /\ IF k < Here THEN Hides(n, k, Here) ELSE it.c = "var" /\ it.name = n
<1>1. PICK h \in Nat : h = Here /\ Here' = h + 1 /\ DOMAIN text = 1..(h - 1) /\ DOMAIN text' = 1..h
  BY TextGrows
<1>2. k \in 1..h /\ k < h + 1
  BY <1>1
<1>3. Depth(Here)' = Depth(h + 1)'
  BY <1>1 DEF Depth
<1>4. \A j \in 1..h : Depth(j)' = Depth(j)
  BY <1>1, DepthIsKept
<1>5. Hides(n, k, Here)' <=> IsVar(k, n)' /\ StillOpen(k, h + 1)'
  <2>1. Hides(n, k, Here)' <=> IsVar(k, n)' /\ k < Here' /\ StillOpen(k, Here)'
    BY DEF Hides
  <2>2. StillOpen(k, Here)' <=> StillOpen(k, h + 1)'
    BY <1>1 DEF StillOpen
  <2>3. QED
    BY <1>1, <1>2, <2>1, <2>2
<1>6. StillOpen(k, h + 1)' <=> Depth(Here)' >= Depth(k) /\ \A j \in (k + 1)..h : Depth(j) >= Depth(k)
  <2>1. \A j \in (k + 1)..(h + 1) : j \in (k + 1)..h \/ j = h + 1
    BY <1>2
  <2>2. h + 1 \in (k + 1)..(h + 1) /\ \A j \in (k + 1)..h : j \in (k + 1)..(h + 1) /\ j \in 1..h
    BY <1>2
  <2>3. StillOpen(k, h + 1)' <=> \A j \in (k + 1)..(h + 1) : Depth(j)' >= Depth(k)'
    BY DEF StillOpen
  <2>4. Depth(k)' = Depth(k)
    BY <1>2, <1>4
  <2>5. \A j \in (k + 1)..h : Depth(j)' = Depth(j)
    BY <2>2, <1>4
  <2>6. StillOpen(k, h + 1)' <=>
          Depth(h + 1)' >= Depth(k)' /\ \A j \in (k + 1)..h : Depth(j)' >= Depth(k)'
    BY <2>1, <2>2, <2>3
  <2>7. QED
    BY <1>3, <2>4, <2>5, <2>6
<1>7. CASE k < h
  <2>1. k \in DOMAIN text /\ k \in DOMAIN text' /\ text'[k] = text[k]
    BY <1>1, <1>2, <1>7, TextGrows
  <2>2. IsVar(k, n)' <=> IsVar(k, n)
    BY <2>1 DEF IsVar
  <2>3. Hides(n, k, Here) <=> IsVar(k, n) /\ \A j \in (k + 1)..h : Depth(j) >= Depth(k)
    BY <1>1, <1>7 DEF Hides, StillOpen
  <2>4. QED
    BY <1>1, <1>5, <1>6, <1>7, <2>2, <2>3
<1>8. CASE k = h
  <2>1. text'[k] = it /\ k \in DOMAIN text'
    BY <1>1, <1>8, TextGrows
  <2>2. IsVar(k, n)' <=> it.c = "var" /\ it.name = n
    BY <2>1 DEF IsVar
  <2>3. \A j \in (k + 1)..h : FALSE
    BY <1>2, <1>8
  <2>4. QED
    BY <1>1, <1>5, <1>6, <1>8, <2>2, <2>3
<1>9. QED
  BY <1>2, <1>7, <1>8

LEMMA EnclosedNext ==
  ASSUME NEW it, Grows(it), NEW k \in 1..Here
  PROVE  Enclosed(k, Here)' <=>
           /\ Depth(Here)' > 0
           /\ IF k < Here THEN Enclosed(k, Here) ELSE it.c = "func"
<1>1. PICK h \in Nat : h = Here /\ Here' = h + 1 /\ DOMAIN text = 1..(h - 1) /\ DOMAIN text' = 1..h
  BY TextGrows
<1>2. k \in 1..h /\ k < h + 1
  BY <1>1
<1>3. Depth(Here)' = Depth(h + 1)'
  BY <1>1 DEF Depth
<1>4. \A j \in 1..h : Depth(j)' = Depth(j)
  BY <1>1, DepthIsKept
<1>5. \A j \in (k + 1)..(h + 1) : j \in (k + 1)..h \/ j = h + 1
  BY <1>2
<1>6. h + 1 \in (k + 1)..(h + 1) /\ \A j \in (k + 1)..h : j \in (k + 1)..(h + 1) /\ j \in 1..h
  BY <1>2
<1>7. Enclosed(k, Here)' <=> IsFunc(k)' /\ \A j \in (k + 1)..(h + 1) : Depth(j)' > 0
  BY <1>1, <1>2 DEF Enclosed
<1>8. \A j \in (k + 1)..h : Depth(j)' = Depth(j)
  BY <1>4, <1>6
<1>9. Enclosed(k, Here)' <=> IsFunc(k)' /\ Depth(Here)' > 0 /\ \A j \in (k + 1)..h : Depth(j) > 0
  BY <1>3, <1>5, <1>6, <1>7, <1>8
<1>10. CASE k < h
  <2>1. k \in DOMAIN text /\ k \in DOMAIN text' /\ text'[k] = text[k]
    BY <1>1, <1>2, <1>10, TextGrows
  <2>2. IsFunc(k)' <=> IsFunc(k)
    BY <2>1 DEF IsFunc
  <2>3. Enclosed(k, Here) <=> IsFunc(k) /\ \A j \in (k + 1)..h : Depth(j) > 0
    BY <1>1, <1>10 DEF Enclosed
  <2>4. QED
    BY <1>1, <1>9, <1>10, <2>2, <2>3
<1>11. CASE k = h
  <2>1. text'[k] = it /\ k \in DOMAIN text'
    BY <1>1, <1>11, TextGrows
  <2>2. IsFunc(k)' <=> it.c = "func"
    BY <2>1 DEF IsFunc
  <2>3. \A j \in (k + 1)..h : FALSE
    BY <1>2, <1>11
  <2>4. QED
    BY <1>1, <1>9, <1>11, <2>2, <2>3
<1>12. QED
  BY <1>2, <1>10, <1>11
LEMMA InTableNext ==
  ASSUME NEW it, Grows(it), NEW n, NEW k \in 1..Here, NEW i
  PROVE  InTable(n, i, k)' <=>
           /\ Depth(Here)' >= Depth(k) /\ Depth(k) = LevelOf(i)
           /\ IF k < Here THEN Hides(n, k, Here) ELSE it.c = "var" /\ it.name = n
<1>1. InTable(n, i, k)' <=> Hides(n, k, Here)' /\ Depth(k)' = LevelOf(i)
  BY DEF InTable, LevelOf
<1>2. Depth(k)' = Depth(k)
  BY DepthIsKept
<1>3. QED
  BY <1>1, <1>2, HidesNext

(* The table of a block that stays open, and that gets no variable.        *)
LEMMA TableIsKept ==
  ASSUME NEW it, Grows(it), NEW i \in Nat, NEW syms, RightTable(i, syms),
         Depth(Here)' >= LevelOf(i),
         it.c = "var" => LevelOf(i) # Depth(Here)
  PROVE  RightTable(i, syms)'
<1>1. /\ DOMAIN text = 1..(Here - 1) /\ DOMAIN text' = 1..Here /\ Here \in Nat \ {0}
      /\ text'[Here] = it /\ \A k \in DOMAIN text : text'[k] = text[k]
  BY TextGrows
<1>2. \A k \in 1..Here : (k \in DOMAIN text /\ k < Here) \/ k = Here
  BY <1>1
<1>3. \A k \in DOMAIN text : k \in 1..Here /\ k < Here
  BY <1>1
<1>4. ASSUME NEW n \in DOMAIN syms
      PROVE  \E q \in DOMAIN text' : InTable(n, i, q)' /\ syms[n] = Ref("var", n, q)
  <2>1. PICK q \in DOMAIN text : InTable(n, i, q) /\ syms[n] = Ref("var", n, q)
    BY DEF RightTable
  <2>2. InTable(n, i, q)'
    BY <1>3, <2>1, InTableNext DEF InTable
  <2>3. QED
    BY <1>1, <1>3, <2>1, <2>2
<1>5. ASSUME NEW q \in DOMAIN text', InTable(text[q].name, i, q)'
      PROVE  text'[q].name \in DOMAIN syms
  <2>1. PICK n : n = text'[q].name
    OBVIOUS
  <2>2. InTable(n, i, q)'
    BY <1>5, <2>1 DEF InTable, Hides, IsVar
  <2>3. /\ Depth(q) = LevelOf(i)
        /\ IF q < Here THEN Hides(n, q, Here) ELSE it.c = "var"
    BY <1>1, <2>2, InTableNext
  <2>4. q < Here
    <3>1. q = Here => it.c = "var" /\ Depth(Here) = LevelOf(i)
      BY <1>1, <2>3
    <3>2. QED
      BY <1>1, <1>2, <3>1
  <2>5. q \in DOMAIN text /\ InTable(text[q].name, i, q)
    BY <1>1, <1>2, <2>1, <2>3, <2>4 DEF InTable
  <2>6. QED
    BY <1>1, <2>1, <2>5 DEF RightTable
<1>6. QED
  BY <1>4, <1>5 DEF RightTable

(* The table of a new block is empty.                                      *)
LEMMA NewTableIsRight ==
  ASSUME NEW it, Grows(it), NEW i \in Nat, it.c # "var", LevelOf(i) > Depth(Here)
  PROVE  RightTable(i, <<>>)'
<1>1. /\ DOMAIN text = 1..(Here - 1) /\ DOMAIN text' = 1..Here /\ Here \in Nat \ {0}
  BY TextGrows
<1>2. ASSUME NEW q \in DOMAIN text', InTable(text[q].name, i, q)'
      PROVE  FALSE
  <2>1. PICK n : n = text'[q].name
    OBVIOUS
  <2>2. InTable(n, i, q)'
    BY <1>2, <2>1 DEF InTable, Hides, IsVar
  <2>3. Depth(q) = LevelOf(i) /\ q < Here /\ Hides(n, q, Here)
    BY <1>1, <2>2, InTableNext
  <2>4. Here \in (q + 1)..Here /\ q \in 1..Here
    BY <1>1, <2>3
  <2>5. Depth(Here) >= Depth(q)
    BY <2>3, <2>4 DEF Hides, StillOpen
  <2>6. Depth(Here) \in Int /\ Depth(q) \in Int
    BY <1>1, <2>4, DepthIsKept
  <2>7. QED
    BY <2>3, <2>5, <2>6
<1>3. \A n \in DOMAIN <<>> : FALSE
  OBVIOUS
<1>4. QED
  BY <1>2, <1>3 DEF RightTable

(* The table of the innermost block gets a variable.                       *)
LEMMA GrownTableIsRight ==
  ASSUME NEW it, Grows(it), NEW i \in Nat, NEW syms, RightTable(i, syms),
         it.c = "var", LevelOf(i) = Depth(Here), it.name \notin DOMAIN syms,
         NEW grown,
         grown = [m \in DOMAIN syms \cup {it.name} |->
                    IF m = it.name THEN Ref("var", it.name, Here) ELSE syms[m]]
  PROVE  RightTable(i, grown)'
<1>1. /\ DOMAIN text = 1..(Here - 1) /\ DOMAIN text' = 1..Here /\ Here \in Nat \ {0}
      /\ text'[Here] = it /\ \A k \in DOMAIN text : text'[k] = text[k]
  BY ItemsAreKept
<1>2. \A k \in 1..Here : (k \in DOMAIN text /\ k < Here) \/ k = Here
  BY <1>1
<1>3. Here \in 1..Here /\ ~(Here < Here) /\ \A k \in DOMAIN text : k \in 1..Here /\ k < Here
  BY <1>1
<1>4. Depth(Here) \in Int /\ Depth(Here)' = Depth(Here)
  <2>1. Change(it.c) = 0
    BY DEF Change, Openers, Closers
  <2>2. Depth(Here) \in Int /\ Depth(Here)' = Depth(Here) + 0
    BY <1>3, <2>1, DepthIsKept
  <2>3. QED
    BY <2>2
<1>5. ASSUME NEW n, NEW k \in DOMAIN text
      PROVE  InTable(n, i, k)' <=> InTable(n, i, k)
  <2>1. k \in 1..Here /\ k < Here
    BY <1>3
  <2>2. Hides(n, k, Here) => Depth(Here) >= Depth(k)
    <3>1. Here \in (k + 1)..Here
      BY <1>1, <2>1
    <3>2. QED
      BY <3>1 DEF Hides, StillOpen
  <2>3. InTable(n, i, k)' <=>
           /\ Depth(Here)' >= Depth(k) /\ Depth(k) = LevelOf(i) /\ Hides(n, k, Here)
    BY <2>1, InTableNext
  <2>4. QED
    BY <1>4, <2>2, <2>3 DEF InTable
<1>6. ASSUME NEW n
      PROVE  \A k \in {Here} : InTable(n, i, k)' <=> it.name = n
  <2> TAKE k \in {Here}
  <2>1. InTable(n, i, k)' <=>
           /\ Depth(Here)' >= Depth(k) /\ Depth(k) = LevelOf(i) /\ it.c = "var" /\ it.name = n
    BY <1>3, InTableNext
  <2>2. Depth(k) = Depth(Here)
    OBVIOUS
  <2>3. Depth(Here)' >= Depth(k)
    BY <1>4, <2>2
  <2>4. QED
    BY <2>1, <2>2, <2>3
<1>7. ASSUME NEW n \in DOMAIN grown
      PROVE  \E q \in DOMAIN text' : InTable(n, i, q)' /\ grown[n] = Ref("var", n, q)
  <2>1. CASE n = it.name
    <3>1. grown[n] = Ref("var", n, Here)
      BY <2>1
    <3>2. PICK k \in {Here} : TRUE
      OBVIOUS
    <3>3. InTable(n, i, k)' /\ k \in DOMAIN text'
      BY <1>1, <1>3, <1>6, <2>1, <3>2
    <3>4. QED
      BY <3>1, <3>2, <3>3
  <2>2. CASE n # it.name
    <3>1. n \in DOMAIN syms /\ grown[n] = syms[n]
      BY <2>2
    <3>2. PICK q \in DOMAIN text : InTable(n, i, q) /\ syms[n] = Ref("var", n, q)
      BY <3>1 DEF RightTable
    <3>3. QED
      BY <1>1, <1>3, <1>5, <3>1, <3>2
  <2>3. QED
    BY <2>1, <2>2
<1>8. ASSUME NEW q \in DOMAIN text', InTable(text[q].name, i, q)'
      PROVE  text'[q].name \in DOMAIN grown
  <2>1. PICK n : n = text'[q].name
    OBVIOUS
  <2>2. InTable(n, i, q)'
    BY <1>8, <2>1 DEF InTable, Hides, IsVar
  <2>3. DOMAIN grown = DOMAIN syms \cup {it.name}
    OBVIOUS
  <2>4. CASE q \in DOMAIN text
    BY <1>1, <1>5, <2>1, <2>2, <2>3, <2>4 DEF RightTable
  <2>5. CASE q = Here
    BY <1>1, <2>3, <2>5
  <2>6. QED
    BY <1>1, <1>2, <2>4, <2>5
<1>9. QED
  BY <1>7, <1>8 DEF RightTable
-----------------------------------------------------------------------------
(* The nodes follow the text.                                              *)

LEMMA NodesNext ==
  ASSUME IInv, NEW it, Grows(it),
         scopes' \in Seq(Scopes), Len(scopes') >= 1, Len(scopes') # 2,
         \A i \in DOMAIN scopes' :
           scopes'[i].kind = IF i = 1 THEN "root" ELSE IF i = 2 THEN "func" ELSE "body",
         Depth(Here)' = LevelOf(Len(scopes')),
         Len(scopes') > 1 =>
           \/ Len(scopes) > 1 /\ scopes'[2] = scopes[2]
           \/ /\ it.c = "func"
              /\ scopes'[2] = NewScope("func", it.name, Here,
                                       [p \in ToSet(it.params) |-> Ref("param", p, Here)])
  PROVE  NodesAreBlocks'
<1>1. /\ DOMAIN text = 1..(Here - 1) /\ DOMAIN text' = 1..Here /\ Here \in Nat \ {0}
      /\ text'[Here] = it /\ \A k \in DOMAIN text : text'[k] = text[k]
  BY ItemsAreKept
<1>2. ASSUME Len(scopes') > 1
      PROVE  Depth(Here)' > 0
  <2> DEFINE n == Len(scopes')
  <2>1. n \in Nat /\ n # 2 /\ n > 1
    BY <1>2
  <2>2. Depth(Here)' = IF n = 1 THEN 0 ELSE n - 2
    BY DEF LevelOf
  <2> HIDE DEF n
  <2>3. QED
    BY <2>1, <2>2
<1>3. ASSUME Len(scopes') > 1, NEW q, q = scopes'[2].at
      PROVE  /\ Enclosed(q, Here)'
             /\ scopes'[2].name = text'[q].name
             /\ scopes'[2].syms = [p \in ToSet(text'[q].params) |-> Ref("param", p, q)]
  <2>1. CASE Len(scopes) > 1 /\ scopes'[2] = scopes[2]
    <3>1. /\ q = scopes[2].at
          /\ Enclosed(q, Here) /\ scopes[2].name = text[q].name
          /\ scopes[2].syms = [p \in ToSet(text[q].params) |-> Ref("param", p, q)]
      BY <1>3, <2>1 DEF IInv, NodesAreBlocks
    <3>2. q \in DOMAIN text /\ q < Here
      BY <3>1 DEF Enclosed, IsFunc
    <3>3. q \in 1..Here
      BY <1>1, <3>2
    <3>4. Enclosed(q, Here)'
      BY <1>2, <1>3, <3>1, <3>2, <3>3, EnclosedNext
    <3>5. text'[q] = text[q]
      BY <1>1, <3>2
    <3>6. QED
      BY <2>1, <3>1, <3>4, <3>5
  <2>2. CASE /\ it.c = "func"
             /\ scopes'[2] = NewScope("func", it.name, Here,
                                      [p \in ToSet(it.params) |-> Ref("param", p, Here)])
    <3>1. /\ q = Here /\ scopes'[2].name = it.name
          /\ scopes'[2].syms = [p \in ToSet(it.params) |-> Ref("param", p, Here)]
      BY <1>3, <2>2 DEF NewScope
    <3>2. q \in 1..Here /\ ~(q < Here)
      BY <1>1, <3>1
    <3>3. Enclosed(q, Here)'
      BY <1>2, <1>3, <2>2, <3>2, EnclosedNext
    <3>4. QED
      BY <1>1, <3>1, <3>3
  <2>3. QED
    BY <1>3, <2>1, <2>2
<1>4. Len(scopes') > 1 =>
        (LET q == scopes[2].at
         IN  /\ Enclosed(q, Here)
             /\ scopes[2].name = text[q].name
             /\ scopes[2].syms = [p \in ToSet(text[q].params) |-> Ref("param", p, q)])'
  <2> SUFFICES ASSUME Len(scopes') > 1
               PROVE  (LET q == scopes[2].at
                       IN  /\ Enclosed(q, Here)
                           /\ scopes[2].name = text[q].name
                           /\ scopes[2].syms = [p \in ToSet(text[q].params) |-> Ref("param", p, q)])'
    OBVIOUS
  <2>1. PICK q : q = scopes'[2].at
    OBVIOUS
  <2>2. /\ Enclosed(q, Here)'
        /\ scopes'[2].name = text'[q].name
        /\ scopes'[2].syms = [p \in ToSet(text'[q].params) |-> Ref("param", p, q)]
    BY <1>3, <2>1
  <2>3. QED
    BY <2>1, <2>2 DEF Enclosed, IsFunc
<1>5. (\A i \in DOMAIN scopes :
         scopes[i].kind = IF i = 1 THEN "root" ELSE IF i = 2 THEN "func" ELSE "body")'
  OBVIOUS
<1>6. (Depth(Here) = LevelOf(Len(scopes)))'
  BY DEF LevelOf
<1>7. QED
  BY <1>4, <1>5, <1>6 DEF NodesAreBlocks

(* A line that opens and closes no block.                                  *)
LEMMA PlainKeepsNodes ==
  ASSUME IInv, NEW it, Grows(it), it.c \notin Openers \cup Closers,
         scopes' = scopes
  PROVE  NodesAreBlocks' /\ (it.c # "var" => TablesAreRight')
<1>1. /\ Here \in Nat \ {0} /\ Here \in 1..Here /\ Change(it.c) = 0
      /\ scopes \in Seq(Scopes) /\ Len(scopes) \in Nat /\ DOMAIN scopes = 1..Len(scopes)
      /\ Depth(Here) \in Int
  <2>1. Here \in Nat \ {0}
    BY ItemsAreKept
  <2>2. Here \in 1..Here
    BY <2>1
  <2>3. QED
    BY <2>1, <2>2, DepthIsKept DEF IInv, TypeOK, Change
<1>2. Depth(Here)' = Depth(Here)
  <2>1. Depth(Here)' = Depth(Here) + 0
    BY <1>1, DepthIsKept
  <2>2. QED
    BY <1>1, <2>1
<1>3. /\ Len(scopes) >= 1 /\ Len(scopes) # 2
      /\ \A i \in DOMAIN scopes :
           scopes[i].kind = IF i = 1 THEN "root" ELSE IF i = 2 THEN "func" ELSE "body"
      /\ Depth(Here) = LevelOf(Len(scopes))
  BY DEF IInv, NodesAreBlocks
<1>4. NodesAreBlocks'
  <2>1. Len(scopes') > 1 => Len(scopes) > 1 /\ scopes'[2] = scopes[2]
    OBVIOUS
  <2>2. QED
    BY <1>1, <1>2, <1>3, <2>1, NodesNext
<1>5. ASSUME it.c # "var", NEW i \in DOMAIN scopes' \ {2}
      PROVE  RightTable(i, scopes[i].syms)'
  <2>1. PICK s : s = scopes[i].syms
    OBVIOUS
  <2>2. RightTable(i, s)
    BY <1>5, <2>1 DEF IInv, TablesAreRight
  <2>3. i \in Nat /\ LevelOf(i) <= LevelOf(Len(scopes))
    BY <1>1, <1>3, <1>5 DEF LevelOf
  <2>4. LevelOf(i) \in Int
    BY <2>3 DEF LevelOf
  <2>5. Depth(Here)' >= LevelOf(i)
    BY <1>1, <1>2, <1>3, <2>3, <2>4
  <2>6. RightTable(i, s)'
    BY <1>5, <2>2, <2>3, <2>5, TableIsKept
  <2>7. QED
    BY <2>1, <2>6 DEF RightTable
<1>6. QED
  BY <1>4, <1>5 DEF TablesAreRight
LEMMA RegisteredFacts ==
  ASSUME TypeOK, NodesAreBlocks, NEW n \in VarIds, NEW h \in Nat
  PROVE  /\ Registered(n, h) \in Seq(Scopes)
         /\ Len(Registered(n, h)) = Len(scopes)
         /\ \A i \in DOMAIN scopes : /\ Registered(n, h)[i].kind = scopes[i].kind
                                     /\ i # Len(scopes) => Registered(n, h)[i] = scopes[i]
         /\ Registered(n, h)[Len(scopes)].syms =
              [m \in DOMAIN scopes[Len(scopes)].syms \cup {n} |->
                 IF m = n THEN Ref("var", n, h) ELSE scopes[Len(scopes)].syms[m]]
<1> DEFINE k == Len(scopes)
           syms == Innermost.syms
           grown == [m \in DOMAIN syms \cup {n} |-> IF m = n THEN Ref("var", n, h) ELSE syms[m]]
           new == [scopes[k] EXCEPT !.syms = grown]
<1>1. /\ k \in Nat /\ DOMAIN scopes = 1..k /\ k \in 1..k
      /\ scopes \in Seq(Scopes) /\ scopes[k] \in Scopes /\ syms = scopes[k].syms
  BY StateFacts DEF TypeOK
<1>2. Registered(n, h) = [scopes EXCEPT ![k] = new]
  BY <1>1 DEF Registered
<1>3. grown \in Tables
  <2>1. syms \in Tables
    BY <1>1 DEF Scopes
  <2>2. PICK D \in SUBSET VarIds : syms \in [D -> Refs]
    BY <2>1 DEF Tables
  <2>3. Ref("var", n, h) \in Refs
    BY DEF Refs, Ref, Ids
  <2>4. grown \in [D \cup {n} -> Refs] /\ D \cup {n} \in SUBSET VarIds
    BY <2>2, <2>3
  <2>5. QED
    BY <2>4 DEF Tables
<1> HIDE DEF grown, syms
<1>4. new \in Scopes /\ new.kind = scopes[k].kind /\ new.syms = grown
  BY <1>1, <1>3 DEF Scopes
<1> HIDE DEF new, k
<1>5. /\ Registered(n, h) \in Seq(Scopes)
      /\ Len(Registered(n, h)) = k
      /\ \A i \in 1..k : Registered(n, h)[i] = IF i = k THEN new ELSE scopes[i]
  <2>1. Len(scopes) = k
    BY DEF k
  <2>2. QED
    BY <1>1, <1>2, <1>4, <2>1
<1>6. QED
  BY <1>1, <1>4, <1>5 DEF grown, syms, k

LEMMA DeclaringKeepsNodes ==
  ASSUME IInv, NEW it, Grows(it), it.c = "var", it.name \in VarIds,
         it.name \notin DOMAIN Innermost.syms,
         scopes' = Registered(it.name, Here)
  PROVE  scopes' \in Seq(Scopes) /\ NodesAreBlocks' /\ TablesAreRight'
<1> DEFINE k == Len(scopes)
<1>1. /\ Here \in Nat \ {0} /\ Here \in 1..Here /\ Change(it.c) = 0
      /\ k \in Nat /\ DOMAIN scopes = 1..k /\ k \in DOMAIN scopes \ {2}
      /\ Innermost = scopes[k] /\ (k = 1 \/ k >= 3)
  <2>1. Here \in Nat \ {0}
    BY ItemsAreKept
  <2>2. Here \in 1..Here
    BY <2>1
  <2>3. QED
    BY <2>1, <2>2, StateFacts DEF IInv, Change, Openers, Closers
<1>2. Depth(Here)' = Depth(Here) /\ Depth(Here) \in Int
  <2>1. Depth(Here)' = Depth(Here) + 0 /\ Depth(Here) \in Int
    BY <1>1, DepthIsKept
  <2>2. QED
    BY <2>1
<1>3. /\ k >= 1 /\ k # 2
      /\ \A i \in DOMAIN scopes :
           scopes[i].kind = IF i = 1 THEN "root" ELSE IF i = 2 THEN "func" ELSE "body"
      /\ Depth(Here) = LevelOf(k)
  BY DEF IInv, NodesAreBlocks
<1>4. /\ scopes' \in Seq(Scopes) /\ Len(scopes') = k /\ DOMAIN scopes' = 1..k
      /\ \A i \in DOMAIN scopes : /\ scopes'[i].kind = scopes[i].kind
                                  /\ i # k => scopes'[i] = scopes[i]
      /\ scopes'[k].syms = [m \in DOMAIN scopes[k].syms \cup {it.name} |->
                              IF m = it.name THEN Ref("var", it.name, Here) ELSE scopes[k].syms[m]]
  <2>1. PICK n \in VarIds, h \in Nat : n = it.name /\ h = Here
    BY <1>1
  <2>2. scopes' = Registered(n, h)
    BY <2>1
  <2> HIDE DEF k
  <2>3. /\ scopes' \in Seq(Scopes) /\ Len(scopes') = k
        /\ \A i \in DOMAIN scopes : /\ scopes'[i].kind = scopes[i].kind
                                    /\ i # k => scopes'[i] = scopes[i]
        /\ scopes'[k].syms = [m \in DOMAIN scopes[k].syms \cup {n} |->
                                IF m = n THEN Ref("var", n, h) ELSE scopes[k].syms[m]]
    BY <2>2, RegisteredFacts DEF IInv, k
  <2>4. DOMAIN scopes' = 1..k
    BY <2>3
  <2>5. QED
    BY <2>1, <2>3, <2>4
<1>5. NodesAreBlocks'
  <2> HIDE DEF k
  <2>1. k > 1 => scopes'[2] = scopes[2]
    BY <1>1, <1>4
  <2>2. \A i \in DOMAIN scopes' :
           scopes'[i].kind = IF i = 1 THEN "root" ELSE IF i = 2 THEN "func" ELSE "body"
    BY <1>1, <1>3, <1>4
  <2>3. Len(scopes') >= 1 /\ Len(scopes') # 2 /\ Depth(Here)' = LevelOf(Len(scopes'))
    BY <1>2, <1>3, <1>4
  <2>4. Len(scopes') > 1 => Len(scopes) > 1 /\ scopes'[2] = scopes[2]
    BY <1>4, <2>1 DEF k
  <2>5. scopes' \in Seq(Scopes)
    BY <1>4
  <2>6. QED
    BY <2>2, <2>3, <2>4, <2>5, NodesNext
<1>6. ASSUME NEW i \in DOMAIN scopes' \ {2}
      PROVE  RightTable(i, scopes[i].syms)'
  <2>1. i \in DOMAIN scopes \ {2} /\ i \in 1..k
    BY <1>1, <1>4
  <2>2. PICK s, t : s = scopes[i].syms /\ t = scopes'[i].syms
    OBVIOUS
  <2>3. RightTable(i, s)
    BY <2>1, <2>2 DEF IInv, TablesAreRight
  <2>4. CASE i = k
    <3>1. t = [m \in DOMAIN s \cup {it.name} |->
                 IF m = it.name THEN Ref("var", it.name, Here) ELSE s[m]]
      BY <1>4, <2>2, <2>4
    <3>2. it.name \notin DOMAIN s /\ LevelOf(i) = Depth(Here) /\ i \in Nat
      BY <1>1, <1>3, <2>2, <2>4
    <3>3. RightTable(i, t)'
      BY <2>3, <3>1, <3>2, GrownTableIsRight
    <3>4. QED
      BY <2>2, <3>3 DEF RightTable
  <2>5. CASE i # k
    <3>1. t = s
      BY <1>4, <2>1, <2>2, <2>5
    <3>2. i \in Nat /\ LevelOf(i) < LevelOf(k) /\ LevelOf(i) \in Int /\ LevelOf(k) \in Int
      <4> HIDE DEF k
      <4>1. i \in 1..k /\ k \in Nat /\ i # 2 /\ i # k /\ (k = 1 \/ k >= 3)
        BY <1>1, <2>1, <2>5
      <4>2. QED
        BY <4>1 DEF LevelOf
    <3>3. Depth(Here)' >= LevelOf(i) /\ LevelOf(i) # Depth(Here)
      BY <1>2, <1>3, <3>2
    <3>4. RightTable(i, s)'
      BY <2>3, <3>2, <3>3, TableIsKept
    <3>5. QED
      BY <2>2, <3>1, <3>4 DEF RightTable
  <2>6. QED
    BY <2>4, <2>5
<1>7. QED
  BY <1>4, <1>5, <1>6 DEF TablesAreRight
LEMMA InnermostKinds ==
  ASSUME TypeOK, NodesAreBlocks
  PROVE  /\ Innermost.kind = "root" => Len(scopes) = 1
         /\ Innermost.kind = "body" => Len(scopes) >= 3
         /\ Len(scopes) >= 3 => scopes[Len(scopes) - 1].kind = "func" <=> Len(scopes) = 3
<1> DEFINE k == Len(scopes)
<1>1. /\ k \in Nat /\ DOMAIN scopes = 1..k /\ (k = 1 \/ k >= 3)
      /\ Innermost = scopes[k]
      /\ \A i \in DOMAIN scopes :
           scopes[i].kind = IF i = 1 THEN "root" ELSE IF i = 2 THEN "func" ELSE "body"
  BY StateFacts DEF NodesAreBlocks
<1> HIDE DEF k
<1>2. Innermost.kind = "root" => k = 1
  BY <1>1
<1>3. Innermost.kind = "body" => k >= 3
  BY <1>1
<1>4. k >= 3 => scopes[k - 1].kind = "func" <=> k = 3
  <2> SUFFICES ASSUME k >= 3
               PROVE  scopes[k - 1].kind = "func" <=> k = 3
    OBVIOUS
  <2>1. k - 1 \in DOMAIN scopes /\ k - 1 # 1 /\ (k - 1 = 2 <=> k = 3)
    BY <1>1
  <2>2. QED
    BY <1>1, <2>1
<1>5. QED
  BY <1>2, <1>3, <1>4 DEF k

(* The tables below an opened or a closed block are kept.                  *)
LEMMA OuterTableIsKept ==
  ASSUME IInv, NEW it, Grows(it), it.c # "var", NEW i \in DOMAIN scopes \ {2},
         Depth(Here)' >= LevelOf(i),
         scopes'[i] = scopes[i]
  PROVE  RightTable(i, scopes[i].syms)'
<1>1. PICK s : s = scopes[i].syms
  OBVIOUS
<1>2. RightTable(i, s)
  BY <1>1 DEF IInv, TablesAreRight
<1>3. i \in Nat
  BY StateFacts DEF IInv
<1>4. RightTable(i, s)'
  BY <1>2, <1>3, TableIsKept
<1>5. QED
  BY <1>1, <1>4 DEF RightTable

LEMMA NewInnermostIsRight ==
  ASSUME NEW it, Grows(it), it.c # "var", NEW i \in Nat, LevelOf(i) > Depth(Here),
         scopes'[i].syms = <<>>
  PROVE  RightTable(i, scopes[i].syms)'
<1>1. RightTable(i, <<>>)'
  BY NewTableIsRight
<1>2. QED
  BY <1>1 DEF RightTable

IsNewBody(s) == s.kind = "body" /\ s.syms = <<>>

LEMMA OpeningKeepsNodes ==
  ASSUME IInv, NEW it, Grows(it), it.c = "open", Innermost.kind = "body",
         scopes' \in Seq(Scopes), Len(scopes') = Len(scopes) + 1,
         \A i \in 1..Len(scopes) : scopes'[i] = scopes[i],
         IsNewBody(scopes'[Len(scopes) + 1])
  PROVE  NodesAreBlocks' /\ TablesAreRight'
<1> DEFINE k == Len(scopes)
<1>1. /\ Here \in Nat \ {0} /\ Here \in 1..Here
      /\ k \in Nat /\ DOMAIN scopes = 1..k /\ k >= 3
      /\ scopes \in Seq(Scopes)
      /\ \A i \in DOMAIN scopes :
           scopes[i].kind = IF i = 1 THEN "root" ELSE IF i = 2 THEN "func" ELSE "body"
      /\ Depth(Here) = LevelOf(k)
  <2>1. Here \in Nat \ {0}
    BY ItemsAreKept
  <2>2. Here \in 1..Here
    BY <2>1
  <2>3. QED
    BY <2>1, <2>2, InnermostKinds DEF IInv, TypeOK, NodesAreBlocks
<1>2. Depth(Here)' = k - 1 /\ Depth(Here) = k - 2 /\ LevelOf(k + 1) = k - 1
  <2>1. Change(it.c) = 1
    BY DEF Change, Openers
  <2>2. Depth(Here)' = Depth(Here) + 1
    BY <2>1, DepthIsKept
  <2> HIDE DEF k
  <2>3. LevelOf(k) = k - 2 /\ LevelOf(k + 1) = k - 1
    BY <1>1 DEF LevelOf
  <2>4. QED
    BY <1>1, <2>2, <2>3
<1>3. /\ DOMAIN scopes' = 1..(k + 1)
      /\ scopes'[k + 1].kind = "body" /\ scopes'[k + 1].syms = <<>>
  BY DEF IsNewBody
<1>4. Len(scopes') = k + 1 /\ \A i \in 1..k : scopes'[i] = scopes[i]
  OBVIOUS
<1> HIDE DEF k
<1>5. k \in Nat /\ k >= 3 /\ k + 1 >= 1 /\ k + 1 # 2
  BY <1>1
<1>6. \A i \in DOMAIN scopes' : i \in 1..k \/ i = k + 1
  <2>1. DOMAIN scopes' = 1..(k + 1)
    BY <1>3
  <2>2. QED
    BY <1>5, <2>1
<1>7. NodesAreBlocks'
  <2>1. \A i \in DOMAIN scopes' :
           scopes'[i].kind = IF i = 1 THEN "root" ELSE IF i = 2 THEN "func" ELSE "body"
    BY <1>1, <1>3, <1>4, <1>6
  <2>2. Len(scopes') >= 1 /\ Len(scopes') # 2 /\ Depth(Here)' = LevelOf(Len(scopes'))
    BY <1>1, <1>2, <1>3, <1>4
  <2>3. Len(scopes) > 1 /\ scopes'[2] = scopes[2]
    BY <1>1, <1>3, <1>4 DEF k
  <2>4. QED
    BY <1>3, <2>1, <2>2, <2>3, NodesNext
<1>8. ASSUME NEW i \in DOMAIN scopes' \ {2}
      PROVE  RightTable(i, scopes[i].syms)'
  <2>1. CASE i \in 1..k
    <3>1. Depth(Here)' >= LevelOf(i)
      BY <1>1, <1>2, <2>1 DEF LevelOf
    <3>2. QED
      BY <1>1, <1>3, <1>4, <1>8, <2>1, <3>1, OuterTableIsKept
  <2>2. CASE i = k + 1
    <3>1. LevelOf(i) > Depth(Here) /\ i \in Nat
      BY <1>1, <1>2, <2>2
    <3>2. QED
      BY <1>3, <2>2, <3>1, NewInnermostIsRight
  <2>3. QED
    BY <1>6, <1>8, <2>1, <2>2
<1>9. QED
  BY <1>3, <1>7, <1>8 DEF TablesAreRight
LEMMA BeginningKeepsNodes ==
  ASSUME IInv, NEW it, Grows(it), it.c = "func", Innermost.kind = "root",
         scopes' \in Seq(Scopes), Len(scopes') = 3,
         scopes'[1] = scopes[1],
         scopes'[2] = NewScope("func", it.name, Here,
                               [p \in ToSet(it.params) |-> Ref("param", p, Here)]),
         IsNewBody(scopes'[3])
  PROVE  NodesAreBlocks' /\ TablesAreRight'
<1>1. Len(scopes) = 1 /\ 1 \in DOMAIN scopes \ {2}
  BY InnermostKinds, StateFacts DEF IInv
<1>2. Depth(Here)' = 1 /\ Depth(Here) = 0
  <2>1. Change(it.c) = 1
    BY DEF Change, Openers
  <2>2. Depth(Here)' = Depth(Here) + 1
    BY <2>1, DepthIsKept
  <2>3. Depth(Here) = 0
    BY <1>1 DEF IInv, NodesAreBlocks, LevelOf
  <2>4. QED
    BY <2>2, <2>3
<1>3. DOMAIN scopes' = 1..3
  OBVIOUS
<1>4. LevelOf(1) = 0 /\ LevelOf(3) = 1
  BY DEF LevelOf
<1>5. NodesAreBlocks'
  <2>1. scopes'[1].kind = "root"
    BY <1>1 DEF IInv, NodesAreBlocks
  <2>2. scopes'[2].kind = "func"
    BY DEF NewScope
  <2>3. scopes'[3].kind = "body"
    BY DEF IsNewBody
  <2>4. \A i \in 1..3 : i = 1 \/ i = 2 \/ i = 3
    OBVIOUS
  <2>5. \A i \in DOMAIN scopes' :
           scopes'[i].kind = IF i = 1 THEN "root" ELSE IF i = 2 THEN "func" ELSE "body"
    BY <1>3, <2>1, <2>2, <2>3, <2>4
  <2>6. Depth(Here)' = LevelOf(Len(scopes'))
    BY <1>2, <1>4
  <2>7. Len(scopes') >= 1 /\ Len(scopes') # 2
    OBVIOUS
  <2>8. QED
    BY <2>5, <2>6, <2>7, NodesNext
<1>6. ASSUME NEW i \in DOMAIN scopes' \ {2}
      PROVE  RightTable(i, scopes[i].syms)'
  <2>1. i = 1 \/ i = 3
    BY <1>3
  <2>2. CASE i = 1
    <3>1. Depth(Here)' >= LevelOf(i)
      BY <1>2, <1>4, <2>2
    <3>2. QED
      BY <1>1, <2>2, <3>1, OuterTableIsKept
  <2>3. CASE i = 3
    <3>1. LevelOf(i) > Depth(Here) /\ i \in Nat
      BY <1>2, <1>4, <2>3
    <3>2. scopes'[i].syms = <<>>
      BY <2>3 DEF IsNewBody
    <3>3. QED
      BY <3>1, <3>2, NewInnermostIsRight
  <2>4. QED
    BY <2>1, <2>2, <2>3
<1>7. QED
  BY <1>5, <1>6 DEF TablesAreRight

LEMMA ClosingKeepsNodes ==
  ASSUME IInv, NEW it, Grows(it), it.c = "close", Innermost.kind = "body",
         scopes' \in Seq(Scopes),
         Len(scopes') = Len(scopes) - IF Len(scopes) = 3 THEN 2 ELSE 1,
         \A i \in 1..Len(scopes') : scopes'[i] = scopes[i]
  PROVE  NodesAreBlocks' /\ TablesAreRight'
<1> DEFINE k == Len(scopes)
           j == Len(scopes')
<1>1. /\ k \in Nat /\ DOMAIN scopes = 1..k /\ k >= 3
      /\ \A i \in DOMAIN scopes :
           scopes[i].kind = IF i = 1 THEN "root" ELSE IF i = 2 THEN "func" ELSE "body"
      /\ Depth(Here) = LevelOf(k)
  BY InnermostKinds, StateFacts DEF IInv, NodesAreBlocks
<1>2. Depth(Here)' = k - 3
  <2>1. Change(it.c) = -1
    BY DEF Change, Openers, Closers
  <2>2. Depth(Here)' = Depth(Here) + (-1)
    BY <2>1, DepthIsKept
  <2> HIDE DEF k
  <2>3. LevelOf(k) = k - 2
    BY <1>1 DEF LevelOf
  <2>4. QED
    BY <1>1, <2>2, <2>3
<1>3. DOMAIN scopes' = 1..j /\ j = (IF k = 3 THEN 1 ELSE k - 1)
  <2>1. DOMAIN scopes' = 1..j /\ j = k - IF k = 3 THEN 2 ELSE 1
    OBVIOUS
  <2> HIDE DEF k, j
  <2>2. QED
    BY <1>1, <2>1
<1>4. \A i \in 1..j : scopes'[i] = scopes[i]
  OBVIOUS
<1> HIDE DEF k
<1>5. j \in Nat /\ j >= 1 /\ j # 2 /\ j < k /\ LevelOf(j) = k - 3
  <2> HIDE DEF j
  <2>1. j \in Nat /\ j >= 1 /\ j # 2 /\ j < k
    BY <1>1, <1>3
  <2>2. LevelOf(j) = k - 3
    BY <1>1, <1>3 DEF LevelOf
  <2>3. QED
    BY <2>1, <2>2
<1>6. \A i \in 1..j : i \in 1..k
  <2> HIDE DEF j
  <2>1. QED
    BY <1>1, <1>5
<1>7. NodesAreBlocks'
  <2>1. \A i \in DOMAIN scopes' :
           scopes'[i].kind = IF i = 1 THEN "root" ELSE IF i = 2 THEN "func" ELSE "body"
    <3> HIDE DEF j
    <3>1. QED
      BY <1>1, <1>3, <1>4, <1>6
  <2>2. j > 1 => Len(scopes) > 1 /\ scopes'[2] = scopes[2]
    <3>1. Len(scopes) > 1
      <4>1. k > 1
        BY <1>1
      <4>2. QED
        BY <4>1 DEF k
    <3> HIDE DEF j
    <3>2. j > 1 => 2 \in 1..j
      BY <1>5
    <3>3. QED
      BY <1>4, <3>1, <3>2
  <2>3. Depth(Here)' = LevelOf(j)
    BY <1>2, <1>5
  <2>4. QED
    BY <1>5, <2>1, <2>2, <2>3, NodesNext
<1> HIDE DEF j
<1>8. ASSUME NEW i \in DOMAIN scopes' \ {2}
      PROVE  RightTable(i, scopes[i].syms)'
  <2>1. i \in 1..j /\ i \in DOMAIN scopes \ {2} /\ scopes'[i] = scopes[i]
    BY <1>1, <1>3, <1>4, <1>6, <1>8
  <2>2. LevelOf(i) <= LevelOf(j)
    BY <1>5, <2>1 DEF LevelOf
  <2>3. Depth(Here)' >= LevelOf(i)
    <3>1. LevelOf(i) \in Int
      BY <1>5, <2>1 DEF LevelOf
    <3>2. QED
      BY <1>1, <1>2, <1>5, <2>2, <3>1
  <2>4. QED
    BY <2>1, <2>3, OuterTableIsKept
<1>9. QED
  BY <1>7, <1>8 DEF TablesAreRight
-----------------------------------------------------------------------------
(* The names of the structures follow the look-ups.                        *)

Declared(s) == \/ [name |-> called[s], type |-> s] \in ToSet(aliases)
               \/ s = OwnType /\ called[OwnType] = ModuleType

LEMMA NamesOfTypesFacts ==
  NamesOfTypes <=>
    /\ \A p \in DOMAIN text : text[p].c = "var" /\ text[p].type \in Structs => Declared(text[p].type)
    /\ called[OwnType] # ModuleType =>
         /\ LookUps(OwnType) # {}
         /\ ~text[Max(LookUps(OwnType))].use.member
         /\ [name |-> called[OwnType], type |-> OwnType] \in ToSet(aliases)
BY DEF NamesOfTypes, TypeNamesDeclared, Declared

(* What the item does to the names: none is looked up; an alias is; or the *)
(* structure of m is.                                                      *)
LooksUpNone(it) ==
  /\ called' = called
  /\ ~(it.ref = None /\ it.type = OwnType /\ it.use # NoUse)
  /\ it.c = "var" /\ it.type \in Structs => Declared(it.type)

LooksUpAlias(it) ==
  /\ it.type \in Structs /\ it.ref = None /\ it.use # NoUse /\ ~it.use.member
  /\ [name |-> it.use.name, type |-> it.type] \in ToSet(aliases')
  /\ called' = [called EXCEPT ![it.type] = it.use.name]

LooksUpOwn(it) ==
  /\ it.type = OwnType
  /\ called' = [called EXCEPT ![OwnType] = ModuleType]

StructsAreKept ==
  \A e \in ToSet(aliases) : e.type \in Structs => e \in ToSet(aliases')

LEMMA LookUpsNext ==
  ASSUME NEW it, Grows(it)
  PROVE  LookUps(OwnType)' = LookUps(OwnType) \cup
           IF it.ref = None /\ it.type = OwnType /\ it.use # NoUse THEN {Here} ELSE {}
<1>1. /\ DOMAIN text = 1..(Here - 1) /\ DOMAIN text' = 1..Here /\ Here \in Nat \ {0}
      /\ text'[Here] = it /\ \A k \in DOMAIN text : text'[k] = text[k]
  BY ItemsAreKept
<1>2. \A p : p \in DOMAIN text' <=> p \in DOMAIN text \/ p = Here
  BY <1>1
<1>3. \A p : p \in LookUps(OwnType) <=>
         /\ p \in DOMAIN text /\ text[p].ref = None /\ text[p].type = OwnType
         /\ text[p].use # NoUse
  BY DEF LookUps
<1>4. \A p : p \in LookUps(OwnType)' <=>
         /\ p \in DOMAIN text' /\ text'[p].ref = None /\ text'[p].type = OwnType
         /\ text'[p].use # NoUse
  BY DEF LookUps, OwnType, None, NoUse, Use, Ref
<1>5. Here \notin DOMAIN text
  BY <1>1
<1>6. ASSUME NEW p
      PROVE  p \in LookUps(OwnType)' <=>
               \/ p \in LookUps(OwnType)
               \/ p = Here /\ it.ref = None /\ it.type = OwnType /\ it.use # NoUse
  <2>1. CASE p \in DOMAIN text
    BY <1>1, <1>2, <1>3, <1>4, <1>5, <2>1
  <2>2. CASE p = Here
    BY <1>1, <1>2, <1>3, <1>4, <1>5, <2>2
  <2>3. CASE p \notin DOMAIN text /\ p # Here
    BY <1>2, <1>3, <1>4, <2>3
  <2>4. QED
    BY <2>1, <2>2, <2>3
<1>7. QED
  BY <1>6

LEMMA LookUpsFacts ==
  ASSUME text \in Seq(Items), LookUps(OwnType) # {}
  PROVE  Max(LookUps(OwnType)) \in DOMAIN text
<1> DEFINE S == LookUps(OwnType)
<1>1. S \in SUBSET (DOMAIN text)
  BY DEF LookUps
<1>2. DOMAIN text = 1..Len(text) /\ Len(text) \in Nat
  OBVIOUS
<1> DEFINE b == Len(text)
<1>3. b \in Int /\ S \in SUBSET Int /\ \A x \in S : x <= b
  BY <1>1, <1>2
<1> HIDE DEF S, b
<1>4. Max(S) \in S
  BY <1>3, GreatestExists DEF S
<1>5. QED
  BY <1>1, <1>4 DEF S

LEMMA GrowingKeepsNames ==
  ASSUME IInv, NEW it, Grows(it), StructsAreKept,
         LooksUpNone(it) \/ LooksUpAlias(it) \/ LooksUpOwn(it)
  PROVE  NamesOfTypes'
<1>1. /\ DOMAIN text = 1..(Here - 1) /\ DOMAIN text' = 1..Here /\ Here \in Nat \ {0}
      /\ text'[Here] = it /\ \A k \in DOMAIN text : text'[k] = text[k]
  BY ItemsAreKept
<1>2. /\ \A p \in DOMAIN text : text[p].c = "var" /\ text[p].type \in Structs => Declared(text[p].type)
      /\ called[OwnType] # ModuleType =>
           /\ LookUps(OwnType) # {}
           /\ ~text[Max(LookUps(OwnType))].use.member
           /\ [name |-> called[OwnType], type |-> OwnType] \in ToSet(aliases)
  BY NamesOfTypesFacts DEF IInv
<1>3. called \in [Structs -> Ids] /\ OwnType \in Structs
  <2>1. called \in [Structs -> Ids]
    BY DEF IInv, TypeOK
  <2>2. OwnType \in Structs
    BY NamesAssumption DEF NamesAssumption, Structs, OwnType
  <2>3. QED
    BY <2>1, <2>2
<1>4. ASSUME NEW s \in Structs, Declared(s)
      PROVE  Declared(s)'
  <2>1. [name |-> called[s], type |-> s] \in ToSet(aliases)
          => [name |-> called[s], type |-> s] \in ToSet(aliases')
    <3>1. [name |-> called[s], type |-> s].type \in Structs
      OBVIOUS
    <3>2. QED
      BY <3>1 DEF StructsAreKept
  <2>2. CASE called'[s] = called[s] /\ called'[OwnType] = called[OwnType]
    BY <1>4, <2>1, <2>2 DEF Declared, OwnType
  <2>3. CASE LooksUpAlias(it)
    <3>1. CASE s = it.type
      BY <1>3, <2>3, <3>1 DEF LooksUpAlias, Declared
    <3>2. CASE s # it.type /\ it.type = OwnType
      BY <1>3, <1>4, <2>1, <2>3, <3>2 DEF LooksUpAlias, Declared
    <3>3. CASE s # it.type /\ it.type # OwnType
      BY <1>3, <2>2, <2>3, <3>3 DEF LooksUpAlias
    <3>4. QED
      BY <3>1, <3>2, <3>3
  <2>4. CASE LooksUpOwn(it)
    <3>1. CASE s = OwnType
      BY <1>3, <2>4, <3>1 DEF LooksUpOwn, Declared, OwnType
    <3>2. CASE s # OwnType
      BY <1>3, <1>4, <2>1, <2>4, <3>2 DEF LooksUpOwn, Declared
    <3>3. QED
      BY <3>1, <3>2
  <2>5. QED
    BY <2>2, <2>3, <2>4 DEF LooksUpNone
<1>5. it.c = "var" /\ it.type \in Structs => Declared(it.type)'
  <2>1. CASE LooksUpNone(it)
    <3> SUFFICES ASSUME it.c = "var", it.type \in Structs
                 PROVE  Declared(it.type)'
      OBVIOUS
    <3>1. Declared(it.type)
      BY <2>1 DEF LooksUpNone
    <3>2. QED
      BY <1>4, <3>1
  <2>2. CASE LooksUpAlias(it)
    BY <1>3, <2>2 DEF LooksUpAlias, Declared
  <2>3. CASE LooksUpOwn(it)
    BY <1>3, <2>3 DEF LooksUpOwn, Declared, OwnType
  <2>4. QED
    BY <2>1, <2>2, <2>3
<1>6. (\A p \in DOMAIN text : text[p].c = "var" /\ text[p].type \in Structs => Declared(text[p].type))'
  <2> SUFFICES ASSUME NEW p \in DOMAIN text', text'[p].c = "var", text'[p].type \in Structs
               PROVE  Declared(text[p].type)'
    BY DEF Structs
  <2>1. PICK s : s = text'[p].type
    OBVIOUS
  <2>2. Declared(s)'
    <3>1. CASE p \in DOMAIN text
      <4>1. text[p].c = "var" /\ text[p].type = s /\ s \in Structs
        BY <1>1, <2>1, <3>1
      <4>2. QED
        BY <1>2, <1>4, <3>1, <4>1
    <3>2. CASE p = Here
      BY <1>1, <1>5, <2>1, <3>2
    <3>3. QED
      BY <1>1, <3>1, <3>2
  <2>3. QED
    BY <2>1, <2>2 DEF Declared
<1>7. ASSUME called'[OwnType] # ModuleType
      PROVE  /\ LookUps(OwnType)' # {}
             /\ \A m : m = Max(LookUps(OwnType)') => ~text'[m].use.member
             /\ [name |-> called'[OwnType], type |-> OwnType] \in ToSet(aliases')
  <2>1. CASE called'[OwnType] = called[OwnType] /\ LookUps(OwnType)' = LookUps(OwnType)
    <3>1. /\ LookUps(OwnType) # {}
          /\ ~text[Max(LookUps(OwnType))].use.member
          /\ [name |-> called[OwnType], type |-> OwnType] \in ToSet(aliases)
      BY <1>2, <1>7, <2>1
    <3>2. Max(LookUps(OwnType)) \in DOMAIN text
      BY <3>1, LookUpsFacts DEF Grows
    <3>3. [name |-> called[OwnType], type |-> OwnType] \in ToSet(aliases')
      <4>1. [name |-> called[OwnType], type |-> OwnType].type \in Structs
        BY <1>3
      <4>2. QED
        BY <3>1, <4>1 DEF StructsAreKept
    <3>4. QED
      BY <1>1, <2>1, <3>1, <3>2, <3>3
  <2>2. CASE LooksUpNone(it)
    <3>1. LookUps(OwnType)' = LookUps(OwnType)
      BY <2>2, LookUpsNext DEF LooksUpNone
    <3>2. QED
      BY <2>1, <2>2, <3>1 DEF LooksUpNone
  <2>3. CASE LooksUpAlias(it) /\ it.type # OwnType
    <3>1. LookUps(OwnType)' = LookUps(OwnType)
      BY <2>3, LookUpsNext
    <3>2. called'[OwnType] = called[OwnType]
      BY <1>3, <2>3 DEF LooksUpAlias
    <3>3. QED
      BY <2>1, <3>1, <3>2
  <2>4. CASE LooksUpAlias(it) /\ it.type = OwnType
    <3>1. LookUps(OwnType)' = LookUps(OwnType) \cup {Here}
      BY <2>4, LookUpsNext DEF LooksUpAlias
    <3>2. PICK S : S = LookUps(OwnType)'
      OBVIOUS
    <3>3. Here \in S /\ S \in SUBSET Int /\ \A x \in S : x <= Here
      <4>1. \A x \in LookUps(OwnType) : x \in DOMAIN text
        BY DEF LookUps
      <4>2. \A x \in S : x \in 1..Here
        BY <1>1, <3>1, <3>2, <4>1
      <4>3. QED
        BY <1>1, <3>1, <3>2, <4>2
    <3>4. Max(S) \in S /\ \A y \in S : y <= Max(S)
      <4>1. S # {} /\ Here \in Int
        BY <1>1, <3>3
      <4>2. QED
        BY <3>3, <4>1, GreatestExists
    <3>5. Max(S) = Here
      <4>1. Max(S) \in Int /\ Here \in Int /\ Max(S) <= Here /\ Here <= Max(S)
        BY <1>1, <3>3, <3>4
      <4>2. QED
        BY <4>1
    <3>6. called'[OwnType] = it.use.name
      BY <1>3, <2>4 DEF LooksUpAlias
    <3>7. /\ ~it.use.member
          /\ [name |-> it.use.name, type |-> OwnType] \in ToSet(aliases')
      BY <2>4 DEF LooksUpAlias
    <3>8. QED
      BY <1>1, <3>2, <3>3, <3>5, <3>6, <3>7
  <2>5. CASE LooksUpOwn(it)
    BY <1>3, <1>7, <2>5 DEF LooksUpOwn
  <2>6. QED
    BY <2>2, <2>3, <2>4, <2>5
<1>8. (called[OwnType] # ModuleType =>
         /\ LookUps(OwnType) # {}
         /\ ~text[Max(LookUps(OwnType))].use.member
         /\ [name |-> called[OwnType], type |-> OwnType] \in ToSet(aliases))'
  BY <1>7 DEF OwnType, Max, ToSet
<1>9. QED
  BY <1>6, <1>8 DEF NamesOfTypes, TypeNamesDeclared, Declared, OwnType, Structs
-----------------------------------------------------------------------------
(* The steps.                                                              *)

ItemIsBuilt(it) ==
  /\ it.ref # None => it.c \in {"var", "use"} /\ it.use.name \in VarIds \cup FuncIds
  /\ it.c = "var" => it.name \in VarIds
  /\ it.c = "use" => it.name = NoName

(* What holds of the text, of the aliases and of the names of types once   *)
(* an item was added; the nodes are left to each step.                     *)
LEMMA GrowingKeepsRest ==
  ASSUME IInv, NEW it, Grows(it), ItemIsBuilt(it), ItemIsRight(it), StructsAreKept,
         LooksUpNone(it) \/ LooksUpAlias(it) \/ LooksUpOwn(it)
  PROVE  ItemsAreBuilt' /\ TextIsRight' /\ NamesOfTypes'
<1>1. /\ DOMAIN text = 1..(Here - 1) /\ DOMAIN text' = 1..Here /\ Here \in Nat \ {0}
      /\ text'[Here] = it /\ \A k \in DOMAIN text : text'[k] = text[k]
  BY ItemsAreKept
<1>2. \A p \in DOMAIN text' : (p \in DOMAIN text /\ text'[p] = text[p]) \/ text'[p] = it
  BY <1>1
<1>3. ItemsAreBuilt'
  BY <1>2 DEF ItemsAreBuilt, ItemIsBuilt, IInv
<1>4. TextIsRight'
  BY GrowingKeepsText DEF IInv
<1>5. NamesOfTypes'
  BY GrowingKeepsNames
<1>6. QED
  BY <1>3, <1>4, <1>5

LEMMA RootIsKept ==
  ASSUME IInv, NEW it, Grows(it), it.c # "alias", aliases' = aliases,
         \A i \in DOMAIN funcs' :
           \/ i \in DOMAIN funcs /\ funcs'[i] = funcs[i]
           \/ \E q \in DOMAIN text : IsFunc(q) /\ funcs'[i] = Ref("func", text[q].name, q)
  PROVE  RootIsRight'
<1>1. \A q \in DOMAIN text : q \in DOMAIN text' /\ text'[q] = text[q]
  <2>1. /\ DOMAIN text = 1..(Here - 1) /\ DOMAIN text' = 1..Here /\ Here \in Nat \ {0}
        /\ \A k \in DOMAIN text : text'[k] = text[k]
    BY ItemsAreKept
  <2>2. QED
    BY <2>1
<1>2. \A q \in DOMAIN text : IsFunc(q) => IsFunc(q)'
  BY <1>1 DEF IsFunc
<1>3. ASSUME NEW i \in DOMAIN funcs'
      PROVE  \E q \in DOMAIN text' : IsFunc(q)' /\ funcs'[i] = Ref("func", text'[q].name, q)
  <2>1. PICK q \in DOMAIN text : IsFunc(q) /\ funcs'[i] = Ref("func", text[q].name, q)
    BY DEF IInv, RootIsRight
  <2>2. QED
    BY <1>1, <1>2, <2>1
<1>4. ASSUME NEW i \in DOMAIN aliases
      PROVE  \E q \in DOMAIN text' : text'[q].c = "alias" /\ text'[q].name = aliases[i].name
  <2>1. PICK q \in DOMAIN text : text[q].c = "alias" /\ text[q].name = aliases[i].name
    BY DEF IInv, RootIsRight
  <2>2. QED
    BY <1>1, <2>1
<1>5. \A i, j \in DOMAIN aliases' : aliases'[i].name = aliases'[j].name => i = j
  BY DEF IInv, RootIsRight
<1>6. ASSUME NEW q \in DOMAIN text', text'[q].c = "alias"
      PROVE  \E i \in DOMAIN aliases : aliases[i].name = text'[q].name
  <2>1. q \in DOMAIN text /\ text'[q] = text[q]
    <3>1. /\ DOMAIN text = 1..(Here - 1) /\ DOMAIN text' = 1..Here /\ Here \in Nat \ {0}
          /\ text'[Here] = it
      BY ItemsAreKept
    <3>2. q # Here
      BY <1>6, <3>1
    <3>3. q \in DOMAIN text
      BY <3>1, <3>2
    <3>4. QED
      BY <1>1, <3>3
  <2>2. QED
    BY <1>6, <2>1 DEF IInv, RootIsRight
<1>7. QED
  BY <1>3, <1>4, <1>5, <1>6 DEF RootIsRight, Ref, IsFunc

LEMMA StutteringKeepsIInv ==
  ASSUME IInv, scopes' = scopes, funcs' = funcs, aliases' = aliases, called' = called,
         text' = text, stopped' \in BOOLEAN
  PROVE  IInv'
<1>1. TypeOK'
  BY DEF IInv, TypeOK
<1>2. ItemsAreBuilt'
  BY DEF IInv, ItemsAreBuilt
<1>3. \A p : Depth(p)' = Depth(p)
  BY DEF Depth
<1>4. Here' = Here
  BY DEF Here
<1>5. TextIsRight'
  BY <1>3, <1>4 DEF IInv, TextIsRight, Found, FoundVar, FoundParam, FoundFunc, NoLocal,
     HasParam, Hides, Enclosed, StillOpen, IsVar, IsFunc
<1>6. NodesAreBlocks'
  BY <1>3, <1>4 DEF IInv, NodesAreBlocks, LevelOf, Enclosed, IsFunc
<1>7. TablesAreRight'
  BY <1>3, <1>4 DEF IInv, TablesAreRight, RightTable, InTable, LevelOf, Hides, StillOpen, IsVar
<1>8. RootIsRight'
  BY DEF IInv, RootIsRight, IsFunc
<1>9. NamesOfTypes'
  BY DEF IInv, NamesOfTypes, TypeNamesDeclared, LookUps
<1>10. QED
  BY <1>1, <1>2, <1>5, <1>6, <1>7, <1>8, <1>9 DEF IInv

LEMMA FailingKeepsIInv == IInv /\ Fails => IInv'
BY StutteringKeepsIInv DEF Fails
LEMMA ItemFacts ==
  ASSUME NEW c \in {"alias", "var", "func", "open", "close", "use"}, NEW name \in Ids,
         NEW use \in UseRecords, NEW ref \in Refs, NEW type \in Int, NEW params \in Seq(VarIds),
         NEW it, it = Item(c, name, use, ref, type, params)
  PROVE  /\ it \in Items
         /\ it.c = c /\ it.name = name /\ it.use = use /\ it.ref = ref /\ it.type = type
         /\ it.params = params
BY DEF Item, Items

LEMMA BareItemFacts ==
  ASSUME NEW c \in {"alias", "var", "func", "open", "close", "use"}, NEW name \in Ids,
         NEW use \in UseRecords, NEW ref \in Refs, NEW type \in Int,
         NEW it, it = Item(c, name, use, ref, type, <<>>)
  PROVE  /\ it \in Items
         /\ it.c = c /\ it.name = name /\ it.use = use /\ it.ref = ref /\ it.type = type
BY DEF Item, Items

LEMMA ConstantFacts ==
  /\ NoName \in Ids /\ "number" \in Ids /\ ModuleType \in Ids
  /\ NoUse \in UseRecords /\ None \in Refs /\ <<>> \in Seq(VarIds)
  /\ \A n \in Ids, m \in BOOLEAN : Use(n, m) \in UseRecords
  /\ \A n, m : Use(n, m).name = n /\ Use(n, m).member = m
  /\ Number \in Int /\ Number \notin Structs /\ Unset \notin Structs /\ Unset \in Int
  /\ OwnType \in Structs /\ OwnType # Number /\ OwnType = 0 /\ Structs \in SUBSET Int
<1>1. NoName \in Ids /\ "number" \in Ids /\ ModuleType \in Ids
  BY DEF Ids
<1>2. NoUse \in UseRecords /\ None \in Refs /\ <<>> \in Seq(VarIds)
  BY <1>1 DEF NoUse, Use, UseRecords, None, Ref, Refs
<1>3. \A n \in Ids, m \in BOOLEAN : Use(n, m) \in UseRecords
  BY DEF Use, UseRecords
<1>4. \A n, m : Use(n, m).name = n /\ Use(n, m).member = m
  BY DEF Use
<1>5. Number \in Int /\ Number \notin Structs /\ Unset \notin Structs /\ Unset \in Int
  BY NamesAssumption DEF Number, Unset, Structs
<1>6. OwnType \in Structs /\ OwnType # Number /\ OwnType = 0 /\ Structs \in SUBSET Int
  BY NamesAssumption DEF OwnType, Number, Structs
<1>7. QED
  BY <1>1, <1>2, <1>3, <1>4, <1>5, <1>6

(* A use that an expression can be.                                        *)
LEMMA UseFacts ==
  ASSUME NEW use \in Uses
  PROVE  /\ use \in UseRecords /\ use.member \in BOOLEAN
         /\ use.name \in VarIds \cup FuncIds /\ use # NoUse
<1>1. PICK n \in VarIds \cup FuncIds, m \in BOOLEAN : use = Use(n, m)
  BY DEF Uses
<1>2. use.name = n /\ use.member = m
  BY <1>1, ConstantFacts
<1>3. n \in Ids /\ n # NoName
  BY NamesAssumption DEF Ids
<1>4. NoUse.name = NoName
  BY ConstantFacts DEF NoUse
<1>5. QED
  BY <1>1, <1>2, <1>3, <1>4, ConstantFacts

(* What is found is a reference.                                           *)
LEMMA ResolvedIsRef ==
  ASSUME IInv, NEW use \in Uses, Resolve(use) # None
  PROVE  Resolve(use) \in Refs
<1>1. Found(use, Resolve(use), Here) /\ use.name \in Ids
  BY ResolvedIsFound, UseFacts DEF Ids
<1>2. \A q \in 1..(Here - 1) : q \in Nat
  OBVIOUS
<1>3. \A q \in Nat : /\ Ref("var", use.name, q) \in Refs
                     /\ Ref("param", use.name, q) \in Refs
                     /\ Ref("func", use.name, q) \in Refs
  BY <1>1 DEF Ref, Refs
<1>4. OfModule(use.name) \in Refs
  BY <1>1 DEF OfModule, Ref, Refs
<1>5. QED
  BY <1>1, <1>2, <1>3, <1>4 DEF Found, FoundVar, FoundParam, FoundFunc

(* The items that change no depth owe the text nothing but what they find. *)
LEMMA PlainItemIsRight ==
  ASSUME IInv, NEW it, it.c \notin Openers \cup Closers \cup {"var"},
         it.ref # None => Found(it.use, it.ref, Here)
  PROVE  ItemIsRight(it)
<1>1. /\ Change(it.c) = 0 /\ it.c # "func" /\ it.c # "var"
  BY DEF Change, Openers
<1>2. Here \in 1..Here
  BY StateFacts DEF IInv
<1>3. Depth(Here) >= 0 /\ Depth(Here) \in Int
  BY <1>2, StateFacts DEF IInv, TextIsRight
<1>4. Depth(Here) + Change(it.c) >= 0
  BY <1>1, <1>3
<1>5. QED
  BY <1>1, <1>4 DEF ItemIsRight

LEMMA ReferKeepsIInv ==
  ASSUME IInv, NEW use \in Uses, Refer(use)
  PROVE  IInv'
<1>1. CASE Resolve(use) = None
  BY <1>1, FailingKeepsIInv DEF Refer
<1>2. CASE Resolve(use) # None
  <2>1. /\ text' = Append(text, Item("use", NoName, use, Resolve(use), Number, <<>>))
        /\ scopes' = scopes /\ funcs' = funcs /\ aliases' = aliases /\ called' = called
        /\ stopped' = stopped
    BY <1>2 DEF Refer
  <2>2. PICK it : it = Item("use", NoName, use, Resolve(use), Number, <<>>)
    OBVIOUS
  <2>3. Resolve(use) \in Refs
    BY <1>2, ResolvedIsRef
  <2>4. /\ it \in Items /\ it.c = "use" /\ it.name = NoName /\ it.use = use
        /\ it.ref = Resolve(use) /\ it.type = Number
    <3>1. use \in UseRecords /\ NoName \in Ids /\ Number \in Int
      BY UseFacts, ConstantFacts
    <3>2. QED
      BY <2>2, <2>3, <3>1, BareItemFacts
  <2>5. Grows(it)
    BY <2>1, <2>2, <2>4 DEF Grows, IInv, TypeOK
  <2>6. ItemIsBuilt(it)
    BY <2>4, UseFacts DEF ItemIsBuilt
  <2>7. Found(use, Resolve(use), Here)
    BY <1>2, UseFacts, ResolvedIsFound
  <2>8. ItemIsRight(it)
    BY <2>4, <2>7, PlainItemIsRight DEF Openers, Closers
  <2>9. StructsAreKept /\ LooksUpNone(it)
    BY <1>2, <2>1, <2>4 DEF StructsAreKept, LooksUpNone
  <2>10. ItemsAreBuilt' /\ TextIsRight' /\ NamesOfTypes'
    BY <2>5, <2>6, <2>8, <2>9, GrowingKeepsRest
  <2>11. NodesAreBlocks' /\ TablesAreRight'
    BY <2>1, <2>4, <2>5, PlainKeepsNodes DEF Openers, Closers
  <2>12. RootIsRight'
    BY <2>1, <2>4, <2>5, RootIsKept
  <2>13. TypeOK'
    BY <2>1, <2>5, TextGrows DEF IInv, TypeOK
  <2>14. QED
    BY <2>10, <2>11, <2>12, <2>13 DEF IInv
<1>3. QED
  BY <1>1, <1>2

(* What a type is written with, and the structure that it is.              *)
LEMMA TypeFacts ==
  ASSUME IInv, NEW t \in TypeNames
  PROVE  /\ t \in UseRecords /\ t # NoUse /\ TypeOf(t) \in Int
         /\ \/ t.member /\ t.name = ModuleType /\ TypeOf(t) = OwnType
            \/ ~t.member /\ TypeOf(t) = Number
            \/ /\ ~t.member /\ t.name # "number"
               /\ \E i \in DOMAIN aliases :
                    aliases[i] = [name |-> t.name, type |-> TypeOf(t)]
<1>1. /\ DOMAIN aliases = 1..Len(aliases) /\ Len(aliases) \in Nat
      /\ \A i \in DOMAIN aliases : aliases[i] \in [name : TypeIds, type : Int]
  <2> DEFINE E == [name : TypeIds, type : Int]
  <2>1. aliases \in Seq(E)
    BY DEF IInv, TypeOK
  <2> HIDE DEF E
  <2>2. /\ DOMAIN aliases = 1..Len(aliases) /\ Len(aliases) \in Nat
        /\ \A i \in DOMAIN aliases : aliases[i] \in E
    BY <2>1
  <2>3. QED
    BY <2>2 DEF E
<1>2. NoUse.name = NoName /\ Number \in Int /\ OwnType \in Int
  BY ConstantFacts DEF NoUse
<1>3. CASE t = Use("number", FALSE)
  <2>1. t.name = "number" /\ ~t.member /\ t \in UseRecords
    BY <1>3, ConstantFacts
  <2>2. TypeOf(t) = Number
    BY <1>3, <2>1 DEF TypeOf
  <2>3. t # NoUse
    <3>1. "number" # NoName
      BY Zenon DEF NoName
    <3>2. QED
      BY <1>2, <2>1, <3>1
  <2>4. QED
    BY <1>2, <2>1, <2>2, <2>3
<1>4. CASE t = Use(ModuleType, TRUE)
  <2>1. t.name = ModuleType /\ t.member /\ t \in UseRecords /\ ~NoUse.member
    BY <1>4, ConstantFacts DEF NoUse
  <2>2. TypeOf(t) = OwnType
    <3>1. Use("number", FALSE).member = FALSE
      BY ConstantFacts
    <3>2. t # Use("number", FALSE)
      BY <2>1, <3>1
    <3>3. QED
      BY <2>1, <3>2 DEF TypeOf
  <2>3. t # NoUse
    BY <2>1
  <2>4. QED
    BY <1>2, <2>1, <2>2, <2>3
<1>5. CASE \E a \in ToSet(aliases) : t = Use(a.name, FALSE)
  <2>1. PICK i \in DOMAIN aliases : t = Use(aliases[i].name, FALSE)
    BY <1>5 DEF ToSet
  <2>2. aliases[i].name \in TypeIds
    BY <1>1
  <2>3. PICK n \in TypeIds : n = aliases[i].name
    BY <2>2
  <2>4. n \in Ids /\ n # NoName /\ n # "number"
    BY NamesAssumption DEF Ids
  <2>5. t.name = n /\ ~t.member /\ t \in UseRecords /\ t # Use("number", FALSE)
    <3>1. t = Use(n, FALSE) /\ FALSE \in BOOLEAN
      BY <2>1, <2>3
    <3>2. t.name = n /\ t.member = FALSE /\ t \in UseRecords
      BY <2>4, <3>1, ConstantFacts
    <3>3. Use("number", FALSE).name = "number"
      BY ConstantFacts
    <3>4. QED
      BY <2>4, <3>2, <3>3
  <2>6. TypeOf(t) = First(aliases, n).type
    BY <2>5 DEF TypeOf, AliasType
  <2>7. PICK j \in DOMAIN aliases : First(aliases, n) = aliases[j] /\ aliases[j].name = n
    BY <1>1, <2>3, FirstHasName
  <2>8. aliases[j] \in [name : TypeIds, type : Int]
    BY <1>1
  <2>9. aliases[j] = [name |-> n, type |-> TypeOf(t)] /\ TypeOf(t) \in Int
    BY <2>6, <2>7, <2>8
  <2>10. QED
    BY <1>2, <2>4, <2>5, <2>9
<1>6. QED
  BY <1>3, <1>4, <1>5 DEF TypeNames

LEMMA LookUpIsRight ==
  ASSUME IInv, NEW t \in TypeNames, NEW it,
         it.use = t, it.ref = None, it.type = TypeOf(t), StructsAreKept,
         called' = NowCalled(TypeOf(t), t.name)
  PROVE  LooksUpNone(it) \/ LooksUpAlias(it) \/ LooksUpOwn(it)
<1>1. t # NoUse /\ Number \notin Structs /\ OwnType \in Structs
  BY TypeFacts, ConstantFacts
<1>2. CASE TypeOf(t) \notin Structs
  <2>1. called' = called
    BY <1>2 DEF NowCalled
  <2>2. QED
    BY <1>1, <1>2, <2>1 DEF LooksUpNone
<1>3. CASE t.member /\ t.name = ModuleType /\ TypeOf(t) = OwnType
  BY <1>1, <1>3 DEF LooksUpOwn, NowCalled
<1>4. ASSUME TypeOf(t) \in Structs, ~t.member,
             NEW i \in DOMAIN aliases, aliases[i] = [name |-> t.name, type |-> TypeOf(t)]
      PROVE  LooksUpAlias(it)
  <2>1. [name |-> t.name, type |-> TypeOf(t)] \in ToSet(aliases)
    BY <1>4 DEF ToSet
  <2>2. [name |-> t.name, type |-> TypeOf(t)] \in ToSet(aliases')
    BY <1>4, <2>1 DEF StructsAreKept
  <2>3. called' = [called EXCEPT ![TypeOf(t)] = t.name]
    BY <1>4 DEF NowCalled
  <2>4. QED
    BY <1>1, <1>4, <2>2, <2>3 DEF LooksUpAlias
<1>5. QED
  BY <1>1, <1>2, <1>3, <1>4, TypeFacts

LEMMA NowCalledIsTyped ==
  ASSUME TypeOK, NEW s, NEW n \in Ids
  PROVE  NowCalled(s, n) \in [Structs -> Ids]
BY DEF TypeOK, NowCalled

(* A variable whose name is not taken in its block.                        *)
LEMMA NewVarIsRight ==
  ASSUME IInv, NEW it, it.c = "var", ~Taken(it.name),
         it.ref # None => Found(it.use, it.ref, Here)
  PROVE  ItemIsRight(it)
<1>1. /\ Change(it.c) = 0
      /\ Here \in 1..Here /\ Depth(Here) \in Int
      /\ Len(scopes) \in DOMAIN scopes \ {2} /\ Innermost = scopes[Len(scopes)]
      /\ DOMAIN text = 1..Len(text)
  BY StateFacts DEF IInv, Change, Openers, Closers
<1>2. Depth(Here) >= 0 /\ Depth(Here) + Change(it.c) >= 0
  BY <1>1 DEF IInv, TextIsRight
<1>3. ASSUME NEW q \in DOMAIN text, Hides(it.name, q, Here), Depth(q) = Depth(Here)
      PROVE  FALSE
  <2>1. text[q].name = it.name
    BY <1>3 DEF Hides, IsVar
  <2>2. InTable(text[q].name, Len(scopes), q)
    BY <1>3, <2>1 DEF InTable, IInv, NodesAreBlocks
  <2>3. it.name \in DOMAIN scopes[Len(scopes)].syms
    BY <1>1, <2>1, <2>2 DEF IInv, TablesAreRight, RightTable
  <2>4. QED
    BY <1>1, <2>3 DEF Taken
<1>4. \A q \in DOMAIN text : text[q].c = "alias" => text[q].name # it.name
  BY DEF IInv, RootIsRight, Taken, IsAlias
<1>5. QED
  BY <1>2, <1>3, <1>4 DEF ItemIsRight

LEMMA DeclareTypedKeepsIInv ==
  ASSUME IInv, NEW n \in VarIds, NEW t \in TypeNames, DeclareTyped(n, t)
  PROVE  IInv'
<1>1. CASE Taken(n)
  BY <1>1, FailingKeepsIInv DEF DeclareTyped
<1>2. CASE ~Taken(n)
  <2>1. /\ text' = Append(text, Item("var", n, t, None, TypeOf(t), <<>>))
        /\ scopes' = Registered(n, Here) /\ funcs' = funcs /\ aliases' = aliases
        /\ called' = IF t.name = "number" THEN called ELSE NowCalled(TypeOf(t), t.name)
        /\ stopped' = stopped
    BY <1>2 DEF DeclareTyped
  <2>2. PICK it : it = Item("var", n, t, None, TypeOf(t), <<>>)
    OBVIOUS
  <2>3. /\ it \in Items /\ it.c = "var" /\ it.name = n /\ it.use = t
        /\ it.ref = None /\ it.type = TypeOf(t)
    <3>1. t \in UseRecords /\ TypeOf(t) \in Int /\ None \in Refs /\ n \in Ids
      BY TypeFacts, ConstantFacts DEF Ids
    <3>2. QED
      BY <2>2, <3>1, BareItemFacts
  <2>4. Grows(it)
    BY <2>1, <2>2, <2>3 DEF Grows, IInv, TypeOK
  <2>5. ItemIsBuilt(it)
    BY <2>3 DEF ItemIsBuilt
  <2>6. ItemIsRight(it)
    BY <1>2, <2>3, NewVarIsRight
  <2>7. called' = NowCalled(TypeOf(t), t.name)
    <3>1. CASE t.name = "number"
      <4>1. ModuleType # "number"
        BY NamesAssumption
      <4>2. TypeOf(t) = Number
        BY <3>1, <4>1, TypeFacts
      <4>3. QED
        BY <2>1, <3>1, <4>2, ConstantFacts DEF NowCalled
    <3>2. QED
      BY <2>1, <3>1
  <2>8. StructsAreKept
    BY <2>1 DEF StructsAreKept
  <2>9. LooksUpNone(it) \/ LooksUpAlias(it) \/ LooksUpOwn(it)
    BY <2>3, <2>7, <2>8, LookUpIsRight
  <2>10. ItemsAreBuilt' /\ TextIsRight' /\ NamesOfTypes'
    BY <2>4, <2>5, <2>6, <2>8, <2>9, GrowingKeepsRest
  <2>11. scopes' \in Seq(Scopes) /\ NodesAreBlocks' /\ TablesAreRight'
    BY <1>2, <2>1, <2>3, <2>4, DeclaringKeepsNodes DEF Taken
  <2>12. RootIsRight'
    BY <2>1, <2>3, <2>4, RootIsKept
  <2>13. called' \in [Structs -> Ids]
    BY <2>7, TypeFacts, NowCalledIsTyped DEF IInv, UseRecords
  <2>14. TypeOK'
    BY <2>1, <2>4, <2>11, <2>13, TextGrows DEF IInv, TypeOK
  <2>15. QED
    BY <2>10, <2>11, <2>12, <2>14 DEF IInv
<1>3. QED
  BY <1>1, <1>2

LEMMA DeclareInitKeepsIInv ==
  ASSUME IInv, NEW n \in VarIds, NEW use \in Uses, DeclareInit(n, use)
  PROVE  IInv'
<1>1. CASE Resolve(use) = None \/ Taken(n)
  BY <1>1, FailingKeepsIInv DEF DeclareInit
<1>2. CASE Resolve(use) # None /\ ~Taken(n)
  <2>1. /\ text' = Append(text, Item("var", n, use, Resolve(use), TypeOfRef(Resolve(use)), <<>>))
        /\ scopes' = Registered(n, Here) /\ funcs' = funcs /\ aliases' = aliases
        /\ called' = called /\ stopped' = stopped
    BY <1>2 DEF DeclareInit
  <2>2. PICK it : it = Item("var", n, use, Resolve(use), TypeOfRef(Resolve(use)), <<>>)
    OBVIOUS
  <2>3. /\ Resolve(use) \in Refs /\ use \in UseRecords /\ use.member \in BOOLEAN
        /\ use.name \in VarIds \cup FuncIds
    BY <1>2, ResolvedIsRef, UseFacts
  <2>4. /\ Found(use, Resolve(use), Here)
        /\ Resolve(use).sort = "var" =>
             \E q \in DOMAIN text : Resolve(use).at = q /\ text[q].c = "var"
    BY <1>2, <2>3, ResolvedIsFound
  <2>5. /\ TypeOfRef(Resolve(use)) \in Int
        /\ TypeOfRef(Resolve(use)) \in Structs => Declared(TypeOfRef(Resolve(use)))
    <3>1. CASE Resolve(use).sort = "var"
      <4>1. PICK q \in DOMAIN text : Resolve(use).at = q /\ text[q].c = "var"
        BY <2>4, <3>1
      <4>2. text[q] \in Items
        BY DEF IInv, TypeOK
      <4>3. TypeOfRef(Resolve(use)) = text[q].type /\ text[q].type \in Int
        BY <3>1, <4>1, <4>2 DEF TypeOfRef, Items
      <4>4. text[q].type \in Structs => Declared(text[q].type)
        BY <4>1, NamesOfTypesFacts DEF IInv
      <4>5. QED
        BY <4>3, <4>4
    <3>2. CASE Resolve(use).sort # "var"
      BY <3>2, ConstantFacts DEF TypeOfRef
    <3>3. QED
      BY <3>1, <3>2
  <2>6. /\ it \in Items /\ it.c = "var" /\ it.name = n /\ it.use = use
        /\ it.ref = Resolve(use) /\ it.type = TypeOfRef(Resolve(use))
    BY <2>2, <2>3, <2>5, BareItemFacts DEF Ids
  <2>7. Grows(it)
    BY <2>1, <2>2, <2>6 DEF Grows, IInv, TypeOK
  <2>8. ItemIsBuilt(it)
    BY <2>3, <2>6 DEF ItemIsBuilt
  <2>9. ItemIsRight(it)
    BY <1>2, <2>4, <2>6, NewVarIsRight
  <2>10. StructsAreKept /\ LooksUpNone(it)
    BY <1>2, <2>1, <2>5, <2>6 DEF StructsAreKept, LooksUpNone
  <2>11. ItemsAreBuilt' /\ TextIsRight' /\ NamesOfTypes'
    BY <2>7, <2>8, <2>9, <2>10, GrowingKeepsRest
  <2>12. scopes' \in Seq(Scopes) /\ NodesAreBlocks' /\ TablesAreRight'
    BY <1>2, <2>1, <2>6, <2>7, DeclaringKeepsNodes DEF Taken
  <2>13. RootIsRight'
    BY <2>1, <2>6, <2>7, RootIsKept
  <2>14. TypeOK'
    BY <2>1, <2>7, <2>12, TextGrows DEF IInv, TypeOK
  <2>15. QED
    BY <2>11, <2>12, <2>13, <2>14 DEF IInv
<1>3. QED
  BY <1>1, <1>2

LEMMA EmptyTable == <<>> \in Tables
<1>1. <<>> \in [{} -> Refs]
  OBVIOUS
<1>2. QED
  BY <1>1 DEF Tables

LEMMA OpenKeepsIInv ==
  ASSUME IInv, Open
  PROVE  IInv'
<1> DEFINE k == Len(scopes)
<1>1. /\ text' = Append(text, Item("open", NoName, NoUse, None, Number, <<>>))
      /\ scopes' = Append(scopes, NewScope("body", NoName, Here, <<>>))
      /\ funcs' = funcs /\ aliases' = aliases /\ called' = called /\ stopped' = stopped
      /\ Innermost.kind = "body"
  BY DEF Open
<1>2. PICK it : it = Item("open", NoName, NoUse, None, Number, <<>>)
  OBVIOUS
<1>3. /\ it \in Items /\ it.c = "open" /\ it.name = NoName /\ it.use = NoUse /\ it.ref = None
      /\ it.type = Number
  BY <1>2, BareItemFacts, ConstantFacts
<1>4. Grows(it)
  BY <1>1, <1>2, <1>3 DEF Grows, IInv, TypeOK
<1>5. ItemIsBuilt(it)
  BY <1>3 DEF ItemIsBuilt
<1>6. /\ k \in Nat /\ k >= 3 /\ DOMAIN scopes = 1..k /\ Here \in 1..Here /\ Here \in Nat
      /\ Depth(Here) \in Int
  BY <1>1, StateFacts, InnermostKinds DEF IInv
<1>7. ItemIsRight(it)
  <2>1. Depth(Here) >= 0 /\ Change(it.c) = 1
    BY <1>3, <1>6 DEF Change, Openers, IInv, TextIsRight
  <2>2. Depth(Here) + Change(it.c) >= 0
    BY <1>6, <2>1
  <2>3. QED
    BY <1>3, <2>2 DEF ItemIsRight
<1>8. StructsAreKept /\ LooksUpNone(it)
  BY <1>1, <1>3 DEF StructsAreKept, LooksUpNone
<1>9. ItemsAreBuilt' /\ TextIsRight' /\ NamesOfTypes'
  BY <1>4, <1>5, <1>7, <1>8, GrowingKeepsRest
<1>10. /\ scopes' \in Seq(Scopes) /\ Len(scopes') = k + 1
       /\ \A i \in 1..k : scopes'[i] = scopes[i]
       /\ IsNewBody(scopes'[k + 1])
  <2>1. PICK s : s = NewScope("body", NoName, Here, <<>>)
    OBVIOUS
  <2>2. s.kind = "body" /\ s.syms = <<>> /\ s \in Scopes
    BY <1>6, <2>1, EmptyTable, ConstantFacts DEF NewScope, Scopes
  <2>3. scopes \in Seq(Scopes) /\ scopes' = Append(scopes, s)
    BY <1>1, <2>1 DEF IInv, TypeOK
  <2> HIDE DEF k
  <2>4. Len(scopes) = k
    BY DEF k
  <2>5. /\ scopes' \in Seq(Scopes) /\ Len(scopes') = k + 1
        /\ \A i \in 1..k : scopes'[i] = scopes[i]
        /\ scopes'[k + 1] = s
    BY <2>2, <2>3, <2>4
  <2>6. QED
    BY <2>2, <2>5 DEF IsNewBody
<1>11. NodesAreBlocks' /\ TablesAreRight'
  BY <1>1, <1>3, <1>4, <1>10, OpeningKeepsNodes
<1>12. RootIsRight'
  BY <1>1, <1>3, <1>4, RootIsKept
<1>13. TypeOK'
  BY <1>1, <1>4, <1>10, TextGrows DEF IInv, TypeOK
<1>14. QED
  BY <1>9, <1>11, <1>12, <1>13 DEF IInv

LEMMA CloseKeepsIInv ==
  ASSUME IInv, Close
  PROVE  IInv'
<1> DEFINE k == Len(scopes)
           m == IF k = 3 THEN 1 ELSE k - 1
<1>1. /\ k \in Nat /\ k >= 3 /\ DOMAIN scopes = 1..k /\ Here \in 1..Here
      /\ Depth(Here) \in Int
      /\ scopes[k - 1].kind = "func" <=> k = 3
      /\ Innermost.kind = "body"
  BY StateFacts, InnermostKinds DEF IInv, Close
<1>2. m \in Nat /\ m <= k /\ m = k - IF k = 3 THEN 2 ELSE 1
  BY <1>1
<1>3. /\ text' = Append(text, Item("close", NoName, NoUse, None, Number, <<>>))
      /\ scopes' = SubSeq(scopes, 1, m)
      /\ funcs' = IF k = 3 THEN Append(funcs, Ref("func", scopes[2].name, scopes[2].at)) ELSE funcs
      /\ aliases' = aliases /\ called' = called /\ stopped' = stopped
  <2>1. CASE k = 3
    <3>1. k - 1 = 2 /\ k - 2 = m /\ scopes[k - 1] = scopes[2]
      BY <2>1
    <3>2. QED
      BY <1>1, <2>1, <3>1 DEF Close
  <2>2. CASE k # 3
    <3>1. scopes[Len(scopes) - 1].kind # "func"
      BY <1>1, <2>2
    <3>2. m = Len(scopes) - 1
      BY <2>2
    <3> HIDE DEF m
    <3>3. QED
      BY <2>2, <3>1, <3>2 DEF Close
  <2>3. QED
    BY <2>1, <2>2
<1>4. PICK it : it = Item("close", NoName, NoUse, None, Number, <<>>)
  OBVIOUS
<1>5. /\ it \in Items /\ it.c = "close" /\ it.name = NoName /\ it.use = NoUse /\ it.ref = None
      /\ it.type = Number
  BY <1>4, BareItemFacts, ConstantFacts
<1>6. Grows(it)
  BY <1>3, <1>4, <1>5 DEF Grows, IInv, TypeOK
<1>7. ItemIsBuilt(it)
  BY <1>5 DEF ItemIsBuilt
<1>8. ItemIsRight(it)
  <2>1. Depth(Here) = k - 2
    BY <1>1 DEF IInv, NodesAreBlocks, LevelOf
  <2>2. Change(it.c) = -1
    BY <1>5 DEF Change, Openers, Closers
  <2>3. Depth(Here) + Change(it.c) >= 0
    BY <1>1, <2>1, <2>2
  <2>4. QED
    BY <1>5, <2>3 DEF ItemIsRight
<1>9. StructsAreKept /\ LooksUpNone(it)
  BY <1>3, <1>5 DEF StructsAreKept, LooksUpNone
<1>10. ItemsAreBuilt' /\ TextIsRight' /\ NamesOfTypes'
  BY <1>6, <1>7, <1>8, <1>9, GrowingKeepsRest
<1>11. /\ scopes' \in Seq(Scopes) /\ Len(scopes') = m
       /\ \A i \in 1..m : scopes'[i] = scopes[i]
  <2>1. scopes \in Seq(Scopes) /\ Len(scopes) = k
    BY DEF IInv, TypeOK
  <2> HIDE DEF k, m
  <2>2. QED
    BY <1>1, <1>2, <1>3, <2>1
<1>12. NodesAreBlocks' /\ TablesAreRight'
  BY <1>1, <1>2, <1>5, <1>6, <1>11, ClosingKeepsNodes
<1>13. /\ scopes[2].at \in DOMAIN text /\ IsFunc(scopes[2].at)
       /\ scopes[2].name = text[scopes[2].at].name
       /\ Ref("func", scopes[2].name, scopes[2].at) \in Refs
  <2>1. Enclosed(scopes[2].at, Here) /\ scopes[2].name = text[scopes[2].at].name
    BY <1>1 DEF IInv, NodesAreBlocks
  <2>2. scopes[2] \in Scopes
    BY <1>1, StateFacts DEF IInv
  <2>3. scopes[2].name \in Ids /\ scopes[2].at \in Nat
    BY <2>2 DEF Scopes
  <2>4. QED
    BY <2>1, <2>3 DEF Enclosed, IsFunc, Ref, Refs
<1>14. funcs' \in Seq(Refs) /\ RootIsRight'
  <2>1. funcs \in Seq(Refs)
    BY DEF IInv, TypeOK
  <2>2. PICK r \in Refs : r = Ref("func", scopes[2].name, scopes[2].at)
    BY <1>13
  <2>3. funcs' = funcs \/ funcs' = Append(funcs, r)
    BY <1>3, <2>2
  <2>4. /\ funcs' \in Seq(Refs)
        /\ \A i \in DOMAIN funcs' : (i \in DOMAIN funcs /\ funcs'[i] = funcs[i]) \/ funcs'[i] = r
    BY <2>1, <2>3
  <2>5. r = Ref("func", text[scopes[2].at].name, scopes[2].at)
    BY <1>13, <2>2
  <2>6. QED
    BY <1>3, <1>5, <1>6, <1>13, <2>4, <2>5, RootIsKept
<1>15. TypeOK'
  BY <1>3, <1>6, <1>11, <1>14, TextGrows DEF IInv, TypeOK
<1>16. QED
  BY <1>10, <1>12, <1>14, <1>15 DEF IInv

LEMMA TwoMore ==
  ASSUME NEW S, NEW s \in Seq(S), Len(s) = 1, NEW f \in S, NEW b \in S
  PROVE  /\ s \o <<f, b>> \in Seq(S) /\ Len(s \o <<f, b>>) = 3
         /\ (s \o <<f, b>>)[1] = s[1] /\ (s \o <<f, b>>)[2] = f /\ (s \o <<f, b>>)[3] = b
<1>1. <<f, b>> \in Seq(S) /\ Len(<<f, b>>) = 2
  OBVIOUS
<1>2. QED
  BY <1>1, ConcatProperties

LEMMA BeginFuncKeepsIInv ==
  ASSUME IInv, NEW n \in FuncIds, NEW params \in Seq(VarIds), BeginFunc(n, params)
  PROVE  IInv'
<1> DEFINE syms == [p \in ToSet(params) |-> Ref("param", p, Here)]
<1>1. /\ text' = Append(text, Item("func", n, NoUse, None, Number, params))
      /\ scopes' = scopes \o <<NewScope("func", n, Here, syms), NewScope("body", NoName, Here, <<>>)>>
      /\ funcs' = funcs /\ aliases' = aliases /\ called' = called /\ stopped' = stopped
      /\ Innermost.kind = "root"
  BY DEF BeginFunc
<1>2. PICK it : it = Item("func", n, NoUse, None, Number, params)
  OBVIOUS
<1>3. /\ it \in Items /\ it.c = "func" /\ it.name = n /\ it.use = NoUse /\ it.ref = None
      /\ it.type = Number /\ it.params = params
  BY <1>2, ItemFacts, ConstantFacts DEF Ids
<1>4. Grows(it)
  BY <1>1, <1>2, <1>3 DEF Grows, IInv, TypeOK
<1>5. ItemIsBuilt(it)
  BY <1>3 DEF ItemIsBuilt
<1>6. /\ Len(scopes) = 1 /\ Here \in Nat /\ scopes \in Seq(Scopes)
      /\ Depth(Here) = 0
  BY <1>1, StateFacts, InnermostKinds DEF IInv, TypeOK, NodesAreBlocks, LevelOf
<1>7. ItemIsRight(it)
  <2>1. Change(it.c) = 1
    BY <1>3 DEF Change, Openers
  <2>2. QED
    BY <1>3, <1>6, <2>1 DEF ItemIsRight
<1>8. StructsAreKept /\ LooksUpNone(it)
  BY <1>1, <1>3 DEF StructsAreKept, LooksUpNone
<1>9. ItemsAreBuilt' /\ TextIsRight' /\ NamesOfTypes'
  BY <1>4, <1>5, <1>7, <1>8, GrowingKeepsRest
<1>10. syms \in Tables
  <2>1. ToSet(params) \in SUBSET VarIds
    BY DEF ToSet
  <2>2. \A p \in ToSet(params) : Ref("param", p, Here) \in Refs
    BY <1>6, <2>1 DEF Ref, Refs, Ids
  <2>3. QED
    BY <2>1, <2>2 DEF Tables
<1>11. /\ scopes' \in Seq(Scopes) /\ Len(scopes') = 3
       /\ scopes'[1] = scopes[1]
       /\ scopes'[2] = NewScope("func", it.name, Here,
                                [p \in ToSet(it.params) |-> Ref("param", p, Here)])
       /\ IsNewBody(scopes'[3])
  <2>1. PICK f, b : f = NewScope("func", n, Here, syms) /\ b = NewScope("body", NoName, Here, <<>>)
    OBVIOUS
  <2>2. f \in Scopes /\ b \in Scopes /\ b.kind = "body" /\ b.syms = <<>>
    <3> HIDE DEF syms
    <3>1. n \in Ids
      BY DEF Ids
    <3>2. QED
      BY <1>6, <1>10, <2>1, <3>1, EmptyTable, ConstantFacts DEF NewScope, Scopes
  <2>3. scopes' = scopes \o <<f, b>>
    BY <1>1, <2>1
  <2>4. /\ scopes' \in Seq(Scopes) /\ Len(scopes') = 3
        /\ scopes'[1] = scopes[1] /\ scopes'[2] = f /\ scopes'[3] = b
    <3> HIDE DEF syms
    <3>1. QED
      BY <1>6, <2>2, <2>3, TwoMore
  <2>5. QED
    BY <1>3, <2>1, <2>2, <2>4 DEF IsNewBody
<1>12. NodesAreBlocks' /\ TablesAreRight'
  BY <1>1, <1>3, <1>4, <1>11, BeginningKeepsNodes
<1>13. RootIsRight'
  BY <1>1, <1>3, <1>4, RootIsKept
<1>14. TypeOK'
  BY <1>1, <1>4, <1>11, TextGrows DEF IInv, TypeOK
<1>15. QED
  BY <1>9, <1>12, <1>13, <1>14 DEF IInv

(* The aliases after one was given a type: one more, or one that had none. *)
AreWith(n, new) ==
  /\ new \in Seq([name : TypeIds, type : Int])
  /\ \A e \in ToSet(aliases) : e.type \in Structs => e \in ToSet(new)
  /\ \A i \in DOMAIN new : \/ new[i].name = n
                           \/ \E j \in DOMAIN aliases : new[i].name = aliases[j].name
  /\ \E i \in DOMAIN new : new[i].name = n
  /\ \A j \in DOMAIN aliases : \E i \in DOMAIN new : new[i].name = aliases[j].name
  /\ \A i, j \in DOMAIN new : new[i].name = new[j].name => i = j

LEMMA AliasedFacts ==
  ASSUME IInv, NEW n \in TypeIds, NEW type \in Int, ~IsAlias(n) \/ AliasType(n) = Unset,
         NEW new, new = Aliased(n, type)
  PROVE  AreWith(n, new)
<1> DEFINE E == [name : TypeIds, type : Int]
           r == [name |-> n, type |-> type]
<1>1. aliases \in Seq(E) /\ r \in E /\ r.name = n
  BY DEF IInv, TypeOK
<1>2. \A i, j \in DOMAIN aliases : aliases[i].name = aliases[j].name => i = j
  BY DEF IInv, RootIsRight
<1>3. CASE IsAlias(n)
  <2>1. PICK k \in DOMAIN aliases : First(aliases, n) = aliases[k] /\ aliases[k].name = n
    <3> HIDE DEF E
    <3>1. DOMAIN aliases = 1..Len(aliases) /\ Len(aliases) \in Nat
      BY <1>1
    <3>2. QED
      BY <1>3, <3>1, FirstHasName DEF IsAlias
  <2>2. aliases[k].type \notin Structs
    BY <1>3, <2>1, ConstantFacts DEF AliasType
  <2>3. DOMAIN aliases = 1..Len(aliases) /\ Len(aliases) \in Nat /\ \A i \in DOMAIN aliases : aliases[i] \in E
    <3> HIDE DEF E
    <3>1. QED
      BY <1>1
  <2>4. new = [i \in DOMAIN aliases |-> IF aliases[i].name = n THEN [aliases[i] EXCEPT !.type = type]
                                                                ELSE aliases[i]]
    BY <1>3 DEF Aliased
  <2>5. /\ DOMAIN new = DOMAIN aliases
        /\ \A i \in DOMAIN aliases : /\ new[i] \in E
                                     /\ new[i].name = aliases[i].name
                                     /\ aliases[i].name # n => new[i] = aliases[i]
    BY <2>3, <2>4
  <2>6. new \in Seq(E)
    <3> HIDE DEF E
    <3>1. \E N \in Nat : new \in [1..N -> E]
      <4>1. new \in [1..Len(aliases) -> E]
        BY <2>3, <2>4, <2>5
      <4>2. QED
        BY <2>3, <4>1
    <3>2. QED
      BY <3>1
  <2>7. ASSUME NEW e \in ToSet(aliases), e.type \in Structs
        PROVE  e \in ToSet(new)
    <3>1. PICK i \in DOMAIN aliases : e = aliases[i]
      BY DEF ToSet
    <3>2. aliases[i].name # n
      BY <1>2, <2>1, <2>2, <2>7, <3>1
    <3>3. QED
      BY <2>5, <3>1, <3>2 DEF ToSet
  <2>8. QED
    BY <1>2, <2>1, <2>5, <2>6, <2>7 DEF AreWith
<1>4. CASE ~IsAlias(n)
  <2>1. new = Append(aliases, r)
    BY <1>4 DEF Aliased
  <2>2. /\ new \in Seq(E) /\ DOMAIN aliases = 1..Len(aliases) /\ Len(aliases) \in Nat
        /\ DOMAIN new = 1..(Len(aliases) + 1) /\ new[Len(aliases) + 1] = r
        /\ \A i \in DOMAIN aliases : new[i] = aliases[i]
    <3> HIDE DEF E, r
    <3>1. QED
      BY <1>1, <2>1
  <2>3. \A i \in DOMAIN aliases : aliases[i].name # n
    BY <1>4 DEF IsAlias
  <2>4. \A i \in DOMAIN aliases : i \in DOMAIN new
    BY <2>2
  <2>5. \A i \in DOMAIN new : i \in DOMAIN aliases \/ i = Len(aliases) + 1
    BY <2>2
  <2>6. Len(aliases) + 1 \in DOMAIN new
    BY <2>2
  <2>7. \A e \in ToSet(aliases) : e \in ToSet(new)
    BY <2>2, <2>4 DEF ToSet
  <2>8. \A i, j \in DOMAIN new : new[i].name = new[j].name => i = j
    BY <1>1, <1>2, <2>2, <2>3, <2>5
  <2> HIDE DEF r
  <2>9. \A i \in DOMAIN new : \/ new[i].name = n
                              \/ \E j \in DOMAIN aliases : new[i].name = aliases[j].name
    BY <1>1, <2>2, <2>5
  <2>10. \E i \in DOMAIN new : new[i].name = n
    BY <1>1, <2>2, <2>6
  <2>11. \A j \in DOMAIN aliases : \E i \in DOMAIN new : new[i].name = aliases[j].name
    BY <2>2, <2>4
  <2>12. new \in Seq([name : TypeIds, type : Int])
    BY <2>2
  <2>13. QED
    BY <2>7, <2>8, <2>9, <2>10, <2>11, <2>12 DEF AreWith
<1>5. QED
  BY <1>3, <1>4

LEMMA DefineAliasKeepsIInv ==
  ASSUME IInv, NEW n \in TypeIds, NEW t, t \in TypeNames \cup {NoUse, Use(n, FALSE)}, DefineAlias(n, t)
  PROVE  IInv'
<1> DEFINE type == CASE t = NoUse -> Here
                     [] t = Use(n, FALSE) -> Unset
                     [] OTHER -> TypeOf(t)
<1>1. CASE IsAlias(n) /\ AliasType(n) # Unset
  BY <1>1, FailingKeepsIInv DEF DefineAlias
<1>2. CASE ~IsAlias(n) \/ AliasType(n) = Unset
  <2>1. /\ text' = Append(text, Item("alias", n, t, None, type, <<>>))
        /\ aliases' = Aliased(n, type)
        /\ called' = IF t \in {NoUse, Use(n, FALSE)} THEN called ELSE NowCalled(type, t.name)
        /\ scopes' = scopes /\ funcs' = funcs /\ stopped' = stopped
    BY <1>2 DEF DefineAlias
  <2>2. /\ n \in Ids /\ n # NoName /\ Use(n, FALSE) \in UseRecords /\ Use(n, FALSE) # NoUse
        /\ NoUse \in UseRecords /\ None \in Refs
    <3>1. n \in Ids /\ n # NoName /\ NoUse \in UseRecords /\ None \in Refs
      BY NamesAssumption, ConstantFacts DEF Ids
    <3>2. Use(n, FALSE) \in UseRecords
      BY <3>1, ConstantFacts
    <3>3. Use(n, FALSE).name = n /\ NoUse.name = NoName
      BY ConstantFacts DEF NoUse
    <3>4. QED
      BY <3>1, <3>2, <3>3
  <2>3. /\ t \in UseRecords
        /\ \/ t = NoUse /\ type = Here
           \/ t = Use(n, FALSE) /\ t # NoUse /\ type = Unset
           \/ t \in TypeNames /\ t \notin {NoUse, Use(n, FALSE)} /\ type = TypeOf(t)
    BY <2>2, TypeFacts
  <2>4. type \in Int
    <3> HIDE DEF type
    <3>1. Here \in Int /\ Unset \in Int
      BY ConstantFacts, StateFacts DEF IInv
    <3>2. t \in TypeNames => TypeOf(t) \in Int
      BY TypeFacts
    <3>3. QED
      BY <2>3, <3>1, <3>2
  <2> HIDE DEF type
  <2>5. PICK it : it = Item("alias", n, t, None, type, <<>>)
    OBVIOUS
  <2>6. /\ it \in Items /\ it.c = "alias" /\ it.name = n /\ it.use = t /\ it.ref = None
        /\ it.type = type
    BY <2>2, <2>3, <2>4, <2>5, BareItemFacts
  <2>7. Grows(it)
    BY <2>1, <2>5, <2>6 DEF Grows, IInv, TypeOK
  <2>8. ItemIsBuilt(it)
    BY <2>6 DEF ItemIsBuilt
  <2>9. ItemIsRight(it)
    BY <2>6, PlainItemIsRight DEF Openers, Closers
  <2>10. /\ aliases' \in Seq([name : TypeIds, type : Int])
         /\ \A e \in ToSet(aliases) : e.type \in Structs => e \in ToSet(aliases')
         /\ \A i \in DOMAIN aliases' : \/ aliases'[i].name = n
                                       \/ \E j \in DOMAIN aliases : aliases'[i].name = aliases[j].name
         /\ \E i \in DOMAIN aliases' : aliases'[i].name = n
         /\ \A j \in DOMAIN aliases : \E i \in DOMAIN aliases' : aliases'[i].name = aliases[j].name
         /\ \A i, j \in DOMAIN aliases' : aliases'[i].name = aliases'[j].name => i = j
    <3>1. PICK new : new = Aliased(n, type) /\ new = aliases'
      BY <2>1
    <3>2. PICK ty \in Int : new = Aliased(n, ty)
      BY <2>4, <3>1
    <3>3. AreWith(n, new)
      BY <1>2, <3>2, AliasedFacts
    <3>4. QED
      BY <3>1, <3>3 DEF AreWith
  <2>11. StructsAreKept
    BY <2>10 DEF StructsAreKept
  <2>12. LooksUpNone(it) \/ LooksUpAlias(it) \/ LooksUpOwn(it)
    <3>1. CASE t = NoUse
      BY <2>1, <2>6, <3>1 DEF LooksUpNone
    <3>2. CASE t = Use(n, FALSE) /\ type = Unset
      BY <2>1, <2>6, <3>2, ConstantFacts DEF LooksUpNone
    <3>3. CASE t \in TypeNames /\ t \notin {NoUse, Use(n, FALSE)} /\ type = TypeOf(t)
      BY <2>1, <2>6, <2>11, <3>3, LookUpIsRight
    <3>4. QED
      BY <2>3, <3>1, <3>2, <3>3
  <2>13. ItemsAreBuilt' /\ TextIsRight' /\ NamesOfTypes'
    BY <2>7, <2>8, <2>9, <2>11, <2>12, GrowingKeepsRest
  <2>14. NodesAreBlocks' /\ TablesAreRight'
    BY <2>1, <2>6, <2>7, PlainKeepsNodes DEF Openers, Closers
  <2>15. RootIsRight'
    <3>1. /\ DOMAIN text = 1..(Here - 1) /\ DOMAIN text' = 1..Here /\ Here \in Nat \ {0}
          /\ text'[Here] = it /\ \A k \in DOMAIN text : text'[k] = text[k]
      BY <2>7, ItemsAreKept
    <3>2. Here \in DOMAIN text' /\ \A k \in DOMAIN text : k \in DOMAIN text'
      BY <3>1
    <3>3. \A k \in DOMAIN text' : k \in DOMAIN text \/ k = Here
      BY <3>1
    <3>4. ASSUME NEW i \in DOMAIN funcs
          PROVE  \E q \in DOMAIN text' : IsFunc(q)' /\ funcs[i] = Ref("func", text'[q].name, q)
      BY <3>1, <3>2 DEF IInv, RootIsRight, IsFunc
    <3>5. ASSUME NEW i \in DOMAIN aliases'
          PROVE  \E q \in DOMAIN text' : text'[q].c = "alias" /\ text'[q].name = aliases'[i].name
      <4>1. CASE aliases'[i].name = n
        BY <2>6, <3>1, <3>2, <4>1
      <4>2. ASSUME NEW j \in DOMAIN aliases, aliases'[i].name = aliases[j].name
            PROVE  \E q \in DOMAIN text' : text'[q].c = "alias" /\ text'[q].name = aliases'[i].name
        BY <3>1, <3>2, <4>2 DEF IInv, RootIsRight
      <4>3. QED
        BY <2>10, <4>1, <4>2
    <3>6. ASSUME NEW q \in DOMAIN text', text'[q].c = "alias"
          PROVE  \E i \in DOMAIN aliases' : aliases'[i].name = text'[q].name
      <4>1. CASE q = Here
        BY <2>6, <2>10, <3>1, <4>1
      <4>2. CASE q \in DOMAIN text
        <5>1. PICK j \in DOMAIN aliases : aliases[j].name = text[q].name
          BY <3>1, <3>6, <4>2 DEF IInv, RootIsRight
        <5>2. QED
          BY <2>10, <3>1, <4>2, <5>1
      <4>3. QED
        BY <3>3, <4>1, <4>2
    <3>7. QED
      BY <2>1, <2>10, <3>4, <3>5, <3>6 DEF RootIsRight
  <2>16. called' \in [Structs -> Ids]
    <3>1. t.name \in Ids
      BY <2>3 DEF UseRecords
    <3>2. QED
      BY <2>1, <3>1, NowCalledIsTyped DEF IInv, TypeOK
  <2>17. TypeOK'
    BY <2>1, <2>7, <2>10, <2>16, TextGrows DEF IInv, TypeOK
  <2>18. QED
    BY <2>13, <2>14, <2>15, <2>17 DEF IInv
<1>3. QED
  BY <1>1, <1>2

LEMMA InitIsRight == Init => IInv
<1> SUFFICES ASSUME Init PROVE IInv
  OBVIOUS
<1>1. /\ text = <<>> /\ Len(text) = 0 /\ DOMAIN text = {} /\ Here = 1
      /\ funcs = <<>> /\ aliases = <<>> /\ stopped = FALSE
  BY DEF Init, Here
<1>2. PICK s : s = NewScope("root", NoName, 0, <<>>)
  OBVIOUS
<1>3. s \in Scopes /\ s.kind = "root" /\ s.syms = <<>>
  BY <1>2, EmptyTable, ConstantFacts DEF NewScope, Scopes
<1>4. /\ scopes = <<s>> /\ scopes \in Seq(Scopes) /\ Len(scopes) = 1 /\ DOMAIN scopes = {1}
      /\ scopes[1] = s
  BY <1>2, <1>3 DEF Init
<1>5. called \in [Structs -> Ids] /\ called[OwnType] = ModuleType
  BY ConstantFacts DEF Init
<1>6. TypeOK
  <2>1. /\ <<>> \in Seq(Refs) /\ <<>> \in Seq([name : TypeIds, type : Int])
        /\ <<>> \in Seq(Items)
    OBVIOUS
  <2>2. QED
    BY <1>1, <1>4, <1>5, <2>1 DEF TypeOK
<1>7. Depth(Here) = 0
  BY <1>1, DepthAtStart
<1>8. ItemsAreBuilt
  BY <1>1 DEF ItemsAreBuilt
<1>9. TextIsRight
  <2>1. 1..Here = {1}
    BY <1>1
  <2>2. \A p \in 1..Here : Depth(p) >= 0
    BY <1>1, <1>7, <2>1
  <2>3. QED
    BY <1>1, <2>2 DEF TextIsRight
<1>10. NodesAreBlocks
  BY <1>3, <1>4, <1>7 DEF NodesAreBlocks, LevelOf
<1>11. TablesAreRight
  BY <1>1, <1>3, <1>4 DEF TablesAreRight, RightTable
<1>12. RootIsRight
  BY <1>1 DEF RootIsRight
<1>13. NamesOfTypes
  BY <1>1, <1>5, NamesOfTypesFacts
<1>14. QED
  BY <1>6, <1>8, <1>9, <1>10, <1>11, <1>12, <1>13 DEF IInv

LEMMA NextKeepsIInv == IInv /\ [Next]_vars => IInv'
<1> SUFFICES ASSUME IInv, [Next]_vars PROVE IInv'
  OBVIOUS
<1>1. ASSUME NEW n \in TypeIds, NEW t \in TypeNames \cup {NoUse}, DefineAlias(n, t)
      PROVE  IInv'
  BY <1>1, DefineAliasKeepsIInv
<1>2. ASSUME NEW n \in TypeIds, DefineAlias(n, Use(n, FALSE))
      PROVE  IInv'
  BY <1>2, DefineAliasKeepsIInv
<1>3. ASSUME NEW n \in VarIds, NEW t \in TypeNames, DeclareTyped(n, t)
      PROVE  IInv'
  BY <1>3, DeclareTypedKeepsIInv
<1>4. ASSUME NEW n \in VarIds, NEW use \in Uses, DeclareInit(n, use)
      PROVE  IInv'
  BY <1>4, DeclareInitKeepsIInv
<1>5. ASSUME NEW n \in FuncIds, BeginFunc(n, <<>>)
      PROVE  IInv'
  <2>1. PICK params \in Seq(VarIds) : params = <<>>
    <3>1. <<>> \in Seq(VarIds)
      OBVIOUS
    <3>2. QED
      BY <3>1
  <2>2. BeginFunc(n, params)
    BY <1>5, <2>1
  <2>3. QED
    BY <2>2, BeginFuncKeepsIInv
<1>6. ASSUME NEW n \in FuncIds, NEW p \in VarIds, BeginFunc(n, <<p>>)
      PROVE  IInv'
  <2>1. PICK params \in Seq(VarIds) : params = <<p>>
    <3>1. <<p>> \in Seq(VarIds)
      OBVIOUS
    <3>2. QED
      BY <3>1
  <2>2. BeginFunc(n, params)
    BY <1>6, <2>1
  <2>3. QED
    BY <2>2, BeginFuncKeepsIInv
<1>7. CASE Open
  BY <1>7, OpenKeepsIInv
<1>8. CASE Close
  BY <1>8, CloseKeepsIInv
<1>9. ASSUME NEW use \in Uses, Refer(use)
      PROVE  IInv'
  BY <1>9, ReferKeepsIInv
<1>10. CASE UNCHANGED vars
  BY <1>10, StutteringKeepsIInv DEF vars, IInv, TypeOK
<1>11. QED
  BY <1>1, <1>2, <1>3, <1>4, <1>5, <1>6, <1>7, <1>8, <1>9, <1>10 DEF Next

(* Blocks nest, and the parser's nodes are those open at the end of the    *)
(* text, with the variables of each: what the properties rest on.          *)
THEOREM NodesFollowText == Spec => []IInv
<1>1. QED
  BY InitIsRight, NextKeepsIInv, PTL DEF Spec

(* Every variable of a structure is written with a name that the file has  *)
(* an alias of this structure for, or with m's own.                        *)
THEOREM StructuresAreDeclared == Spec => []TypeNamesDeclared
<1>1. IInv => TypeNamesDeclared
  BY DEF IInv, NamesOfTypes
<1>2. QED
  BY <1>1, NodesFollowText, PTL

-----------------------------------------------------------------------------
(* The text as C.                                                          *)

LEMMA DeclarationFields ==
  ASSUME NEW r, NEW depth
  PROVE  InC(r, depth).ref = r /\ InC(r, depth).depth = depth
BY DEF InC

(* What C declares, by what it is.                                         *)
OfSort(d, sort) ==
  /\ d = InC(Ref(sort, d.ref.name, d.ref.at), d.depth)
  /\ d.ref.sort = sort
  /\ d.ref.at \in Nat /\ d.depth \in Int

IsModules(d) == OfSort(d, "module") /\ d.ref.at = 0 /\ d.depth = 0

IsTypes(d) == /\ OfSort(d, "type") /\ d.ref.at = 0 /\ d.depth = 0
              /\ \E i \in DOMAIN aliases : aliases[i].name = d.ref.name

IsTexts(d, sort) == /\ OfSort(d, sort)
                    /\ d.ref.at \in DOMAIN text /\ text[d.ref.at].c = sort
                    /\ d.ref.name = text[d.ref.at].name /\ d.depth = Depth(d.ref.at)

IsParams(d) == /\ OfSort(d, "param")
               /\ d.ref.at \in DOMAIN text /\ text[d.ref.at].c = "func"
               /\ text[d.ref.at].name # "main"
               /\ d.ref.name \in ToSet(text[d.ref.at].params) /\ d.depth = 1

LEMMA DeclarationKinds ==
  ASSUME IInv, NEW d \in CDeclarations
  PROVE  IsModules(d) \/ IsTypes(d) \/ IsTexts(d, "var") \/ IsTexts(d, "func") \/ IsParams(d)
<1>1. /\ DOMAIN text = 1..Len(text) /\ Len(text) \in Nat
      /\ \A p \in DOMAIN text : p \in Nat /\ Depth(p) \in Int
  BY StateFacts DEF IInv
<1>2. ASSUME NEW n, d = InC(OfModule(n), 0)
      PROVE  IsModules(d)
  BY <1>2, RefFields, DeclarationFields DEF IsModules, OfSort, OfModule
<1>3. ASSUME NEW a \in ToSet(aliases), d = InC(Ref("type", a.name, 0), 0)
      PROVE  IsTypes(d)
  <2>1. PICK i \in DOMAIN aliases : a = aliases[i]
    BY DEF ToSet
  <2>2. QED
    BY <1>3, <2>1, RefFields, DeclarationFields DEF IsTypes, OfSort
<1>4. ASSUME NEW p \in DOMAIN text, text[p].c \in {"var", "func"},
             d = InC(Ref(text[p].c, text[p].name, p), Depth(p))
      PROVE  IsTexts(d, text[p].c)
  BY <1>1, <1>4, RefFields, DeclarationFields DEF IsTexts, OfSort
<1>5. ASSUME NEW p \in DOMAIN text, text[p].c = "func", NEW n \in CParams(p),
             d = InC(Ref("param", n, p), 1)
      PROVE  IsParams(d)
  <2>1. text[p].name # "main" /\ n \in ToSet(text[p].params)
    BY DEF CParams
  <2>2. QED
    BY <1>1, <1>5, <2>1, RefFields, DeclarationFields DEF IsParams, OfSort
<1>6. \/ \E n \in ModuleNames \cup {ModuleType} : d = InC(OfModule(n), 0)
      \/ \E a \in ToSet(aliases) : d = InC(Ref("type", a.name, 0), 0)
      \/ \E p \in DOMAIN text : /\ text[p].c \in {"var", "func"}
                                /\ d = InC(Ref(text[p].c, text[p].name, p), Depth(p))
      \/ \E p \in DOMAIN text : /\ text[p].c = "func"
                                /\ \E n \in CParams(p) : d = InC(Ref("param", n, p), 1)
  BY DEF CDeclarations
<1>7. QED
  BY <1>2, <1>3, <1>4, <1>5, <1>6

LEMMA TextIsDeclared ==
  ASSUME NEW p \in DOMAIN text
  PROVE  /\ text[p].c \in {"var", "func"} =>
              InC(Ref(text[p].c, text[p].name, p), Depth(p)) \in CDeclarations
         /\ \A n \in CParams(p) : text[p].c = "func" => InC(Ref("param", n, p), 1) \in CDeclarations
BY DEF CDeclarations

LEMMA SameDeclaration ==
  ASSUME NEW d, NEW e, NEW sort, OfSort(d, sort), OfSort(e, sort),
         d.ref.name = e.ref.name, d.ref.at = e.ref.at, d.depth = e.depth
  PROVE  d = e
BY DEF OfSort

LEMMA SortIsOne ==
  ASSUME NEW d
  PROVE  /\ IsModules(d) => d.ref.sort = "module"
         /\ IsTypes(d) => d.ref.sort = "type"
         /\ IsTexts(d, "var") => d.ref.sort = "var"
         /\ IsTexts(d, "func") => d.ref.sort = "func"
         /\ IsParams(d) => d.ref.sort = "param"
BY DEF IsModules, IsTypes, IsTexts, IsParams, OfSort

(* C declares a name once in a block, but for what the parser leaves to C. *)
THEOREM NamesAreDeclaredOnce == Spec => []OncePerBlock
<1>1. ASSUME IInv, NEW d \in CDeclarations, NEW e \in CDeclarations, Twice(d, e)
      PROVE  LET sorts == {d.ref.sort, e.ref.sort}
             IN  \/ "func" \in sorts
                 \/ sorts = {"param", "var"}
                 \/ "module" \in sorts
                 \/ /\ sorts = {"type", "var"}
                    /\ \E p \in (e.ref.at + 1)..Len(text) :
                         text[p].c = "alias" /\ text[p].name = e.ref.name
  <2>1. /\ d # e /\ d.ref.name = e.ref.name /\ d.depth = e.depth /\ d.ref.at <= e.ref.at
        /\ \A q \in (d.ref.at + 1)..e.ref.at : Depth(q) >= d.depth
    BY <1>1 DEF Twice, InBlock
  <2>2. DOMAIN text = 1..Len(text) /\ Len(text) \in Nat /\ \A q \in DOMAIN text : Depth(q) \in Int
    BY <1>1, StateFacts DEF IInv
  <2>3. CASE IsTexts(d, "var") /\ IsTexts(e, "var")
    <3>1. d.ref.at # e.ref.at
      BY <2>1, <2>3, SameDeclaration DEF IsTexts
    <3>2. /\ d.ref.at \in DOMAIN text /\ e.ref.at \in DOMAIN text
          /\ text[d.ref.at].c = "var" /\ text[e.ref.at].c = "var"
          /\ text[d.ref.at].name = text[e.ref.at].name
          /\ d.depth = Depth(d.ref.at) /\ e.depth = Depth(e.ref.at)
      BY <2>1, <2>3 DEF IsTexts
    <3>3. d.ref.at < e.ref.at
      BY <2>1, <2>2, <3>1, <3>2
    <3>4. StillOpen(d.ref.at, e.ref.at)
      BY <2>1, <3>2 DEF StillOpen
    <3>5. QED
      BY <1>1, <2>1, <3>2, <3>3, <3>4 DEF IInv, TextIsRight
  <2>4. CASE IsParams(d) /\ IsParams(e)
    <3>1. d.ref.at # e.ref.at
      BY <2>1, <2>4, SameDeclaration DEF IsParams
    <3>2. /\ d.ref.at \in DOMAIN text /\ e.ref.at \in DOMAIN text
          /\ text[e.ref.at].c = "func" /\ d.depth = 1
      BY <2>4 DEF IsParams
    <3>3. e.ref.at \in (d.ref.at + 1)..e.ref.at
      BY <2>1, <2>2, <3>1, <3>2
    <3>4. Depth(e.ref.at) >= 1
      BY <2>1, <3>2, <3>3
    <3>5. Depth(e.ref.at) = 0
      BY <1>1, <3>2 DEF IInv, TextIsRight
    <3>6. QED
      BY <3>4, <3>5
  <2>5. CASE IsTypes(d) /\ IsTypes(e)
    BY <2>1, <2>5, SameDeclaration DEF IsTypes
  <2>6. CASE (IsTypes(d) /\ IsParams(e)) \/ (IsParams(d) /\ IsTypes(e))
    BY <2>1, <2>6 DEF IsTypes, IsParams
  <2>7. CASE IsTexts(d, "var") /\ IsTypes(e)
    BY <2>1, <2>2, <2>7 DEF IsTypes, IsTexts
  <2>8. CASE IsTypes(d) /\ IsTexts(e, "var")
    <3>1. d.ref.sort = "type" /\ e.ref.sort = "var"
      BY <2>8, SortIsOne
    <3>2. /\ e.ref.at \in DOMAIN text /\ text[e.ref.at].c = "var"
          /\ text[e.ref.at].name = e.ref.name
      BY <2>8 DEF IsTexts
    <3>3. PICK i \in DOMAIN aliases : aliases[i].name = e.ref.name
      BY <2>1, <2>8 DEF IsTypes
    <3>4. PICK q \in DOMAIN text : text[q].c = "alias" /\ text[q].name = e.ref.name
      BY <1>1, <3>3 DEF IInv, RootIsRight
    <3>5. ~(q < e.ref.at) /\ q # e.ref.at
      BY <1>1, <3>2, <3>4 DEF IInv, TextIsRight
    <3>6. q \in (e.ref.at + 1)..Len(text)
      BY <2>2, <3>2, <3>5
    <3>7. QED
      BY <3>1, <3>4, <3>6
  <2>9. QED
    BY <1>1, <2>3, <2>4, <2>5, <2>6, <2>7, <2>8, SortIsOne, DeclarationKinds
<1>2. IInv => OncePerBlock
  BY <1>1 DEF OncePerBlock
<1>3. QED
  BY <1>2, NodesFollowText, PTL

(* Of the declarations of a name that C finds at p, the deepest is one.    *)
Visible(d, n, p) == /\ d \in CDeclarations
                    /\ d.ref.name = n /\ d.ref.at <= p /\ InBlock(d, p)

NoneTwice == \A d, e \in CDeclarations : ~Twice(d, e)

LEMMA DepthIsBounded ==
  ASSUME NEW p \in Nat \ {0}
  PROVE  Depth(p) <= p
<1> DEFINE Q == {q \in 1..(p - 1) : text[q].c \in {"func", "open"}}
           C == {q \in 1..(p - 1) : text[q].c = "close"}
<1>1. /\ IsFiniteSet(1..(p - 1)) /\ Cardinality(1..(p - 1)) = p - 1
      /\ Q \in SUBSET (1..(p - 1)) /\ C \in SUBSET (1..(p - 1))
  BY FS_Interval
<1>2. /\ IsFiniteSet(Q) /\ IsFiniteSet(C) /\ Cardinality(Q) <= p - 1
  BY <1>1, FS_Subset
<1>3. Cardinality(Q) \in Nat /\ Cardinality(C) \in Nat
  BY <1>2, FS_CardinalityType
<1>4. Depth(p) = Cardinality(Q) - Cardinality(C)
  BY DEF Depth
<1> HIDE DEF Q, C
<1>5. QED
  BY <1>2, <1>3, <1>4

LEMMA OneIsDeepest ==
  ASSUME IInv, NoneTwice, NEW n, NEW p \in Nat, NEW d, NEW e, Visible(d, n, p), Visible(e, n, p),
         d.depth = e.depth
  PROVE  d = e
<1>1. d.ref.at \in Nat /\ e.ref.at \in Nat
  BY DeclarationKinds DEF Visible, IsModules, IsTypes, IsTexts, IsParams, OfSort
<1>2. CASE d.ref.at <= e.ref.at
  <2>1. InBlock(d, e.ref.at)
    BY <1>1, <1>2 DEF Visible, InBlock
  <2>2. ~Twice(d, e)
    BY DEF NoneTwice, Visible
  <2>3. QED
    BY <1>2, <2>1, <2>2 DEF Twice, Visible
<1>3. CASE e.ref.at <= d.ref.at
  <2>1. InBlock(e, d.ref.at)
    BY <1>1, <1>3 DEF Visible, InBlock
  <2>2. ~Twice(e, d)
    BY DEF NoneTwice, Visible
  <2>3. QED
    BY <1>3, <2>1, <2>2 DEF Twice, Visible
<1>4. QED
  BY <1>1, <1>2, <1>3

(* e is the deepest.                                                       *)
Deepest(e, n, p) == Visible(e, n, p) /\ \A d \in CDeclarations : Visible(d, n, p) => d.depth <= e.depth

LEMMA CFindsDeepest ==
  ASSUME IInv, NoneTwice, NEW n, NEW p \in Nat
  PROVE  \/ CRef(n, p) = None /\ \A d : ~Visible(d, n, p)
         \/ \E e \in CDeclarations : CRef(n, p) = e.ref /\ Deepest(e, n, p)
<1> DEFINE visible == {d \in CDeclarations : /\ d.ref.name = n
                                             /\ d.ref.at <= p
                                             /\ InBlock(d, p)}
           depths == {d.depth : d \in visible}
<1>1. CRef(n, p) = IF visible = {} THEN None
                   ELSE (CHOOSE d \in visible : d.depth = Max(depths)).ref
  BY DEF CRef
<1>2. \A d : d \in visible <=> Visible(d, n, p)
  BY DEF Visible
<1>3. CASE visible = {}
  BY <1>1, <1>2, <1>3
<1>4. CASE visible # {}
  <2>1. PICK b \in Nat : b = Len(text) + 1
    BY StateFacts DEF IInv
  <2>2. ASSUME NEW d \in CDeclarations
        PROVE  d.depth \in Int /\ d.depth <= b
    <3>1. DOMAIN text = 1..Len(text) /\ Len(text) \in Nat
      BY StateFacts DEF IInv
    <3>2. \A q \in DOMAIN text : Depth(q) \in Int /\ Depth(q) <= b
      <4>1. ASSUME NEW q \in DOMAIN text
            PROVE  Depth(q) \in Int /\ Depth(q) <= b
        <5>1. q \in Nat \ {0} /\ q <= b
          BY <2>1, <3>1
        <5>2. Depth(q) \in Int /\ Depth(q) <= q
          BY <5>1, DepthStep, DepthIsBounded
        <5>3. QED
          BY <5>1, <5>2
      <4>2. QED
        BY <4>1
    <3>3. b >= 1
      BY <2>1, <3>1
    <3>4. QED
      BY <3>2, <3>3, DeclarationKinds DEF IsModules, IsTypes, IsTexts, IsParams
  <2>3. depths \in SUBSET Int /\ depths # {} /\ \A x \in depths : x <= b
    BY <1>4, <2>2
  <2>4. Max(depths) \in depths /\ \A x \in depths : x <= Max(depths)
    <3>1. PICK S : S = depths
      OBVIOUS
    <3>2. S \in SUBSET Int /\ S # {} /\ b \in Int /\ \A x \in S : x <= b
      BY <2>1, <2>3, <3>1
    <3>3. Max(S) \in S /\ \A x \in S : x <= Max(S)
      BY <3>2, GreatestExists
    <3> HIDE DEF depths
    <3>4. QED
      BY <3>1, <3>3
  <2> HIDE DEF depths
  <2>5. \E d \in visible : d.depth = Max(depths)
    BY <2>4 DEF depths
  <2>6. PICK e \in visible : /\ e = CHOOSE d \in visible : d.depth = Max(depths)
                             /\ e.depth = Max(depths)
    <3> HIDE DEF visible
    <3>1. QED
      BY <2>5
  <2>7. \A d \in visible : d.depth <= e.depth
    BY <2>4, <2>6 DEF depths
  <2>8. CRef(n, p) = e.ref
    <3> HIDE DEF visible
    <3>1. QED
      BY <1>1, <1>4, <2>6
  <2>9. Deepest(e, n, p) /\ e \in CDeclarations
    BY <1>2, <2>6, <2>7 DEF Deepest
  <2>10. QED
    BY <2>8, <2>9
<1>5. QED
  BY <1>3, <1>4

(* A declaration that none is deeper than is found.                        *)
LEMMA DeepestIsFound ==
  ASSUME IInv, NoneTwice, NEW n, NEW p \in Nat, NEW d \in CDeclarations, Deepest(d, n, p)
  PROVE  CRef(n, p) = d.ref
<1>1. PICK e \in CDeclarations : CRef(n, p) = e.ref /\ Deepest(e, n, p)
  BY CFindsDeepest DEF Deepest
<1>2. d.depth \in Int /\ e.depth \in Int
  BY DeclarationKinds DEF IsModules, IsTypes, IsTexts, IsParams, OfSort
<1>3. d.depth = e.depth
  BY <1>1, <1>2 DEF Deepest
<1>4. QED
  BY <1>1, <1>3, OneIsDeepest DEF Deepest

(* What the parser found at p is what C finds there, or not.               *)
LEMMA VisibleKinds ==
  ASSUME IInv, NEW n, NEW p \in DOMAIN text, NEW d, Visible(d, n, p), text[p].c # "func",
         text[p].name # n
  PROVE  /\ d.depth \in Int /\ d.ref.at \in Nat /\ d.ref.at < p
         /\ \/ d.depth = 0 /\ (IsModules(d) \/ IsTypes(d) \/ IsTexts(d, "func"))
            \/ IsTexts(d, "var") /\ Hides(n, d.ref.at, p) /\ d.depth = Depth(d.ref.at)
            \/ IsParams(d) /\ HasParam(n, d.ref.at, p) /\ d.depth = 1
<1>1. /\ DOMAIN text = 1..Len(text) /\ Len(text) \in Nat
      /\ \A q \in DOMAIN text : Depth(q) \in Int
  BY StateFacts DEF IInv
<1>2. /\ d \in CDeclarations /\ d.ref.name = n /\ d.ref.at <= p
      /\ \A q \in (d.ref.at + 1)..p : Depth(q) >= d.depth
  BY DEF Visible, InBlock
<1>3. CASE IsModules(d) \/ IsTypes(d)
  BY <1>1, <1>3 DEF IsModules, IsTypes, OfSort
<1>4. CASE IsTexts(d, "func")
  <2>1. /\ d.ref.at \in DOMAIN text /\ text[d.ref.at].c = "func" /\ d.depth = Depth(d.ref.at)
    BY <1>4 DEF IsTexts
  <2>2. Depth(d.ref.at) = 0
    BY <2>1 DEF IInv, TextIsRight
  <2>3. d.ref.at # p
    BY <2>1
  <2>4. QED
    BY <1>1, <1>2, <1>4, <2>1, <2>2, <2>3
<1>5. CASE IsTexts(d, "var")
  <2>1. /\ d.ref.at \in DOMAIN text /\ text[d.ref.at].c = "var" /\ d.depth = Depth(d.ref.at)
        /\ text[d.ref.at].name = n
    BY <1>2, <1>5 DEF IsTexts
  <2>2. d.ref.at # p
    BY <2>1
  <2>3. d.ref.at < p /\ d.ref.at \in Nat /\ d.depth \in Int
    BY <1>1, <1>2, <2>1, <2>2
  <2>4. StillOpen(d.ref.at, p)
    BY <1>2, <2>1 DEF StillOpen
  <2>5. QED
    BY <1>5, <2>1, <2>3, <2>4 DEF Hides, IsVar
<1>6. CASE IsParams(d)
  <2>1. /\ d.ref.at \in DOMAIN text /\ text[d.ref.at].c = "func" /\ d.depth = 1
        /\ n \in ToSet(text[d.ref.at].params)
    BY <1>2, <1>6 DEF IsParams
  <2>2. d.ref.at # p
    BY <2>1
  <2>3. d.ref.at < p /\ d.ref.at \in Nat
    BY <1>1, <1>2, <2>1, <2>2
  <2>4. \A q \in (d.ref.at + 1)..p : Depth(q) > 0
    <3>1. ASSUME NEW q \in (d.ref.at + 1)..p
          PROVE  Depth(q) > 0
      <4>1. q \in DOMAIN text
        BY <1>1, <2>1
      <4>2. Depth(q) \in Int /\ Depth(q) >= 1
        BY <1>1, <1>2, <2>1, <4>1
      <4>3. QED
        BY <4>2
    <3>2. QED
      BY <3>1
  <2>5. QED
    BY <1>6, <2>1, <2>3, <2>4 DEF HasParam, Enclosed, IsFunc
<1>7. QED
  BY <1>2, <1>3, <1>4, <1>5, <1>6, DeclarationKinds

(* A declaration at depth 0 is visible wherever it was made before.        *)
LEMMA FileScope ==
  ASSUME IInv, NEW p \in DOMAIN text, NEW d \in CDeclarations, d.depth = 0,
         d.ref.at \in Nat, d.ref.at <= p
  PROVE  Visible(d, d.ref.name, p)
<1>1. \A q \in (d.ref.at + 1)..p : q \in 1..Here
  BY StateFacts DEF IInv
<1>2. QED
  BY <1>1 DEF Visible, InBlock, IInv, TextIsRight

(* A variable in its own value: C has the new one already.                 *)
LEMMA OwnValue ==
  ASSUME IInv, NoneTwice, NEW p \in DOMAIN text, NEW r,
         Found(text[p].use, r, p), text[p].c = "var", text[p].name = text[p].use.name
  PROVE  CRef(text[p].use.name, p) # r
<1> DEFINE n == text[p].use.name
           d == InC(Ref("var", n, p), Depth(p))
<1>1. /\ p \in Nat /\ p >= 1 /\ Depth(p) \in Int
  BY StateFacts DEF IInv
<1>2. d \in CDeclarations /\ d.ref = Ref("var", n, p) /\ d.depth = Depth(p)
  BY TextIsDeclared, DeclarationFields
<1>3. d.ref.at = p /\ d.ref.name = n
  BY <1>2, RefFields
<1> HIDE DEF d
<1>4. Visible(d, n, p)
  BY <1>1, <1>2, <1>3 DEF Visible, InBlock
<1>5. ASSUME NEW e \in CDeclarations, Visible(e, n, p)
      PROVE  e.depth <= d.depth
  <2>1. e.ref.at \in Nat /\ e.depth \in Int
    BY DeclarationKinds DEF IsModules, IsTypes, IsTexts, IsParams, OfSort
  <2>2. CASE e.ref.at = p
    <3>1. IsTexts(e, "var") \/ e.ref.at = 0 \/ text[p].c = "func"
      BY <2>2, DeclarationKinds DEF IsModules, IsTypes, IsTexts, IsParams
    <3>2. IsTexts(e, "var")
      BY <1>1, <2>2, <3>1
    <3>3. QED
      BY <1>1, <1>2, <2>2, <3>2 DEF IsTexts
  <2>3. CASE e.ref.at # p
    <3>1. p \in (e.ref.at + 1)..p
      BY <1>1, <1>5, <2>1, <2>3 DEF Visible
    <3>2. Depth(p) >= e.depth
      BY <1>5, <3>1 DEF Visible, InBlock
    <3>3. QED
      BY <1>1, <1>2, <2>1, <3>2
  <2>4. QED
    BY <2>2, <2>3
<1>6. CRef(n, p) = Ref("var", n, p)
  BY <1>1, <1>2, <1>4, <1>5, DeepestIsFound DEF Deepest
<1>7. r.at # p
  <2>1. \A q \in 1..(p - 1) : q # p
    BY <1>1
  <2>2. OfModule(n).at # p
    BY <1>1, RefFields DEF OfModule
  <2>3. \A q \in 1..(p - 1) : /\ Ref("var", n, q).at # p /\ Ref("param", n, q).at # p
                              /\ Ref("func", n, q).at # p
    BY <2>1, RefFields
  <2>4. QED
    BY <2>2, <2>3 DEF Found, FoundVar, FoundParam, FoundFunc
<1>8. QED
  BY <1>6, <1>7, RefFields

(* A name of m's is m's in C where no block has its own.                   *)
LEMMA MembersAgree ==
  ASSUME IInv, NoneTwice, NEW p \in DOMAIN text, NEW n, text[p].c # "func",
         text[p].name # n, n \in ModuleNames
  PROVE  CRef(n, p) = OfModule(n) <=> ~LocalBefore(n, p)
<1> DEFINE d == InC(OfModule(n), 0)
<1>1. p \in Nat /\ p >= 1
  BY StateFacts DEF IInv
<1>2. d \in CDeclarations /\ d.ref = OfModule(n) /\ d.depth = 0
  BY DeclarationFields DEF CDeclarations
<1>3. d.ref.at = 0 /\ d.ref.name = n /\ OfModule(n).sort = "module"
  BY <1>2, RefFields DEF OfModule
<1> HIDE DEF d
<1>4. Visible(d, n, p)
  BY <1>1, <1>2, <1>3, FileScope
<1>5. ASSUME ~LocalBefore(n, p)
      PROVE  CRef(n, p) = OfModule(n)
  <2>1. ASSUME NEW e \in CDeclarations, Visible(e, n, p)
        PROVE  e.depth <= d.depth
    <3>1. e.depth \in Int /\ e.ref.at < p
      BY <2>1, VisibleKinds
    <3>2. ~(e.depth > 0)
      BY <1>5, <2>1, <3>1 DEF LocalBefore, Visible
    <3>3. QED
      BY <1>2, <3>1, <3>2
  <2>2. QED
    BY <1>1, <1>2, <1>4, <2>1, DeepestIsFound DEF Deepest
<1>6. ASSUME NEW f \in CDeclarations, f.ref.name = n, f.depth > 0, f.ref.at < p, InBlock(f, p)
      PROVE  CRef(n, p) # OfModule(n)
  <2>1. Visible(f, n, p)
    <3>1. f.ref.at \in Nat
      BY DeclarationKinds DEF IsModules, IsTypes, IsTexts, IsParams, OfSort
    <3>2. QED
      BY <1>1, <1>6, <3>1 DEF Visible
  <2>2. PICK e \in CDeclarations : CRef(n, p) = e.ref /\ Deepest(e, n, p)
    BY <1>1, <2>1, CFindsDeepest
  <2>3. e.depth >= f.depth /\ e.depth \in Int /\ f.depth \in Int
    BY <2>1, <2>2, VisibleKinds DEF Deepest
  <2>4. ~IsModules(e)
    BY <1>6, <2>3 DEF IsModules
  <2>5. e.ref.sort # "module"
    BY <2>4, DeclarationKinds, SortIsOne
  <2>6. QED
    BY <1>3, <2>2, <2>5
<1>7. QED
  BY <1>5, <1>6 DEF LocalBefore

LEMMA VariablesAgree ==
  ASSUME IInv, NoneTwice, NEW p \in DOMAIN text, NEW n, NEW r, text[p].c # "func",
         text[p].name # n, FoundVar(n, r, p)
  PROVE  CRef(n, p) = r /\ r.sort = "var"
<1>1. PICK q \in 1..(p - 1) : /\ Hides(n, q, p)
                              /\ r = Ref("var", n, q)
                              /\ \A k \in 1..(p - 1) : Hides(n, k, p) => Depth(k) <= Depth(q)
                              /\ Depth(q) = 0 => \A k \in 1..(p - 1) : ~HasParam(n, k, p)
  BY DEF FoundVar
<1>2. /\ p \in Nat /\ q \in Nat /\ q < p /\ q \in DOMAIN text /\ Depth(q) \in Int /\ Depth(q) >= 0
  <2>1. DOMAIN text = 1..Len(text) /\ Len(text) \in Nat /\ \A k \in 1..Here : Depth(k) \in Int
    BY StateFacts DEF IInv
  <2>2. q \in 1..Here
    BY <2>1, StateFacts DEF IInv
  <2>3. QED
    BY <2>1, <2>2 DEF IInv, TextIsRight
<1>3. PICK d : d = InC(Ref("var", n, q), Depth(q))
  OBVIOUS
<1>4. text[q].c = "var" /\ text[q].name = n /\ StillOpen(q, p)
  BY <1>1 DEF Hides, IsVar
<1>5. d \in CDeclarations /\ d.ref = r /\ d.depth = Depth(q) /\ r.at = q /\ r.name = n /\ r.sort = "var"
  BY <1>1, <1>2, <1>3, <1>4, TextIsDeclared, DeclarationFields, RefFields
<1>6. Visible(d, n, p)
  BY <1>2, <1>4, <1>5 DEF Visible, InBlock, StillOpen
<1>7. ASSUME NEW e \in CDeclarations, Visible(e, n, p)
      PROVE  e.depth <= d.depth
  <2>1. /\ e.depth \in Int /\ e.ref.at \in Nat /\ e.ref.at < p
        /\ \/ e.depth = 0
           \/ IsTexts(e, "var") /\ Hides(n, e.ref.at, p) /\ e.depth = Depth(e.ref.at)
           \/ IsParams(e) /\ HasParam(n, e.ref.at, p) /\ e.depth = 1
    BY <1>7, VisibleKinds
  <2>2. CASE e.depth = 0
    BY <1>2, <1>5, <2>2
  <2>3. CASE IsTexts(e, "var") /\ Hides(n, e.ref.at, p) /\ e.depth = Depth(e.ref.at)
    <3>1. e.ref.at \in DOMAIN text
      BY <2>3 DEF IsTexts
    <3>2. e.ref.at \in 1..(p - 1)
      BY <1>2, <2>1, <3>1, StateFacts DEF IInv
    <3>3. QED
      BY <1>1, <1>5, <2>3, <3>2
  <2>4. CASE IsParams(e) /\ HasParam(n, e.ref.at, p) /\ e.depth = 1
    <3>1. e.ref.at \in DOMAIN text
      BY <2>4 DEF IsParams
    <3>2. e.ref.at \in 1..(p - 1)
      BY <1>2, <2>1, <3>1, StateFacts DEF IInv
    <3>3. Depth(q) # 0
      BY <1>1, <2>4, <3>2
    <3>4. QED
      BY <1>2, <1>5, <2>4, <3>3
  <2>5. QED
    BY <2>1, <2>2, <2>3, <2>4
<1>8. QED
  BY <1>2, <1>5, <1>6, <1>7, DeepestIsFound DEF Deepest

(* Where no variable of a body hides it, a parameter is as deep as any.    *)
LEMMA NoLocalIsShallow ==
  ASSUME IInv, NEW p \in DOMAIN text, NEW n, text[p].c # "func", text[p].name # n,
         NoLocal(n, p), NEW e, Visible(e, n, p)
  PROVE  /\ e.depth \in Int /\ e.depth <= 1
         /\ e.depth > 0 => /\ IsParams(e) /\ HasParam(n, e.ref.at, p)
                           /\ e.ref.at \in 1..(p - 1)
<1>1. /\ e.depth \in Int /\ e.ref.at \in Nat /\ e.ref.at < p
      /\ \/ e.depth = 0
         \/ IsTexts(e, "var") /\ Hides(n, e.ref.at, p) /\ e.depth = Depth(e.ref.at)
         \/ IsParams(e) /\ HasParam(n, e.ref.at, p) /\ e.depth = 1
  BY VisibleKinds
<1>2. ASSUME e.ref.at \in DOMAIN text
      PROVE  e.ref.at \in 1..(p - 1)
  BY <1>1, <1>2, StateFacts DEF IInv
<1>3. CASE IsTexts(e, "var") /\ Hides(n, e.ref.at, p) /\ e.depth = Depth(e.ref.at)
  <2>1. e.ref.at \in 1..(p - 1)
    BY <1>2, <1>3 DEF IsTexts
  <2>2. e.depth = 0
    BY <1>3, <2>1 DEF NoLocal
  <2>3. QED
    BY <2>2
<1>4. CASE IsParams(e) /\ HasParam(n, e.ref.at, p) /\ e.depth = 1
  BY <1>2, <1>4 DEF IsParams
<1>5. QED
  BY <1>1, <1>3, <1>4

LEMMA ParametersAgree ==
  ASSUME IInv, NoneTwice, NEW p \in DOMAIN text, NEW n, NEW r, text[p].c # "func",
         text[p].name # n, FoundParam(n, r, p)
  PROVE  /\ r.sort = "param"
         /\ CRef(n, p) = r <=> text[r.at].name # "main"
<1>1. PICK q \in 1..(p - 1) : /\ HasParam(n, q, p)
                              /\ r = Ref("param", n, q)
                              /\ NoLocal(n, p)
  BY DEF FoundParam
<1>2. p \in Nat /\ q \in Nat /\ q < p /\ \A k \in DOMAIN text : Depth(k) \in Int
  BY StateFacts DEF IInv
<1>3. /\ q \in DOMAIN text /\ text[q].c = "func" /\ n \in ToSet(text[q].params)
      /\ \A k \in (q + 1)..p : Depth(k) > 0
  BY <1>1 DEF HasParam, Enclosed, IsFunc
<1>4. r.sort = "param" /\ r.at = q /\ r.name = n /\ r # None
  BY <1>1, RefFields
<1>5. ASSUME text[q].name # "main"
      PROVE  CRef(n, p) = r
  <2>1. PICK d : d = InC(Ref("param", n, q), 1)
    OBVIOUS
  <2>2. n \in CParams(q)
    BY <1>3, <1>5 DEF CParams
  <2>3. d \in CDeclarations /\ d.ref = r /\ d.depth = 1
    BY <1>1, <1>3, <2>1, <2>2, TextIsDeclared, DeclarationFields
  <2>4. \A k \in (q + 1)..p : Depth(k) >= 1
    <3>1. ASSUME NEW k \in (q + 1)..p
          PROVE  Depth(k) >= 1
      <4>1. k \in DOMAIN text
        BY <1>2, StateFacts DEF IInv
      <4>2. Depth(k) \in Int /\ Depth(k) > 0
        BY <1>2, <1>3, <4>1
      <4>3. QED
        BY <4>2
    <3>2. QED
      BY <3>1
  <2>5. Visible(d, n, p)
    BY <1>2, <1>4, <2>3, <2>4 DEF Visible, InBlock
  <2>6. \A e \in CDeclarations : Visible(e, n, p) => e.depth <= d.depth
    BY <1>1, <2>3, NoLocalIsShallow
  <2>7. QED
    BY <1>2, <2>3, <2>5, <2>6, DeepestIsFound DEF Deepest
<1>6. ASSUME text[q].name = "main", CRef(n, p) = r
      PROVE  FALSE
  <2>1. PICK e \in CDeclarations : r = e.ref
    BY <1>2, <1>4, <1>6, CFindsDeepest
  <2>2. IsParams(e)
    BY <1>4, <2>1, DeclarationKinds, SortIsOne
  <2>3. QED
    BY <1>4, <1>6, <2>1, <2>2 DEF IsParams
<1>7. QED
  BY <1>4, <1>5, <1>6

LEMMA FunctionsAgree ==
  ASSUME IInv, NoneTwice, NEW p \in DOMAIN text, NEW n, NEW r, text[p].c # "func",
         text[p].name # n, FoundFunc(n, r, p)
  PROVE  /\ r.sort = "func"
         /\ CRef(n, p) = r <=> ~(n # "main" /\ HasParam(n, r.at, p))
<1>1. PICK q \in 1..(p - 1) : /\ IsFunc(q) /\ text[q].name = n
                              /\ r = Ref("func", n, q)
                              /\ NoLocal(n, p)
                              /\ \A k \in 1..(p - 1) : HasParam(n, k, p) => k = q
  BY DEF FoundFunc
<1>2. p \in Nat /\ q \in Nat /\ q < p /\ \A k \in DOMAIN text : Depth(k) \in Int
  BY StateFacts DEF IInv
<1>3. q \in DOMAIN text /\ text[q].c = "func" /\ Depth(q) = 0
  BY <1>1 DEF IsFunc, IInv, TextIsRight
<1>4. r.sort = "func" /\ r.at = q /\ r.name = n
  BY <1>1, RefFields
<1>5. PICK d : d = InC(Ref("func", n, q), Depth(q))
  OBVIOUS
<1>6. d \in CDeclarations /\ d.ref = r /\ d.depth = 0
  BY <1>1, <1>3, <1>5, TextIsDeclared, DeclarationFields
<1>7. Visible(d, n, p)
  <2>1. d.ref.at = q /\ d.ref.name = n
    BY <1>4, <1>6
  <2>2. Visible(d, d.ref.name, p)
    BY <1>2, <1>6, <2>1, FileScope
  <2>3. QED
    BY <2>1, <2>2
<1>8. ASSUME ~(n # "main" /\ HasParam(n, q, p))
      PROVE  CRef(n, p) = r
  <2>1. ASSUME NEW e \in CDeclarations, Visible(e, n, p)
        PROVE  e.depth <= d.depth
    <3>1. /\ e.depth \in Int
          /\ e.depth > 0 => IsParams(e) /\ HasParam(n, e.ref.at, p) /\ e.ref.at \in 1..(p - 1)
      BY <1>1, <2>1, NoLocalIsShallow
    <3>2. ~(e.depth > 0)
      <4>1. SUFFICES ASSUME e.depth > 0 PROVE FALSE
        OBVIOUS
      <4>2. e.ref.at = q /\ HasParam(n, q, p) /\ IsParams(e)
        BY <1>1, <3>1, <4>1
      <4>3. text[q].name = "main"
        BY <1>1, <1>8, <4>2
      <4>4. QED
        BY <4>2, <4>3 DEF IsParams
    <3>3. QED
      BY <1>6, <3>1, <3>2
  <2>2. QED
    BY <1>2, <1>6, <1>7, <2>1, DeepestIsFound DEF Deepest
<1>9. ASSUME n # "main", HasParam(n, q, p)
      PROVE  CRef(n, p) # r
  <2>1. n \in ToSet(text[q].params) /\ \A k \in (q + 1)..p : Depth(k) > 0
    BY <1>9 DEF HasParam, Enclosed
  <2>2. n \in CParams(q)
    BY <1>1, <1>9, <2>1 DEF CParams
  <2>3. PICK f : f = InC(Ref("param", n, q), 1)
    OBVIOUS
  <2>4. f \in CDeclarations /\ f.ref.at = q /\ f.ref.name = n /\ f.depth = 1
    BY <1>3, <2>2, <2>3, TextIsDeclared, DeclarationFields, RefFields
  <2>5. \A k \in (q + 1)..p : Depth(k) >= 1
    <3>1. ASSUME NEW k \in (q + 1)..p
          PROVE  Depth(k) >= 1
      <4>1. k \in DOMAIN text
        BY <1>2, StateFacts DEF IInv
      <4>2. Depth(k) \in Int /\ Depth(k) > 0
        BY <1>2, <2>1, <4>1
      <4>3. QED
        BY <4>2
    <3>2. QED
      BY <3>1
  <2>6. Visible(f, n, p)
    BY <1>2, <2>4, <2>5 DEF Visible, InBlock
  <2>7. PICK e \in CDeclarations : CRef(n, p) = e.ref /\ Deepest(e, n, p)
    BY <1>2, <2>6, CFindsDeepest
  <2>8. e.depth >= 1 /\ e.depth \in Int
    BY <2>4, <2>6, <2>7, VisibleKinds DEF Deepest
  <2>9. IsParams(e)
    BY <1>1, <2>7, <2>8, NoLocalIsShallow DEF Deepest
  <2>10. QED
    BY <1>4, <2>7, <2>9, SortIsOne
<1>10. QED
  BY <1>4, <1>8, <1>9

(* What a name means in C is what it means in Fork, but for the uses       *)
(* listed.                                                                 *)
THEOREM BothReadAlike == Spec => []NamesAgree
<1>1. ASSUME IInv, NoneTwice, NEW p \in DOMAIN text, text[p].ref # None
      PROVE  CRef(text[p].use.name, p) = text[p].ref <=> ~ReadOtherwise(p)
  <2>1. PICK n, r, use : n = text[p].use.name /\ r = text[p].ref /\ use = text[p].use
    OBVIOUS
  <2>2. Found(use, r, p)
    BY <1>1, <2>1 DEF IInv, TextIsRight
  <2>3. /\ text[p].c \in {"var", "use"} /\ n \in VarIds \cup FuncIds
        /\ text[p].c = "use" => text[p].name = NoName
    BY <1>1, <2>1 DEF IInv, ItemsAreBuilt
  <2>4. ReadOtherwise(p) <=>
          \/ text[p].name = n
          \/ r.sort = "func" /\ n # "main" /\ n \in ToSet(text[r.at].params)
             /\ \A q \in (r.at + 1)..p : Depth(q) > 0
          \/ r.sort = "param" /\ text[r.at].name = "main"
          \/ r.sort = "module" /\ LocalBefore(n, p)
    BY <2>1 DEF ReadOtherwise
  <2>5. CASE text[p].name = n
    <3>1. n # NoName
      BY <2>3, NamesAssumption
    <3>2. text[p].c = "var"
      BY <2>3, <2>5, <3>1
    <3>3. CRef(n, p) # r
      BY <1>1, <2>1, <2>2, <2>5, <3>2, OwnValue
    <3>4. QED
      BY <2>1, <2>4, <2>5, <3>3
  <2>6. CASE text[p].name # n
    <3>1. text[p].c # "func"
      BY <2>3
    <3>2. CASE n \in ModuleNames /\ r = OfModule(n)
      <4>1. r.sort = "module"
        BY <3>2, RefFields DEF OfModule
      <4>2. CRef(n, p) = r <=> ~LocalBefore(n, p)
        BY <1>1, <2>6, <3>1, <3>2, MembersAgree
      <4>3. QED
        BY <2>1, <2>4, <2>6, <4>1, <4>2
    <3>3. CASE FoundVar(n, r, p)
      BY <1>1, <2>1, <2>4, <2>6, <3>1, <3>3, VariablesAgree
    <3>4. CASE FoundParam(n, r, p)
      BY <1>1, <2>1, <2>4, <2>6, <3>1, <3>4, ParametersAgree
    <3>5. CASE FoundFunc(n, r, p)
      <4>1. PICK q \in 1..(p - 1) : IsFunc(q) /\ r = Ref("func", n, q)
        BY <3>5 DEF FoundFunc
      <4>2. r.at = q /\ p \in Nat /\ q < p
        BY <1>1, <4>1, RefFields, StateFacts DEF IInv
      <4>3. HasParam(n, r.at, p) <=> /\ n \in ToSet(text[r.at].params)
                                     /\ \A k \in (r.at + 1)..p : Depth(k) > 0
        BY <4>1, <4>2 DEF HasParam, Enclosed
      <4>4. r.sort = "func" /\ (CRef(n, p) = r <=> ~(n # "main" /\ HasParam(n, r.at, p)))
        BY <1>1, <2>6, <3>1, <3>5, FunctionsAgree
      <4>5. QED
        BY <2>1, <2>4, <2>6, <4>3, <4>4
    <3>6. QED
      BY <2>1, <2>2, <3>2, <3>3, <3>4, <3>5 DEF Found
  <2>7. QED
    BY <2>5, <2>6
<1>2. IInv => NamesAgree
  BY <1>1 DEF NamesAgree, NoneTwice
<1>3. QED
  BY <1>2, NodesFollowText, PTL
=============================================================================
