----------------------------- MODULE SpringMap -----------------------------
(***************************************************************************)
(* spring's tree map, libfork/spring/map.fork, and its iterator,           *)
(* libfork/spring/iter.fork: a red-black tree of nodes changed in place.   *)
(* Every function of map.fork that takes a node is an operator that takes  *)
(* the heap as well and gives the heap after the call beside the node the  *)
(* call returns.  What is not reachable from the root any more is dropped  *)
(* from the heap (map.fork never frees it).                                *)
(***************************************************************************)
EXTENDS Integers

CONSTANTS MaxKey,     \* keys are 1 to MaxKey, in the comparer's order
          Values,     \* what a map holds, the null pointer excepted
          NoValue,    \* the null pointer
          Removing    \* which keys a client removes, below

Keys == 1..MaxKey

ASSUME MapAssumption == /\ MaxKey \in Nat
                        /\ NoValue \notin Values
                        /\ Removing \in {"any", "present", "balanced"}

VARIABLES heap,       \* the nodes in use, by address
          root,       \* map'root
          len,        \* map'len
          iter,       \* an iterator on the map: begin and lastKey
          ret         \* the last call and its answer (history)

vars == <<heap, root, len, iter, ret>>

Null == 0

(* A node's address is the key it holds between two calls.                 *)
Nodes == Keys

(* What a call ends in instead of a node: spring:abort() after "rotating   *)
(* left (right) a black node", or a null pointer followed.                 *)
Aborted == -1
Crashed == -2

NoKey == 0

Links == Nodes \cup {Null}
Mnodes == [left : Links, right : Links, key : Keys, value : Values, red : BOOLEAN]

TypeOK == /\ DOMAIN heap \subseteq Nodes
          /\ \A n \in DOMAIN heap : heap[n] \in Mnodes /\ heap[n].key = n
          /\ root \in Links \cup {Aborted, Crashed}
          /\ len \in 0..MaxKey
          /\ iter \in [begin : BOOLEAN, last : Keys \cup {NoKey}]

-----------------------------------------------------------------------------
(* Definitions introduced by "Fault:" are not part of the model: each is a *)
(* plausible mistake in the definition that follows it.                    *)

(* hit: *oldvalue of nodeAdd, *found of nodeDelete.                        *)
R(h, n) == [h |-> h, n |-> n, hit |-> NoValue]

(* The call Op on the node that the call before gave, if it gave one.      *)
Then(r, Op(_, _)) == IF r.n < 0 THEN r ELSE Op(r.h, r.n)

Red(h, n) == n # Null /\ h[n].red
Black(h, n) == ~Red(h, n)

RotateLeft(h, n) ==
  LET up == h[n].right IN
    IF up = Null THEN R(h, Crashed)
    ELSE IF ~h[up].red THEN R(h, Aborted)
    ELSE R([h EXCEPT ![n].right = h[up].left, ![n].red = TRUE,
                     ![up].left = n, ![up].red = h[n].red], up)

RotateRight(h, n) ==
  LET up == h[n].left IN
    IF up = Null THEN R(h, Crashed)
    ELSE IF ~h[up].red THEN R(h, Aborted)
    ELSE R([h EXCEPT ![n].left = h[up].right, ![n].red = TRUE,
                     ![up].right = n, ![up].red = h[n].red], up)

ColorFlip(h, n) ==
  IF h[n].left = Null \/ h[n].right = Null THEN R(h, Crashed)
  ELSE R([h EXCEPT ![n].red = ~@, ![h[n].left].red = ~@, ![h[n].right].red = ~@], n)

LeanLeft(h, n) == IF Red(h, h[n].right) THEN RotateLeft(h, n) ELSE R(h, n)

(* Fault: two reds in a row are left as they are.                          *)
LeftAlone(h, n) == R(h, n)

SplitFour(h, n) ==
  IF Red(h, h[n].left) /\ Red(h, h[h[n].left].left) THEN RotateRight(h, n)
                                                    ELSE R(h, n)

PassRedUp(h, n) ==
  IF Red(h, h[n].left) /\ Red(h, h[n].right) THEN ColorFlip(h, n) ELSE R(h, n)

FixUp(h, n) == Then(Then(LeanLeft(h, n), SplitFour), PassRedUp)

(* node'left = l, node'right = r, and nodeFixUp, after a call below.       *)
FixLeft(n, l) ==
  IF l.n < 0 THEN l
  ELSE [FixUp([l.h EXCEPT ![n].left = l.n], n) EXCEPT !.hit = l.hit]
FixRight(n, r) ==
  IF r.n < 0 THEN r
  ELSE [FixUp([r.h EXCEPT ![n].right = r.n], n) EXCEPT !.hit = r.hit]

(* The functions that call themselves go one node down the tree each time: *)
(* a tree of at most MaxKey nodes ends them before Deepest activations,    *)
(* and a call that nests deeper would follow a cycle until the stack ends. *)
(* In each the function of the activations one deeper is the parameter.    *)
Deepest == MaxKey + 1
Room == 0..Deepest

Leaf(k, v) == [left |-> Null, right |-> Null, key |-> k, value |-> v, red |-> TRUE]
Added(h, k, v) == [m \in DOMAIN h \cup {k} |-> IF m = k THEN Leaf(k, v) ELSE h[m]]

Adding(Add, h, n, k, v) ==
  IF n = Null THEN R(Added(h, k, v), k)
  ELSE IF k > h[n].key THEN FixRight(n, Add[h[n].right])
  ELSE IF k < h[n].key THEN FixLeft(n, Add[h[n].left])
  ELSE [FixUp([h EXCEPT ![n].value = v], n) EXCEPT !.hit = h[n].value]

NodeAdd(h, n, k, v) ==
  LET Add[d \in Room] ==
        [m \in Links |-> IF d = 0 THEN R(h, Crashed) ELSE Adding(Add[d - 1], h, m, k, v)]
  IN  Add[Deepest][n]

Getting(Get, h, n, k) ==
  IF n = Null THEN Null
  ELSE IF k = h[n].key THEN n
  ELSE Get[IF k < h[n].key THEN h[n].left ELSE h[n].right]

NodeGetnode(h, n, k) ==
  LET Get[d \in Room] ==
        [m \in Links |-> IF d = 0 THEN Crashed ELSE Getting(Get[d - 1], h, m, k)]
  IN  Get[Deepest][n]

NodeMin(h, n) ==
  LET Min[d \in Room] ==
        [m \in Links |-> IF d = 0 THEN NoKey
                         ELSE IF h[m].left = Null THEN h[m].key ELSE Min[d - 1][h[m].left]]
  IN  Min[Deepest][n]

MoveRedLeft(h, n) ==
  LET Borrow(g, m) ==
        IF Red(g, g[g[m].right].left)
          THEN LET r == RotateRight(g, g[m].right)
               IN  IF r.n < 0 THEN r
                   ELSE Then(RotateLeft([r.h EXCEPT ![m].right = r.n], m), ColorFlip)
          ELSE R(g, m)
  IN  Then(ColorFlip(h, n), Borrow)

MoveRedRight(h, n) ==
  LET Borrow(g, m) ==
        IF Red(g, g[g[m].left].left) THEN Then(RotateRight(g, m), ColorFlip)
                                     ELSE R(g, m)
  IN  Then(ColorFlip(h, n), Borrow)

TwoNodeLeft(h, n) == Black(h, h[n].left) /\ Black(h, h[h[n].left].left)

(* The arguments of a call that changes nodes on its way down.             *)
Calls(h) == [h : [DOMAIN h -> Mnodes], n : Links]
Call(h, n) == [h |-> h, n |-> n]

DeletingMin(Delete, h, n) ==
  IF h[n].left = Null THEN R(h, Null)
  ELSE LET Down(g, m) == FixLeft(m, Delete[Call(g, g[m].left)])
       IN  Then(IF TwoNodeLeft(h, n) THEN MoveRedLeft(h, n) ELSE R(h, n), Down)

NodeDeleteMin(h, n) ==
  LET Delete[d \in Room] ==
        [c \in Calls(h) |-> IF d = 0 THEN R(c.h, Crashed)
                         ELSE DeletingMin(Delete[d - 1], c.h, c.n)]
  IN  Delete[Deepest][Call(h, n)]

(* Asked before borrowing from the left for a deletion in the right.       *)
TwoNodeRight(h, n) ==
  /\ h[n].right # Null
  /\ h[h[n].right].left # Null
  /\ Black(h, h[n].right)
  /\ Black(h, h[h[n].right].left)

(* Fault: the successor's key moves up without its value.                  *)
KeyMoved(g, m, k, v) == [g EXCEPT ![m].key = k]

PairMoved(g, m, k, v) == [g EXCEPT ![m].key = k, ![m].value = v]

Found(r) == [h |-> r.h, n |-> r.n, hit |-> TRUE]

(* The successor's key and value move up; its node goes.                   *)
Replace(h, n) ==
  IF h[n].right = Null THEN R(h, Crashed)
  ELSE LET min == NodeMin(h, h[n].right)
           val == h[NodeGetnode(h, h[n].right, min)].value
       IN  FixRight(n, Found(NodeDeleteMin(PairMoved(h, n, min, val), h[n].right)))

Deleting(Delete, h, n, k) ==
  LET DownLeft(g, m) == FixLeft(m, Delete[Call(g, g[m].left)])
      DownRight(g, m) == FixRight(m, Delete[Call(g, g[m].right)])
      Borrowed(g, m) == IF g[m].key = k THEN Replace(g, m) ELSE DownRight(g, m)
      Leaned(g, m) ==
        IF g[m].key = k /\ g[m].right = Null THEN Found(R(g, Null))
        ELSE Then(IF TwoNodeRight(g, m) THEN MoveRedRight(g, m) ELSE R(g, m), Borrowed)
  IN  IF n = Null THEN [h |-> h, n |-> Null, hit |-> FALSE]
      ELSE IF k < h[n].key
        THEN IF h[n].left = Null THEN R(h, Null)
             ELSE Then(IF TwoNodeLeft(h, n) THEN MoveRedLeft(h, n) ELSE R(h, n), DownLeft)
        ELSE Then(IF Red(h, h[n].left) THEN RotateRight(h, n) ELSE R(h, n), Leaned)

NodeDelete(h, n, k) ==
  LET Delete[d \in Room] ==
        [c \in Calls(h) |-> IF d = 0 THEN R(c.h, Crashed)
                         ELSE Deleting(Delete[d - 1], c.h, c.n, k)]
  IN  Delete[Deepest][Call(h, n)]

-----------------------------------------------------------------------------

Init == /\ heap = <<>>
        /\ root = Null
        /\ len = 0
        /\ iter = [begin |-> TRUE, last |-> NoKey]
        /\ ret = [op |-> "init", key |-> NoKey, arg |-> NoValue, value |-> NoValue]

Returns(op, k, v, r) == ret' = [op |-> op, key |-> k, arg |-> v, value |-> r]

Reaching(Reach, h, n) ==
  IF n = Null THEN {} ELSE {n} \cup Reach[h[n].left] \cup Reach[h[n].right]

Reachable(h, n) ==
  LET Reach[d \in Room] ==
        [m \in Links |-> IF d = 0 THEN {} ELSE Reaching(Reach[d - 1], h, m)]
  IN  IF n > 0 THEN Reach[Deepest][n] ELSE {}

(* The heap below n, each node moved to the address named by its key.      *)
Key(h, n) == IF n <= 0 THEN n ELSE h[n].key
Kept(h, n) ==
  LET Live == Reachable(h, n)
      At(k) == h[CHOOSE m \in Live : h[m].key = k]
  IN  [k \in {h[m].key : m \in Live} |->
         [At(k) EXCEPT !.left = Key(h, @), !.right = Key(h, @)]]
Blackened(h, n) == IF n > 0 THEN [h EXCEPT ![n].red = FALSE] ELSE h

Grown(old) == IF old = NoValue THEN len + 1 ELSE len

Put(k, v) ==
  LET r == NodeAdd(heap, root, k, v) IN
    /\ heap' = Kept(Blackened(r.h, r.n), r.n)
    /\ root' = Key(r.h, r.n)
    /\ len' = Grown(r.hit)
    /\ Returns("put", k, v, r.hit)
    /\ UNCHANGED iter

(* The root is replaced only when the key was found, but the nodes below   *)
(* it have changed in either case.                                         *)
Remove(k) ==
  LET r == NodeDelete(heap, root, k)
      top == IF r.n < 0 \/ r.hit = TRUE THEN r.n ELSE root
  IN  /\ heap' = Kept(IF r.hit = TRUE THEN Blackened(r.h, top) ELSE r.h, top)
      /\ root' = Key(r.h, top)
      /\ len' = IF r.hit = TRUE THEN len - 1 ELSE len
      /\ Returns("remove", k, NoValue, r.hit = TRUE)
      /\ UNCHANGED iter

(* mapGet, and mapContains, which calls it.                                *)
Get(k) ==
  LET n == NodeGetnode(heap, root, k) IN
    /\ Returns("get", k, NoValue, IF n = Null THEN NoValue ELSE heap[n].value)
    /\ UNCHANGED <<heap, root, len, iter>>

MapiterStart == /\ iter' = [begin |-> TRUE, last |-> NoKey]
                /\ Returns("iter", NoKey, NoValue, NoValue)
                /\ UNCHANGED <<heap, root, len>>

IteratingNext(Later, h, n, last) ==
  IF n = Null THEN Null
  ELSE IF last < h[n].key
    THEN LET m == Later[h[n].left] IN IF m # Null THEN m ELSE n
    ELSE Later[h[n].right]

IterIntNext(h, n, last) ==
  LET Later[d \in Room] ==
        [m \in Links |-> IF d = 0 THEN Crashed ELSE IteratingNext(Later[d - 1], h, m, last)]
  IN  Later[Deepest][n]

MapiterNext ==
  LET n == IF root = Null THEN Null
           ELSE IF iter.begin THEN NodeGetnode(heap, root, NodeMin(heap, root))
           ELSE IterIntNext(heap, root, iter.last)
  IN  /\ iter' = IF n = Null THEN iter ELSE [begin |-> FALSE, last |-> heap[n].key]
      /\ ret' = [op |-> "next", key |-> IF n = Null THEN NoKey ELSE heap[n].key,
                 arg |-> NoValue, value |-> IF n = Null THEN NoValue ELSE heap[n].value]
      /\ UNCHANGED <<heap, root, len>>

-----------------------------------------------------------------------------
(* A left-leaning red-black tree: black root, no red right child, no red   *)
(* child of a red node, and the same number of black nodes on every path.  *)
BlackDepth(h, n) ==
  LET Depth[d \in Room] ==
        [m \in Links |-> IF d = 0 \/ m = Null THEN 0
                         ELSE Depth[d - 1][h[m].left] + (IF h[m].red THEN 0 ELSE 1)]
  IN  Depth[Deepest][n]

LooksBalanced(h, n) ==
  /\ ~Red(h, h[n].right)
  /\ h[n].red => ~Red(h, h[n].left)
  /\ BlackDepth(h, h[n].left) = BlackDepth(h, h[n].right)

BalancedTree(h, n) == n >= Null /\ ~Red(h, n) /\ \A m \in DOMAIN h : LooksBalanced(h, m)
Balanced == BalancedTree(heap, root)

-----------------------------------------------------------------------------
(* A client that puts, looks up and iterates as it likes, and removes the  *)
(* keys it may.  There is no next call after an abort or a crash.          *)

Present == DOMAIN heap

(* "any", in the map or not; those "present"; or those present, while the  *)
(* tree is "balanced".                                                     *)
Removable == CASE Removing = "any" -> Keys
               [] Removing = "present" -> Present
               [] Removing = "balanced" -> IF Balanced THEN Present ELSE {}

Next == /\ root >= Null
        /\ \/ \E k \in Keys, v \in Values : Put(k, v)
           \/ \E k \in Removable : Remove(k)
           \/ \E k \in Keys : Get(k)
           \/ MapiterStart
           \/ MapiterNext

Spec == Init /\ [][Next]_vars

-----------------------------------------------------------------------------
(* Properties.                                                             *)

(* A balanced tree stays balanced over every put, every lookup and the     *)
(* removal of its least key; other removals of a present key may leave it  *)
(* unbalanced (nodeDelete).                                                *)
Least == {k \in Present : \A j \in Present : k <= j}

BalanceIsKept ==
  [][/\ TypeOK'
     /\ Balanced /\ (ret'.op = "remove" => ret'.key \in Least) => Balanced']_vars

(* mapRemove takes the key away and tells whether it was there; all other  *)
(* keys stay in the map.                                                   *)
RemoveTakesItsKeyOnly ==
  [][ret'.op = "remove" =>
       /\ ret'.value = (ret'.key \in Present)
       /\ Present' = Present \ {ret'.key}]_vars

(* The tree implements a dictionary in key order: every call answers what  *)
(* MapSpec says, the iterator included, whatever was put and removed       *)
(* between two of its steps.                                               *)
Dict == [k \in Present |-> heap[k].value]
Abstract == INSTANCE MapSpec WITH dict <- Dict, last <- iter.last
IsADictionary == Abstract!Spec

=============================================================================
