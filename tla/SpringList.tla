----------------------------- MODULE SpringList -----------------------------
(***************************************************************************)
(* spring's doubly linked list, libfork/spring/list.fork: the nodes on the *)
(* heap, the list's header with its cached cursor (current, pos), and a    *)
(* second header for the list that listExtract or listShallowCopy returns. *)
(*                                                                         *)
(* An address is a number, 0 the null pointer; freeing a node takes it off *)
(* the heap.  What a call does with a pointer to nowhere is not modelled:  *)
(* the properties say when such pointers arise, and Client keeps to calls  *)
(* that do not follow them.                                                *)
(***************************************************************************)
EXTENDS Integers, Sequences, FiniteSets

CONSTANTS Values,     \* what a list holds
          NoValue,    \* the null pointer returned for an element
          MaxNodes,   \* the nodes the heap has room for
          MaxPos      \* how far the cursor's index is followed

Null == 0
Nodes == 1..MaxNodes

ASSUME ListAssumption == /\ MaxNodes \in Nat
                         /\ MaxPos \in Nat /\ MaxPos >= MaxNodes
                         /\ NoValue \notin Values

VARIABLES heap,       \* the allocated nodes, by address
          list,       \* the list's header
          other,      \* the header of the list extracted or copied
          ret         \* the last call and its answer (history)

vars == <<heap, list, other, ret>>

Pointers == Nodes \cup {Null}
Lnodes == [prec : Pointers, next : Pointers, value : Values]
Headers == [start : Pointers, end : Pointers, len : 0..MaxNodes,
            current : Pointers, pos : 0..MaxPos]

TypeOK == /\ DOMAIN heap \subseteq Nodes
          /\ \A n \in DOMAIN heap : heap[n] \in Lnodes
          /\ list \in Headers
          /\ other \in Headers

-----------------------------------------------------------------------------
(* Definitions introduced by "Fault:" are not part of the model: each is a *)
(* plausible mistake in the definition that follows it.                    *)

(* A header after memset.                                                  *)
Zeroed == [start |-> Null, end |-> Null, len |-> 0, current |-> Null, pos |-> 0]

Init == /\ heap = <<>>
        /\ list = Zeroed
        /\ other = Zeroed
        /\ ret = [op |-> "init", at |-> 0, n |-> 0, arg |-> NoValue, value |-> NoValue]

Returns(op, i, v, r) ==
  ret' = [op |-> op, at |-> i, n |-> 0, arg |-> v, value |-> r]

Available == Nodes \ DOMAIN heap
New == CHOOSE n \in Available : \A m \in Available : n <= m

Without(h, N) == [n \in DOMAIN h \ N |-> h[n]]
With(h, n, node) == [m \in DOMAIN h \cup {n} |-> IF m = n THEN node ELSE h[m]]

(* p'prec = q or p'next = q, where p may be null and nothing is done.      *)
SetPrec(h, p, q) == IF p = Null THEN h ELSE [h EXCEPT ![p].prec = q]
SetNext(h, p, q) == IF p = Null THEN h ELSE [h EXCEPT ![p].next = q]

(* The node k steps behind p, and before it.                               *)
Ahead(p, k) ==
  LET f[i \in 0..MaxNodes] ==
        IF i = 0 THEN p
        ELSE IF f[i - 1] \in DOMAIN heap THEN heap[f[i - 1]].next ELSE Null
  IN  f[k]
Behind(p, k) ==
  LET f[i \in 0..MaxNodes] ==
        IF i = 0 THEN p
        ELSE IF f[i - 1] \in DOMAIN heap THEN heap[f[i - 1]].prec ELSE Null
  IN  f[k]

-----------------------------------------------------------------------------
(* listSeek: the header with its cursor moved from where it is, from the   *)
(* start or from the end to node i.                                        *)

SeekZero(l, i) == IF l.current = Null /\ i = 0
                    THEN [l EXCEPT !.current = l.start, !.pos = 0]
                    ELSE l

(* Fault: a step too few is made.                                          *)
SeekShort(l, i) ==
  LET from == IF l.current = Null THEN l.start ELSE l.current
      at   == IF l.current = Null THEN 0 ELSE l.pos
  IN  [l EXCEPT !.current = Ahead(from, i - at - 1), !.pos = i]

SeekAhead(l, i) ==
  LET from == IF l.current = Null THEN l.start ELSE l.current
      at   == IF l.current = Null THEN 0 ELSE l.pos
  IN  [l EXCEPT !.current = Ahead(from, i - at), !.pos = i]

SeekBehind(l, i) ==
  LET last == l.current = Null \/ l.len - 1 = i
      from == IF last THEN l.end ELSE l.current
      at   == IF last THEN l.len - 1 ELSE l.pos
  IN  [l EXCEPT !.current = Behind(from, at - i), !.pos = i]

Seek(l, i) == LET z == SeekZero(l, i)
              IN  IF i > z.pos THEN SeekAhead(z, i)
                  ELSE IF i < z.pos THEN SeekBehind(z, i) ELSE z

-----------------------------------------------------------------------------

(* Fault: the cursor's index is not moved with its node.                   *)
PosKept(l) == l.pos

PosPushed(l) == l.pos + 1

Pushed(l, n) ==
  IF l.end = Null
    THEN [l EXCEPT !.start = n, !.end = n, !.current = n, !.len = @ + 1]
    ELSE [l EXCEPT !.start = n, !.pos = PosPushed(l), !.len = @ + 1]

PushOnHeap(l, n, v) ==
  With(SetPrec(heap, l.start, n), n, [prec |-> Null, next |-> l.start, value |-> v])

(* Fault: the old last node does not point to the new one.                 *)
AppendUnlinked(l, n, v) ==
  With(heap, n, [prec |-> l.end, next |-> Null, value |-> v])

AppendLinked(l, n, v) ==
  With(SetNext(heap, l.end, n), n, [prec |-> l.end, next |-> Null, value |-> v])

Push(v) == /\ Available # {}
           /\ heap' = PushOnHeap(list, New, v)
           /\ list' = Pushed(list, New)
           /\ Returns("push", 0, v, NoValue)
           /\ UNCHANGED other

(* listAppendint, also called by listAddint and listInsertint.             *)
Appends(v) == /\ Available # {}
              /\ IF list.start = Null
                   THEN /\ heap' = PushOnHeap(list, New, v)
                        /\ list' = Pushed(list, New)
                   ELSE /\ heap' = AppendLinked(list, New, v)
                        /\ list' = [list EXCEPT !.end = New, !.len = @ + 1]

AppendAt(v) == /\ Appends(v)
               /\ Returns("append", 0, v, NoValue)
               /\ UNCHANGED other

(* A node between node i and the one before it.  list'start is not set,    *)
(* whatever i is; the cursor is forgotten.                                 *)
AddBefore(i, v) ==
  LET l == Seek(list, i)
      prec == heap[l.current].prec
  IN  /\ Available # {}
      /\ heap' = With(SetPrec(SetNext(heap, prec, New), l.current, New), New,
                      [prec |-> prec, next |-> l.current, value |-> v])
      /\ list' = [l EXCEPT !.current = Null, !.pos = 0, !.len = @ + 1]

Add(i, v) == /\ IF i > list.len THEN UNCHANGED <<heap, list>>
                ELSE IF i = list.len THEN Appends(v) ELSE AddBefore(i, v)
             /\ Returns("add", i, v, i <= list.len)
             /\ UNCHANGED other

Get(i) == LET l == IF i < list.len THEN Seek(list, i) ELSE list
          IN  /\ list' = l
              /\ Returns("get", i, NoValue, IF i < list.len /\ l.current # Null
                                        THEN heap[l.current].value ELSE NoValue)
              /\ UNCHANGED <<heap, other>>

Insert(i, v) ==
  /\ IF i > list.len THEN UNCHANGED <<heap, list>>
     ELSE IF i = list.len THEN Appends(v)
     ELSE LET l == Seek(list, i)
          IN  /\ list' = l
              /\ heap' = [heap EXCEPT ![l.current].value = v]
  /\ Returns("insert", i, v, i <= list.len)
  /\ UNCHANGED other

(* The first node goes; the cursor stays, unless the list becomes empty.   *)
Pop == /\ IF list.start = Null
            THEN /\ UNCHANGED <<heap, list>>
                 /\ Returns("pop", 0, NoValue, NoValue)
            ELSE LET next == heap[list.start].next
                 IN  /\ heap' = SetPrec(Without(heap, {list.start}), next, Null)
                     /\ list' = IF list.start = list.end THEN Zeroed
                                ELSE [list EXCEPT !.start = next, !.len = @ - 1]
                     /\ Returns("pop", 0, NoValue, heap[list.start].value)
       /\ UNCHANGED other

CursorRemoved(l, i, prec, next) ==
  IF i = 0 THEN [l EXCEPT !.current = next]
           ELSE [l EXCEPT !.current = prec, !.pos = @ - 1]

Remove(i) ==
  /\ IF i >= list.len THEN UNCHANGED <<heap, list>>
     ELSE LET l == Seek(list, i)
              prec == heap[l.current].prec
              next == heap[l.current].next
              linked == [l EXCEPT !.start = IF prec = Null THEN next ELSE @,
                                  !.end = IF next = Null THEN prec ELSE @,
                                  !.len = @ - 1]
          IN  /\ heap' = SetPrec(SetNext(Without(heap, {l.current}), prec, next),
                                 next, prec)
              /\ list' = CursorRemoved(linked, i, prec, next)
  /\ Returns("remove", i, NoValue, i < list.len)
  /\ UNCHANGED other

(* The nodes of a header, by following next from its start.                *)
Path(l) == [i \in 1..l.len |-> Ahead(l.start, i - 1)]
NodesOf(l) == {Path(l)[i] : i \in 1..l.len}

(* lnodeFree and memset.                                                   *)
Prune == /\ heap' = Without(heap, NodesOf(list))
         /\ list' = Zeroed
         /\ Returns("prune", 0, NoValue, NoValue)
         /\ UNCHANGED other

(* Nodes i to i + n - 1 become a list of their own, relinked in place.     *)
Extract(i, n) ==
  /\ IF i >= list.len
       THEN /\ other' = Zeroed
            /\ UNCHANGED <<heap, list>>
       ELSE LET k == IF n < 0 \/ n > list.len THEN list.len - i ELSE n
                first == Seek(list, i)
                last == Seek(first, i + k - 1)
                prec == heap[first.current].prec
                next == heap[last.current].next
                cut == [SetPrec(SetNext(heap, prec, next), next, prec)
                          EXCEPT ![first.current].prec = Null]
                start == IF prec = Null THEN next ELSE list.start
            IN  /\ heap' = [cut EXCEPT ![last.current].next = Null]
                /\ other' = [start |-> first.current, end |-> last.current,
                             len |-> k, current |-> first.current, pos |-> 0]
                /\ list' = [start |-> start,
                            end |-> IF next = Null THEN prec ELSE list.end,
                            len |-> list.len - k, current |-> start, pos |-> 0]
  /\ ret' = [op |-> "extract", at |-> i, n |-> n, arg |-> NoValue, value |-> NoValue]

(* listGetint for every index, each value appended to a new list.          *)
Copy ==
  LET k == list.len
      room == CHOOSE r \in [1..k -> Available] :
                \A i, j \in 1..k : i # j => r[i] # r[j]
      At(i) == IF i \in 1..k THEN room[i] ELSE Null
      node(i) == [prec |-> At(i - 1), next |-> At(i + 1),
                  value |-> heap[Path(list)[i]].value]
  IN  /\ k <= Cardinality(Available)
      /\ heap' = [n \in DOMAIN heap \cup {room[i] : i \in 1..k} |->
                    IF n \in DOMAIN heap THEN heap[n]
                                         ELSE node(CHOOSE i \in 1..k : room[i] = n)]
      /\ list' = IF k = 0 THEN list ELSE Seek(Seek(list, 0), k - 1)
      /\ other' = [start |-> At(1), end |-> At(k), len |-> k,
                   current |-> At(1), pos |-> 0]
      /\ Returns("copy", 0, NoValue, NoValue)

Free == /\ heap' = Without(heap, NodesOf(other))
        /\ other' = Zeroed
        /\ Returns("free", 0, NoValue, NoValue)
        /\ UNCHANGED list

-----------------------------------------------------------------------------
(* The client                                                              *)

(* The cursor is at the node its index says, or nowhere and at 0.          *)
CursorIsRight ==
  \/ list.current = Null /\ list.pos = 0
  \/ list.pos < list.len /\ list.current = Path(list)[list.pos + 1]

(* Calls that do not look at the cursor.                                   *)
Blind == \/ \E v \in Values : \/ (list.pos < MaxPos /\ Push(v))
                               \/ AppendAt(v)
         \/ Pop
         \/ Prune
         \/ Free

Indices == 0..(list.len + 1)

(* Calls that seek.  The client keeps off the front with listAdd, and      *)
(* extracts what is there; it drops the former extract first.              *)
Seeking == \/ \E i \in Indices :
                \/ Get(i)
                \/ Remove(i)
                \/ \E v \in Values : \/ ((i > 0 \/ list.len = 0) /\ Add(i, v))
                                      \/ Insert(i, v)
           \/ /\ other.len = 0
              /\ \/ Copy
                 \/ \E i \in Indices, n \in (-1..(list.len + 1)) \ {0} :
                      (i + n <= list.len \/ n > list.len) /\ Extract(i, n)

Next == Blind \/ (CursorIsRight /\ Seeking)

Spec == Init /\ [][Next]_vars

-----------------------------------------------------------------------------
(* Properties.                                                             *)

(* start and end are the ends of one chain of len nodes, linked alike in   *)
(* both directions.                                                        *)
Linked(l) ==
  LET p == Path(l) IN
    /\ NodesOf(l) \subseteq DOMAIN heap
    /\ \A i, j \in 1..l.len : i # j => p[i] # p[j]
    /\ l.start = (IF l.len = 0 THEN Null ELSE p[1])
    /\ l.end = (IF l.len = 0 THEN Null ELSE p[l.len])
    /\ \A i \in 1..l.len :
         /\ heap[p[i]].prec = (IF i = 1 THEN Null ELSE p[i - 1])
         /\ heap[p[i]].next = (IF i = l.len THEN Null ELSE p[i + 1])

(* Both lists are well linked, share no node, and no node is lost.         *)
HeapIsTheLists == /\ TypeOK
                  /\ Linked(list)
                  /\ Linked(other)
                  /\ NodesOf(list) \cap NodesOf(other) = {}
                  /\ DOMAIN heap = NodesOf(list) \cup NodesOf(other)

(* Only two calls lose the cursor, and always do: a pop that leaves nodes  *)
(* while the cursor is somewhere, and a push on a list whose cursor is     *)
(* nowhere.  All other calls that move nodes keep it at its index.         *)
CursorLost == \/ ret'.op = "pop" /\ list.len > 1 /\ list.current # Null
              \/ ret'.op = "push" /\ list.len > 0 /\ list.current = Null
CursorKept == [][CursorIsRight => (CursorIsRight' <=> ~CursorLost)]_vars

Contents(l) ==
  LET p == Path(l)
  IN  [i \in 1..l.len |-> IF p[i] \in DOMAIN heap THEN heap[p[i]].value ELSE NoValue]

(* Every call does to the sequence of values, and answers, what ListSpec   *)
(* says: reached through the cursor from either side, or not.              *)
L == INSTANCE ListSpec WITH seq <- Contents(list), other <- Contents(other)
IsASequence == L!Spec

=============================================================================
