---------------------------- MODULE BuildProofs -----------------------------
(***************************************************************************)
(* Proofs about the whole compiler.                                        *)
(*                                                                         *)
(* The importer, for every set of modules, every source tree and every     *)
(* bound on open files: what the cache hands out is complete, modules      *)
(* become available one at a time in an order that respects the import     *)
(* graph, a message names the file and the line being read, and, for every *)
(* finite set of modules, success means that the whole of an acyclic graph *)
(* was parsed, and failure has a cause in the tree.                        *)
(*                                                                         *)
(* The code generator, started on what the front end accepts, for every    *)
(* finite set of modules and every source tree: it writes every module it  *)
(* needs once, after what it imports, and under which file's name.         *)
(***************************************************************************)
EXTENDS Build, SequenceTheorems, FiniteSetTheorems, TLAPS

-----------------------------------------------------------------------------
(* The importer.                                                           *)

(* fr waits at the line that imports m.                                    *)
Awaits(t, fr, m) == /\ ~fr.defs
                    /\ fr.next <= Len(t[fr.file].imports)
                    /\ m = t[fr.file].imports[fr.next]

(* fr's map holds the imports read so far, all of them in the cache c.     *)
Loaded(t, fr, c) ==
  /\ fr.next <= Len(t[fr.file].imports) + 1
  /\ fr.imps = {t[fr.file].imports[k] : k \in 1..(fr.next - 1)}
  /\ fr.imps \subseteq c
  /\ fr.defs => fr.next = Len(t[fr.file].imports) + 1

(* The inductive invariant: no part is inductive alone.  That a finished   *)
(* module is new to the cache follows from the path below it, from the     *)
(* maps of the parsers on it and from StackNotCached itself.               *)
IInv == TypeOK /\ StackIsPath /\ MapsAreLoaded /\ CacheIsClosed /\ StackNotCached

-----------------------------------------------------------------------------
(* The invariant by frames.                                                *)

LEMMA PathByFrames ==
  StackIsPath <=> /\ Len(stack) > 0
                  /\ stack[1].file = Main
                  /\ \A i \in 1..(Len(stack) - 1) : Awaits(tree, stack[i], stack[i + 1].file)
BY DEF StackIsPath, Awaits, Depth, Imports

LEMMA MapsByFrames ==
  MapsAreLoaded <=> \A i \in 1..Len(stack) : Loaded(tree, stack[i], cache)
BY DEF MapsAreLoaded, Loaded, Depth, Imports

(* The same in the next state, which has the same tree.                    *)
LEMMA NextByFrames ==
  ASSUME tree' = tree
  PROVE  /\ StackIsPath' <=>
              /\ Len(stack') > 0
              /\ stack'[1].file = Main
              /\ \A i \in 1..(Len(stack') - 1) : Awaits(tree, stack'[i], stack'[i + 1].file)
         /\ MapsAreLoaded' <=> \A i \in 1..Len(stack') : Loaded(tree, stack'[i], cache')
<1>1. StackIsPath' <=>
              /\ Len(stack') > 0
              /\ stack'[1].file = Main
              /\ \A i \in 1..(Len(stack') - 1) : Awaits(tree, stack'[i], stack'[i + 1].file)
  BY DEF StackIsPath, Awaits, Depth, Imports
<1>2. MapsAreLoaded' <=> \A i \in 1..Len(stack') : Loaded(tree, stack'[i], cache')
  BY DEF MapsAreLoaded, Loaded, Depth, Imports
<1>3. QED
  BY <1>1, <1>2

(* What a step may rely on.                                                *)
LEMMA TopFacts ==
  ASSUME IInv
  PROVE  /\ stack \in Seq(Frames) /\ Len(stack) \in Nat /\ Len(stack) > 0
         /\ Len(stack) \in 1..Len(stack)
         /\ Top = stack[Len(stack)] /\ Top \in Frames
         /\ tree \in [Files -> Sources] /\ cache \in SUBSET Modules
BY DEF IInv, TypeOK, StackIsPath, Depth, Top

LEMMA ImportsAreModules ==
  ASSUME tree \in [Files -> Sources], NEW f \in Files
  PROVE  /\ tree[f].imports \in Seq(Modules)
         /\ Len(tree[f].imports) \in Nat
         /\ \A k \in 1..Len(tree[f].imports) : tree[f].imports[k] \in Modules
BY DEF Sources

LEMMA FrameTypes ==
  ASSUME NEW fr \in Frames
  PROVE  /\ fr.file \in Files /\ fr.next \in Nat /\ fr.next > 0
         /\ fr.imps \in SUBSET Modules /\ fr.defs \in BOOLEAN /\ fr.oldenv \in Envs
BY DEF Frames

(* imports_register on a map that is in step with its import lines.        *)
LEMMA RegisteredFrame ==
  ASSUME tree \in [Files -> Sources], NEW fr \in Frames, NEW m, NEW c, NEW d,
         Awaits(tree, fr, m), Loaded(tree, fr, c), c \subseteq d, m \in d
  PROVE  /\ m \in Modules
         /\ Registered(fr, m) \in Frames
         /\ Registered(fr, m).file = fr.file
         /\ Loaded(tree, Registered(fr, m), d)
<1> DEFINE s == tree[fr.file].imports
           r == Registered(fr, m)
<1>1. /\ s \in Seq(Modules) /\ Len(s) \in Nat
      /\ fr.next \in Nat /\ fr.next > 0 /\ fr.imps \in SUBSET Modules
  BY ImportsAreModules, FrameTypes
<1>2. fr.next <= Len(s) /\ m = s[fr.next] /\ ~fr.defs
  BY DEF Awaits
<1>3. fr.next \in 1..Len(s)
  BY <1>1, <1>2
<1>4. m \in Modules
  BY <1>2, <1>3, ImportsAreModules, FrameTypes
<1>5. /\ r.file = fr.file /\ r.next = fr.next + 1 /\ r.imps = fr.imps \cup {m}
      /\ r.defs = fr.defs
      /\ r \in Frames
  <2>1. fr.next + 1 \in Nat \ {0} /\ fr.imps \cup {m} \in SUBSET Modules
    BY <1>1, <1>4
  <2>2. QED
    BY <2>1 DEF Registered, Frames
<1>6. fr.imps = {s[k] : k \in 1..(fr.next - 1)} /\ fr.imps \subseteq c
  BY DEF Loaded
<1>7. 1..(r.next - 1) = 1..(fr.next - 1) \cup {fr.next}
  BY <1>1, <1>5
<1>8. r.imps = {s[k] : k \in 1..(r.next - 1)}
  BY <1>2, <1>5, <1>6, <1>7, ZenonT(30)
<1>9. r.next <= Len(s) + 1
  <2>1. fr.next \in Nat /\ fr.next <= Len(s)
    BY <1>1, <1>2
  <2>2. QED
    BY <1>5, <2>1
<1>10. Loaded(tree, r, d)
  BY <1>2, <1>5, <1>6, <1>8, <1>9, ZenonT(30) DEF Loaded
<1>11. QED
  BY <1>4, <1>5, <1>10

-----------------------------------------------------------------------------
(* The ways a step changes the stack and the cache.                        *)

Structure == /\ stack \in Seq(Frames)
             /\ StackIsPath
             /\ MapsAreLoaded
             /\ CacheIsClosed
             /\ StackNotCached

LEMMA NothingMoves ==
  ASSUME IInv, UNCHANGED <<tree, stack, cache>>
  PROVE  Structure'
BY DEF IInv, TypeOK, Structure, StackIsPath, MapsAreLoaded, CacheIsClosed,
       StackNotCached, Depth, Imports, ImportSet

LEMMA ClosedAsBefore ==
  ASSUME CacheIsClosed, UNCHANGED <<tree, cache>>
  PROVE  CacheIsClosed'
BY DEF CacheIsClosed, ImportSet, Imports

(* The parser on top has read one more import, or all of them.             *)
LEMMA TopMoves ==
  ASSUME IInv, NEW fr \in Frames, fr.file = Top.file, Loaded(tree, fr, cache),
         stack' = [stack EXCEPT ![Len(stack)] = fr],
         UNCHANGED <<tree, cache>>
  PROVE  Structure'
<1>1. /\ Len(stack) \in Nat /\ Len(stack) > 0 /\ Len(stack) \in 1..Len(stack)
      /\ stack \in Seq(Frames) /\ Top = stack[Len(stack)]
  BY TopFacts
<1>2. /\ stack' \in Seq(Frames) /\ Len(stack') = Len(stack)
      /\ \A i \in 1..Len(stack) : stack'[i] = IF i = Len(stack) THEN fr ELSE stack[i]
  BY <1>1
<1>3. \A i \in 1..Len(stack) : stack'[i].file = stack[i].file
  BY <1>1, <1>2
<1>4. StackIsPath'
  <2>1. \A i \in 1..(Len(stack) - 1) :
          /\ i \in 1..Len(stack) /\ i # Len(stack)
          /\ i + 1 \in 1..Len(stack)
    BY <1>1
  <2>2. \A i \in 1..(Len(stack) - 1) : Awaits(tree, stack'[i], stack'[i + 1].file)
    BY <1>2, <1>3, <2>1, PathByFrames DEF IInv
  <2>3. stack'[1].file = Main
    <3>1. 1 \in 1..Len(stack)
      BY <1>1
    <3>2. QED
      BY <1>3, <3>1 DEF IInv, StackIsPath
  <2>4. QED
    BY <1>1, <1>2, <2>2, <2>3, NextByFrames
<1>5. MapsAreLoaded'
  BY <1>2, MapsByFrames, NextByFrames DEF IInv
<1>6. StackNotCached'
  <2>1. \A i \in 1..Len(stack) : stack[i].file \notin cache
    BY DEF IInv, StackNotCached, Depth
  <2>2. ASSUME NEW i \in 1..Len(stack')
        PROVE  stack'[i].file \notin cache'
    <3>1. i \in 1..Len(stack)
      BY <1>2
    <3>2. stack'[i].file = stack[i].file
      BY <1>3, <3>1
    <3>3. QED
      BY <2>1, <3>1, <3>2
  <2>3. QED
    BY <2>2 DEF StackNotCached, Depth
<1>7. QED
  BY <1>2, <1>4, <1>5, <1>6, ClosedAsBefore DEF IInv, Structure

(* A parser is entered for a module that is not in the cache.              *)
LEMMA ParserEntered ==
  ASSUME IInv, NEW m \in Modules, NEW fr \in Frames,
         m \notin cache, Awaits(tree, Top, m),
         fr.file = m, fr.next = 1, fr.imps = {}, fr.defs = FALSE,
         stack' = Append(stack, fr),
         UNCHANGED <<tree, cache>>
  PROVE  Structure'
<1>1. /\ Len(stack) \in Nat /\ Len(stack) > 0 /\ Len(stack) \in 1..Len(stack)
      /\ stack \in Seq(Frames) /\ Top = stack[Len(stack)]
      /\ tree \in [Files -> Sources]
  BY TopFacts
<1>2. /\ stack' \in Seq(Frames) /\ Len(stack') = Len(stack) + 1
      /\ \A i \in 1..Len(stack) : stack'[i] = stack[i]
      /\ stack'[Len(stack) + 1] = fr
  BY <1>1
<1>3. \A i \in 1..Len(stack') : i \in 1..Len(stack) \/ i = Len(stack) + 1
  BY <1>1, <1>2
<1>4. Loaded(tree, fr, cache)
  <2>1. Len(tree[m].imports) \in Nat
    BY <1>1, ImportsAreModules DEF Files
  <2>2. 1 <= Len(tree[m].imports) + 1 /\ 1..(1 - 1) = {}
    BY <2>1
  <2>3. QED
    BY <2>2 DEF Loaded
<1>5. StackIsPath'
  <2>1. \A i \in 1..(Len(stack') - 1) :
          \/ i \in 1..(Len(stack) - 1) /\ i \in 1..Len(stack) /\ i + 1 \in 1..Len(stack)
          \/ i = Len(stack)
    BY <1>1, <1>2
  <2>2. ASSUME NEW i \in 1..(Len(stack') - 1)
        PROVE  Awaits(tree, stack'[i], stack'[i + 1].file)
    <3>1. CASE i \in 1..(Len(stack) - 1) /\ i \in 1..Len(stack) /\ i + 1 \in 1..Len(stack)
      BY <1>2, <3>1, PathByFrames DEF IInv
    <3>2. CASE i = Len(stack)
      BY <1>1, <1>2, <3>2
    <3>3. QED
      BY <2>1, <3>1, <3>2
  <2>3. stack'[1].file = Main
    <3>1. 1 \in 1..Len(stack)
      BY <1>1
    <3>2. QED
      BY <1>2, <3>1 DEF IInv, StackIsPath
  <2>4. Len(stack') > 0
    BY <1>1, <1>2
  <2>5. QED
    BY <2>2, <2>3, <2>4, NextByFrames
<1>6. MapsAreLoaded'
  BY <1>2, <1>3, <1>4, MapsByFrames, NextByFrames DEF IInv
<1>7. StackNotCached'
  BY <1>2, <1>3 DEF IInv, StackNotCached, Depth
<1>8. QED
  BY <1>2, <1>5, <1>6, <1>7, ClosedAsBefore DEF IInv, Structure

(* When a module is finished, no parser below works on the same one: it    *)
(* would wait for a module that is in the cache, for all imports of the    *)
(* finished one are, and so would be that parser's own successor.          *)
LEMMA FinishedIsNew ==
  ASSUME IInv, Top.defs
  PROVE  /\ \A i \in 1..(Len(stack) - 1) : stack[i].file # Top.file
         /\ Top.file \notin cache
         /\ ImportSet(Top.file) \subseteq cache
<1>1. /\ Len(stack) \in Nat /\ Len(stack) > 0 /\ Len(stack) \in 1..Len(stack)
      /\ stack \in Seq(Frames) /\ Top = stack[Len(stack)] /\ Top \in Frames
      /\ tree \in [Files -> Sources]
  BY TopFacts
<1> DEFINE s == tree[Top.file].imports
<1>2. ImportSet(Top.file) \subseteq cache
  <2>1. Loaded(tree, Top, cache)
    BY <1>1, MapsByFrames DEF IInv
  <2>2. Len(s) \in Nat
    BY <1>1, ImportsAreModules, FrameTypes
  <2>3. Top.next - 1 = Len(s)
    BY <2>1, <2>2 DEF Loaded
  <2>4. QED
    BY <2>1, <2>3 DEF Loaded, ImportSet, Imports
<1>3. ASSUME NEW i \in 1..(Len(stack) - 1), stack[i].file = Top.file
      PROVE  FALSE
  <2>1. Awaits(tree, stack[i], stack[i + 1].file)
    BY PathByFrames DEF IInv
  <2>2. i \in 1..Len(stack) /\ i + 1 \in 1..Len(stack) /\ stack[i] \in Frames
    BY <1>1
  <2>3. stack[i].next \in 1..Len(s)
    BY <1>1, <1>3, <2>1, <2>2, FrameTypes, ImportsAreModules DEF Awaits
  <2>4. stack[i + 1].file \in ImportSet(Top.file)
    BY <1>3, <2>1, <2>3 DEF Awaits, ImportSet, Imports
  <2>5. QED
    BY <1>2, <2>2, <2>4 DEF IInv, StackNotCached, Depth
<1>4. QED
  BY <1>1, <1>2, <1>3 DEF IInv, StackNotCached, Depth

(* The finished module goes into the cache and into its caller's map.      *)
LEMMA ModuleFinished ==
  ASSUME IInv, Len(stack) > 1, Top.defs,
         cache' = cache \cup {Top.file},
         stack' = [i \in 1..(Len(stack) - 1) |->
                     IF i = Len(stack) - 1 THEN Registered(stack[i], Top.file)
                                           ELSE stack[i]],
         tree' = tree
  PROVE  Structure' /\ Top.file \in Modules
<1> DEFINE n == Len(stack) - 1
<1>1. /\ Len(stack) \in Nat /\ Len(stack) > 0 /\ Len(stack) \in 1..Len(stack)
      /\ stack \in Seq(Frames) /\ Top = stack[Len(stack)]
      /\ tree \in [Files -> Sources] /\ cache \in SUBSET Modules
  BY TopFacts
<1>2. /\ n \in Nat /\ n \in 1..n /\ n + 1 = Len(stack) /\ 1 \in 1..n
      /\ \A i \in 1..n : i \in 1..Len(stack) /\ stack[i] \in Frames
  BY <1>1
<1>3. Awaits(tree, stack[n], Top.file) /\ Loaded(tree, stack[n], cache)
  BY <1>1, <1>2, PathByFrames, MapsByFrames DEF IInv
<1> DEFINE r == Registered(stack[n], Top.file)
<1>4. /\ Top.file \in Modules
      /\ r \in Frames /\ r.file = stack[n].file
      /\ Loaded(tree, r, cache')
  <2>1. cache \subseteq cache' /\ Top.file \in cache' /\ stack[n] \in Frames
    BY <1>2
  <2> DEFINE fr == stack[n]
             m == Top.file
             d == cache'
  <2>2. /\ tree \in [Files -> Sources] /\ fr \in Frames
        /\ Awaits(tree, fr, m) /\ Loaded(tree, fr, cache)
        /\ cache \subseteq d /\ m \in d
    BY <1>1, <1>3, <2>1
  <2> HIDE DEF fr, m, d
  <2>3. /\ m \in Modules
        /\ Registered(fr, m) \in Frames
        /\ Registered(fr, m).file = fr.file
        /\ Loaded(tree, Registered(fr, m), d)
    BY <2>2, RegisteredFrame
  <2>4. QED
    BY <2>3 DEF fr, m, d
<1>5. stack' = [i \in 1..n |-> IF i = n THEN r ELSE stack[i]]
  OBVIOUS
<1> HIDE DEF r, n
<1>6. /\ stack' \in Seq(Frames) /\ Len(stack') = n
      /\ \A i \in 1..n : stack'[i] = IF i = n THEN r ELSE stack[i]
  BY <1>2, <1>4, <1>5
<1>7. ASSUME NEW i \in 1..n PROVE stack'[i].file = stack[i].file
  <2>1. CASE i = n
    <3>1. stack'[i] = r
      BY <1>6, <2>1
    <3>2. QED
      BY <1>4, <2>1, <3>1
  <2>2. CASE i # n
    <3>1. stack'[i] = stack[i]
      BY <1>6, <2>2
    <3>2. QED
      BY <3>1
  <2>3. QED
    BY <2>1, <2>2
<1>8. StackIsPath'
  <2>1. \A i \in 1..(n - 1) :
          /\ i \in 1..n /\ i # n /\ i + 1 \in 1..n
          /\ i \in 1..(Len(stack) - 1)
    BY <1>1, <1>2
  <2>2. \A i \in 1..(n - 1) : Awaits(tree, stack'[i], stack'[i + 1].file)
    BY <1>6, <1>7, <2>1, PathByFrames DEF IInv
  <2>3. stack'[1].file = Main
    BY <1>2, <1>7 DEF IInv, StackIsPath
  <2>4. Len(stack') > 0
    BY <1>2, <1>6
  <2>5. QED
    BY <1>6, <2>2, <2>3, <2>4, NextByFrames
<1>9. MapsAreLoaded'
  <2>1. ASSUME NEW i \in 1..n
        PROVE  Loaded(tree, stack'[i], cache')
    <3>1. CASE i = n
      BY <1>4, <1>6, <3>1
    <3>2. CASE i # n
      <4>1. stack'[i] = stack[i] /\ Loaded(tree, stack[i], cache)
        BY <1>2, <1>6, <3>2, MapsByFrames DEF IInv
      <4>2. QED
        BY <4>1, ZenonT(30) DEF Loaded
    <3>3. QED
      BY <3>1, <3>2
  <2>2. QED
    BY <1>6, <2>1, NextByFrames
<1>10. CacheIsClosed'
  <2>1. \A f \in Files : ImportSet(f)' = ImportSet(f)
    BY DEF ImportSet, Imports
  <2>2. \A f \in cache \cup {Top.file} : ImportSet(f) \subseteq cache
    BY FinishedIsNew DEF IInv, CacheIsClosed
  <2>3. QED
    BY <1>1, <1>4, <2>1, <2>2 DEF CacheIsClosed, Files
<1>11. StackNotCached'
  <2>1. \A i \in 1..n : stack[i].file \notin cache /\ stack[i].file # Top.file
    BY <1>2, FinishedIsNew DEF IInv, StackNotCached, Depth, n
  <2>2. ASSUME NEW i \in 1..Len(stack')
        PROVE  stack'[i].file \notin cache'
    <3>1. i \in 1..n
      BY <1>6
    <3>2. stack'[i].file = stack[i].file
      BY <1>7, <3>1
    <3>3. QED
      BY <2>1, <3>1, <3>2
  <2>3. QED
    BY <2>2 DEF StackNotCached, Depth
<1>12. QED
  BY <1>4, <1>6, <1>8, <1>9, <1>10, <1>11 DEF Structure

-----------------------------------------------------------------------------
(* Every action.                                                           *)

LEMMA ContextType ==
  ASSUME NEW f \in Files, NEW n \in Nat
  PROVE  [filename |-> f, line |-> n] \in Envs
BY DEF Envs

LEMMA AtImportFacts ==
  ASSUME IInv, NEW m, AtImport(m)
  PROVE  /\ Awaits(tree, Top, m)
         /\ Loaded(tree, Top, cache)
         /\ Top.file \in Files
BY TopFacts, MapsByFrames, FrameTypes DEF IInv, AtImport, Awaits, Imports

LEMMA EnterKeepsStructure ==
  ASSUME IInv, NEW m \in Modules, Enter(m)
  PROVE  Structure' /\ env' \in Envs /\ tree' = tree /\ cache' = cache
<1> DEFINE fr == Frame(m, [env EXCEPT !.filename = m])
<1>1. /\ AtImport(m) /\ m \notin cache /\ stack' = Append(stack, fr)
      /\ env' = [filename |-> m, line |-> Len(stack) + 1]
      /\ UNCHANGED <<tree, cache>>
  BY DEF Enter, Unknown, Callers, Depth
<1>2. env \in Envs /\ Len(stack) \in Nat
  BY TopFacts DEF IInv, TypeOK
<1>3. m \in Files
  BY DEF Files
<1>4. /\ fr.file = m /\ fr.next = 1 /\ fr.imps = {} /\ fr.defs = FALSE
      /\ fr \in Frames
  BY <1>2, <1>3 DEF Frame, Frames, Envs
<1>5. Awaits(tree, Top, m)
  BY <1>1, AtImportFacts
<1> HIDE DEF fr
<1>6. Structure'
  BY <1>1, <1>4, <1>5, ParserEntered
<1>7. QED
  BY <1>1, <1>2, <1>3, <1>6, ContextType

LEMMA TypeByParts ==
  ASSUME Structure', tree' = tree, tree \in [Files -> Sources],
         cache' \in SUBSET Modules, opened' \in 0..MaxFiles,
         env' \in Envs, outcome' \in Outcomes
  PROVE  IInv'
BY DEF Structure, IInv, TypeOK

LEMMA NextKeepsIInv == IInv /\ Next => IInv'
<1> SUFFICES ASSUME IInv, Next PROVE IInv'
  OBVIOUS
<1>1. /\ tree \in [Files -> Sources] /\ cache \in SUBSET Modules
      /\ opened \in 0..MaxFiles /\ env \in Envs /\ outcome \in Outcomes
      /\ Len(stack) \in Nat /\ Len(stack) > 0 /\ Top \in Frames
      /\ Top = stack[Len(stack)]
  BY TopFacts DEF IInv, TypeOK
<1>2. ASSUME NEW why \in Outcomes, Stop(why) PROVE IInv'
  BY <1>1, <1>2, NothingMoves, TypeByParts DEF Stop
<1>3. ASSUME NEW m \in Modules, ImportTwice(m) PROVE IInv'
  BY <1>2, <1>3 DEF ImportTwice, Outcomes
<1>4. ASSUME NEW m \in Modules, ImportCached(m) PROVE IInv'
  <2> DEFINE fr == Registered(Top, m)
  <2>1. /\ AtImport(m) /\ m \in cache
        /\ stack' = [stack EXCEPT ![Len(stack)] = fr]
        /\ env' = [filename |-> m, line |-> Len(stack)]
        /\ UNCHANGED <<tree, cache, opened, outcome>>
    BY <1>1, <1>4 DEF ImportCached, Depth
  <2>2. fr \in Frames /\ fr.file = Top.file /\ Loaded(tree, fr, cache)
    BY <1>1, <2>1, AtImportFacts, RegisteredFrame
  <2> HIDE DEF fr
  <2>3. Structure'
    BY <2>1, <2>2, TopMoves
  <2>4. env' \in Envs
    BY <1>1, <2>1, ContextType DEF Files
  <2>5. QED
    BY <1>1, <2>1, <2>3, <2>4, TypeByParts
<1>5. ASSUME NEW m \in Modules, ImportMissing(m) PROVE IInv'
  <2>1. /\ env' = [filename |-> m, line |-> Len(stack)]
        /\ outcome' = "missing"
        /\ UNCHANGED <<tree, stack, cache, opened>>
    BY <1>5 DEF ImportMissing, Depth
  <2>2. env' \in Envs /\ outcome' \in Outcomes
    BY <1>1, <2>1, ContextType DEF Files, Outcomes
  <2>3. QED
    BY <1>1, <2>1, <2>2, NothingMoves, TypeByParts
<1>6. ASSUME NEW m \in Modules, ImportOpen(m) PROVE IInv'
  <2>1. Enter(m) /\ opened' = opened + 1 /\ opened < MaxFiles /\ outcome' = outcome
    BY <1>6 DEF ImportOpen, CanOpen
  <2>2. opened' \in 0..MaxFiles
    BY <1>1, <2>1, ImporterAssumption
  <2>3. QED
    BY <1>1, <2>1, <2>2, EnterKeepsStructure, TypeByParts
<1>7. ASSUME NEW m \in Modules, ImportUnopened(m) PROVE IInv'
  <2>1. Enter(m) /\ opened' = opened /\ outcome' = "unopened"
    BY <1>7 DEF ImportUnopened
  <2>2. outcome' \in Outcomes
    BY <2>1 DEF Outcomes
  <2>3. QED
    BY <1>1, <2>1, <2>2, EnterKeepsStructure, TypeByParts
<1>8. CASE BadImport \/ BadDefinition \/ FinishMain \/ RejectModule
  BY <1>2, <1>8 DEF BadImport, BadDefinition, FinishMain, RejectModule, Outcomes
<1>9. CASE BeginDefinitions
  <2> DEFINE fr == [Top EXCEPT !.defs = TRUE]
  <2>1. /\ stack' = [stack EXCEPT ![Len(stack)] = fr]
        /\ env' = [env EXCEPT !.filename = Top.file]
        /\ Top.next > Len(tree[Top.file].imports)
        /\ UNCHANGED <<tree, cache, opened, outcome>>
    BY <1>1, <1>9 DEF BeginDefinitions, Depth, ImportsRead, Imports
  <2>2. /\ fr \in Frames /\ fr.file = Top.file /\ fr.next = Top.next
        /\ fr.imps = Top.imps
    BY <1>1 DEF Frames
  <2>3. Loaded(tree, Top, cache)
    BY TopFacts, MapsByFrames DEF IInv
  <2>4. Top.next = Len(tree[Top.file].imports) + 1
    BY <1>1, <2>1, <2>3, ImportsAreModules, FrameTypes DEF Loaded
  <2> HIDE DEF fr
  <2>5. Loaded(tree, fr, cache)
    BY <2>2, <2>3, <2>4 DEF Loaded
  <2>6. Structure'
    BY <2>1, <2>2, <2>5, TopMoves
  <2>7. env' \in Envs
    BY <1>1, <2>1, FrameTypes DEF Envs
  <2>8. QED
    BY <1>1, <2>1, <2>6, <2>7, TypeByParts
<1>10. CASE FinishModule
  <2>1. /\ Len(stack) > 1 /\ Top.defs
        /\ cache' = cache \cup {Top.file}
        /\ stack' = [i \in 1..(Len(stack) - 1) |->
                       IF i = Len(stack) - 1 THEN Registered(stack[i], Top.file)
                                             ELSE stack[i]]
        /\ env' = [Top.oldenv EXCEPT !.line = Len(stack) - 1]
        /\ UNCHANGED <<tree, opened, outcome>>
    BY <1>10 DEF FinishModule, CacheWith, CallerContext, Depth
  <2>2. Structure' /\ Top.file \in Modules
    BY <2>1, ModuleFinished
  <2>3. env' \in Envs
    <3>1. Len(stack) - 1 \in Nat /\ Top.oldenv \in Envs
      BY <1>1, FrameTypes
    <3>2. QED
      BY <2>1, <3>1 DEF Envs
  <2>4. QED
    BY <1>1, <2>1, <2>2, <2>3, TypeByParts
<1>11. QED
  BY <1>3, <1>4, <1>5, <1>6, <1>7, <1>8, <1>9, <1>10 DEF Next

LEMMA InitialIInv == Init => IInv
<1> SUFFICES ASSUME Init PROVE IInv
  OBVIOUS
<1> DEFINE e == [filename |-> NoFile, line |-> 0]
           fr == Frame(Main, e)
<1>1. /\ stack = <<fr>> /\ cache = {} /\ tree \in Trees
      /\ opened = 0 /\ env = [filename |-> Main, line |-> 1] /\ outcome = "running"
  BY DEF Init
<1>2. tree \in [Files -> Sources] /\ Main \in Files
  BY <1>1, ImporterAssumption DEF Files
<1>3. e \in Envs /\ env \in Envs
  BY <1>1, <1>2 DEF Envs
<1>4. /\ fr.file = Main /\ fr.next = 1 /\ fr.imps = {} /\ fr.defs = FALSE
      /\ fr \in Frames
  BY <1>2, <1>3 DEF Frame, Frames
<1> HIDE DEF fr
<1>5. stack \in Seq(Frames) /\ Len(stack) = 1 /\ \A i \in 1..Len(stack) : stack[i] = fr
  BY <1>1, <1>4
<1>6. Loaded(tree, fr, cache)
  <2>1. Len(tree[Main].imports) \in Nat
    BY <1>2, ImportsAreModules
  <2>2. 1 <= Len(tree[Main].imports) + 1 /\ 1..(1 - 1) = {}
    BY <2>1
  <2>3. QED
    BY <1>4, <2>2 DEF Loaded
<1>7. StackIsPath
  <2>1. 1 \in 1..Len(stack) /\ 1..(Len(stack) - 1) = {} /\ Len(stack) > 0
    BY <1>5
  <2>2. QED
    BY <1>4, <1>5, <2>1, PathByFrames
<1>8. MapsAreLoaded
  BY <1>5, <1>6, MapsByFrames
<1>9. CacheIsClosed /\ StackNotCached
  BY <1>1 DEF CacheIsClosed, StackNotCached
<1>10. TypeOK
  <2>1. opened \in 0..MaxFiles /\ outcome \in Outcomes
    BY <1>1, ImporterAssumption DEF Outcomes
  <2>2. QED
    BY <1>1, <1>2, <1>3, <1>5, <2>1 DEF TypeOK
<1>11. QED
  BY <1>7, <1>8, <1>9, <1>10 DEF IInv

LEMMA StutteringKeepsIInv == IInv /\ UNCHANGED vars => IInv'
<1> SUFFICES ASSUME IInv, UNCHANGED vars PROVE IInv'
  OBVIOUS
<1>1. /\ UNCHANGED <<tree, stack, cache>>
      /\ opened' = opened /\ env' = env /\ outcome' = outcome
  BY DEF vars
<1>2. QED
  BY <1>1, NothingMoves, TypeByParts DEF IInv, TypeOK

(* The invariant holds for all modules, source trees and file bounds.      *)
THEOREM Invariance == Spec => []IInv
<1>1. IInv /\ [Next]_vars => IInv'
  BY NextKeepsIInv, StutteringKeepsIInv
<1>2. QED
  BY <1>1, InitialIInv, PTL DEF Spec

-----------------------------------------------------------------------------

(* The importer's variables keep their types.                              *)
THEOREM TypeCorrect == Spec => []TypeOK
<1>1. IInv => TypeOK
  BY DEF IInv
<1>2. QED
  BY <1>1, Invariance, PTL

(* The nested calls of parser_parse() follow import lines.                 *)
THEOREM PathOfImports == Spec => []StackIsPath
<1>1. IInv => StackIsPath
  BY DEF IInv
<1>2. QED
  BY <1>1, Invariance, PTL

(* A file's Imports map holds what it imported so far, parsed to the end.  *)
THEOREM ImportMapsAreLoaded == Spec => []MapsAreLoaded
<1>1. IInv => MapsAreLoaded
  BY DEF IInv
<1>2. QED
  BY <1>1, Invariance, PTL

(* What importer_import hands out was parsed with all its imports.         *)
THEOREM ClosedCache == Spec => []CacheIsClosed
<1>1. IInv => CacheIsClosed
  BY DEF IInv
<1>2. QED
  BY <1>1, Invariance, PTL

(* No module is parsed that the cache already has.                         *)
THEOREM NeverParsedAgain == Spec => []StackNotCached
<1>1. IInv => StackNotCached
  BY DEF IInv
<1>2. QED
  BY <1>1, Invariance, PTL

(* Together: the recursion through parser_parse hands out whole modules    *)
(* only, and parses none again.                                            *)
THEOREM SoundImports == Spec => []ImportsAreSound
<1>1. IInv => ImportsAreSound
  BY DEF IInv, ImportsAreSound
<1>2. QED
  BY <1>1, Invariance, PTL

-----------------------------------------------------------------------------
(* The importer implements LoadOrder.                                      *)

LEMMA DepsKept ==
  ASSUME tree' = tree
  PROVE  Deps' = Deps
BY DEF Deps, ImportSet, Imports

LEMMA InitLoads == IInv /\ Init => Load!Init
<1> SUFFICES ASSUME IInv, Init PROVE Load!Init
  OBVIOUS
<1>1. ASSUME NEW m \in Modules PROVE ImportSet(m) \in SUBSET Modules
  <2>1. m \in Files /\ tree \in [Files -> Sources]
    BY TopFacts DEF Files
  <2>2. QED
    BY <2>1, ImportsAreModules DEF ImportSet, Imports
<1>2. Deps \in [Modules -> SUBSET Modules]
  BY <1>1 DEF Deps
<1>3. QED
  BY <1>2 DEF Init, Load!Init

(* Finishing a module loads it; every other step leaves the cache alone.   *)
LEMMA StepLoads == IInv /\ [Next]_vars => [Load!Next]_(Load!vars)
<1> SUFFICES ASSUME IInv, [Next]_vars PROVE [Load!Next]_(Load!vars)
  OBVIOUS
<1>1. tree' = tree
  BY DEF Next, vars, ImportTwice, ImportCached, ImportMissing, ImportOpen,
         ImportUnopened, Enter, BadImport, BeginDefinitions, BadDefinition,
         FinishMain, RejectModule, FinishModule, Stop
<1>2. Deps' = Deps
  BY <1>1, DepsKept
<1>3. CASE FinishModule
  <2>1. /\ Len(stack) > 1 /\ Top.defs
        /\ cache' = cache \cup {Top.file}
        /\ stack' = [i \in 1..(Len(stack) - 1) |->
                       IF i = Len(stack) - 1 THEN Registered(stack[i], Top.file)
                                             ELSE stack[i]]
    BY <1>3 DEF FinishModule, CacheWith, Depth
  <2>2. Top.file \in Modules
    BY <1>1, <2>1, ModuleFinished
  <2>3. Top.file \notin cache /\ Deps[Top.file] \subseteq cache
    BY <2>1, <2>2, FinishedIsNew DEF Deps
  <2>4. Load!Load(Top.file)
    BY <1>2, <2>1, <2>3 DEF Load!Load
  <2>5. QED
    BY <2>2, <2>4 DEF Load!Next
<1>4. CASE ~FinishModule
  <2>1. cache' = cache
    BY <1>4 DEF Next, vars, ImportTwice, ImportCached, ImportMissing, ImportOpen,
         ImportUnopened, Enter, BadImport, BeginDefinitions, BadDefinition,
         FinishMain, RejectModule, Stop
  <2>2. QED
    BY <1>2, <2>1 DEF Load!vars
<1>5. QED
  BY <1>3, <1>4

(* Modules become available one at a time, each once, after its imports.   *)
THEOREM Implementation == Spec => LoadsInOrder
<1>1. Spec => []IInv
  BY Invariance
<1>2. Init => Load!Init
  BY InitLoads, InitialIInv
<1>3. QED
  BY <1>1, <1>2, StepLoads, PTL DEF Spec, LoadsInOrder, Load!Spec

-----------------------------------------------------------------------------
(* Where the descriptors went.                                             *)

DInv == IsFiniteSet(cache) /\ DescriptorsAccounted

LEMMA StepAccounts == IInv /\ DInv /\ [Next]_vars => DInv'
<1> SUFFICES ASSUME IInv, DInv, [Next]_vars PROVE DInv'
  OBVIOUS
<1>1. /\ Len(stack) \in Nat /\ Len(stack) > 0 /\ stack \in Seq(Frames)
      /\ IsFiniteSet(cache) /\ Cardinality(cache) \in Nat /\ opened \in Int
      /\ outcome # "unopened" => opened = Cardinality(cache) + Len(stack) - 1
  BY TopFacts, FS_CardinalityType DEF DInv, DescriptorsAccounted, Depth, IInv, TypeOK
<1>2. ASSUME UNCHANGED <<cache, opened>>, Len(stack') = Len(stack),
             outcome' = "unopened" \/ outcome # "unopened" \/ outcome' = outcome
      PROVE  DInv'
  BY <1>1, <1>2 DEF DInv, DescriptorsAccounted, Depth
<1>3. ASSUME NEW why, Stop(why), outcome = "running"
      PROVE  DInv'
  BY <1>2, <1>3 DEF Stop
<1>4. ASSUME NEW m \in Modules, ImportCached(m)
      PROVE  DInv'
  <2>1. Len(stack') = Len(stack)
    BY <1>1, <1>4 DEF ImportCached
  <2>2. QED
    BY <1>2, <1>4, <2>1 DEF ImportCached
<1>5. ASSUME NEW m \in Modules, ImportOpen(m)
      PROVE  DInv'
  <2>1. /\ Len(stack') = Len(stack) + 1 /\ opened' = opened + 1 /\ cache' = cache
        /\ outcome = "running"
    BY <1>1, <1>5 DEF ImportOpen, Enter, Callers, AtImport
  <2>2. opened' = Cardinality(cache) + Len(stack') - 1
    BY <1>1, <2>1
  <2>3. QED
    BY <1>1, <2>1, <2>2 DEF DInv, DescriptorsAccounted, Depth
<1>6. ASSUME NEW m \in Modules, ImportUnopened(m)
      PROVE  DInv'
  BY <1>1, <1>6 DEF ImportUnopened, Enter, DInv, DescriptorsAccounted
<1>7. CASE FinishModule
  <2>1. /\ cache' = cache \cup {Top.file} /\ Len(stack) > 1 /\ Top.defs
        /\ stack' = [i \in 1..(Len(stack) - 1) |->
                       IF i = Len(stack) - 1 THEN Registered(stack[i], Top.file)
                                             ELSE stack[i]]
        /\ opened' = opened /\ outcome' = "running" /\ outcome = "running"
        /\ tree' = tree
    BY <1>7 DEF FinishModule, CacheWith, Depth
  <2>2. stack' \in Seq(Frames) /\ DOMAIN stack' = 1..(Len(stack) - 1)
    BY <2>1, ModuleFinished DEF Structure
  <2>3. Len(stack') = Len(stack) - 1
    BY <1>1, <2>2
  <2>4. Top.file \notin cache
    BY <2>1, FinishedIsNew
  <2>5. IsFiniteSet(cache') /\ Cardinality(cache') = Cardinality(cache) + 1
    BY <1>1, <2>1, <2>4, FS_AddElement
  <2>6. opened' = Cardinality(cache') + Len(stack') - 1
    BY <1>1, <2>1, <2>3, <2>5
  <2>7. QED
    BY <2>5, <2>6 DEF DInv, DescriptorsAccounted, Depth
<1>8. ASSUME NEW m \in Modules, ImportTwice(m) \/ ImportMissing(m)
      PROVE  DInv'
  BY <1>2, <1>3, <1>8 DEF ImportTwice, ImportMissing, AtImport
<1>9. CASE BadImport \/ BadDefinition \/ FinishMain \/ RejectModule
  BY <1>3, <1>9 DEF BadImport, BadDefinition, FinishMain, RejectModule
<1>10. CASE BeginDefinitions
  <2>1. Len(stack') = Len(stack)
    BY <1>1, <1>10 DEF BeginDefinitions
  <2>2. QED
    BY <1>2, <1>10, <2>1 DEF BeginDefinitions
<1>11. CASE UNCHANGED vars
  BY <1>2, <1>11 DEF vars
<1>12. QED
  BY <1>4, <1>5, <1>6, <1>7, <1>8, <1>9, <1>10, <1>11 DEF Next

LEMMA InitialDInv == Init => DInv
<1> SUFFICES ASSUME Init PROVE DInv
  OBVIOUS
<1>1. IsFiniteSet(cache) /\ Cardinality(cache) = 0
  BY FS_EmptySet DEF Init
<1>2. Len(stack) = 1 /\ opened = 0
  BY DEF Init
<1>3. QED
  BY <1>1, <1>2 DEF DInv, DescriptorsAccounted, Depth

(* A descriptor is spent on a module that was parsed or is being parsed,   *)
(* never again on a parsed one: the descriptors in use are the modules in  *)
(* the cache and the parsers at work.                                      *)
THEOREM DescriptorsAreAccounted == Spec => []DescriptorsAccounted
<1>1. DInv => DescriptorsAccounted
  BY DEF DInv
<1>2. QED
  BY <1>1, InitialDInv, StepAccounts, Invariance, PTL DEF Spec

-----------------------------------------------------------------------------
(* Diagnostics: the file and the line that a message would name.           *)

(* The file that a message names while fr is the parser at work.           *)
NameShown(t, fr, o) ==
  LET begun == IF o = "missing" THEN fr.next ELSE fr.next - 1
  IN  IF fr.defs \/ begun = 0 THEN fr.file ELSE t[fr.file].imports[begun]

(* The copies of the context that nested parsers will restore were made    *)
(* after the name was changed.                                             *)
CopiesRenamed == \A i \in 2..Len(stack) : stack[i].oldenv.filename = stack[i].file

CInv == /\ env.line = Len(stack)
        /\ env.filename = NameShown(tree, stack[Len(stack)], outcome)
        /\ CopiesRenamed

-----------------------------------------------------------------------------

LEMMA ContextOfTop ==
  ContextIsKnown <=> /\ env.line = Len(stack)
                     /\ env.filename = NameShown(tree, stack[Len(stack)], outcome)
BY DEF ContextIsKnown, NameShown, Top, Depth, Imports

(* Of a run that goes on, only its end over a missing module changes the   *)
(* name.                                                                   *)
LEMMA NameAsBefore ==
  ASSUME NEW t, NEW fr, NEW o, NEW p, o # "missing", p # "missing"
  PROVE  NameShown(t, fr, o) = NameShown(t, fr, p)
BY DEF NameShown

(* The parser on top has registered m.                                     *)
LEMMA NameRegistered ==
  ASSUME NEW t, NEW fr \in Frames, NEW m, Awaits(t, fr, m)
  PROVE  NameShown(t, Registered(fr, m), "running") = m
<1> DEFINE r == Registered(fr, m)
<1>1. /\ fr.next \in Nat /\ fr.next > 0
      /\ r.next = fr.next + 1 /\ r.file = fr.file /\ r.defs = fr.defs
  BY DEF Registered, Frames
<1>2. ~fr.defs /\ m = t[fr.file].imports[fr.next]
  BY DEF Awaits
<1>3. r.next # 1 /\ r.next - 1 = fr.next /\ ~r.defs
  BY <1>1, <1>2
<1> HIDE DEF r
<1>4. QED
  BY <1>1, <1>2, <1>3 DEF NameShown, r

-----------------------------------------------------------------------------

LEMMA InitialCInv == Init => CInv
<1> SUFFICES ASSUME Init PROVE CInv
  OBVIOUS
<1> DEFINE fr == Frame(Main, [filename |-> NoFile, line |-> 0])
<1>1. stack = <<fr>> /\ env = [filename |-> Main, line |-> 1] /\ outcome = "running"
  BY DEF Init
<1>2. fr.file = Main /\ fr.next = 1
  BY DEF Frame
<1> HIDE DEF fr
<1>3. Len(stack) = 1 /\ stack[1] = fr
  BY <1>1
<1>4. QED
  BY <1>1, <1>2, <1>3 DEF CInv, NameShown, CopiesRenamed

LEMMA NextKeepsCInv == IInv /\ CInv /\ Next => CInv'
<1> SUFFICES ASSUME IInv, CInv, Next PROVE CInv'
  OBVIOUS
<1> DEFINE n == Len(stack)
           top == stack[n]
<1>1. /\ n \in Nat /\ n > 0 /\ n \in 1..n /\ stack \in Seq(Frames)
      /\ Top = top /\ top \in Frames /\ env \in Envs
  BY TopFacts DEF IInv, TypeOK
<1>2. env.line = n /\ env.filename = NameShown(tree, top, outcome)
  BY DEF CInv
<1>3. \A i \in 2..n : stack[i].oldenv.filename = stack[i].file
  BY DEF CInv, CopiesRenamed
<1>4. ASSUME NEW why, why # "missing", outcome = "running", Stop(why) PROVE CInv'
  <2>1. /\ stack' = stack /\ tree' = tree /\ env' = env /\ outcome' = why
    BY <1>4 DEF Stop
  <2>2. NameShown(tree, top, outcome) = NameShown(tree, top, why)
    BY <1>4, NameAsBefore
  <2>3. QED
    BY <1>2, <1>3, <2>1, <2>2 DEF CInv, CopiesRenamed
<1>5. ASSUME NEW m \in Modules, ImportTwice(m) PROVE CInv'
  BY <1>4, <1>5 DEF ImportTwice, AtImport
<1>6. ASSUME NEW m \in Modules, ImportCached(m) PROVE CInv'
  <2> DEFINE fr == Registered(top, m)
  <2>1. /\ AtImport(m) /\ outcome = "running"
        /\ stack' = [stack EXCEPT ![n] = fr]
        /\ env' = [filename |-> m, line |-> n]
        /\ UNCHANGED <<tree, outcome>>
    BY <1>1, <1>6 DEF ImportCached, AtImport, Depth
  <2>2. NameShown(tree, fr, "running") = m
    BY <1>1, <2>1, AtImportFacts, NameRegistered
  <2>3. fr.oldenv = top.oldenv /\ fr.file = top.file
    BY <1>1 DEF Registered, Frames
  <2> HIDE DEF fr
  <2>4. /\ Len(stack') = n /\ stack'[n] = fr
        /\ \A i \in 1..n : i # n => stack'[i] = stack[i]
    BY <1>1, <2>1
  <2>5. CopiesRenamed'
    BY <1>1, <1>3, <2>3, <2>4 DEF CopiesRenamed
  <2>6. QED
    BY <2>1, <2>2, <2>4, <2>5 DEF CInv
<1>7. ASSUME NEW m \in Modules, ImportMissing(m) PROVE CInv'
  <2>1. /\ AtImport(m)
        /\ stack' = stack /\ tree' = tree /\ outcome' = "missing"
        /\ env' = [filename |-> m, line |-> n]
    BY <1>7 DEF ImportMissing, Depth
  <2>2. ~top.defs /\ m = tree[top.file].imports[top.next]
    BY <1>1, <2>1, AtImportFacts DEF Awaits
  <2>3. NameShown(tree, top, "missing") = m
    BY <1>1, <2>2, FrameTypes DEF NameShown
  <2>4. QED
    BY <1>3, <2>1, <2>3 DEF CInv, CopiesRenamed
<1>8. ASSUME NEW m \in Modules, Enter(m), outcome' \in {"running", "unopened"} PROVE CInv'
  <2> DEFINE fr == Frame(m, [env EXCEPT !.filename = m])
  <2>1. /\ stack' = Append(stack, fr) /\ tree' = tree
        /\ env' = [filename |-> m, line |-> n + 1]
    BY <1>8 DEF Enter, Callers, Depth
  <2>2. fr.file = m /\ fr.next = 1 /\ fr.oldenv.filename = m
    BY <1>1 DEF Frame, Envs
  <2> HIDE DEF fr
  <2>3. NameShown(tree, fr, outcome') = m
    BY <1>8, <2>2 DEF NameShown
  <2>4. /\ Len(stack') = n + 1 /\ stack'[n + 1] = fr
        /\ \A i \in 1..n : stack'[i] = stack[i]
    BY <1>1, <2>1
  <2>5. CopiesRenamed'
    BY <1>1, <1>3, <2>2, <2>4 DEF CopiesRenamed
  <2>6. QED
    BY <2>1, <2>3, <2>4, <2>5 DEF CInv
<1>9. ASSUME NEW m \in Modules, ImportOpen(m) \/ ImportUnopened(m) PROVE CInv'
  BY <1>8, <1>9 DEF ImportOpen, ImportUnopened, Enter, AtImport
<1>10. CASE BadImport \/ BadDefinition \/ FinishMain \/ RejectModule
  BY <1>4, <1>10 DEF BadImport, BadDefinition, FinishMain, RejectModule
<1>11. CASE BeginDefinitions
  <2> DEFINE fr == [top EXCEPT !.defs = TRUE]
  <2>1. /\ stack' = [stack EXCEPT ![n] = fr]
        /\ env' = [env EXCEPT !.filename = top.file]
        /\ tree' = tree /\ outcome' = "running"
    BY <1>1, <1>11 DEF BeginDefinitions, Depth
  <2>2. /\ fr.file = top.file /\ fr.defs /\ fr.oldenv = top.oldenv
    BY <1>1 DEF Frames
  <2>3. env'.line = env.line /\ env'.filename = top.file
    BY <1>1, <2>1 DEF Envs
  <2> HIDE DEF fr
  <2>4. /\ Len(stack') = n /\ stack'[n] = fr
        /\ \A i \in 1..n : i # n => stack'[i] = stack[i]
    BY <1>1, <2>1
  <2>5. NameShown(tree, fr, "running") = top.file
    BY <2>2 DEF NameShown
  <2>6. CopiesRenamed'
    BY <1>1, <1>3, <2>2, <2>4 DEF CopiesRenamed
  <2>7. QED
    BY <1>2, <2>1, <2>3, <2>4, <2>5, <2>6 DEF CInv
<1>12. CASE FinishModule
  <2> DEFINE m == top.file
             below == stack[n - 1]
             fr == Registered(below, m)
  <2>1. /\ outcome = "running" /\ n > 1
        /\ stack' = [i \in 1..(n - 1) |-> IF i = n - 1 THEN Registered(stack[i], m)
                                                      ELSE stack[i]]
        /\ env' = [top.oldenv EXCEPT !.line = n - 1]
        /\ tree' = tree /\ outcome' = outcome
    BY <1>1, <1>12 DEF FinishModule, CallerContext, Depth
  <2>2. n - 1 \in 1..(n - 1) /\ n - 1 \in 1..n /\ n \in 2..n /\ n - 1 \in Nat
    BY <1>1, <2>1
  <2>3. below \in Frames /\ Awaits(tree, below, m)
    <3>1. Awaits(tree, stack[n - 1], stack[(n - 1) + 1].file)
      BY <2>2, PathByFrames DEF IInv
    <3>2. (n - 1) + 1 = n
      BY <1>1
    <3>3. QED
      BY <1>1, <2>2, <3>1, <3>2
  <2>4. NameShown(tree, fr, "running") = m
    BY <2>3, NameRegistered
  <2>5. env'.line = n - 1 /\ env'.filename = m
    <3>1. top.oldenv \in Envs
      BY <1>1, FrameTypes
    <3>2. top.oldenv.filename = m
      BY <1>3, <2>2
    <3>3. QED
      BY <2>1, <3>1, <3>2 DEF Envs
  <2>6. fr.oldenv = below.oldenv /\ fr.file = below.file
    BY <2>3 DEF Registered, Frames
  <2>7. /\ Len(stack') = n - 1 /\ stack'[n - 1] = fr
        /\ \A i \in 1..(n - 1) : i # n - 1 => stack'[i] = stack[i]
    BY <2>1, <2>2
  <2> HIDE DEF fr, below
  <2>8. CopiesRenamed'
    <3>1. below.oldenv.filename = below.file \/ n - 1 < 2
      BY <1>3, <2>2 DEF CopiesRenamed, below
    <3>2. ASSUME NEW i \in 2..(n - 1)
          PROVE  stack'[i].oldenv.filename = stack'[i].file
      <4>1. CASE i = n - 1
        BY <2>2, <2>6, <2>7, <3>1, <4>1
      <4>2. CASE i # n - 1
        <5>1. i \in 1..(n - 1) /\ i \in 2..n
          BY <2>2
        <5>2. QED
          BY <1>3, <2>7, <4>2, <5>1 DEF CopiesRenamed
      <4>3. QED
        BY <4>1, <4>2
    <3>3. QED
      BY <2>7, <3>2 DEF CopiesRenamed
  <2>9. QED
    BY <2>1, <2>4, <2>5, <2>7, <2>8 DEF CInv
<1>13. QED
  BY <1>5, <1>6, <1>7, <1>9, <1>10, <1>11, <1>12 DEF Next

LEMMA StutteringKeepsCInv == CInv /\ UNCHANGED vars => CInv'
BY DEF CInv, CopiesRenamed, vars

(* Whichever way nested parsers begin and end, a message names the line of *)
(* the file being read, and the file that ContextIsKnown says.             *)
THEOREM KnownContext == Spec => []ContextIsKnown
<1>1. IInv /\ CInv /\ [Next]_vars => CInv'
  BY NextKeepsCInv, StutteringKeepsCInv
<1>2. CInv => ContextIsKnown
  BY ContextOfTop DEF CInv
<1>3. QED
  BY <1>1, <1>2, InitialCInv, Invariance, PTL DEF Spec

-----------------------------------------------------------------------------
(* How an import ends.                                                     *)

WorkIsNeeded == \A i \in 1..Len(stack) : stack[i].file \in Needed

(* The modules in the cache can be put in an order of dependency.          *)
Grounded(t, c) == \A S \in SUBSET c : S # {} =>
                    \E f \in S : \A m \in S : \A k \in 1..Len(t[f].imports) :
                                   t[f].imports[k] # m

(* The parsers at work read what was found, opened and is not empty.       *)
WorkIsOpen ==
  /\ outcome = "running" =>
       \A i \in 2..Len(stack) : tree[stack[i].file].kind \notin {"absent", "unreadable"}
  /\ \A i \in 1..Len(stack) : stack[i].defs => tree[stack[i].file].kind # "empty"

CacheIsGood == \A m \in cache : m \in Needed /\ tree[m].kind = "good"

(* What the importer has done, beyond IInv.                                *)
Done == tree \in Trees /\ WorkIsNeeded /\ Grounded(tree, cache) /\ WorkIsOpen /\ CacheIsGood

OInv == Done /\ OutcomeHasCause

-----------------------------------------------------------------------------
(* What depends on the source tree alone.                                  *)

LEMMA SameSources ==
  ASSUME tree' = tree
  PROVE  Needed' = Needed /\ Cyclic' = Cyclic
<1>1. \A f : ImportSet(f)' = ImportSet(f)
  BY DEF ImportSet, Imports
<1>2. \A S : Closed(S)' = Closed(S)
  BY <1>1 DEF Closed
<1>3. Needed' = Needed
  BY <1>2 DEF Needed
<1>4. QED
  BY <1>1, <1>3 DEF Cyclic

LEMMA ImportSetType ==
  ASSUME tree \in [Files -> Sources], NEW f \in Files
  PROVE  ImportSet(f) \subseteq Modules
BY ImportsAreModules DEF ImportSet, Imports

LEMMA MainIsNeeded == Main \in Needed
BY DEF Needed, Files

LEMMA ImportsAreNeeded ==
  ASSUME tree \in [Files -> Sources], NEW f \in Needed, NEW m \in ImportSet(f)
  PROVE  m \in Needed
<1>1. f \in Files
  BY DEF Needed
<1>2. m \in Files
  BY <1>1, ImportSetType DEF Files
<1>3. ASSUME NEW S \in SUBSET Files, Main \in S, Closed(S) PROVE m \in S
  BY <1>3 DEF Needed, Closed
<1>4. QED
  BY <1>2, <1>3 DEF Needed

LEMMA AwaitedIsImported ==
  ASSUME tree \in [Files -> Sources], NEW fr \in Frames, NEW m, Awaits(tree, fr, m)
  PROVE  m \in ImportSet(fr.file) /\ m \in Modules
<1>1. fr.next \in 1..Len(tree[fr.file].imports)
  BY ImportsAreModules, FrameTypes DEF Awaits
<1>2. QED
  BY <1>1, ImportsAreModules, FrameTypes DEF Awaits, ImportSet, Imports

LEMMA GroundedSets ==
  ASSUME NEW c
  PROVE  Grounded(tree, c) <=>
           \A S \in SUBSET c : S # {} => \E f \in S : ImportSet(f) \cap S = {}
<1>1. ASSUME NEW S, NEW f
      PROVE  ImportSet(f) \cap S = {} <=>
               \A m \in S : \A k \in 1..Len(tree[f].imports) : tree[f].imports[k] # m
  BY DEF ImportSet, Imports
<1>2. QED
  BY <1>1 DEF Grounded

LEMMA NeededIsFinite == IsFiniteSet(Needed) /\ Main \notin Modules
<1>1. IsFiniteSet(Files)
  BY ModulesAreFinite, FS_AddElement DEF Files
<1>2. Needed \in SUBSET Files
  BY DEF Needed
<1>3. QED
  BY <1>1, <1>2, FS_Subset, ImporterAssumption

(* A path that comes back to a file is a cycle.                            *)
LEMMA ReturnIsCycle ==
  ASSUME NEW n \in Nat, NEW p, \A k \in 1..(n + 1) : p[k] \in Needed,
         \A k \in 1..n : p[k + 1] \in ImportSet(p[k]),
         NEW i \in 1..(n + 1), NEW j \in 1..(n + 1), i < j, p[i] = p[j]
  PROVE  Cyclic
<1> DEFINE S == {p[k] : k \in i..(j - 1)}
<1>1. S \in SUBSET Needed /\ S # {}
  <2>1. i \in i..(j - 1) /\ \A k \in i..(j - 1) : k \in 1..(n + 1)
    OBVIOUS
  <2>2. QED
    BY <2>1
<1>2. ASSUME NEW f \in S PROVE ImportSet(f) \cap S # {}
  <2>1. PICK k \in i..(j - 1) : f = p[k]
    BY <1>2
  <2>2. k \in 1..n /\ p[k + 1] \in ImportSet(f)
    BY <2>1
  <2>3. p[k + 1] \in S
    <3>1. CASE k + 1 \in i..(j - 1)
      BY <3>1
    <3>2. CASE k + 1 \notin i..(j - 1)
      <4>1. k + 1 = j /\ i \in i..(j - 1)
        BY <3>2
      <4>2. QED
        BY <4>1
    <3>3. QED
      BY <3>1, <3>2
  <2>4. QED
    BY <2>2, <2>3
<1>3. QED
  BY <1>1, <1>2 DEF Cyclic

-----------------------------------------------------------------------------
(* The ends.                                                               *)

(* When the main file's imports are all in the cache, all is parsed.       *)
LEMMA AllIsParsed ==
  ASSUME IInv, Done, ImportSet(Main) \subseteq cache
  PROVE  /\ cache = Needed \ {Main}
         /\ ~Cyclic
         /\ \A m \in cache : tree[m].kind = "good"
<1>1. /\ tree \in [Files -> Sources] /\ cache \in SUBSET Modules
      /\ CacheIsClosed /\ CacheIsGood /\ Grounded(tree, cache)
  BY TopFacts DEF IInv, Done
<1>2. cache = Needed \ {Main}
  <2> DEFINE S == cache \cup {Main}
  <2>1. S \in SUBSET Files /\ Main \in S
    BY <1>1 DEF Files
  <2>2. Closed(S)
    BY <1>1 DEF Closed, CacheIsClosed
  <2>3. Needed \subseteq S
    BY <2>1, <2>2 DEF Needed
  <2>4. cache \subseteq Needed /\ Main \notin cache
    BY <1>1, NeededIsFinite DEF CacheIsGood
  <2>5. QED
    BY <2>3, <2>4
<1>3. ASSUME Cyclic PROVE FALSE
  <2>1. PICK S \in SUBSET Needed : S # {} /\ \A f \in S : ImportSet(f) \cap S # {}
    BY <1>3 DEF Cyclic
  <2> DEFINE T == S \ {Main}
  <2>2. Main \notin ImportSet(Main) /\ \A f \in T : Main \notin ImportSet(f)
    <3>1. \A f \in T \cup {Main} : f \in Files
      BY DEF Needed, Files
    <3>2. QED
      BY <1>1, <3>1, ImportSetType, NeededIsFinite
  <2>3. T \in SUBSET cache
    BY <1>2
  <2>4. T # {}
    <3>1. ASSUME T = {} PROVE FALSE
      <4>1. S = {Main}
        BY <2>1, <3>1
      <4>2. QED
        BY <2>1, <2>2, <4>1
    <3>2. QED
      BY <3>1
  <2>5. PICK f \in T : ImportSet(f) \cap T = {}
    <3> HIDE DEF T
    <3>1. QED
      BY <1>1, <2>3, <2>4, GroundedSets
  <2>6. ImportSet(f) \cap S = {}
    BY <2>2, <2>5
  <2>7. QED
    BY <2>1, <2>5, <2>6
<1>4. QED
  BY <1>1, <1>2, <1>3 DEF CacheIsGood

(* When no file can be opened any more without there being a cycle, there  *)
(* are more modules than files can be open: all that were opened, and the  *)
(* one that could not be, are different.                                   *)
LEMMA TooManyFiles ==
  ASSUME IInv, DInv, Done, outcome = "running", NEW m \in Modules,
         AtImport(m), m \notin cache, opened = MaxFiles, ~Cyclic
  PROVE  Cardinality(Needed) - 1 > MaxFiles
<1> DEFINE n == Len(stack)
           p == [k \in 1..(n + 1) |-> IF k = n + 1 THEN m ELSE stack[k].file]
           D == (Needed \ {Main}) \ cache
<1>1. /\ n \in Nat /\ n > 0 /\ n \in 1..n /\ stack \in Seq(Frames) /\ Top = stack[n]
      /\ tree \in [Files -> Sources] /\ cache \in SUBSET Modules
      /\ \A i \in 1..n : stack[i] \in Frames
  BY TopFacts
<1>2. IsFiniteSet(cache) /\ opened = Cardinality(cache) + n - 1
  BY DEF DInv, DescriptorsAccounted, Depth
<1>3. p[n + 1] = m /\ \A k \in 1..n : p[k] = stack[k].file
  BY <1>1
<1>4. \A k \in 1..n : p[k + 1] \in ImportSet(p[k])
  <2>1. ASSUME NEW k \in 1..n PROVE Awaits(tree, stack[k], p[k + 1])
    <3>1. CASE k = n
      BY <1>1, <1>3, <3>1, AtImportFacts
    <3>2. CASE k # n
      <4>1. k \in 1..(n - 1) /\ k + 1 \in 1..n
        BY <1>1, <3>2
      <4>2. QED
        BY <1>3, <4>1, PathByFrames DEF IInv
    <3>3. QED
      BY <3>1, <3>2
  <2> HIDE DEF p, n
  <2>2. QED
    BY <1>1, <1>3, <2>1, AwaitedIsImported
<1>5. \A k \in 1..n : p[k] \in Needed
  BY <1>3 DEF Done, WorkIsNeeded
<1>6. m \in Needed
  BY <1>1, <1>3, <1>4, <1>5, ImportsAreNeeded
<1>7. \A k \in 1..(n + 1) : p[k] \in Needed
  BY <1>3, <1>5, <1>6
<1>8. \A k \in 2..(n + 1) : p[k] \in D
  <2>1. ASSUME NEW k \in 2..(n + 1) PROVE p[k] \in D
    <3>1. k - 1 \in 1..n /\ (k - 1) + 1 = k /\ k \in 1..(n + 1)
      BY <1>1
    <3>2. p[k] \in Needed
      BY <1>7, <3>1
    <3>3. p[k] # Main
      <4>1. p[k] \in ImportSet(p[k - 1]) /\ p[k - 1] \in Files
        <5>1. p[(k - 1) + 1] \in ImportSet(p[k - 1])
          BY <1>4, <3>1
        <5>2. p[k - 1] \in Files
          BY <1>5, <3>1 DEF Needed
        <5>3. QED
          BY <3>1, <5>1, <5>2
      <4>2. QED
        BY <1>1, <4>1, ImportSetType, NeededIsFinite
    <3>4. p[k] \notin cache
      <4>1. CASE k = n + 1
        BY <1>3, <4>1
      <4>2. CASE k # n + 1
        <5>1. k \in 1..n
          BY <1>1, <4>2
        <5>2. QED
          BY <1>3, <5>1 DEF IInv, StackNotCached, Depth
      <4>3. QED
        BY <4>1, <4>2
    <3>5. QED
      BY <3>2, <3>3, <3>4
  <2>2. QED
    BY <2>1
<1>9. IsFiniteSet(D) /\ Cardinality(D) = Cardinality(Needed) - 1 - Cardinality(cache)
  <2> DEFINE N == Needed \ {Main}
  <2>1. /\ IsFiniteSet(N)
        /\ Cardinality(N) = Cardinality(Needed) - 1
    BY NeededIsFinite, MainIsNeeded, FS_RemoveElement
  <2>2. N \cap cache = cache
    <3>1. \A g \in cache : g \in Needed /\ g # Main
      BY <1>1, NeededIsFinite DEF Done, CacheIsGood
    <3>2. \A g : g \in N \cap cache <=> g \in cache
      BY <3>1
    <3>3. QED
      BY <3>2, ZenonT(30)
  <2> HIDE DEF N
  <2>3. IsFiniteSet(N \ cache) /\ Cardinality(N \ cache) = Cardinality(N) - Cardinality(cache)
    <3>1. /\ IsFiniteSet(N \ cache)
          /\ Cardinality(N \ cache) = Cardinality(N) - Cardinality(N \cap cache)
      BY <2>1, FS_Difference
    <3>2. QED
      BY <2>2, <3>1
  <2>4. QED
    BY <2>1, <2>3 DEF N
<1> HIDE DEF p, D, n
<1>10. Cardinality(D) >= n
  <2>1. ASSUME Cardinality(D) < n PROVE FALSE
    <3> DEFINE g == [k \in 1..n |-> p[k + 1]]
    <3>1. g \in [1..n -> D]
      <4>1. \A k \in 1..n : k + 1 \in 2..(n + 1)
        BY <1>1
      <4>2. QED
        BY <1>8, <4>1
    <3>2. IsFiniteSet(1..n) /\ Cardinality(1..n) = n
      <4>1. 1 \in Int /\ n \in Int /\ ~(1 > n) /\ n - 1 + 1 = n
        BY <1>1
      <4>2. QED
        BY <4>1, FS_Interval
    <3> HIDE DEF g
    <3>3. PICK i \in 1..n, j \in 1..n : i # j /\ g[i] = g[j]
      BY <1>9, <2>1, <3>1, <3>2, FS_PigeonHole
    <3>4. p[i + 1] = p[j + 1]
      BY <3>3 DEF g
    <3>5. i + 1 \in 1..(n + 1) /\ j + 1 \in 1..(n + 1) /\ (i + 1 < j + 1 \/ j + 1 < i + 1)
      BY <1>1, <3>3
    <3>6. Cyclic
      BY <1>1, <1>4, <1>7, <3>4, <3>5, ReturnIsCycle
    <3>7. QED
      BY <3>6
  <2>2. Cardinality(D) \in Nat
    BY <1>9, FS_CardinalityType
  <2>3. QED
    BY <1>1, <2>1, <2>2
<1>11. QED
  <2>1. Cardinality(Needed) \in Nat /\ Cardinality(cache) \in Nat
    BY <1>2, NeededIsFinite, FS_CardinalityType
  <2>2. QED
    BY <1>1, <1>2, <1>9, <1>10, <2>1

-----------------------------------------------------------------------------
(* What the importer has done.                                             *)

LEMMA InitiallyDone == IInv /\ Init => Done
<1> SUFFICES ASSUME IInv, Init PROVE Done
  OBVIOUS
<1>1. tree \in Trees /\ cache = {} /\ Len(stack) = 1
  BY DEF Init
<1>2. stack[1].file = Main /\ ~stack[1].defs
  BY DEF Init, Frame
<1>3. WorkIsNeeded
  BY <1>1, <1>2, MainIsNeeded DEF WorkIsNeeded
<1>4. WorkIsOpen
  BY <1>1, <1>2 DEF WorkIsOpen
<1>5. Grounded(tree, cache) /\ CacheIsGood
  BY <1>1 DEF Grounded, CacheIsGood
<1>6. QED
  BY <1>1, <1>3, <1>4, <1>5 DEF Done

(* An import names a needed module.                                        *)
LEMMA ImportIsNeeded ==
  ASSUME IInv, Done, NEW m, AtImport(m)
  PROVE  m \in Needed \ {Main}
<1>1. Top \in Frames /\ Top = stack[Len(stack)] /\ Len(stack) \in 1..Len(stack)
      /\ tree \in [Files -> Sources]
  BY TopFacts
<1>2. m \in ImportSet(Top.file) /\ m \in Modules
  BY <1>1, AtImportFacts, AwaitedIsImported
<1>3. Top.file \in Needed
  BY <1>1 DEF Done, WorkIsNeeded
<1>4. QED
  BY <1>1, <1>2, <1>3, ImportsAreNeeded, NeededIsFinite

(* A parser on top of another works on a needed module.                    *)
LEMMA NestedIsNeeded ==
  ASSUME IInv, Done, Len(stack) > 1
  PROVE  Top.file \in Needed \ {Main}
<1> DEFINE n == Len(stack)
<1>1. n \in Nat /\ n > 0 /\ n \in 1..n /\ Top = stack[n] /\ stack \in Seq(Frames)
      /\ tree \in [Files -> Sources]
  BY TopFacts
<1>2. n - 1 \in 1..(n - 1) /\ n - 1 \in 1..n /\ (n - 1) + 1 = n
  BY <1>1
<1>3. Awaits(tree, stack[n - 1], stack[(n - 1) + 1].file)
  BY <1>2, PathByFrames DEF IInv
<1>4. stack[n - 1] \in Frames
  BY <1>1, <1>2
<1>5. Top.file \in Modules
  BY <1>1, <1>2, <1>3, <1>4, AwaitedIsImported
<1>6. Top.file \in Needed
  BY <1>1 DEF Done, WorkIsNeeded
<1>7. QED
  BY <1>5, <1>6, NeededIsFinite

(* Nothing but the outcome changes, and not to running.                    *)
LEMMA DoneAtTheEnd ==
  ASSUME Done, outcome' # "running" \/ outcome' = outcome, UNCHANGED <<tree, stack, cache>>
  PROVE  Done'
<1>1. Needed' = Needed
  BY SameSources
<1>2. WorkIsNeeded' /\ CacheIsGood'
  BY <1>1 DEF Done, WorkIsNeeded, CacheIsGood
<1>3. Grounded(tree, cache)'
  <2>1. tree' = tree /\ cache' = cache /\ Grounded(tree, cache)
    BY DEF Done
  <2>2. ASSUME NEW S \in SUBSET cache, S # {}
        PROVE  \E f \in S : \A m \in S : \A k \in 1..Len(tree'[f].imports) :
                                           tree'[f].imports[k] # m
    <3>1. PICK f \in S : \A m \in S : \A k \in 1..Len(tree[f].imports) :
                                           tree[f].imports[k] # m
      BY <2>1, <2>2 DEF Grounded
    <3>2. QED
      BY <2>1, <3>1
  <2>3. QED
    BY <2>1, <2>2 DEF Grounded
<1>4. WorkIsOpen'
  BY DEF Done, WorkIsOpen
<1>5. QED
  BY <1>2, <1>3, <1>4 DEF Done

(* The parsers that are left work on the same files.                       *)
LEMMA SameWork ==
  ASSUME Done, Len(stack) \in Nat, Len(stack') \in Nat, Len(stack') <= Len(stack),
         \A i \in 1..Len(stack') :
           /\ stack'[i].file = stack[i].file
           /\ stack'[i].defs => tree[stack[i].file].kind # "empty",
         UNCHANGED <<tree, outcome>>
  PROVE  WorkIsNeeded' /\ WorkIsOpen'
<1>1. Needed' = Needed
  BY SameSources
<1>2. /\ \A i \in 1..Len(stack') : i \in 1..Len(stack)
      /\ \A i \in 2..Len(stack') : i \in 1..Len(stack') /\ i \in 2..Len(stack)
  OBVIOUS
<1>3. WorkIsNeeded'
  BY <1>1, <1>2 DEF Done, WorkIsNeeded
<1>4. WorkIsOpen'
  BY <1>2 DEF Done, WorkIsOpen
<1>5. QED
  BY <1>3, <1>4

(* The parser on top moves on, or begins its definitions.                  *)
LEMMA DoneAsTopMoves ==
  ASSUME IInv, Done, NEW fr \in Frames, fr.file = Top.file,
         fr.defs => Top.defs \/ tree[Top.file].kind # "empty",
         stack' = [stack EXCEPT ![Len(stack)] = fr],
         UNCHANGED <<tree, cache, outcome>>
  PROVE  Done'
<1> DEFINE n == Len(stack)
<1>1. n \in Nat /\ n > 0 /\ n \in 1..n /\ Top = stack[n] /\ stack \in Seq(Frames)
  BY TopFacts
<1>2. /\ Len(stack') = n
      /\ \A i \in 1..n : stack'[i] = IF i = n THEN fr ELSE stack[i]
  BY <1>1
<1>3. \A i \in 1..Len(stack') : /\ stack'[i].file = stack[i].file
                               /\ stack'[i].defs => tree[stack[i].file].kind # "empty"
  BY <1>1, <1>2, ZenonT(30) DEF Done, WorkIsOpen
<1>4. Len(stack') \in Nat /\ Len(stack') <= Len(stack)
  BY <1>1, <1>2
<1>5. WorkIsNeeded' /\ WorkIsOpen'
  BY <1>1, <1>3, <1>4, SameWork
<1>6. CacheIsGood'
  BY SameSources DEF Done, CacheIsGood
<1>7. QED
  BY <1>5, <1>6 DEF Done

LEMMA DoneOnEntry ==
  ASSUME IInv, Done, NEW m \in Modules, Enter(m),
         outcome' = "unopened" \/ tree[m].kind # "unreadable"
  PROVE  Done'
<1> DEFINE n == Len(stack)
           fr == Frame(m, [env EXCEPT !.filename = m])
<1>1. n \in Nat /\ n > 0 /\ n \in 1..n /\ stack \in Seq(Frames)
  BY TopFacts
<1>2. /\ AtImport(m) /\ tree[m].kind # "absent" /\ outcome = "running"
      /\ stack' = Append(stack, fr) /\ tree' = tree /\ cache' = cache
  BY DEF Enter, Callers, AtImport
<1>3. fr.file = m /\ ~fr.defs
  BY DEF Frame
<1> HIDE DEF fr
<1>4. /\ Len(stack') = n + 1
      /\ \A i \in 1..(n + 1) : stack'[i] = IF i = n + 1 THEN fr ELSE stack[i]
      /\ \A i \in 1..(n + 1) : i # n + 1 => i \in 1..n
  BY <1>1, <1>2
<1>5. Needed' = Needed /\ m \in Needed
  BY <1>2, SameSources, ImportIsNeeded
<1>6. WorkIsNeeded'
  BY <1>3, <1>4, <1>5 DEF Done, WorkIsNeeded
<1>7. WorkIsOpen'
  <2>1. ASSUME NEW i \in 1..(n + 1)
        PROVE  stack'[i].defs => tree[stack'[i].file].kind # "empty"
    BY <1>3, <1>4 DEF Done, WorkIsOpen
  <2>2. ASSUME NEW i \in 2..(n + 1), outcome' = "running"
        PROVE  tree[stack'[i].file].kind \notin {"absent", "unreadable"}
    <3>1. i \in 1..(n + 1) /\ (i # n + 1 => i \in 2..n)
      BY <1>1
    <3>2. QED
      BY <1>2, <1>3, <1>4, <2>2, <3>1 DEF Done, WorkIsOpen
  <2>3. QED
    BY <1>2, <1>4, <2>1, <2>2 DEF WorkIsOpen
<1>8. CacheIsGood'
  BY <1>2, <1>5 DEF Done, CacheIsGood
<1>9. QED
  BY <1>2, <1>6, <1>7, <1>8 DEF Done

(* The finished module imports none that was finished later.               *)
LEMMA DoneOnFinish ==
  ASSUME IInv, Done, FinishModule
  PROVE  Done'
<1> DEFINE n == Len(stack)
           m == Top.file
<1>1. /\ n \in Nat /\ n > 0 /\ n \in 1..n /\ stack \in Seq(Frames) /\ Top = stack[n]
      /\ Top \in Frames /\ tree \in [Files -> Sources] /\ cache \in SUBSET Modules
  BY TopFacts
<1>2. /\ outcome = "running" /\ n > 1 /\ Top.defs /\ tree[m].kind # "misnamed"
      /\ cache' = cache \cup {m}
      /\ stack' = [i \in 1..(n - 1) |-> IF i = n - 1 THEN Registered(stack[i], m)
                                                    ELSE stack[i]]
      /\ tree' = tree /\ outcome' = outcome
  BY DEF FinishModule, Accepts, CacheWith, Depth
<1>3. m \notin cache /\ ImportSet(m) \subseteq cache
  BY <1>2, FinishedIsNew
<1>4. Needed' = Needed /\ m \in Needed
  BY <1>2, SameSources, NestedIsNeeded
<1>5. tree[m].kind = "good"
  <2>1. n \in 2..n
    BY <1>1, <1>2
  <2>2. tree[m].kind \notin {"absent", "unreadable", "empty"}
    BY <1>1, <1>2, <2>1 DEF Done, WorkIsOpen
  <2>3. tree[m].kind \in Kinds
    <3>1. m \in Files
      BY <1>1, FrameTypes
    <3>2. QED
      BY <1>1, <3>1 DEF Sources
  <2>4. QED
    BY <1>2, <2>2, <2>3 DEF Kinds
<1>6. Grounded(tree, cache')
  <2>1. ASSUME NEW S \in SUBSET (cache \cup {m}), S # {}
        PROVE  \E f \in S : ImportSet(f) \cap S = {}
    <3> DEFINE T == S \ {m}
    <3>1. CASE T = {}
      <4>1. m \in S /\ S \subseteq {m}
        BY <2>1, <3>1
      <4>2. ImportSet(m) \cap S = {}
        BY <1>3, <4>1
      <4>3. QED
        BY <4>1, <4>2
    <3>2. CASE T # {}
      <4>1. T \in SUBSET cache
        OBVIOUS
      <4>2. PICK f \in T : ImportSet(f) \cap T = {}
        <5> HIDE DEF T
        <5>1. QED
          BY <3>2, <4>1, GroundedSets DEF Done
      <4>3. ImportSet(f) \subseteq cache
        BY <4>1 DEF IInv, CacheIsClosed
      <4>4. ImportSet(f) \cap S = {}
        BY <1>3, <4>2, <4>3
      <4>5. QED
        BY <4>4
    <3>3. QED
      BY <3>1, <3>2
  <2> DEFINE c == cache \cup {m}
  <2>2. Grounded(tree, c)
    <3>1. \A S \in SUBSET c : S # {} => \E f \in S : ImportSet(f) \cap S = {}
      BY <2>1
    <3> HIDE DEF c
    <3>2. QED
      BY <3>1, GroundedSets
  <2>3. QED
    BY <1>2, <2>2
<1>7. Len(stack') = n - 1 /\ n - 1 \in Nat
  BY <1>1, <1>2
<1>8. \A i \in 1..Len(stack') :
        /\ stack'[i].file = stack[i].file
        /\ stack'[i].defs => tree[stack[i].file].kind # "empty"
  <2>1. ASSUME NEW i \in 1..(n - 1)
        PROVE  /\ stack'[i].file = stack[i].file
               /\ stack'[i].defs = stack[i].defs
               /\ stack[i].defs => tree[stack[i].file].kind # "empty"
    <3>1. i \in 1..n /\ stack[i] \in Frames
      BY <1>1
    <3>2. /\ Registered(stack[i], m).file = stack[i].file
          /\ Registered(stack[i], m).defs = stack[i].defs
      BY <3>1 DEF Registered, Frames
    <3>3. stack'[i] = stack[i] \/ stack'[i] = Registered(stack[i], m)
      BY <1>2
    <3>4. QED
      BY <3>1, <3>2, <3>3 DEF Done, WorkIsOpen
  <2>2. QED
    BY <1>7, <2>1
<1>9. WorkIsNeeded' /\ WorkIsOpen'
  <2>1. Len(stack') \in Nat /\ Len(stack') <= Len(stack) /\ Len(stack) \in Nat
    BY <1>1, <1>7
  <2>2. QED
    BY <1>2, <1>8, <2>1, SameWork
<1>10. CacheIsGood'
  BY <1>2, <1>4, <1>5 DEF Done, CacheIsGood
<1>11. QED
  BY <1>2, <1>6, <1>9, <1>10 DEF Done

LEMMA StepKeepsDone == IInv /\ Done /\ [Next]_vars => Done'
<1> SUFFICES ASSUME IInv, Done, [Next]_vars PROVE Done'
  OBVIOUS
<1>1. ASSUME NEW why, Stop(why), why # "running" PROVE Done'
  BY <1>1, DoneAtTheEnd DEF Stop
<1>2. ASSUME NEW m \in Modules, ImportTwice(m) PROVE Done'
  BY <1>1, <1>2 DEF ImportTwice
<1>3. ASSUME NEW m \in Modules, ImportCached(m) PROVE Done'
  <2> DEFINE fr == Registered(Top, m)
  <2>1. /\ AtImport(m) /\ m \in cache
        /\ stack' = [stack EXCEPT ![Len(stack)] = fr]
        /\ UNCHANGED <<tree, cache, outcome>>
    BY <1>3, TopFacts DEF ImportCached, Depth
  <2>2. fr \in Frames /\ fr.file = Top.file
    BY <2>1, TopFacts, AtImportFacts, RegisteredFrame
  <2>3. fr.defs = Top.defs
    BY TopFacts DEF Registered, Frames
  <2> HIDE DEF fr
  <2>4. QED
    BY <2>1, <2>2, <2>3, DoneAsTopMoves
<1>4. ASSUME NEW m \in Modules, ImportMissing(m) PROVE Done'
  BY <1>4, DoneAtTheEnd DEF ImportMissing
<1>5. ASSUME NEW m \in Modules, ImportOpen(m) PROVE Done'
  BY <1>5, DoneOnEntry DEF ImportOpen, CanOpen
<1>6. ASSUME NEW m \in Modules, ImportUnopened(m) PROVE Done'
  BY <1>6, DoneOnEntry DEF ImportUnopened
<1>7. CASE BadImport \/ BadDefinition \/ FinishMain \/ RejectModule
  BY <1>1, <1>7 DEF BadImport, BadDefinition, FinishMain, RejectModule
<1>8. CASE BeginDefinitions
  <2> DEFINE fr == [Top EXCEPT !.defs = TRUE]
  <2>1. /\ stack' = [stack EXCEPT ![Len(stack)] = fr]
        /\ tree[Top.file].kind # "empty"
        /\ UNCHANGED <<tree, cache, outcome>>
    BY <1>8, TopFacts DEF BeginDefinitions, Depth, Empty
  <2>2. fr \in Frames /\ fr.file = Top.file
    BY TopFacts DEF Frames
  <2> HIDE DEF fr
  <2>3. QED
    BY <2>1, <2>2, DoneAsTopMoves
<1>9. CASE FinishModule
  BY <1>9, DoneOnFinish
<1>10. CASE UNCHANGED vars
  BY <1>10, DoneAtTheEnd DEF vars
<1>11. QED
  BY <1>2, <1>3, <1>4, <1>5, <1>6, <1>7, <1>8, <1>9, <1>10 DEF Next

-----------------------------------------------------------------------------
(* How a run ends.                                                         *)

LEMMA SameCauses ==
  ASSUME OutcomeHasCause, UNCHANGED <<tree, cache, outcome>>
  PROVE  OutcomeHasCause'
<1>1. Needed' = Needed /\ Cyclic' = Cyclic
  BY SameSources
<1>2. QED
  BY <1>1 DEF OutcomeHasCause, SomeNeeded, Duplicate, Imports

LEMMA NoEndNoCause ==
  ASSUME outcome' \in {"running", "badImport", "badDefinition"}
  PROVE  OutcomeHasCause'
BY DEF OutcomeHasCause

(* An end whose cause is in a module.                                      *)
LEMMA CauseInModule ==
  ASSUME tree' = tree, NEW m \in Needed \ {Main},
         \/ outcome' = "missing" /\ tree[m].kind = "absent"
         \/ outcome' = "emptyModule" /\ tree[m].kind = "empty"
         \/ outcome' = "mismatch" /\ tree[m].kind = "misnamed"
         \/ outcome' = "unopened" /\ tree[m].kind = "unreadable"
  PROVE  OutcomeHasCause'
<1>1. Needed' = Needed /\ Cyclic' = Cyclic
  BY SameSources
<1>2. QED
  BY <1>1 DEF OutcomeHasCause, SomeNeeded

LEMMA StepHasCause == IInv /\ DInv /\ OInv /\ [Next]_vars => OutcomeHasCause'
<1> SUFFICES ASSUME IInv, DInv, OInv, [Next]_vars PROVE OutcomeHasCause'
  OBVIOUS
<1> USE DEF OInv
<1>1. /\ tree \in [Files -> Sources] /\ tree \in Trees /\ opened \in 0..MaxFiles
      /\ Len(stack) \in Nat /\ Len(stack) > 0 /\ Top = stack[Len(stack)] /\ Top \in Frames
      /\ Len(stack) \in 1..Len(stack)
  BY TopFacts DEF IInv, TypeOK, Done
<1>2. ASSUME NEW m \in Modules, ImportTwice(m) PROVE OutcomeHasCause'
  <2>1. /\ AtImport(m) /\ m \in Top.imps
        /\ outcome' = "twice" /\ tree' = tree
    BY <1>2 DEF ImportTwice, Stop
  <2> DEFINE s == tree[Top.file].imports
  <2>2. /\ Top.next \in Nat /\ Top.next > 0 /\ Len(s) \in Nat /\ s \in Seq(Modules)
    BY <1>1, FrameTypes, ImportsAreModules
  <2>3. /\ Top.next <= Len(s) /\ m = s[Top.next]
        /\ m \in {s[k] : k \in 1..(Top.next - 1)}
    BY <2>1, AtImportFacts DEF Awaits, Loaded
  <2>4. PICK k \in 1..(Top.next - 1) : m = s[k]
    BY <2>3
  <2>5. /\ k \in DOMAIN s /\ Top.next \in DOMAIN s /\ k # Top.next
    BY <2>2, <2>3
  <2>6. Duplicate(s)
    BY <2>3, <2>4, <2>5 DEF Duplicate
  <2>7. Top.file \in Needed
    BY <1>1 DEF Done, WorkIsNeeded
  <2>8. Needed' = Needed
    BY <2>1, SameSources
  <2>9. QED
    BY <2>1, <2>6, <2>7, <2>8 DEF OutcomeHasCause, Imports, Duplicate
<1>3. ASSUME NEW m \in Modules, ImportCached(m) PROVE OutcomeHasCause'
  BY <1>3, NoEndNoCause DEF ImportCached, AtImport
<1>4. ASSUME NEW m \in Modules, ImportMissing(m) PROVE OutcomeHasCause'
  BY <1>4, ImportIsNeeded, CauseInModule DEF ImportMissing
<1>5. ASSUME NEW m \in Modules, ImportOpen(m) PROVE OutcomeHasCause'
  BY <1>5, NoEndNoCause DEF ImportOpen, Enter, AtImport
<1>6. ASSUME NEW m \in Modules, ImportUnopened(m) PROVE OutcomeHasCause'
  <2>1. /\ AtImport(m) /\ m \notin cache /\ ~CanOpen(m) /\ outcome = "running"
        /\ outcome' = "unopened" /\ tree' = tree
    BY <1>6 DEF ImportUnopened, Enter, Unknown, AtImport
  <2>2. CASE tree[m].kind = "unreadable"
    BY <2>1, <2>2, ImportIsNeeded, CauseInModule
  <2>3. CASE tree[m].kind # "unreadable"
    <3>1. opened = MaxFiles
      BY <1>1, <2>1, <2>3, ImporterAssumption DEF CanOpen
    <3>2. Cyclic \/ Cardinality(Needed) - 1 > MaxFiles
      BY <2>1, <3>1, TooManyFiles
    <3>3. Needed' = Needed /\ Cyclic' = Cyclic
      BY <2>1, SameSources
    <3>4. QED
      BY <2>1, <3>2, <3>3 DEF OutcomeHasCause
  <2>4. QED
    BY <2>2, <2>3
<1>7. CASE BadImport \/ BadDefinition
  BY <1>7, NoEndNoCause DEF BadImport, BadDefinition, Stop
<1>8. CASE BeginDefinitions
  BY <1>8, NoEndNoCause DEF BeginDefinitions
<1>9. CASE FinishMain
  <2>1. /\ Len(stack) = 1 /\ tree' = tree /\ cache' = cache
        /\ outcome' \in {"parsed", "nothing"}
        /\ Top.defs \/ Empty(Main)
    BY <1>9 DEF FinishMain, Depth, Stop
  <2>2. ImportSet(Main) \subseteq cache
    <3>1. CASE Top.defs
      <4>1. Top.file = Main
        BY <1>1, <2>1 DEF IInv, StackIsPath
      <4>2. QED
        BY <3>1, <4>1, FinishedIsNew
    <3>2. CASE Empty(Main)
      <4>1. tree[Main].imports = <<>>
        BY <1>1, <3>2, ImporterAssumption DEF Empty, Files
      <4>2. QED
        BY <4>1 DEF ImportSet, Imports
    <3>3. QED
      BY <2>1, <3>1, <3>2
  <2>3. /\ cache = Needed \ {Main} /\ ~Cyclic
        /\ \A m \in cache : tree[m].kind = "good"
    BY <2>2, AllIsParsed
  <2>4. Needed' = Needed /\ Cyclic' = Cyclic
    BY <2>1, SameSources
  <2>5. QED
    BY <2>1, <2>3, <2>4 DEF OutcomeHasCause
<1>10. CASE RejectModule
  <2>1. Top.file \in Needed \ {Main}
    BY <1>10, NestedIsNeeded DEF RejectModule, Depth
  <2>2. QED
    BY <1>10, <2>1, CauseInModule DEF RejectModule, Empty, Stop
<1>11. CASE FinishModule
  BY <1>11, NoEndNoCause DEF FinishModule
<1>12. CASE UNCHANGED vars
  BY <1>12, SameCauses DEF vars
<1>13. QED
  BY <1>2, <1>3, <1>4, <1>5, <1>6, <1>7, <1>8, <1>9, <1>10, <1>11, <1>12 DEF Next

(* The front end fails only over what is wrong in the source tree, and     *)
(* succeeds only over a whole and acyclic one, all of which it has parsed. *)
THEOREM CausedOutcome == Spec => []OutcomeHasCause
<1>1. IInv /\ Init => OInv
  <2>1. Init => outcome = "running"
    BY DEF Init
  <2>2. QED
    BY <2>1, InitiallyDone DEF OInv, OutcomeHasCause
<1>2. IInv /\ DInv /\ OInv /\ [Next]_vars => OInv'
  BY StepKeepsDone, StepHasCause DEF OInv
<1>3. OInv => OutcomeHasCause
  BY DEF OInv
<1>4. QED
  BY <1>1, <1>2, <1>3, InitialIInv, Invariance, InitialDInv, StepAccounts, PTL DEF Spec

-----------------------------------------------------------------------------
(* The code generator.                                                     *)

Activations == [file : Files, todo : SUBSET Modules]
Names == Files \cup {C!NoName}
Parts == [file : Files, tag : Names]

(* The walk over the import maps d, with the activations s, the marked     *)
(* names im, and the files em that were written; need: what is needed.     *)
InWork(d, need, a, im, em) == /\ a.file \in need \ em
                              /\ a.todo \subseteq d[a.file]
                              /\ d[a.file] \ a.todo \subseteq im

Walk(d, need, s, im, em) ==
  /\ s \in Seq(Activations)
  /\ Len(s) > 0 => s[1].file = Main
  /\ \A i \in 1..Len(s) : InWork(d, need, s[i], im, em)
  /\ \A i \in 1..(Len(s) - 1) : s[i + 1].file \in d[s[i].file]
  /\ im \subseteq Modules
  /\ \A m \in Modules : m \in im <=> m \in em \/ \E i \in 2..Len(s) : m = s[i].file
  /\ \A f \in em : f \in need /\ d[f] \subseteq em

Tagged(d, o, i) == \/ o[i].tag = o[i].file
                   \/ /\ i > 1 /\ o[i].file # Main
                      /\ o[i].tag = o[i - 1].tag
                      /\ o[i - 1].file \in d[o[i].file]

FilesOf(o) == {o[i].file : i \in 1..Len(o)}

(* The text o, and the global name fn while the walk is at s.              *)
Text(d, s, fn, o) ==
  /\ fn \in Names /\ o \in Seq(Parts)
  /\ Len(o) = Cardinality(FilesOf(o))
  /\ Len(s) = 0 /\ Len(o) > 0 => o[Len(o)].file = Main
  /\ \A i \in 1..Len(o) : Tagged(d, o, i)
  /\ Len(s) > 1 => \/ fn = s[Len(s)].file
                   \/ /\ Len(o) > 0
                      /\ fn = o[Len(o)].tag
                      /\ o[Len(o)].file \in d[s[Len(s)].file]

(* The inductive invariant: nothing is written before the front end is     *)
(* done, and then the walk goes over an acyclic graph.                     *)
BInv == /\ outcome = "parsed" \/ (frames = <<>> /\ out = <<>> /\ imported = {})
        /\ Walk(ImportMaps, Needed, frames, imported, FilesOf(out))
        /\ Text(ImportMaps, frames, filename, out)

FrontInv == IInv /\ DInv /\ OInv

-----------------------------------------------------------------------------
(* One step of the walk, for any maps d.                                   *)

LEMMA LastIsInWork ==
  ASSUME NEW d, NEW need, NEW s, NEW im, NEW em, Walk(d, need, s, im, em), Len(s) > 0
  PROVE  /\ InWork(d, need, s[Len(s)], im, em)
         /\ s[Len(s)] \in Activations /\ s[Len(s)].file \in Files
<1>1. s \in Seq(Activations) /\ Len(s) \in 1..Len(s)
  BY DEF Walk
<1>2. s[Len(s)] \in Activations
  BY <1>1
<1>3. InWork(d, need, s[Len(s)], im, em)
  BY <1>1 DEF Walk
<1>4. QED
  BY <1>2, <1>3 DEF Activations

LEMMA WalkSkips ==
  ASSUME NEW d \in [Files -> SUBSET Modules], NEW need, NEW s, NEW im, NEW em,
         Walk(d, need, s, im, em), Len(s) > 0,
         NEW m \in s[Len(s)].todo, m \in im,
         NEW t, t \in Seq(Activations), Len(t) = Len(s),
         \A i \in 1..(Len(s) - 1) : t[i] = s[i],
         t[Len(s)].file = s[Len(s)].file, t[Len(s)].todo = s[Len(s)].todo \ {m}
  PROVE  Walk(d, need, t, im, em)
<1> DEFINE n == Len(s)
<1>1. n \in Nat /\ n > 0 /\ s \in Seq(Activations)
  BY DEF Walk
<1>2. \A i \in 1..n : t[i].file = s[i].file
  BY <1>1
<1>3. ASSUME NEW i \in 1..n PROVE InWork(d, need, t[i], im, em)
  <2>1. InWork(d, need, s[i], im, em)
    BY DEF Walk
  <2>2. CASE i = n
    BY <2>1, <2>2 DEF InWork
  <2>3. CASE i # n
    BY <1>1, <2>1, <2>3
  <2>4. QED
    BY <2>2, <2>3
<1>4. \A i \in 1..(n - 1) : t[i + 1].file \in d[t[i].file]
  <2>1. \A i \in 1..(n - 1) : s[i + 1].file \in d[s[i].file]
    BY DEF Walk
  <2>2. QED
    BY <1>1, <1>2, <2>1
<1>5. \A k \in Modules : k \in im <=> k \in em \/ \E i \in 2..n : k = t[i].file
  <2>1. \A k \in Modules : k \in im <=> k \in em \/ \E i \in 2..n : k = s[i].file
    BY DEF Walk
  <2>2. QED
    BY <1>1, <1>2, <2>1
<1>6. t[1].file = Main
  BY <1>1, <1>2 DEF Walk
<1>7. im \subseteq Modules /\ \A f \in em : f \in need /\ d[f] \subseteq em
  BY DEF Walk
<1> HIDE DEF n
<1>8. QED
  <2>1. Len(t) = n
    BY DEF n
  <2>2. QED
    BY <1>3, <1>4, <1>5, <1>6, <1>7, <2>1 DEF Walk

LEMMA WalkVisits ==
  ASSUME NEW d \in [Files -> SUBSET Modules], NEW need, NEW s, NEW im, NEW em,
         Walk(d, need, s, im, em), Len(s) > 0,
         \A f \in need : d[f] \subseteq need,
         NEW m \in s[Len(s)].todo, m \notin im,
         NEW t, t \in Seq(Activations), Len(t) = Len(s) + 1,
         \A i \in 1..(Len(s) - 1) : t[i] = s[i],
         t[Len(s)].file = s[Len(s)].file, t[Len(s)].todo = s[Len(s)].todo \ {m},
         t[Len(s) + 1].file = m, t[Len(s) + 1].todo = d[m],
         NEW jm, jm = im \cup {m}
  PROVE  Walk(d, need, t, jm, em)
<1> DEFINE n == Len(s)
<1>1. n \in Nat /\ n > 0 /\ s \in Seq(Activations)
  BY DEF Walk
<1>2. \A i \in 1..n : t[i].file = s[i].file
  BY <1>1
<1>3. s[n].file \in need /\ s[n].todo \subseteq d[s[n].file] /\ s[n].file \in Files
  BY <1>1, LastIsInWork DEF InWork
<1>4. m \in Modules /\ m \in d[s[n].file] /\ m \in need
  BY <1>3
<1>5. m \notin em
  BY <1>4 DEF Walk
<1>6. ASSUME NEW i \in 1..(n + 1) PROVE InWork(d, need, t[i], jm, em)
  <2>1. CASE i = n + 1
    BY <1>4, <1>5, <2>1 DEF InWork
  <2>2. CASE i = n
    <3>1. InWork(d, need, s[n], im, em)
      BY <1>1 DEF Walk
    <3>2. QED
      BY <2>2, <3>1 DEF InWork
  <2>3. CASE i < n
    <3>1. InWork(d, need, s[i], im, em) /\ t[i] = s[i]
      BY <1>1, <2>3 DEF Walk
    <3>2. QED
      BY <3>1 DEF InWork
  <2>4. QED
    BY <1>1, <2>1, <2>2, <2>3
<1>7. ASSUME NEW i \in 1..n PROVE t[i + 1].file \in d[t[i].file]
  <2>1. CASE i = n
    BY <1>2, <1>4, <2>1
  <2>2. CASE i < n
    BY <1>1, <1>2, <2>2 DEF Walk
  <2>3. QED
    BY <1>1, <2>1, <2>2
<1>8. \A k \in Modules : k \in jm <=> k \in em \/ \E i \in 2..(n + 1) : k = t[i].file
  <2>1. \A k \in Modules : k \in im <=> k \in em \/ \E i \in 2..n : k = s[i].file
    BY DEF Walk
  <2>2. \A k : (\E i \in 2..(n + 1) : k = t[i].file) <=>
                 k = m \/ \E i \in 2..n : k = s[i].file
    <3>1. 2..(n + 1) = 2..n \cup {n + 1} /\ t[n + 1].file = m
      BY <1>1
    <3>2. \A i \in 2..n : t[i].file = s[i].file
      BY <1>2
    <3>3. QED
      BY <3>1, <3>2
  <2>3. QED
    BY <2>1, <2>2
<1>9. t[1].file = Main
  BY <1>1, <1>2 DEF Walk
<1>10. jm \subseteq Modules /\ \A f \in em : f \in need /\ d[f] \subseteq em
  BY <1>4 DEF Walk
<1> HIDE DEF n
<1>11. QED
  <2>1. Len(t) = n + 1 /\ Len(t) - 1 = n /\ n \in Nat
    BY <1>1 DEF n
  <2>2. \A i \in 1..Len(t) : InWork(d, need, t[i], jm, em)
    BY <1>6, <2>1
  <2>3. \A i \in 1..(Len(t) - 1) : t[i + 1].file \in d[t[i].file]
    BY <1>7, <2>1
  <2>4. \A k \in Modules : k \in jm <=> k \in em \/ \E i \in 2..Len(t) : k = t[i].file
    BY <1>8, <2>1
  <2>5. QED
    BY <1>9, <1>10, <2>2, <2>3, <2>4 DEF Walk

(* From the activations s to t: the innermost one is over, its file, which *)
(* is not met again, is added to those written.                            *)
Leaves(d, s, t, em, en) ==
  /\ Len(s) > 0 /\ s[Len(s)].todo = {}
  /\ \A i \in 1..Len(s) : s[i].file \notin d[s[Len(s)].file]
  /\ \A i \in 1..(Len(s) - 1) : s[i].file # s[Len(s)].file
  /\ t \in Seq(Activations) /\ Len(t) = Len(s) - 1
  /\ \A i \in 1..(Len(s) - 1) : t[i] = s[i]
  /\ en = em \cup {s[Len(s)].file}

LEMMA WalkEmits ==
  ASSUME NEW d \in [Files -> SUBSET Modules], NEW need, NEW s, NEW im, NEW em,
         Walk(d, need, s, im, em), NEW t, NEW en, Leaves(d, s, t, em, en)
  PROVE  /\ d[s[Len(s)].file] \subseteq em
         /\ s[Len(s)].file \in need \ em
         /\ Walk(d, need, t, im, en)
<1> SUFFICES ASSUME NEW f, f = s[Len(s)].file
             PROVE  /\ d[f] \subseteq em /\ f \notin em /\ f \in need
                    /\ Walk(d, need, t, im, en)
  OBVIOUS
<1> DEFINE n == Len(s)
<1>1. /\ n > 0 /\ s[n].todo = {}
      /\ \A i \in 1..n : s[i].file \notin d[f]
      /\ \A i \in 1..(n - 1) : s[i].file # f
      /\ t \in Seq(Activations) /\ Len(t) = n - 1
      /\ \A i \in 1..(n - 1) : t[i] = s[i]
      /\ en = em \cup {f}
  BY DEF Leaves
<1>2. n \in Nat /\ n > 0 /\ s \in Seq(Activations)
  BY <1>1 DEF Walk
<1>3. /\ f \in need \ em /\ d[f] \subseteq im /\ f \in Files
  BY <1>1, <1>2, LastIsInWork DEF InWork
<1>4. \A k \in Modules : k \in im <=> k \in em \/ \E i \in 2..n : k = s[i].file
  BY <1>1 DEF Walk
<1>5. d[f] \subseteq em
  BY <1>1, <1>2, <1>3, <1>4
<1>6. ASSUME NEW i \in 1..(n - 1) PROVE InWork(d, need, t[i], im, en)
  <2>1. InWork(d, need, s[i], im, em) /\ t[i] = s[i] /\ s[i].file # f
    BY <1>1, <1>2 DEF Walk
  <2>2. QED
    BY <1>1, <2>1 DEF InWork
<1>7. \A i \in 1..(n - 2) : t[i + 1].file \in d[t[i].file]
  <2>1. \A i \in 1..(n - 2) : s[i + 1].file \in d[s[i].file] /\ t[i] = s[i] /\ t[i + 1] = s[i + 1]
    BY <1>1, <1>2 DEF Walk
  <2>2. QED
    BY <1>1, <2>1
<1>8. \A k \in Modules : k \in im <=> k \in en \/ \E i \in 2..(n - 1) : k = t[i].file
  <2>1. CASE n = 1
    <3>1. f = Main /\ Main \notin Modules
      BY <1>1, <2>1, ImporterAssumption DEF Walk
    <3>2. QED
      BY <1>1, <1>4, <2>1, <3>1
  <2>2. CASE n > 1
    <3>1. 2..n = 2..(n - 1) \cup {n} /\ \A i \in 2..(n - 1) : t[i] = s[i]
      BY <1>1, <1>2, <2>2
    <3>2. \A k : (\E i \in 2..n : k = s[i].file) <=>
                   k = f \/ \E i \in 2..(n - 1) : k = t[i].file
      BY <1>1, <3>1
    <3>3. QED
      BY <1>1, <1>4, <3>2
  <2>3. QED
    BY <1>1, <1>2, <2>1, <2>2
<1>9. Len(t) > 0 => t[1].file = Main
  BY <1>1, <1>2 DEF Walk
<1>10. im \subseteq Modules
  BY <1>1 DEF Walk
<1>11. \A g \in en : g \in need /\ d[g] \subseteq en
  BY <1>1, <1>3, <1>5 DEF Walk
<1> HIDE DEF n
<1>12. QED
  <2>1. Len(t) = n - 1 /\ Len(t) - 1 = n - 2 /\ n \in Nat
    BY <1>1, <1>2 DEF n
  <2>2. \A i \in 1..Len(t) : InWork(d, need, t[i], im, en)
    BY <1>1, <1>6, <2>1
  <2>3. \A i \in 1..(Len(t) - 1) : t[i + 1].file \in d[t[i].file]
    BY <1>1, <1>7, <2>1
  <2>4. \A k \in Modules : k \in im <=> k \in en \/ \E i \in 2..Len(t) : k = t[i].file
    BY <1>1, <1>8, <2>1
  <2>5. Walk(d, need, t, im, en)
    BY <1>1, <1>9, <1>10, <1>11, <2>2, <2>3, <2>4 DEF Walk
  <2>6. QED
    BY <1>1, <1>3, <1>5, <2>5

-----------------------------------------------------------------------------
(* The activations and the parts as sequences.                             *)

Without(s, m) == [s EXCEPT ![Len(s)].todo = @ \ {m}]

LEMMA RestShape ==
  ASSUME NEW s \in Seq(Activations), Len(s) > 0, NEW m
  PROVE  /\ Without(s, m) \in Seq(Activations) /\ Len(Without(s, m)) = Len(s)
         /\ \A i \in 1..(Len(s) - 1) : Without(s, m)[i] = s[i]
         /\ Without(s, m)[Len(s)].file = s[Len(s)].file
         /\ Without(s, m)[Len(s)].todo = s[Len(s)].todo \ {m}
<1>1. Len(s) \in 1..Len(s) /\ s[Len(s)] \in Activations
  OBVIOUS
<1> DEFINE a == [s[Len(s)] EXCEPT !.todo = @ \ {m}]
<1>2. a \in Activations /\ a.file = s[Len(s)].file /\ a.todo = s[Len(s)].todo \ {m}
  BY <1>1 DEF Activations
<1>3. Without(s, m) = [s EXCEPT ![Len(s)] = a]
  BY DEF Without
<1> HIDE DEF a
<1> DEFINE r == [s EXCEPT ![Len(s)] = a]
<1>4. /\ r \in Seq(Activations) /\ Len(r) = Len(s)
      /\ \A i \in 1..Len(s) : r[i] = IF i = Len(s) THEN a ELSE s[i]
  BY <1>1, <1>2, ExceptSeq
<1>5. Without(s, m) = r
  BY <1>3
<1> HIDE DEF r
<1>6. r[Len(s)] = a /\ \A i \in 1..(Len(s) - 1) : r[i] = s[i]
  BY <1>1, <1>4
<1>7. QED
  BY <1>2, <1>4, <1>5, <1>6

LEMMA AppendShape ==
  ASSUME NEW S, NEW s \in Seq(S), NEW b \in S, NEW t, t = Append(s, b)
  PROVE  /\ t \in Seq(S) /\ Len(t) = Len(s) + 1
         /\ \A i \in 1..Len(s) : t[i] = s[i]
         /\ t[Len(s) + 1] = b
BY AppendProperties

LEMMA FrontShape ==
  ASSUME NEW S, NEW s \in Seq(S), Len(s) > 0, NEW t, t = SubSeq(s, 1, Len(s) - 1)
  PROVE  /\ t \in Seq(S) /\ Len(t) = Len(s) - 1
         /\ \A i \in 1..(Len(s) - 1) : t[i] = s[i]
<1> DEFINE n == Len(s) - 1
<1>1. n \in Nat /\ n <= Len(s) /\ Len(s) \in Nat
  OBVIOUS
<1>2. t = SubSeq(s, 1, n)
  OBVIOUS
<1>3. \A i \in 1..n : s[i] \in S
  BY <1>1
<1> HIDE DEF n
<1>4. /\ t \in Seq(S)
      /\ Len(t) = IF 1 <= n THEN n - 1 + 1 ELSE 0
      /\ \A i \in 1..(n - 1 + 1) : t[i] = s[1 + i - 1]
  BY <1>1, <1>2, SubSeqProperties
<1>5. Len(t) = n /\ \A i \in 1..n : t[i] = s[i]
  BY <1>1, <1>4
<1>6. QED
  BY <1>4, <1>5 DEF n

(* q is the text o with one more part p.                                   *)
Grows(d, o, p, q) ==
  /\ o \in Seq(Parts) /\ q \in Seq(Parts) /\ Len(q) = Len(o) + 1
  /\ \A i \in 1..Len(o) : q[i] = o[i]
  /\ q[Len(o) + 1] = p /\ p \in Parts
  /\ p.file \notin FilesOf(o)
  /\ \/ p.tag = p.file
     \/ /\ Len(o) > 0 /\ p.file # Main
        /\ p.tag = o[Len(o)].tag
        /\ o[Len(o)].file \in d[p.file]

LEMMA TextGrows ==
  ASSUME NEW d, NEW s, NEW fn, NEW o, Text(d, s, fn, o), IsFiniteSet(FilesOf(o)),
         NEW p, NEW q, Grows(d, o, p, q)
  PROVE  /\ q[Len(q)] = p
         /\ FilesOf(q) = FilesOf(o) \cup {p.file}
         /\ Len(q) = Cardinality(FilesOf(q))
         /\ \A i \in 1..Len(q) : Tagged(d, q, i)
<1>1. /\ o \in Seq(Parts) /\ Len(o) \in Nat /\ q \in Seq(Parts) /\ Len(q) = Len(o) + 1
      /\ \A i \in 1..Len(o) : q[i] = o[i]
      /\ q[Len(o) + 1] = p /\ p.file \notin FilesOf(o)
  BY DEF Grows
<1>2. FilesOf(q) = FilesOf(o) \cup {p.file}
  <2>1. 1..Len(q) = 1..Len(o) \cup {Len(o) + 1}
    BY <1>1
  <2>2. \A x : (\E i \in 1..Len(q) : x = q[i].file) <=>
                 x = p.file \/ \E i \in 1..Len(o) : x = o[i].file
    <3>1. ASSUME NEW x, NEW i \in 1..Len(q), x = q[i].file
          PROVE  x = p.file \/ \E k \in 1..Len(o) : x = o[k].file
      <4>1. i \in 1..Len(o) \/ q[i] = p
        BY <1>1, <2>1
      <4>2. QED
        BY <1>1, <3>1, <4>1
    <3>2. \A k \in 1..Len(o) : k \in 1..Len(q) /\ q[k] = o[k]
      BY <1>1, <2>1
    <3>3. Len(o) + 1 \in 1..Len(q) /\ q[Len(o) + 1] = p
      BY <1>1, <2>1
    <3>4. ASSUME NEW x, x = p.file \/ \E k \in 1..Len(o) : x = o[k].file
          PROVE  \E i \in 1..Len(q) : x = q[i].file
      <4>1. CASE x = p.file
        BY <3>3, <4>1
      <4>2. ASSUME NEW k \in 1..Len(o), x = o[k].file
            PROVE  \E i \in 1..Len(q) : x = q[i].file
        BY <3>2, <4>2
      <4>3. QED
        BY <3>4, <4>1, <4>2
    <3>5. QED
      BY <3>1, <3>4
  <2>3. \A x : x \in FilesOf(q) <=> x \in FilesOf(o) \cup {p.file}
    <3>1. \A x : x \in FilesOf(q) <=> \E i \in 1..Len(q) : x = q[i].file
      BY Zenon DEF FilesOf
    <3>2. \A x : x \in FilesOf(o) <=> \E i \in 1..Len(o) : x = o[i].file
      BY Zenon DEF FilesOf
    <3>3. \A x : x \in FilesOf(o) \cup {p.file} <=> x = p.file \/ x \in FilesOf(o)
      BY Zenon
    <3>4. QED
      BY <2>2, <3>1, <3>2, <3>3, Zenon
  <2>4. QED
    BY <2>3
<1>3. Len(q) = Cardinality(FilesOf(q))
  <2>1. Cardinality(FilesOf(o) \cup {p.file}) = Cardinality(FilesOf(o)) + 1
    BY <1>1, FS_AddElement
  <2>2. QED
    BY <1>1, <1>2, <2>1 DEF Text
<1>4. ASSUME NEW i \in 1..Len(q) PROVE Tagged(d, q, i)
  <2>1. CASE i = Len(o) + 1
    <3>1. q[i] = p /\ (Len(o) > 0 => i > 1 /\ q[i - 1] = o[Len(o)])
      BY <1>1, <2>1
    <3>2. QED
      BY <2>1, <3>1 DEF Tagged, Grows
  <2>2. CASE i <= Len(o)
    <3>1. q[i] = o[i] /\ (i > 1 => q[i - 1] = o[i - 1])
      BY <1>1, <2>2
    <3>2. Tagged(d, o, i)
      BY <1>1, <2>2 DEF Text
    <3>3. QED
      BY <3>1, <3>2 DEF Tagged
  <2>3. QED
    BY <1>1, <2>1, <2>2
<1>5. QED
  BY <1>1, <1>2, <1>3, <1>4

-----------------------------------------------------------------------------
(* What the front end hands over.                                          *)

LEMMA FrontEndRuns == Next => outcome = "running" /\ tree' = tree
BY DEF Next, ImportTwice, ImportCached, ImportMissing, ImportOpen, ImportUnopened, Enter,
       AtImport, BadImport, BeginDefinitions, BadDefinition, FinishMain, RejectModule,
       FinishModule, Stop

LEMMA MapsKept ==
  ASSUME tree' = tree
  PROVE  ImportMaps' = ImportMaps /\ Needed' = Needed
<1>1. \A f : ImportSet(f)' = ImportSet(f)
  BY DEF ImportSet, Imports
<1>2. QED
  BY <1>1, SameSources DEF ImportMaps

LEMMA MapsOfNeeded ==
  ASSUME IInv
  PROVE  /\ ImportMaps \in [Files -> SUBSET Modules]
         /\ \A f \in Needed : ImportMaps[f] \subseteq Needed
<1>1. tree \in [Files -> Sources]
  BY DEF IInv, TypeOK
<1>2. \A f \in Needed : f \in Files /\ ImportSet(f) \subseteq Needed
  BY <1>1, ImportsAreNeeded DEF Needed
<1>3. \A f \in Files : ImportSet(f) \in SUBSET Modules
  BY <1>1, ImportSetType
<1>4. QED
  BY <1>2, <1>3 DEF ImportMaps

(* On an acyclic graph the walk does not come back to a file it is in.     *)
LEMMA NoReturn ==
  ASSUME IInv, ~Cyclic, NEW s, NEW im, NEW em,
         Walk(ImportMaps, Needed, s, im, em), Len(s) > 0
  PROVE  /\ \A i \in 1..Len(s) : s[i].file \notin ImportMaps[s[Len(s)].file]
         /\ \A i \in 1..(Len(s) - 1) : s[i].file # s[Len(s)].file
<1> DEFINE n == Len(s)
<1>1. n \in Nat \ {0} /\ s \in Seq(Activations)
  BY DEF Walk
<1>2. \A i \in 1..n : s[i].file \in Needed /\ s[i].file \in Files
  <2>1. \A i \in 1..n : s[i].file \in Needed
    BY DEF Walk, InWork
  <2>2. QED
    BY <2>1 DEF Needed
<1>3. \A i \in 1..(n - 1) : s[i + 1].file \in ImportSet(s[i].file)
  <2>1. \A i \in 1..(n - 1) : s[i + 1].file \in ImportMaps[s[i].file]
    BY DEF Walk
  <2>2. \A f \in Files : ImportMaps[f] = ImportSet(f)
    BY DEF ImportMaps
  <2>3. \A i \in 1..(n - 1) : s[i].file \in Files
    BY <1>1, <1>2
  <2>4. QED
    BY <2>1, <2>2, <2>3
<1>4. ASSUME NEW i \in 1..(n - 1), s[i].file = s[n].file PROVE FALSE
  <2> DEFINE p == [k \in 1..n |-> s[k].file]
  <2>1. n - 1 \in Nat /\ (n - 1) + 1 = n /\ i \in 1..n /\ n \in 1..n /\ i < n
    BY <1>1
  <2>2. \A k \in 1..n : p[k] \in Needed
    BY <1>2
  <2>3. \A k \in 1..(n - 1) : p[k + 1] \in ImportSet(p[k])
    BY <1>1, <1>3
  <2>4. p[i] = p[n]
    BY <1>4, <2>1
  <2> HIDE DEF p
  <2>5. Cyclic
    BY <2>1, <2>2, <2>3, <2>4, ReturnIsCycle
  <2>6. QED
    BY <2>5
<1>5. ASSUME NEW i \in 1..n, s[i].file \in ImportMaps[s[n].file] PROVE FALSE
  <2> DEFINE p == [k \in 1..(n + 1) |-> IF k <= n THEN s[k].file ELSE s[i].file]
  <2>1. n \in Nat /\ i \in 1..(n + 1) /\ n + 1 \in 1..(n + 1) /\ i < n + 1
    BY <1>1
  <2>2. \A k \in 1..(n + 1) : p[k] \in Needed
    BY <1>1, <1>2
  <2>3. ASSUME NEW k \in 1..n PROVE p[k + 1] \in ImportSet(p[k])
    <3>1. CASE k = n
      <4>1. s[n].file \in Files
        BY <1>1, <1>2
      <4>2. p[k] = s[n].file /\ p[k + 1] = s[i].file
        BY <1>1, <3>1
      <4>3. QED
        BY <1>5, <4>1, <4>2 DEF ImportMaps
    <3>2. CASE k # n
      <4>1. p[k] = s[k].file /\ p[k + 1] = s[k + 1].file /\ k \in 1..(n - 1)
        BY <1>1, <3>2
      <4>2. QED
        BY <1>3, <4>1
    <3>3. QED
      BY <3>1, <3>2
  <2>4. p[i] = p[n + 1]
    BY <1>1, <2>1
  <2> HIDE DEF p
  <2>5. Cyclic
    BY <2>1, <2>2, <2>3, <2>4, ReturnIsCycle
  <2>6. QED
    BY <2>5
<1>6. QED
  BY <1>4, <1>5

LEMMA WrittenIsFinite ==
  ASSUME NEW d, NEW s, NEW im, NEW em, Walk(d, Needed, s, im, em)
  PROVE  IsFiniteSet(em)
<1>1. em \in SUBSET Needed
  BY DEF Walk
<1>2. QED
  BY <1>1, NeededIsFinite, FS_Subset

-----------------------------------------------------------------------------
(* The steps of the code generator.                                        *)

(* What they all may rely on.                                              *)
LEMMA Working ==
  ASSUME FrontInv, BInv, outcome = "parsed", UNCHANGED vars
  PROVE  /\ IInv /\ ~Cyclic /\ outcome' = "parsed"
         /\ ImportMaps' = ImportMaps /\ Needed' = Needed
         /\ ImportMaps \in [Files -> SUBSET Modules]
         /\ \A f \in Needed : ImportMaps[f] \subseteq Needed
         /\ frames \in Seq(Activations) /\ Len(frames) \in Nat
         /\ out \in Seq(Parts) /\ Len(out) \in Nat
         /\ Walk(ImportMaps, Needed, frames, imported, FilesOf(out))
         /\ Text(ImportMaps, frames, filename, out)
<1>1. IInv /\ OutcomeHasCause
  BY DEF FrontInv, OInv
<1>2. ~Cyclic
  BY <1>1 DEF OutcomeHasCause
<1>3. tree' = tree /\ outcome' = outcome
  BY DEF vars
<1>4. /\ Walk(ImportMaps, Needed, frames, imported, FilesOf(out))
      /\ Text(ImportMaps, frames, filename, out)
  BY DEF BInv
<1>5. frames \in Seq(Activations) /\ out \in Seq(Parts)
  BY <1>4 DEF Walk, Text
<1>6. Len(frames) \in Nat /\ Len(out) \in Nat
  BY <1>5
<1>7. QED
  BY <1>1, <1>2, <1>3, <1>4, <1>5, <1>6, MapsKept, MapsOfNeeded

(* BInv in the next state, by its parts.                                   *)
LEMMA NextByParts ==
  ASSUME outcome' = "parsed" \/ (frames' = <<>> /\ out' = <<>> /\ imported' = {}),
         ImportMaps' = ImportMaps, Needed' = Needed,
         Walk(ImportMaps, Needed, frames', imported', FilesOf(out')),
         Text(ImportMaps, frames', filename', out')
  PROVE  BInv'
<1>1. FilesOf(out)' = FilesOf(out')
  BY DEF FilesOf
<1>2. Walk(ImportMaps, Needed, frames, imported, FilesOf(out))'
  BY <1>1 DEF Walk, InWork
<1>3. Text(ImportMaps, frames, filename, out)'
  BY <1>1 DEF Text, Tagged
<1>4. QED
  BY <1>2, <1>3 DEF BInv

LEMMA FirstWalk ==
  ASSUME NEW d \in [Files -> SUBSET Modules], NEW need, Main \in need,
         NEW s, s = <<[file |-> Main, todo |-> d[Main]]>>, NEW em, em = {}
  PROVE  Walk(d, need, s, {}, em) /\ Len(s) = 1
<1>1. Main \in Files /\ d[Main] \in SUBSET Modules
  BY DEF Files
<1> DEFINE a == [file |-> Main, todo |-> d[Main]]
<1>2. a \in Activations /\ a.file = Main /\ a.todo = d[Main]
  BY <1>1 DEF Activations
<1> HIDE DEF a
<1>3. s = <<a>>
  BY DEF a
<1>4. s \in Seq(Activations) /\ Len(s) = 1 /\ s[1] = a
  BY <1>2, <1>3
<1>5. InWork(d, need, a, {}, em)
  BY <1>2 DEF InWork
<1>6. 1..1 = {1} /\ 1..0 = {} /\ 2..1 = {}
  OBVIOUS
<1>7. QED
  BY <1>2, <1>4, <1>5, <1>6 DEF Walk

LEMMA Begun ==
  ASSUME FrontInv, BInv, outcome = "parsed", UNCHANGED vars, C!Begin
  PROVE  BInv'
<1>1. /\ frames = <<>> /\ out = <<>>
      /\ frames' = <<[file |-> Main, todo |-> ImportMaps[Main]]>>
      /\ imported' = {} /\ filename' = filename /\ out' = out
  BY DEF C!Begin, C!Activation
<1>2. FilesOf(out') = {}
  BY <1>1 DEF FilesOf
<1>3. /\ Walk(ImportMaps, Needed, frames', imported', FilesOf(out'))
      /\ Len(frames') = 1
  BY <1>1, <1>2, Working, MainIsNeeded, FirstWalk
<1>4. Text(ImportMaps, frames', filename', out')
  <2>1. Text(ImportMaps, frames, filename, out) /\ Len(out) = 0
    BY <1>1, Working
  <2>2. QED
    BY <1>1, <1>3, <2>1 DEF Text
<1>5. QED
  BY <1>3, <1>4, Working, NextByParts

LEMMA Skipped ==
  ASSUME FrontInv, BInv, outcome = "parsed", UNCHANGED vars,
         NEW m \in Modules, C!SkipImported(m)
  PROVE  BInv'
<1>1. /\ Len(frames) > 0 /\ m \in frames[Len(frames)].todo /\ m \in imported
      /\ frames' = Without(frames, m)
      /\ imported' = imported /\ filename' = filename /\ out' = out
  BY Working DEF C!SkipImported, C!Delivers, C!Last, C!Rest, Without
<1>2. /\ frames' \in Seq(Activations) /\ Len(frames') = Len(frames)
      /\ \A i \in 1..(Len(frames) - 1) : frames'[i] = frames[i]
      /\ frames'[Len(frames)].file = frames[Len(frames)].file
      /\ frames'[Len(frames)].todo = frames[Len(frames)].todo \ {m}
  <2>1. frames \in Seq(Activations)
    BY Working
  <2>2. QED
    BY <1>1, <2>1, RestShape
<1>3. Walk(ImportMaps, Needed, frames', imported, FilesOf(out))
  <2>1. /\ ImportMaps \in [Files -> SUBSET Modules]
        /\ Walk(ImportMaps, Needed, frames, imported, FilesOf(out))
    BY Working
  <2>2. QED
    BY <1>1, <1>2, <2>1, WalkSkips
<1>4. Text(ImportMaps, frames', filename, out)
  <2>1. Text(ImportMaps, frames, filename, out)
    BY Working
  <2>2. QED
    BY <1>1, <1>2, <2>1 DEF Text
<1>5. QED
  BY <1>1, <1>3, <1>4, Working, NextByParts

LEMMA Visited ==
  ASSUME FrontInv, BInv, outcome = "parsed", UNCHANGED vars,
         NEW m \in Modules, C!Visit(m)
  PROVE  BInv'
<1> DEFINE r == Without(frames, m)
           b == [file |-> m, todo |-> ImportMaps[m]]
<1>1. /\ Len(frames) > 0 /\ m \in frames[Len(frames)].todo /\ m \notin imported
      /\ frames' = Append(r, b)
      /\ imported' = imported \cup {m} /\ filename' = m /\ out' = out
  BY Working DEF C!Visit, C!Delivers, C!Last, C!Rest, C!Activation, C!Visited,
                 Without
<1>2. /\ r \in Seq(Activations) /\ Len(r) = Len(frames)
      /\ \A i \in 1..(Len(frames) - 1) : r[i] = frames[i]
      /\ r[Len(frames)].file = frames[Len(frames)].file
      /\ r[Len(frames)].todo = frames[Len(frames)].todo \ {m}
  <2>1. frames \in Seq(Activations)
    BY Working
  <2>2. QED
    BY <1>1, <2>1, RestShape
<1>3. b \in Activations /\ b.file = m /\ b.todo = ImportMaps[m] /\ m \in Files
  BY Working DEF Activations, Files
<1> HIDE DEF r, b
<1>4. /\ frames' \in Seq(Activations) /\ Len(frames') = Len(frames) + 1
      /\ \A i \in 1..(Len(frames) - 1) : frames'[i] = frames[i]
      /\ frames'[Len(frames)] = r[Len(frames)]
      /\ frames'[Len(frames) + 1] = b
  <2>1. /\ frames' \in Seq(Activations) /\ Len(frames') = Len(r) + 1
        /\ \A i \in 1..Len(r) : frames'[i] = r[i]
        /\ frames'[Len(r) + 1] = b
    BY <1>1, <1>2, <1>3, AppendShape
  <2>2. QED
    BY <1>1, <1>2, <2>1, Working
<1>5. Walk(ImportMaps, Needed, frames', imported', FilesOf(out))
  <2>1. /\ ImportMaps \in [Files -> SUBSET Modules]
        /\ \A f \in Needed : ImportMaps[f] \subseteq Needed
        /\ Walk(ImportMaps, Needed, frames, imported, FilesOf(out))
    BY Working
  <2>2. /\ frames'[Len(frames)].file = frames[Len(frames)].file
        /\ frames'[Len(frames)].todo = frames[Len(frames)].todo \ {m}
        /\ frames'[Len(frames) + 1].file = m
        /\ frames'[Len(frames) + 1].todo = ImportMaps[m]
    BY <1>2, <1>3, <1>4
  <2>3. /\ Len(frames) > 0 /\ m \in frames[Len(frames)].todo /\ m \notin imported
        /\ imported' = imported \cup {m}
    BY <1>1
  <2>4. QED
    BY <1>4, <2>1, <2>2, <2>3, WalkVisits
<1>6. Text(ImportMaps, frames', m, out)
  <2>1. Text(ImportMaps, frames, filename, out) /\ Len(frames') > 0
    BY <1>1, <1>4, Working
  <2>2. frames'[Len(frames')].file = m
    BY <1>3, <1>4
  <2>3. QED
    BY <1>3, <2>1, <2>2 DEF Text, Names
<1>7. QED
  BY <1>1, <1>5, <1>6, Working, NextByParts

(* The last activation is over: its file's part is what is added.          *)
LEMMA LastIsDone ==
  ASSUME FrontInv, BInv, outcome = "parsed", UNCHANGED vars,
         Len(frames) > 0, frames[Len(frames)].todo = {},
         NEW t, t \in Seq(Activations), Len(t) = Len(frames) - 1,
         \A i \in 1..(Len(frames) - 1) : t[i] = frames[i]
  PROVE  LET f == frames[Len(frames)].file
         IN  /\ ImportMaps[f] \subseteq FilesOf(out) /\ f \in Files \ FilesOf(out)
             /\ IsFiniteSet(FilesOf(out))
             /\ Walk(ImportMaps, Needed, t, imported, FilesOf(out) \cup {f})
<1> DEFINE f == frames[Len(frames)].file
           en == FilesOf(out) \cup {f}
<1>1. /\ ImportMaps \in [Files -> SUBSET Modules] /\ IInv /\ ~Cyclic
      /\ Walk(ImportMaps, Needed, frames, imported, FilesOf(out))
  BY Working
<1>2. /\ \A i \in 1..Len(frames) : frames[i].file \notin ImportMaps[f]
      /\ \A i \in 1..(Len(frames) - 1) : frames[i].file # f
  BY <1>1, NoReturn
<1>3. Leaves(ImportMaps, frames, t, FilesOf(out), en)
  BY <1>2 DEF Leaves
<1> HIDE DEF en
<1>4. /\ ImportMaps[f] \subseteq FilesOf(out) /\ f \in Needed \ FilesOf(out)
      /\ Walk(ImportMaps, Needed, t, imported, en)
  BY <1>1, <1>3, WalkEmits
<1>5. IsFiniteSet(FilesOf(out))
  BY <1>1, WrittenIsFinite
<1>6. QED
  BY <1>4, <1>5 DEF Needed, en

LEMMA ModuleWritten ==
  ASSUME FrontInv, BInv, outcome = "parsed", UNCHANGED vars, C!EmitModule
  PROVE  /\ BInv'
         /\ \E m \in Modules : /\ m \notin FilesOf(out)
                               /\ ImportMaps[m] \subseteq FilesOf(out)
                               /\ FilesOf(out') = FilesOf(out) \cup {m}
<1> DEFINE n == Len(frames)
           f == frames[n].file
           p == [file |-> f, tag |-> filename]
<1>1. /\ n > 1 /\ frames[n].todo = {}
      /\ out' = Append(out, p)
      /\ frames' = SubSeq(frames, 1, n - 1)
      /\ imported' = imported /\ filename' = filename
  BY DEF C!EmitModule, C!MapWalked, C!Last, C!Part
<1>2. /\ n \in Nat /\ frames \in Seq(Activations)
      /\ Walk(ImportMaps, Needed, frames, imported, FilesOf(out))
      /\ Text(ImportMaps, frames, filename, out)
      /\ ImportMaps \in [Files -> SUBSET Modules]
  BY Working
<1>3. /\ frames' \in Seq(Activations) /\ Len(frames') = n - 1
      /\ \A i \in 1..(n - 1) : frames'[i] = frames[i]
  BY <1>1, <1>2, FrontShape
<1>4. f \in ImportMaps[frames[n - 1].file] /\ frames[n - 1].file \in Files
  <2>1. n - 1 \in 1..(n - 1) /\ n - 1 \in 1..n /\ (n - 1) + 1 = n
    BY <1>1, <1>2
  <2>2. f \in ImportMaps[frames[n - 1].file]
    BY <1>2, <2>1 DEF Walk
  <2>3. frames[n - 1] \in Activations
    BY <1>2, <2>1
  <2>4. QED
    BY <2>2, <2>3 DEF Activations
<1>5. f \in Modules /\ f # Main
  BY <1>2, <1>4, ImporterAssumption
<1>6. /\ ImportMaps[f] \subseteq FilesOf(out) /\ f \notin FilesOf(out) /\ f \in Files
      /\ IsFiniteSet(FilesOf(out))
      /\ Walk(ImportMaps, Needed, frames', imported, FilesOf(out) \cup {f})
  <2>1. n > 0 /\ frames[n].todo = {}
    BY <1>1, <1>2
  <2>2. QED
    BY <1>3, <2>1, LastIsDone
<1>7. /\ p \in Parts /\ p.file = f /\ p.tag = filename
      /\ \/ p.tag = p.file
         \/ /\ Len(out) > 0 /\ p.file # Main
            /\ p.tag = out[Len(out)].tag
            /\ out[Len(out)].file \in ImportMaps[p.file]
  BY <1>1, <1>2, <1>5, <1>6 DEF Text, Parts
<1> HIDE DEF p
<1>8. /\ out' \in Seq(Parts) /\ Len(out') = Len(out) + 1 /\ out'[Len(out')] = p
      /\ FilesOf(out') = FilesOf(out) \cup {f}
      /\ Len(out') = Cardinality(FilesOf(out'))
      /\ \A i \in 1..Len(out') : Tagged(ImportMaps, out', i)
  <2>1. p.file \notin FilesOf(out)
    BY <1>6, <1>7
  <2>2. out \in Seq(Parts) /\ out' = Append(out, p) /\ p \in Parts
    BY <1>1, <1>7, Working
  <2>3. /\ out' \in Seq(Parts) /\ Len(out') = Len(out) + 1
        /\ \A i \in 1..Len(out) : out'[i] = out[i]
        /\ out'[Len(out) + 1] = p
    BY <2>2, AppendShape
  <2>4. Grows(ImportMaps, out, p, out')
    BY <1>7, <2>1, <2>2, <2>3 DEF Grows
  <2>5. /\ out'[Len(out')] = p
        /\ FilesOf(out') = FilesOf(out) \cup {p.file}
        /\ Len(out') = Cardinality(FilesOf(out'))
        /\ \A i \in 1..Len(out') : Tagged(ImportMaps, out', i)
    BY <1>2, <1>6, <2>4, TextGrows
  <2>6. QED
    BY <1>7, <2>3, <2>5
<1>9. Text(ImportMaps, frames', filename', out')
  <2>1. filename' \in Names /\ Len(out') > 0
    BY <1>1, <1>2, <1>8, Working DEF Text
  <2>2. ~(Len(frames') = 0)
    BY <1>1, <1>2, <1>3
  <2>3. /\ filename' = out'[Len(out')].tag
        /\ out'[Len(out')].file \in ImportMaps[frames'[Len(frames')].file]
    BY <1>1, <1>2, <1>3, <1>4, <1>7, <1>8
  <2>4. QED
    BY <1>8, <2>1, <2>2, <2>3 DEF Text
<1>10. BInv'
  BY <1>1, <1>6, <1>8, <1>9, Working, NextByParts
<1>11. QED
  BY <1>5, <1>6, <1>8, <1>10

LEMMA MainWritten ==
  ASSUME FrontInv, BInv, outcome = "parsed", UNCHANGED vars, C!EmitMain
  PROVE  /\ BInv'
         /\ FilesOf(out') = FilesOf(out) \cup {Main}
<1> DEFINE p == [file |-> Main, tag |-> Main]
<1>1. /\ Len(frames) = 1 /\ frames[Len(frames)].todo = {}
      /\ out' = Append(out, p)
      /\ frames' = <<>>
      /\ imported' = imported /\ filename' = Main
  BY DEF C!EmitMain, C!MapWalked, C!Last, C!Part
<1>2. /\ Walk(ImportMaps, Needed, frames, imported, FilesOf(out))
      /\ Text(ImportMaps, frames, filename, out)
  BY Working
<1>3. frames[Len(frames)].file = Main
  BY <1>1, <1>2 DEF Walk
<1>4. /\ frames' \in Seq(Activations) /\ Len(frames') = Len(frames) - 1
      /\ \A i \in 1..(Len(frames) - 1) : frames'[i] = frames[i]
  BY <1>1
<1>5. /\ ImportMaps[Main] \subseteq FilesOf(out) /\ Main \notin FilesOf(out)
      /\ IsFiniteSet(FilesOf(out))
      /\ Walk(ImportMaps, Needed, frames', imported, FilesOf(out) \cup {Main})
  <2>1. Len(frames) > 0 /\ frames[Len(frames)].todo = {}
    BY <1>1
  <2>2. QED
    BY <1>3, <1>4, <2>1, LastIsDone
<1>6. p \in Parts /\ p.file = Main /\ p.tag = p.file
  BY DEF Parts, Names, Files
<1> HIDE DEF p
<1>7. /\ out' \in Seq(Parts) /\ Len(out') = Len(out) + 1 /\ out'[Len(out')] = p
      /\ FilesOf(out') = FilesOf(out) \cup {Main}
      /\ Len(out') = Cardinality(FilesOf(out'))
      /\ \A i \in 1..Len(out') : Tagged(ImportMaps, out', i)
  <2>1. p.file \notin FilesOf(out)
    BY <1>5, <1>6
  <2>2. out \in Seq(Parts) /\ out' = Append(out, p) /\ p \in Parts
    BY <1>1, <1>6, Working
  <2>3. /\ out' \in Seq(Parts) /\ Len(out') = Len(out) + 1
        /\ \A i \in 1..Len(out) : out'[i] = out[i]
        /\ out'[Len(out) + 1] = p
    BY <2>2, AppendShape
  <2>4. Grows(ImportMaps, out, p, out')
    BY <1>6, <2>1, <2>2, <2>3 DEF Grows
  <2>5. /\ out'[Len(out')] = p
        /\ FilesOf(out') = FilesOf(out) \cup {p.file}
        /\ Len(out') = Cardinality(FilesOf(out'))
        /\ \A i \in 1..Len(out') : Tagged(ImportMaps, out', i)
    BY <1>2, <1>5, <2>4, TextGrows
  <2>6. QED
    BY <1>6, <2>3, <2>5
<1>8. Text(ImportMaps, frames', filename', out')
  <2>1. filename' \in Names /\ Len(frames') = 0
    BY <1>1 DEF Names, Files
  <2>2. QED
    BY <1>6, <1>7, <2>1 DEF Text
<1>9. BInv'
  BY <1>1, <1>5, <1>7, <1>8, Working, NextByParts
<1>10. QED
  BY <1>7, <1>9

-----------------------------------------------------------------------------
(* Front end and code generator together.                                  *)

LEMMA InitialBInv == IInv /\ BuildInit => BInv
<1> SUFFICES ASSUME IInv, BuildInit PROVE BInv
  OBVIOUS
<1>1. frames = <<>> /\ out = <<>> /\ imported = {} /\ filename = C!NoName
  BY DEF BuildInit
<1>2. FilesOf(out) = {} /\ Cardinality(FilesOf(out)) = 0
  BY <1>1, FS_EmptySet DEF FilesOf
<1>3. frames \in Seq(Activations) /\ Len(frames) = 0 /\ out \in Seq(Parts) /\ Len(out) = 0
  BY <1>1
<1>4. Walk(ImportMaps, Needed, frames, imported, FilesOf(out))
  BY <1>1, <1>2, <1>3 DEF Walk
<1>5. Text(ImportMaps, frames, filename, out)
  BY <1>1, <1>2, <1>3 DEF Text, Names
<1>6. QED
  BY <1>1, <1>4, <1>5 DEF BInv

LEMMA FrontEndKeepsBInv == BInv /\ FrontEnd => BInv'
<1> SUFFICES ASSUME BInv, FrontEnd PROVE BInv'
  OBVIOUS
<1>1. outcome = "running" /\ ImportMaps' = ImportMaps /\ Needed' = Needed
  BY FrontEndRuns, MapsKept DEF FrontEnd
<1>2. frames' = frames /\ imported' = imported /\ filename' = filename /\ out' = out
  BY DEF FrontEnd, cgenVars
<1>3. /\ frames = <<>> /\ out = <<>> /\ imported = {}
      /\ Walk(ImportMaps, Needed, frames, imported, FilesOf(out))
      /\ Text(ImportMaps, frames, filename, out)
  BY <1>1 DEF BInv
<1>4. QED
  BY <1>1, <1>2, <1>3, NextByParts

LEMMA StutteringKeepsBInv == BInv /\ UNCHANGED buildVars => BInv'
<1> SUFFICES ASSUME BInv, UNCHANGED buildVars PROVE BInv'
  OBVIOUS
<1>1. /\ tree' = tree /\ outcome' = outcome
      /\ frames' = frames /\ imported' = imported /\ filename' = filename /\ out' = out
  BY DEF buildVars, vars, cgenVars
<1>2. ImportMaps' = ImportMaps /\ Needed' = Needed
  BY <1>1, MapsKept
<1>3. QED
  BY <1>1, <1>2, NextByParts DEF BInv

LEMMA CgenKeepsBInv == FrontInv /\ BInv /\ Cgen => BInv'
<1> SUFFICES ASSUME FrontInv, BInv, Cgen PROVE BInv'
  OBVIOUS
<1>1. outcome = "parsed" /\ UNCHANGED vars /\ C!Next
  BY DEF Cgen
<1>2. CASE C!Begin
  BY <1>1, <1>2, Begun
<1>3. ASSUME NEW m \in Modules, C!SkipImported(m) PROVE BInv'
  BY <1>1, <1>3, Skipped
<1>4. ASSUME NEW m \in Modules, C!Visit(m) PROVE BInv'
  BY <1>1, <1>4, Visited
<1>5. CASE C!EmitModule
  BY <1>1, <1>5, ModuleWritten
<1>6. CASE C!EmitMain
  BY <1>1, <1>6, MainWritten
<1>7. QED
  BY <1>1, <1>2, <1>3, <1>4, <1>5, <1>6 DEF C!Next

(* For the front end the code generator's steps are stuttering.            *)
LEMMA StepOfFrontEnd == [BuildNext]_buildVars => [Next]_vars
BY DEF BuildNext, FrontEnd, Cgen, buildVars

LEMMA FrontInvKept == FrontInv /\ [Next]_vars => FrontInv'
<1>1. IInv /\ [Next]_vars => IInv'
  BY NextKeepsIInv, StutteringKeepsIInv
<1>2. QED
  BY <1>1, StepAccounts, StepKeepsDone, StepHasCause DEF FrontInv, OInv

LEMMA InitialFrontInv == Init => FrontInv
<1>1. Init => outcome = "running"
  BY DEF Init
<1>2. QED
  BY <1>1, InitialIInv, InitialDInv, InitiallyDone DEF FrontInv, OInv, OutcomeHasCause

(* What holds of the importer holds of the compiler.                       *)
THEOREM CompilerImports == BuildSpec => Spec
<1>1. BuildInit => Init
  BY DEF BuildInit
<1>2. QED
  BY <1>1, StepOfFrontEnd, PTL DEF BuildSpec, Spec

(* The walk, the text and the marked names fit at every step.              *)
THEOREM BuildInvariance == BuildSpec => [](FrontInv /\ BInv)
<1>1. BuildInit => FrontInv /\ BInv
  <2>1. BuildInit => Init
    BY DEF BuildInit
  <2>2. QED
    BY <2>1, InitialFrontInv, InitialBInv DEF FrontInv
<1>2. FrontInv /\ BInv /\ [BuildNext]_buildVars => FrontInv' /\ BInv'
  <2>1. FrontInv /\ [BuildNext]_buildVars => FrontInv'
    BY StepOfFrontEnd, FrontInvKept
  <2>2. FrontInv /\ BInv /\ [BuildNext]_buildVars => BInv'
    BY FrontEndKeepsBInv, CgenKeepsBInv, StutteringKeepsBInv DEF BuildNext
  <2>3. QED
    BY <2>1, <2>2
<1>3. QED
  BY <1>1, <1>2, PTL DEF BuildSpec

-----------------------------------------------------------------------------

LEMMA FilesAreEmitted == C!Emitted = FilesOf(out) /\ C!Emitted' = FilesOf(out')
<1>1. C!Emitted = FilesOf(out)
  BY DEF FilesOf, C!Emitted
<1>2. C!Emitted' = FilesOf(out')
  BY DEF FilesOf, C!Emitted
<1>3. QED
  BY <1>1, <1>2

LEMMA PartFile ==
  ASSUME NEW o \in Seq(Parts), NEW i \in 1..Len(o)
  PROVE  o[i].file \in Files
<1>1. o[i] \in Parts
  OBVIOUS
<1>2. QED
  BY <1>1 DEF Parts

(* When cgen returns, every needed module was written, each once, and the  *)
(* program last.                                                           *)
THEOREM AllAreWritten == BuildSpec => []WritesAllNeeded
<1>1. FrontInv /\ BInv => WritesAllNeeded
  <2> SUFFICES ASSUME FrontInv, BInv, C!Finished PROVE
               /\ C!Emitted = Needed
               /\ Len(out) = Cardinality(Needed)
               /\ out[Len(out)].file = Main
    BY DEF WritesAllNeeded
  <2>1. /\ out # <<>> /\ frames = <<>>
        /\ Walk(ImportMaps, Needed, frames, imported, FilesOf(out))
        /\ Text(ImportMaps, frames, filename, out)
    BY DEF C!Finished, BInv
  <2>2. out \in Seq(Parts) /\ Len(out) \in Nat \ {0} /\ Len(out) \in 1..Len(out)
    BY <2>1 DEF Text
  <2>3. out[Len(out)].file = Main /\ Len(out) = Cardinality(FilesOf(out))
    BY <2>1, <2>2 DEF Text
  <2>4. Main \in FilesOf(out) /\ FilesOf(out) \in SUBSET Files
    <3>1. Main \in FilesOf(out)
      BY <2>2, <2>3 DEF FilesOf
    <3>2. \A i \in 1..Len(out) : out[i].file \in Files
      BY <2>2, PartFile
    <3>3. QED
      BY <3>1, <3>2 DEF FilesOf
  <2>5. \A f \in FilesOf(out) : f \in Needed /\ ImportSet(f) \subseteq FilesOf(out)
    BY <2>1, <2>4 DEF Walk, ImportMaps
  <2>6. Needed \subseteq FilesOf(out)
    BY <2>4, <2>5 DEF Needed, Closed
  <2>7. FilesOf(out) = Needed
    BY <2>5, <2>6
  <2>8. QED
    BY <2>3, <2>7, FilesAreEmitted
<1>2. QED
  BY <1>1, BuildInvariance, PTL

(* A part is tagged with its own file or with the one written before it,   *)
(* which its module imports.                                               *)
THEOREM KnownTags == BuildSpec => []TagsAreKnown
<1>1. FrontInv /\ BInv => TagsAreKnown
  <2> SUFFICES ASSUME BInv, NEW i \in 1..Len(out)
               PROVE  \/ out[i].tag = out[i].file
                      \/ /\ i > 1 /\ out[i].file # Main
                         /\ out[i].tag = out[i - 1].tag
                         /\ out[i - 1].file \in ImportSet(out[i].file)
    BY DEF TagsAreKnown
  <2>1. Tagged(ImportMaps, out, i) /\ out \in Seq(Parts)
    BY DEF BInv, Text
  <2>2. out[i].file \in Files
    BY <2>1, PartFile
  <2>3. ImportMaps[out[i].file] = ImportSet(out[i].file)
    BY <2>2 DEF ImportMaps
  <2>4. QED
    BY <2>1, <2>3 DEF Tagged
<1>2. QED
  BY <1>1, BuildInvariance, PTL

LEMMA CgenLoads == FrontInv /\ BInv /\ [BuildNext]_buildVars => [C!Load!Next]_(C!Load!vars)
<1> SUFFICES ASSUME FrontInv, BInv, [BuildNext]_buildVars
             PROVE  [C!Load!Next]_(C!Load!vars)
  OBVIOUS
<1>1. tree' = tree
  BY FrontEndRuns DEF BuildNext, FrontEnd, Cgen, buildVars, vars
<1>2. ImportMaps' = ImportMaps
  BY <1>1, MapsKept
<1>3. ASSUME FilesOf(out') \ {Main} = FilesOf(out) \ {Main}
      PROVE  UNCHANGED C!Load!vars
  <2>1. (C!Emitted \ {Main})' = C!Emitted \ {Main}
    BY <1>3, FilesAreEmitted
  <2>2. QED
    BY <1>2, <2>1 DEF C!Load!vars
<1>4. CASE C!EmitModule /\ Cgen
  <2>1. PICK m \in Modules : /\ m \notin FilesOf(out)
                             /\ ImportMaps[m] \subseteq FilesOf(out)
                             /\ FilesOf(out') = FilesOf(out) \cup {m}
    BY <1>4, ModuleWritten DEF Cgen
  <2>2. ImportMaps[m] \subseteq Modules /\ m # Main /\ Main \notin Modules
    BY MapsOfNeeded, ImporterAssumption DEF FrontInv, Files
  <2>3. /\ m \notin C!Emitted \ {Main} /\ ImportMaps[m] \subseteq C!Emitted \ {Main}
        /\ (C!Emitted \ {Main})' = (C!Emitted \ {Main}) \cup {m}
    BY <2>1, <2>2, FilesAreEmitted
  <2>4. C!Load!Load(m)
    BY <1>2, <2>3 DEF C!Load!Load
  <2>5. QED
    BY <2>4 DEF C!Load!Next
<1>5. CASE C!EmitMain /\ Cgen
  <2>1. FilesOf(out') = FilesOf(out) \cup {Main}
    BY <1>5, MainWritten DEF Cgen
  <2>2. QED
    BY <1>3, <2>1
<1>6. CASE out' = out
  BY <1>3, <1>6
<1>7. QED
  <2>1. CASE FrontEnd \/ UNCHANGED buildVars
    BY <1>6, <2>1 DEF FrontEnd, buildVars, cgenVars
  <2>2. CASE Cgen
    BY <1>4, <1>5, <1>6, <2>2 DEF Cgen, C!Next, C!Begin, C!SkipImported, C!Visit
  <2>3. QED
    BY <2>1, <2>2 DEF BuildNext

(* The C text is in dependency order, whatever order the maps are walked.  *)
THEOREM OrderedText == BuildSpec => WritesInOrder
<1>1. BuildInit => C!Load!Init
  <2> SUFFICES ASSUME BuildInit PROVE C!Load!Init
    OBVIOUS
  <2>1. IInv /\ out = <<>>
    BY InitialIInv DEF BuildInit
  <2>2. ImportMaps \in [Files -> SUBSET Modules]
    BY <2>1, MapsOfNeeded
  <2>3. [m \in Modules |-> ImportMaps[m]] \in [Modules -> SUBSET Modules]
    BY <2>2 DEF Files
  <2>4. C!Emitted \ {Main} = {}
    BY <2>1 DEF C!Emitted
  <2>5. QED
    BY <2>3, <2>4 DEF C!Load!Init
<1>2. QED
  BY <1>1, CgenLoads, BuildInvariance, PTL DEF BuildSpec, WritesInOrder, C!Load!Spec

=============================================================================
