------------------------------ MODULE Importer ------------------------------
(***************************************************************************)
(* Importing of modules: import() and parser_parse() of parse/parse.cc,    *)
(* importer_import() of parse/importer.cc and the global diagnostic        *)
(* context of utils/env.cc.                                                *)
(*                                                                         *)
(* The C++ call stack parser_parse -> import -> importer_import ->         *)
(* parser_parse ... is the variable stack; one frame is one struct parser  *)
(* with its Imports map.  The text of the files is reduced to what the     *)
(* importer reacts to: the list of imports and whether the file is there,  *)
(* can be opened, defines something and declares its own name.             *)
(***************************************************************************)
EXTENDS Naturals, Sequences, FiniteSets

CONSTANTS Modules,    \* the names that may follow 'import'
          Main,       \* the file given to forkc1
          Trees,      \* the source trees considered
          MaxFiles    \* module files the process can have open

Files == Modules \cup {Main}

(* absent: no such .ford file; unreadable: found, but fopen fails; empty:  *)
(* no token in it, so that parser_parse returns null at once; misnamed:    *)
(* its module line says other than its file name.                          *)
Kinds == {"good", "absent", "unreadable", "empty", "misnamed"}

Sources == [kind : Kinds, imports : Seq(Modules)]

ASSUME ImporterAssumption ==
  /\ Main \notin Modules
  /\ MaxFiles \in Nat
  /\ Trees \subseteq [Files -> Sources]
  /\ \A t \in Trees : /\ t[Main].kind \in {"good", "empty"}
                      /\ \A f \in Files : t[f].kind = "empty" => t[f].imports = <<>>

ASSUME ModulesAreFinite == IsFiniteSet(Modules)

VARIABLES tree,       \* the source tree being compiled
          stack,      \* the nested parsers, the main file's first
          cache,      \* importer->imported: modules parsed to the end
          opened,     \* module files opened: none is ever closed
          env,        \* the context a diagnostic is printed with
          outcome     \* how the run of the front end stands

vars == <<tree, stack, cache, opened, env, outcome>>

NoFile == "no file"

(* filename: the file a message would name; line: the parser, as a place   *)
(* in the stack, whose lastLineno it would print (0: none).                *)
Envs == [filename : Files \cup {NoFile}, line : Nat]

(* next: the import to be handled next; imps: the parser's Imports map;    *)
(* defs: past its imports; oldenv: the caller's local copy of env.         *)
Frames == [file : Files, next : Nat \ {0}, imps : SUBSET Modules,
           defs : BOOLEAN, oldenv : Envs]

Outcomes == {"running", "parsed", "nothing", "twice", "missing", "emptyModule",
             "mismatch", "badImport", "badDefinition", "unopened"}

TypeOK == /\ tree \in [Files -> Sources]
          /\ stack \in Seq(Frames)
          /\ cache \in SUBSET Modules
          /\ opened \in 0..MaxFiles
          /\ env \in Envs
          /\ outcome \in Outcomes

-----------------------------------------------------------------------------

Imports(f) == tree[f].imports

(* Definitions introduced by "Fault:" are not part of the model: each is a *)
(* plausible mistake in the definition that follows it.                    *)

(* Fault: the first import line is counted from zero.                      *)
FrameFromZero(f, old) == [file |-> f, next |-> 0, imps |-> {}, defs |-> FALSE,
                          oldenv |-> old]

(* A parser for f, just entered: parser_parse sets the context first.      *)
Frame(f, old) == [file |-> f, next |-> 1, imps |-> {}, defs |-> FALSE,
                  oldenv |-> old]

Init == /\ tree \in Trees
        /\ stack = <<Frame(Main, [filename |-> NoFile, line |-> 0])>>
        /\ cache = {}
        /\ opened = 0
        /\ env = [filename |-> Main, line |-> 1]
        /\ outcome = "running"

Depth == Len(stack)
Top == stack[Depth]

(* The parser on top is at an 'import' line, for module m.                 *)
AtImport(m) == /\ outcome = "running"
               /\ ~Top.defs
               /\ Top.next <= Len(Imports(Top.file))
               /\ m = Imports(Top.file)[Top.next]

Stop(why) == /\ outcome' = why
             /\ UNCHANGED <<tree, stack, cache, opened, env>>

(* imports_register in the caller's map, and on to its next line.          *)
Registered(fr, m) == [fr EXCEPT !.imps = @ \cup {m}, !.next = @ + 1]

(* 'Module %s imported twice'                                              *)
ImportTwice(m) == AtImport(m) /\ m \in Top.imps /\ Stop("twice")

(* imports_get finds the module.  The saved context was already renamed,   *)
(* so env_set leaves the module's name in it.                              *)
ImportCached(m) ==
  /\ AtImport(m)
  /\ m \notin Top.imps
  /\ m \in cache
  /\ stack' = [stack EXCEPT ![Depth] = Registered(@, m)]
  /\ env' = [filename |-> m, line |-> Depth]
  /\ UNCHANGED <<tree, cache, opened, outcome>>

(* Neither imported by this file nor parsed for another one.               *)
Unknown(m) == m \notin Top.imps \cup cache

(* map_get finds no .ford file: 'Module %s not found'.                     *)
ImportMissing(m) ==
  /\ AtImport(m)
  /\ Unknown(m)
  /\ tree[m].kind = "absent"
  /\ env' = [filename |-> m, line |-> Depth]
  /\ outcome' = "missing"
  /\ UNCHANGED <<tree, stack, cache, opened>>

(* Fault: the caller's map is filled before the module is parsed.          *)
CallersRegistered(m) == [stack EXCEPT ![Depth] = Registered(@, m)]

(* The parsers below the one entered for m.                                *)
Callers(m) == stack

(* A nested parser is entered: its constructor and parser_parse up to      *)
(* lexer_fromFile.                                                         *)
Enter(m) ==
  /\ AtImport(m)
  /\ Unknown(m)
  /\ tree[m].kind # "absent"
  /\ stack' = Append(Callers(m), Frame(m, [env EXCEPT !.filename = m]))
  /\ env' = [filename |-> m, line |-> Depth + 1]
  /\ UNCHANGED <<tree, cache>>

CanOpen(m) == tree[m].kind # "unreadable" /\ opened < MaxFiles

ImportOpen(m) == /\ Enter(m)
                 /\ CanOpen(m)
                 /\ opened' = opened + 1
                 /\ UNCHANGED outcome

(* fopen returned null: 'nullptr file given for lexer'.                    *)
ImportUnopened(m) == /\ Enter(m)
                     /\ ~CanOpen(m)
                     /\ outcome' = "unopened"
                     /\ UNCHANGED opened

Empty(f) == tree[f].kind = "empty"

(* Anything but 'import', a name and a new line; or the file ends before   *)
(* its first definition.                                                   *)
BadImport == /\ outcome = "running"
             /\ ~Top.defs
             /\ ~Empty(Top.file)
             /\ Stop("badImport")

(* Fault: 'if (import(prs, imports));' where there is a while.             *)
SomeImportRead == Top.next > 1 \/ Top.next > Len(Imports(Top.file))

ImportsRead == Top.next > Len(Imports(Top.file))

(* The imports are over: the parser turns to the definitions.              *)
BeginDefinitions ==
  /\ outcome = "running"
  /\ ~Top.defs
  /\ ~Empty(Top.file)
  /\ ImportsRead
  /\ stack' = [stack EXCEPT ![Depth].defs = TRUE]
  /\ env' = [env EXCEPT !.filename = Top.file]
  /\ UNCHANGED <<tree, cache, opened, outcome>>

BadDefinition == /\ outcome = "running"
                 /\ Top.defs
                 /\ Stop("badDefinition")

(* The end of the main file.  Nothing is generated for an empty one.       *)
FinishMain ==
  /\ outcome = "running"
  /\ Depth = 1
  /\ \/ Top.defs /\ Stop("parsed")
     \/ Empty(Main) /\ Stop("nothing")

(* importer_import refuses an empty or misnamed module.                    *)
RejectModule ==
  /\ outcome = "running"
  /\ Depth > 1
  /\ \/ Empty(Top.file) /\ Stop("emptyModule")
     \/ /\ Top.defs
        /\ tree[Top.file].kind = "misnamed"
        /\ Stop("mismatch")

(* Fault: the declared name is not compared.                               *)
AcceptsAnyName(f) == TRUE

Accepts(f) == tree[f].kind # "misnamed"

(* Fault: the module is not registered with the importer.                  *)
CacheWithout(m) == cache

CacheWith(m) == cache \cup {m}

(* Fault: neither env_set nor lineno_setLoc.                               *)
NestedContext == env

(* env_set(oldenv), then lineno_setLoc.                                    *)
CallerContext == [Top.oldenv EXCEPT !.line = Depth - 1]

(* importer_import caches the module and closes its parser; import()       *)
(* restores the caller's context and registers the module in its map.      *)
FinishModule ==
  /\ outcome = "running"
  /\ Top.defs
  /\ Depth > 1
  /\ Accepts(Top.file)
  /\ cache' = CacheWith(Top.file)
  /\ stack' = [i \in 1..(Depth - 1) |->
                 IF i = Depth - 1 THEN Registered(stack[i], Top.file)
                                  ELSE stack[i]]
  /\ env' = CallerContext
  /\ UNCHANGED <<tree, opened, outcome>>

Next == \/ \E m \in Modules : \/ ImportTwice(m)
                              \/ ImportCached(m)
                              \/ ImportMissing(m)
                              \/ ImportOpen(m)
                              \/ ImportUnopened(m)
        \/ BadImport
        \/ BeginDefinitions
        \/ BadDefinition
        \/ FinishMain
        \/ RejectModule
        \/ FinishModule

Spec == Init /\ [][Next]_vars

-----------------------------------------------------------------------------
(* Properties.                                                             *)

ImportSet(f) == {Imports(f)[i] : i \in 1..Len(Imports(f))}

(* The call stack is an import path: every parser but the last waits at    *)
(* the import the next one was started for (import() has not returned).    *)
StackIsPath ==
  /\ Depth > 0
  /\ stack[1].file = Main
  /\ \A i \in 1..(Depth - 1) :
       /\ ~stack[i].defs
       /\ stack[i].next <= Len(Imports(stack[i].file))
       /\ stack[i + 1].file = Imports(stack[i].file)[stack[i].next]

(* An Imports map holds exactly the modules of the import lines already    *)
(* read, and all of them have been parsed to the end.                      *)
MapsAreLoaded ==
  \A i \in 1..Depth :
    LET fr == stack[i] IN
      /\ fr.next <= Len(Imports(fr.file)) + 1
      /\ fr.imps = {Imports(fr.file)[k] : k \in 1..(fr.next - 1)}
      /\ fr.imps \subseteq cache
      /\ fr.defs => fr.next = Len(Imports(fr.file)) + 1

(* A module handed out by importer_import has handed-out imports only.     *)
CacheIsClosed == \A m \in cache : ImportSet(m) \subseteq cache

(* No parser is at work on a module the cache already hands out.  Nothing  *)
(* in importer_import looks at the stack; the cache is filled only after   *)
(* the recursive parse, so an import cycle can never complete.             *)
StackNotCached == \A i \in 1..Depth : stack[i].file \notin cache

(* The recursion through parser_parse hands out whole modules only, and    *)
(* parses none again: the four parts hold together, none alone.            *)
ImportsAreSound == StackIsPath /\ MapsAreLoaded /\ CacheIsClosed /\ StackNotCached

(* Every descriptor spent belongs to a module in the cache or to a parser  *)
(* at work: a module is opened again only while an import cycle is being   *)
(* followed, never after it was parsed.                                    *)
DescriptorsAccounted ==
  outcome # "unopened" => opened = Cardinality(cache) + Depth - 1

(* Where a diagnostic would point: the line is always the one of the file  *)
(* being read, in spite of nested parsers, env_reset and env_set.  The     *)
(* file name is right before the first import and from the first           *)
(* definition on; between two imports it is the name of the former one.    *)
ContextIsKnown ==
  LET begun == IF outcome = "missing" THEN Top.next ELSE Top.next - 1
  IN  /\ env.line = Depth
      /\ env.filename = IF Top.defs \/ begun = 0 THEN Top.file
                        ELSE Imports(Top.file)[begun]

(* The files the main file needs, by definition.                           *)
Closed(S) == \A f \in S : ImportSet(f) \subseteq S
Needed == {f \in Files : \A S \in SUBSET Files : Main \in S /\ Closed(S) => f \in S}
Cyclic == \E S \in (SUBSET Needed) \ {{}} : \A f \in S : ImportSet(f) \cap S # {}
Duplicate(s) == \E i, j \in DOMAIN s : i # j /\ s[i] = s[j]
SomeNeeded(kind) == \E m \in Needed \ {Main} : tree[m].kind = kind

(* The front end fails only over what is wrong in the source tree, and     *)
(* succeeds only over an acyclic, complete one, with every needed module   *)
(* in the cache.  An import cycle ends, too, by running out of descriptors.*)
OutcomeHasCause ==
  /\ outcome = "twice" => \E f \in Needed : Duplicate(Imports(f))
  /\ outcome = "missing" => SomeNeeded("absent")
  /\ outcome = "emptyModule" => SomeNeeded("empty")
  /\ outcome = "mismatch" => SomeNeeded("misnamed")
  /\ outcome = "unopened" => \/ SomeNeeded("unreadable")
                             \/ Cyclic
                             \/ Cardinality(Needed) - 1 > MaxFiles
  /\ outcome \in {"parsed", "nothing"} =>
       /\ cache = Needed \ {Main}
       /\ ~Cyclic
       /\ \A m \in cache : tree[m].kind = "good"

(* The importer implements LoadOrder: finishing a module loads it, every   *)
(* other step loads nothing.                                               *)
Deps == [m \in Modules |-> ImportSet(m)]
Load == INSTANCE LoadOrder WITH deps <- Deps, loaded <- cache
LoadsInOrder == Load!Spec

=============================================================================
