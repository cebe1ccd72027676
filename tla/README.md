# First Step (forkc) in TLA+

First Step is a bootstrap compiler for the Fork language (`src/src`: lexer, LL(1)
parser, symbol and type tables, module importer, C code generator) together with
*spring*, its runtime library written in Fork (`src/src/libfork`: list, map, vector,
string buffers, streams).  Both halves are sequential programs.  What is hard in them
is not interleaving of threads but long sequences of legal calls over shared, aliased,
mutable state: a list with a cached cursor, a left-leaning red-black tree rebuilt on
every deletion, an importer that recurses through a global diagnostic context, a parser
whose "am I in a loop" flag must survive every exit path.

## Inventory

Paths are relative to `src/src`.

| component | state | operations | hard behaviour | correct when |
|---|---|---|---|---|
| line reader (`utils/lines.cc`) | file offset, `lineno` | `line_read` | `#` comments, blank lines, last line without newline | every non-blank line is returned once, stamped with its number |
| lexer (`lex/lex.cc`) | current line, position, `peek`, `newline`, `inString`, `saved`, `errcode` | `stok`, `token_get`, `lexer_discardLine` | one character of look-ahead across a line end, string and escape modes, the pushed-back tail after `/`, EOF seen while a newline is pending | every character of a line is in exactly one token, in order; one newline token per line |
| expression parser (`parse/expr.cc`) | the token list, consumed destructively | `expr_treeize` and its helpers | precedence, associativity, minus rewritten to plus-negate, calls told from parentheses | no operand is lost, and the tree groups them as C does |
| statement parser (`parse/parse.cc`) | look-ahead tokens, `inBreakableBody`, the C call stack | `stmt`, `body`, `whileStmt`, `ifStmt`, `func`, `entry`, `definition` | nesting, else, flag saved and restored across recursion, end of file inside a body | break/continue are accepted exactly inside a while of the same function; every opener has its closer |
| scopes (`parse/ptree.cc`, `parse/syms/symbols.cc`) | tree of nodes, symbol and alias list per scope | `mutDeclGeneric`, `alias`, `pnode_symbolType`, `pnode_getType`, `pnode_matchSymbolForDeclaration` | hiding, recursive aliases, parameters beside the body's symbols | a name resolves to its innermost declaration; a scope never declares a name twice |
| types (`parse/syms/types.cc`) | immutable type graph | `type_equal`, `type_areCompatible`, `type_evalLarger`, `type_evalNumberType` | recursive comparison, integer boundaries | compatibility is sound for assignment |
| importer (`parse/importer.cc`, `parse/imports.cc`, `import` in `parse/parse.cc`) | cache of parsed modules, per-file import maps, the global `env` | `importer_import`, `import`, `parser_parse` | recursion, cycles, a failed or empty or misnamed module, diagnostics context saved/restored | every module is parsed at most once, and is complete when it is used |
| code generator (`cgen/cgen.cc`) | `imported` array, `filename` | `cgen`, `ccode_genImports`, `ccode_csym`, `ccode_genRecExpr` | emission order over the import graph, inside-out declarators | a module is emitted once, after everything it imports |
| diagnostics (`utils/env.cc`) | error count, `lastLineno`, `filename` | `error`, `fail`, `env_set`, `env_reset` | global, saved around imports | a message names the file being read |
| list (`libfork/spring/list.fork`) | doubly linked nodes, `start`, `end`, `len`, cursor `current`/`pos` | push, append, add, insert, get, pop, remove, extract, prune, copy | the cached cursor against every mutation | behaves as a sequence; the cursor points at node number `pos` |
| map (`libfork/spring/map.fork`, `iter.fork`) | red-black tree, `len`, iterator's last key | put, get, remove, iterate, free | rotations and colour flips on the way up, removing what is absent, iterating while changing | behaves as a dictionary in key order; stays balanced |
| vector (`libfork/spring/vector.fork`) | `arr`, `cap`, `len`, `isSlice` | put, append, get, newCap, ensureCap, slice, prune, free | slices share the parent's array, growth reallocates it | in-bounds accesses to live memory, each block freed once |
| charstash, strings (`charstash.fork`, `strings.fork`) | `base`, `work`, `len`, `cap` | append, unleash, numtostr, strtonum | growth by ten, truncation, negative numbers | round trips |
| streams (`streams.fork`, `files.fork`, `filefcn.cc`) | `eof`, `error`, `inout`, descriptor | open, read, write, close | short writes, errors, end of file | a successful write wrote every byte |
| power (`forkrt.fork`, `uintpow` in `parse/expr.cc`) | loop counter of machine width | `__forkpow`, `uintpow` | counter wraps at the largest exponent | terminates, equals the power mod 2^w |
| drivers (`forkc.py`, `forkl.py`) | temporary files | compile, link | exit paths | not modelled: argument handling and process spawning |
| `deps/` (list, array, treemap, memstream) | | | the first three are empty submodules; memstream is a portability shim | external |

## Modules

| module | models | how |
|---|---|---|
| `LoadOrder` | what the importer and the code generator both promise: modules become available one at a time, each once, after everything they import | abstract specification, two variables |
| `Importer` | `import`, `parser_parse` (`parse/parse.cc`), `importer_import` (`parse/importer.cc`), `imports.cc`, `env.cc`, `fopen` in `lexer_fromFile` | implements `LoadOrder` (`LoadsInOrder`) |
| `Emitter` | `cgen`, `ccode_genImports` (`cgen/cgen.cc`) | |
| `Build` | `main()` of `forkc1`: front end, then code generator | extends `Importer`, instantiates `Emitter`; implements `LoadOrder` a second time (`WritesInOrder`) |
| `StmtParser` | `definition`, `func`, `entry`, `body`, `stmt` and the statements' functions (`parse/parse.cc`), the scopes they open (`parse/ptree.cc`) | compared with what the text of the file says |
| `Names` | declaration and look-up of variables, functions, aliases and a module's names (`parse/ptree.cc`, `parse/syms/symbols.cc`, `alias`, `mutDeclGeneric`, `func`) | compared with the scopes of the C text |
| `Types` | `parse/syms/types.cc`, `type()` and its helpers (`parse/parse.cc`) | operators on trees |
| `ExprTypes` | the checks and the folding in `expr_treeize` (`parse/expr.cc`), `pnode_evalType` (`parse/ptree.cc`) | operators on trees |
| `CText` | the C of types, expressions, declarations and one-line statements (`cgen/cgen.cc`) | operators from trees to tokens |
| `CGrammar`, `CRules` | nothing of the repository: how C reads declarations and expressions, and which type it gives them | reference |
| `Typing` | one line's way through type reader, expression builder, checks and generator | composes the five above; compared with `CGrammar` and `CRules` |
| `Lexer` | `line_read` (`utils/lines.cc`), `stok` and `token_get` (`lex/lex.cc`) | compared with what the file says |
| `ExprTree` | `expr`, `expr_treeize` and their helpers (`parse/expr.cc`), `token_getPriority`, `token_getOpType` (`lex/lex.cc`) | compared with the grammar of C's expressions |
| `ListSpec`, `SpringList` | `libfork/spring/list.fork` | heap of nodes; implements a pair of sequences (`IsASequence`) |
| `MapSpec`, `SpringMap` | `libfork/spring/map.fork`, `iter.fork` | heap of nodes; implements a dictionary with an iterator (`IsADictionary`) |
| `VectorSpec`, `SpringVector` | `libfork/spring/vector.fork` | headers that share arrays; implements a sequence for every header (`IsAVector`) |
| `FileStream` | `streams.fork`, `files.fork`, `filefcn.cc` (`libfork/spring`) | one call in progress, one action per answer of the system |
| `Charstash` | `charstash.fork`, `strings.fork` (`libfork/spring`) | operators on a stash and on strings |
| `Power` | `__forkpow` (`libfork/forkrt.fork`), `uintpow` (`parse/expr.cc`) | the loop, a step at a time |
| `Runtime` | two programs of `tests/` and a compiled `**`, on the three above | composes them |
| `BuildProofs` (of `Importer` and `Build`), `StmtParserProofs`, `NamesProofs`, `LexerProofs`, `ListProofs`, `MapProofs`, `VectorProofs`, `RuntimeProofs` | nothing of their own | theorems about the modules above, see Proofs |
| `MC*` | | instances for TLC |

### Importer

A file is its list of `import` lines and a kind: good, absent (no `.ford` file of that
name), unreadable (`fopen` fails), empty (no token, so `parser_parse` returns null before
it reads anything) or misnamed (its `module` line says something else).

`stack` is the C++ call stack `parser_parse` → `import` → `importer_import` →
`parser_parse` → …: a frame is one `struct parser` with its `Imports` map, the import line it
is at, whether it is past its imports, and the local copy of `env` that the `import()`
which started it will restore.  `cache` is `importer->imported`.  `opened` counts module
files: no lexer is ever closed, so that a chain of imports is bounded by the
descriptors of the process, and that bound is what ends an import cycle: nothing in
`importer_import` looks for one.  `env` holds the two parts of the diagnostic context that
imports disturb: the file name, and the parser whose `lastLineno` would be printed.

One action is one outcome of one call of `import()` (`ImportTwice`, `ImportCached`,
`ImportMissing`, `ImportOpen`, `ImportUnopened`) or one way a `parser_parse` goes on or
ends (`BeginDefinitions`, `FinishMain`, `FinishModule`, `RejectModule`, `BadImport`,
`BadDefinition`).  `FinishModule` is the whole return path: cache, close, restore `env`,
reset the line, register with the caller.  Every failure is `fail()` in the code, which
never returns: `outcome` says which one.  `BadImport` and `BadDefinition` stand for every
other message of the parser, which may come in any file.

### Emitter and Build

`frames` is the recursion of `ccode_genImports` over the `Imports` maps; the maps are
external tree maps and are walked in any order.  `imported` is the global array of names
visited; a name is put there *before* its imports are visited, which would be wrong on a
cyclic graph.  `filename` is the global `#line` directives are written with.  A file's
text is one element of `out`, tagged with the file name it is written under.  `Build` runs
the two one after the other, as `main()` does: only a front end that ended well and
found something hands over, so that the emitter's graph is always the finished
importer's.

### StmtParser

A file is read by lines.  A line is its first keyword, the name it declares, the names it
uses, and what stands in place of its new line: the new line, another token, or the end of
the file.  Types, parameters and expressions inside a line are `Typing`'s: that something in them is
wrong is a free choice here (`RejectLine`).  `stack` has one frame per construct being parsed,
with the `wasInBreakableBody` the activation holds; `names` are the symbols of its `PR_BODY`,
`sees` those its own node binds.  `breakable` is `prs->inBreakableBody`.  `read` is
history: the properties about loops, scopes and nesting are stated over the *text*
(`OpenAfter`, `Encloses`, `Bound`), which knows neither stack nor flag.

The code reads the type of the token after a statement, and of the next token of a body,
without looking whether there is one.  `NoTokenAfter` and `EndOfFile` end in "crashed"
there.

### Names

`scopes` are the nodes that hold symbols, the root first; `funcs` and `aliases` are what the root
has besides; `called` is the name that a structure goes by, which `pnode_getType` overwrites at
every look-up and which all users of the structure share.  One action is one definition or
statement: an alias, a declaration by type or by value, a function's head, a block's begin and
end, a use.  `text` is what was read, and for every use which declaration the parser
found.  The generator writes names as they are, aliases before the definitions, an imported
module before the file, and `main` with parameters of its own; `CRef` looks a name up in that text as
C does, by blocks, without any of the parser's tables.

### Types, ExprTypes, CText, Typing

A type is a tree, as in the code; an alias is a tree of its own only within its own definition
(`type_makeAlias`).  Each function of `types.cc` and each check of `expr.cc` is an operator
from trees to trees or to a verdict, in the source's order of cases; the fall-through
from `type_equal`'s first line into a comparison of unlike types is kept.  `CText` writes
tokens: the inside-out declarators with their formats, expressions with all the
parentheses the generator puts.  In `Typing` a line passes four steps: `ReadLineType`
(tokens of a type to a type), `BuildExpr` (the tree and its checks), `CheckLine` (what
`mutDeclGeneric`, `returnStmt` and `condStmt` compare) and `EmitLine`.  `CGrammar` parses the
tokens again, precedence and all, and `CRules` types them as the C standard does; neither
is derived from the compiler.

### Lexer

One round of `stok()`'s loop over characters is one step; `token_get()`'s two halves are
`TokenGet` and the `Give…` actions.  One character stands for each class that the code
tells apart: a letter (letters, digits, `_`), a parenthesis, a plus (punctuation otherwise
unnamed), slash, quote, backslash, `#`, blank, new line.  The line being read is a pair of
offsets in the file, with its number; `at` is the look-ahead's offset; `newline` and
`saved` are the new line still to be delivered and the tail pushed back after a slash.
`from` and `out` are history: every token remembers where its first character stood.
`line_read()` is the operator `LineFrom`, all of it within the step that takes the last
character of a line, where `lexer_discardLine()` calls it.

### ExprTree

`expr()` gathers tokens one by one; `expr_treeize()` is a recursive operator on the list,
with one operator per helper, in the source's order.  Operands are identifiers and
`size(…)` as a single token.  Types and constant folding are in `ExprTypes`.  The reference is independent
of it: `Grammar` has the levels of C, `Text` writes a tree with the parentheses
that the grammar requires and no others, and the run asks whether parsing the text gives
the tree back (`a - b` counts as `a + -b`, which the compiler makes of it).  `GroupsAsC`
is an equivalence: `Plain` says for which expressions it does, and for every other one the
run confirms that it does not.

### SpringList, SpringMap

`heap` maps the addresses in use to nodes; freeing takes a node off it.  `SpringList` has
two headers: `list`, on which the calls are made, and `other`, which holds what
`listExtract` or `listShallowCopy` returned.  `listSeek` is modelled walk by walk: from the
cursor, from the start or from the end.  The client (`Next`) makes every call in every
state, save where the cursor is known to be lost (`CursorKept` says exactly when that
is) and for three arguments.  `listAdd` at 0 on a list that is not empty links the new node before the
first one but never sets `list'start`, so that every later walk from the start misses it
(`list.fork:120`).  `listExtract` of more than is left, but no more than the length, seeks
past the last node and follows a null pointer; with a length of 0 it seeks the node before the one it
starts at, and cuts the list between the two.  No property covers what these three calls do.

`SpringMap` translates each function of `map.fork` that takes a node into an operator from
a heap to a heap and a node: rotations, colour flips, `nodeFixUp`, `nodeAdd`,
`nodeDeleteMin`, `nodeDelete`.  A rotation about a black node aborts and a flip without two
children follows null, as in the code.  `Removing` says which keys the client removes:
any, those present, or those present while the tree is balanced.  The iterator keeps only
its last key, as in `iter.fork`, and is stepped between any other two calls.  The functions
that call themselves are recursive functions of how deep a call may still nest: a tree of at most
`MaxKey` nodes never needs more than `Deepest`, and a call that does has met a cycle.

### SpringVector

A header has its array, capacity, length and `isSlice`; an array has its cells and the capacity it
was allocated with.  When an array is freed every pointer into it becomes `Freed`, so that the model
can say which headers are left dangling without modelling what a later allocation puts there.
Words count modulo `Word`: `vectSlice` subtracts without a check.  The client makes every call whose
header does not point to freed memory.

### FileStream, Charstash, Power, Runtime

A file is a sequence of bytes.  `read` and `write` may give any answer the system may give: all
of it, a part, nothing, a failure.  `Charstash` keeps the stash's memory byte by byte, what was never
written included, and `work`, the pointer to the next byte: the arrays a stash has had are numbered, a
pointer names the array it points into, and a byte that is stored through a pointer into a freed
one is not in the stash.  It has `NumToStr`, `StrReverse` and `strtonum`'s loop with the power of
ten it asks `__forkpow` for, for every digit.  `Power` multiplies once per step, with a
counter modulo the word.  `Runtime` runs one of three programs: the file copy of
`tests/files.fork`, a number appended to a stash and read back, and a call of `__forkpow` as the
generator writes it for `**` (`cgen/cgen.cc:147-154`), with any operands.  No test of the repository
writes `**`: `tests/pow.fork` has `a ^ 16`, which is no power (see Disagreements), and the one `**` in Fork
code is `strtonum`'s (`strings.fork:118`).

## Runs

All sizes are small because the programs are sequential: a fault shows as soon as the
shortest call sequence, file or expression that has its shape is included, so each
instance enumerates *all* inputs up to a size instead of sampling larger ones.

| run | instance | shows |
|---|---|---|
| `build` | main file and three modules, every import graph with at most two imports in main and `a` and one in `b` and `c` (cycles, diamonds, double imports, a module importing itself), every single file out of order in each way, `MaxFiles` = 3 | importer and emitter: see below |
| `stmt` | every file of up to `MaxLines` = 6 lines from 21 lines over one name, with and without a module line | flag, scopes and nesting agree with the text |
| `names` | every file of up to `MaxText` = 5 lines over `x`, `f`, `g` and `main`, importing a module with an `x` and an alias `T` | the parser's tables of names agree with C's |
| `types` | every declaration of a type of up to three constructors over `int8`, `data` and a list; expressions of up to two operators over twelve variables and the literals; each as a statement, a condition, a returned value, an initialiser with and without a type: 28413 lines | declarations, expressions and checks agree with C's |
| `list` | `MaxNodes` = 4, two interchangeable values, the cursor's index followed to `MaxPos` = 5 | links, cursor, sequence |
| `map` | five keys, two interchangeable values, removal of present keys from balanced trees | balance, dictionary, iterator |
| `map_remove` | the same with any removal | finding 1 |
| `vector` | three headers, two arrays of up to `MaxCap` = 2 cells of 2 bytes, words modulo 8, a print counter modulo 2 | owners, dangling pointers, sequence |
| `runtime` | files of up to 5 bytes of `0`, `a`, `b` copied 3 at a time; 13 numbers of one to three digits, with and without a minus, in stashes of 0, 1 or 4 bytes that grow by 2, a buffer of 3; `__forkpow` of 6 bases by 7 exponents; words modulo 256 | bytes, numbers, powers, and that programs end |
| `lexer` | every file of up to 4 characters of the 9 classes, of up to 6 of letter, quote, slash, new line, and of up to 5 of letter, plus, `#`, blank, new line; `MaxToken` = 5; one keyword that begins with a slash | nothing lost, doubled or misnumbered |
| `expr` | every expression of one operator over all operands, of two operators, and of three of representative levels | grouping, operands |
| `expr_lost` | the same | finding 2 |

Why these bounds are enough for the cases that matter.  Three modules give every shape of
sharing: a diamond, a cycle through main's import, a cycle below another module, a module reached on two
paths of unequal length; three descriptors are just enough for every
acyclic graph and are exceeded by every cycle, so that an acyclic program that runs out of
descriptors is in no run: there `CausedOutcome`, proved for every `MaxFiles`, stands alone.  Six lines hold a function with a loop in a
loop or in an `if`, a break behind the inner one and the closers needed to reach it, and an
`if` with an `else` that redeclares a name.  Four nodes let a cursor stand at the front, inside, and at the
end, with a node removed on either side; five keys give trees three nodes high in which an inner key has children on both sides,
so that a removal borrows, rotates and replaces a key by its successor.  Six characters hold
a string or a slash that meets the end of a line with code on both sides of it, four an escape
within quotes; `MaxToken` = 5 is reached
within them.  Five lines hold a function with a parameter, a block and a use in it; three
constructors hold every pair of a declarator inside another with one more around it, and the
larger types are built by the same rule.  Two arrays let a slice outlive its vector's array and
its vector be given another one; a counter modulo 2 stands for 256, a buffer of 3 for 20, a step
of 2 for 10.  Two operators hold every pair of levels in either order, the third one stands
for what happens when a split list is split again.  The caps that are not the program's own
are `MaxPos` (a push that would take the cursor's index past it is not made), `MaxText` and
`MaxLines` (longer files are not read), `MaxCap` (larger arrays are not asked for) and
`MaxToken`, which stands for 1024.

`CHECK_DEADLOCK FALSE` is given where the program ends (a compiler ends with a message
or its output; a lexer at the end of the file; a test program with its last line), and for the vector, whose
client may be left without arrays and with no pointer to live memory.  The list and the map have no such
line: a client can always make another call.  In `map_remove`, which may also end in an abort, the
violation is reported first.

**Fairness.**  Two specifications assume any, and each only weak fairness of its whole next-state
relation: the compiler (`BuildSpec`) and a program on the runtime (`Runtime`'s `Spec`) are one process that
never waits for another, so that it takes a step as long as it can.  In `Runtime` this includes
that the system does not answer a write by writing nothing for ever, which the loop of
`filewriteInternal` could not survive.  `BuildEnds` and `CallsEnd` rest on nothing else; that import
cycles end is due to the descriptors, that the emitter's recursion ends to the acyclic graph, and that a
power ends to its exponent not being the largest number there is.

What the properties of the passing runs say.  Where the code departs from what one would expect,
a property says exactly when, and the run confirms that it does so then and at no other time:

- *Importer.*  `ImportsAreSound`: nested parsers are an import path, an import map names finished
  modules only, what is handed out is complete, and no module is ever parsed again, so that no
  cycle is ever completed.  `DescriptorsAccounted`: an opened file is one of a cached module or of a
  parser at work.  `ContextIsKnown`: which file and line a message would point to, in every state;
  between two imports the name is that of the *former import*, not of the file being read.
  `OutcomeHasCause`: each failure is due to something in the sources, and success means an
  acyclic, complete program in the cache.
- *Build.*  `LoadsInOrder`, `WritesInOrder`: loading and emission both implement
  `LoadOrder`.  `WritesAllNeeded`: the text has every needed module once, the program last.
  `TagsAreKnown`: the file name under which a part is written is its own, or that of the part written
  just before it, whose module it then imports.  `BuildEnds`.
- *Statements.*  `LoopFlagIsSound` relates stack, flag and the flags that activations hold;
  `BreaksAreInLoops`, `NamesResolve`, `AcceptedIsWellNested` relate what was accepted to the text.
- *Names.*  `NamesAgree`: each use refers to the same declaration in Fork and in C, save a
  variable in its own initialiser, a function hidden by its own parameter, `main`'s parameters, and a module's name
  where a block has one of its own.  `OncePerBlock`: which pairs of declarations the parser lets through that C
  refuses (two functions of one name, for one).  `TypeNamesDeclared`: a structure is written with the name
  it was last looked up by, and that name is declared.
- *Types.*  `DeclaredAsWritten`: the C declaration, read by C's rules, declares the type of the
  line, save a function whose result is a pointer to a function or to an array.  `EmittedAsMeant`: the C expression is the one meant,
  save increments, an index into a literal, and a member of an array.  `OperatorsAsC`: of the accepted
  expressions C refuses those listed in `Careless` and no others, and agrees on the type of the rest.
  `PlacesAgree`: assignment, initialisation and return accept the same values, save pointers to an
  alias that is not yet resolved.  `InferredFits`: a type that is inferred is one that C lets a variable have
  and its value be assigned to, save for null, nothing, arrays and functions.
- *List.*  `HeapIsTheLists`: two disjoint chains, linked alike in both directions, and no
  node besides.  `CursorKept`: exactly two calls lose the cursor (a pop that leaves nodes
  while it is somewhere, and a push while it is nowhere).  `IsASequence`.
- *Map.*  `BalanceIsKept`: puts, lookups and the removal of the least key keep the tree
  balanced; of other removals it says nothing, since they do not (see Disagreements).  `IsADictionary`, with the iterator delivering keys in order whatever happens
  between its steps.
- *Vector.*  `ArraysAreOwned`: unless a call left defined behaviour, each live array has exactly
  one header that will free it, so that none leaks and none is freed twice.  `IsAVector`: as long as it does not point to freed memory,
  a vector is a sequence, with the growth, the pruned cells and the printing that the code has.  The
  cells that `vectPrune` and `vectContents` leave behind are part of the abstract vector: after these two calls, and
  after no other, what it shows when it grows again may be an old element.  The property so bounds where stale cells come from;
  it does not refute them.
- *Runtime.*  `CopyKeepsBytes`: at every moment the new file and what is still to be written are what was
  read, whatever reads and writes did; a copy is complete exactly if there is no byte 0.
  `NumbersReadBack`: `work` stays behind the last byte whenever a stash moves, and exactly the non-negative numbers that fit the buffer come back, apart from
  coincidences among those that are both negative and too long (-168 with two digits and words modulo 256).
  `PowerIsExact`: each power that `__forkpow` returns, to a compiled `**` or to `strtonum`, is the
  product modulo the word.  `CallsEnd`.
- *Lexer.*  `TextIsSpelled`: every solid character is in one token, or on its way.
  `LinesAreNumbered`, with the exceptions it names.  `TokensAreRuns`: maximal munch.
  `LiteralsAreKept`: a literal's text arrives unchanged.
- *Expressions.*  `GroupsAsC`, `OperandsAreKept`.

## Disagreements found

Three runs show the code against what a document or a test of the repository says; the first two by a
violation, the third by a property that holds of the code and not of what is said:

1. `map_remove`: removing a key that is not in the map can lose another key (`map.fork:248`, and
   327-328): put 2, put 3, remove 1.
2. `expr_lost`: in `x[i] - y` and `x++ - y` the left operand is dropped silently
   (`parse/expr.cc:363`).
3. `types`: `^` is exclusive or.  The README of the repository (line 21) names it as the operator of
   unsigned powers, and `tests/pow.fork:19` prints `a ^ 16` for `a` = 2.  But the lexer reads `^` as `LEX_XOR`
   (`lex/lex.cc:539-542`) and `**` as `LEX_POW` (326-329), the folding of constants (`parse/expr.cc:157`) and
   the C text (`cgen/cgen.cc:65`) make an exclusive or of it, and `pow.fork` prints 18 where 2 to the 16th is 65536.  `xor` is
   among the operators of the run: by `EmittedAsMeant` it is written as C's `^`, or as the exclusive or of two numbers, and
   only `pow`, which is `**`, as a call of `__forkpow`.

Behaviour the models show and keep:

- *Importer, emitter.*  The `#line` directives of a module that imports another one name the
  file visited last (`cgen/cgen.cc:670`).
- *Statements.*  A file that ends inside a body is not answered with the message written for
  it: the type of a null token is read first (`parse/parse.cc:704`).
- *Names.*  `mut x = x` reads the outer `x` in Fork and the new one in C (`parse.cc:392`); `main`'s parameters are
  lost (`cgen.cc:531`); two functions may have one name (`parse.cc:759`); a structure is renamed by
  every look-up (`ptree.cc:223`).
- *Types.*  A function that returns a pointer to a function or to an array is written with its
  parameters in the wrong place (`cgen.cc:570`); `x++` is written `++x` (`cgen.cc:186`); an index into a
  string literal is read before the literal's cast (`cgen.cc:192`); a `mut` may have the type of null
  (`parse.cc:395`); types of different kinds are compared member by member (`types.cc:110`), so that any two
  functions whose parameters agree are equal; a number may be compared with anything (`expr.cc:531`); a
  constant division by zero is carried out by the compiler (`expr.cc:151`).
- *List, map.*  A pop loses the cursor.  Removals of present keys can leave black heights unequal (`map.fork:268`), and a later
  one then follows a null pointer: put 1, 2, 3, remove 2, remove 1.
- *Vector.*  A slice that grows frees its vector's array, and a vector that grows leaves its slices
  on freed memory (`vector.fork:46`); `vectPrune` clears bytes, not elements (163); `vectPrint` never ends from
  256 elements on (193).
- *Runtime.*  A negative number comes back ten times too large, or as garbage if it has one digit
  (`strings.fork:112`); a power with the largest exponent never ends (`forkrt.fork:36`); a copy stops at a byte 0 in each chunk.
- *Lexer.*  An empty literal makes the lexer take the text after it as the string
  (`lex.cc:209`); the last line of a file, if no new line ends it, is numbered as the line before the
  counter moved; a string token has line number 0; after `/` at the very end of a file the rest of
  the run is lost; a quote right after a slash is dropped; a backslash that is itself
  escaped still escapes what follows.
- *Expressions.*  `x[-1]` and `c => a || -b` are refused, since the minus is taken for a difference
  outside the inner list; of `- - b` one sign disappears; `a - b pow c` becomes
  `a + (-b) pow c`, and `a - b / c` becomes `a + (-b) / c`, another number if `b` is
  unsigned; a conditional as the middle of another one is refused or regrouped.

## Proofs

TLAPS checks everything below for every value of the constants: any set of modules, any source
tree, any bound on open files; source files of any length and nesting; lists, maps, vectors and arrays of any
number and size; copied files of any size, and words of any width.

**`BuildProofs`** is about both parts of the compiler.  Its first part, on the importer, assumes `ImporterAssumption`: the main file is no module, `MaxFiles` is
a natural number, the trees are well typed, an empty file has no imports, and the main file is good
or empty.  The inductive invariant is

    IInv == TypeOK /\ StackIsPath /\ MapsAreLoaded /\ CacheIsClosed /\ StackNotCached

and no conjunct is inductive alone.  When `FinishModule` caches a module, `CacheIsClosed`
needs its map to be loaded, and `StackNotCached` needs the module not to be on the path
below.  If it were, at frame i, the parser above i handles an import of that frame, so that
frame i waits at a line it has not yet passed; but the top frame has passed *all*
lines of the same file, and its map lies in the cache, so the module that frame i waits for would
be cached already, while it is on the stack.  So a cycle is never completed, although
nothing in the code looks for one.  `DInv` adds the descriptors (finite sets and their
cardinality), and `Implementation` shows `Spec => LoadsInOrder`: `FinishModule` is a
`Load`, all other steps stutter.

`KnownContext` adds `CInv`: the name that a message would show, and
`CopiesRenamed`, that every nested parser holds a copy of the context that was renamed
*before* it was made.  That is why, after an import, the name is the import's and not the importing
file's.

The third step, about how an import ends, assumes also that there are finitely many modules
(`ModulesAreFinite`).  `Done` says what the importer has achieved: all files at work are needed, were found and could be
opened, what is cached is good, and the cache is `Grounded`: in each part of it that is not empty some module
imports nothing of that part.  When the main file's imports are all cached, cache and main file
together are closed and grounded, so that they are all that is needed and have no cycle
(`AllIsParsed`).  A run that is out of descriptors has as many different modules cached and at work
as it may have, and one more to open, or else the path returned to a file, which is a cycle
(`TooManyFiles`, `ReturnIsCycle`).

The second part is on the whole compiler.  `BuildSpec => Spec`, so all of the above
holds there.  `BInv` describes the recursion of `ccode_genImports`: the activations are an import path
from the main file; a name is marked exactly if its module was written or has an activation of its own; of what a file
imports, all but the rest of its iterator is marked; what was written is closed.  A file whose iterator is at its
end has all its imports marked, and none of them is on the path, since the
front end has shown the graph to be acyclic (`OutcomeHasCause`); hence they were written.  Without that theorem the
step does not hold: on a cycle the text would be out of order.

**`StmtParserProofs`** assumes `StmtAssumption` (well-typed lines).  The invariant is
`TypeOK /\ Control` with `Control == NestingIsLegal /\ BreakableIffInWhile /\
SavedFlagsMatch`: the flag is right after `/while` because the saved copy was, and the copy
is right in a new function only because functions never open inside a loop.

The second half of the module goes on from there to the *text*.  `TextInv` ties what the parser keeps to the lines
it has read.  `BlocksAreOpen`: the frame of every construct was pushed by a line of its kind, at the
depth of the frame, and nothing since went below that depth; for an `if`, no `else` of that
depth came in between.  `TablesAreRight`: a frame's symbols are exactly those that the lines declare in that
block and that no closer has ended, and a function is known by its own frame or by the root.
`BreaksInLoops` is the step from the flag to the text: by `SoundLoopFlag` the flag is set
exactly if a frame is a while, and by `BlocksAreOpen` exactly then a `while` line is open.  The
properties speak of all lines taken so far (`Taken`), which stay true of a longer text because they look
backwards only; the lemmas about `CountIn` (cardinalities of sets of lines) give `OpenAfter` its
steps.  The last part of `StmtAssumption`, that a line without a place for an expression uses no names, is what
the parser's productions say of `/while`, `else` and the rest.

**`NamesProofs`** assumes `NamesAssumption`: no name of the file is empty, and none is that of a built-in type,
which `pnode_alias()` refuses.  The properties are about the finished text, but each use was looked up in
tables that have grown and shrunk since, so that none of them is inductive.  `IInv` therefore says what the
parser found in terms of the *text*: `Found(use, r, p)` holds if the name read at p is that of r by the lines
before p alone: the innermost variable whose block is still open, a parameter that no variable of the
body hides, a function.  Such a statement stays true of a longer text, since `Depth` at a place counts what comes
before it (`FoundIsKept`).  What makes it true when the use is read is that the parser's nodes are exactly the blocks
open at the end of the text (`NodesAreBlocks`) and each node's table has the variables of its block, *all* of
them and no others (`TablesAreRight`); "all of them" is what closing a block could break, and what gives `Taken`
its meaning.  `ResolvedIsFound` turns the walk from the innermost node outwards into `Found`.
On the side of C, what is visible and deepest is unique wherever no name is declared twice in a block
(`OneIsDeepest`), and each of the four ways to be found is compared with it: a variable always agrees
(`VariablesAgree`), a parameter unless the function is `main` (`ParametersAgree`), a function unless it has
a parameter of its name (`FunctionsAgree`), a name of the module unless a block has its own (`MembersAgree`), and
a variable's own value never does (`OwnValue`).  These are the disjuncts of `ReadOtherwise`, so that the list is
complete and has nothing superfluous.  For `TypeNamesDeclared` an alias must not change once it has a structure
(`StructsAreKept`), which holds because an alias that has a type is refused, and because no two entries have one
name (`RootIsRight`).

**`LexerProofs`** assumes `LexerAssumption` (texts and keywords are sequences of characters, a
token holds at least two).  `LexInv == TypeOK /\ LineInv /\ DataInv /\ NumberInv /\ RunInv`: what
`line_read()` found out about the line at hand; that `data` and `saved` lie in the file as they are, from
`from` on, with the look-ahead just behind; the line they are in; where their run may end.  None of the
properties is inductive alone: that a word's number is right when `token_get()` takes it rests on where the
characters are, and that on `saved` being empty whenever something is read.  A tail
saved after a slash keeps its number because it belongs to the token handed out before it
(`AfterDiv`).  `LitInv` says of every literal that lies ahead, is being read, was too long, is at hand or
was handed out, that it is in exactly one of these, and `LiteralsKept` is its last case.  `TextSpelled` needs
what the solid characters of a piece of the file spell: `Spelled` and `SolidOf` are recursive functions over
sequences, and the lemmas that they go through concatenation are proved with a least counterexample
(`Induction`, from the well-foundedness of the natural numbers, over a *set* of numbers, which the
provers can instantiate).

**`ListProofs`** assumes `ListAssumption` (any number of nodes, a value that is none).  Here the
property `HeapIsTheLists` is itself inductive.  The argument is about *chains*: a chain of a header is a
function from the indices to different nodes in which every node's `prec` and `next` are its neighbours.  A
header has one chain at most, the one that `Path` follows (`PathIsChain`), so that the property says: there are
two chains, disjoint, with all of the heap in them (`Two`).  Each call is shown to turn the chains of the two
headers into other chains, written down: with a node put in front, behind or between, taken
out, cut in three.  `listSeek` gets to the node of its index whichever way it walks (`Follow` and `Precede`
along a chain), provided that the cursor is right; that is why the client keeps off a list whose
cursor is lost, and why `CursorIsKept` is a theorem about each single call.  The
chain's values are the sequence, so that the refinement (`ListsAreSequences`) follows call by
call.

**`MapProofs`** assumes `MapAssumption` (any bound on the keys, null is no value) and that the client removes
only keys that are there, and only while the tree is balanced (`Removing = "balanced"`).  Without that it
is false: finding 1, and the removals after which black depths differ.  The invariant is

    MapInv == IsMap(heap, root) /\ len = Cardinality(DOMAIN heap)
              /\ iter is typed /\ (iter.begin => iter.last = NoKey)

where `IsMap` says that the nodes kept are exactly those of a search tree below the root, each with its own key.
It does *not* say that the tree is balanced: a removal other than of the least key may leave it
unbalanced, and puts, lookups and the iterator must go on working all the same, on any search tree whose
red links may be anywhere.  Balance is therefore a second statement about each call.
- *Trees.*  What lies below a node is a recursive notion, and induction over trees is out of reach.  `Span(h, n,
  S, b)` says it without recursion: there is a set of claims, each of a node, the set of nodes below it and a black
  depth, each of which rests on one claim for either child (`Certifies`).  `Tree` is the same with
  the colours left out.  Certificates can be joined and split at a node (`JoinTrees`, `HalvesOf`), stay right when
  something else in the heap changes, and have the sets of nodes smaller at each step down, so that what is proved of
  each recursive function goes by induction on the number of nodes below, with `Deepest` large enough.
- *`nodeAdd`* gives a search tree of the old nodes and the key, and, where the old one was balanced,
  either a balanced one of the same depth or one with a red node and a red left child at its very top
  (`Raised`), which is what `nodeFixUp` one node up repairs (`NearlyKept`).  The rotations never abort,
  since each is asked for only about a red node.
- *`nodeDelete`* never comes back to a node it has yet to search, so that on its way down the tree ahead is still the
  old one but for the last borrowing.  `Ready` is what each step leaves to the next: the halves below the node are
  balanced and equally deep, and no red node is on its right but where the key lies there and the left is
  black.  It is enough for every rotation and flip on the way to have the red and the nodes it asks for,
  `MoveRedLeft` and `MoveRedRight` included, also where the extra test (`map.fork:268`) leaves out
  a borrowing.  The way up gives a search tree of the old keys and values without k (`Removed`), its depths whatever
  they are.  To the left the node gone to is `Warm`, red or with a red left child, and so the depth
  is kept too (`Cooled`); that is the case of the least key.
- *Addresses.*  A removal moves a pair to another node; what is kept afterwards is the reachable part with each node moved to
  its key (`Kept`).  `Moved` and `MovedSpans` carry a certificate over.

`MapIsADictionary` follows call by call: the value of every other key is as before, `NodeGetnode` finds a key exactly if
a node has it (`GetnodeFinds`), and `IterIntNext` the least key greater than the last (`IterIntNextFollows`), in any
search tree, so that the iterator does not depend on what happened since its last step.

**`VectorProofs`** assumes `VectorAssumption` (a word can count twice the largest capacity).
`VInv` is: headers and cells are typed; unless a call left defined behaviour (`wild`), no header reaches beyond
its array, and each live array has exactly one header that is no slice.  `vectNewCap` keeps that: it frees the array
of the header it is called with, marks every other header in it as dangling, and clears
`isSlice`.  A slice that grows takes the array away from its vector, and then that vector's header owns
nothing; the array is not freed again.  `VectorsAreSequences` is the refinement, call by call: a vector whose
array was not freed is the sequence of its cells up to `len`, and `RInv` adds that no array is larger than a client
may ask for, without which the growth of the abstract vector would have another limit.  What the cells
behind `len` hold matters, since `vectPut` and `vectNewCap` show them again; the abstract vector knows of it only
whether they are zero (`Clean`).

**`RuntimeProofs`** assumes `RuntimeAssumption`.  Of the machine it says what 64 bits and the 20 bytes of
`csAppendInt` satisfy: a word is even, no multiple of 3 (it is a power of two), more than 30, and larger than
the buffer, which has room for a digit and the 0.  There are three arguments.
- *Copies.*  `CopyInv` says which streams are open at each place of the program, and `Bytewise` how the new
  file, what is still to be written, and the position in the old file fit: `Awaits`, that the first followed by the second is
  the old file up to the position, is stated element by element, so that a short write moves elements from one
  part to the other.  Without a byte 0 in the file, `CString` cuts exactly the 0 that `streamRead` appends.
- *Powers.*  `PowInv`: while the loop runs, `acc` is the base to `i - 1` (`Raised`), unless the exponent is
  the largest number, for which the loop does not end and nothing is claimed.  `ExactPower` halves
  its exponent; `ExactIsRaised` shows that this is the same number, by a least counterexample as in `LexerProofs`.
- *Numbers.*  `NumInv` holds what the stash has (`Holds`, which `csAppend` keeps when it moves to another array, `work` with it: `Placed`, `GrownKeeps`), the
  rest of the text that `strtonum` has in front of it (`Remains`), and the sum as a function of the characters left, `Taken`: if k
  digits are left, the number without its last k digits, times ten if there is a sign.  `TakenNext` is one
  digit; that the power added is 10 to `len` modulo the word is `PowInv` (`RaisedTen`), for which the exponent must be
  less than the largest number, which the length of the buffer ensures.  At the end (`ComesBack`) the
  sum is the number without the digits that had no room; behind a sign it is ten times that, and minus ten times
  a number is minus the number, modulo the word, only if the word divides nine times the number, which a power of two
  does not if the number is less than it and not 0.

| theorem | states |
|---|---|
| `BuildProofs!Invariance` | `Spec => []IInv` |
| `TypeCorrect`, `SoundImports` | `TypeOK`, `ImportsAreSound` |
| `PathOfImports`, `ImportMapsAreLoaded`, `ClosedCache`, `NeverParsedAgain` | the parts of `ImportsAreSound` |
| `DescriptorsAreAccounted` | `DescriptorsAccounted` |
| `Implementation` | `LoadsInOrder` |
| `KnownContext` | `ContextIsKnown` |
| `CausedOutcome` | `OutcomeHasCause` |
| `CompilerImports`, `BuildInvariance` | `BuildSpec => Spec`, `BuildSpec => [](FrontInv /\ BInv)` |
| `AllAreWritten`, `OrderedText`, `KnownTags` | `WritesAllNeeded`, `WritesInOrder`, `TagsAreKnown` |
| `StmtParserProofs!Invariance` | `Spec => []IInv` |
| `TypeCorrect`, `SoundLoopFlag` | `TypeOK`, `LoopFlagIsSound` |
| `LegalNesting`, `LoopFlagIsRight`, `SavedFlagsAreRight` | the parts of `LoopFlagIsSound` |
| `TextInvariance` | `Spec => []TextInv` |
| `BreaksInLoops`, `ResolvedNames`, `WellNested` | `BreaksAreInLoops`, `NamesResolve`, `AcceptedIsWellNested` |
| `NamesProofs!NodesFollowText` | `Spec => []IInv` |
| `BothReadAlike`, `NamesAreDeclaredOnce`, `StructuresAreDeclared` | `NamesAgree`, `OncePerBlock`, `TypeNamesDeclared` |
| `LexerProofs!LineNumbers`, `WordsAreRuns` | `LinesAreNumbered`, `TokensAreRuns` |
| `LiteralsKept`, `TextSpelled` | `LiteralsAreKept`, `TextIsSpelled` |
| `ListProofs!ListsStayLinked` | `HeapIsTheLists` |
| `CursorIsKept`, `ListsAreSequences` | `CursorKept`, `IsASequence` |
| `MapProofs!MapStaysATree` | `Spec => []MapInv` |
| `MapStaysBalanced`, `MapIsADictionary` | `BalanceIsKept`, `IsADictionary` |
| `PresentKeysGoAlone` | `RemoveTakesItsKeyOnly`, which `map_remove` refutes for keys that are absent |
| `VectorProofs!OwnedArrays` | `ArraysAreOwned` |
| `VectorsAreSequences` | `IsAVector` |
| `RuntimeProofs!CopiesAreKept` | `CopyKeepsBytes` |
| `PowersAreExact`, `NumbersComeBack` | `PowerIsExact`, `NumbersReadBack` |

Only model-checked: `BuildEnds` and `CallsEnd`, since liveness is out of the prover's reach;
`ExprTree`, `Types`, `ExprTypes`, `CText` and `Typing`, whose definitions are `RECURSIVE`
operators over trees, which the prover cannot handle, and what they compute would need induction over
trees.  `Lexer`, `SpringList`, `Charstash` and `Names` were written without library operators that the provers know
nothing of (`SelectSeq`, `@@`, `SetToSortSeq`), with least elements and functions in their place.

## Not modelled

- *Diagnostics*: the wording of messages, and warnings.  Two messages have fewer arguments than their
  format (`ptree.cc:53`, `122`), which only shows in the text.
- *Code generator*: indentation, the chain of `if` and `else` in a body, `extern`s of an
  imported module, and `ccode_genAliases`' order over several aliases.
- *Map*: `nodeFree`, a plain recursion that frees a whole tree.
- *Strings*: `strlength`, `strappend`, `strglue` and the comparisons, each a loop over one string.
- *Streams*: the `out` functions of the standard streams, which differ in what they write.
- *Drivers*, `forkc.py` and `forkl.py`: argument handling and starting of processes.
- `deps/`: list, array and treemap are empty submodules, used as dictionaries walked in
  some order; memstream is a portability shim.

## What could follow

1. The values of expressions at a width, for the cases in which the rewriting of a difference
   changes them.
2. Whole bodies in `CText`, with blocks and `if` chains, as a second use of `CGrammar`.
