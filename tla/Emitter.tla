------------------------------- MODULE Emitter -------------------------------
(***************************************************************************)
(* Emission of the C text of a program and of the modules it imports:      *)
(* cgen() and ccode_genImports() of cgen/cgen.cc.  The recursion of        *)
(* ccode_genImports over the Imports maps is the variable frames.  A map   *)
(* is iterated in the order of an external tree map: any order here.       *)
(***************************************************************************)
EXTENDS Naturals, Sequences

CONSTANTS Modules,    \* the names of the modules
          Main        \* the program

VARIABLES deps,       \* the parsed files' Imports maps, by file
          frames,     \* the activations of ccode_genImports, outermost first
          imported,   \* the global array of names already visited
          filename,   \* the global the #line directives are written with
          out         \* the C text: the files' parts, in the order written

vars == <<deps, frames, imported, filename, out>>

NoName == "null"

(* Definitions introduced by "Fault:" are not part of the model: each is a *)
(* plausible mistake in the definition that follows it.                    *)

(* Fault: the module's imports are left out.                               *)
ActivationAlone(f) == [file |-> f, todo |-> IF f = Main THEN deps[f] ELSE {}]

(* todo: the names the activation's map iterator has still to deliver.     *)
Activation(f) == [file |-> f, todo |-> deps[f]]

Init == /\ deps \in [Modules \cup {Main} -> SUBSET Modules]
        /\ frames = <<>>
        /\ imported = {}
        /\ filename = NoName
        /\ out = <<>>

Last == frames[Len(frames)]

(* cgen: the array is emptied, the headers are written and the main file's *)
(* imports are visited.                                                    *)
Begin == /\ frames = <<>>
         /\ out = <<>>
         /\ frames' = <<Activation(Main)>>
         /\ imported' = {}
         /\ UNCHANGED <<deps, filename, out>>

(* The next name of the innermost map, m.                                  *)
Delivers(m) == /\ frames # <<>>
               /\ m \in Last.todo

(* Fault: the iterator does not move.                                      *)
RestAll(m) == frames

Rest(m) == [frames EXCEPT ![Len(frames)].todo = @ \ {m}]

SkipImported(m) == /\ Delivers(m)
                   /\ m \in imported
                   /\ frames' = Rest(m)
                   /\ UNCHANGED <<deps, imported, filename, out>>

(* Fault: the name set is that of the file being visited already.          *)
Importing(m) == Last.file

Visited(m) == m

(* The name is marked, the file name set, and the module's own imports     *)
(* come first.                                                             *)
Visit(m) == /\ Delivers(m)
            /\ m \notin imported
            /\ imported' = imported \cup {m}
            /\ filename' = Visited(m)
            /\ frames' = Append(Rest(m), Activation(m))
            /\ UNCHANGED <<deps, out>>

Part(f, name) == [file |-> f, tag |-> name]

(* Fault: a module does not wait for its imports.                          *)
MapWalkedOrNot == Len(frames) > 1 \/ Last.todo = {}

MapWalked == Last.todo = {}

(* The module's aliases and definitions, its #line directives included.    *)
EmitModule == /\ Len(frames) > 1
              /\ MapWalked
              /\ out' = Append(out, Part(Last.file, filename))
              /\ frames' = SubSeq(frames, 1, Len(frames) - 1)
              /\ UNCHANGED <<deps, imported, filename>>

(* Back in cgen: the main file's part.                                     *)
EmitMain == /\ Len(frames) = 1
            /\ MapWalked
            /\ filename' = Main
            /\ out' = Append(out, Part(Main, Main))
            /\ frames' = <<>>
            /\ UNCHANGED <<deps, imported>>

Next == \/ Begin
        \/ \E m \in Modules : SkipImported(m) \/ Visit(m)
        \/ EmitModule
        \/ EmitMain

Spec == Init /\ [][Next]_vars

-----------------------------------------------------------------------------

Emitted == {out[i].file : i \in 1..Len(out)}
Finished == out # <<>> /\ frames = <<>>

(* Emission, too, makes modules available in dependency order: C reads a   *)
(* declaration before its use, and only once.                              *)
Load == INSTANCE LoadOrder WITH deps <- [m \in Modules |-> deps[m]],
                                loaded <- Emitted \ {Main}

=============================================================================
