-------------------------------- MODULE Build --------------------------------
(***************************************************************************)
(* forkc1's main(): the front end parses the main file with all it         *)
(* imports and, if it did so without a failure and found something, cgen   *)
(* writes the C text.                                                      *)
(***************************************************************************)
EXTENDS Importer

VARIABLES frames, imported, filename, out

cgenVars == <<frames, imported, filename, out>>

(* A finished parser's Imports map holds all its imports (MapsAreLoaded).  *)
ImportMaps == [f \in Files |-> ImportSet(f)]

C == INSTANCE Emitter WITH deps <- ImportMaps

BuildInit == /\ Init
             /\ frames = <<>>
             /\ imported = {}
             /\ filename = C!NoName
             /\ out = <<>>

FrontEnd == /\ Next
            /\ UNCHANGED cgenVars

Cgen == /\ outcome = "parsed"
        /\ UNCHANGED vars
        /\ C!Next

BuildNext == FrontEnd \/ Cgen

buildVars == <<vars, cgenVars>>

(* The compiler is one sequential process that does not wait.              *)
BuildSpec == BuildInit /\ [][BuildNext]_buildVars /\ WF_buildVars(BuildNext)

-----------------------------------------------------------------------------
(* Properties.                                                             *)

(* cgen writes the modules one by one, each once, and each after all the   *)
(* modules it imports, in whatever order the import maps are walked.  That *)
(* ccode_genImports marks a module before visiting its imports would break *)
(* this on a cyclic graph; the front end never hands one over.             *)
WritesInOrder == C!Load!Spec

(* When cgen returns, the text holds every module the program needs, in    *)
(* one part each, and the program itself as the last part.                 *)
WritesAllNeeded ==
  C!Finished => /\ C!Emitted = Needed
                /\ Len(out) = Cardinality(Needed)
                /\ out[Len(out)].file = Main

(* Whatever the import graph, a compilation ends: with a diagnostic, with  *)
(* nothing to write, or with the program's text complete.                  *)
BuildEnds == <>(IF outcome = "parsed" THEN C!Finished ELSE outcome # "running")

(* The #line directives of a file's definitions name that file, or, since  *)
(* the global name is not put back after the visit of a module's imports,  *)
(* the file named just before, whose module it then imports.               *)
TagsAreKnown ==
  \A i \in 1..Len(out) :
    \/ out[i].tag = out[i].file
    \/ /\ i > 1 /\ out[i].file # Main
       /\ out[i].tag = out[i - 1].tag
       /\ out[i - 1].file \in ImportSet(out[i].file)

=============================================================================
