----------------------------- MODULE LoadOrder -----------------------------
(***************************************************************************)
(* What the importer promises the rest of the compiler: modules become     *)
(* available one at a time, each exactly once, and never before all the    *)
(* modules it imports.  How files are opened, cached and nested is left to *)
(* Importer, which implements this specification.                          *)
(***************************************************************************)

CONSTANT Modules            \* the names a file may import

VARIABLES deps,             \* deps[m] : the modules m imports
          loaded            \* the modules available so far

vars == <<deps, loaded>>

TypeOK == /\ deps \in [Modules -> SUBSET Modules]
          /\ loaded \in SUBSET Modules

Init == /\ deps \in [Modules -> SUBSET Modules]
        /\ loaded = {}

Load(m) == /\ m \notin loaded
           /\ deps[m] \subseteq loaded
           /\ loaded' = loaded \cup {m}
           /\ UNCHANGED deps

Next == \E m \in Modules : Load(m)

Spec == Init /\ [][Next]_vars

=============================================================================
