------------------------------- MODULE MCBuild -------------------------------
(***************************************************************************)
(* Source trees of a main file and three modules: every import graph in    *)
(* which the main file and module a have at most two import lines and      *)
(* the others at most one, with at most one file out of order.  An empty   *)
(* file imports nothing.                                                   *)
(***************************************************************************)
EXTENDS Build

CONSTANTS a, b, c, main

MCModules == {a, b, c}

Lists(n) == UNION {[1..k -> MCModules] : k \in 0..n}

Graphs == {g \in [MCModules \cup {main} -> Lists(2)] :
             Len(g[b]) <= 1 /\ Len(g[c]) <= 1}

AllGood == [f \in MCModules \cup {main} |-> "good"]

KindMaps == {AllGood, [AllGood EXCEPT ![main] = "empty"]}
            \cup {[AllGood EXCEPT ![m] = k] :
                    m \in MCModules, k \in Kinds}

MCTrees == {[f \in MCModules \cup {main} |->
               [kind |-> ks[f],
                imports |-> IF ks[f] = "empty" THEN <<>> ELSE g[f]]] :
              g \in Graphs, ks \in KindMaps}

=============================================================================
