------------------------------ MODULE MCTarjan -------------------------------
(***************************************************************************)
(* TLC instance of Tarjan: every graph of a few blocks, at most two        *)
(* successors each, as a br has, and none its own.  The blocks are numbered *)
(* by falling number of successors: every other graph is one of these with *)
(* other names.                                                            *)
(***************************************************************************)
EXTENDS Tarjan

Blocks == 1 .. 4

SmallGraphs ==
  {g \in [Blocks -> {s \in SUBSET Blocks : Cardinality(s) <= 2}] :
     \A b \in Blocks :
       /\ b \notin g[b]
       /\ \A c \in 1 .. b : Cardinality(g[c]) >= Cardinality(g[b])}

=============================================================================
