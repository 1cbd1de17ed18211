--------------------------- MODULE ComponentSearch ---------------------------
(***************************************************************************)
(* What strongly_connected_components promises LoopSearch: it collects the *)
(* components of two nodes or more of a graph, each one whole and none     *)
(* that is not a component, and returns when it has them all.              *)
(***************************************************************************)
EXTENDS CfgTheory

VARIABLES
  graph,     \* the successors of each node
  found,     \* the components found so far
  done       \* the search is over

searchVars == <<graph, found, done>>

SearchInit == found = {} /\ done = FALSE

Collect ==
  /\ ~done
  /\ \E c \in Components(graph) : found' = found \cup {c}
  /\ UNCHANGED <<graph, done>>

Return ==
  /\ found = Components(graph)
  /\ done' = TRUE
  /\ UNCHANGED <<graph, found>>

SearchNext == Collect \/ Return

SearchSpec ==
  SearchInit /\ [][SearchNext]_searchVars /\ WF_searchVars(SearchNext)

=============================================================================
