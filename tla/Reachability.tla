----------------------------- MODULE Reachability -----------------------------
(***************************************************************************)
(* Reachability in a finite digraph.                                       *)
(***************************************************************************)
EXTENDS Naturals, FiniteSets

\* The nodes reached from the set `start' in a digraph given as a function from
\* nodes to their sets of successors.
ReachedFrom(next, start) ==
  LET step[n \in 0 .. Cardinality(DOMAIN next)] ==
        IF n = 0 THEN start ELSE start \cup UNION {next[b] : b \in step[n - 1]}
  IN  step[Cardinality(DOMAIN next)]

=============================================================================
