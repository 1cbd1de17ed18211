------------------------------ MODULE CfgTheory ------------------------------
(***************************************************************************)
(* Reference definitions on a control-flow graph, independent of how the   *)
(* compiler computes them: paths, dominance, immediate dominators,         *)
(* dominance frontiers, reducibility, strongly connected components and    *)
(* natural loops.  A control-flow graph is a function record of            *)
(* ControlFlow.                                                            *)
(***************************************************************************)
EXTENDS ControlFlow, Reachability, TLC

\* The blocks on some path from `from' that does not enter the set `avoid'.
PathsFrom(f, from, avoid) ==
  ReachedFrom([b \in f.blocks |-> Range(f.succ[b]) \ avoid], {from} \ avoid)

Reachable(f) == PathsFrom(f, Entry, {})

\* g itself; the comparison makes TLC tabulate a function it would otherwise
\* recompute at every application.
Table(g) == CHOOSE t \in {g} : t = g

\* DominatorsOf(f)[b]: the blocks on every path from the entry to b.
DominatorsOf(f) ==
  LET without == Table([a \in f.blocks |-> PathsFrom(f, Entry, {a})])
  IN  Table([b \in Reachable(f) |-> {a \in f.blocks : b \notin without[a]}])

\* The strict dominator that every other strict dominator dominates.
ImmediateDominator(f, dom, b) ==
  CHOOSE a \in dom[b] \ {b} : dom[b] \ {b} \subseteq dom[a]

\* The joins just outside the region a dominates.
DominanceFrontier(f, dom, a) ==
  {b \in Reachable(f) :
     /\ \E p \in Reachable(f) : b \in Range(f.succ[p]) /\ a \in dom[p]
     /\ a \notin dom[b] \ {b}}

\* A block no path reaches has no dominators; what stands in for its frontier
\* is the set of joins it leads to directly.
JoinsBehind(f, a) ==
  {b \in f.blocks : Len(f.pre[b]) >= 2 /\ a \in Range(f.pre[b])}

\* Every cycle is entered at one block: removing the edges into a dominator
\* leaves no cycle.
Reducible(f) ==
  LET dom == DominatorsOf(f)
      forward == Table([b \in Reachable(f) |-> Range(f.succ[b]) \ dom[b]])
  IN  \A b \in Reachable(f) :
        \A c \in forward[b] : b \notin ReachedFrom(forward, {c})

\* A reachable block of several predecessors, one of which is unreachable.
HasDeadPredecessor(f) ==
  \E b \in Reachable(f) :
    Len(f.pre[b]) >= 2 /\ ~(Range(f.pre[b]) \subseteq Reachable(f))

\* The strongly connected components of two nodes or more.
Components(next) ==
  LET mates(n) == {m \in ReachedFrom(next, {n}) : n \in ReachedFrom(next, {m})}
  IN  {c \in {mates(n) : n \in DOMAIN next} : Cardinality(c) >= 2}

\* The natural loop of h: h and the blocks from which a jump back to h can be
\* reached without passing through h.  Empty if nothing h dominates jumps to h.
NaturalLoop(f, dom, h) ==
  LET back == {t \in Range(f.pre[h]) \cap DOMAIN dom : h \in dom[t]}
      before == [b \in f.blocks |-> (Range(f.pre[b]) \cap DOMAIN dom) \ {h}]
  IN  IF back = {} THEN {} ELSE {h} \cup ReachedFrom(before, back)

\* Loop headers with their loops.
NaturalLoops(f) ==
  LET dom == DominatorsOf(f)
      loop == Table([h \in DOMAIN dom |-> NaturalLoop(f, dom, h)])
  IN  {<<h, loop[h]>> : h \in {b \in DOMAIN dom : loop[b] # {}}}

=============================================================================
