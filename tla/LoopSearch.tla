------------------------------ MODULE LoopSearch ------------------------------
(***************************************************************************)
(* The LoopSearch pass on one function: rounds of finding the strongly     *)
(* connected components of a copy of the control-flow graph, recording a   *)
(* loop for each, and taking the loop's base out of the copy so that the   *)
(* next round finds the loops inside.  Tarjan shows how a round finds the  *)
(* components; here that is one step.  A CFGNode is named by its block.    *)
(***************************************************************************)
EXTENDS CfgTheory

VARIABLES
  fn,              \* the function, which this pass only reads
  search,          \* what run does next
  cfg_nodes,       \* `nodes' in run
  succs, prevs,    \* the fields of CFGNode
  sccs,            \* components of this round still to be looked at
  reserved,
  base2loop, loop2base, bb2base

loopVars == <<search, cfg_nodes, succs, prevs, sccs, reserved, base2loop,
              loop2base, bb2base>>

NoNode == 0   \* nullptr

IdleLoopSearch ==
  /\ search = "idle"
  /\ cfg_nodes = {} /\ succs = <<>> /\ prevs = <<>>
  /\ sccs = {} /\ reserved = {}
  /\ base2loop = <<>> /\ loop2base = <<>> /\ bb2base = <<>>

\* A pass that needs loops makes a LoopSearch of its own.
NewLoopSearch ==
  /\ search' = "idle"
  /\ cfg_nodes' = {} /\ succs' = <<>> /\ prevs' = <<>>
  /\ sccs' = {} /\ reserved' = {}
  /\ base2loop' = <<>> /\ loop2base' = <<>> /\ bb2base' = <<>>

\* bb2cfg_node has no node for a block outside the function.
NodeOf(b) == IF b \in fn.blocks THEN b ELSE NoNode

BuildCfg ==
  /\ search = "idle"
  /\ search' = "round"
  /\ cfg_nodes' = fn.blocks
  /\ succs' = [b \in fn.blocks |-> {NodeOf(s) : s \in Range(fn.succ[b])}]
  /\ prevs' = [b \in fn.blocks |-> {NodeOf(p) : p \in Range(fn.pre[b])}]
  /\ UNCHANGED <<fn, sccs, reserved, base2loop, loop2base, bb2base>>

\* traverse looks into every successor, also a null one.
TraverseCrashes ==
  /\ search = "round"
  /\ \E n \in cfg_nodes : NoNode \in succs[n]
  /\ search' = "crashed"
  /\ UNCHANGED <<fn, cfg_nodes, succs, prevs, sccs, reserved, base2loop,
                 loop2base, bb2base>>

\* The condition of the loop in run: another round, if the nodes left lead to
\* components.
FindComponents ==
  /\ search = "round"
  /\ \A n \in cfg_nodes : NoNode \notin succs[n]
  /\ sccs' = {c \in Components(succs) : c \cap cfg_nodes # {}}
  /\ search' = IF sccs' = {} THEN "done" ELSE "bases"
  /\ IF sccs' = {} THEN cfg_nodes' = {} /\ reserved' = {}
                   ELSE UNCHANGED <<cfg_nodes, reserved>>
  /\ UNCHANGED <<fn, succs, prevs, base2loop, loop2base, bb2base>>

\* The nodes of a component entered from outside it.
ExitsTo(n, set) == succs[n] \ set                                 \* mutant
OutsideOf(n, set) == prevs[n] \ set

\* find_loop_base returns the last node it finds in an unordered_set, so any;
\* first among the nodes with an outside predecessor, else among those that
\* a base of an earlier component jumps to.
Entered(set) == {n \in set : OutsideOf(n, set) # {}}

BehindReserved(set) == set \cap UNION {succs[r] : r \in reserved}

LoopBases(set) ==
  IF Entered(set) # {} THEN Entered(set)
  ELSE IF BehindReserved(set) # {} THEN BehindReserved(set)
  ELSE {NoNode}

\* unordered_map::insert keeps an entry that exists; bb2base is overwritten.
Inserted(map, key, value) ==
  [k \in DOMAIN map \cup {key} |-> IF k \in DOMAIN map THEN map[k] ELSE value]
FirstBase(set, base) ==                                           \* mutant
  [b \in DOMAIN bb2base \cup set |-> IF b \in DOMAIN bb2base THEN bb2base[b] ELSE base]
LatestBase(set, base) ==
  [b \in DOMAIN bb2base \cup set |-> IF b \in set THEN base ELSE bb2base[b]]

\* The edges of the copy without the base, as seen from its neighbours.
KeptEdges(base) == succs                                          \* mutant
CutEdges(base) ==
  [p \in DOMAIN succs |->
     IF p \in prevs[base] THEN succs[p] \ {base} ELSE succs[p]]

RecordLoop(set, base) ==
  /\ base2loop' = Inserted(base2loop, base, set)
  /\ loop2base' = Inserted(loop2base, set, base)
  /\ bb2base' = LatestBase(set, base)

RemoveBase(base) ==
  /\ reserved' = reserved \cup {base}
  /\ cfg_nodes' = cfg_nodes \ {base}
  /\ succs' = CutEdges(base)
  /\ prevs' = [s \in DOMAIN prevs |->
                 IF s \in succs[base] THEN prevs[s] \ {base} ELSE prevs[s]]

\* The components of a round in any order; a null base is dereferenced.
TakeLoop ==
  /\ search = "bases"
  /\ \E set \in sccs : \E base \in LoopBases(set) :
       /\ sccs' = sccs \ {set}
       /\ IF base = NoNode
          THEN /\ search' = "crashed"
               /\ UNCHANGED <<cfg_nodes, succs, prevs, reserved, base2loop,
                              loop2base, bb2base>>
          ELSE /\ search' = IF sccs' = {} THEN "round" ELSE "bases"
               /\ RecordLoop(set, base)
               /\ RemoveBase(base)
  /\ UNCHANGED fn

LoopSearchStep ==
  BuildCfg \/ TraverseCrashes \/ FindComponents \/ TakeLoop

-----------------------------------------------------------------------------
(* The queries of the passes that use the result.  The empty set stands    *)
(* for nullptr.                                                            *)

get_inner_loop(bb) ==
  IF bb \in DOMAIN bb2base THEN base2loop[bb2base[bb]] ELSE {}

\* The first predecessor of the base outside the loop decides.
get_parent_loop(loop) ==
  LET base == loop2base[loop]
      pre == fn.pre[base]
      outside == {k \in DOMAIN pre : pre[k] \notin loop}
      first == CHOOSE k \in outside : \A j \in outside : k <= j
  IN  IF outside = {} THEN {}
      ELSE LET parent == get_inner_loop(pre[first])
           IN  IF base \in parent THEN parent ELSE {}

-----------------------------------------------------------------------------

Searched == search = "done"

LoopsFound == {<<loop2base[l], l>> : l \in DOMAIN loop2base}

(* The loops found in reachable code are exactly the natural loops of the  *)
(* graph, each with its header as base: no loop is missed because an       *)
(* enclosing base was removed too early or its edges too late, and none is *)
(* split or merged.                                                        *)
LoopsNatural ==
  Searched =>
    {l \in LoopsFound : l[1] \in Reachable(fn)} = NaturalLoops(fn)

\* l is the smallest of some loops, or nullptr if there is none.
Innermost(l, loops) ==
  IF loops = {} THEN l = {}
  ELSE l \in loops /\ \A m \in loops : l \subseteq m

(* get_inner_loop answers with the innermost natural loop around a block,  *)
(* although every round writes the same table; get_parent_loop answers     *)
(* with the smallest natural loop that encloses a loop, and with nullptr   *)
(* for an outermost one, although it looks only at one predecessor of the  *)
(* base.                                                                   *)
LoopQueriesCorrect ==
  Searched =>
    LET bodies == {l[2] : l \in NaturalLoops(fn)}
    IN  /\ \A b \in Reachable(fn) :
             Innermost(get_inner_loop(b), {l \in bodies : b \in l})
        /\ \A l \in bodies :
             Innermost(get_parent_loop(l),
                       {m \in bodies : l \subseteq m /\ l # m})

=============================================================================
