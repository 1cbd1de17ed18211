-------------------------------- MODULE Tarjan --------------------------------
(***************************************************************************)
(* LoopSearch::strongly_connected_components and LoopSearch::traverse:     *)
(* Tarjan's algorithm on the nodes of one round.  The calls of traverse    *)
(* are `calls', innermost last.  Nodes and successors are kept in sets of  *)
(* pointers, so they are visited in any order.                             *)
(***************************************************************************)
EXTENDS Integers, Sequences, SequencesExt, FiniteSetsExt

CONSTANT Graphs   \* bound: the graphs searched, functions from nodes to sets

ASSUME TarjanAssumption ==
  \A g \in Graphs :
    IsFiniteSet(DOMAIN g) /\ \A n \in DOMAIN g : g[n] \subseteq DOMAIN g

VARIABLES
  succs,                     \* CFGNode::succs
  index, lowlink, onStack,   \* the other fields of CFGNode
  index_count, stack,        \* members of LoopSearch
  calls,                     \* active calls of traverse: n and its loop's rest
  result,
  returned

tarjanVars == <<succs, index, lowlink, onStack, index_count, stack, calls,
                result, returned>>

CFGNodes == DOMAIN succs
Innermost == calls[Len(calls)]

TarjanInit ==
  /\ succs \in Graphs
  /\ index = [n \in CFGNodes |-> -1]
  /\ lowlink = [n \in CFGNodes |-> -1]
  /\ onStack = [n \in CFGNodes |-> FALSE]
  /\ index_count = 0 /\ stack = <<>> /\ calls = <<>>
  /\ result = {} /\ returned = FALSE

\* The call traverse(n), up to its loop over the successors.
Traverse(n, active) ==
  /\ index' = [index EXCEPT ![n] = index_count]
  /\ lowlink' = [lowlink EXCEPT ![n] = index_count]
  /\ index_count' = index_count + 1
  /\ stack' = Append(stack, n)
  /\ onStack' = [onStack EXCEPT ![n] = TRUE]
  /\ calls' = Append(active, [n |-> n, todo |-> succs[n]])
  /\ UNCHANGED <<succs, result, returned>>

VisitRoot ==
  /\ calls = <<>>
  /\ \E n \in CFGNodes : index[n] = -1 /\ Traverse(n, calls)

\* The loop of the innermost call without the successor it looks at.
Past(su) == [calls EXCEPT ![Len(calls)].todo = @ \ {su}]

TraverseSuccessor ==
  /\ calls # <<>>
  /\ \E su \in Innermost.todo : index[su] = -1 /\ Traverse(su, Past(su))

SmallestOf(m, n) == IF m < n THEN m ELSE n

\* A visited successor counts only while its component is open.
AlwaysOpen(su) == TRUE                                            \* mutant
StillOpen(su) == onStack[su]

SeeSuccessor ==
  /\ calls # <<>>
  /\ \E su \in Innermost.todo :
       /\ index[su] # -1
       /\ lowlink' = [lowlink EXCEPT ![Innermost.n] =
                        IF StillOpen(su) THEN SmallestOf(index[su], @) ELSE @]
       /\ calls' = Past(su)
  /\ UNCHANGED <<succs, index, onStack, index_count, stack, result, returned>>

\* A call hands its lowlink to its caller.
NothingToCaller(n) == lowlink                                     \* mutant
LowlinkToCaller(n) ==
  IF Len(calls) = 1 THEN lowlink
  ELSE [lowlink EXCEPT ![calls[Len(calls) - 1].n] = SmallestOf(lowlink[n], @)]

\* The nodes above n on the stack, and n.
PoppedWith(n) == {stack[i] : i \in SelectInSeq(stack, LAMBDA m : m = n) .. Len(stack)}

EndTraverse ==
  /\ calls # <<>> /\ Innermost.todo = {}
  /\ LET n == Innermost.n
         set == IF index[n] = lowlink[n] THEN PoppedWith(n) ELSE {}
     IN  /\ stack' = SubSeq(stack, 1, Len(stack) - Cardinality(set))
         /\ onStack' = [m \in CFGNodes |-> onStack[m] /\ m \notin set]
         /\ result' = IF Cardinality(set) >= 2 THEN result \cup {set} ELSE result
         /\ lowlink' = LowlinkToCaller(n)
  /\ calls' = Front(calls)
  /\ UNCHANGED <<succs, index, index_count, returned>>

Finish ==
  /\ calls = <<>> /\ ~returned
  /\ \A n \in CFGNodes : index[n] # -1
  /\ returned' = TRUE
  /\ UNCHANGED <<succs, index, lowlink, onStack, index_count, stack, calls,
                 result>>

Returned == returned /\ UNCHANGED tarjanVars

TarjanStep ==
  VisitRoot \/ TraverseSuccessor \/ SeeSuccessor \/ EndTraverse \/ Finish

\* A sequential function takes its next step.
TarjanSpec ==
  /\ TarjanInit
  /\ [][TarjanStep \/ Returned]_tarjanVars
  /\ WF_tarjanVars(TarjanStep)

-----------------------------------------------------------------------------

Abstract == INSTANCE ComponentSearch
              WITH graph <- succs, found <- result, done <- returned

(* The search implements its promise: every component comes out whole,     *)
(* nothing else does, and it returns with all of them, whatever the order  *)
(* the pointers are visited in.                                            *)
FindsComponents == Abstract!SearchSpec

(* While a call is active, the lowlink of a node on the stack is the index *)
(* of a node that is on the stack too, no later one, and in the same       *)
(* component: this is why a node whose lowlink is its index heads one.     *)
LowlinkWitnessed ==
  \A n \in CFGNodes : onStack[n] =>
    \E m \in CFGNodes :
      /\ onStack[m] /\ index[m] = lowlink[n] /\ lowlink[n] <= index[n]
      /\ m = n \/ \E c \in Abstract!Components(succs) : {m, n} \subseteq c

=============================================================================
