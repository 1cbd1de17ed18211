----------------------------- MODULE Dominators ------------------------------
(***************************************************************************)
(* The Dominators pass on one function: post-order numbering, the          *)
(* iterative computation of immediate dominators (Cooper, Harvey and       *)
(* Kennedy), dominance frontiers and the dominator tree.                   *)
(*                                                                         *)
(* The recursion of post_order_visit is an explicit stack, every turn of a *)
(* while loop is a step, and an assert that fails ends in "aborted".       *)
(* nullptr is Null.  std::map's operator[] creates missing entries: the    *)
(* key Null of dom_frontier and dom_tree_succ is such an entry, and a      *)
(* block that was never numbered has post_order_id 0.                      *)
(***************************************************************************)
EXTENDS CfgTheory

VARIABLES
  fn,             \* the function, which this pass only reads
  phase,          \* the function that is running
  visited, calls, \* post_order_visit: visited set and active calls
  post_order,     \* reverse_post_order_ before it is reversed
  post_order_id,
  idom,
  changed,
  at,             \* create_idom: index in post_order; then the block bb
  k,              \* position in bb's predecessor list
  first,          \* create_idom: `pred'
  new_idom,
  b1, b2,         \* intersect
  runner,         \* create_dominance_frontier
  dom_frontier,
  dom_tree_succ

orderVars    == <<visited, calls, post_order, post_order_id>>
idomVars     == <<idom, changed, first, new_idom, b1, b2>>
frontierVars == <<runner, dom_frontier, dom_tree_succ>>

Null == 0
Keys == fn.blocks \cup {Null}

Phases == {"idle", "visit", "sweep", "scan", "intersect", "frontier", "climb",
           "tree", "done", "aborted"}

IdleDominators ==
  /\ phase = "idle"
  /\ visited = {} /\ calls = <<>> /\ post_order = <<>> /\ post_order_id = <<>>
  /\ idom = <<>> /\ changed = FALSE
  /\ at = 0 /\ k = 0
  /\ first = Null /\ new_idom = Null /\ b1 = Null /\ b2 = Null
  /\ runner = Null /\ dom_frontier = <<>> /\ dom_tree_succ = <<>>

-----------------------------------------------------------------------------
(* create_reverse_post_order                                               *)

Call(bb) == [bb |-> bb, next |-> 1]

Start ==
  /\ phase = "idle"
  /\ phase' = "visit"
  /\ visited' = {Entry}
  /\ calls' = <<Call(Entry)>>
  /\ post_order' = <<>>
  /\ post_order_id' = [b \in fn.blocks |-> 0]
  /\ idom' = [b \in fn.blocks |-> Null]
  /\ dom_frontier' = [b \in Keys |-> {}]
  /\ dom_tree_succ' = [b \in Keys |-> {}]
  /\ UNCHANGED <<fn, changed, at, k, first, new_idom, b1, b2, runner>>

TopCall == calls[Len(calls)]

VisitSuccessor ==
  LET b == fn.succ[TopCall.bb][TopCall.next]
      stepped == [calls EXCEPT ![Len(calls)].next = @ + 1]
  IN  /\ phase = "visit"
      /\ calls # <<>>
      /\ TopCall.next <= Len(fn.succ[TopCall.bb])
      /\ IF b \in visited
         THEN calls' = stepped /\ UNCHANGED visited
         ELSE calls' = Append(stepped, Call(b)) /\ visited' = visited \cup {b}
      /\ UNCHANGED <<fn, phase, post_order, post_order_id, idomVars, at, k,
                     frontierVars>>

NextNumber == Len(post_order)

FinishBlock ==
  /\ phase = "visit"
  /\ calls # <<>>
  /\ TopCall.next > Len(fn.succ[TopCall.bb])
  /\ post_order_id' = [post_order_id EXCEPT ![TopCall.bb] = NextNumber]
  /\ post_order' = Append(post_order, TopCall.bb)
  /\ calls' = SubSeq(calls, 1, Len(calls) - 1)
  /\ UNCHANGED <<fn, phase, visited, idomVars, at, k, frontierVars>>

-----------------------------------------------------------------------------
(* create_idom: sweeps over the blocks in reverse post-order.              *)

InitIdom ==
  /\ phase = "visit"
  /\ calls = <<>>
  /\ phase' = "sweep"
  /\ idom' = [b \in fn.blocks |-> IF b = Entry THEN Entry ELSE Null]
  /\ changed' = FALSE
  /\ at' = Len(post_order)
  /\ UNCHANGED <<fn, orderVars, first, new_idom, b1, b2, k, frontierVars>>

bb == post_order[at]

\* Mutant: only the first predecessor is looked at.
FrontPredecessor(b) ==
  IF idom[fn.pre[b][1]] # Null THEN fn.pre[b][1] ELSE Null

\* The first predecessor that has an immediate dominator, or Null.
FirstProcessed(b) ==
  LET found == {i \in 1 .. Len(fn.pre[b]) : idom[fn.pre[b][i]] # Null}
  IN  IF found = {} THEN Null
      ELSE fn.pre[b][CHOOSE i \in found : \A j \in found : i <= j]

SkipRoot ==
  /\ phase = "sweep" /\ at > 0 /\ bb = Entry
  /\ at' = at - 1
  /\ UNCHANGED <<fn, phase, orderVars, idomVars, k, frontierVars>>

\* assert(pred)
StartBlock ==
  /\ phase = "sweep" /\ at > 0 /\ bb # Entry
  /\ first' = FirstProcessed(bb)
  /\ phase' = IF first' = Null THEN "aborted" ELSE "scan"
  /\ new_idom' = first'
  /\ k' = 1
  /\ UNCHANGED <<fn, orderVars, idom, changed, b1, b2, at, frontierVars>>

SkipPredecessor ==
  /\ phase = "scan" /\ k <= Len(fn.pre[bb])
  /\ fn.pre[bb][k] = first \/ idom[fn.pre[bb][k]] = Null
  /\ k' = k + 1
  /\ UNCHANGED <<fn, phase, orderVars, idomVars, at, frontierVars>>

CallIntersect ==
  /\ phase = "scan" /\ k <= Len(fn.pre[bb])
  /\ fn.pre[bb][k] # first /\ idom[fn.pre[bb][k]] # Null
  /\ b1' = fn.pre[bb][k]
  /\ b2' = new_idom
  /\ phase' = "intersect"
  /\ UNCHANGED <<fn, orderVars, idom, changed, first, new_idom, at, k,
                 frontierVars>>

NotAbove(x, y) == post_order_id[x] <= post_order_id[y]              \* mutant
Below(x, y) == post_order_id[x] < post_order_id[y]

\* One turn of an inner loop of intersect: the finger with the smaller number
\* moves up, under assert(get_idom(..)).
MoveFinger1 ==
  /\ phase = "intersect" /\ Below(b1, b2)
  /\ IF idom[b1] = Null THEN phase' = "aborted" /\ UNCHANGED b1
                        ELSE b1' = idom[b1] /\ UNCHANGED phase
  /\ UNCHANGED <<fn, orderVars, idom, changed, first, new_idom, b2, at, k,
                 frontierVars>>

MoveFinger2 ==
  /\ phase = "intersect" /\ Below(b2, b1)
  /\ IF idom[b2] = Null THEN phase' = "aborted" /\ UNCHANGED b2
                        ELSE b2' = idom[b2] /\ UNCHANGED phase
  /\ UNCHANGED <<fn, orderVars, idom, changed, first, new_idom, b1, at, k,
                 frontierVars>>

ReturnIntersect ==
  /\ phase = "intersect" /\ b1 = b2
  /\ new_idom' = b1
  /\ k' = k + 1
  /\ phase' = "scan"
  /\ UNCHANGED <<fn, orderVars, idom, changed, first, b1, b2, at, frontierVars>>

AlwaysChanged(b, d) == TRUE                                       \* mutant
Changed(b, d) == changed \/ idom[b] # d

SetIdom ==
  /\ phase = "scan" /\ k > Len(fn.pre[bb])
  /\ idom' = [idom EXCEPT ![bb] = new_idom]
  /\ changed' = Changed(bb, new_idom)
  /\ at' = at - 1
  /\ phase' = "sweep"
  /\ UNCHANGED <<fn, orderVars, first, new_idom, b1, b2, k, frontierVars>>

NextSweep ==
  /\ phase = "sweep" /\ at = 0 /\ changed
  /\ changed' = FALSE
  /\ at' = Len(post_order)
  /\ UNCHANGED <<fn, phase, orderVars, idom, first, new_idom, b1, b2, k,
                 frontierVars>>

EndIdom ==
  /\ phase = "sweep" /\ at = 0 /\ ~changed
  /\ phase' = "frontier"
  /\ at' = 1 /\ k' = 1
  /\ UNCHANGED <<fn, orderVars, idomVars, frontierVars>>

-----------------------------------------------------------------------------
(* create_dominance_frontier: `at' is now the block bb of the outer loop.  *)

IsWideJoin(b) == b \in fn.blocks /\ Len(fn.pre[b]) >= 3             \* mutant
IsJoin(b) == b \in fn.blocks /\ Len(fn.pre[b]) >= 2

NextBlock ==
  /\ phase = "frontier" /\ at <= fn.made
  /\ ~IsJoin(at) \/ k > Len(fn.pre[at])
  /\ at' = at + 1 /\ k' = 1
  /\ UNCHANGED <<fn, phase, orderVars, idomVars, frontierVars>>

StartRunner ==
  /\ phase = "frontier" /\ at <= fn.made
  /\ IsJoin(at) /\ k <= Len(fn.pre[at])
  /\ runner' = fn.pre[at][k]
  /\ phase' = "climb"
  /\ UNCHANGED <<fn, orderVars, idomVars, at, k, dom_frontier, dom_tree_succ>>

\* A runner that has left the tree looks up the entry idom_[nullptr], which
\* is nullptr.
Climb ==
  /\ phase = "climb" /\ runner # idom[at]
  /\ dom_frontier' = [dom_frontier EXCEPT ![runner] = @ \cup {at}]
  /\ runner' = IF runner = Null THEN Null ELSE idom[runner]
  /\ UNCHANGED <<fn, phase, orderVars, idomVars, at, k, dom_tree_succ>>

StopRunner ==
  /\ phase = "climb" /\ runner = idom[at]
  /\ k' = k + 1
  /\ phase' = "frontier"
  /\ UNCHANGED <<fn, orderVars, idomVars, at, frontierVars>>

EndFrontier ==
  /\ phase = "frontier" /\ at > fn.made
  /\ phase' = "tree"
  /\ UNCHANGED <<fn, orderVars, idomVars, at, k, frontierVars>>

\* create_dom_tree_succ
CreateTree ==
  /\ phase = "tree"
  /\ dom_tree_succ' = [d \in Keys |-> {b \in fn.blocks : idom[b] = d /\ b # d}]
  /\ phase' = "done"
  /\ UNCHANGED <<fn, orderVars, idomVars, at, k, runner, dom_frontier>>

DominatorsStep ==
  \/ Start \/ VisitSuccessor \/ FinishBlock
  \/ InitIdom \/ SkipRoot \/ StartBlock \/ SkipPredecessor \/ CallIntersect
  \/ MoveFinger1 \/ MoveFinger2 \/ ReturnIntersect \/ SetIdom \/ NextSweep
  \/ EndIdom
  \/ NextBlock \/ StartRunner \/ Climb \/ StopRunner \/ EndFrontier
  \/ CreateTree

-----------------------------------------------------------------------------
(* The asserts of create_idom and intersect never fail: in reverse         *)
(* post-order every block but the root has a predecessor already           *)
(* processed, and the two fingers only visit blocks that have an immediate *)
(* dominator, whatever the graph, unreachable blocks included.             *)
AssertsHold == phase # "aborted"

(* The result is the immediate dominator of every reachable block, and     *)
(* nullptr for the blocks no path reaches.                                 *)
IdomCorrect ==
  phase = "done" =>
    LET dom == DominatorsOf(fn)
    IN  \A b \in fn.blocks :
          idom[b] = IF b = Entry THEN Entry
                    ELSE IF b \in DOMAIN dom THEN ImmediateDominator(fn, dom, b)
                    ELSE Null

(* The frontier of every reachable block is its dominance frontier, that   *)
(* of an unreachable one the joins right behind it, and the children in    *)
(* the dominator tree lead from the entry to every reachable block.        *)
FrontierCorrect ==
  phase = "done" =>
    LET dom == DominatorsOf(fn)
    IN  /\ \A b \in DOMAIN dom :
             dom_frontier[b] = DominanceFrontier(fn, dom, b)
        /\ \A b \in fn.blocks \ DOMAIN dom :
             dom_frontier[b] = JoinsBehind(fn, b)
        /\ UNION {dom_tree_succ[b] : b \in DOMAIN dom}
             = DOMAIN dom \ {Entry}

=============================================================================
