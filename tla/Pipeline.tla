------------------------------ MODULE Pipeline -------------------------------
(***************************************************************************)
(* The driver: CminusfBuilder builds a function, then the passes run on    *)
(* it.  The builder's own state is gone when the passes start.             *)
(***************************************************************************)
EXTENDS Builder

VARIABLES phase, visited, calls, post_order, post_order_id, idom, changed,
          at, k, first, new_idom, b1, b2, runner, dom_frontier, dom_tree_succ

D == INSTANCE Dominators

passVars == <<phase, visited, calls, post_order, post_order_id, idom, changed,
              at, k, first, new_idom, b1, b2, runner, dom_frontier,
              dom_tree_succ>>

pipelineVars == <<builderVars, passVars>>

PipelineInit == BuilderInit /\ D!IdleDominators

Build == BuilderStep /\ UNCHANGED passVars

RunDominators ==
  /\ Built
  /\ D!DominatorsStep
  /\ insert' = 0 /\ nodes' = 0
  /\ UNCHANGED <<stack, depth, pre_enter_scope>>

Exit == phase = "done" /\ UNCHANGED pipelineVars

PipelineNext == Build \/ RunDominators \/ Exit

\* A sequential program takes its next step whenever it has one.
PipelineSpec ==
  /\ PipelineInit
  /\ [][PipelineNext]_pipelineVars
  /\ WF_pipelineVars(RunDominators)

(* Dominators generates the dominator information of every function it is  *)
(* given, which is what Mem2Reg, run on every compilation, calls it for.   *)
DominatorsGenerated == Built ~> phase = "done"

(* It does so for every function in which no reachable join has an         *)
(* unreachable predecessor: the sweeps, the intersections and the runners  *)
(* all end.                                                                *)
DominatorsTerminate ==
  Built /\ ~D!HasDeadPredecessor(fn) ~> phase = "done"

AssertsHold == D!AssertsHold
IdomCorrect == D!IdomCorrect
FrontierCorrect == D!FrontierCorrect

=============================================================================
