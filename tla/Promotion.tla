------------------------------ MODULE Promotion ------------------------------
(***************************************************************************)
(* The driver up to the end of Mem2Reg, and then either ActiveVars or the  *)
(* compiled function's runs: build a function, promote its variables, then *)
(* analyse it, or execute it before and after promotion side by side.      *)
(*                                                                         *)
(* The Dominators pass appears here as what Pipeline shows it computes     *)
(* (IdomCorrect, FrontierCorrect), and only on the functions it finishes   *)
(* on (DominatorsTerminate).                                               *)
(***************************************************************************)
EXTENDS Builder

CONSTANTS Locals, Globals, Ticks

ASSUME PromotionAssumption ==
  /\ Locals \cap Globals = {}
  /\ Locals \cup Globals \subseteq Nat \ {0}
  /\ Ticks \in Nat \ {0}

\* A store to a variable brings a value of its own along (src = 0) or takes over
\* what a load of a variable before it in the same piece of code has loaded.
ASSUME CopyAssumption ==
  \A code \in Segments \cup Prologues : \A i \in DOMAIN code :
    code[i].var \in Locals \cup Globals /\ code[i].src # 0 =>
      /\ code[i].op # "load"
      /\ code[i].op = "store" =>
           /\ code[i].src < i
           /\ code[i - code[i].src].op = "load"
           /\ code[i - code[i].src].var \in Locals \cup Globals

VARIABLES dom_frontier, dom_tree_succ,
          stage, phis, pairs, operand, var_val_stack, calls, deleted,
          block, pos, mem, reg, ssa, ssaMem, tick,
          analysis, DFSList, tables, live_in, live_out

A == INSTANCE ActiveVars
E == INSTANCE Execution
M == INSTANCE Mem2Reg

promotion == <<stage, phis, pairs, operand, var_val_stack, calls, deleted>>
machine == <<block, pos, mem, reg, ssa, ssaMem, tick>>
dominatorResults == <<dom_frontier, dom_tree_succ>>
liveness == <<analysis, DFSList, tables, live_in, live_out>>
promotionVars == <<builderVars, dominatorResults, promotion, machine, liveness>>

PromotionInit ==
  /\ BuilderInit
  /\ dom_frontier = <<>> /\ dom_tree_succ = <<>>
  /\ M!Mem2RegOff /\ E!Stopped /\ A!IdleActiveVars

Build == BuilderStep /\ UNCHANGED <<dominatorResults, promotion, machine, liveness>>

\* Mem2Reg::run starts by running Dominators.
RunDominators ==
  /\ Built /\ stage = "off" /\ ~M!HasDeadPredecessor(fn)
  /\ \E dom \in {M!DominatorsOf(fn)} :
       /\ dom_frontier' =
            [b \in fn.blocks |->
               IF b \in DOMAIN dom THEN M!DominanceFrontier(fn, dom, b)
                                 ELSE M!JoinsBehind(fn, b)]
       /\ dom_tree_succ' =
            [b \in fn.blocks |->
               {c \in DOMAIN dom \ {Entry} : b = M!ImmediateDominator(fn, dom, c)}]
  /\ stage' = "place"
  /\ insert' = 0 /\ nodes' = 0
  /\ UNCHANGED <<fn, stack, depth, pre_enter_scope, phis, pairs, operand,
                 var_val_stack, calls, deleted, machine, liveness>>

Promote ==
  /\ M!Mem2RegStep
  /\ UNCHANGED <<insert, stack, depth, pre_enter_scope, nodes, machine, liveness>>

Analyse ==
  /\ block = 0
  /\ A!ActiveVarsStep
  /\ UNCHANGED <<builderVars, dominatorResults, promotion, machine>>

Run ==
  /\ analysis = "off"
  /\ E!ExecutionStep
  /\ UNCHANGED <<insert, stack, depth, pre_enter_scope, nodes, liveness>>

Ended ==
  /\ \/ E!Returned
     \/ analysis = "done"
     \/ stage \in {"aborted", "undefined"}
     \/ Built /\ stage = "off" /\ M!HasDeadPredecessor(fn)     \* never out of Dominators
  /\ UNCHANGED promotionVars

PromotionNext == Build \/ RunDominators \/ Promote \/ Analyse \/ Run \/ Ended

PromotionSpec == PromotionInit /\ [][PromotionNext]_promotionVars

StacksBalanced == M!StacksBalanced
FailsOnlyOnUnstored == M!FailsOnlyOnUnstored
AccessesRemoved == M!AccessesRemoved
PhisFilled == M!PhisFilled
ProgramsAgree == E!ProgramsAgree
LivenessExact == A!LivenessExact

=============================================================================
