---------------------------- MODULE PipelineProofs ----------------------------
(***************************************************************************)
(* Proofs about Pipeline, for functions of any size: on every function the *)
(* visitor can build, the asserts of the Dominators pass never fail, and   *)
(* when the pass ends it has computed the immediate dominators, the        *)
(* dominance frontiers and the dominator tree.                             *)
(*                                                                         *)
(* DominatorsProofs shows this for a graph without an edge to the entry.   *)
(* Here: the visitor never jumps back to the entry block, because no loop  *)
(* head and no block still to be filled is the entry.                      *)
(***************************************************************************)
EXTENDS Pipeline, BuilderProofs

P == INSTANCE DominatorsProofs

-----------------------------------------------------------------------------
(* The whole pipeline.                                                     *)

\* A finished function is a graph that Dominators can work on.
LEMMA BuiltIsFlowGraph ==
  ASSUME Inv, EntryInv, Built
  PROVE  P!FlowGraph(fn)
<1>1. WellFormed(fn) /\ EntryFirst(fn)
  BY DEF Inv, InvOf, EntryInv, Built
<1> QED
  BY <1>1 DEF WellFormed, FunctionType, EdgesAgree, EntryFirst, P!FlowGraph, P!Entry, Entry,
              P!Range, Range

\* What Pipeline says of the pass is what DominatorsProofs proves of it.
LEMMA SameStart == D!IdleDominators <=> P!IdleDominators
BY DEF D!IdleDominators, P!IdleDominators, D!Null, P!Null

LEMMA SameStep == D!DominatorsStep <=> P!DominatorsStep
<1>1. D!Start <=> P!Start
  BY DEF D!Start, P!Start, D!Call, P!Call, D!Entry, P!Entry, D!Keys,
         P!Keys, D!Null, P!Null
<1>2. D!VisitSuccessor <=> P!VisitSuccessor
  BY DEF D!VisitSuccessor, P!VisitSuccessor, D!TopCall, P!TopCall,
         D!Call, P!Call, D!idomVars, P!idomVars, D!frontierVars,
         P!frontierVars
<1>3. D!FinishBlock <=> P!FinishBlock
  BY DEF D!FinishBlock, P!FinishBlock, D!TopCall, P!TopCall,
         D!NextNumber, P!NextNumber, D!idomVars, P!idomVars,
         D!frontierVars, P!frontierVars
<1>4. D!InitIdom <=> P!InitIdom
  BY DEF D!InitIdom, P!InitIdom, D!Entry, P!Entry, D!Null, P!Null,
         D!orderVars, P!orderVars, D!frontierVars, P!frontierVars
<1>5. D!SkipRoot <=> P!SkipRoot
  BY DEF D!SkipRoot, P!SkipRoot, D!bb, P!bb, D!Entry, P!Entry,
         D!orderVars, P!orderVars, D!idomVars, P!idomVars,
         D!frontierVars, P!frontierVars
<1>6. D!StartBlock <=> P!StartBlock
  BY DEF D!StartBlock, P!StartBlock, D!FirstProcessed,
         P!FirstProcessed, D!bb, P!bb, D!Entry, P!Entry, D!Null,
         P!Null, D!orderVars, P!orderVars, D!frontierVars,
         P!frontierVars
<1>7. D!SkipPredecessor <=> P!SkipPredecessor
  BY DEF D!SkipPredecessor, P!SkipPredecessor, D!bb, P!bb, D!Null,
         P!Null, D!orderVars, P!orderVars, D!idomVars, P!idomVars,
         D!frontierVars, P!frontierVars
<1>8. D!CallIntersect <=> P!CallIntersect
  BY DEF D!CallIntersect, P!CallIntersect, D!bb, P!bb, D!Null, P!Null,
         D!orderVars, P!orderVars, D!frontierVars, P!frontierVars
<1>9. D!MoveFinger1 <=> P!MoveFinger1
  BY DEF D!MoveFinger1, P!MoveFinger1, D!Below, P!Below, D!Null,
         P!Null, D!orderVars, P!orderVars, D!frontierVars,
         P!frontierVars
<1>10. D!MoveFinger2 <=> P!MoveFinger2
  BY DEF D!MoveFinger2, P!MoveFinger2, D!Below, P!Below, D!Null,
         P!Null, D!orderVars, P!orderVars, D!frontierVars,
         P!frontierVars
<1>11. D!ReturnIntersect <=> P!ReturnIntersect
  BY DEF D!ReturnIntersect, P!ReturnIntersect, D!orderVars,
         P!orderVars, D!frontierVars, P!frontierVars
<1>12. D!SetIdom <=> P!SetIdom
  BY DEF D!SetIdom, P!SetIdom, D!Changed, P!Changed, D!bb, P!bb,
         D!orderVars, P!orderVars, D!frontierVars, P!frontierVars
<1>13. D!NextSweep <=> P!NextSweep
  BY DEF D!NextSweep, P!NextSweep, D!orderVars, P!orderVars,
         D!frontierVars, P!frontierVars
<1>14. D!EndIdom <=> P!EndIdom
  BY DEF D!EndIdom, P!EndIdom, D!orderVars, P!orderVars, D!idomVars,
         P!idomVars, D!frontierVars, P!frontierVars
<1>15. D!NextBlock <=> P!NextBlock
  BY DEF D!NextBlock, P!NextBlock, D!IsJoin, P!IsJoin, D!orderVars,
         P!orderVars, D!idomVars, P!idomVars, D!frontierVars,
         P!frontierVars
<1>16. D!StartRunner <=> P!StartRunner
  BY DEF D!StartRunner, P!StartRunner, D!IsJoin, P!IsJoin,
         D!orderVars, P!orderVars, D!idomVars, P!idomVars
<1>17. D!Climb <=> P!Climb
  BY DEF D!Climb, P!Climb, D!Null, P!Null, D!orderVars, P!orderVars,
         D!idomVars, P!idomVars
<1>18. D!StopRunner <=> P!StopRunner
  BY DEF D!StopRunner, P!StopRunner, D!orderVars, P!orderVars,
         D!idomVars, P!idomVars, D!frontierVars, P!frontierVars
<1>19. D!EndFrontier <=> P!EndFrontier
  BY DEF D!EndFrontier, P!EndFrontier, D!orderVars, P!orderVars,
         D!idomVars, P!idomVars, D!frontierVars, P!frontierVars
<1>20. D!CreateTree <=> P!CreateTree
  BY DEF D!CreateTree, P!CreateTree, D!Keys, P!Keys, D!Null, P!Null,
         D!orderVars, P!orderVars, D!idomVars, P!idomVars
<1> QED
  BY <1>1, <1>2, <1>3, <1>4, <1>5, <1>6, <1>7, <1>8, <1>9, <1>10, <1>11,
     <1>12, <1>13, <1>14, <1>15, <1>16, <1>17, <1>18, <1>19, <1>20
     DEF D!DominatorsStep, P!DominatorsStep

LEMMA SameReached ==
  /\ \A next, start : D!ReachedFrom(next, start) = P!ReachedFrom(next, start)
  /\ \A s : D!Range(s) = P!Range(s)
<1>1. \A S : D!Cardinality(S) = P!Cardinality(S)
  BY DEF D!Cardinality, P!Cardinality
<1>2. \A s : D!Range(s) = P!Range(s)
  BY DEF D!Range, P!Range
<1> QED BY <1>1, <1>2 DEF D!ReachedFrom, P!ReachedFrom

LEMMA SameDominators ==
  /\ D!DominatorsOf(fn) = P!DominatorsOf(fn)
  /\ D!Reachable(fn) = P!Reachable(fn)
<1>1. \A avoid : D!PathsFrom(fn, D!Entry, avoid) = P!PathsFrom(fn, P!Entry, avoid)
  BY SameReached DEF D!PathsFrom, P!PathsFrom, D!Entry, P!Entry
<1>2. D!Reachable(fn) = P!Reachable(fn)
  BY <1>1 DEF D!Reachable, P!Reachable
<1>3. \A g : D!Table(g) = g /\ P!Table(g) = g
  BY DEF D!Table, P!Table
<1>4. D!DominatorsOf(fn) = P!DominatorsOf(fn)
  <2> DEFINE withoutD == [a \in fn.blocks |-> D!PathsFrom(fn, D!Entry, {a})]
             withoutP == [a \in fn.blocks |-> P!PathsFrom(fn, P!Entry, {a})]
             domD == [b \in D!Reachable(fn) |-> {a \in fn.blocks : b \notin withoutD[a]}]
             domP == [b \in P!Reachable(fn) |-> {a \in fn.blocks : b \notin withoutP[a]}]
  <2>1. withoutD = withoutP
    BY <1>1
  <2>2. D!DominatorsOf(fn) = domD /\ P!DominatorsOf(fn) = domP
    BY <1>3 DEF D!DominatorsOf, P!DominatorsOf
  <2> HIDE DEF withoutD, withoutP
  <2>3. domD = domP
    BY <1>2, <2>1
  <2> HIDE DEF domD, domP
  <2> QED BY <2>2, <2>3
<1> QED BY <1>2, <1>4

LEMMA SameResults ==
  /\ D!AssertsHold <=> P!AssertsHold
  /\ D!IdomCorrect <=> P!IdomCorrect
  /\ D!FrontierCorrect <=> P!FrontierCorrect
<1>1. D!AssertsHold <=> P!AssertsHold
  BY DEF D!AssertsHold, P!AssertsHold
<1>2. D!IdomCorrect <=> P!IdomCorrect
  BY SameDominators DEF D!IdomCorrect, P!IdomCorrect, D!ImmediateDominator,
     P!ImmediateDominator, D!Entry, P!Entry, D!Null, P!Null
<1>3. \A dom, a : D!DominanceFrontier(fn, dom, a) = P!DominanceFrontier(fn, dom, a)
  BY SameDominators, SameReached DEF D!DominanceFrontier, P!DominanceFrontier
<1>4. \A a : D!JoinsBehind(fn, a) = P!JoinsBehind(fn, a)
  BY SameReached DEF D!JoinsBehind, P!JoinsBehind
<1>5. D!FrontierCorrect <=> P!FrontierCorrect
  BY <1>3, <1>4, SameDominators DEF D!FrontierCorrect, P!FrontierCorrect, D!Entry, P!Entry
<1> QED BY <1>1, <1>2, <1>5

\* Before the function is built the pass has not begun; after it, the pass's own
\* invariant holds.
PipelineInv ==
  /\ ~Built => Inv /\ Scoping /\ EntryInv /\ P!IdleDominators
  /\ Built => P!Inv

LEMMA PipelineInitially == PipelineInit => PipelineInv
<1> SUFFICES ASSUME PipelineInit PROVE PipelineInv
  OBVIOUS
<1>1. BuilderInit /\ P!IdleDominators
  BY SameStart DEF PipelineInit
<1>2. Inv /\ Scoping
  BY <1>1, Initially
<1>3. EntryInv /\ ~Built
  BY <1>1 DEF BuilderInit, EntryInv, Built
<1> QED BY <1>1, <1>2, <1>3 DEF PipelineInv

LEMMA PassBegins == Inv /\ EntryInv /\ Built /\ P!IdleDominators => P!Inv
BY BuiltIsFlowGraph, P!IdleInv

LEMMA PassBeginsNext == Inv' /\ EntryInv' /\ Built' /\ P!IdleDominators' => P!Inv'
BY PassBegins, PTL

LEMMA BuildKeeps ==
  ASSUME BuilderAssumption, PipelineInv, Build
  PROVE  PipelineInv'
<1>1. BuilderStep /\ UNCHANGED passVars
  BY DEF Build
<1>2. ~Built
  BY <1>1, BuildingUnbuilt
<1>3. Inv' /\ Scoping' /\ EntryInv'
  BY <1>1, <1>2, Inductive, BuilderStepEntry DEF PipelineInv, BuilderNext
<1>4. P!IdleDominators'
  <2>1. P!IdleDominators
    BY <1>2 DEF PipelineInv
  <2> QED BY <1>1, <2>1 DEF passVars, P!IdleDominators, P!Null
<1>5. Built' => P!Inv'
  BY <1>3, <1>4, PassBeginsNext
<1> QED BY <1>3, <1>4, <1>5 DEF PipelineInv

\* The pass only reads the function.
LEMMA RunKeeps ==
  ASSUME PipelineInv, RunDominators
  PROVE  PipelineInv'
<1>1. Built /\ D!DominatorsStep /\ stack' = stack
  BY DEF RunDominators
<1>2. P!Inv /\ P!DominatorsStep
  BY <1>1, SameStep DEF PipelineInv
<1>3. P!Inv'
  BY <1>2, P!InductiveInv
<1>4. fn' = fn
  BY <1>1 DEF D!DominatorsStep, D!Start, D!VisitSuccessor, D!FinishBlock, D!InitIdom,
     D!SkipRoot, D!StartBlock, D!SkipPredecessor, D!CallIntersect, D!MoveFinger1,
     D!MoveFinger2, D!ReturnIntersect, D!SetIdom, D!NextSweep, D!EndIdom, D!NextBlock,
     D!StartRunner, D!Climb, D!StopRunner, D!EndFrontier, D!CreateTree
<1>5. Built'
  BY <1>1, <1>4 DEF Built
<1> QED BY <1>3, <1>5 DEF PipelineInv

LEMMA StutterKeeps ==
  ASSUME PipelineInv, UNCHANGED pipelineVars
  PROVE  PipelineInv'
<1>1. UNCHANGED builderVars /\ UNCHANGED passVars
  BY DEF pipelineVars
<1>2. Built' <=> Built
  BY <1>1 DEF Built, builderVars
<1>3. CASE Built
  <2>1. P!Inv
    BY <1>3 DEF PipelineInv
  <2>2. P!Inv'
    BY <1>1, <2>1 DEF passVars, builderVars, P!Inv, P!Keys, P!Scanning, P!Intersecting,
       P!Climbing, P!bb
  <2> QED BY <1>2, <1>3, <2>2 DEF PipelineInv
<1>4. CASE ~Built
  <2>1. Inv' /\ Scoping' /\ EntryInv' /\ P!IdleDominators'
    BY <1>1, <1>4 DEF PipelineInv, passVars, builderVars, Inv, Scoping, ScopesBalanced,
       EntryInv, P!IdleDominators
  <2> QED BY <1>2, <1>4, <2>1 DEF PipelineInv
<1> QED BY <1>3, <1>4

THEOREM PipelineInvariant == PipelineSpec => []PipelineInv
<1>1. PipelineInit => PipelineInv
  BY PipelineInitially
<1>2. PipelineInv /\ [PipelineNext]_pipelineVars => PipelineInv'
  BY BuilderAssumption, BuildKeeps, RunKeeps, StutterKeeps DEF PipelineNext, Exit
<1> QED BY <1>1, <1>2, PTL DEF PipelineSpec

LEMMA PipelineImplies == PipelineInv => AssertsHold /\ IdomCorrect /\ FrontierCorrect
<1> SUFFICES ASSUME PipelineInv PROVE AssertsHold /\ IdomCorrect /\ FrontierCorrect
  OBVIOUS
<1>1. CASE Built
  <2>1. P!AssertsHold /\ P!IdomCorrect /\ P!FrontierCorrect
    BY <1>1, P!InvAsserts, P!InvIdom, P!InvFrontier DEF PipelineInv
  <2> QED BY <2>1, SameResults DEF AssertsHold, IdomCorrect, FrontierCorrect
<1>2. CASE ~Built
  <2>1. phase = "idle"
    BY <1>2 DEF PipelineInv, P!IdleDominators
  <2> QED BY <2>1 DEF AssertsHold, IdomCorrect, FrontierCorrect, D!AssertsHold,
             D!IdomCorrect, D!FrontierCorrect
<1> QED BY <1>1, <1>2

(* The asserts of create_idom and intersect never fail, on any function    *)
(* the visitor builds: whatever its size, its loops, and the blocks that   *)
(* no path reaches.                                                        *)
THEOREM DominatorAssertsHold == PipelineSpec => []AssertsHold
BY PipelineInvariant, PipelineImplies, PTL

(* When Dominators is done, idom holds the immediate dominator of every    *)
(* reachable block, as defined by the paths of the graph, and nullptr for  *)
(* the others.                                                             *)
THEOREM ImmediateDominatorsCorrect == PipelineSpec => []IdomCorrect
BY PipelineInvariant, PipelineImplies, PTL

(* ... the frontier of every reachable block is its dominance frontier,    *)
(* that of an unreachable one the joins behind it, and the dominator tree  *)
(* spans exactly the reachable blocks.                                     *)
THEOREM DominanceFrontiersCorrect == PipelineSpec => []FrontierCorrect
BY PipelineInvariant, PipelineImplies, PTL

=============================================================================
