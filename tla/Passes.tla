-------------------------------- MODULE Passes --------------------------------
(***************************************************************************)
(* The driver with -loop-search, -const-propagation and -loop-inv-hoist:   *)
(* CminusfBuilder builds a function, Mem2Reg leaves its control flow as it *)
(* is, LoopSearch and ConstPropagation run on it in this order, and        *)
(* LoopInvHoist begins with a LoopSearch of its own.  Without              *)
(* -const-propagation that search finds again what the first one found: it *)
(* is not repeated here, and LoopInvHoist goes on to move instructions.    *)
(* After ConstPropagation it is followed through its search only.  Mem2Reg *)
(* does not come back from a function in which a reachable join has an     *)
(* unreachable predecessor (see Pipeline).                                 *)
(***************************************************************************)
EXTENDS Builder

VARIABLES
  search, cfg_nodes, succs, prevs, sccs, reserved, base2loop, loop2base,
  bb2base,       \* the LoopSearch that runs, or the last one
  pass, at,      \* ConstPropagation
  hoisting,      \* LoopInvHoist has begun
  moving, loops, round, placed

L == INSTANCE LoopSearch
C == INSTANCE ConstPropagation
H == INSTANCE LoopInvHoist

loopVars  == <<search, cfg_nodes, succs, prevs, sccs, reserved, base2loop,
               loop2base, bb2base>>
constVars == <<pass, at>>
hoistVars == <<moving, loops, round, placed>>

passesVars == <<builderVars, loopVars, constVars, hoisting, hoistVars>>

PassesInit ==
  /\ BuilderInit /\ L!IdleLoopSearch /\ C!IdleConstPropagation
  /\ hoisting = FALSE /\ H!IdleHoist

Build == BuilderStep /\ UNCHANGED <<loopVars, constVars, hoisting, hoistVars>>

\* The builder is gone when the passes run.
Optimizing ==
  /\ Built
  /\ insert' = 0 /\ nodes' = 0
  /\ UNCHANGED <<stack, depth, pre_enter_scope>>

RunLoopSearch ==
  /\ Optimizing
  /\ search = "idle" /\ pass = "idle" => ~L!HasDeadPredecessor(fn)
  /\ L!LoopSearchStep
  /\ UNCHANGED <<constVars, hoisting, hoistVars>>

RunConstPropagation ==
  /\ Optimizing
  /\ search = "done" /\ moving = "off"
  /\ C!ConstPropagationStep
  /\ UNCHANGED <<loopVars, hoisting, hoistVars>>

\* LoopInvHoist::run makes a new LoopSearch.
StartHoist ==
  /\ Optimizing
  /\ pass = "done" /\ ~hoisting
  /\ hoisting' = TRUE
  /\ L!NewLoopSearch
  /\ UNCHANGED <<fn, constVars, hoistVars>>

StartMoving ==
  /\ Optimizing
  /\ search = "done" /\ pass = "idle"
  /\ H!StartMoving(L!LoopsFound)
  /\ UNCHANGED <<loopVars, constVars, hoisting>>

Move ==
  /\ Optimizing
  /\ H!HoistStep
  /\ UNCHANGED <<loopVars, constVars, hoisting>>

Exit ==
  /\ Built
  /\ \/ search = "idle"
     \/ search = "crashed"
     \/ pass = "done" /\ search = "done" /\ moving = "off"
     \/ moving \in {"crashed", "done"}
  /\ UNCHANGED passesVars

PassesStep ==
  RunLoopSearch \/ RunConstPropagation \/ StartHoist \/ StartMoving \/ Move

\* A sequential program takes its next step whenever it has one.
PassesSpec ==
  /\ PassesInit
  /\ [][Build \/ PassesStep \/ Exit]_passesVars
  /\ WF_passesVars(PassesStep)

BeforeFolding(P) == pass = "idle" /\ moving = "off" => P

LoopsNatural == BeforeFolding(L!LoopsNatural)
LoopQueriesCorrect == BeforeFolding(L!LoopQueriesCorrect)

BeforeMoving(P) == moving = "off" => P

PredecessorsCurrent == BeforeMoving(C!PredecessorsCurrent)
NothingExecutableErased == BeforeMoving(C!NothingExecutableErased)
OnlyLoopsLeft == BeforeMoving(C!OnlyLoopsLeft)

HoistKeepsShape == H!HoistKeepsShape
OperandsPrecede == H!OperandsPrecede(L!LoopsFound)
InvariantsHoisted == H!InvariantsHoisted(L!LoopsFound)
OrderKept == H!OrderKept

(* The passes end: the rounds of LoopSearch, none of which meets a         *)
(* component without a base, also among the loops in unreachable code, and *)
(* the rounds of erasure.                                                  *)
PassesEnd ==
  Built /\ pass = "idle" /\ search = "idle" /\ ~L!HasDeadPredecessor(fn)
    ~> pass = "done" \/ moving = "done"

(* pre_bbs_ and succ_bbs_ record the predecessors and successors of every  *)
(* block, and the whole graph can be walked along them                     *)
(* (src/Documentations/lab5/CodeReading.md): so the search LoopInvHoist    *)
(* begins with gets through the graph ConstPropagation left.               *)
HoistSearchEnds == hoisting ~> search = "done"

=============================================================================
