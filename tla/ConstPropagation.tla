--------------------------- MODULE ConstPropagation ---------------------------
(***************************************************************************)
(* What the ConstPropagation pass does to the control flow of one          *)
(* function: block by block, a conditional branch whose condition has      *)
(* folded to a constant becomes an unconditional one; then blocks without  *)
(* predecessors are erased until none is left.                             *)
(*                                                                         *)
(* The condition of a branch is the icmp the builder puts right before it. *)
(* Which conditions fold depends on the program's expressions, so each may *)
(* come out as unknown, true or false.  The folding of other values is     *)
(* left out: it changes operands only.                                     *)
(***************************************************************************)
EXTENDS CfgTheory, FiniteSetsExt

VARIABLES
  fn,
  pass,    \* the part of run that is executing
  at       \* the block the first part has come to

IdleConstPropagation == pass = "idle" /\ at = 0

LastInstr(b) == fn.code[b][Len(fn.code[b])]

BranchesOnCondition(b) == HasTerminator(fn, b) /\ Len(LastInstr(b).to) = 2

\* create_br first; then wait_delete loses the icmp and the old branch, and the
\* block that is no longer a target its predecessor.
LostKeepsPre(f, b, lost) == f                                     \* mutant
LostForgets(f, b, lost) == [f EXCEPT !.pre[lost] = Without(@, b)]

Redirect(b, kept, lost) ==
  LET f1 == LostForgets(CreateBr(fn, b, kept), b, lost)
  IN  [f1 EXCEPT !.code[b] = SubSeq(@, 1, Len(@) - 3) \o <<Br(<<kept>>)>>]

\* br i1 cond, if_true, if_false
Folded(b, cond) ==
  LET if_true  == LastInstr(b).to[1]
      if_false == LastInstr(b).to[2]
  IN  CASE cond = "unknown" -> fn
        [] cond = "true"    -> Redirect(b, if_true, if_false)
        [] cond = "false"   -> Redirect(b, if_false, if_true)

StartFolding ==
  /\ pass = "idle"
  /\ pass' = "fold"
  /\ UNCHANGED <<fn, at>>

\* The loop over the blocks changes only those with a condition.
StillToFold == {b \in fn.blocks : b > at /\ BranchesOnCondition(b)}

FoldBlock ==
  /\ pass = "fold"
  /\ StillToFold # {}
  /\ at' = Min(StillToFold)
  /\ \E cond \in {"unknown", "true", "false"} : fn' = Folded(at', cond)
  /\ UNCHANGED pass

EndFolding ==
  /\ pass = "fold"
  /\ StillToFold = {}
  /\ pass' = "sweep"
  /\ at' = 0
  /\ UNCHANGED fn

\* wait_delete of the second part.
EraseAlsoEntry == {b \in fn.blocks : fn.pre[b] = <<>>}            \* mutant
WithoutPredecessor == {b \in fn.blocks \ {Entry} : fn.pre[b] = <<>>}

\* A round of the second part; one that erased something is not the last.
NoOtherRound(erased) == FALSE                                     \* mutant
AnotherRound(erased) == erased # {}

EraseUnreached ==
  /\ pass = "sweep"
  /\ fn' = FoldSet(LAMBDA b, f : EraseBlock(f, b), fn, WithoutPredecessor)
  /\ pass' = IF AnotherRound(WithoutPredecessor) THEN "sweep" ELSE "done"
  /\ UNCHANGED at

ConstPropagationStep ==
  StartFolding \/ FoldBlock \/ EndFolding \/ EraseUnreached

-----------------------------------------------------------------------------

Propagated == pass = "done"

\* The blocks the jumps themselves lead to, whatever the successor lists say.
JumpGraph == [b \in fn.blocks |-> Range(TargetsOf(fn, b))]
Executable == ReachedFrom(JumpGraph, {Entry})

(* Once the pass has begun the predecessor list of a block names exactly   *)
(* the blocks that jump to it, and nothing jumps to an erased block.  The  *)
(* erasure relies on it, while the successor lists are stale by then.      *)
PredecessorsCurrent ==
  pass # "idle" =>
    \A b \in fn.blocks :
      /\ JumpGraph[b] \subseteq fn.blocks
      /\ Range(fn.pre[b]) = {p \in fn.blocks : b \in JumpGraph[p]}

(* Nothing that can still be executed is erased.                           *)
NothingExecutableErased == pass # "idle" => Executable \subseteq fn.blocks

(* What cannot be executed any more is erased, except for loops nothing    *)
(* enters and the blocks behind them: their blocks keep each other alive.  *)
OnlyLoopsLeft ==
  Propagated =>
    LET left == fn.blocks \ Executable
        loops == UNION Components([b \in left |-> JumpGraph[b] \cap left])
    IN  left \subseteq ReachedFrom(JumpGraph, loops)

=============================================================================
