---------------------------- MODULE LoopInvHoist ----------------------------
(***************************************************************************)
(* LoopInvHoist on one function whose loops LoopSearch has found: loop     *)
(* after loop, in any order, and round after round, the instructions none  *)
(* of whose operands the loop computes move to the block before the loop.  *)
(*                                                                         *)
(* Three instructions stand for the code of the function: a load, an       *)
(* operation on what it loads, and an operation on that.  `var' is what    *)
(* set_instr_name calls them.  A moved instruction is a new one of the old *)
(* name; the operands of its users still point to the old one, which is in *)
(* no block any more.                                                      *)
(***************************************************************************)
EXTENDS CfgTheory, SequencesExt

VARIABLES
  fn,
  moving,    \* "off", "loops", "crashed" or "done"
  loops,     \* loops still to do, as pairs <<base, blocks>>
  round,     \* the loop whose rounds are under way, <<>> for none
  placed     \* the block each instruction was in at first

hoistVars == <<moving, loops, round, placed>>

IdleHoist == moving = "off" /\ loops = {} /\ round = <<>> /\ placed = <<>>

Fixed(n) == Load(n)
Pure(n)  == [op |-> "op", to |-> <<>>, var |-> n, src |-> 0]
Copy(i)  == [i EXCEPT !.src = 1]

OperandsOf(n) == IF n = 1 THEN {} ELSE {n - 1}

\* The function gets its instructions, each below its operand: the load in the
\* entry block or in the base of a loop, the last one in a loop.
Written(f, b, i) == [f EXCEPT !.code[b] = <<i>> \o @]

StartMoving(found) ==
  /\ moving = "off"
  /\ \E dom \in {DominatorsOf(fn)} :
       LET inLoops == DOMAIN dom \cap UNION {l[2] : l \in found}
           bases == {Entry} \cup {l[1] : l \in found}
       IN  \E b3 \in inLoops : \E b2 \in dom[b3] \cap (bases \cup inLoops) :
             \E b1 \in dom[b2] \cap bases :
               /\ fn' = Written(Written(Written(fn, b3, Pure(3)), b2, Pure(2)), b1, Fixed(1))
               /\ placed' = <<b1, b2, b3>>
  /\ moving' = "loops" /\ loops' = found
  /\ UNCHANGED round

-----------------------------------------------------------------------------
NextLoop ==
  /\ moving = "loops" /\ round = <<>>
  /\ \E l \in loops : round' = l /\ loops' = loops \ {l}
  /\ UNCHANGED <<fn, moving, placed>>

\* find_right_no_assign: an operand is compared with the instructions of the
\* loop, and only an instruction that was never moved is what users point to.
ComputedIn(n, body) ==
  \E b \in body : \E i \in Range(fn.code[b]) : i.var = n /\ i.src = 0

AlwaysRight(i, body) == TRUE                                       \* mutant
RightNoAssign(i, body) == \A n \in OperandsOf(i.var) : ~ComputedIn(n, body)

Moves(i, body) == i.op = "op" /\ RightNoAssign(i, body)
Movable(b, body) == SelectSeq(fn.code[b], LAMBDA i : Moves(i, body))

\* The block before the loop: the first predecessor of the base outside it.
MoveDest(base, body) == SelectSeq(fn.pre[base], LAMBDA p : p \notin body)

\* retmovfinal: the terminator again, behind what was added.
TerminatorLeft(f, b) == f                                         \* mutant
RetMovFinal(f, b) ==
  LET terminators == SelectSeq(f.code[b], IsTerminator)
      last == terminators[Len(terminators)]
  IN  CASE Len(last.to) = 2 -> CreateCondBr(f, b, last.to[1], last.to[2])
        [] Len(last.to) = 1 -> CreateBr(f, b, last.to[1])
        [] last.op = "ret"  -> CreateRet(f, b)

MoveInstr(f, i, dest) == RetMovFinal(AddInstr(f, dest, Copy(i)), dest)

\* rmlist: the moved instructions, and every terminator but the last.
Deleted(f, body, dest) ==
  [f EXCEPT !.code = [b \in DOMAIN @ |->
     IF b = dest
     THEN LET n == Len(f.code[b])
          IN  SelectSeq(SubSeq(f.code[b], 1, n - 1), LAMBDA i : ~IsTerminator(i))
                \o <<f.code[b][n]>>
     ELSE IF b \in body
     THEN SelectSeq(@[b], LAMBDA i : ~Moves(i, body))
     ELSE @[b]]]

\* while (change)
OneRound == <<>>                                                  \* mutant
RoundAfterMoving == round

\* move_all_instr, the blocks in any order.  A loop without a block before it
\* gives the new instruction a null block.
MoveAllInstr ==
  /\ moving = "loops" /\ round # <<>>
  /\ LET body == round[2]
         dest == MoveDest(round[1], body)
     IN  \E holders \in {{b \in body : Movable(b, body) # <<>>}} :
           /\ holders # {}
           /\ IF dest = <<>> THEN moving' = "crashed" /\ UNCHANGED fn
              ELSE /\ \E moved \in {FlattenSeq([k \in DOMAIN order |-> Movable(order[k], body)]) :
                                      order \in SetToSeqs(holders)} :
                      \E filled \in {FoldLeft(LAMBDA f, i : MoveInstr(f, i, dest[1]), fn, moved)} :
                        fn' = Deleted(filled, body, dest[1])
                   /\ UNCHANGED moving
  /\ round' = RoundAfterMoving
  /\ UNCHANGED <<loops, placed>>

\* A round that moves nothing is the last of its loop.
EndLoop ==
  /\ moving = "loops" /\ round # <<>>
  /\ \A b \in round[2] : Movable(b, round[2]) = <<>>
  /\ round' = <<>>
  /\ UNCHANGED <<fn, moving, loops, placed>>

EndMoving ==
  /\ moving = "loops" /\ loops = {} /\ round = <<>>
  /\ moving' = "done"
  /\ UNCHANGED <<fn, loops, round, placed>>

HoistStep == NextLoop \/ MoveAllInstr \/ EndLoop \/ EndMoving

-----------------------------------------------------------------------------
\* Where the instruction called n is, as block and position.
Places(n) ==
  LET called(i) == i.op \in {"load", "op"} /\ i.var = n
  IN  UNION {{b} \X {k \in DOMAIN fn.code[b] : called(fn.code[b][k])} : b \in fn.blocks}

(* However many instructions move to a block, and however often: between   *)
(* two rounds every block has one terminator, at its end, and the edge     *)
(* lists name the same blocks; and each name has one instruction, or the   *)
(* printed function would define it twice or not at all.                   *)
HoistKeepsShape ==
  moving \in {"loops", "done"} =>
    /\ \A b \in fn.blocks : OneTerminator(fn, b) /\ HasTerminator(fn, b)
    /\ \A b \in fn.blocks : \A t \in Range(TargetsOf(fn, b)) :
         t \in Range(fn.succ[b]) /\ b \in Range(fn.pre[t])
    /\ \A n \in DOMAIN placed : Cardinality(Places(n)) = 1

Precedes(m, n, dom) ==
  \E p \in Places(m), q \in Places(n) :
    IF p[1] = q[1] THEN p[2] < q[2] ELSE p[1] \in dom[q[1]]

\* The operand began in a loop inside a loop around its user.
LeftInnerLoop(m, n, all) ==
  \E inner, outer \in all :
    /\ inner[2] # outer[2] /\ inner[2] \subseteq outer[2]
    /\ placed[m] \in inner[2] /\ placed[n] \in outer[2]

(* Hoisting leaves every instruction behind its operands, except where an  *)
(* operand leaves an inner loop: the loop around it no longer finds what   *)
(* the user points to among its instructions.                              *)
OperandsPrecede(all) ==
  moving = "done" =>
    \E dom \in {DominatorsOf(fn)} :
      \A n \in DOMAIN placed : \A m \in OperandsOf(n) :
        Precedes(m, n, dom) \/ LeftInnerLoop(m, n, all)

(* The report (src/Reports/lab5/report-phase2.md:336) says the order need  *)
(* not be considered: an instruction always ends up behind its operands.   *)
OrderKept ==
  moving = "done" =>
    \E dom \in {DominatorsOf(fn)} :
      \A n \in DOMAIN placed : \A m \in OperandsOf(n) : Precedes(m, n, dom)

(* No instruction stays in a loop that does not compute its operand.       *)
InvariantsHoisted(all) ==
  moving = "done" =>
    \A l \in all : \A n \in DOMAIN placed \ {1} : \A p \in Places(n) :
      p[1] \in l[2] => \E m \in OperandsOf(n) : \E q \in Places(m) : q[1] \in l[2]

=============================================================================
