------------------------------ MODULE Execution ------------------------------
(***************************************************************************)
(* What a compiled function does when it runs, before and after promotion. *)
(* The two programs have the same control flow, so one path is taken       *)
(* through both: `mem' and `reg' are the memory and the load results of    *)
(* the program the builder emitted; `ssa' and `ssaMem' are the registers   *)
(* and the globals of the program Mem2Reg leaves.                          *)
(*                                                                         *)
(* A value is the store site that brought it along and a tick, so that the *)
(* values of two turns of a loop differ.  Undef is what an uninitialised   *)
(* variable and an undef phi operand hold.                                 *)
(***************************************************************************)
EXTENDS Naturals, Sequences, Functions

CONSTANTS Locals, Globals, Ticks   \* bound: the tick counts modulo Ticks

VARIABLES fn, dom_frontier, dom_tree_succ,
          stage, phis, pairs, operand, var_val_stack, calls, deleted,
          block, pos, mem, reg, ssa, ssaMem, tick

M == INSTANCE Mem2Reg

program == <<fn, dom_frontier, dom_tree_succ, stage, phis, pairs, operand,
             var_val_stack, calls, deleted>>
machine == <<block, pos, mem, reg, ssa, ssaMem, tick>>

Undef == [kind |-> "undef", block |-> 0, at |-> 0, var |-> 0, tick |-> 0]

Stopped ==
  /\ block = 0 /\ pos = 0 /\ tick = 0
  /\ mem = <<>> /\ reg = <<>> /\ ssa = <<>> /\ ssaMem = <<>>

\* The next instruction of block b, from position i on, that touches memory or
\* ends the block; the others read and write no variable.
NextAccess(b, i) ==
  CHOOSE j \in i .. Len(fn.code[b]) :
    /\ fn.code[b][j].op \in {"load", "store", "br", "ret"}
    /\ \A h \in i .. j - 1 : fn.code[b][h].op \notin {"load", "store", "br", "ret"}

Call ==
  LET loads == M!InstrsOf("load", Locals \cup Globals)
      owns == {id \in DOMAIN operand : M!InitialOperand(id).kind = "own"}
  IN  /\ stage = "promoted" /\ block = 0
      /\ block' = M!Entry /\ pos' = NextAccess(M!Entry, 1)
      /\ mem' = [v \in Locals \cup Globals |-> Undef]
      /\ ssaMem' = [v \in Globals |-> Undef]
      /\ reg' = [id \in loads |-> Undef]
      /\ ssa' = [v \in {M!InitialOperand(id) : id \in owns \cup loads}
                       \cup {M!PhiValue(phi) : phi \in phis} |-> Undef]
      /\ UNCHANGED tick

Id == <<block, pos>>
Instruction == fn.code[block][pos]
Running == block # 0 /\ pos <= Len(fn.code[block])

ExecuteLoad ==
  /\ Running /\ Instruction.op = "load"
  /\ reg' = [reg EXCEPT ![Id] = mem[Instruction.var]]
  /\ ssa' = IF Instruction.var \in Globals
            THEN [ssa EXCEPT ![M!Value("load", block, pos)] = ssaMem[Instruction.var]]
            ELSE ssa
  /\ pos' = NextAccess(block, pos + 1)
  /\ UNCHANGED <<block, mem, ssaMem, tick>>

ExecuteStore ==
  LET own == M!Value("own", block, pos)
      fresh == [kind |-> "own", block |-> block, at |-> pos, var |-> 0,
                tick |-> tick]
  IN  /\ Running /\ Instruction.op = "store"
      /\ IF Instruction.src = 0
         THEN /\ ssa' = [ssa EXCEPT ![own] = fresh]
              /\ mem' = [mem EXCEPT ![Instruction.var] = fresh]
              /\ tick' = (tick + 1) % Ticks
         ELSE /\ mem' = [mem EXCEPT ![Instruction.var] =
                           reg[<<block, pos - Instruction.src>>]]
              /\ UNCHANGED <<ssa, tick>>
      /\ ssaMem' = IF Instruction.var \in Globals
                   THEN [ssaMem EXCEPT ![Instruction.var] = ssa'[operand[Id]]]
                   ELSE ssaMem
      /\ pos' = NextAccess(block, pos + 1)
      /\ UNCHANGED <<block, reg>>

\* PhiInst::print: a predecessor without a pair is printed as undef.
PhiOperand(phi, from) ==
  LET given == {p \in pairs : p.at = phi /\ p.from = from}
  IN  IF given = {} THEN Undef ELSE ssa[(CHOOSE p \in given : TRUE).val]

\* A branch to any target; the phis there are evaluated together.
ExecuteBranch ==
  /\ Running /\ Instruction.op = "br"
  /\ \E target \in Range(Instruction.to) :
       /\ block' = target
       /\ ssa' = [v \in DOMAIN ssa |->
                    IF v.kind = "phi" /\ v.block = target
                    THEN PhiOperand(<<target, v.var>>, block) ELSE ssa[v]]
       /\ pos' = NextAccess(target, 1)
  /\ UNCHANGED <<mem, reg, ssaMem, tick>>

\* ret ends the call.
Returned == Running /\ Instruction.op = "ret"

ExecutionStep ==
  /\ \/ Call
     \/ ExecuteLoad \/ ExecuteStore \/ ExecuteBranch
  /\ UNCHANGED program

(* Wherever the original program has loaded a defined value, the operand   *)
(* that replaced the load in the promoted program holds the same value,    *)
(* also round loops, across joins, for copies of copies and for phis that  *)
(* read each other; and the observable state, the globals, is the same in  *)
(* both programs.                                                          *)
ProgramsAgree ==
  block # 0 =>
    /\ \A id \in DOMAIN reg :
         id[1] = block /\ id[2] < pos /\ reg[id] # Undef
           => ssa[operand[id]] = reg[id]
    /\ \A v \in Globals : mem[v] # Undef => ssaMem[v] = mem[v]

=============================================================================
