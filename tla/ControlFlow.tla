----------------------------- MODULE ControlFlow -----------------------------
(***************************************************************************)
(* The part of LightIR that carries control flow: a Function, its list of  *)
(* BasicBlocks, their instruction lists, the terminators BranchInst and    *)
(* ReturnInst, and the predecessor and successor lists that BranchInst     *)
(* keeps beside the terminators.                                           *)
(*                                                                         *)
(* A block is named by the position of its creation, 1, 2, ...; the entry  *)
(* block is the first one.  basic_blocks_ is only ever appended to and     *)
(* removed from, so the function's list is the set `blocks' in ascending   *)
(* order.  Lists whose order or duplicates matter (instructions, preds,    *)
(* succs) are sequences, indexed by block.                                 *)
(***************************************************************************)
EXTENDS Naturals, Sequences, Functions

Entry == 1

(***************************************************************************)
(* Instructions.  Only what control flow and promotion to registers look   *)
(* at is kept: `to' is the list of target blocks of a br, `var' the        *)
(* variable (alloca) a load or a store names, 0 for none, and `src' where a *)
(* store takes its value: the instruction src places before it, or, when   *)
(* src = 0, a value of its own (a constant, an argument, a call).          *)
(***************************************************************************)
Ops == {"alloca", "load", "store", "icmp", "gep", "call", "op", "br", "ret"}

Instr == [op : Ops, to : Seq(Nat), var : Nat, src : Nat]

Plain(op)         == [op |-> op, to |-> <<>>, var |-> 0, src |-> 0]
Br(targets)       == [op |-> "br", to |-> targets, var |-> 0, src |-> 0]
Alloca(var)       == [op |-> "alloca", to |-> <<>>, var |-> var, src |-> 0]
Load(var)         == [op |-> "load", to |-> <<>>, var |-> var, src |-> 0]
Store(var, src)   == [op |-> "store", to |-> <<>>, var |-> var, src |-> src]
Ret               == Plain("ret")

IsTerminator(i) == i.op \in {"ret", "br"}

(***************************************************************************)
(* A function under construction.  `made' counts the blocks ever created.  *)
(***************************************************************************)
NoFunction == [blocks |-> {}, made |-> 0,
               code |-> <<>>, pre |-> <<>>, succ |-> <<>>]

\* BasicBlock::create: a fresh block without instructions, at the end of the
\* function's list.  Its name is f.made + 1.
CreateBlock(f) ==
  [blocks |-> f.blocks \cup {f.made + 1},
   made   |-> f.made + 1,
   code   |-> Append(f.code, <<>>),
   pre    |-> Append(f.pre, <<>>),
   succ   |-> Append(f.succ, <<>>)]

\* The Instruction constructors append to the block they are given.
AddInstrs(f, b, instrs) == [f EXCEPT !.code[b] = @ \o instrs]
AddInstr(f, b, instr)   == [f EXCEPT !.code[b] = Append(@, instr)]

\* get_terminator looks at the last instruction only.
HasTerminator(f, b) ==
  /\ f.code[b] # <<>>
  /\ IsTerminator(f.code[b][Len(f.code[b])])

\* BranchInst: the instruction and both edge lists.
CreateBr(f, b, t) ==
  [f EXCEPT !.code[b] = Append(@, Br(<<t>>)),
            !.pre[t]  = Append(@, b),
            !.succ[b] = Append(@, t)]

\* Mutant: if_false does not learn its predecessor.
CondBrOnePre(f, b, t, e) ==
  [f EXCEPT !.code[b] = Append(@, Br(<<t, e>>)),
            !.pre[t]  = Append(@, b),
            !.succ[b] = @ \o <<e, t>>]

\* The successor list receives if_false before if_true.
CreateCondBr(f, b, t, e) ==
  [f EXCEPT !.code[b] = Append(@, Br(<<t, e>>)),
            !.pre[t]  = Append(@, b),
            !.pre[e]  = Append(@, b),
            !.succ[b] = @ \o <<e, t>>]

CreateRet(f, b) == AddInstr(f, b, Ret)

\* std::list::remove takes every occurrence.
Without(list, b) ==
  LET left[i \in 0 .. Len(list)] ==
        IF i = 0 THEN <<>>
        ELSE IF list[i] = b THEN left[i - 1] ELSE Append(left[i - 1], list[i])
  IN  left[Len(list)]

\* erase_from_parent / Function::remove.
EraseBlock(f, b) ==
  [f EXCEPT
     !.blocks = @ \ {b},
     !.succ = [p \in DOMAIN @ |->
                 IF p \in Range(f.pre[b]) THEN Without(@[p], b) ELSE @[p]],
     !.pre  = [s \in DOMAIN @ |->
                 IF s \in Range(f.succ[b]) THEN Without(@[s], b) ELSE @[s]]]

-----------------------------------------------------------------------------
(* What a well-formed function is.                                         *)

\* The instruction list of b has a terminator only in last position.
OneTerminator(f, b) ==
  \A i \in 1 .. Len(f.code[b]) :
     IsTerminator(f.code[b][i]) => i = Len(f.code[b])

\* The successor list a block must have, read off its terminator.
TargetsOf(f, b) ==
  IF HasTerminator(f, b) THEN f.code[b][Len(f.code[b])].to ELSE <<>>

\* The edge lists agree with the terminators and with each other.
EdgesAgree(f) ==
  \A b \in f.blocks :
     /\ Range(f.succ[b]) = Range(TargetsOf(f, b))
     /\ Range(f.succ[b]) \subseteq f.blocks
     /\ Range(f.pre[b]) \subseteq f.blocks
     /\ \A c \in f.blocks : b \in Range(f.pre[c]) <=> c \in Range(f.succ[b])

=============================================================================
