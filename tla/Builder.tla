------------------------------- MODULE Builder -------------------------------
(***************************************************************************)
(* CminusfBuilder: how the visitor turns the statements of one function    *)
(* into basic blocks.                                                      *)
(*                                                                         *)
(* The program being compiled is not fixed: wherever the visitor asks for  *)
(* the next child of the syntax tree, any child is possible, so a          *)
(* behaviour visits one of all the functions of at most MaxNodes nodes.    *)
(* The C++ call stack of visit functions is `stack'; `builder->BB_' is     *)
(* `insert'; the code a straight-line piece of an expression emits is one  *)
(* of the instruction sequences in Segments, and the allocas and stores    *)
(* of the parameters are one of those in Prologues.                        *)
(***************************************************************************)
EXTENDS CfgTheory, FiniteSets

CONSTANTS MaxNodes,   \* bound: nodes of the syntax tree after the function node
          Segments,   \* straight-line code an expression may emit
          Prologues,  \* straight-line code of the parameters
          Forms       \* the node forms the programs use

ASSUME BuilderAssumption ==
  /\ MaxNodes \in Nat
  /\ Segments \subseteq Seq({i \in Instr : ~IsTerminator(i)})
  /\ Prologues \subseteq Seq({i \in Instr : ~IsTerminator(i)})

VARIABLES
  fn,               \* cur_fun
  insert,           \* builder->get_insert_block()
  stack,            \* the active visit functions, outermost first
  depth,            \* scope.inner.size()
  pre_enter_scope,  \* the global flag of the same name
  nodes             \* nodes visited so far

builderVars == <<fn, insert, stack, depth, pre_enter_scope, nodes>>

(***************************************************************************)
(* A visit function on the stack: where it is, and the locals it still     *)
(* needs.  `flag' is need_exit_scope in a compound statement and           *)
(* "has an else" in a selection; `other' is falseBB of a selection and     *)
(* exprBB of an iteration; `cont' is contBB.                               *)
(***************************************************************************)
Visits == {"function", "body", "declarations", "statements", "statement",
           "expression", "selection", "then", "else", "iteration", "while",
           "return"}

Frame == [visit : Visits, flag : BOOLEAN, other : Nat, cont : Nat]

Visit(v) == [visit |-> v, flag |-> FALSE, other |-> 0, cont |-> 0]

Top     == stack[Len(stack)]
InVisit(v) == stack # <<>> /\ Top.visit = v
Leave   == SubSeq(stack, 1, Len(stack) - 1)
Become(frame) == [stack EXCEPT ![Len(stack)] = frame]

\* One more node of the syntax tree.
TakeNode(form) ==
  /\ form \in Forms
  /\ nodes < MaxNodes
  /\ nodes' = nodes + 1

Unfinished(f, b) == ~HasTerminator(f, b)

\* Most visit functions jump on only if the block is still open.
AlwaysBr(f, b, t) == CreateBr(f, b, t)                            \* mutant
BrIfOpen(f, b, t) == IF Unfinished(f, b) THEN CreateBr(f, b, t) ELSE f

NoDefaultRet(f, b) == f                                           \* mutant
DefaultRet(f, b) == IF Unfinished(f, b) THEN CreateRet(f, b) ELSE f

\* A statement list is left behind the first statement that closes the block.
AlwaysMoreStatements == TRUE                                      \* mutant
MoreStatements == Unfinished(fn, insert)

\* A compound statement leaves the scope it opened.
AlwaysExitScope(d) == d - 1                                       \* mutant
ExitScope(d) == IF Top.flag THEN d - 1 ELSE d

\* A selection without else gives up falseBB.
DropContBB(f) == EraseBlock(f, Top.cont)                          \* mutant
DropFalseBB(f) == EraseBlock(f, Top.other)

\* The body of an iteration jumps back to exprBB.
LatestBlock == fn.made                                            \* mutant
LoopHead == Top.other

-----------------------------------------------------------------------------
BuilderInit ==
  /\ fn = NoFunction
  /\ insert = 0
  /\ stack = <<>>
  /\ depth = 1               \* ASTProgram is in the global scope
  /\ pre_enter_scope = FALSE
  /\ nodes = 0

\* visit(ASTFunDeclaration), up to the visit of its compound statement.
FunDeclaration ==
  /\ fn = NoFunction
  /\ \E prologue \in Prologues :
       fn' = AddInstrs(CreateBlock(NoFunction), Entry, prologue)
  /\ insert' = Entry
  /\ depth' = depth + 1
  /\ pre_enter_scope' = TRUE
  /\ stack' = <<Visit("function"), Visit("body")>>
  /\ UNCHANGED nodes

\* ... and after it: a default return if the code falls off the end.
EndFunDeclaration ==
  /\ InVisit("function")
  /\ fn' = DefaultRet(fn, insert)
  /\ depth' = depth - 1
  /\ stack' = Leave
  /\ UNCHANGED <<insert, pre_enter_scope, nodes>>

\* visit(ASTCompoundStmt): the outermost compound statement of a function
\* shares the scope that holds the parameters.
EnterCompoundStmt ==
  /\ IF InVisit("body") THEN UNCHANGED nodes
     ELSE InVisit("statement") /\ TakeNode("compound")
  /\ depth' = IF pre_enter_scope THEN depth ELSE depth + 1
  /\ pre_enter_scope' = FALSE
  /\ stack' = Become([Visit("declarations") EXCEPT !.flag = ~pre_enter_scope])
  /\ UNCHANGED <<fn, insert>>

LocalDeclaration ==
  /\ InVisit("declarations")
  /\ TakeNode("declaration")
  /\ fn' = AddInstr(fn, insert, Plain("alloca"))
  /\ UNCHANGED <<insert, stack, depth, pre_enter_scope>>

\* The first statement is visited unconditionally, a later one only if the
\* statement before it left the insert block without a terminator.
NextStatement ==
  /\ \/ InVisit("declarations")
     \/ InVisit("statements") /\ MoreStatements
  /\ nodes < MaxNodes
  /\ stack' = Append(Become([Top EXCEPT !.visit = "statements"]),
                     Visit("statement"))
  /\ UNCHANGED <<fn, insert, depth, pre_enter_scope, nodes>>

LeaveCompoundStmt ==
  /\ InVisit("declarations") \/ InVisit("statements")
  /\ depth' = ExitScope(depth)
  /\ stack' = Leave
  /\ UNCHANGED <<fn, insert, pre_enter_scope, nodes>>

\* visit(ASTExpressionStmt): the expression may be missing.  The empty
\* statement is available even at the bound, so every program can be completed.
ExpressionStmt ==
  /\ InVisit("statement")
  /\ \/ /\ nodes' = IF nodes < MaxNodes THEN nodes + 1 ELSE nodes
        /\ stack' = Leave
     \/ /\ TakeNode("expression")
        /\ stack' = Become(Visit("expression"))
  /\ UNCHANGED <<fn, insert, depth, pre_enter_scope>>

\* Evaluating an expression: straight-line code ...
EmitSegment ==
  /\ InVisit("expression")
  /\ TakeNode("segment")
  /\ \E segment \in Segments : fn' = AddInstrs(fn, insert, segment)
  /\ UNCHANGED <<insert, stack, depth, pre_enter_scope>>

\* ... and visit(ASTVar) of an indexed variable: a negative index leaves the
\* function through exceptBB, and evaluation goes on in contBB.
IndexedVar ==
  LET except == fn.made + 1
      cont   == fn.made + 2
      f1 == AddInstr(CreateBlock(CreateBlock(fn)), insert, Plain("icmp"))
      f2 == CreateCondBr(f1, insert, except, cont)
      f3 == CreateRet(AddInstr(f2, except, Plain("call")), except)
  IN  /\ InVisit("expression")
      /\ TakeNode("index")
      /\ fn' = AddInstr(f3, cont, Plain("gep"))
      /\ insert' = cont
      /\ UNCHANGED <<stack, depth, pre_enter_scope>>

EndExpression ==
  /\ InVisit("expression")
  /\ stack' = Leave
  /\ UNCHANGED <<fn, insert, depth, pre_enter_scope, nodes>>

\* visit(ASTSelectionStmt): the condition first,
SelectionStmt ==
  /\ InVisit("statement")
  /\ TakeNode("selection")
  /\ \E hasElse \in BOOLEAN :
       stack' = Append(Become([Visit("selection") EXCEPT !.flag = hasElse]),
                       Visit("expression"))
  /\ UNCHANGED <<fn, insert, depth, pre_enter_scope>>

\* then the three blocks and the branch,
BranchSelection ==
  LET trueBB  == fn.made + 1
      falseBB == fn.made + 2
      contBB  == fn.made + 3
      f1 == CreateBlock(CreateBlock(CreateBlock(fn)))
      f2 == AddInstr(f1, insert, Plain("icmp"))
  IN  /\ InVisit("selection")
      /\ fn' = CreateCondBr(f2, insert, trueBB,
                            IF Top.flag THEN falseBB ELSE contBB)
      /\ insert' = trueBB
      /\ stack' = Append(Become([Top EXCEPT !.visit = "then",
                                            !.other = falseBB,
                                            !.cont = contBB]),
                         Visit("statement"))
      /\ UNCHANGED <<depth, pre_enter_scope, nodes>>

\* then the if branch: without an else, falseBB was never needed,
EndThen ==
  LET f1 == BrIfOpen(fn, insert, Top.cont)
  IN  /\ InVisit("then")
      /\ IF Top.flag
         THEN /\ fn' = f1
              /\ insert' = Top.other
              /\ stack' = Append(Become([Top EXCEPT !.visit = "else"]),
                                 Visit("statement"))
         ELSE /\ fn' = DropFalseBB(f1)
              /\ insert' = Top.cont
              /\ stack' = Leave
      /\ UNCHANGED <<depth, pre_enter_scope, nodes>>

\* and the else branch.
EndElse ==
  /\ InVisit("else")
  /\ fn' = BrIfOpen(fn, insert, Top.cont)
  /\ insert' = Top.cont
  /\ stack' = Leave
  /\ UNCHANGED <<depth, pre_enter_scope, nodes>>

\* visit(ASTIterationStmt): the condition gets a block of its own,
IterationStmt ==
  LET exprBB == fn.made + 1
      f1 == CreateBlock(fn)
  IN  /\ InVisit("statement")
      /\ TakeNode("iteration")
      /\ fn' = BrIfOpen(f1, insert, exprBB)
      /\ insert' = exprBB
      /\ stack' = Append(Become([Visit("iteration") EXCEPT !.other = exprBB]),
                         Visit("expression"))
      /\ UNCHANGED <<depth, pre_enter_scope>>

BranchIteration ==
  LET trueBB == fn.made + 1
      contBB == fn.made + 2
      f1 == AddInstr(CreateBlock(CreateBlock(fn)), insert, Plain("icmp"))
  IN  /\ InVisit("iteration")
      /\ fn' = CreateCondBr(f1, insert, trueBB, contBB)
      /\ insert' = trueBB
      /\ stack' = Append(Become([Top EXCEPT !.visit = "while", !.cont = contBB]),
                         Visit("statement"))
      /\ UNCHANGED <<depth, pre_enter_scope, nodes>>

\* and the body jumps back to it.
EndWhile ==
  /\ InVisit("while")
  /\ fn' = BrIfOpen(fn, insert, LoopHead)
  /\ insert' = Top.cont
  /\ stack' = Leave
  /\ UNCHANGED <<depth, pre_enter_scope, nodes>>

\* visit(ASTReturnStmt), without and with a value.
ReturnStmt ==
  /\ InVisit("statement")
  /\ TakeNode("return")
  /\ \/ /\ fn' = CreateRet(fn, insert)
        /\ stack' = Leave
     \/ /\ stack' = Append(Become(Visit("return")), Visit("expression"))
        /\ UNCHANGED fn
  /\ UNCHANGED <<insert, depth, pre_enter_scope>>

EndReturnStmt ==
  /\ InVisit("return")
  /\ fn' = CreateRet(fn, insert)
  /\ stack' = Leave
  /\ UNCHANGED <<insert, depth, pre_enter_scope, nodes>>

BuilderStep ==
  \/ FunDeclaration \/ EndFunDeclaration
  \/ EnterCompoundStmt \/ LocalDeclaration \/ NextStatement
  \/ LeaveCompoundStmt
  \/ ExpressionStmt \/ EmitSegment \/ IndexedVar \/ EndExpression
  \/ SelectionStmt \/ BranchSelection \/ EndThen \/ EndElse
  \/ IterationStmt \/ BranchIteration \/ EndWhile
  \/ ReturnStmt \/ EndReturnStmt

Built == fn # NoFunction /\ stack = <<>>

\* The visitor has returned: nothing more happens.
Finished == Built /\ UNCHANGED builderVars

BuilderNext == BuilderStep \/ Finished

BuilderSpec == BuilderInit /\ [][BuilderNext]_builderVars

-----------------------------------------------------------------------------
(* Type correctness: the lists kept per block cover exactly the blocks     *)
(* made so far, and the insert point is one of them once there is any.     *)
TypeOK ==
  /\ fn.made \in Nat
  /\ fn.blocks \subseteq 1 .. fn.made
  /\ fn.code \in Seq(Seq(Instr)) /\ Len(fn.code) = fn.made
  /\ fn.pre \in Seq(Seq(1 .. fn.made)) /\ Len(fn.pre) = fn.made
  /\ fn.succ \in Seq(Seq(1 .. fn.made)) /\ Len(fn.succ) = fn.made
  /\ insert \in fn.blocks \/ fn = NoFunction
  /\ stack \in Seq(Frame)
  /\ depth \in Nat /\ nodes \in Nat /\ pre_enter_scope \in BOOLEAN

(* Whenever the visitor starts on a statement or is inside an expression,  *)
(* the block it appends to is still open.  The code relies on this in      *)
(* every visit function that emits without looking at get_terminator       *)
(* (declarations, expressions, selection, return), although the block may  *)
(* have been closed by a statement visited much earlier.                   *)
OpenInsertBlock ==
  stack # <<>> /\ Top.visit \in {"body", "declarations", "statement",
                                 "expression", "selection", "iteration",
                                 "return"}
    => Unfinished(fn, insert)

(* No block of the function has a terminator anywhere but at its end: the  *)
(* two-terminator blocks of lab 4 are impossible.                          *)
WellTerminated == \A b \in fn.blocks : OneTerminator(fn, b)

(* The predecessor and successor lists, kept apart from the terminators    *)
(* by BranchInst, agree with them and with each other after every step.    *)
EdgesConsistent == EdgesAgree(fn)

\* The blocks a visit function still has to fill: falseBB and contBB.
PendingOf(frame) ==
  CASE frame.visit = "then"               -> {frame.other, frame.cont}
    [] frame.visit \in {"else", "while"}  -> {frame.cont}
    [] OTHER                              -> {}

PendingIn(frames) == UNION {PendingOf(frames[i]) : i \in DOMAIN frames}

(* When the function is finished every block ends in a terminator, and     *)
(* before that the only open blocks are the insert block and those an      *)
(* active visit function still has to fill: no block is forgotten.         *)
NoBlockForgotten ==
  \A b \in fn.blocks :
     HasTerminator(fn, b) \/ b \in PendingIn(stack) \/ (b = insert /\ ~Built)

(* A closed block is never touched again: neither its code nor its         *)
(* successors change, whatever the visitor emits later.                    *)
ClosedBlocksStayClosed ==
  [][\A b \in fn.blocks :
        HasTerminator(fn, b) => /\ b \in fn'.blocks
                                /\ fn'.code[b] = fn.code[b]
                                /\ fn'.succ[b] = fn.succ[b]]_builderVars

\* The compound statements among the visits that opened a scope.
OpensScope(frame) == frame.visit \in {"declarations", "statements"} /\ frame.flag

Scopes(frames) == Cardinality({i \in DOMAIN frames : OpensScope(frames[i])})

(* Every scope opened is closed by the visit that opened it: the depth is  *)
(* the global scope, the function's, and one per compound statement that   *)
(* opened its own, also when a return cuts a statement list short.         *)
ScopesBalanced ==
  depth = 1 + (IF stack = <<>> THEN 0 ELSE 1) + Scopes(stack)

(* Every control-flow graph the visitor builds is reducible: a loop can    *)
(* only be entered through the block that holds its condition, which is    *)
(* what LoopSearch takes for granted when it looks for "the" base block.   *)
StructuredLoops == Built => Reducible(fn)

=============================================================================
