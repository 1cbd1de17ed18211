----------------------------- MODULE Expressions -----------------------------
(***************************************************************************)
(* CminusfBuilder on declarations and expressions: the code a function     *)
(* body leaves behind, instruction by instruction, with its types.  As in  *)
(* Builder, the program is chosen while it is visited: the next child of   *)
(* a node is any child the source language allows there.  Loops and else   *)
(* branches are Builder's; here a body has declarations, blocks,           *)
(* expressions, returns and ifs.                                           *)
(***************************************************************************)
EXTENDS Scope, Types, Reachability, Functions

CONSTANTS MaxNodes,       \* bound: nodes of the syntax tree, but for variables
                          \*   assigned as a whole
          UserNames,      \* the names a program may declare
          DeclTypes,      \* the types of its variables
          Literals,       \* its constants
          Operators,      \* its operators
          Signatures,     \* types of the functions: the built-in ones, those
          FunctionNames,  \*   declared before, and last the one visited
          NegIdxExcept    \* which of them is neg_idx_except

ASSUME ExpressionsAssumption ==
  /\ MaxNodes \in Nat
  /\ UserNames \subseteq Names
  /\ DeclTypes \subseteq Scalars \cup Arrays
  /\ Literals \subseteq {v \in Value : v.kind = "const" /\ v.type \in Scalars}
  /\ Operators \subseteq Arithmetic \cup Comparisons
  /\ Signatures \in Seq([ret : Scalars \cup {"void"},
                         params : Seq(Scalars \cup {"i32*", "float*"})])
  /\ FunctionNames \in Seq(Names) /\ Len(FunctionNames) = Len(Signatures)
  /\ NegIdxExcept \in 1 .. Len(Signatures) - 1
  /\ Signatures[NegIdxExcept] = [ret |-> "void", params |-> <<>>]
  /\ FunctionNames[NegIdxExcept] \notin UserNames
  /\ \A k \in 1 .. NegIdxExcept - 1 : FunctionNames[k] # FunctionNames[NegIdxExcept]

VARIABLES
  fn,               \* the code of cur_fun by block, and the values made so far
  insert,           \* builder->get_insert_block()
  visits,           \* the active visit functions, outermost first
  tmp_val, require_lvalue, pre_enter_scope,   \* the globals of those names
  functions,        \* functions declared so far
  nodes             \* nodes visited so far

expressionsVars == <<inner, fn, insert, visits, tmp_val, require_lvalue,
                     pre_enter_scope, functions, nodes>>

CurrentFunction == Len(Signatures)
ReturnType      == Signatures[CurrentFunction].ret

-----------------------------------------------------------------------------
(* Emitting code.                                                          *)

NewBlocks(f, n) == [f EXCEPT !.code = @ \o [i \in 1 .. n |-> <<>>]]

Emit(f, b, op, type, args, to) ==
  [code |-> [f.code EXCEPT ![b] = Append(@, [op |-> op, type |-> type,
               args |-> args, to |-> to, id |-> f.made + 1])],
   made |-> f.made + 1]

\* An instruction and its value.
Create(f, b, op, args) ==
  LET type == ResultType(op, args)
  IN  [fn |-> Emit(f, b, op, type, args, <<>>), val |-> Result(type, f.made + 1)]

CreateAlloca(f, b, t) == Emit(f, b, "alloca", PointerTo(t), <<>>, <<>>)
CreateCall(f, b, g, args) ==
  Emit(f, b, "call", Signatures[g].ret, <<FunctionOf(g)>> \o args, <<>>)
CreateCondBr(f, b, cond, t, e) == Emit(f, b, "br", "void", <<cond>>, <<t, e>>)
CreateBr(f, b, t) == Emit(f, b, "br", "void", <<>>, <<t>>)
CreateRet(f, b, args) == Emit(f, b, "ret", "void", args, <<>>)

HasTerminator(f, b) ==
  f.code[b] # <<>> /\ f.code[b][Len(f.code[b])].op \in {"br", "ret"}

\* A value of scalar type as one of type t.
Converted(f, b, v, t) ==
  IF v.type = t THEN [fn |-> f, val |-> v]
  ELSE Create(f, b, IF v.type = "i32" THEN "sitofp" ELSE "fptosi", <<v>>)

\* promote: of an integer and a float, the integer is converted.
PromoteToInt(f, b, l, r) ==                                       \* mutant
  LET cl == Converted(f, b, l, "i32")
      cr == Converted(cl.fn, b, r, "i32")
  IN  [fn |-> cr.fn, l |-> cl.val, r |-> cr.val, is_int |-> TRUE]

Promote(f, b, l, r) ==
  IF l.type = r.type
  THEN [fn |-> f, l |-> l, r |-> r, is_int |-> l.type = "i32"]
  ELSE LET cl == Converted(f, b, l, "float")
           cr == Converted(cl.fn, b, r, "float")
       IN  [fn |-> cr.fn, l |-> cl.val, r |-> cr.val, is_int |-> FALSE]

\* A default return of the type of the function.
RetDefault(f, b) ==
  CreateRet(f, b, IF ReturnType = "void" THEN <<>> ELSE <<Constant(ReturnType, 0)>>)

-----------------------------------------------------------------------------
(* A visit function on the stack, with the locals it still needs.  `want'  *)
(* says what the language allows at an expression: a number, anything, or  *)
(* an array of a type.                                                     *)

Visits == {"function", "body", "declarations", "statements", "statement",
           "then", "condition", "return", "expression", "assign", "target",
           "store", "left", "right", "index", "call", "argument"}

Visit(v) == [visit |-> v, want |-> "number", op |-> "add", val |-> NoValue,
             flag |-> FALSE, fun |-> 0, args |-> <<>>, block |-> 0]
Expression(want) == [Visit("expression") EXCEPT !.want = want]

Top            == visits[Len(visits)]
InVisit(v)     == visits # <<>> /\ Top.visit = v
Leave          == SubSeq(visits, 1, Len(visits) - 1)
Become(frame)  == [visits EXCEPT ![Len(visits)] = frame]
Call(frame, child) == Append(Become(frame), child)

TakeNode == nodes < MaxNodes /\ nodes' = nodes + 1

ExpressionsInit ==
  /\ ScopeInit
  /\ fn = [code |-> <<>>, made |-> 0] /\ insert = 0
  /\ visits = <<>> /\ tmp_val = NoValue
  /\ require_lvalue = FALSE /\ pre_enter_scope = FALSE
  /\ functions = 0 /\ nodes = 0

\* The constructor and visit(ASTProgram) up to the function visited: the
\* global scope, the functions,
EnterGlobal ==
  /\ inner = <<>> /\ functions = 0
  /\ Enter
  /\ UNCHANGED <<fn, insert, visits, tmp_val, require_lvalue, pre_enter_scope,
                 functions, nodes>>

DeclareFunction ==
  /\ InGlobal /\ visits = <<>> /\ functions < CurrentFunction - 1
  /\ Push(FunctionNames[functions + 1], FunctionOf(functions + 1))
  /\ functions' = functions + 1
  /\ UNCHANGED <<fn, insert, visits, tmp_val, require_lvalue, pre_enter_scope,
                 nodes>>

\* visit(ASTVarDeclaration), among the globals or at the head of a block.
VarDeclaration ==
  /\ IF InGlobal THEN visits = <<>> /\ functions = CurrentFunction - 1
     ELSE InVisit("declarations")
  /\ TakeNode
  /\ \E n \in UserNames, t \in DeclTypes :
       IF InGlobal
       THEN /\ fn' = [fn EXCEPT !.made = @ + 1]
            /\ Push(n, GlobalOf(t, fn.made + 1))
       ELSE /\ fn' = CreateAlloca(fn, insert, t)
            /\ Push(n, Result(PointerTo(t), fn.made + 1))
  /\ UNCHANGED <<insert, visits, tmp_val, require_lvalue, pre_enter_scope,
                 functions>>

\* visit(ASTFunDeclaration): the function is known in its own body,
FunDeclaration ==
  /\ InGlobal /\ visits = <<>> /\ functions = CurrentFunction - 1
  /\ Push(FunctionNames[CurrentFunction], FunctionOf(CurrentFunction))
  /\ functions' = CurrentFunction
  /\ fn' = NewBlocks(fn, 1) /\ insert' = 1
  /\ visits' = <<Visit("function")>>
  /\ UNCHANGED <<tmp_val, require_lvalue, pre_enter_scope, nodes>>

EnterFunction ==
  /\ InVisit("function") /\ InGlobal
  /\ fn.code = <<<<>>>>
  /\ Enter
  /\ pre_enter_scope' = TRUE
  /\ visits' = Append(visits, Visit("body"))
  /\ UNCHANGED <<fn, insert, tmp_val, require_lvalue, functions, nodes>>

\* each parameter gets an address, which the argument is stored to,
Parameter ==
  LET i == Len(Top.args) + 1
      t == Signatures[CurrentFunction].params[i]
      f == CreateAlloca(fn, insert, t)
      address == Result(PointerTo(t), f.made)
  IN  /\ InVisit("body") /\ i <= Len(Signatures[CurrentFunction].params)
      /\ fn' = Create(f, insert, "store", <<Argument(t, i), address>>).fn
      /\ \E n \in UserNames : Push(n, address)
      /\ visits' = Become([Top EXCEPT !.args = Append(@, Argument(t, i))])
      /\ UNCHANGED <<insert, tmp_val, require_lvalue, pre_enter_scope,
                     functions, nodes>>

\* and a function that falls off its end returns a default.
EndFunDeclaration ==
  /\ InVisit("function") /\ ~InGlobal
  /\ fn' = IF HasTerminator(fn, insert) THEN fn ELSE RetDefault(fn, insert)
  /\ Exit
  /\ visits' = Leave
  /\ UNCHANGED <<insert, tmp_val, require_lvalue, pre_enter_scope, functions,
                 nodes>>

\* visit(ASTCompoundStmt).
EnterCompoundStmt ==
  /\ \/ /\ InVisit("body")
        /\ Len(Top.args) = Len(Signatures[CurrentFunction].params)
        /\ UNCHANGED nodes
     \/ InVisit("statement") /\ TakeNode
  /\ IF pre_enter_scope THEN UNCHANGED inner ELSE Enter
  /\ pre_enter_scope' = FALSE
  /\ visits' = Become([Visit("declarations") EXCEPT !.flag = ~pre_enter_scope])
  /\ UNCHANGED <<fn, insert, tmp_val, require_lvalue, functions>>

NextStatement ==
  /\ \/ InVisit("declarations")
     \/ InVisit("statements") /\ ~HasTerminator(fn, insert)
  /\ nodes < MaxNodes
  /\ visits' = Call([Top EXCEPT !.visit = "statements"], Visit("statement"))
  /\ UNCHANGED <<inner, fn, insert, tmp_val, require_lvalue, pre_enter_scope,
                 functions, nodes>>

LeaveCompoundStmt ==
  /\ InVisit("declarations") \/ InVisit("statements")
  /\ IF Top.flag THEN Exit ELSE UNCHANGED inner
  /\ visits' = Leave
  /\ UNCHANGED <<fn, insert, tmp_val, require_lvalue, pre_enter_scope,
                 functions, nodes>>

\* visit(ASTExpressionStmt).
ExpressionStmt ==
  /\ InVisit("statement")
  /\ visits' = IF nodes < MaxNodes THEN Become(Expression("any")) ELSE Leave
  /\ UNCHANGED <<inner, fn, insert, tmp_val, require_lvalue, pre_enter_scope,
                 functions, nodes>>

\* visit(ASTSelectionStmt) without an else: the condition is compared to zero.
SelectionStmt ==
  /\ InVisit("statement")
  /\ TakeNode
  /\ visits' = Call(Visit("condition"), Expression("number"))
  /\ UNCHANGED <<inner, fn, insert, tmp_val, require_lvalue, pre_enter_scope,
                 functions>>

BranchSelection ==
  LET trueBB == Len(fn.code) + 1
      contBB == Len(fn.code) + 2
      c == Create(NewBlocks(fn, 2), insert, IF tmp_val.type = "i32" THEN "ne" ELSE "fne",
                  <<tmp_val, Constant(tmp_val.type, 0)>>)
  IN  /\ InVisit("condition")
      /\ fn' = CreateCondBr(c.fn, insert, c.val, trueBB, contBB)
      /\ insert' = trueBB
      /\ visits' = Call([Visit("then") EXCEPT !.block = contBB], Visit("statement"))
      /\ UNCHANGED <<inner, tmp_val, require_lvalue, pre_enter_scope,
                     functions, nodes>>

EndThen ==
  /\ InVisit("then")
  /\ fn' = IF HasTerminator(fn, insert) THEN fn ELSE CreateBr(fn, insert, Top.block)
  /\ insert' = Top.block
  /\ visits' = Leave
  /\ UNCHANGED <<inner, tmp_val, require_lvalue, pre_enter_scope, functions,
                 nodes>>

\* visit(ASTReturnStmt): the value becomes one of the type of the function.
ReturnStmt ==
  /\ InVisit("statement")
  /\ TakeNode
  /\ IF ReturnType = "void"
     THEN fn' = CreateRet(fn, insert, <<>>) /\ visits' = Leave
     ELSE visits' = Call(Visit("return"), Expression("number")) /\ UNCHANGED fn
  /\ UNCHANGED <<inner, insert, tmp_val, require_lvalue, pre_enter_scope,
                 functions>>

EndReturnStmt ==
  LET c == Converted(fn, insert, tmp_val, ReturnType)
  IN  /\ InVisit("return")
      /\ fn' = CreateRet(c.fn, insert, <<c.val>>)
      /\ tmp_val' = c.val
      /\ visits' = Leave
      /\ UNCHANGED <<inner, insert, require_lvalue, pre_enter_scope,
                     functions, nodes>>

-----------------------------------------------------------------------------
(* Expressions.  Where a number is wanted, so is anything that yields one. *)

WantsNumber == InVisit("expression") /\ Top.want \in {"number", "any"}

\* visit(ASTNum).
Num ==
  /\ WantsNumber /\ TakeNode
  /\ tmp_val' \in Literals
  /\ visits' = Leave
  /\ UNCHANGED <<inner, fn, insert, require_lvalue, pre_enter_scope, functions>>

\* The variables that may stand where the visitor is, without an index.
IsVariable(n) == Find(n) # Unbound /\ Find(n).kind # "function"
Wanted(t) ==
  CASE t \in Scalars            -> WantsNumber \/ InVisit("target")
    [] t \in {"[i32]", "i32*"}  -> InVisit("expression") /\ Top.want = "i32*"
    [] OTHER                    -> InVisit("expression") /\ Top.want = "float*"

\* visit(ASTVar).  Whether it yields an address or a value is decided by a
\* global that the assignment has set, and that is reset before an index is
\* visited.
LvalueKept  == require_lvalue                                     \* mutant
LvalueTaken == FALSE

Address(n) ==
  /\ require_lvalue
  /\ tmp_val' = Find(n)
  /\ UNCHANGED fn

ValueOf(n) ==
  LET var == Find(n)
      c == IF Pointee(var.type) \in Arrays
           THEN Create(fn, insert, "gep", <<var, Constant("i32", 0), Constant("i32", 0)>>)
           ELSE Create(fn, insert, "load", <<var>>)
  IN  /\ ~require_lvalue
      /\ fn' = c.fn /\ tmp_val' = c.val

Var ==
  /\ IF InVisit("target") THEN UNCHANGED nodes ELSE TakeNode
  /\ \E n \in UserNames :
       /\ IsVariable(n) /\ Wanted(Pointee(Find(n).type))
       /\ Address(n) \/ ValueOf(n)
  /\ require_lvalue' = FALSE
  /\ visits' = Leave
  /\ UNCHANGED <<inner, insert, pre_enter_scope, functions>>

IndexedVar ==
  /\ WantsNumber \/ InVisit("target")
  /\ TakeNode
  /\ \E n \in UserNames :
       /\ IsVariable(n) /\ Pointee(Find(n).type) \notin Scalars
       /\ visits' = Call([Visit("index") EXCEPT !.val = Find(n),
                                                !.flag = require_lvalue],
                         Expression("number"))
  /\ require_lvalue' = LvalueTaken
  /\ UNCHANGED <<inner, fn, insert, tmp_val, pre_enter_scope, functions>>

\* The element: an array is entered through its first index, a parameter's
\* address holds a pointer to the elements.
ElementAddress(f, b, var, i) ==
  IF Pointee(var.type) \in Arrays
  THEN Create(f, b, "gep", <<var, Constant("i32", 0), i>>)
  ELSE LET array_load == Create(f, b, "load", <<var>>)
       IN  Create(array_load.fn, b, "gep", <<array_load.val, i>>)

\* Mutant: the conversion lands in the block behind the check.
IndexBehind(f, b, v) == Converted(f, Len(f.code), v, "i32")
AsIndex(f, b, v) == Converted(f, b, v, "i32")

EndIndex ==
  LET exceptBB == Len(fn.code) + 1
      contBB   == Len(fn.code) + 2
      i == AsIndex(NewBlocks(fn, 2), insert, tmp_val)
      is_neg == Create(i.fn, insert, "lt", <<i.val, Constant("i32", 0)>>)
      f1 == CreateCondBr(is_neg.fn, insert, is_neg.val, exceptBB, contBB)
      f2 == CreateCall(f1, exceptBB, Find(FunctionNames[NegIdxExcept]).id, <<>>)
      address == ElementAddress(RetDefault(f2, exceptBB), contBB, Top.val, i.val)
      element == Create(address.fn, contBB, "load", <<address.val>>)
  IN  /\ InVisit("index")
      /\ fn' = IF Top.flag THEN address.fn ELSE element.fn
      /\ tmp_val' = IF Top.flag THEN address.val ELSE element.val
      /\ insert' = contBB
      /\ visits' = Leave
      /\ UNCHANGED <<inner, require_lvalue, pre_enter_scope, functions, nodes>>

\* visit(ASTAssignExpression): the value, then the address, then the store.
AssignExpression ==
  /\ WantsNumber /\ TakeNode
  /\ visits' = Call(Visit("assign"), Expression("number"))
  /\ UNCHANGED <<inner, fn, insert, tmp_val, require_lvalue, pre_enter_scope,
                 functions>>

AssignTarget ==
  /\ InVisit("assign")
  /\ require_lvalue' = TRUE
  /\ visits' = Call([Visit("store") EXCEPT !.val = tmp_val], Visit("target"))
  /\ UNCHANGED <<inner, fn, insert, tmp_val, pre_enter_scope, functions, nodes>>

EndAssign ==
  LET c == Converted(fn, insert, Top.val, Pointee(tmp_val.type))
  IN  /\ InVisit("store")
      /\ fn' = Create(c.fn, insert, "store", <<c.val, tmp_val>>).fn
      /\ tmp_val' = c.val
      /\ visits' = Leave
      /\ UNCHANGED <<inner, insert, require_lvalue, pre_enter_scope,
                     functions, nodes>>

\* visit(ASTSimpleExpression), visit(ASTAdditiveExpression), visit(ASTTerm).
BinaryExpression ==
  /\ WantsNumber /\ TakeNode
  /\ \E op \in Operators :
       visits' = Call([Visit("left") EXCEPT !.op = op], Expression("number"))
  /\ UNCHANGED <<inner, fn, insert, tmp_val, require_lvalue, pre_enter_scope,
                 functions>>

RightOperand ==
  /\ InVisit("left")
  /\ visits' = Call([Top EXCEPT !.visit = "right", !.val = tmp_val],
                    Expression("number"))
  /\ UNCHANGED <<inner, fn, insert, tmp_val, require_lvalue, pre_enter_scope,
                 functions, nodes>>

EndBinary ==
  LET p == Promote(fn, insert, Top.val, tmp_val)
      c == Create(p.fn, insert, IF p.is_int THEN Top.op ELSE FloatOp[Top.op],
                  <<p.l, p.r>>)
      z == IF Top.op \in Comparisons THEN Create(c.fn, insert, "zext", <<c.val>>) ELSE c
  IN  /\ InVisit("right")
      /\ fn' = z.fn /\ tmp_val' = z.val
      /\ visits' = Leave
      /\ UNCHANGED <<inner, insert, require_lvalue, pre_enter_scope,
                     functions, nodes>>

\* visit(ASTCall): arguments are converted to the types of the parameters.
CallFunction ==
  /\ WantsNumber /\ TakeNode
  /\ \E n \in Names :
       /\ Find(n) # Unbound /\ Find(n).kind = "function"
       /\ Signatures[Find(n).id].ret = "void" => Top.want = "any"
       /\ visits' = Become([Visit("call") EXCEPT !.fun = Find(n).id])
  /\ UNCHANGED <<inner, fn, insert, tmp_val, require_lvalue, pre_enter_scope,
                 functions>>

ParamType == Signatures[Top.fun].params[Len(Top.args) + 1]

NextArgument ==
  /\ InVisit("call") /\ Len(Top.args) < Len(Signatures[Top.fun].params)
  /\ visits' = Call([Top EXCEPT !.visit = "argument"],
                    Expression(IF ParamType \in Scalars THEN "number" ELSE ParamType))
  /\ UNCHANGED <<inner, fn, insert, tmp_val, require_lvalue, pre_enter_scope,
                 functions, nodes>>

EndArgument ==
  LET c == Converted(fn, insert, tmp_val, ParamType)
  IN  /\ InVisit("argument")
      /\ fn' = c.fn /\ tmp_val' = c.val
      /\ visits' = Become([Top EXCEPT !.visit = "call", !.args = Append(@, c.val)])
      /\ UNCHANGED <<inner, insert, require_lvalue, pre_enter_scope,
                     functions, nodes>>

EndCall ==
  /\ InVisit("call") /\ Len(Top.args) = Len(Signatures[Top.fun].params)
  /\ fn' = CreateCall(fn, insert, Top.fun, Top.args)
  /\ tmp_val' = Result(Signatures[Top.fun].ret, fn.made + 1)
  /\ visits' = Leave
  /\ UNCHANGED <<inner, insert, require_lvalue, pre_enter_scope, functions,
                 nodes>>

ExpressionsStep ==
  \/ EnterGlobal \/ DeclareFunction \/ VarDeclaration
  \/ FunDeclaration \/ EnterFunction \/ Parameter \/ EndFunDeclaration
  \/ EnterCompoundStmt \/ NextStatement \/ LeaveCompoundStmt
  \/ ExpressionStmt \/ SelectionStmt \/ BranchSelection \/ EndThen
  \/ ReturnStmt \/ EndReturnStmt
  \/ Num \/ Var \/ IndexedVar \/ EndIndex
  \/ AssignExpression \/ AssignTarget \/ EndAssign
  \/ BinaryExpression \/ RightOperand \/ EndBinary
  \/ CallFunction \/ NextArgument \/ EndArgument \/ EndCall

\* The function is finished.
Visited == functions = CurrentFunction /\ visits = <<>>

ExpressionsSpec ==
  ExpressionsInit /\ [][ExpressionsStep]_expressionsVars

-----------------------------------------------------------------------------
(* Properties.                                                             *)

Instructions == UNION {Range(fn.code[b]) : b \in DOMAIN fn.code}

Types(args) == [k \in DOMAIN args |-> args[k].type]

\* What the language of LightIR, LLVM's, demands of the operands.
OperandsFit(i) ==
  LET t == Types(i.args)
  IN  CASE i.op \in Arithmetic \cup Comparisons   -> t = <<"i32", "i32">>
        [] i.op \in FArithmetic \cup FComparisons -> t = <<"float", "float">>
        [] i.op = "zext"                          -> t = <<"i1">>
        [] i.op = "sitofp"                        -> t = <<"i32">>
        [] i.op = "fptosi"                        -> t = <<"float">>
        [] i.op = "alloca"                        -> t = <<>>
        [] i.op = "load"                          -> PointerTo(i.type) = t[1]
        [] i.op = "store"                         -> t[2] = PointerTo(t[1])
        [] i.op = "gep"  -> \/ t = <<PointerTo("[i32]"), "i32", "i32">> /\ i.type = "i32*"
                            \/ t = <<PointerTo("[float]"), "i32", "i32">> /\ i.type = "float*"
                            \/ t \in {<<"i32*", "i32">>, <<"float*", "i32">>} /\ i.type = t[1]
        [] i.op = "call" -> Tail(t) = Signatures[i.args[1].id].params
        [] i.op = "br"   -> t = IF Len(i.to) = 2 THEN <<"i1">> ELSE <<>>
        [] i.op = "ret"  -> t = IF ReturnType = "void" THEN <<>> ELSE <<ReturnType>>

(* Whatever the program mixes, in an operator, an assignment, an argument, *)
(* a subscript, a condition or a return: every operand has the type its    *)
(* instruction requires.  The visit functions agree on it only through     *)
(* tmp_val, which carries now a value and now an address, as               *)
(* require_lvalue said when the variable was begun.                        *)
WellTyped == \A i \in Instructions : OperandsFit(i)

(* A float becomes an integer only where cminusf.md says so: for an         *)
(* assignment, an argument, a subscript or a return.  An operator makes    *)
(* its integer operand a float instead.                                    *)
TruncatedWhereStated ==
  Visited =>
    \A i \in Instructions :
      i.op = "fptosi" =>
        \E u \in Instructions :
          /\ u.op \in {"store", "call", "gep", "ret"}
          /\ Result(i.type, i.id) \in Range(u.args)

(* A value is computed before it is used on every path: an operand that an *)
(* instruction made stands before its user, or in a block that each path   *)
(* to the user passes, although every subscript splits the block in the    *)
(* middle of an expression.                                                *)
Targets(b) == UNION {Range(i.to) : i \in Range(fn.code[b])}
ReachedWithout(d) ==
  ReachedFrom([b \in DOMAIN fn.code |-> Targets(b) \ {d}], {1} \ {d})
MadeIn(b) == {i.id : i \in Range(fn.code[b])}

DefinitionsDominate ==
  Visited =>
    \A b \in DOMAIN fn.code : \A k \in DOMAIN fn.code[b] :
      \A v \in Range(fn.code[b][k].args) :
        v.kind = "instr" =>
          \/ \E j \in 1 .. k - 1 : fn.code[b][j].id = v.id
          \/ \E d \in DOMAIN fn.code \ {b} :
               v.id \in MadeIn(d) /\ b \notin ReachedWithout(d)

=============================================================================
