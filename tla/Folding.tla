------------------------------- MODULE Folding -------------------------------
(***************************************************************************)
(* What ConstPropagation does to the values of a function, whose blocks it *)
(* takes one after the other: constants are folded into their users, and a *)
(* load is replaced by what the block last stored there.  The functions    *)
(* are those Expressions makes without locals, parameters and arrays, so   *)
(* that Mem2Reg leaves them alone.  The erasure of blocks that follows is  *)
(* in module ConstPropagation.                                             *)
(*                                                                         *)
(* A float is counted in halves.  That makes exact what the model computes *)
(* and rounds the rest, on both sides alike.                               *)
(***************************************************************************)
EXTENDS Expressions

CONSTANTS Width,     \* of an i32
          Starts     \* what the globals may hold when the function is called

ASSUME FoldingAssumption ==
  /\ Width \in Nat \ {0} /\ Starts \subseteq Int
  /\ DeclTypes \subseteq Scalars

VARIABLES
  pass,          \* "idle", "fold", "trapped" or "done"
  given,         \* the code before the pass
  at, pos,       \* the block and the instruction the pass has come to
  global_value, wait_delete

foldVars == <<pass, given, at, pos, global_value, wait_delete>>
foldingVars == <<expressionsVars, foldVars>>

FoldingInit ==
  /\ ExpressionsInit
  /\ pass = "idle" /\ given = <<>> /\ at = 0 /\ pos = 0
  /\ global_value = <<>> /\ wait_delete = {}

-----------------------------------------------------------------------------
(* Arithmetic of the machine: integers wrap, quotients go towards zero.    *)

Wrapped(n) == ((n + 2 ^ (Width - 1)) % 2 ^ Width) - 2 ^ (Width - 1)
Abs(n) == IF n < 0 THEN -n ELSE n
Quotient(a, b) ==
  IF b = 0 THEN 0
  ELSE IF (a < 0) = (b < 0) THEN Abs(a) \div Abs(b) ELSE -(Abs(a) \div Abs(b))

\* The divisions the processor does not do.
Traps(op, a, b) ==
  op = "sdiv" /\ (b = 0 \/ (b = -1 /\ a = -(2 ^ (Width - 1))))

Truth(p) == IF p THEN 1 ELSE 0
Compared(op, a, b) ==
  Truth(CASE op = "lt" -> a < b  [] op = "le" -> a <= b
          [] op = "gt" -> a > b  [] op = "ge" -> a >= b
          [] op = "eq" -> a = b  [] op = "ne" -> a # b)

IntResult(op, a, b) ==
  Wrapped(CASE op = "add" -> a + b [] op = "sub"  -> a - b
            [] op = "mul" -> a * b [] op = "sdiv" -> Quotient(a, b))

FloatResult(op, a, b) ==
  CASE op = "add" -> a + b                 [] op = "sub"  -> a - b
    [] op = "mul" -> Quotient(a * b, 2)    [] op = "sdiv" -> Quotient(2 * a, b)

IntOp(fop) == CHOOSE op \in Arithmetic \cup Comparisons : FloatOp[op] = fop

-----------------------------------------------------------------------------
(* The folder.                                                             *)

\* The four overloads of ConstFolder::compute.  The last one returns a float
\* constant too.
FlooredQuotient(op, a, b) ==                                      \* mutant
  IF op = "sdiv" THEN Constant("i32", a \div b)
  ELSE IF op \in Arithmetic THEN Constant("i32", IntResult(op, a, b))
  ELSE Constant("i1", Compared(op, a, b))

ComputeInt(op, a, b) ==
  IF op \in Arithmetic THEN Constant("i32", IntResult(op, a, b))
  ELSE Constant("i1", Compared(op, a, b))

ComputeFloat(op, a, b) ==
  Constant("float", IF op \in Arithmetic THEN FloatResult(op, a, b)
                    ELSE 2 * Compared(op, a, b))

\* cast_constantint and cast_constantfp.
IsConstInt(v) == v.kind = "const" /\ v.type # "float"
IsConstFP(v)  == v.kind = "const" /\ v.type = "float"

\* (int) of a float constant.
StaysFloat(v) == v                                                \* mutant
Truncated(v)  == Constant("i32", Wrapped(Quotient(v.id, 2)))

\* What replaces an instruction, NoValue for nothing.
Replacement(i) ==
  LET a == i.args
      ints   == \A k \in DOMAIN a : IsConstInt(a[k])
      floats == \A k \in DOMAIN a : IsConstFP(a[k])
  IN  CASE i.op \in Arithmetic \cup Comparisons /\ ints ->
             ComputeInt(i.op, a[1].id, a[2].id)
        [] i.op \in FArithmetic \cup FComparisons /\ floats ->
             ComputeFloat(IntOp(i.op), a[1].id, a[2].id)
        [] i.op = "fptosi" /\ floats -> Truncated(a[1])
        [] i.op = "sitofp" /\ ints   -> Constant("float", 2 * a[1].id)
        [] i.op = "zext" /\ ints     -> Constant("i32", a[1].id)
        [] i.op = "load" /\ a[1] \in DOMAIN global_value -> global_value[a[1]]
        [] OTHER -> NoValue

\* replace_all_use_with, in every block.
Replaced(code, i, v) ==
  [b \in DOMAIN code |-> [k \in DOMAIN code[b] |->
     [code[b][k] EXCEPT !.args =
        [n \in DOMAIN @ |-> IF @[n] = Result(i.type, i.id) THEN v ELSE @[n]]]]]

StartFolding ==
  /\ pass = "idle" /\ Visited
  /\ \A i \in Instructions : i.op \notin {"alloca", "gep"}
  /\ pass' = "fold" /\ given' = fn.code
  /\ at' = 1 /\ pos' = 1
  /\ UNCHANGED <<expressionsVars, global_value, wait_delete>>

Current == fn.code[at][pos]
InBlock == pass = "fold" /\ at <= Len(fn.code) /\ pos <= Len(fn.code[at])
NextInstr == pos' = pos + 1 /\ UNCHANGED <<given, at>>
FolderVars == <<inner, insert, visits, tmp_val, require_lvalue,
                pre_enter_scope, functions, nodes>>

\* The compiler divides as the program would.
DivisionTraps ==
  /\ Current.op = "sdiv"
  /\ IsConstInt(Current.args[1]) /\ IsConstInt(Current.args[2])
  /\ Traps("sdiv", Current.args[1].id, Current.args[2].id)

TrapFolding ==
  /\ InBlock /\ DivisionTraps
  /\ pass' = "trapped"
  /\ UNCHANGED <<expressionsVars, given, at, pos, global_value, wait_delete>>

FoldInstr ==
  LET v == Replacement(Current)
  IN  /\ InBlock
      /\ Current.op \notin {"store", "call", "br", "ret"}
      /\ ~DivisionTraps
      /\ IF v = NoValue THEN UNCHANGED <<fn, wait_delete>>
         ELSE /\ fn' = [fn EXCEPT !.code = Replaced(@, Current, v)]
              /\ wait_delete' = wait_delete \cup {Current.id}
      /\ NextInstr
      /\ UNCHANGED <<FolderVars, pass, global_value>>

Remembered(address, v) ==
  [a \in DOMAIN global_value \cup {address} |->
     IF a = address THEN v ELSE global_value[a]]

FoldStore ==
  /\ InBlock /\ Current.op = "store"
  /\ global_value' = Remembered(Current.args[2], Current.args[1])
  /\ NextInstr
  /\ UNCHANGED <<FolderVars, fn, pass, wait_delete>>

\* Any other instruction makes the pass look at the end of the block: behind a
\* conditional br on an integer constant comes the new br, which the loop meets
\* later, and the instruction at hand is the one that is deleted.
FoldBranch ==
  LET br == fn.code[at][Len(fn.code[at])]
  IN  /\ InBlock /\ Current.op \in {"call", "br", "ret"}
      /\ IF Len(br.to) = 2 /\ IsConstInt(br.args[1])
         THEN /\ fn' = CreateBr(fn, at, br.to[IF br.args[1].id = 0 THEN 2 ELSE 1])
              /\ wait_delete' = wait_delete \cup {Current.id}
         ELSE UNCHANGED <<fn, wait_delete>>
      /\ NextInstr
      /\ UNCHANGED <<FolderVars, pass, global_value>>

\* delete_instr, for each of them: the others keep their order.
Without(code, ids) ==
  LET left == {k \in DOMAIN code : code[k].id \notin ids}
      nth(n) == CHOOSE k \in left : Cardinality({j \in left : j <= k}) = n
  IN  [n \in 1 .. Cardinality(left) |-> code[nth(n)]]

\* The end of a block: what was replaced is deleted, the stores are forgotten.
EndBlock ==
  /\ pass = "fold" /\ at <= Len(fn.code) /\ pos > Len(fn.code[at])
  /\ fn' = [fn EXCEPT !.code[at] = Without(@, wait_delete)]
  /\ wait_delete' = {} /\ global_value' = <<>>
  /\ at' = at + 1 /\ pos' = 1
  /\ UNCHANGED <<FolderVars, pass, given>>

EndFolding ==
  /\ pass = "fold" /\ at > Len(fn.code)
  /\ pass' = "done"
  /\ at' = 0 /\ pos' = 0
  /\ UNCHANGED <<expressionsVars, given, global_value, wait_delete>>

FoldingStep ==
  \/ StartFolding \/ TrapFolding \/ FoldInstr \/ FoldStore \/ FoldBranch
  \/ EndBlock \/ EndFolding

Visiting == ExpressionsStep /\ UNCHANGED foldVars

FoldingSpec == FoldingInit /\ [][Visiting \/ FoldingStep]_foldingVars

-----------------------------------------------------------------------------
(* What a function does when it runs: the calls it makes with their        *)
(* arguments, and the globals and the result it ends with.  Its graph has  *)
(* no cycle, so each instruction is executed at most once.                 *)

Holds(m, v) ==
  CASE v.kind = "const" -> v.id
    [] v.kind = "instr" -> m.reg[v.id]

Entered(m, b) == [m EXCEPT !.block = b, !.pos = 1]
Assigned(m, i, n) == [m EXCEPT !.reg[i.id] = n, !.pos = @ + 1]

Execute(m, i, zeroes) ==
  LET a == [k \in DOMAIN i.args |->
              IF i.args[k].kind \in {"const", "instr"} THEN Holds(m, i.args[k]) ELSE 0]
  IN  CASE i.op \in Arithmetic ->
             IF Traps(i.op, a[1], a[2]) THEN [m EXCEPT !.status = "undefined"]
             ELSE Assigned(m, i, IntResult(i.op, a[1], a[2]))
        [] i.op \in FArithmetic  -> Assigned(m, i, FloatResult(IntOp(i.op), a[1], a[2]))
        [] i.op \in Comparisons  -> Assigned(m, i, Compared(i.op, a[1], a[2]))
        [] i.op \in FComparisons -> Assigned(m, i, Compared(IntOp(i.op), a[1], a[2]))
        [] i.op = "zext"   -> Assigned(m, i, a[1])
        [] i.op = "sitofp" -> Assigned(m, i, 2 * a[1])
        [] i.op = "fptosi" -> Assigned(m, i, Wrapped(Quotient(a[1], 2)))
        [] i.op = "load"   -> Assigned(m, i, m.mem[i.args[1].id])
        [] i.op = "store"  ->
             [m EXCEPT !.mem[i.args[2].id] = a[1], !.pos = @ + 1]
        [] i.op = "call"   ->
             [Assigned(m, i, 0) EXCEPT !.mem = [g \in DOMAIN @ |-> IF zeroes THEN 0 ELSE @[g]],
                                       !.calls = Append(@, <<i.args[1].id, Tail(a)>>)]
        [] i.op = "br"     -> Entered(m, i.to[IF Len(i.to) = 2 /\ a[1] = 0 THEN 2 ELSE 1])
        [] i.op = "ret"    -> [m EXCEPT !.status = "returned", !.result = a]

\* A called function leaves the globals alone or zeroes them.
Outcome(code, start, zeroes) ==
  LET m0 == [block |-> 1, pos |-> 1, reg |-> [n \in 1 .. fn.made |-> 0],
             mem |-> [n \in 1 .. fn.made |-> start], calls |-> <<>>,
             result |-> <<>>, status |-> "running"]
      run[n \in 0 .. fn.made] ==
        IF n = 0 THEN m0
        ELSE LET m == run[n - 1]
             IN  IF m.status # "running" THEN m
                 ELSE Execute(m, code[m.block][m.pos], zeroes)
      end == run[fn.made]
  IN  [mem |-> end.mem, calls |-> end.calls, result |-> end.result,
       status |-> end.status]

\* A block that stores to a global, calls a function and loads the global.
StoreCallLoad ==
  \E b \in DOMAIN given : \E i, j, k \in DOMAIN given[b] :
    /\ i < j /\ j < k
    /\ given[b][i].op = "store" /\ given[b][j].op = "call" /\ given[b][k].op = "load"
    /\ given[b][k].args[1] = given[b][i].args[2]

(* The folded function does what the function did, at the width of the     *)
(* integers, whatever the globals hold: unless it had undefined behaviour, *)
(* or a called function changes a global between a store and a load of it  *)
(* in one block, which the pass does not look for, or a folded comparison  *)
(* of floats has left it ill-typed.                                        *)
FoldingPreserves ==
  pass = "done" /\ WellTyped =>
    \A start \in Starts, zeroes \in BOOLEAN :
      LET before == Outcome(given, start, zeroes)
      IN  \/ before.status = "undefined"
          \/ zeroes /\ StoreCallLoad
          \/ Outcome(fn.code, start, zeroes) = before

\* A comparison of float constants was folded.
FloatComparisonFolded ==
  \E b \in DOMAIN given : \E i \in Range(given[b]) :
    i.op \in FComparisons /\ i \notin Instructions
      /\ \A j \in Instructions : j.id # i.id

(* Folding keeps every operand of the type its instruction requires, with  *)
(* the exception of comparisons of floats.                                 *)
FoldedWellTyped == pass = "done" => WellTyped \/ FloatComparisonFolded

=============================================================================
