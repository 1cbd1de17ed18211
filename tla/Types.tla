-------------------------------- MODULE Types --------------------------------
(***************************************************************************)
(* The types of LightIR, the values that carry them, and the instructions  *)
(* on values with the types their constructors give them.  Types are       *)
(* interned by the module, so two types are equal when their names are;    *)
(* the length of an array does not matter here.                            *)
(***************************************************************************)
EXTENDS Integers, Sequences

Scalars  == {"i32", "float"}
Arrays   == {"[i32]", "[float]"}
Pointees == Scalars \cup Arrays \cup {"i32*", "float*"}

\* PointerType::get, Type::get_pointer_element_type and
\* Type::get_array_element_type.
PointerTo(t) ==
  CASE t = "i32"    -> "i32*"
    [] t = "float"  -> "float*"
    [] t = "[i32]"  -> "[i32]*"
    [] t = "[float]" -> "[float]*"
    [] t = "i32*"   -> "i32**"
    [] t = "float*" -> "float**"

Pointers == {PointerTo(t) : t \in Pointees}

Pointee(p) ==
  CASE p = "i32*"     -> "i32"
    [] p = "float*"   -> "float"
    [] p = "[i32]*"   -> "[i32]"
    [] p = "[float]*" -> "[float]"
    [] p = "i32**"    -> "i32*"
    [] p = "float**"  -> "float*"

ElementOf(t) == IF t = "[i32]" THEN "i32" ELSE "float"

TypeNames == {"void", "i1", "function"} \cup Pointees \cup Pointers

(***************************************************************************)
(* Values: a constant is its number, the result of an instruction the      *)
(* instruction's number, a global, a function or an argument its position. *)
(***************************************************************************)
Kinds == {"none", "const", "instr", "global", "function", "arg"}

Value == [kind : Kinds, type : TypeNames, id : Int]

NoValue         == [kind |-> "none", type |-> "void", id |-> 0]
Constant(t, n)  == [kind |-> "const", type |-> t, id |-> n]
GlobalOf(t, n)  == [kind |-> "global", type |-> PointerTo(t), id |-> n]
FunctionOf(n)   == [kind |-> "function", type |-> "function", id |-> n]
Argument(t, n)  == [kind |-> "arg", type |-> t, id |-> n]
Result(t, n)    == [kind |-> "instr", type |-> t, id |-> n]

\* The operators: the source's, and what they are on integers and on floats.
Arithmetic  == {"add", "sub", "mul", "sdiv"}
Comparisons == {"lt", "le", "gt", "ge", "eq", "ne"}
FloatOp == [add |-> "fadd", sub |-> "fsub", mul |-> "fmul", sdiv |-> "fdiv",
            lt |-> "flt", le |-> "fle", gt |-> "fgt", ge |-> "fge",
            eq |-> "feq", ne |-> "fne"]
FArithmetic  == {FloatOp[op] : op \in Arithmetic}
FComparisons == {FloatOp[op] : op \in Comparisons}

Effects == {"alloca", "load", "store", "gep", "call", "br", "ret"}
Casts   == {"zext", "sitofp", "fptosi"}
Opcodes == Arithmetic \cup Comparisons \cup FArithmetic \cup FComparisons
             \cup Casts \cup Effects

\* An instruction: `to' holds the targets of a br.
Instruction == [op : Opcodes, type : TypeNames, args : Seq(Value),
                to : Seq(Nat), id : Nat]

(***************************************************************************)
(* The type each constructor gives its instruction.                        *)
(***************************************************************************)
LoadType(args) == Pointee(args[1].type)

\* GetElementPtrInst::get_element_type, as an address.
GepType(args) ==
  IF Pointee(args[1].type) \in Arrays /\ Len(args) > 2
  THEN PointerTo(ElementOf(Pointee(args[1].type)))
  ELSE args[1].type

ResultType(op, args) ==
  CASE op \in Arithmetic                     -> "i32"
    [] op \in FArithmetic                    -> "float"
    [] op \in Comparisons \cup FComparisons  -> "i1"
    [] op \in {"zext", "fptosi"}             -> "i32"
    [] op = "sitofp"                         -> "float"
    [] op = "load"                           -> LoadType(args)
    [] op = "gep"                            -> GepType(args)
    [] op \in {"store", "br", "ret"}         -> "void"

=============================================================================
