---------------------------- MODULE MCExpressions -----------------------------
(***************************************************************************)
(* TLC instance of Expressions: a function f that takes an integer and an  *)
(* array and returns a float, over globals and locals of two names.        *)
(***************************************************************************)
EXTENDS Expressions, TLC

CONSTANTS x, y

Int32(n) == Constant("i32", n)
Float(n) == Constant("float", n)

MCUserNames == {x, y}
MCLiterals == {Int32(1), Float(1)}
MCSignatures == <<[ret |-> "void", params |-> <<>>],
                  [ret |-> "float", params |-> <<"i32", "i32*">>]>>
MCFunctionNames == <<"neg_idx_except", "f">>
MCNames == MCUserNames \cup Range(MCFunctionNames)
MCValues == {v \in Value : v.kind # "none"}
Symmetric == Permutations(MCUserNames)

=============================================================================
