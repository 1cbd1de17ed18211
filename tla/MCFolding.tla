------------------------------ MODULE MCFolding ------------------------------
(***************************************************************************)
(* TLC instance of Folding: a function of a few expressions that returns   *)
(* an integer, over a global that is an integer or a float.                *)
(***************************************************************************)
EXTENDS Folding

CONSTANT x

MCUserNames == {x}
MCLiterals == {Constant("i32", 3), Constant("float", 3)}
MCSignatures == <<[ret |-> "void", params |-> <<>>],
                  [ret |-> "i32", params |-> <<>>]>>
MCFunctionNames == <<"neg_idx_except", "f">>
MCNames == MCUserNames \cup Range(MCFunctionNames)
MCValues == {v \in Value : v.kind # "none"}

=============================================================================
