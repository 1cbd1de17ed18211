------------------------------ MODULE MCBuilder ------------------------------
(***************************************************************************)
(* TLC instance of Builder: every function of a few syntax-tree nodes.     *)
(***************************************************************************)
EXTENDS Builder

MCSegments == {<<Plain("op")>>}
MCPrologues == {<<>>}
AllForms == {"compound", "declaration", "expression", "segment", "index",
             "selection", "iteration", "return"}

=============================================================================
