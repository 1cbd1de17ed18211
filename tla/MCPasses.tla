------------------------------ MODULE MCPasses -------------------------------
(***************************************************************************)
(* TLC instance of Passes: every function of a few control statements,     *)
(* with every choice of constant conditions.                               *)
(***************************************************************************)
EXTENDS Passes

MCSegments == {}
MCPrologues == {<<>>}
FlowForms == {"compound", "selection", "iteration", "return"}

=============================================================================
