----------------------------- MODULE MCPipeline ------------------------------
(***************************************************************************)
(* TLC instance of Pipeline: every function of a few control statements.   *)
(***************************************************************************)
EXTENDS Pipeline

MCSegments == {}
MCPrologues == {<<>>}
FlowForms == {"compound", "selection", "iteration", "return"}

=============================================================================
