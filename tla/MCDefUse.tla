------------------------------ MODULE MCDefUse -------------------------------
(***************************************************************************)
(* TLC instance of DefUse and of Naming: an argument or block, and three   *)
(* instructions.                                                           *)
(***************************************************************************)
EXTENDS Naming, TLC

CONSTANTS b, i1, i2, i3

MCLeaves == {b}
MCNamed  == {b}
MCInstrs == {i1, i2, i3}
Symmetric == Permutations(MCInstrs)

=============================================================================
