----------------------------- MODULE MCPromotion -----------------------------
(***************************************************************************)
(* TLC instance of Promotion: two local variables and a global, assigned   *)
(* constants and copies of each other under every control structure.       *)
(***************************************************************************)
EXTENDS Promotion

x == 1
y == 2
g == 3

MCLocals == {x, y}
MCGlobals == {g}

Copy(from, to) == <<Load(from), Store(to, 1)>>

CopyChain == {<<Store(x, 0)>>, Copy(x, y), Copy(y, g)}
Copies == {Copy(x, y), Copy(y, g)}

\* Two parameters, or a parameter and an uninitialised local.
Parameter(v) == <<Alloca(v), Store(v, 0)>>
Initialised == {Parameter(x) \o Parameter(y)}
Uninitialised == {Parameter(x) \o <<Alloca(y)>>}

LoopForms == {"segment", "expression", "iteration"}
BranchForms == {"segment", "expression", "selection", "iteration", "return"}

=============================================================================
