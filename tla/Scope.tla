-------------------------------- MODULE Scope --------------------------------
(***************************************************************************)
(* Scope, the symbol table of the visitor: a list of maps from names to    *)
(* values, the innermost one last.  insert does not replace a binding, and *)
(* the callers of push ignore that it says so.                             *)
(***************************************************************************)
EXTENDS Naturals, Sequences

CONSTANTS Names, Values, Unbound

ASSUME ScopeAssumption == Unbound \notin Values

VARIABLE inner

Innermost == inner[Len(inner)]
InGlobal  == Len(inner) = 1

ScopeInit == inner = <<>>

Enter == inner' = Append(inner, [n \in {} |-> Unbound])

Exit == inner # <<>> /\ inner' = SubSeq(inner, 1, Len(inner) - 1)

\* Mutant: the last declaration of a name wins.
PushOver(map, n, value) == [m \in DOMAIN map \cup {n} |-> IF m = n THEN value ELSE map[m]]

\* The map with one more name, unless it has it already.
Inserted(map, n, value) ==
  [m \in DOMAIN map \cup {n} |-> IF m \in DOMAIN map THEN map[m] ELSE value]

Push(n, value) ==
  /\ inner # <<>>
  /\ inner' = [inner EXCEPT ![Len(inner)] = Inserted(@, n, value)]

\* The maps that bind n, and the value of n in the innermost of them.
Binders(n) == {i \in DOMAIN inner : n \in DOMAIN inner[i]}

LastBinder(n) == CHOOSE i \in Binders(n) : \A j \in Binders(n) : j <= i

Find(n) == IF Binders(n) = {} THEN Unbound ELSE inner[LastBinder(n)][n]

ScopeNext ==
  \/ Enter
  \/ Exit
  \/ \E n \in Names, value \in Values : Push(n, value)

ScopeSpec == ScopeInit /\ [][ScopeNext]_inner

-----------------------------------------------------------------------------
\* The environment the first k maps stand for.
View(k) ==
  LET binders(n) == {i \in Binders(n) : i <= k}
      last(n) == CHOOSE i \in binders(n) : \A j \in binders(n) : j <= i
  IN  [env |-> [n \in Names |-> IF binders(n) = {} THEN Unbound ELSE inner[last(n)][n]],
       own |-> IF k = 0 THEN {} ELSE DOMAIN inner[k]]

Lexical == INSTANCE Environment WITH
  env   <- [n \in Names |-> Find(n)],
  own   <- View(Len(inner)).own,
  saved <- [k \in DOMAIN inner |-> View(k - 1)]

(* The list of maps is a lexical environment: leaving a block brings back  *)
(* exactly the bindings it was entered with, a declaration hides the       *)
(* outer ones of its name and no others, and of two declarations of a name *)
(* in one block the first one stays.                                       *)
LexicalScoping == Lexical!EnvironmentSpec

=============================================================================
