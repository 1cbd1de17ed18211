----------------------------- MODULE Environment -----------------------------
(***************************************************************************)
(* What the visitor expects of its symbol table: the bindings in force     *)
(* are a function from names to values.  Entering a block saves them,      *)
(* leaving it restores what was saved, whatever was declared in between;   *)
(* a declaration binds its name, unless the block already did.             *)
(***************************************************************************)
EXTENDS Naturals, Sequences

CONSTANTS Names, Values, Unbound

VARIABLES
  env,      \* the value of each name, Unbound for none
  own,      \* the names the innermost block declared
  saved     \* what the enclosing blocks get back, innermost last

environmentVars == <<env, own, saved>>

EnvironmentInit ==
  /\ env = [n \in Names |-> Unbound]
  /\ own = {}
  /\ saved = <<>>

EnterBlock ==
  /\ saved' = Append(saved, [env |-> env, own |-> own])
  /\ own' = {}
  /\ UNCHANGED env

LeaveBlock ==
  /\ saved # <<>>
  /\ env' = saved[Len(saved)].env
  /\ own' = saved[Len(saved)].own
  /\ saved' = SubSeq(saved, 1, Len(saved) - 1)

Bind(n) ==
  /\ IF n \in own THEN env' = env
     ELSE env'[n] \in Values /\ env' = [env EXCEPT ![n] = env'[n]]
  /\ own' = own \cup {n}
  /\ UNCHANGED saved

EnvironmentNext == EnterBlock \/ LeaveBlock \/ \E n \in Names : Bind(n)

EnvironmentSpec == EnvironmentInit /\ [][EnvironmentNext]_environmentVars

=============================================================================
