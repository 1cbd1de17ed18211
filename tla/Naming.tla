-------------------------------- MODULE Naming --------------------------------
(***************************************************************************)
(* Function::set_instr_name between the steps of the passes: the driver    *)
(* calls it before them, ActiveVars and LoopInvHoist at their beginning,   *)
(* and print at the end.  Each call numbers the values that have no name   *)
(* yet, from a count that the calls carry on; a name is never taken back.  *)
(***************************************************************************)
EXTENDS DefUse, FiniteSets

CONSTANT Named   \* the arguments and blocks among the leaves

ASSUME NamingAssumption == Named \subseteq Leaves /\ IsFiniteSet(Named)

VARIABLES
  names,    \* the number in the name of each value that has one
  seq_cnt

namingVars == <<defUseVars, names, seq_cnt>>

NamingInit == DefUseInit /\ names = <<>> /\ seq_cnt = 0

Unnamed == (Named \cup live) \ DOMAIN names

\* seq_cnt_ += seq.size()
CountStays(seq) == seq_cnt                                        \* mutant
CountOn(seq) == seq_cnt + Cardinality(seq)

\* The unnamed values in the order of the lists, whatever it is.
SetInstrName ==
  /\ \E seq_num \in Injection(Unnamed, seq_cnt .. seq_cnt + Cardinality(Unnamed) - 1) :
       names' = [v \in DOMAIN names \cup Unnamed |->
                   IF v \in Unnamed THEN seq_num[v] ELSE names[v]]
  /\ seq_cnt' = CountOn(Unnamed)
  /\ UNCHANGED defUseVars

Rewrite == DefUseNext /\ UNCHANGED <<names, seq_cnt>>

NamingNext == Rewrite \/ SetInstrName

NamingSpec == NamingInit /\ [][NamingNext]_namingVars

-----------------------------------------------------------------------------
(* What is printed can be read back: once everything in the blocks has a   *)
(* name, every operand that an instruction makes has one, and no other     *)
(* instruction, argument or block has the same; although passes have       *)
(* created, replaced and deleted instructions between the numberings.      *)
NamesResolve ==
  Unnamed = {} =>
    \A u \in live : \A v \in Range(operands[u]) \cap Instrs :
      v \in live /\ \A w \in (live \cup Named) \ {v} : names[w] # names[v]

=============================================================================
