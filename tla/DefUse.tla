------------------------------- MODULE DefUse --------------------------------
(***************************************************************************)
(* Value and User: the operand vector of every instruction and, kept       *)
(* beside it, the use list of every value (who uses me, and as which       *)
(* operand).  The passes rewrite programs through these two tables.        *)
(*                                                                         *)
(* A use list is a set here: replace_all_use_with and remove_use treat     *)
(* every entry alike, so neither order nor repetition shows.  Operands     *)
(* are numbered from 1.                                                    *)
(***************************************************************************)
EXTENDS Naturals, Sequences, Functions

CONSTANTS Leaves,      \* constants, arguments, blocks: values without operands
          Instrs,      \* instructions a function may come to hold
          MaxOperands  \* bound on the length of an operand vector

ASSUME DefUseAssumption ==
  /\ Leaves \cap Instrs = {}
  /\ MaxOperands \in Nat

Values == Leaves \cup Instrs

VARIABLES
  operands,  \* operands_ of each instruction
  uses,      \* use_list_ of each value: {<<user, operand number>>}
  created,   \* instructions constructed so far
  live,      \* instructions that are in the list of some block
  replaced   \* instructions replaced everywhere, waiting to be deleted

defUseVars == <<operands, uses, created, live, replaced>>

DefUseInit ==
  /\ operands = [u \in Instrs |-> <<>>]
  /\ uses = [v \in Values |-> {}]
  /\ created = {} /\ live = {} /\ replaced = {}

\* What a pass may put into an operand: not what it has replaced or deleted.
Usable == Leaves \cup (live \ replaced)

\* The uses of v in an operand vector appended behind the first n operands.
NewUses(v, u, n, ops) ==
  {<<u, n + i>> : i \in {j \in DOMAIN ops : ops[j] = v}}

\* The constructors set every operand of a new instruction.
Create(u, ops) ==
  /\ u \in Instrs \ created
  /\ operands' = [operands EXCEPT ![u] = ops]
  /\ uses' = [v \in Values |-> uses[v] \cup NewUses(v, u, 0, ops)]
  /\ created' = created \cup {u}
  /\ live' = live \cup {u}
  /\ UNCHANGED replaced

\* add_phi_pair_operand: two add_operand.
AddPhiPair(u, val, bb) ==
  LET n == Len(operands[u])
  IN  /\ u \in live
      /\ n + 2 <= MaxOperands
      /\ operands' = [operands EXCEPT ![u] = @ \o <<val, bb>>]
      /\ uses' = [v \in Values |->
                    uses[v] \cup NewUses(v, u, n, <<val, bb>>)]
      /\ UNCHANGED <<created, live, replaced>>

\* set_operand on every entry of the use list of old: the operand changes ...
FirstOperandReplaced(old, new) ==                                 \* mutant
  [u \in Instrs |->
     [i \in DOMAIN operands[u] |->
        IF i = 1 /\ <<u, i>> \in uses[old] THEN new ELSE operands[u][i]]]
OperandsReplaced(old, new) ==
  [u \in Instrs |->
     [i \in DOMAIN operands[u] |->
        IF <<u, i>> \in uses[old] THEN new ELSE operands[u][i]]]

\* ... and the new value learns of its use.
UsesForgotten(old, new) == uses                                   \* mutant
UsesReplaced(old, new) == [uses EXCEPT ![new] = @ \cup uses[old]]

\* replace_all_use_with: the new value gains the uses, the old one keeps its
\* list.
ReplaceAllUseWith(old, new) ==
  /\ old \in live \ replaced
  /\ new # old
  /\ operands' = OperandsReplaced(old, new)
  /\ uses' = UsesReplaced(old, new)
  /\ replaced' = replaced \cup {old}
  /\ UNCHANGED <<created, live>>

\* delete_instr: out of the block, and out of the use lists of its operands
\* (remove_use_of_ops).  The passes delete what they have replaced, and stores
\* and allocas nothing names any more.
Unused(u) == \A w \in live : u \notin Range(operands[w])

AlwaysDeletable(u) == TRUE                                        \* mutant
Deletable(u) == u \in replaced \/ Unused(u)

DeleteInstr(u) ==
  /\ u \in live
  /\ Deletable(u)
  /\ live' = live \ {u}
  /\ uses' = [v \in Values |->
                IF v \in Range(operands[u])
                THEN {use \in uses[v] : use[1] # u} ELSE uses[v]]
  /\ UNCHANGED <<operands, created, replaced>>

OperandVectors == UNION {[1 .. n -> Usable] : n \in 0 .. MaxOperands}

DefUseNext ==
  \/ \E u \in Instrs \ created, ops \in OperandVectors : Create(u, ops)
  \/ \E u \in live, val \in Usable, bb \in Leaves : AddPhiPair(u, val, bb)
  \/ \E old \in live, new \in Usable : ReplaceAllUseWith(old, new)
  \/ \E u \in live : DeleteInstr(u)

DefUseSpec == DefUseInit /\ [][DefUseNext]_defUseVars

-----------------------------------------------------------------------------
TypeOK ==
  /\ operands \in [Instrs -> Seq(Values)]
  /\ uses \in [Values -> SUBSET (Instrs \X (Nat \ {0}))]
  /\ created \subseteq Instrs /\ live \subseteq created
  /\ replaced \subseteq created

(* Who I use is also recorded with whom I use: every operand of an         *)
(* instruction in a block is in the use list of its value.  Without this   *)
(* replace_all_use_with would miss users.                                  *)
UsesComplete ==
  \A u \in live : \A i \in DOMAIN operands[u] : <<u, i>> \in uses[operands[u][i]]

(* No instruction in a block names one that a pass has deleted or is about *)
(* to delete, through any interleaving of replacements, deletions and new  *)
(* phi pairs.                                                              *)
NoDanglingOperand ==
  \A u \in live : Range(operands[u]) \subseteq Usable

(* replace_all_use_with reaches every instruction in every block: none     *)
(* uses the old value afterwards, including the old instruction itself.    *)
ReplacesEveryUse ==
  [][\A old \in replaced' \ replaced :
        \A u \in live' : old \notin Range(operands'[u])]_defUseVars

=============================================================================
