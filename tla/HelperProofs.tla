----------------------------- MODULE HelperProofs -----------------------------
(***************************************************************************)
(* Proofs about two helpers of the passes that share no state: the use     *)
(* lists and the names (DefUse and Naming), and the search for strongly    *)
(* connected components of LoopSearch (Tarjan).                            *)
(*                                                                         *)
(* For any sets of values, any operand bound and any number of numberings, *)
(* the use lists know every operand, no instruction in a block names one   *)
(* that has been replaced or deleted, and the name an operand is printed   *)
(* by is its own.  The invariants on the tables need each other.  A        *)
(* replacement leaves no dangling operand because the use list it walks is *)
(* complete; a deletion leaves none because what was replaced is no longer *)
(* named.                                                                  *)
(*                                                                         *)
(* Tarjan's search is correct for every graph and every order in which the *)
(* pointers are visited: a lowlink is the index of an open node of the     *)
(* same component, and the search implements ComponentSearch: it adds one  *)
(* whole component at a time and returns with all of them.  (That it does  *)
(* return is liveness.)                                                    *)
(*                                                                         *)
(* The stack is what the argument is about.  A node on it leads to every   *)
(* node above it (LaterReached), and to every active call below the next   *)
(* call (CallReached): so all that stands above a call whose lowlink is    *)
(* its index is one piece of a component.  That the piece is whole needs   *)
(* the edges that leave it: none goes to a node not visited yet (AllSeen)  *)
(* or below the call (LowlinkLowest), and none returns from a node that    *)
(* was popped (PoppedClosed).                                              *)
(***************************************************************************)
EXTENDS Naming, Tarjan, CfgProofs

-----------------------------------------------------------------------------
(* The operand vectors and the use lists.                                  *)

Tables == TypeOK /\ UsesComplete /\ NoDanglingOperand

\* A pass only puts into an operand what a value can be.
LEMMA UsableValues ==
  ASSUME TypeOK
  PROVE  Usable \subseteq Values
BY DefUseAssumption DEF TypeOK, Usable, Values

\* Nothing replaced can be put into an operand any more.
LEMMA ReplacedUnusable ==
  ASSUME TypeOK, NEW u \in replaced
  PROVE  u \notin Usable
BY DefUseAssumption DEF TypeOK, Usable, Values

LEMMA InitTables == DefUseInit => Tables
BY DefUseAssumption
DEF DefUseInit, Tables, TypeOK, UsesComplete, NoDanglingOperand, Usable, Values,
    Range

LEMMA CreateKeepsTables ==
  ASSUME Tables,
         NEW u \in Instrs \ created, NEW n \in Nat, NEW ops \in [1 .. n -> Usable],
         Create(u, ops)
  PROVE  Tables'
<1> USE DefUseAssumption
<1>1. ops \in Seq(Values) /\ DOMAIN ops = 1 .. n /\ Range(ops) \subseteq Usable
  BY UsableValues DEF Tables, Range
<1>2. \A v \in Values : NewUses(v, u, 0, ops) = {<<u, i>> : i \in {j \in 1 .. n : ops[j] = v}}
  BY <1>1 DEF NewUses
<1>3. TypeOK'
  BY <1>1, <1>2 DEF Tables, TypeOK, Create
<1>4. \A w \in live : w # u /\ operands'[w] = operands[w]
  BY DEF Tables, TypeOK, Create
<1>5. operands'[u] = ops
  BY DEF Tables, TypeOK, Create
<1>6. UsesComplete'
  <2> SUFFICES ASSUME NEW w \in live', NEW i \in DOMAIN operands'[w]
               PROVE  <<w, i>> \in uses'[operands'[w][i]]
    BY DEF UsesComplete
  <2>1. CASE w = u
    <3>1. i \in 1 .. n /\ operands'[w][i] = ops[i] /\ ops[i] \in Values
      BY <2>1, <1>1, <1>5, UsableValues DEF Tables
    <3>2. <<w, i>> \in NewUses(ops[i], u, 0, ops)
      BY <2>1, <3>1, <1>2
    <3> QED
      BY <3>1, <3>2 DEF Create
  <2>2. CASE w \in live
    <3>1. operands'[w] = operands[w] /\ operands[w] \in Seq(Values)
      BY <2>2, <1>4 DEF Tables, TypeOK
    <3>2. operands[w][i] \in Values /\ <<w, i>> \in uses[operands[w][i]]
      BY <2>2, <3>1 DEF Tables, UsesComplete
    <3> QED
      BY <3>1, <3>2 DEF Create
  <2> QED
    BY <2>1, <2>2 DEF Create
<1>7. Usable \subseteq Usable'
  BY DEF Usable, Create
<1>8. NoDanglingOperand'
  BY <1>1, <1>4, <1>5, <1>7 DEF Tables, NoDanglingOperand, Create
<1> QED
  BY <1>3, <1>6, <1>8 DEF Tables

LEMMA AddPhiPairKeepsTables ==
  ASSUME Tables,
         NEW u \in live, NEW val \in Usable, NEW bb \in Leaves,
         AddPhiPair(u, val, bb)
  PROVE  Tables'
<1> USE DefUseAssumption
<1> DEFINE n == Len(operands[u])
<1>1. u \in Instrs /\ operands[u] \in Seq(Values) /\ n \in Nat
      /\ val \in Values /\ bb \in Values /\ bb \in Usable
  BY UsableValues DEF Tables, TypeOK, Values, Usable
<1>2. operands'[u] = operands[u] \o <<val, bb>> /\ operands'[u] \in Seq(Values)
  BY <1>1 DEF Tables, TypeOK, AddPhiPair
<1>3. \A w \in Instrs \ {u} : operands'[w] = operands[w]
  BY DEF Tables, TypeOK, AddPhiPair
<1>4. \A v \in Values : uses'[v] = uses[v] \cup NewUses(v, u, n, <<val, bb>>)
  BY DEF AddPhiPair
<1>5. \A v \in Values : NewUses(v, u, n, <<val, bb>>) \subseteq Instrs \X (Nat \ {0})
  <2> SUFFICES ASSUME NEW v \in Values, NEW i \in {1, 2}
               PROVE  <<u, n + i>> \in Instrs \X (Nat \ {0})
    BY DEF NewUses
  <2> QED
    BY <1>1
<1>6. TypeOK'
  <2>1. operands' \in [Instrs -> Seq(Values)]
    BY <1>2, <1>3 DEF Tables, TypeOK, AddPhiPair
  <2>2. uses' \in [Values -> SUBSET (Instrs \X (Nat \ {0}))]
    BY <1>4, <1>5 DEF Tables, TypeOK, AddPhiPair
  <2> QED
    BY <2>1, <2>2 DEF Tables, TypeOK, AddPhiPair
<1>7. <<u, n + 1>> \in NewUses(val, u, n, <<val, bb>>)
      /\ <<u, n + 2>> \in NewUses(bb, u, n, <<val, bb>>)
  BY DEF NewUses
<1>8. UsesComplete'
  <2> SUFFICES ASSUME NEW w \in live, NEW i \in DOMAIN operands'[w]
               PROVE  <<w, i>> \in uses'[operands'[w][i]]
    BY DEF UsesComplete, AddPhiPair
  <2>0. w \in Instrs /\ operands[w] \in Seq(Values)
    BY DEF Tables, TypeOK
  <2>1. CASE i \in DOMAIN operands[w] /\ operands'[w][i] = operands[w][i]
    <3>1. operands[w][i] \in Values /\ <<w, i>> \in uses[operands[w][i]]
      BY <2>0, <2>1 DEF Tables, UsesComplete
    <3> QED
      BY <2>1, <3>1, <1>4
  <2>2. CASE w = u /\ i = n + 1
    <3>1. operands'[w][i] = val
      BY <2>2, <1>1, <1>2
    <3> QED
      BY <2>2, <3>1, <1>1, <1>4, <1>7
  <2>3. CASE w = u /\ i = n + 2
    <3>1. operands'[w][i] = bb
      BY <2>3, <1>1, <1>2
    <3> QED
      BY <2>3, <3>1, <1>1, <1>4, <1>7
  <2>4. \/ i \in DOMAIN operands[w] /\ operands'[w][i] = operands[w][i]
        \/ w = u /\ i = n + 1
        \/ w = u /\ i = n + 2
    <3>1. CASE w # u
      BY <3>1, <2>0, <1>3
    <3>2. CASE w = u
      <4>1. i \in 1 .. n + 2
        BY <3>2, <1>1, <1>2
      <4>2. i \in 1 .. n => operands'[w][i] = operands[w][i]
        BY <3>2, <1>1, <1>2
      <4> QED
        BY <3>2, <4>1, <4>2, <1>1
    <3> QED
      BY <3>1, <3>2
  <2> QED
    BY <2>1, <2>2, <2>3, <2>4
<1>9. NoDanglingOperand'
  <2>1. Usable' = Usable
    BY DEF Usable, AddPhiPair
  <2>2. \A i \in DOMAIN operands'[u] : operands'[u][i] \in Usable
    BY <1>1, <1>2 DEF Tables, NoDanglingOperand, Range
  <2> QED
    BY <2>1, <2>2, <1>3 DEF Tables, TypeOK, NoDanglingOperand, Range, AddPhiPair
<1> QED
  BY <1>6, <1>8, <1>9 DEF Tables

LEMMA ReplaceAllUseWithKeepsTables ==
  ASSUME Tables, NEW old \in live, NEW new \in Usable, ReplaceAllUseWith(old, new)
  PROVE  Tables'
<1> USE DefUseAssumption
<1>1. old \in Instrs /\ old \in Values /\ new \in Values
  BY UsableValues DEF Tables, TypeOK, Values
<1>2. \A w \in Instrs :
        /\ DOMAIN operands'[w] = DOMAIN operands[w]
        /\ \A i \in DOMAIN operands[w] :
             operands'[w][i] = IF <<w, i>> \in uses[old] THEN new ELSE operands[w][i]
  BY DEF ReplaceAllUseWith, OperandsReplaced
<1>3. \A v \in Values :
        uses'[v] = IF v = new THEN uses[v] \cup uses[old] ELSE uses[v]
  BY <1>1 DEF Tables, TypeOK, ReplaceAllUseWith, UsesReplaced
<1>4. TypeOK'
  <2>1. operands' \in [Instrs -> Seq(Values)]
    <3>1. \A w \in Instrs : operands'[w] \in Seq(Values)
      <4> SUFFICES ASSUME NEW w \in Instrs PROVE operands'[w] \in Seq(Values)
        OBVIOUS
      <4>1. operands[w] \in Seq(Values)
        BY DEF Tables, TypeOK
      <4> DEFINE m == Len(operands[w])
      <4>2. m \in Nat /\ DOMAIN operands[w] = 1 .. m
        BY <4>1
      <4>3. operands'[w] = [i \in 1 .. m |->
               IF <<w, i>> \in uses[old] THEN new ELSE operands[w][i]]
        BY <4>2 DEF ReplaceAllUseWith, OperandsReplaced
      <4>4. \A i \in 1 .. m : operands[w][i] \in Values
        BY <4>1
      <4> QED
        BY <4>2, <4>3, <4>4, <1>1
    <3> QED
      BY <3>1 DEF ReplaceAllUseWith, OperandsReplaced
  <2>2. uses' \in [Values -> SUBSET (Instrs \X (Nat \ {0}))]
    BY <1>1 DEF Tables, TypeOK, ReplaceAllUseWith, UsesReplaced
  <2> QED
    BY <2>1, <2>2 DEF Tables, TypeOK, ReplaceAllUseWith
<1>5. UsesComplete'
  <2> SUFFICES ASSUME NEW w \in live, NEW i \in DOMAIN operands[w]
               PROVE  <<w, i>> \in uses'[operands'[w][i]]
    BY <1>2 DEF Tables, TypeOK, UsesComplete, ReplaceAllUseWith
  <2>1. w \in Instrs /\ operands[w][i] \in Values
        /\ <<w, i>> \in uses[operands[w][i]]
    BY DEF Tables, TypeOK, UsesComplete
  <2>2. CASE <<w, i>> \in uses[old]
    BY <2>1, <2>2, <1>1, <1>2, <1>3
  <2>3. CASE <<w, i>> \notin uses[old]
    BY <2>1, <2>3, <1>2, <1>3
  <2> QED
    BY <2>2, <2>3
<1>6. NoDanglingOperand'
  <2> SUFFICES ASSUME NEW w \in live, NEW i \in DOMAIN operands[w]
               PROVE  operands'[w][i] \in Usable'
    BY <1>2 DEF Tables, TypeOK, NoDanglingOperand, Range, ReplaceAllUseWith
  <2>1. new \in Usable'
    BY DEF Usable, ReplaceAllUseWith
  <2>2. CASE <<w, i>> \in uses[old]
    BY <2>1, <2>2, <1>2 DEF Tables, TypeOK
  <2>3. CASE <<w, i>> \notin uses[old]
    <3>1. operands[w][i] # old
      BY <2>3 DEF Tables, UsesComplete
    <3>2. operands[w][i] \in Usable
      BY DEF Tables, NoDanglingOperand, Range
    <3>3. operands[w][i] \in Usable'
      BY <3>1, <3>2 DEF Usable, ReplaceAllUseWith
    <3> QED
      BY <2>3, <3>3, <1>2 DEF Tables, TypeOK
  <2> QED
    BY <2>2, <2>3
<1> QED
  BY <1>4, <1>5, <1>6 DEF Tables

LEMMA DeleteInstrKeepsTables ==
  ASSUME Tables, NEW u \in live, DeleteInstr(u)
  PROVE  Tables'
<1> USE DefUseAssumption
<1>1. TypeOK'
  <2>1. uses' \in [Values -> SUBSET (Instrs \X (Nat \ {0}))]
    BY DEF Tables, TypeOK, DeleteInstr
  <2> QED
    BY <2>1 DEF Tables, TypeOK, DeleteInstr
<1>2. UsesComplete'
  <2> SUFFICES ASSUME NEW w \in live \ {u}, NEW i \in DOMAIN operands[w]
               PROVE  <<w, i>> \in uses'[operands[w][i]]
    BY DEF UsesComplete, DeleteInstr
  <2>1. operands[w][i] \in Values /\ <<w, i>> \in uses[operands[w][i]]
    BY DEF Tables, TypeOK, UsesComplete
  <2> QED
    BY <2>1 DEF DeleteInstr
<1>3. NoDanglingOperand'
  <2>1. \A w \in live \ {u} : u \notin Range(operands[w])
    <3>1. CASE u \in replaced
      BY <3>1, ReplacedUnusable DEF Tables, NoDanglingOperand
    <3>2. CASE Unused(u)
      BY <3>2 DEF Unused
    <3> QED
      BY <3>1, <3>2 DEF DeleteInstr, Deletable
  <2>2. Usable \ {u} \subseteq Usable'
    BY DEF Usable, DeleteInstr
  <2> QED
    BY <2>1, <2>2 DEF Tables, NoDanglingOperand, DeleteInstr
<1> QED
  BY <1>1, <1>2, <1>3 DEF Tables

LEMMA NextKeepsTables == Tables /\ [DefUseNext]_defUseVars => Tables'
<1> SUFFICES ASSUME Tables, [DefUseNext]_defUseVars PROVE Tables'
  OBVIOUS
<1>1. CASE \E u \in Instrs \ created, ops \in OperandVectors : Create(u, ops)
  <2>1. PICK u \in Instrs \ created, ops \in OperandVectors : Create(u, ops)
    BY <1>1
  <2>2. PICK n \in 0 .. MaxOperands : ops \in [1 .. n -> Usable]
    BY DEF OperandVectors
  <2> QED
    BY <2>1, <2>2, CreateKeepsTables, DefUseAssumption
<1>2. CASE \E u \in live, val \in Usable, bb \in Leaves : AddPhiPair(u, val, bb)
  BY <1>2, AddPhiPairKeepsTables
<1>3. CASE \E old \in live, new \in Usable : ReplaceAllUseWith(old, new)
  BY <1>3, ReplaceAllUseWithKeepsTables
<1>4. CASE \E u \in live : DeleteInstr(u)
  BY <1>4, DeleteInstrKeepsTables
<1>5. CASE UNCHANGED defUseVars
  BY <1>5 DEF Tables, TypeOK, UsesComplete, NoDanglingOperand, Usable, defUseVars
<1> QED
  BY <1>1, <1>2, <1>3, <1>4, <1>5 DEF DefUseNext

LEMMA TablesInvariant == DefUseSpec => []Tables
BY InitTables, NextKeepsTables, PTL DEF DefUseSpec

-----------------------------------------------------------------------------
(* The tables keep their type.                                             *)
THEOREM DefUseTypeCorrect == DefUseSpec => []TypeOK
BY TablesInvariant, PTL DEF Tables

(* Every operand of every instruction in a block is in the use list of its *)
(* value, after any sequence of the four operations.                       *)
THEOREM UseListsComplete == DefUseSpec => []UsesComplete
BY TablesInvariant, PTL DEF Tables

(* No instruction in a block ever names a replaced or deleted one.         *)
THEOREM NothingDangles == DefUseSpec => []NoDanglingOperand
BY TablesInvariant, PTL DEF Tables

(* replace_all_use_with leaves no user of the old value behind.            *)
THEOREM ReplacementReachesAll == DefUseSpec => ReplacesEveryUse
<1>1. Tables' => \A old \in replaced' \ replaced :
                   \A u \in live' : old \notin Range(operands'[u])
  <2> SUFFICES ASSUME Tables', NEW old \in replaced', NEW u \in live'
               PROVE  old \notin Range(operands'[u])
    OBVIOUS
  <2>1. old \notin Usable'
    BY DefUseAssumption DEF Tables, TypeOK, Usable, Values
  <2> QED
    BY <2>1 DEF Tables, NoDanglingOperand
<1> QED
  BY <1>1, TablesInvariant, PTL DEF ReplacesEveryUse

-----------------------------------------------------------------------------
(* The names set_instr_name gives.                                         *)

\* Names are numbers below the count, each given once; a function has
\* finitely many instructions.
NamesOK ==
  /\ DOMAIN names \subseteq Named \cup Instrs
  /\ seq_cnt \in Nat
  /\ \A v \in DOMAIN names : names[v] \in 0 .. seq_cnt - 1
  /\ \A v, w \in DOMAIN names : names[v] = names[w] => v = w
  /\ IsFiniteSet(live)

LEMMA UnnamedFinite ==
  ASSUME NamesOK
  PROVE  Cardinality(Unnamed) \in Nat
<1>1. IsFiniteSet(Named \cup live)
  BY FS_Union, NamingAssumption DEF NamesOK
<1>2. IsFiniteSet(Unnamed)
  BY <1>1, FS_Subset DEF Unnamed
<1> QED BY <1>2, FS_CardinalityType

LEMMA SetInstrNameKeepsNames ==
  ASSUME Tables, NamesOK, SetInstrName
  PROVE  NamesOK'
<1> DEFINE n == Cardinality(Unnamed)
<1>1. n \in Nat /\ seq_cnt \in Nat /\ seq_cnt' = seq_cnt + n
  BY UnnamedFinite DEF NamesOK, SetInstrName, CountOn
<1>2. PICK seq_num \in Injection(Unnamed, seq_cnt .. seq_cnt + n - 1) :
        names' = [v \in DOMAIN names \cup Unnamed |->
                    IF v \in Unnamed THEN seq_num[v] ELSE names[v]]
  BY DEF SetInstrName
<1> HIDE DEF n
<1>3. /\ \A v \in Unnamed : seq_num[v] \in seq_cnt .. seq_cnt + n - 1
      /\ \A v, w \in Unnamed : seq_num[v] = seq_num[w] => v = w
  BY DEF Injection, IsInjective
<1>4. /\ DOMAIN names' = DOMAIN names \cup Unnamed
      /\ \A v \in Unnamed : names'[v] = seq_num[v]
      /\ \A v \in DOMAIN names : names'[v] = names[v]
  BY <1>2 DEF Unnamed
<1>5. DOMAIN names' \subseteq Named \cup Instrs
  BY <1>4 DEF NamesOK, Unnamed, Tables, TypeOK
<1>6. ASSUME NEW v \in DOMAIN names' PROVE names'[v] \in 0 .. seq_cnt' - 1
  <2>1. CASE v \in Unnamed
    <3>1. names'[v] \in seq_cnt .. seq_cnt + n - 1
      BY <2>1, <1>3, <1>4
    <3> QED BY <3>1, <1>1
  <2>2. CASE v \in DOMAIN names
    <3>1. names'[v] \in 0 .. seq_cnt - 1
      BY <2>2, <1>4 DEF NamesOK
    <3> QED BY <3>1, <1>1
  <2> QED BY <2>1, <2>2, <1>4
<1>7. ASSUME NEW v \in DOMAIN names', NEW w \in DOMAIN names', names'[v] = names'[w]
      PROVE  v = w
  <2>1. ASSUME NEW x \in DOMAIN names, NEW y \in Unnamed PROVE names'[x] # names'[y]
    <3>1. names'[x] \in 0 .. seq_cnt - 1
      BY <2>1, <1>4 DEF NamesOK
    <3>2. names'[y] \in seq_cnt .. seq_cnt + n - 1
      BY <2>1, <1>3, <1>4
    <3> QED BY <3>1, <3>2, <1>1
  <2>2. CASE v \in DOMAIN names /\ w \in DOMAIN names
    BY <2>2, <1>4, <1>7 DEF NamesOK
  <2>3. CASE v \in Unnamed /\ w \in Unnamed
    BY <2>3, <1>3, <1>4, <1>7
  <2> QED BY <2>1, <2>2, <2>3, <1>4, <1>7
<1>8. live' = live
  BY DEF SetInstrName, defUseVars
<1> QED BY <1>1, <1>5, <1>6, <1>7, <1>8 DEF NamesOK

LEMMA RewriteKeepsNames ==
  ASSUME NamesOK, DefUseNext, UNCHANGED <<names, seq_cnt>>
  PROVE  NamesOK'
<1>1. IsFiniteSet(live')
  <2>1. CASE \E u \in Instrs \ created, ops \in OperandVectors : Create(u, ops)
    <3>1. PICK u : live' = live \cup {u}
      BY <2>1 DEF Create
    <3> QED BY <3>1, FS_AddElement DEF NamesOK
  <2>2. CASE \E u \in live, val \in Usable, bb \in Leaves : AddPhiPair(u, val, bb)
    BY <2>2 DEF AddPhiPair, NamesOK
  <2>3. CASE \E old \in live, new \in Usable : ReplaceAllUseWith(old, new)
    BY <2>3 DEF ReplaceAllUseWith, NamesOK
  <2>4. CASE \E u \in live : DeleteInstr(u)
    <3>1. live' \subseteq live
      BY <2>4 DEF DeleteInstr
    <3> QED BY <3>1, FS_Subset DEF NamesOK
  <2> QED BY <2>1, <2>2, <2>3, <2>4 DEF DefUseNext
<1> QED BY <1>1 DEF NamesOK

NamingInv == Tables /\ NamesOK

LEMMA InitNames == NamingInit => NamingInv
<1> SUFFICES ASSUME NamingInit PROVE NamingInv
  OBVIOUS
<1>1. Tables
  BY InitTables DEF NamingInit
<1>2. IsFiniteSet(live)
  BY FS_EmptySet DEF NamingInit, DefUseInit
<1>3. DOMAIN names = {}
  BY DEF NamingInit
<1> QED BY <1>1, <1>2, <1>3 DEF NamingInv, NamesOK, NamingInit

LEMMA NextNames == NamingInv /\ [NamingNext]_namingVars => NamingInv'
<1> SUFFICES ASSUME NamingInv, [NamingNext]_namingVars PROVE NamingInv'
  OBVIOUS
<1>1. CASE Rewrite
  BY <1>1, NextKeepsTables, RewriteKeepsNames DEF Rewrite, NamingInv
<1>2. CASE SetInstrName
  <2>1. UNCHANGED defUseVars
    BY <1>2 DEF SetInstrName
  <2> QED BY <1>2, <2>1, NextKeepsTables, SetInstrNameKeepsNames DEF NamingInv
<1>3. CASE UNCHANGED namingVars
  <2>1. UNCHANGED defUseVars /\ UNCHANGED <<names, seq_cnt>>
    BY <1>3 DEF namingVars
  <2>2. NamesOK'
    BY <2>1 DEF NamingInv, NamesOK, defUseVars
  <2> QED BY <2>1, <2>2, NextKeepsTables DEF NamingInv
<1> QED BY <1>1, <1>2, <1>3 DEF NamingNext

\* The instructions in the blocks name each other through distinct names.
LEMMA InvResolves == NamingInv => NamesResolve
<1> SUFFICES ASSUME NamingInv, Unnamed = {}, NEW u \in live,
                    NEW v \in Range(operands[u]) \cap Instrs
             PROVE  v \in live /\ \A w \in (live \cup Named) \ {v} : names[w] # names[v]
  BY DEF NamesResolve
<1>1. v \in live
  BY DefUseAssumption DEF NamingInv, Tables, NoDanglingOperand, Usable
<1>2. live \cup Named \subseteq DOMAIN names
  BY DEF Unnamed
<1> QED BY <1>1, <1>2 DEF NamingInv, NamesOK

(* The printed function defines each of its operands once, after any       *)
(* sequence of rewritings and numberings.                                  *)
THEOREM PrintedNamesResolve == NamingSpec => []NamesResolve
BY InitNames, NextNames, InvResolves, PTL DEF NamingSpec

-----------------------------------------------------------------------------
(* Tarjan's search.                                                        *)
Digraph(g) == IsFiniteSet(DOMAIN g) /\ \A n \in DOMAIN g : g[n] \subseteq DOMAIN g
Leads(g, m, n) == n \in ReachedFrom(g, {m})
Mates(g, n) == {m \in DOMAIN g : Leads(g, n, m) /\ Leads(g, m, n)}

TarjanType ==
  /\ Digraph(succs)
  /\ index_count \in Nat
  /\ index \in [CFGNodes -> Int]
  /\ \A n \in CFGNodes : -1 <= index[n] /\ index[n] < index_count
  /\ lowlink \in [CFGNodes -> Int]
  /\ onStack \in [CFGNodes -> BOOLEAN]
  /\ stack \in Seq(CFGNodes)
  /\ calls \in Seq([n : CFGNodes, todo : SUBSET CFGNodes])
  /\ returned \in BOOLEAN

\* Indices tell visited nodes apart.
Numbered ==
  /\ \A m, n \in CFGNodes : index[m] = index[n] /\ index[m] # -1 => m = n
  /\ \A n \in CFGNodes : onStack[n] => index[n] # -1

\* The stack holds the nodes marked as on it, in the order of their indices.
StackOrdered ==
  /\ \A i, j \in 1 .. Len(stack) : i < j => index[stack[i]] < index[stack[j]]
  /\ \A i \in 1 .. Len(stack) : onStack[stack[i]]
  /\ \A n \in CFGNodes : onStack[n] => \E i \in 1 .. Len(stack) : stack[i] = n

\* The active calls are for nodes on the stack, the first for the lowest.
CallsOrdered ==
  /\ \A i \in 1 .. Len(calls) : onStack[calls[i].n] /\ calls[i].todo \subseteq succs[calls[i].n]
  /\ \A i, j \in 1 .. Len(calls) : i < j => index[calls[i].n] < index[calls[j].n]
  /\ \A n \in CFGNodes : onStack[n] => calls # <<>> /\ index[calls[1].n] <= index[n]

LaterReached ==
  \A m, n \in CFGNodes :
    onStack[m] /\ onStack[n] /\ index[m] <= index[n] => Leads(succs, m, n)

\* The node m is below the call after the i-th.
BelowNext(m, i) == i = Len(calls) \/ index[m] < index[calls[i + 1].n]

CallReached ==
  \A m \in CFGNodes : \A i \in 1 .. Len(calls) :
    onStack[m] /\ BelowNext(m, i) => Leads(succs, m, calls[i].n)

\* The lowlink of v is the index of w.
LowlinkIs(v, w) ==
  onStack[w] /\ index[w] = lowlink[v] /\ lowlink[v] <= index[v] /\ Leads(succs, v, w)

LowlinkReached ==
  \A v \in CFGNodes : onStack[v] => \E w \in CFGNodes : LowlinkIs(v, w)

\* The call of traverse for v has not looked at x yet.
Waits(v, x) == \E i \in 1 .. Len(calls) : calls[i].n = v /\ x \in calls[i].todo

AllSeen ==
  \A v \in CFGNodes : \A x \in succs[v] :
    index[v] # -1 /\ index[x] = -1 => Waits(v, x)

LowlinkLowest ==
  \A v \in CFGNodes : \A x \in succs[v] : onStack[v] /\ onStack[x] =>
    \/ Waits(v, x)
    \/ \A i \in 1 .. Len(calls) :
         index[calls[i].n] <= index[v] /\ BelowNext(v, i) => lowlink[calls[i].n] <= index[x]

WasPopped(n) == index[n] # -1 /\ ~onStack[n]

PoppedClosed ==
  \A n \in CFGNodes : WasPopped(n) => \A x \in succs[n] : WasPopped(x)

\* The components of two nodes or more.
LargeMates(g) == {c \in {Mates(g, n) : n \in DOMAIN g} : Cardinality(c) >= 2}

Collected ==
  result = {c \in LargeMates(succs) : \A n \in c : WasPopped(n)}

ReturnedLast ==
  returned => calls = <<>> /\ \A n \in CFGNodes : index[n] # -1

TarjanInvariant ==
  /\ TarjanType
  /\ Numbered
  /\ StackOrdered
  /\ CallsOrdered
  /\ LaterReached
  /\ CallReached
  /\ LowlinkReached
  /\ AllSeen
  /\ LowlinkLowest
  /\ PoppedClosed
  /\ Collected
  /\ ReturnedLast

-----------------------------------------------------------------------------
\* Leading from node to node: reflexive, along edges, transitive.
LEMMA LeadsToItself ==
  ASSUME NEW g, Digraph(g), NEW n \in DOMAIN g
  PROVE  Leads(g, n, n)
BY ReachedContains DEF Digraph, Leads

\* What an edge never leaves holds of all that a node in it leads to.
LEMMA LeadsWithin ==
  ASSUME NEW g, Digraph(g), NEW C, NEW n \in C, \A b \in C : g[b] \subseteq C,
         NEW m, Leads(g, n, m)
  PROVE  m \in C
<1>1. {n} \subseteq C
  OBVIOUS
<1>2. ReachedFrom(g, {n}) \subseteq C
  BY <1>1, ReachedIsLeast DEF Digraph
<1> QED
  BY <1>2 DEF Leads

LEMMA LeadsOn ==
  ASSUME NEW g, Digraph(g), NEW n \in DOMAIN g, NEW m, Leads(g, n, m)
  PROVE  m \in DOMAIN g /\ \A x \in g[m] : Leads(g, n, x)
BY ReachedIsClosed DEF Digraph, Leads

LEMMA LeadsAlong ==
  ASSUME NEW g, Digraph(g), NEW n \in DOMAIN g, NEW x \in g[n]
  PROVE  Leads(g, n, x)
BY LeadsToItself, LeadsOn

LEMMA LeadsFurther ==
  ASSUME NEW g, Digraph(g), NEW n \in DOMAIN g, NEW m, NEW k,
         Leads(g, n, m), Leads(g, m, k)
  PROVE  Leads(g, n, k)
<1> DEFINE C == {x \in DOMAIN g : Leads(g, n, x)}
<1>1. m \in C
  BY LeadsOn
<1>2. \A b \in C : g[b] \subseteq C
  BY LeadsOn DEF Digraph
<1>3. k \in C
  <2> HIDE DEF C
  <2> QED
    BY <1>1, <1>2, LeadsWithin
<1> QED
  BY <1>3

\* Nodes that lead to each other have the same mates.
LEMMA MatesAgree ==
  ASSUME NEW g, Digraph(g), NEW n \in DOMAIN g, NEW m \in Mates(g, n)
  PROVE  Mates(g, m) = Mates(g, n)
<1>1. m \in DOMAIN g /\ Leads(g, n, m) /\ Leads(g, m, n)
  BY DEF Mates
<1>2. ASSUME NEW x \in DOMAIN g
      PROVE  /\ Leads(g, m, x) => Leads(g, n, x)
             /\ Leads(g, n, x) => Leads(g, m, x)
             /\ Leads(g, x, m) => Leads(g, x, n)
             /\ Leads(g, x, n) => Leads(g, x, m)
  BY <1>1, <1>2, LeadsFurther
<1> QED
  BY <1>2 DEF Mates

-----------------------------------------------------------------------------
\* ComponentSearch brings its own copy of the definitions it extends.
LEMMA SameCardinality ==
  ASSUME NEW S
  PROVE  Abstract!Cardinality(S) = Cardinality(S)
BY Zenon DEF Cardinality, Abstract!Cardinality

LEMMA SameReached ==
  ASSUME NEW g, NEW s
  PROVE  Abstract!ReachedFrom(g, s) = ReachedFrom(g, s)
BY SameCardinality, Zenon DEF ReachedFrom, Abstract!ReachedFrom

LEMMA ComponentsAreMates ==
  ASSUME NEW g, Digraph(g)
  PROVE  Abstract!Components(g) = LargeMates(g)
<1>1. ASSUME NEW n \in DOMAIN g
      PROVE  Mates(g, n) = {m \in Abstract!ReachedFrom(g, {n}) :
                              n \in Abstract!ReachedFrom(g, {m})}
  <2>1. \A m : Leads(g, n, m) => m \in DOMAIN g
    BY LeadsOn
  <2> QED
    BY <2>1, SameReached DEF Mates, Leads
<1> QED
  BY <1>1, SameCardinality, Zenon DEF Abstract!Components, LargeMates

-----------------------------------------------------------------------------
Calls == Seq([n : CFGNodes, todo : SUBSET CFGNodes])

\* What the active calls become when the innermost has looked at n.
Resumed(active, n) ==
  /\ active \in Calls /\ Len(active) = Len(calls)
  /\ \A i \in 1 .. Len(calls) :
       /\ active[i].n = calls[i].n
       /\ active[i].todo = IF i = Len(calls) THEN calls[i].todo \ {n} ELSE calls[i].todo
  /\ calls # <<>> => n \in Innermost.todo

LEMMA PastResumes ==
  ASSUME TarjanType, calls # <<>>, NEW n \in Innermost.todo
  PROVE  Resumed(Past(n), n)
<1> DEFINE C == [n : CFGNodes, todo : SUBSET CFGNodes]
           L == Len(calls)
           call == [Innermost EXCEPT !.todo = @ \ {n}]
<1>1. calls \in Seq(C)
  BY DEF TarjanType
<1>2. L \in 1 .. L /\ DOMAIN calls = 1 .. L
  <2> HIDE DEF C
  <2> QED
    BY <1>1
<1>3. \A i \in 1 .. L : calls[i] \in C
  <2> HIDE DEF C
  <2> QED
    BY <1>1, <1>2
<1>4. Past(n) = [calls EXCEPT ![L] = call]
  BY DEF Past, Innermost
<1>5. call \in C /\ call.n = calls[L].n /\ call.todo = calls[L].todo \ {n}
  BY <1>2, <1>3 DEF Innermost
<1>6. Past(n) \in Seq(C) /\ Len(Past(n)) = L
  <2> HIDE DEF C, call
  <2> QED
    BY <1>1, <1>2, <1>4, <1>5, ExceptSeq
<1>7. \A i \in 1 .. L : Past(n)[i] = IF i = L THEN call ELSE calls[i]
  <2> HIDE DEF C, call
  <2> QED
    BY <1>2, <1>4
<1> QED
  <2> HIDE DEF call
  <2> QED
    BY <1>5, <1>6, <1>7 DEF Resumed, Calls

\* What a call of traverse does to each node and each active call.
TraverseFacts(n) ==
  /\ succs' = succs /\ result' = result /\ returned' = returned
  /\ index_count' = index_count + 1
  /\ \A m \in CFGNodes :
       /\ index'[m] = IF m = n THEN index_count ELSE index[m]
       /\ lowlink'[m] = IF m = n THEN index_count ELSE lowlink[m]
       /\ onStack'[m] = IF m = n THEN TRUE ELSE onStack[m]
  /\ Len(stack') = Len(stack) + 1
  /\ \A i \in 1 .. Len(stack) : stack'[i] = stack[i]
  /\ stack'[Len(stack) + 1] = n
  /\ Len(calls') = Len(calls) + 1
  /\ \A i \in 1 .. Len(calls) :
       /\ calls'[i].n = calls[i].n
       /\ calls'[i].todo = IF i = Len(calls) THEN calls[i].todo \ {n} ELSE calls[i].todo
  /\ calls'[Len(calls) + 1].n = n
  /\ calls'[Len(calls) + 1].todo = succs[n]

LEMMA TraverseTypes ==
  ASSUME TarjanType, NEW n \in CFGNodes, NEW active, Resumed(active, n), Traverse(n, active)
  PROVE  TarjanType' /\ TraverseFacts(n)
<1> DEFINE call == [n |-> n, todo |-> succs[n]]
<1>1. call \in [n : CFGNodes, todo : SUBSET CFGNodes]
  BY DEF TarjanType, Digraph, CFGNodes
<1>2. call.n = n /\ call.todo = succs[n]
  OBVIOUS
<1>3. calls' = Append(active, call) /\ stack' = Append(stack, n)
  BY DEF Traverse
<1> HIDE DEF call
<1>4. /\ calls' \in Calls /\ Len(calls') = Len(calls) + 1
      /\ \A i \in 1 .. Len(calls) : calls'[i] = active[i]
      /\ calls'[Len(calls) + 1] = call
  BY <1>1, <1>3 DEF Resumed, Calls
<1>5. /\ stack' \in Seq(CFGNodes) /\ Len(stack') = Len(stack) + 1
      /\ \A i \in 1 .. Len(stack) : stack'[i] = stack[i]
      /\ stack'[Len(stack) + 1] = n
  BY <1>3 DEF TarjanType
<1>6. /\ index \in [CFGNodes -> Int] /\ lowlink \in [CFGNodes -> Int]
      /\ onStack \in [CFGNodes -> BOOLEAN] /\ index_count \in Nat
      /\ \A m \in CFGNodes : -1 <= index[m] /\ index[m] < index_count
  BY DEF TarjanType
<1>7. /\ succs' = succs /\ result' = result /\ returned' = returned
      /\ CFGNodes' = CFGNodes
      /\ index_count' = index_count + 1
      /\ index' = [index EXCEPT ![n] = index_count]
      /\ lowlink' = [lowlink EXCEPT ![n] = index_count]
      /\ onStack' = [onStack EXCEPT ![n] = TRUE]
  BY DEF Traverse, CFGNodes
<1>8. /\ index' \in [CFGNodes -> Int] /\ lowlink' \in [CFGNodes -> Int]
      /\ onStack' \in [CFGNodes -> BOOLEAN] /\ index_count' \in Nat
      /\ \A m \in CFGNodes :
           /\ index'[m] = IF m = n THEN index_count ELSE index[m]
           /\ lowlink'[m] = IF m = n THEN index_count ELSE lowlink[m]
           /\ onStack'[m] = IF m = n THEN TRUE ELSE onStack[m]
  BY <1>6, <1>7
<1>9. \A m \in CFGNodes : -1 <= index'[m] /\ index'[m] < index_count'
  BY <1>6, <1>7, <1>8
<1>10. TarjanType'
  BY <1>4, <1>5, <1>7, <1>8, <1>9 DEF TarjanType, Calls
<1>11. TraverseFacts(n)
  BY <1>2, <1>4, <1>5, <1>7, <1>8 DEF TraverseFacts, Resumed
<1> QED
  BY <1>10, <1>11

\* The types of the elements.
LEMMA ElementTypes ==
  ASSUME TarjanType
  PROVE  /\ Len(calls) \in Nat /\ (calls = <<>> <=> Len(calls) = 0)
         /\ \A i \in 1 .. Len(calls) :
              calls[i].n \in CFGNodes /\ calls[i].todo \subseteq CFGNodes
         /\ Len(stack) \in Nat
         /\ \A i \in 1 .. Len(stack) : stack[i] \in CFGNodes
         /\ \A n \in CFGNodes : /\ index[n] \in Int /\ lowlink[n] \in Int
                                /\ onStack[n] \in BOOLEAN
         /\ \A n \in CFGNodes : \A x \in succs[n] : x \in CFGNodes
<1> DEFINE C == [n : CFGNodes, todo : SUBSET CFGNodes]
<1>1. calls \in Seq(C) /\ stack \in Seq(CFGNodes)
  BY DEF TarjanType
<1>2. /\ Len(calls) \in Nat /\ (calls = <<>> <=> Len(calls) = 0)
      /\ \A i \in 1 .. Len(calls) : calls[i] \in C
  <2> HIDE DEF C
  <2> QED
    BY <1>1
<1>3. \A i \in 1 .. Len(calls) :
        calls[i].n \in CFGNodes /\ calls[i].todo \subseteq CFGNodes
  BY <1>2
<1>4. /\ Len(stack) \in Nat
      /\ \A i \in 1 .. Len(stack) : stack[i] \in CFGNodes
  BY <1>1
<1>5. /\ \A n \in CFGNodes : /\ index[n] \in Int /\ lowlink[n] \in Int
                             /\ onStack[n] \in BOOLEAN
      /\ \A n \in CFGNodes : \A x \in succs[n] : x \in CFGNodes
  BY DEF TarjanType, Digraph, CFGNodes
<1> QED
  BY <1>2, <1>3, <1>4, <1>5

\* The call of the innermost node comes last, and its node leads to what it
\* looks at.
LEMMA TraverseKeeps ==
  ASSUME TarjanInvariant, NEW n \in CFGNodes, index[n] = -1,
         NEW active, Resumed(active, n), Traverse(n, active)
  PROVE  TarjanInvariant'
<1> DEFINE L == Len(calls)
<1>t. TarjanType /\ TarjanType' /\ TraverseFacts(n)
  BY TraverseTypes DEF TarjanInvariant
<1>e. /\ L \in Nat /\ (calls = <<>> <=> L = 0)
      /\ \A i \in 1 .. L : calls[i].n \in CFGNodes /\ calls[i].todo \subseteq CFGNodes
      /\ Len(stack) \in Nat
      /\ \A i \in 1 .. Len(stack) : stack[i] \in CFGNodes
      /\ \A m \in CFGNodes : /\ index[m] \in Int /\ lowlink[m] \in Int
                             /\ onStack[m] \in BOOLEAN
      /\ \A m \in CFGNodes : \A x \in succs[m] : x \in CFGNodes
  BY <1>t, ElementTypes
<1>c. /\ CFGNodes' = CFGNodes /\ succs' = succs
      /\ index_count \in Nat /\ Digraph(succs)
      /\ \A m \in CFGNodes : -1 <= index[m] /\ index[m] < index_count
  BY <1>t DEF CFGNodes, TraverseFacts, TarjanType
<1>m. /\ index'[n] = index_count /\ lowlink'[n] = index_count /\ onStack'[n]
      /\ \A m \in CFGNodes : m # n =>
           /\ index'[m] = index[m]
           /\ lowlink'[m] = lowlink[m]
           /\ onStack'[m] = onStack[m]
  BY <1>t DEF TraverseFacts
<1>u. L + 1 # L /\ 1 .. L + 1 = (1 .. L) \cup {L + 1}
  <2> HIDE DEF L
  <2> QED
    BY <1>e
<1>k. /\ Len(calls') = L + 1
      /\ \A i \in 1 .. L :
           /\ calls'[i].n = calls[i].n
           /\ calls'[i].todo = IF i = L THEN calls[i].todo \ {n} ELSE calls[i].todo
      /\ calls'[L + 1].n = n
      /\ calls'[L + 1].todo = succs[n]
      /\ L + 1 # L
      /\ 1 .. L + 1 = (1 .. L) \cup {L + 1}
  <2>1. /\ Len(calls') = L + 1
        /\ \A i \in 1 .. L :
             /\ calls'[i].n = calls[i].n
             /\ calls'[i].todo = IF i = L THEN calls[i].todo \ {n} ELSE calls[i].todo
        /\ calls'[L + 1].n = n
        /\ calls'[L + 1].todo = succs[n]
    BY <1>t DEF TraverseFacts
  <2> HIDE DEF L
  <2> QED
    BY <2>1, <1>u
<1>s. /\ Len(stack') = Len(stack) + 1
      /\ \A i \in 1 .. Len(stack) : stack'[i] = stack[i]
      /\ stack'[Len(stack) + 1] = n
      /\ 1 .. Len(stack) + 1 = (1 .. Len(stack)) \cup {Len(stack) + 1}
  BY <1>t, <1>e DEF TraverseFacts
<1>i. /\ Numbered /\ StackOrdered /\ CallsOrdered /\ LaterReached /\ CallReached
      /\ LowlinkReached /\ AllSeen /\ LowlinkLowest /\ PoppedClosed /\ Collected
      /\ ReturnedLast
  BY DEF TarjanInvariant
<1>n. ~onStack[n]
  BY <1>i DEF Numbered
<1>h. L # 0 => n \in calls[L].todo /\ n \in succs[calls[L].n] /\ calls[L].n \in CFGNodes
  BY <1>e, <1>i DEF Resumed, Innermost, CallsOrdered
<1>p. \A m \in CFGNodes : WasPopped(m)' <=> WasPopped(m)
  BY <1>m, <1>n, <1>c DEF WasPopped
\* The callers are other nodes.
<1>q. \A i \in 1 .. L :
        /\ calls'[i].n = calls[i].n /\ calls[i].n \in CFGNodes /\ calls[i].n # n
        /\ onStack[calls[i].n] /\ onStack'[calls'[i].n]
        /\ index'[calls'[i].n] = index[calls[i].n]
        /\ lowlink'[calls'[i].n] = lowlink[calls[i].n]
        /\ index[calls[i].n] < index_count
  <2> SUFFICES ASSUME NEW i \in 1 .. L
               PROVE  /\ calls'[i].n = calls[i].n /\ calls[i].n \in CFGNodes /\ calls[i].n # n
                      /\ onStack[calls[i].n] /\ onStack'[calls'[i].n]
                      /\ index'[calls'[i].n] = index[calls[i].n]
                      /\ lowlink'[calls'[i].n] = lowlink[calls[i].n]
                      /\ index[calls[i].n] < index_count
    OBVIOUS
  <2>1. calls'[i].n = calls[i].n /\ calls[i].n \in CFGNodes
    BY <1>k, <1>e
  <2>2. onStack[calls[i].n]
    BY <1>i DEF CallsOrdered
  <2>3. calls[i].n # n
    BY <2>2, <1>n
  <2> HIDE DEF L
  <2> QED
    BY <2>1, <2>2, <2>3, <1>m, <1>c
<1> HIDE DEF L
<1>1. Numbered'
  BY <1>i, <1>c, <1>m, <1>e DEF Numbered
<1>2. StackOrdered'
  <2>1. \A i, j \in 1 .. Len(stack) + 1 : i < j => index'[stack'[i]] < index'[stack'[j]]
    <3>1. \A i \in 1 .. Len(stack) : stack'[i] # n
      BY <1>i, <1>n, <1>s, <1>e DEF StackOrdered
    <3>2. \A i \in 1 .. Len(stack) : index'[stack'[i]] = index[stack[i]] /\ index[stack[i]] < index_count
      BY <3>1, <1>s, <1>m, <1>e, <1>c
    <3>3. index'[stack'[Len(stack) + 1]] = index_count
      BY <1>s, <1>m
    <3> QED
      BY <3>2, <3>3, <1>s, <1>e, <1>i DEF StackOrdered
  <2>2. \A i \in 1 .. Len(stack) + 1 : onStack'[stack'[i]]
    BY <1>i, <1>s, <1>m, <1>e DEF StackOrdered
  <2>3. \A m \in CFGNodes : onStack'[m] => \E i \in 1 .. Len(stack) + 1 : stack'[i] = m
    BY <1>i, <1>s, <1>m, <1>e DEF StackOrdered
  <2> QED
    BY <2>1, <2>2, <2>3, <1>s, <1>c DEF StackOrdered
<1>3. CallsOrdered'
  <2>2. index'[calls'[L + 1].n] = index_count /\ onStack'[calls'[L + 1].n]
    BY <1>k, <1>m
  <2>3. \A i \in 1 .. L + 1 : onStack'[calls'[i].n] /\ calls'[i].todo \subseteq succs[calls'[i].n]
    BY <1>q, <2>2, <1>k, <1>i DEF CallsOrdered, L
  <2>4. \A i, j \in 1 .. L + 1 : i < j => index'[calls'[i].n] < index'[calls'[j].n]
    BY <1>q, <2>2, <1>k, <1>i, <1>e DEF CallsOrdered, L
  <2>5. \A m \in CFGNodes : onStack'[m] => calls' # <<>> /\ index'[calls'[1].n] <= index'[m]
    <3>1. calls' # <<>>
      BY <1>k, <1>e, <1>t, ElementTypes
    <3>2. CASE L = 0
      <4>1. \A m \in CFGNodes : ~onStack[m]
        BY <3>2, <1>e, <1>i DEF CallsOrdered
      <4> QED
        BY <4>1, <3>1, <3>2, <1>k, <1>m, <1>c
    <3>3. CASE L # 0
      <4>1. 1 \in 1 .. L
        BY <3>3, <1>e
      <4>2. \A m \in CFGNodes : onStack[m] => index[calls[1].n] <= index[m]
        BY <1>i DEF CallsOrdered
      <4> QED
        BY <4>1, <4>2, <1>q, <3>1, <1>m, <1>c, <1>e
    <3> QED
      BY <3>2, <3>3
  <2> QED
    BY <2>3, <2>4, <2>5, <1>k, <1>c DEF CallsOrdered
\* Every open node leads to the new one.
<1>r. \A m \in CFGNodes : onStack[m] => L # 0 /\ Leads(succs, m, calls[L].n) /\ Leads(succs, m, n)
  <2> SUFFICES ASSUME NEW m \in CFGNodes, onStack[m]
               PROVE  L # 0 /\ Leads(succs, m, calls[L].n) /\ Leads(succs, m, n)
    OBVIOUS
  <2>1. L # 0
    BY <1>e, <1>i DEF CallsOrdered
  <2>2. Leads(succs, m, calls[L].n)
    BY <2>1, <1>e, <1>i DEF CallReached, BelowNext, L
  <2>3. Leads(succs, m, n)
    BY <2>1, <2>2, <1>h, <1>c, LeadsOn DEF CFGNodes
  <2> QED
    BY <2>1, <2>2, <2>3
<1>4. LaterReached'
  <2>1. Leads(succs, n, n)
    BY <1>c, LeadsToItself DEF CFGNodes
  <2> SUFFICES ASSUME NEW m \in CFGNodes, NEW k \in CFGNodes,
                      onStack'[m], onStack'[k], index'[m] <= index'[k]
               PROVE  Leads(succs, m, k)
    BY <1>c DEF LaterReached
  <2>2. CASE k = n
    BY <2>1, <2>2, <1>r, <1>m
  <2>3. CASE k # n /\ m = n
    BY <2>3, <1>m, <1>c, <1>e
  <2>4. CASE k # n /\ m # n
    BY <2>4, <1>m, <1>i DEF LaterReached
  <2> QED
    BY <2>2, <2>3, <2>4
<1>5. CallReached'
  <2> SUFFICES ASSUME NEW m \in CFGNodes, NEW i \in 1 .. L + 1, onStack'[m], BelowNext(m, i)'
               PROVE  Leads(succs, m, calls'[i].n)
    BY <1>c, <1>k DEF CallReached
  <2>1. CASE m = n
    <3>1. i = L + 1
      <4> SUFFICES ASSUME i \in 1 .. L PROVE FALSE
        BY <1>k
      <4>1. i + 1 \in 1 .. L + 1 /\ i # L + 1
        BY <1>e DEF L
      <4>2. index'[n] < index'[calls'[i + 1].n]
        BY <2>1, <4>1, <1>k DEF BelowNext
      <4>3. calls'[i + 1].n \in CFGNodes
        BY <4>1, <1>k, <1>e DEF L
      <4>4. index'[calls'[i + 1].n] <= index_count /\ index'[calls'[i + 1].n] \in Int
        BY <4>3, <1>m, <1>c, <1>e
      <4> QED
        BY <4>2, <4>4, <1>m, <1>c
    <3> QED
      BY <3>1, <2>1, <1>k, <1>c, LeadsToItself DEF CFGNodes
  <2>2. CASE m # n /\ i = L + 1
    BY <2>2, <1>k, <1>m, <1>r
  <2>3. CASE m # n /\ i = L
    BY <2>3, <1>k, <1>m, <1>r
  <2>4. CASE m # n /\ i \in 1 .. L /\ i # L
    <3>1. i + 1 \in 1 .. L /\ i # L + 1
      BY <2>4, <1>e DEF L
    <3>2. index'[calls'[i + 1].n] = index[calls[i + 1].n]
      BY <3>1, <1>q
    <3>3. BelowNext(m, i)
      BY <2>4, <3>1, <3>2, <1>k, <1>m DEF BelowNext, L
    <3> QED
      BY <2>4, <3>3, <1>k, <1>m, <1>i DEF CallReached, L
  <2> QED
    BY <2>1, <2>2, <2>3, <2>4, <1>k
<1>6. LowlinkReached'
  <2> SUFFICES ASSUME NEW v \in CFGNodes, onStack'[v]
               PROVE  \E w \in CFGNodes : LowlinkIs(v, w)'
    BY <1>c DEF LowlinkReached
  <2>1. CASE v = n
    <3>1. LowlinkIs(v, n)'
      BY <2>1, <1>m, <1>c, LeadsToItself DEF LowlinkIs, CFGNodes
    <3> QED
      BY <3>1
  <2>2. CASE v # n
    <3>1. PICK w \in CFGNodes : LowlinkIs(v, w)
      BY <2>2, <1>m, <1>i DEF LowlinkReached
    <3>2. w # n
      BY <3>1, <1>n DEF LowlinkIs
    <3>3. LowlinkIs(v, w)'
      BY <2>2, <3>1, <3>2, <1>m, <1>c DEF LowlinkIs
    <3> QED
      BY <3>3
  <2> QED
    BY <2>1, <2>2
\* Who waits for a node other than n still does.
<1>w. \A v \in CFGNodes : \A x \in CFGNodes : x # n /\ Waits(v, x) => Waits(v, x)'
  <2> SUFFICES ASSUME NEW v \in CFGNodes, NEW x \in CFGNodes, x # n, Waits(v, x)
               PROVE  Waits(v, x)'
    OBVIOUS
  <2>1. PICK i \in 1 .. L : calls[i].n = v /\ x \in calls[i].todo
    BY DEF Waits, L
  <2>2. i \in 1 .. L + 1 /\ calls'[i].n = v /\ x \in calls'[i].todo
    BY <2>1, <1>k
  <2> QED
    BY <2>2, <1>k DEF Waits
<1>v. \A x \in succs[n] : Waits(n, x)'
  <2>1. L + 1 \in 1 .. L + 1
    BY <1>k
  <2> QED
    BY <2>1, <1>k DEF Waits
<1>7. AllSeen'
  <2> SUFFICES ASSUME NEW v \in CFGNodes, NEW x \in succs[v], index'[v] # -1, index'[x] = -1
               PROVE  Waits(v, x)'
    BY <1>c DEF AllSeen
  <2>1. x \in CFGNodes /\ x # n /\ index[x] = -1
    BY <1>e, <1>m, <1>c
  <2>2. CASE v = n
    BY <2>2, <1>v
  <2>3. CASE v # n
    BY <2>1, <2>3, <1>w, <1>m, <1>i DEF AllSeen
  <2> QED
    BY <2>2, <2>3
<1>8. LowlinkLowest'
  <2> SUFFICES ASSUME NEW v \in CFGNodes, NEW x \in succs[v], onStack'[v], onStack'[x],
                      ~Waits(v, x)', NEW i \in 1 .. L + 1,
                      index'[calls'[i].n] <= index'[v], BelowNext(v, i)'
               PROVE  lowlink'[calls'[i].n] <= index'[x]
    BY <1>c, <1>k DEF LowlinkLowest
  <2>1. v # n /\ x \in CFGNodes
    BY <1>v, <1>e
  <2>2. onStack[v] /\ index'[v] = index[v] /\ index[v] < index_count
    BY <2>1, <1>m, <1>c
  <2>3. i \in 1 .. L
    <3> SUFFICES ASSUME i = L + 1 PROVE FALSE
      BY <1>k
    <3>1. index'[calls'[i].n] = index_count
      BY <1>k, <1>m
    <3> QED
      BY <2>2, <3>1, <1>c, <1>e
  <2>4. /\ calls'[i].n = calls[i].n /\ calls[i].n \in CFGNodes /\ calls[i].n # n
        /\ index'[calls'[i].n] = index[calls[i].n]
        /\ lowlink'[calls'[i].n] = lowlink[calls[i].n]
    BY <2>3, <1>q
  <2>5. CASE x = n
    <3>1. onStack[calls[i].n]
      BY <2>3, <1>i DEF CallsOrdered, L
    <3>2. PICK w \in CFGNodes : LowlinkIs(calls[i].n, w)
      BY <3>1, <2>4, <1>i DEF LowlinkReached
    <3>3. lowlink[calls[i].n] = index[w] /\ index[w] < index_count /\ index'[x] = index_count
      BY <3>2, <2>5, <1>m, <1>c DEF LowlinkIs
    <3> QED
      BY <3>3, <2>4, <1>c, <1>e
  <2>6. CASE x # n
    <3>1. onStack[x] /\ index'[x] = index[x] /\ ~Waits(v, x)
      BY <2>1, <2>6, <1>m, <1>w
    <3>2. BelowNext(v, i)
      <4>1. CASE i = L
        BY <4>1 DEF BelowNext, L
      <4>2. CASE i # L
        <5>1. i + 1 \in 1 .. L /\ i # L + 1
          BY <2>3, <4>2, <1>e DEF L
        <5>2. index'[calls'[i + 1].n] = index[calls[i + 1].n]
          BY <5>1, <1>q
        <5> QED
          BY <5>1, <5>2, <2>2, <1>k DEF BelowNext, L
      <4> QED
        BY <4>1, <4>2
    <3> QED
      BY <2>2, <2>3, <2>4, <3>1, <3>2, <1>i DEF LowlinkLowest, L
  <2> QED
    BY <2>5, <2>6
<1>9. PoppedClosed'
  BY <1>p, <1>c, <1>e, <1>i DEF PoppedClosed
<1>10. Collected'
  <2>1. \A c \in LargeMates(succs) : \A m \in c : m \in CFGNodes
    BY DEF LargeMates, Mates, CFGNodes
  <2>2. result' = result
    BY <1>t DEF TraverseFacts
  <2> QED
    BY <2>1, <2>2, <1>p, <1>c, <1>i DEF Collected
<1>11. ReturnedLast'
  <2>1. ~returned /\ returned' = returned
    BY <1>t, <1>i DEF ReturnedLast, TraverseFacts
  <2> QED
    BY <2>1 DEF ReturnedLast
<1> QED
  BY <1>t, <1>1, <1>2, <1>3, <1>4, <1>5, <1>6, <1>7, <1>8, <1>9, <1>10, <1>11 DEF TarjanInvariant

\* The innermost call looks at a node visited before: its own lowlink may fall
\* to the index of that node, which it leads to.
LEMMA SeeKeeps ==
  ASSUME TarjanInvariant, SeeSuccessor
  PROVE  TarjanInvariant'
<1> DEFINE L == Len(calls)
           u == calls[L].n
<1>t. TarjanType
  BY DEF TarjanInvariant
<1>0. calls # <<>>
  BY DEF SeeSuccessor
<1>a. PICK su \in Innermost.todo :
        /\ index[su] # -1
        /\ lowlink' = [lowlink EXCEPT ![u] =
                         IF onStack[su] THEN SmallestOf(index[su], @) ELSE @]
        /\ calls' = Past(su)
  BY DEF SeeSuccessor, StillOpen, Innermost
<1>b. /\ succs' = succs /\ index' = index /\ onStack' = onStack
      /\ index_count' = index_count /\ stack' = stack /\ result' = result
      /\ returned' = returned
      /\ CFGNodes' = CFGNodes
  BY DEF SeeSuccessor, CFGNodes
<1>e. /\ L \in Nat /\ L # 0
      /\ \A i \in 1 .. L : calls[i].n \in CFGNodes /\ calls[i].todo \subseteq CFGNodes
      /\ \A m \in CFGNodes : /\ index[m] \in Int /\ lowlink[m] \in Int
                             /\ onStack[m] \in BOOLEAN
      /\ \A m \in CFGNodes : \A x \in succs[m] : x \in CFGNodes
  BY <1>0, <1>t, ElementTypes
<1>k. /\ calls' \in Calls /\ Len(calls') = L
      /\ \A i \in 1 .. L :
           /\ calls'[i].n = calls[i].n
           /\ calls'[i].todo = IF i = L THEN calls[i].todo \ {su} ELSE calls[i].todo
  BY <1>0, <1>a, <1>t, PastResumes DEF Resumed
<1>i. /\ Numbered /\ StackOrdered /\ CallsOrdered /\ LaterReached /\ CallReached
      /\ LowlinkReached /\ AllSeen /\ LowlinkLowest /\ PoppedClosed /\ Collected
      /\ ReturnedLast
  BY DEF TarjanInvariant
<1>h. /\ L \in 1 .. L /\ u \in CFGNodes /\ onStack[u]
      /\ su \in calls[L].todo /\ su \in succs[u] /\ su \in CFGNodes
  <2>1. L \in 1 .. L
    BY <1>e
  <2>2. u \in CFGNodes /\ onStack[u] /\ su \in succs[u]
    BY <2>1, <1>a, <1>e, <1>i DEF CallsOrdered, Innermost
  <2> QED
    BY <2>1, <2>2, <1>a, <1>e DEF Innermost
<1>l. /\ lowlink' \in [CFGNodes -> Int]
      /\ \A m \in CFGNodes : m # u => lowlink'[m] = lowlink[m]
      /\ lowlink'[u] <= lowlink[u]
      /\ lowlink'[u] = lowlink[u] \/ (onStack[su] /\ lowlink'[u] = index[su])
      /\ onStack[su] => lowlink'[u] <= index[su]
  <2> HIDE DEF u
  <2>1. lowlink \in [CFGNodes -> Int]
    BY <1>t DEF TarjanType
  <2>2. lowlink'[u] = IF onStack[su] THEN SmallestOf(index[su], lowlink[u]) ELSE lowlink[u]
    BY <2>1, <1>a, <1>h
  <2>3. lowlink'[u] \in Int /\ lowlink[u] \in Int /\ index[su] \in Int
    BY <2>2, <1>h, <1>e DEF SmallestOf
  <2>4. /\ lowlink' \in [CFGNodes -> Int]
        /\ \A m \in CFGNodes : m # u => lowlink'[m] = lowlink[m]
    BY <2>1, <2>2, <2>3, <1>a
  <2>5. CASE onStack[su]
    BY <2>2, <2>3, <2>4, <2>5 DEF SmallestOf
  <2>6. CASE ~onStack[su]
    BY <2>2, <2>3, <2>4, <2>6
  <2> QED
    BY <2>5, <2>6
<1>x. Leads(succs, u, su)
  BY <1>h, <1>t, LeadsAlong DEF TarjanType, CFGNodes
<1> HIDE DEF L
<1>1. TarjanType'
  BY <1>t, <1>b, <1>k, <1>l DEF TarjanType, Calls
<1>2. Numbered' /\ StackOrdered' /\ LaterReached'
  BY <1>i, <1>b DEF Numbered, StackOrdered, LaterReached
<1>3. CallsOrdered'
  <2>1. calls' # <<>> /\ 1 \in 1 .. L
    BY <1>1, <1>k, <1>e, ElementTypes
  <2> QED
    BY <2>1, <1>i, <1>b, <1>k DEF CallsOrdered, L
<1>n. \A m \in CFGNodes : \A i \in 1 .. L : BelowNext(m, i)' <=> BelowNext(m, i)
  <2> SUFFICES ASSUME NEW m \in CFGNodes, NEW i \in 1 .. L
               PROVE  BelowNext(m, i)' <=> BelowNext(m, i)
    OBVIOUS
  <2>1. CASE i = L
    BY <2>1, <1>k DEF BelowNext, L
  <2>2. CASE i # L
    <3>1. i + 1 \in 1 .. L
      BY <2>2, <1>e
    <3> QED
      BY <2>2, <3>1, <1>k, <1>b DEF BelowNext, L
  <2> QED
    BY <2>1, <2>2
<1>4. CallReached'
  BY <1>n, <1>i, <1>b, <1>k DEF CallReached, L
<1>5. LowlinkReached'
  <2> SUFFICES ASSUME NEW v \in CFGNodes, onStack[v]
               PROVE  \E w \in CFGNodes : LowlinkIs(v, w)'
    BY <1>b DEF LowlinkReached
  <2>1. PICK w \in CFGNodes : LowlinkIs(v, w)
    BY <1>i DEF LowlinkReached
  <2>2. CASE lowlink'[v] = lowlink[v]
    <3>1. LowlinkIs(v, w)'
      BY <2>1, <2>2, <1>b DEF LowlinkIs
    <3> QED
      BY <3>1
  <2>3. CASE lowlink'[v] # lowlink[v]
    <3>1. v = u /\ onStack[su] /\ lowlink'[v] = index[su]
      BY <2>3, <1>l
    <3>2. index[su] <= index[v]
      <4>1. lowlink[v] <= index[v] /\ index[su] <= lowlink[v]
        BY <2>1, <3>1, <1>l DEF LowlinkIs
      <4> HIDE DEF u
      <4> QED
        BY <4>1, <1>e, <1>h
    <3>3. LowlinkIs(v, su)'
      BY <3>1, <3>2, <1>b, <1>x DEF LowlinkIs
    <3> QED
      BY <3>3, <1>h
  <2> QED
    BY <2>2, <2>3
\* Only the innermost call stops waiting, and only for su.
<1>w. \A v \in CFGNodes : \A x \in CFGNodes :
        Waits(v, x) => Waits(v, x)' \/ (v = u /\ x = su)
  <2> SUFFICES ASSUME NEW v \in CFGNodes, NEW x \in CFGNodes, Waits(v, x),
                      ~(v = u /\ x = su)
               PROVE  Waits(v, x)'
    OBVIOUS
  <2>1. PICK i \in 1 .. L : calls[i].n = v /\ x \in calls[i].todo
    BY DEF Waits, L
  <2>2. ~(i = L /\ x = su)
    BY <2>1
  <2>3. calls'[i].n = v /\ x \in calls'[i].todo
    BY <2>1, <2>2, <1>k
  <2> QED
    BY <2>3, <1>k DEF Waits
<1>6. AllSeen'
  <2> SUFFICES ASSUME NEW v \in CFGNodes, NEW x \in succs[v], index[v] # -1, index[x] = -1
               PROVE  Waits(v, x)'
    BY <1>b DEF AllSeen
  <2>1. x # su /\ Waits(v, x)
    BY <1>a, <1>i DEF AllSeen
  <2> QED
    BY <2>1, <1>w, <1>e
<1>7. LowlinkLowest'
  <2> SUFFICES ASSUME NEW v \in CFGNodes, NEW x \in succs[v], onStack[v], onStack[x],
                      ~Waits(v, x)', NEW i \in 1 .. L,
                      index[calls[i].n] <= index[v], BelowNext(v, i)
               PROVE  lowlink'[calls[i].n] <= index[x]
    BY <1>b, <1>k, <1>n DEF LowlinkLowest
  <2>1. /\ calls[i].n \in CFGNodes /\ x \in CFGNodes
        /\ lowlink'[calls[i].n] <= lowlink[calls[i].n]
        /\ lowlink'[calls[i].n] \in Int
    <3>1. calls[i].n \in CFGNodes /\ x \in CFGNodes
      BY <1>e
    <3>2. lowlink'[calls[i].n] \in Int
      BY <3>1, <1>l
    <3> QED
      BY <3>1, <3>2, <1>l, <1>e
  <2>2. CASE ~Waits(v, x)
    <3>1. lowlink[calls[i].n] <= index[x]
      BY <2>2, <1>i DEF LowlinkLowest, L
    <3> QED
      BY <3>1, <2>1, <1>e
  <2>3. CASE Waits(v, x)
    <3>1. v = u /\ x = su
      BY <2>3, <2>1, <1>w
    <3>2. i = L
      <4> SUFFICES ASSUME i # L PROVE FALSE
        OBVIOUS
      <4>1. i + 1 \in 1 .. L
        BY <1>e
      <4>2. index[u] < index[calls[i + 1].n]
        BY <3>1, <4>1 DEF BelowNext, L
      <4>3. i + 1 = L \/ index[calls[i + 1].n] < index[u]
        BY <4>1, <1>h, <1>e, <1>i DEF CallsOrdered, L
      <4>4. calls[i + 1].n \in CFGNodes /\ index[calls[i + 1].n] \in Int /\ index[u] \in Int
        BY <4>1, <1>h, <1>e
      <4>5. i + 1 # L
        <5> SUFFICES ASSUME i + 1 = L PROVE FALSE
          OBVIOUS
        <5>1. calls[i + 1].n = u
          OBVIOUS
        <5> HIDE DEF u
        <5> QED
          BY <5>1, <4>2, <4>4
      <4> HIDE DEF u
      <4> QED
        BY <4>2, <4>3, <4>4, <4>5
    <3> QED
      BY <3>1, <3>2, <1>l
  <2> QED
    BY <2>2, <2>3
<1>8. PoppedClosed' /\ Collected' /\ ReturnedLast'
  <2>1. ~returned
    BY <1>0, <1>i DEF ReturnedLast
  <2> QED
    BY <2>1, <1>b, <1>i DEF PoppedClosed, Collected, ReturnedLast, WasPopped
<1> QED
  BY <1>1, <1>2, <1>3, <1>4, <1>5, <1>6, <1>7, <1>8 DEF TarjanInvariant

-----------------------------------------------------------------------------
\* What stands on the stack from n upwards is the open nodes as late as n: as
\* many as the stack loses.
Piece(n) == {m \in CFGNodes : onStack[m] /\ index[n] <= index[m]}

LEMMA PoppedIsPiece ==
  ASSUME TarjanType, StackOrdered, NEW n \in CFGNodes, onStack[n]
  PROVE  /\ PoppedWith(n) = Piece(n)
         /\ \E k \in 1 .. Len(stack) :
              /\ Len(stack) - Cardinality(Piece(n)) = k - 1
              /\ \A i \in 1 .. Len(stack) : stack[i] \in Piece(n) <=> k <= i
<1>e. /\ Len(stack) \in Nat
      /\ \A i \in 1 .. Len(stack) : stack[i] \in CFGNodes
      /\ \A m \in CFGNodes : index[m] \in Int
  BY ElementTypes
<1>o. /\ \A i, j \in 1 .. Len(stack) : i < j => index[stack[i]] < index[stack[j]]
      /\ \A i \in 1 .. Len(stack) : onStack[stack[i]]
      /\ \A m \in CFGNodes : onStack[m] => \E i \in 1 .. Len(stack) : stack[i] = m
  BY DEF StackOrdered
<1>1. PICK k \in 1 .. Len(stack) : stack[k] = n
  BY <1>o
<1>2. \A i \in 1 .. Len(stack) : (index[n] <= index[stack[i]]) <=> (k <= i)
  <2> SUFFICES ASSUME NEW i \in 1 .. Len(stack)
               PROVE  (index[n] <= index[stack[i]]) <=> (k <= i)
    OBVIOUS
  <2>1. index[stack[i]] \in Int /\ index[n] \in Int /\ i \in Int /\ k \in Int
    BY <1>e
  <2>2. CASE i = k
    BY <2>1, <2>2, <1>1
  <2>3. CASE i < k
    BY <2>1, <2>3, <1>1, <1>o
  <2>4. CASE k < i
    BY <2>1, <2>4, <1>1, <1>o
  <2> QED
    BY <2>1, <2>2, <2>3, <2>4
<1>3. \A i \in 1 .. Len(stack) : stack[i] = n => i = k
  <2> SUFFICES ASSUME NEW i \in 1 .. Len(stack), stack[i] = n PROVE i = k
    OBVIOUS
  <2>1. i < k \/ i = k \/ k < i
    BY <1>e
  <2>2. index[stack[i]] = index[stack[k]] /\ index[stack[i]] \in Int
    BY <1>1, <1>e
  <2> QED
    BY <2>1, <2>2, <1>o
<1>4. PoppedWith(n) = {stack[i] : i \in k .. Len(stack)}
  <2>1. {i \in 1 .. Len(stack) : stack[i] = n} = {k}
    BY <1>1, <1>3
  <2>2. Min({k}) = k
    BY <1>e DEF Min
  <2> QED
    BY <2>1, <2>2 DEF PoppedWith, SelectInSeq
<1>5. \A i \in 1 .. Len(stack) : stack[i] \in Piece(n) <=> k <= i
  BY <1>2, <1>e, <1>o DEF Piece
<1>6. \A i \in k .. Len(stack) : i \in 1 .. Len(stack) /\ k <= i
  BY <1>e
<1>7. PoppedWith(n) = Piece(n)
  <2>1. ASSUME NEW m \in PoppedWith(n) PROVE m \in Piece(n)
    BY <1>4, <1>5, <1>6
  <2>2. ASSUME NEW m \in Piece(n) PROVE m \in PoppedWith(n)
    <3>1. PICK i \in 1 .. Len(stack) : stack[i] = m
      BY <1>o DEF Piece
    <3>2. i \in k .. Len(stack)
      BY <3>1, <1>5, <1>e
    <3> QED
      BY <3>1, <3>2, <1>4
  <2> QED
    BY <2>1, <2>2
<1>8. Cardinality(Piece(n)) = Len(stack) - k + 1
  <2> DEFINE I == k .. Len(stack)
             f == [i \in I |-> stack[i]]
  <2>1. IsFiniteSet(I) /\ Cardinality(I) = Len(stack) - k + 1
    BY <1>e, FS_Interval
  <2>2. ASSUME NEW i \in I, NEW j \in I, stack[i] = stack[j] PROVE i = j
    <3>1. i < j \/ i = j \/ j < i
      BY <1>e
    <3>2. index[stack[i]] = index[stack[j]] /\ index[stack[i]] \in Int
      BY <2>2, <1>6, <1>e
    <3> QED
      BY <3>1, <3>2, <1>6, <1>o
  <2>3. f \in Bijection(I, Piece(n))
    <3>1. f \in [I -> Piece(n)]
      BY <1>4, <1>7
    <3>2. \A m \in Piece(n) : \E i \in I : f[i] = m
      BY <1>4, <1>7
    <3>3. \A i, j \in I : f[i] = f[j] => i = j
      BY <2>2
    <3> HIDE DEF f, I
    <3> QED
      BY <3>1, <3>2, <3>3 DEF Bijection, Injection, Surjection, IsInjective
  <2>4. ExistsBijection(I, Piece(n))
    <3> HIDE DEF f, I
    <3> QED
      BY <2>3 DEF ExistsBijection
  <2> HIDE DEF f, I
  <2> QED
    BY <2>1, <2>4, FS_Bijection
<1>9. Len(stack) - Cardinality(Piece(n)) = k - 1
  BY <1>8, <1>e
<1> QED
  BY <1>5, <1>7, <1>9

\* What the end of the innermost call, for u, does to each node, to the stack
\* and to the calls.  A call whose lowlink is its index removes its piece.
Gone(u, m) == index[u] = lowlink[u] /\ m \in Piece(u)

EndFacts(u) ==
  /\ succs' = succs /\ index' = index /\ index_count' = index_count
  /\ returned' = returned
  /\ \A m \in CFGNodes : onStack'[m] <=> onStack[m] /\ ~Gone(u, m)
  /\ \E k \in 0 .. Len(stack) :
       /\ Len(stack') = k
       /\ \A i \in 1 .. k : stack'[i] = stack[i]
       /\ \A i \in 1 .. Len(stack) : Gone(u, stack[i]) <=> k < i
  /\ IF index[u] = lowlink[u] /\ Cardinality(Piece(u)) >= 2
     THEN result' = result \cup {Piece(u)} ELSE result' = result
  /\ Len(calls') = Len(calls) - 1
  /\ \A i \in 1 .. Len(calls) - 1 : calls'[i] = calls[i]
  /\ \A m \in CFGNodes : lowlink'[m] =
       IF Len(calls) # 1 /\ m = calls[Len(calls) - 1].n
       THEN SmallestOf(lowlink[u], lowlink[m]) ELSE lowlink[m]

LEMMA EndTypes ==
  ASSUME TarjanType, StackOrdered, CallsOrdered, EndTraverse
  PROVE  TarjanType' /\ EndFacts(Innermost.n)
<1> DEFINE L == Len(calls)
           u == Innermost.n
           set == IF index[u] = lowlink[u] THEN PoppedWith(u) ELSE {}
<1>1. /\ calls # <<>>
      /\ stack' = SubSeq(stack, 1, Len(stack) - Cardinality(set))
      /\ onStack' = [m \in CFGNodes |-> onStack[m] /\ m \notin set]
      /\ result' = IF Cardinality(set) >= 2 THEN result \cup {set} ELSE result
      /\ lowlink' = LowlinkToCaller(u)
      /\ calls' = Front(calls)
      /\ succs' = succs /\ index' = index /\ index_count' = index_count
      /\ returned' = returned
  BY DEF EndTraverse
<1>c. CFGNodes' = CFGNodes
  BY <1>1 DEF CFGNodes
<1>e. /\ L \in Nat /\ L # 0 /\ L \in 1 .. L
      /\ \A i \in 1 .. L : calls[i].n \in CFGNodes
      /\ Len(stack) \in Nat
      /\ \A i \in 1 .. Len(stack) : stack[i] \in CFGNodes
      /\ \A m \in CFGNodes : index[m] \in Int /\ lowlink[m] \in Int /\ onStack[m] \in BOOLEAN
  BY <1>1, ElementTypes
<1>2. u \in CFGNodes /\ onStack[u]
  BY <1>e DEF CallsOrdered, Innermost
<1>3. set = {m \in CFGNodes : Gone(u, m)}
  <2> HIDE DEF u
  <2> QED
    BY <1>2, PoppedIsPiece DEF Gone, Piece
<1>4. PICK k \in 0 .. Len(stack) :
        /\ Len(stack) - Cardinality(set) = k
        /\ \A i \in 1 .. Len(stack) : Gone(u, stack[i]) <=> k < i
  <2> HIDE DEF u
  <2>1. CASE index[u] = lowlink[u]
    <3>1. PICK j \in 1 .. Len(stack) :
            /\ Len(stack) - Cardinality(Piece(u)) = j - 1
            /\ \A i \in 1 .. Len(stack) : stack[i] \in Piece(u) <=> j <= i
      BY <1>2, PoppedIsPiece
    <3>2. set = Piece(u)
      BY <2>1, <1>2, PoppedIsPiece
    <3>3. /\ Len(stack) - Cardinality(set) = j - 1
          /\ \A i \in 1 .. Len(stack) : Gone(u, stack[i]) <=> j - 1 < i
      BY <2>1, <3>1, <3>2, <1>e DEF Gone
    <3>4. j - 1 \in 0 .. Len(stack)
      BY <1>e
    <3> QED
      BY <3>3, <3>4
  <2>2. CASE index[u] # lowlink[u]
    <3>1. set = {} /\ Cardinality(set) = 0
      BY <2>2, FS_EmptySet
    <3>2. Len(stack) \in 0 .. Len(stack) /\ Len(stack) - 0 = Len(stack)
      BY <1>e
    <3>3. \A i \in 1 .. Len(stack) : ~Gone(u, stack[i]) /\ ~(Len(stack) < i)
      BY <2>2, <1>e DEF Gone
    <3> QED
      BY <3>1, <3>2, <3>3
  <2> QED
    BY <2>1, <2>2
<1>5. /\ stack' \in Seq(CFGNodes) /\ Len(stack') = k
      /\ \A i \in 1 .. k : stack'[i] = stack[i]
  <2>1. stack' = SubSeq(stack, 1, k)
    BY <1>1, <1>4
  <2>2. stack \in Seq(CFGNodes) /\ k \in Nat /\ k <= Len(stack) /\ k - 1 + 1 = k
    BY <1>e DEF TarjanType
  <2>3. \A i \in 1 .. k : stack[i] \in CFGNodes /\ 1 + i - 1 = i
    BY <2>2, <1>e
  <2>4. /\ SubSeq(stack, 1, k) \in Seq(CFGNodes)
        /\ Len(SubSeq(stack, 1, k)) = IF 1 <= k THEN k - 1 + 1 ELSE 0
        /\ \A i \in 1 .. k - 1 + 1 : SubSeq(stack, 1, k)[i] = stack[1 + i - 1]
    BY <2>2, <2>3, SubSeqProperties
  <2> QED
    BY <2>1, <2>2, <2>3, <2>4
<1>6. calls' \in Calls /\ Len(calls') = L - 1 /\ \A i \in 1 .. L - 1 : calls'[i] = calls[i]
  <2> DEFINE C == [n : CFGNodes, todo : SUBSET CFGNodes]
  <2>1. calls \in Seq(C) /\ calls' = SubSeq(calls, 1, L - 1)
    BY <1>1 DEF TarjanType, Front
  <2> HIDE DEF C
  <2>2. \A i \in 1 .. L - 1 : calls[i] \in C /\ 1 + i - 1 = i
    BY <2>1, <1>e
  <2>3. L - 1 \in Nat /\ L - 1 - 1 + 1 = L - 1
    BY <1>e
  <2>4. /\ SubSeq(calls, 1, L - 1) \in Seq(C)
        /\ Len(SubSeq(calls, 1, L - 1)) = IF 1 <= L - 1 THEN L - 1 - 1 + 1 ELSE 0
        /\ \A i \in 1 .. L - 1 - 1 + 1 : SubSeq(calls, 1, L - 1)[i] = calls[1 + i - 1]
    BY <2>2, <2>3, SubSeqProperties
  <2>5. calls' \in Seq(C) /\ Len(calls') = L - 1 /\ \A i \in 1 .. L - 1 : calls'[i] = calls[i]
    <3> HIDE DEF L
    <3> QED
      BY <2>1, <2>2, <2>3, <2>4
  <2> QED
    BY <2>5 DEF Calls, C
<1>7. /\ lowlink' \in [CFGNodes -> Int]
      /\ \A m \in CFGNodes : lowlink'[m] =
           IF L # 1 /\ m = calls[L - 1].n
           THEN SmallestOf(lowlink[u], lowlink[m]) ELSE lowlink[m]
  <2> HIDE DEF u
  <2>1. lowlink \in [CFGNodes -> Int]
    BY DEF TarjanType
  <2>2. CASE L = 1
    BY <2>1, <2>2, <1>1 DEF LowlinkToCaller
  <2>3. CASE L # 1
    <3>1. L - 1 \in 1 .. L
      <4> HIDE DEF L
      <4> QED
        BY <2>3, <1>e
    <3>2. calls[L - 1].n \in CFGNodes
      BY <3>1, <1>e
    <3>3. lowlink' = [lowlink EXCEPT ![calls[L - 1].n] = SmallestOf(lowlink[u], @)]
      BY <2>3, <1>1 DEF LowlinkToCaller
    <3>4. SmallestOf(lowlink[u], lowlink[calls[L - 1].n]) \in Int
      BY <3>2, <1>2, <1>e DEF SmallestOf
    <3> QED
      BY <2>1, <2>3, <3>2, <3>3, <3>4
  <2> QED
    BY <2>2, <2>3
<1>8. /\ onStack' \in [CFGNodes -> BOOLEAN]
      /\ \A m \in CFGNodes : onStack'[m] <=> onStack[m] /\ ~Gone(u, m)
  <2> HIDE DEF set, u
  <2> QED
    BY <1>1, <1>3, <1>e
<1>9. IF index[u] = lowlink[u] /\ Cardinality(Piece(u)) >= 2
      THEN result' = result \cup {Piece(u)} ELSE result' = result
  <2> HIDE DEF u
  <2>1. CASE index[u] = lowlink[u]
    BY <2>1, <1>1, <1>2, PoppedIsPiece
  <2>2. CASE index[u] # lowlink[u]
    <3>1. set = {} /\ Cardinality(set) = 0
      BY <2>2, FS_EmptySet
    <3> QED
      BY <2>2, <3>1, <1>1
  <2> QED
    BY <2>1, <2>2
<1>10. TarjanType'
  BY <1>1, <1>c, <1>5, <1>6, <1>7, <1>8 DEF TarjanType, Calls
<1>11. EndFacts(u)
  <2> HIDE DEF u, set
  <2> QED
    BY <1>1, <1>4, <1>5, <1>6, <1>7, <1>8, <1>9 DEF EndFacts
<1> QED
  BY <1>10, <1>11

\* The mates of a call whose lowlink is its index are the nodes it removes.
LEMMA PieceIsWhole ==
  ASSUME Digraph(succs), NEW u \in CFGNodes, onStack[u], u \in Piece(u),
         \A m \in Piece(u) : Leads(succs, u, m) /\ Leads(succs, m, u),
         PoppedClosed,
         \A n \in CFGNodes : WasPopped(n) \/ n \in Piece(u) =>
           \A x \in succs[n] : WasPopped(x) \/ x \in Piece(u)
  PROVE  Piece(u) = Mates(succs, u)
<1>1. ASSUME NEW m \in Piece(u) PROVE m \in Mates(succs, u)
  BY <1>1 DEF Piece, Mates, CFGNodes
<1>2. ASSUME NEW m \in Mates(succs, u) PROVE m \in Piece(u)
  <2> DEFINE C == {n \in CFGNodes : WasPopped(n) \/ n \in Piece(u)}
             P == {n \in CFGNodes : WasPopped(n)}
  <2>1. m \in CFGNodes /\ Leads(succs, u, m) /\ Leads(succs, m, u)
    BY <1>2 DEF Mates, CFGNodes
  <2>2. \A b \in C : succs[b] \subseteq C
    BY DEF Digraph, CFGNodes
  <2>3. \A b \in P : succs[b] \subseteq P
    BY DEF Digraph, CFGNodes, PoppedClosed
  <2>4. u \in C /\ u \notin P
    BY DEF WasPopped
  <2>5. m \in C
    <3> HIDE DEF C
    <3> QED
      BY <2>1, <2>2, <2>4, LeadsWithin
  <2>6. m \notin P
    <3> SUFFICES ASSUME m \in P PROVE FALSE
      OBVIOUS
    <3> HIDE DEF P
    <3> QED
      BY <2>1, <2>3, <2>4, LeadsWithin
  <2> QED
    BY <2>5, <2>6
<1> QED
  BY <1>1, <1>2

\* The end of the innermost call: it hands its lowlink to its caller, and what
\* it removes from the stack is a component, whole.
LEMMA EndKeeps ==
  ASSUME TarjanInvariant, EndTraverse
  PROVE  /\ TarjanInvariant'
         /\ \/ result' = result
            \/ \E c \in LargeMates(succs) : result' = result \cup {c}
<1> DEFINE L == Len(calls)
           u == calls[L].n
           p == calls[L - 1].n
<1>i. /\ Numbered /\ StackOrdered /\ CallsOrdered /\ LaterReached /\ CallReached
      /\ LowlinkReached /\ AllSeen /\ LowlinkLowest /\ PoppedClosed /\ Collected
      /\ ReturnedLast
  BY DEF TarjanInvariant
<1>t. TarjanType /\ TarjanType' /\ EndFacts(u)
  BY <1>i, EndTypes DEF TarjanInvariant, Innermost
<1>0. calls # <<>> /\ calls[L].todo = {}
  BY DEF EndTraverse, Innermost
<1>e. /\ L \in Nat /\ L # 0
      /\ \A i \in 1 .. L : calls[i].n \in CFGNodes
      /\ Len(stack) \in Nat
      /\ \A i \in 1 .. Len(stack) : stack[i] \in CFGNodes
      /\ \A m \in CFGNodes : /\ index[m] \in Int /\ lowlink[m] \in Int
                             /\ onStack[m] \in BOOLEAN
                             /\ onStack'[m] \in BOOLEAN
      /\ \A m \in CFGNodes : \A x \in succs[m] : x \in CFGNodes
  <2>1. CFGNodes' = CFGNodes
    BY <1>t DEF EndFacts, CFGNodes
  <2>2. \A m \in CFGNodes : onStack'[m] \in BOOLEAN
    BY <2>1, <1>t DEF TarjanType
  <2> QED
    BY <2>2, <1>0, <1>t, ElementTypes
<1>b. /\ succs' = succs /\ index' = index /\ returned' = returned
      /\ CFGNodes' = CFGNodes /\ Digraph(succs)
  BY <1>t DEF EndFacts, CFGNodes, TarjanType
<1>d. \A m \in CFGNodes : onStack'[m] <=> onStack[m] /\ ~Gone(u, m)
  BY <1>t DEF EndFacts
<1>k. Len(calls') = L - 1 /\ \A i \in 1 .. L - 1 : calls'[i] = calls[i]
  BY <1>t DEF EndFacts
<1>j. /\ L \in 1 .. L
      /\ \A i \in 1 .. L - 1 : /\ i \in 1 .. L /\ i < L /\ i # L
                               /\ i # L - 1 => i + 1 \in 1 .. L - 1
      /\ L # 1 => L - 1 \in 1 .. L - 1
  <2> HIDE DEF L
  <2> QED
    BY <1>e
<1>o. /\ \A i \in 1 .. L : onStack[calls[i].n]
      /\ \A i, j \in 1 .. L : i < j => index[calls[i].n] < index[calls[j].n]
      /\ \A m \in CFGNodes : onStack[m] => index[calls[1].n] <= index[m]
  BY <1>i DEF CallsOrdered
<1>u. /\ u \in CFGNodes /\ onStack[u] /\ lowlink[u] <= index[u]
      /\ \A i \in 1 .. L - 1 : index[calls[i].n] < index[u] /\ calls[i].n \in CFGNodes
  <2>1. u \in CFGNodes /\ onStack[u] /\ lowlink[u] <= index[u]
    BY <1>j, <1>e, <1>o, <1>i DEF LowlinkReached, LowlinkIs
  <2>2. \A i \in 1 .. L - 1 : index[calls[i].n] < index[u] /\ calls[i].n \in CFGNodes
    BY <1>j, <1>e, <1>o
  <2> QED
    BY <2>1, <2>2
<1>p. L # 1 => p \in CFGNodes /\ onStack[p] /\ index[p] < index[u]
  BY <1>j, <1>u, <1>o
\* Removed is what is as late as u, if the lowlink of u is its index.
<1>g. \A m \in CFGNodes : onStack[m] =>
        (Gone(u, m) <=> lowlink[u] = index[u] /\ ~(index[m] < index[u]))
  <2> HIDE DEF u
  <2> QED
    BY <1>u, <1>e DEF Gone, Piece
<1>l. /\ \A m \in CFGNodes : /\ lowlink'[m] \in Int
                             /\ lowlink'[m] <= lowlink[m]
                             /\ (L = 1 \/ m # p) => lowlink'[m] = lowlink[m]
      /\ L # 1 => /\ lowlink'[p] <= lowlink[u]
                  /\ lowlink'[p] = lowlink[p] \/ lowlink'[p] = lowlink[u]
  <2>1. \A m \in CFGNodes : lowlink'[m] =
          IF L # 1 /\ m = p THEN SmallestOf(lowlink[u], lowlink[m]) ELSE lowlink[m]
    BY <1>t DEF EndFacts
  <2> HIDE DEF u, p, L
  <2>2. ASSUME NEW m \in CFGNodes
        PROVE  /\ lowlink'[m] \in Int
               /\ lowlink'[m] <= lowlink[m]
               /\ (L = 1 \/ m # p) => lowlink'[m] = lowlink[m]
    <3>1. lowlink[m] \in Int /\ lowlink[u] \in Int
      BY <1>u, <1>e
    <3> QED
      BY <2>1, <3>1 DEF SmallestOf
  <2>3. L # 1 => /\ lowlink'[p] <= lowlink[u]
                 /\ lowlink'[p] = lowlink[p] \/ lowlink'[p] = lowlink[u]
    <3> SUFFICES ASSUME L # 1 PROVE /\ lowlink'[p] <= lowlink[u]
                                    /\ lowlink'[p] = lowlink[p] \/ lowlink'[p] = lowlink[u]
      OBVIOUS
    <3>1. lowlink[p] \in Int /\ lowlink[u] \in Int /\ lowlink'[p] = SmallestOf(lowlink[u], lowlink[p])
      BY <1>u, <1>p, <1>e, <2>1
    <3> QED
      BY <3>1 DEF SmallestOf
  <2> QED
    BY <2>2, <2>3
\* Seen from the caller, what is below the next call is below u or, while u
\* stays open, all there is.
<1>n. \A m \in CFGNodes : \A i \in 1 .. L - 1 : BelowNext(m, i)' =>
        \/ BelowNext(m, i)
        \/ i = L - 1 /\ index[calls[i].n] < index[u] /\ ~(index[m] < index[u])
  <2> SUFFICES ASSUME NEW m \in CFGNodes, NEW i \in 1 .. L - 1, BelowNext(m, i)'
               PROVE  \/ BelowNext(m, i)
                      \/ i = L - 1 /\ index[calls[i].n] < index[u] /\ ~(index[m] < index[u])
    OBVIOUS
  <2>1. CASE i = L - 1
    <3>1. i + 1 = L
      BY <2>1, <1>e
    <3> QED
      BY <2>1, <3>1, <1>u DEF BelowNext
  <2>2. CASE i # L - 1
    <3>1. calls'[i + 1] = calls[i + 1]
      BY <2>2, <1>j, <1>k
    <3> QED
      BY <2>2, <3>1, <1>k, <1>b DEF BelowNext
  <2> QED
    BY <2>1, <2>2
<1>1. Numbered' /\ LaterReached'
  BY <1>i, <1>b, <1>d DEF Numbered, LaterReached
<1>2. StackOrdered'
  <2>1. PICK k \in 0 .. Len(stack) :
          /\ Len(stack') = k
          /\ \A i \in 1 .. k : stack'[i] = stack[i]
          /\ \A i \in 1 .. Len(stack) : Gone(u, stack[i]) <=> k < i
    BY <1>t DEF EndFacts
  <2>2. \A i \in 1 .. k : i \in 1 .. Len(stack) /\ stack'[i] = stack[i] /\ stack[i] \in CFGNodes
                          /\ ~Gone(u, stack[i])
    BY <2>1, <1>e
  <2> HIDE DEF u
  <2>3. \A i, j \in 1 .. k : i < j => index[stack'[i]] < index[stack'[j]]
    BY <2>2, <1>i DEF StackOrdered
  <2>4. \A i \in 1 .. k : onStack'[stack'[i]]
    BY <2>2, <1>d, <1>i DEF StackOrdered
  <2>5. ASSUME NEW m \in CFGNodes, onStack'[m] PROVE \E i \in 1 .. k : stack'[i] = m
    <3>1. PICK i \in 1 .. Len(stack) : stack[i] = m
      BY <2>5, <1>d, <1>i DEF StackOrdered
    <3>2. ~Gone(u, stack[i])
      BY <2>5, <3>1, <1>d
    <3>3. i \in 1 .. k
      BY <2>1, <3>2, <1>e
    <3> QED
      BY <3>1, <3>3, <2>2
  <2> QED
    BY <2>1, <2>3, <2>4, <2>5, <1>b DEF StackOrdered
<1>3. CallsOrdered'
  <2>1. \A i \in 1 .. L - 1 : onStack'[calls[i].n]
    BY <1>j, <1>o, <1>u, <1>g, <1>d
  <2>2. ASSUME NEW m \in CFGNodes, onStack'[m] PROVE L # 1
    <3> SUFFICES ASSUME L = 1 PROVE FALSE
      OBVIOUS
    <3>1. onStack[m] /\ index[u] <= index[m]
      BY <2>2, <1>d, <1>o
    <3>2. PICK w \in CFGNodes : LowlinkIs(u, w)
      BY <1>u, <1>i DEF LowlinkReached
    <3>3. index[u] <= index[w] /\ index[w] = lowlink[u]
      BY <3>2, <1>o DEF LowlinkIs
    <3> HIDE DEF u
    <3>4. lowlink[u] = index[u] /\ ~(index[m] < index[u])
      BY <3>1, <3>3, <1>u, <1>e
    <3> QED
      BY <3>1, <3>4, <2>2, <1>g, <1>d
  <2>3. ASSUME NEW m \in CFGNodes, onStack'[m]
        PROVE  calls' # <<>> /\ index[calls'[1].n] <= index[m]
    <3>1. L # 1 /\ 1 \in 1 .. L - 1
      <4> HIDE DEF L
      <4> QED
        BY <2>2, <2>3, <1>e
    <3>2. calls' # <<>>
      BY <3>1, <1>k, <1>e, <1>t, ElementTypes
    <3> QED
      BY <3>1, <3>2, <2>3, <1>d, <1>o, <1>k
  <2>4. \A i \in 1 .. L - 1 : calls'[i].todo \subseteq succs[calls'[i].n]
    BY <1>k, <1>j, <1>i DEF CallsOrdered
  <2>5. \A i, j \in 1 .. L - 1 : i < j => index[calls'[i].n] < index[calls'[j].n]
    BY <1>k, <1>j, <1>o
  <2> HIDE DEF L
  <2> QED
    BY <2>1, <2>3, <2>4, <2>5, <1>b, <1>k DEF CallsOrdered

<1>4. CallReached'
  <2> SUFFICES ASSUME NEW m \in CFGNodes, NEW i \in 1 .. L - 1, onStack'[m], BelowNext(m, i)'
               PROVE  Leads(succs, m, calls[i].n)
    BY <1>b, <1>k DEF CallReached
  <2>1. onStack[m] /\ ~Gone(u, m) /\ i \in 1 .. L
    BY <1>d, <1>j
  <2>2. CASE BelowNext(m, i)
    BY <2>1, <2>2, <1>i DEF CallReached
  <2>3. CASE i = L - 1 /\ ~(index[m] < index[u])
    <3>1. lowlink[u] # index[u]
      BY <2>1, <2>3, <1>g
    <3>2. PICK w \in CFGNodes : LowlinkIs(u, w)
      BY <1>u, <1>i DEF LowlinkReached
    <3>3. onStack[w] /\ index[w] < index[u] /\ Leads(succs, u, w)
      <4>1. onStack[w] /\ index[w] = lowlink[u] /\ Leads(succs, u, w)
        BY <3>2 DEF LowlinkIs
      <4>2. lowlink[u] < index[u]
        <5> HIDE DEF u
        <5> QED
          BY <3>1, <1>u, <1>e
      <4> QED
        BY <4>1, <4>2
    <3>4. i + 1 = L
      BY <2>3, <1>e
    <3>5. Leads(succs, w, calls[i].n)
      BY <2>1, <3>3, <3>4, <1>i DEF CallReached, BelowNext
    <3>6. Leads(succs, m, u)
      BY <2>1, <1>j, <1>i DEF CallReached, BelowNext
    <3> HIDE DEF u
    <3>7. Leads(succs, u, calls[i].n)
      BY <3>3, <3>5, <1>u, <1>b, LeadsFurther DEF CFGNodes
    <3> QED
      BY <3>6, <3>7, <1>b, LeadsFurther DEF CFGNodes
  <2> QED
    BY <2>2, <2>3, <1>n
<1>5. LowlinkReached'
  <2> SUFFICES ASSUME NEW v \in CFGNodes, onStack'[v]
               PROVE  \E w \in CFGNodes : LowlinkIs(v, w)'
    BY <1>b DEF LowlinkReached
  <2>1. onStack[v] /\ ~Gone(u, v)
    BY <1>d
  <2>2. PICK w \in CFGNodes : LowlinkIs(v, w)
    BY <2>1, <1>i DEF LowlinkReached
  <2>3. onStack[w] /\ index[w] = lowlink[v] /\ lowlink[v] <= index[v] /\ Leads(succs, v, w)
    BY <2>2 DEF LowlinkIs
  <2>4. CASE lowlink'[v] = lowlink[v]
    <3>1. ~Gone(u, w)
      <4> HIDE DEF u
      <4> QED
        BY <2>1, <2>3, <1>g, <1>u, <1>e
    <3>2. LowlinkIs(v, w)'
      BY <2>3, <2>4, <3>1, <1>b, <1>d DEF LowlinkIs
    <3> QED
      BY <3>2
  <2>5. CASE lowlink'[v] # lowlink[v]
    <3>1. L # 1 /\ v = p /\ lowlink'[v] = lowlink[u]
      BY <2>5, <1>l
    <3>2. PICK x \in CFGNodes : LowlinkIs(u, x)
      BY <1>u, <1>i DEF LowlinkReached
    <3>3. onStack[x] /\ index[x] = lowlink[u] /\ Leads(succs, u, x)
      BY <3>2 DEF LowlinkIs
    <3>4. index[v] < index[u]
      BY <3>1, <1>p
    <3>5. lowlink'[v] <= lowlink[v] /\ lowlink[v] \in Int
      BY <1>l, <1>e
    <3> HIDE DEF u, p
    <3>6. lowlink[u] <= index[v] /\ lowlink[u] # index[u]
      BY <2>3, <3>1, <3>4, <3>5, <1>e, <1>u
    <3>7. Leads(succs, v, u)
      BY <2>1, <3>4, <1>u, <1>e, <1>i DEF LaterReached
    <3>8. Leads(succs, v, x)
      BY <3>3, <3>7, <1>b, LeadsFurther DEF CFGNodes
    <3>9. ~Gone(u, x)
      BY <3>6 DEF Gone
    <3>10. LowlinkIs(v, x)'
      BY <3>1, <3>3, <3>6, <3>8, <3>9, <1>b, <1>d DEF LowlinkIs
    <3> QED
      BY <3>10
  <2> QED
    BY <2>4, <2>5
\* u waited for nothing any more.
<1>w. \A v, x : Waits(v, x) => Waits(v, x)'
  <2> SUFFICES ASSUME NEW v, NEW x, Waits(v, x)
               PROVE  Waits(v, x)'
    OBVIOUS
  <2>1. PICK i \in 1 .. L : calls[i].n = v /\ x \in calls[i].todo
    BY DEF Waits
  <2>2. i # L
    BY <2>1, <1>0
  <2>3. i \in 1 .. L - 1
    <3> HIDE DEF L
    <3> QED
      BY <2>2, <1>e
  <2> QED
    BY <2>1, <2>3, <1>k DEF Waits
<1>6. AllSeen'
  BY <1>w, <1>b, <1>i DEF AllSeen
<1>7. LowlinkLowest'
  <2> SUFFICES ASSUME NEW v \in CFGNodes, NEW x \in succs[v], onStack'[v], onStack'[x],
                      ~Waits(v, x)', NEW i \in 1 .. L - 1,
                      index[calls[i].n] <= index[v], BelowNext(v, i)'
               PROVE  lowlink'[calls[i].n] <= index[x]
    BY <1>b, <1>k DEF LowlinkLowest
  <2>1. /\ x \in CFGNodes /\ calls[i].n \in CFGNodes /\ ~Waits(v, x)
        /\ onStack[v] /\ onStack[x] /\ ~Gone(u, v) /\ i \in 1 .. L
    BY <1>d, <1>w, <1>e, <1>u, <1>j
  <2>2. \A k \in 1 .. L : index[calls[k].n] <= index[v] /\ BelowNext(v, k)
                            => lowlink[calls[k].n] <= index[x]
    BY <2>1, <1>i DEF LowlinkLowest
  <2>3. CASE BelowNext(v, i)
    <3>1. lowlink[calls[i].n] <= index[x]
      BY <2>1, <2>2, <2>3
    <3>2. lowlink'[calls[i].n] <= lowlink[calls[i].n] /\ lowlink'[calls[i].n] \in Int
      BY <2>1, <1>l
    <3> QED
      BY <2>1, <3>1, <3>2, <1>e
  <2>4. CASE i = L - 1 /\ ~(index[v] < index[u])
    <3>1. BelowNext(v, L)
      BY DEF BelowNext
    <3>2. index[u] <= index[v]
      <4> HIDE DEF u
      <4> QED
        BY <2>4, <1>u, <1>e
    <3>3. lowlink[u] <= index[x]
      BY <2>2, <3>1, <3>2, <1>j
    <3>4. L # 1
      BY <2>4
    <3>5. lowlink'[p] <= lowlink[u] /\ lowlink'[p] \in Int /\ calls[i].n = p
      BY <2>1, <2>4, <3>4, <1>l
    <3> HIDE DEF u, p
    <3> QED
      BY <2>1, <3>3, <3>5, <1>u, <1>e
  <2> QED
    BY <2>3, <2>4, <1>n
\* No edge leaves what is removed but to what was removed.
<1>x. ASSUME NEW m \in CFGNodes, Gone(u, m), NEW x \in succs[m]
      PROVE  WasPopped(x) \/ Gone(u, x)
  <2>1. x \in CFGNodes /\ onStack[m] /\ index[u] <= index[m] /\ lowlink[u] = index[u]
    BY <1>x, <1>e DEF Gone, Piece
  <2>2. ~Waits(m, x)
    <3> SUFFICES ASSUME Waits(m, x) PROVE FALSE
      OBVIOUS
    <3>1. PICK i \in 1 .. L : calls[i].n = m /\ x \in calls[i].todo
      BY DEF Waits
    <3>2. i # L
      BY <3>1, <1>0
    <3>3. i \in 1 .. L - 1
      <4> HIDE DEF L
      <4> QED
        BY <3>2, <1>e
    <3>4. index[m] < index[u]
      BY <3>1, <3>3, <1>u
    <3> HIDE DEF u
    <3> QED
      BY <2>1, <3>4, <1>u, <1>e
  <2>3. index[x] # -1
    BY <2>1, <2>2, <1>i DEF AllSeen, Numbered
  <2>4. CASE ~onStack[x]
    BY <2>3, <2>4 DEF WasPopped
  <2>5. CASE onStack[x]
    <3>1. BelowNext(m, L)
      BY DEF BelowNext
    <3>2. lowlink[u] <= index[x]
      BY <2>1, <2>2, <2>5, <3>1, <1>j, <1>i DEF LowlinkLowest
    <3> QED
      BY <2>1, <2>5, <3>2 DEF Gone, Piece
  <2> QED
    BY <2>4, <2>5
\* What is popped afterwards.
<1>y. \A m \in CFGNodes : WasPopped(m)' <=> WasPopped(m) \/ Gone(u, m)
  <2> SUFFICES ASSUME NEW m \in CFGNodes PROVE WasPopped(m)' <=> WasPopped(m) \/ Gone(u, m)
    OBVIOUS
  <2>1. Gone(u, m) => onStack[m] /\ index[m] # -1
    BY <1>i DEF Gone, Piece, Numbered
  <2> HIDE DEF u
  <2> QED
    BY <2>1, <1>b, <1>d, <1>e DEF WasPopped
<1>8. PoppedClosed'
  <2> SUFFICES ASSUME NEW m \in CFGNodes, WasPopped(m) \/ Gone(u, m), NEW x \in succs[m]
               PROVE  WasPopped(x) \/ Gone(u, x)
    BY <1>y, <1>b, <1>e DEF PoppedClosed
  <2> QED
    BY <1>x, <1>i DEF PoppedClosed
<1>9. ASSUME lowlink[u] # index[u]
      PROVE  /\ Collected'
             /\ \/ result' = result
                \/ \E c \in LargeMates(succs) : result' = result \cup {c}
  <2>1. result' = result /\ \A m \in CFGNodes : WasPopped(m)' <=> WasPopped(m)
    BY <1>9, <1>y, <1>t DEF EndFacts, Gone
  <2>2. \A c \in LargeMates(succs) : \A m \in c : m \in CFGNodes
    BY DEF LargeMates, Mates, CFGNodes
  <2>3. Collected'
    BY <2>1, <2>2, <1>b, <1>i DEF Collected
  <2> QED
    BY <2>1, <2>3
<1>10. ASSUME lowlink[u] = index[u]
      PROVE  /\ Collected'
             /\ \/ result' = result
                \/ \E c \in LargeMates(succs) : result' = result \cup {c}
  <2>1. \A m : Gone(u, m) <=> m \in Piece(u)
    BY <1>10 DEF Gone
  <2>2. Piece(u) = Mates(succs, u)
    <3>1. u \in Piece(u)
      BY <1>u, <1>e DEF Piece
    <3>2. ASSUME NEW m \in Piece(u) PROVE Leads(succs, u, m) /\ Leads(succs, m, u)
      <4>1. m \in CFGNodes /\ onStack[m] /\ index[u] <= index[m]
        BY <3>2 DEF Piece
      <4>2. BelowNext(m, L)
        BY DEF BelowNext
      <4> QED
        BY <4>1, <4>2, <1>u, <1>j, <1>i DEF LaterReached, CallReached
    <3>3. \A m \in CFGNodes : WasPopped(m) \/ m \in Piece(u) =>
            \A x \in succs[m] : WasPopped(x) \/ x \in Piece(u)
      BY <2>1, <1>x, <1>i DEF PoppedClosed
    <3> HIDE DEF u
    <3> QED
      BY <3>1, <3>2, <3>3, <1>u, <1>b, <1>i, PieceIsWhole
  <2>3. /\ Cardinality(Piece(u)) >= 2 => result' = result \cup {Piece(u)}
        /\ ~(Cardinality(Piece(u)) >= 2) => result' = result
    BY <1>10, <1>t DEF EndFacts
  <2>4. Piece(u) \in LargeMates(succs) <=> Cardinality(Piece(u)) >= 2
    <3> HIDE DEF u
    <3> QED
      BY <2>2, <1>u DEF LargeMates, CFGNodes
  <2>5. ASSUME NEW c \in LargeMates(succs)
        PROVE  /\ \A m \in c : m \in CFGNodes
               /\ (\A m \in c : WasPopped(m)') <=> (\A m \in c : WasPopped(m)) \/ c = Piece(u)
    <3>1. PICK a \in CFGNodes : c = Mates(succs, a)
      BY DEF LargeMates, CFGNodes
    <3>2. \A m \in c : m \in CFGNodes
      BY <3>1 DEF Mates, CFGNodes
    <3> HIDE DEF u
    <3>3. ASSUME NEW m \in c, m \in Piece(u) PROVE c = Piece(u)
      <4>1. Mates(succs, m) = Mates(succs, a)
        BY <3>1, <3>3, <1>b, MatesAgree DEF CFGNodes
      <4>2. Mates(succs, m) = Mates(succs, u)
        BY <3>3, <2>2, <1>u, <1>b, MatesAgree DEF CFGNodes
      <4> QED
        BY <4>1, <4>2, <3>1, <2>2
    <3>4. \A m \in c : WasPopped(m)' <=> WasPopped(m) \/ m \in Piece(u)
      BY <3>2, <1>y, <2>1
    <3> QED
      BY <3>2, <3>3, <3>4
  <2>6. Collected'
    <3>1. LargeMates(succs)' = LargeMates(succs)
      BY <1>b DEF LargeMates
    <3>2. result = {c \in LargeMates(succs) : \A m \in c : WasPopped(m)}
      BY <1>i DEF Collected
    <3> HIDE DEF u
    <3>3. result' = {c \in LargeMates(succs) : \A m \in c : WasPopped(m)'}
      BY <3>2, <2>3, <2>4, <2>5
    <3> QED
      BY <3>1, <3>3 DEF Collected
  <2>7. \/ result' = result
        \/ \E c \in LargeMates(succs) : result' = result \cup {c}
    BY <2>3, <2>4
  <2> QED
    BY <2>6, <2>7
<1>11. ReturnedLast'
  <2>1. ~returned
    BY <1>0, <1>i DEF ReturnedLast
  <2> QED
    BY <2>1, <1>b DEF ReturnedLast
<1>12. /\ Collected'
       /\ \/ result' = result
          \/ \E c \in LargeMates(succs) : result' = result \cup {c}
  BY <1>9, <1>10
<1> QED
  BY <1>t, <1>1, <1>2, <1>3, <1>4, <1>5, <1>6, <1>7, <1>8, <1>11, <1>12 DEF TarjanInvariant

\* At first nothing is visited.
LEMMA InitEstablishes ==
  ASSUME TarjanInit
  PROVE  TarjanInvariant
<1>1. /\ succs \in Graphs
      /\ index = [n \in CFGNodes |-> -1] /\ lowlink = [n \in CFGNodes |-> -1]
      /\ onStack = [n \in CFGNodes |-> FALSE]
      /\ index_count = 0 /\ stack = <<>> /\ calls = <<>>
      /\ result = {} /\ returned = FALSE
  BY DEF TarjanInit
<1>2. /\ \A n \in CFGNodes : index[n] = -1 /\ ~onStack[n]
      /\ Len(stack) = 0 /\ Len(calls) = 0 /\ 1 .. 0 = {}
      /\ stack \in Seq(CFGNodes) /\ calls \in Seq([n : CFGNodes, todo : SUBSET CFGNodes])
  BY <1>1
<1>3. TarjanType
  <2>1. Digraph(succs)
    BY <1>1, TarjanAssumption DEF Digraph
  <2>2. /\ index \in [CFGNodes -> Int] /\ lowlink \in [CFGNodes -> Int]
        /\ onStack \in [CFGNodes -> BOOLEAN]
        /\ index_count \in Nat /\ returned \in BOOLEAN
    <3>1. -1 \in Int /\ FALSE \in BOOLEAN
      OBVIOUS
    <3>2. /\ index \in [CFGNodes -> Int] /\ lowlink \in [CFGNodes -> Int]
          /\ onStack \in [CFGNodes -> BOOLEAN]
      BY <1>1, <3>1
    <3> QED
      BY <1>1, <3>2
  <2>3. \A n \in CFGNodes : -1 <= index[n] /\ index[n] < index_count
    BY <1>1, <1>2
  <2> QED
    BY <1>2, <2>1, <2>2, <2>3 DEF TarjanType
<1>4. Numbered /\ StackOrdered /\ CallsOrdered /\ LaterReached /\ CallReached
      /\ LowlinkReached /\ AllSeen /\ LowlinkLowest /\ PoppedClosed
  BY <1>2 DEF Numbered, StackOrdered, CallsOrdered, LaterReached, CallReached,
              LowlinkReached, AllSeen, LowlinkLowest, PoppedClosed, WasPopped
<1>5. Collected
  <2>1. ASSUME NEW c \in LargeMates(succs), \A m \in c : WasPopped(m) PROVE FALSE
    <3>1. PICK n \in CFGNodes : c = Mates(succs, n)
      BY DEF LargeMates, CFGNodes
    <3>2. n \in c
      BY <3>1, <1>3, LeadsToItself DEF Mates, CFGNodes, TarjanType
    <3> QED
      BY <2>1, <3>2, <1>2 DEF WasPopped
  <2> QED
    BY <2>1, <1>1 DEF Collected
<1>6. ReturnedLast
  BY <1>1 DEF ReturnedLast
<1> QED
  BY <1>3, <1>4, <1>5, <1>6 DEF TarjanInvariant

LEMMA FinishKeeps ==
  ASSUME TarjanInvariant, Finish
  PROVE  TarjanInvariant' /\ result = LargeMates(succs) /\ returned' = TRUE
<1>1. /\ calls = <<>> /\ \A n \in CFGNodes : index[n] # -1
      /\ returned' = TRUE
      /\ succs' = succs /\ index' = index /\ lowlink' = lowlink /\ onStack' = onStack
      /\ index_count' = index_count /\ stack' = stack /\ calls' = calls
      /\ result' = result
  BY DEF Finish
<1>2. \A n \in CFGNodes : WasPopped(n)
  BY <1>1 DEF TarjanInvariant, CallsOrdered, WasPopped
<1>3. \A c \in LargeMates(succs) : \A m \in c : m \in CFGNodes
  BY DEF LargeMates, Mates, CFGNodes
<1>4. result = LargeMates(succs)
  BY <1>2, <1>3 DEF TarjanInvariant, Collected
<1>5. TarjanType' /\ ReturnedLast'
  BY <1>1 DEF TarjanInvariant, TarjanType, CFGNodes, ReturnedLast
<1>6. Numbered' /\ StackOrdered' /\ CallsOrdered' /\ LaterReached' /\ CallReached'
  BY <1>1 DEF TarjanInvariant, CFGNodes, Numbered, StackOrdered, CallsOrdered,
              LaterReached, CallReached, BelowNext
<1>7. LowlinkReached' /\ AllSeen' /\ LowlinkLowest' /\ PoppedClosed' /\ Collected'
  BY <1>1 DEF TarjanInvariant, CFGNodes, LowlinkReached, LowlinkIs, AllSeen, Waits,
              LowlinkLowest, BelowNext, PoppedClosed, Collected, WasPopped
<1> QED
  BY <1>1, <1>4, <1>5, <1>6, <1>7 DEF TarjanInvariant

LEMMA StutterKeeps ==
  ASSUME TarjanInvariant, UNCHANGED tarjanVars
  PROVE  TarjanInvariant'
<1>1. /\ succs' = succs /\ index' = index /\ lowlink' = lowlink /\ onStack' = onStack
      /\ index_count' = index_count /\ stack' = stack /\ calls' = calls
      /\ result' = result /\ returned' = returned
  BY DEF tarjanVars
<1>2. TarjanType' /\ ReturnedLast'
  BY <1>1 DEF TarjanInvariant, TarjanType, CFGNodes, ReturnedLast
<1>3. Numbered' /\ StackOrdered' /\ CallsOrdered' /\ LaterReached' /\ CallReached'
  BY <1>1 DEF TarjanInvariant, CFGNodes, Numbered, StackOrdered, CallsOrdered,
              LaterReached, CallReached, BelowNext
<1>4. LowlinkReached' /\ AllSeen' /\ LowlinkLowest' /\ PoppedClosed' /\ Collected'
  BY <1>1 DEF TarjanInvariant, CFGNodes, LowlinkReached, LowlinkIs, AllSeen, Waits,
              LowlinkLowest, BelowNext, PoppedClosed, Collected, WasPopped
<1> QED
  BY <1>2, <1>3, <1>4 DEF TarjanInvariant

\* Every step keeps the invariant, and is a step of ComponentSearch or changes
\* none of its variables.
LEMMA StepKeeps ==
  ASSUME TarjanInvariant, [TarjanStep \/ Returned]_tarjanVars
  PROVE  TarjanInvariant' /\ [Abstract!SearchNext]_(Abstract!searchVars)
<1>i. /\ TarjanType /\ Digraph(succs) /\ (returned => calls = <<>> /\ \A n \in CFGNodes : index[n] # -1)
  BY DEF TarjanInvariant, TarjanType, ReturnedLast
<1>a. Abstract!Components(succs) = LargeMates(succs)
  BY <1>i, ComponentsAreMates
<1>1. CASE VisitRoot
  <2>1. PICK n \in CFGNodes : index[n] = -1 /\ Traverse(n, calls)
    BY <1>1 DEF VisitRoot
  <2>2. calls = <<>> /\ Len(calls) = 0 /\ 1 .. 0 = {}
    BY <1>1 DEF VisitRoot
  <2>3. Resumed(calls, n)
    BY <2>2, <1>i DEF Resumed, Calls, TarjanType
  <2>4. TarjanInvariant'
    BY <2>1, <2>3, TraverseKeeps
  <2>5. UNCHANGED Abstract!searchVars
    BY <2>1 DEF Traverse, Abstract!searchVars
  <2> QED
    BY <2>4, <2>5
<1>2. CASE TraverseSuccessor
  <2>1. PICK su \in Innermost.todo : index[su] = -1 /\ Traverse(su, Past(su))
    BY <1>2 DEF TraverseSuccessor
  <2>2. calls # <<>>
    BY <1>2 DEF TraverseSuccessor
  <2>3. su \in CFGNodes
    <3>1. Len(calls) \in 1 .. Len(calls)
      BY <2>2, <1>i, ElementTypes
    <3> QED
      BY <3>1, <2>1, <1>i, ElementTypes DEF Innermost
  <2>4. TarjanInvariant'
    BY <2>1, <2>2, <2>3, <1>i, PastResumes, TraverseKeeps
  <2>5. UNCHANGED Abstract!searchVars
    BY <2>1 DEF Traverse, Abstract!searchVars
  <2> QED
    BY <2>4, <2>5
<1>3. CASE SeeSuccessor
  <2>1. UNCHANGED Abstract!searchVars
    BY <1>3 DEF SeeSuccessor, Abstract!searchVars
  <2> QED
    BY <1>3, <2>1, SeeKeeps
<1>4. CASE EndTraverse
  <2>1. /\ TarjanInvariant'
        /\ \/ result' = result
           \/ \E c \in LargeMates(succs) : result' = result \cup {c}
    BY <1>4, EndKeeps
  <2>2. succs' = succs /\ returned' = returned /\ ~returned
    BY <1>4, <1>i DEF EndTraverse
  <2>3. CASE result' = result
    BY <2>1, <2>2, <2>3 DEF Abstract!searchVars
  <2>4. CASE \E c \in LargeMates(succs) : result' = result \cup {c}
    BY <2>1, <2>2, <2>4, <1>a DEF Abstract!SearchNext, Abstract!Collect
  <2> QED
    BY <2>1, <2>3, <2>4
<1>5. CASE Finish
  <2>1. TarjanInvariant' /\ result = LargeMates(succs) /\ returned' = TRUE
    BY <1>5, FinishKeeps
  <2>2. succs' = succs /\ result' = result
    BY <1>5 DEF Finish
  <2> QED
    BY <2>1, <2>2, <1>a DEF Abstract!SearchNext, Abstract!Return
<1>6. CASE UNCHANGED tarjanVars
  <2>1. UNCHANGED Abstract!searchVars
    BY <1>6 DEF tarjanVars, Abstract!searchVars
  <2> QED
    BY <1>6, <2>1, StutterKeeps
<1> QED
  BY <1>1, <1>2, <1>3, <1>4, <1>5, <1>6 DEF TarjanStep, Returned

-----------------------------------------------------------------------------
(* The invariant holds whatever the graph, and in whatever order traverse  *)
(* visits the nodes and their successors.                                  *)
THEOREM TarjanInvariantHolds == TarjanSpec => []TarjanInvariant
<1>1. TarjanInit => TarjanInvariant
  BY InitEstablishes
<1>2. TarjanInvariant /\ [TarjanStep \/ Returned]_tarjanVars => TarjanInvariant'
  BY StepKeeps
<1> QED
  BY <1>1, <1>2, PTL DEF TarjanSpec

(* The lowlink of a node on the stack is the index of a node on the stack, *)
(* no later one, of the same component.                                    *)
THEOREM LowlinksAreWitnessed == TarjanSpec => []LowlinkWitnessed
<1>1. TarjanInvariant => LowlinkWitnessed
  <2> SUFFICES ASSUME TarjanInvariant, NEW n \in CFGNodes, onStack[n]
               PROVE  \E m \in CFGNodes :
                        /\ onStack[m] /\ index[m] = lowlink[n] /\ lowlink[n] <= index[n]
                        /\ m = n \/ \E c \in Abstract!Components(succs) : {m, n} \subseteq c
    BY DEF LowlinkWitnessed
  <2>i. TarjanType /\ Digraph(succs) /\ LaterReached /\ LowlinkReached
    BY DEF TarjanInvariant, TarjanType
  <2>1. PICK m \in CFGNodes : LowlinkIs(n, m)
    BY <2>i DEF LowlinkReached
  <2>2. /\ onStack[m] /\ index[m] = lowlink[n] /\ lowlink[n] <= index[n]
        /\ Leads(succs, n, m)
    BY <2>1 DEF LowlinkIs
  <2>3. ASSUME m # n
        PROVE  \E c \in Abstract!Components(succs) : {m, n} \subseteq c
    <3>1. Leads(succs, m, n)
      BY <2>2, <2>i DEF LaterReached
    <3>2. Leads(succs, n, n)
      BY <2>i, LeadsToItself DEF CFGNodes
    <3>3. {m, n} \subseteq Mates(succs, n)
      BY <2>2, <3>1, <3>2 DEF Mates, CFGNodes
    <3>4. Cardinality(Mates(succs, n)) >= 2
      <4>1. IsFiniteSet(Mates(succs, n))
        BY <2>i, FS_Subset DEF Mates, Digraph
      <4>2. Cardinality({m, n}) <= Cardinality(Mates(succs, n))
        BY <3>3, <4>1, FS_Subset
      <4>3. {m, n} = {m} \cup {n} /\ n \notin {m}
        BY <2>3
      <4>4. IsFiniteSet({m}) /\ Cardinality({m}) = 1
        BY FS_Singleton
      <4>5. Cardinality({m} \cup {n}) = 1 + 1
        BY <4>3, <4>4, FS_AddElement
      <4>6. Cardinality({m, n}) = 2
        BY <4>3, <4>5
      <4>7. Cardinality(Mates(succs, n)) \in Nat
        BY <4>1, FS_CardinalityType
      <4> QED
        BY <4>2, <4>6, <4>7
    <3>5. Mates(succs, n) \in LargeMates(succs)
      BY <3>4 DEF LargeMates, CFGNodes
    <3> QED
      BY <3>3, <3>5, <2>i, ComponentsAreMates
  <2> QED
    BY <2>2, <2>3
<1> QED
  BY <1>1, TarjanInvariantHolds, PTL

(* The search implements ComponentSearch, all but its liveness: it adds    *)
(* one whole component at a time, nothing else, and returns with all.      *)
THEOREM OnlyComponentsAreFound ==
  TarjanSpec => Abstract!SearchInit /\ [][Abstract!SearchNext]_(Abstract!searchVars)
<1>1. TarjanInit => Abstract!SearchInit
  BY DEF TarjanInit, Abstract!SearchInit
<1>2. TarjanInvariant /\ [TarjanStep \/ Returned]_tarjanVars
        => [Abstract!SearchNext]_(Abstract!searchVars)
  BY StepKeeps
<1> QED
  BY <1>1, <1>2, TarjanInvariantHolds, PTL DEF TarjanSpec

=============================================================================
