------------------------------ MODULE CfgProofs ------------------------------
(***************************************************************************)
(* What reachability and dominance are, for the proofs about graphs.       *)
(*                                                                         *)
(* The nodes reached from a set are the smallest set that contains it and  *)
(* that no edge leaves.  The definition takes as many steps as there are   *)
(* nodes, so that the fact needs induction, over sets of numbers: the      *)
(* smallest number that is not in a set.                                   *)
(*                                                                         *)
(* A block dominates another if the paths that avoid the one miss the      *)
(* other.  The dominators of a block form a chain (DominatorsChain), so    *)
(* that it has an immediate one, and a block that dominates another does   *)
(* so through a child in the dominator tree.                               *)
(***************************************************************************)
EXTENDS CfgTheory, FiniteSetTheorems, SequenceTheorems, WellFoundedInduction, TLAPS

\* A set of natural numbers that is not empty has a least element.
LEMMA LeastNumber ==
  ASSUME NEW T \in SUBSET Nat, T # {}
  PROVE  \E x \in T : \A y \in T : x <= y
<1> DEFINE less == OpToRel(<, Nat)
<1>1. IsWellFoundedOn(less, Nat)
  BY NatLessThanWellFounded
<1>2. PICK x \in T : \A y \in T : ~ (<<y, x>> \in less)
  <2> HIDE DEF less
  <2> QED BY <1>1, WFMin
<1>3. \A y \in T : y < x => <<y, x>> \in less
  BY DEF OpToRel
<1> HIDE DEF less
<1>4. x \in Nat /\ \A y \in T : y \in Nat /\ ~(y < x)
  BY <1>2, <1>3
<1> QED BY <1>4

\* Induction on the numbers up to a bound.
LEMMA CountingUp ==
  ASSUME NEW m \in Nat, NEW S, 0 \in S,
         \A n \in Nat : n < m /\ n \in S => n + 1 \in S
  PROVE  0 .. m \subseteq S
<1>1. SUFFICES ASSUME NEW k \in 0 .. m, k \notin S PROVE FALSE
  OBVIOUS
<1> DEFINE T == {n \in 0 .. m : n \notin S}
<1>2. PICK x \in T : \A y \in T : x <= y
  <2>1. T \in SUBSET Nat /\ T # {}
    BY <1>1
  <2> HIDE DEF T
  <2> QED BY <2>1, LeastNumber
<1>3. x # 0 /\ x \in 0 .. m
  OBVIOUS
<1>4. x - 1 \in 0 .. m /\ x - 1 \in Nat /\ x - 1 < m /\ (x - 1) + 1 = x
  BY <1>3
<1>5. x - 1 \in S
  BY <1>2, <1>4
<1> QED BY <1>4, <1>5

-----------------------------------------------------------------------------
\* The nodes reached in at most k steps, for every k up to a bound.
Step(next, start, f, n) ==
  IF n = 0 THEN start ELSE start \cup UNION {next[b] : b \in f[n - 1]}
Steps(next, start, m, f) == f = [n \in 0 .. m |-> Step(next, start, f, n)]

\* The recursive definition defines a function.
LEMMA StepsExist ==
  ASSUME NEW next, NEW start, NEW m \in Nat
  PROVE  \E f : Steps(next, start, m, f)
<1> DEFINE S == {n \in 0 .. m : \E f : Steps(next, start, n, f)}
<1>1. 0 \in S
  <2>1. Steps(next, start, 0, [n \in 0 .. 0 |-> start])
    BY DEF Steps, Step
  <2> QED BY <2>1
<1>2. ASSUME NEW n \in Nat, n < m, n \in S PROVE n + 1 \in S
  <2>1. PICK f : Steps(next, start, n, f)
    BY <1>2
  <2> DEFINE g == [i \in 0 .. n + 1 |-> Step(next, start, f, i)]
  <2>2. \A i \in 0 .. n : g[i] = f[i]
    BY <2>1 DEF Steps
  <2>3. \A i \in 0 .. n + 1 : i # 0 => i - 1 \in 0 .. n
    OBVIOUS
  <2>4. \A i \in 0 .. n + 1 : Step(next, start, f, i) = Step(next, start, g, i)
    <3> HIDE DEF g
    <3> QED BY <2>2, <2>3 DEF Step
  <2>5. Steps(next, start, n + 1, g)
    BY <2>4 DEF Steps
  <2>6. n + 1 \in 0 .. m
    BY <1>2
  <2> HIDE DEF g
  <2> QED BY <2>5, <2>6
<1>3. 0 .. m \subseteq S
  <2> HIDE DEF S
  <2> QED BY <1>1, <1>2, CountingUp
<1> QED BY <1>3

LEMMA ReachedIsLastStep ==
  ASSUME NEW next, NEW start, IsFiniteSet(DOMAIN next)
  PROVE  \E f : /\ Steps(next, start, Cardinality(DOMAIN next), f)
                /\ ReachedFrom(next, start) = f[Cardinality(DOMAIN next)]
<1> DEFINE m == Cardinality(DOMAIN next)
           f == CHOOSE g : g = [n \in 0 .. m |->
                  IF n = 0 THEN start ELSE start \cup UNION {next[b] : b \in g[n - 1]}]
<1>1. m \in Nat
  BY FS_CardinalityType
<1>2. \E g : g = [n \in 0 .. m |->
                  IF n = 0 THEN start ELSE start \cup UNION {next[b] : b \in g[n - 1]}]
  <2> HIDE DEF m, f
  <2>1. PICK g : Steps(next, start, m, g)
    BY <1>1, StepsExist
  <2> QED BY <2>1 DEF Steps, Step
<1>3. Steps(next, start, m, f)
  <2> HIDE DEF m
  <2> QED BY <1>2 DEF Steps, Step
<1>4. ReachedFrom(next, start) = f[m]
  BY DEF ReachedFrom
<1> QED BY <1>3, <1>4

\* What is reached from a set of nodes of a closed graph contains the set,
LEMMA ReachedContains ==
  ASSUME NEW next, NEW start, IsFiniteSet(DOMAIN next)
  PROVE  start \subseteq ReachedFrom(next, start)
<1>1. PICK f : /\ Steps(next, start, Cardinality(DOMAIN next), f)
               /\ ReachedFrom(next, start) = f[Cardinality(DOMAIN next)]
  BY ReachedIsLastStep
<1>2. Cardinality(DOMAIN next) \in Nat
  BY FS_CardinalityType
<1> QED BY <1>1, <1>2 DEF Steps, Step

\* lies in every set that contains it and that no edge leaves,
LEMMA ReachedIsLeast ==
  ASSUME NEW next, NEW start, IsFiniteSet(DOMAIN next),
         NEW C, start \subseteq C, \A b \in C : next[b] \subseteq C
  PROVE  ReachedFrom(next, start) \subseteq C
<1> DEFINE m == Cardinality(DOMAIN next)
<1>1. PICK f : Steps(next, start, m, f) /\ ReachedFrom(next, start) = f[m]
  BY ReachedIsLastStep
<1>2. m \in Nat
  BY FS_CardinalityType
<1> DEFINE S == {n \in 0 .. m : f[n] \subseteq C}
<1> HIDE DEF m
<1>3. 0 \in S
  BY <1>1, <1>2 DEF Steps, Step
<1>4. ASSUME NEW n \in Nat, n < m, n \in S PROVE n + 1 \in S
  <2>1. n + 1 \in 0 .. m /\ (n + 1) - 1 = n /\ n + 1 # 0
    BY <1>2, <1>4
  <2>2. f[n + 1] = start \cup UNION {next[b] : b \in f[n]}
    BY <1>1, <2>1 DEF Steps, Step
  <2>3. f[n] \subseteq C
    BY <1>4
  <2> QED BY <2>1, <2>2, <2>3
<1>5. 0 .. m \subseteq S
  <2> HIDE DEF S
  <2> QED BY <1>2, <1>3, <1>4, CountingUp
<1>6. m \in S
  BY <1>2, <1>5
<1> QED BY <1>1, <1>6

\* and no edge leaves it: the steps stop adding nodes before the nodes run out.
LEMMA ReachedIsClosed ==
  ASSUME NEW next, NEW start, IsFiniteSet(DOMAIN next), start \subseteq DOMAIN next,
         \A b \in DOMAIN next : next[b] \subseteq DOMAIN next
  PROVE  /\ ReachedFrom(next, start) \subseteq DOMAIN next
         /\ \A b \in ReachedFrom(next, start) : next[b] \subseteq ReachedFrom(next, start)
<1> DEFINE m == Cardinality(DOMAIN next)
           Closed(R) == \A b \in R : next[b] \subseteq R
<1>1. PICK f : Steps(next, start, m, f) /\ ReachedFrom(next, start) = f[m]
  BY ReachedIsLastStep
<1>2. m \in Nat
  BY FS_CardinalityType
<1>3. ReachedFrom(next, start) \subseteq DOMAIN next
  BY ReachedIsLeast
<1> DEFINE S == {n \in 0 .. m : /\ f[n] \subseteq DOMAIN next /\ start \subseteq f[n]
                                /\ n > 0 => f[n - 1] \subseteq f[n]
                                /\ Closed(f[n]) \/ Cardinality(f[n]) > n}
<1> HIDE DEF m
<1>4. 0 \in S
  <2>1. f[0] = start
    BY <1>1, <1>2 DEF Steps, Step
  <2>2. start # {} => Cardinality(start) > 0
    BY FS_Subset, FS_EmptySet, FS_CardinalityType
  <2>3. start = {} => Closed(f[0])
    BY <2>1
  <2> HIDE DEF Closed
  <2> QED BY <1>2, <2>1, <2>2, <2>3
<1>5. ASSUME NEW n \in Nat, n < m, n \in S PROVE n + 1 \in S
  <2>1. n + 1 \in 0 .. m /\ (n + 1) - 1 = n /\ n + 1 # 0 /\ n + 1 > 0
    BY <1>2, <1>5
  <2>2. f[n + 1] = start \cup UNION {next[b] : b \in f[n]}
    BY <1>1, <2>1 DEF Steps, Step
  <2>3. /\ f[n] \subseteq DOMAIN next /\ start \subseteq f[n]
        /\ n > 0 => f[n - 1] \subseteq f[n]
        /\ Closed(f[n]) \/ Cardinality(f[n]) > n
    BY <1>5
  <2>4. f[n + 1] \subseteq DOMAIN next /\ start \subseteq f[n + 1]
    BY <2>2, <2>3
  <2>5. f[n] \subseteq f[n + 1]
    <3>1. CASE n = 0
      BY <3>1, <1>1, <1>2, <2>2 DEF Steps, Step
    <3>2. CASE n > 0
      <4>1. f[n] = start \cup UNION {next[b] : b \in f[n - 1]}
        BY <3>2, <1>1, <1>2, <1>5 DEF Steps, Step
      <4>2. f[n - 1] \subseteq f[n]
        BY <3>2, <2>3
      <4> QED BY <4>1, <4>2, <2>2
    <3> QED BY <3>1, <3>2
  <2>6. CASE Closed(f[n])
    <3>1. f[n + 1] = f[n]
      BY <2>6, <2>2, <2>3, <2>5
    <3> HIDE DEF Closed
    <3> QED BY <3>1, <2>1, <2>3, <2>4, <2>5, <2>6
  <2>7. CASE ~Closed(f[n])
    <3>1. PICK b \in f[n] : ~(next[b] \subseteq f[n])
      BY <2>7
    <3>2. PICK c \in next[b] : c \notin f[n]
      BY <3>1
    <3>3. c \in f[n + 1] /\ f[n] \cup {c} \subseteq f[n + 1]
      BY <3>1, <3>2, <2>2, <2>5
    <3>4. IsFiniteSet(f[n]) /\ IsFiniteSet(f[n + 1])
      BY <2>3, <2>4, FS_Subset
    <3>5. Cardinality(f[n] \cup {c}) = Cardinality(f[n]) + 1
      BY <3>2, <3>4, FS_AddElement
    <3>6. Cardinality(f[n] \cup {c}) <= Cardinality(f[n + 1])
      BY <3>3, <3>4, FS_Subset
    <3>7. Cardinality(f[n]) \in Nat /\ Cardinality(f[n + 1]) \in Nat
      BY <3>4, FS_CardinalityType
    <3>8. Cardinality(f[n + 1]) > n + 1
      BY <3>5, <3>6, <3>7, <2>3, <2>7
    <3> HIDE DEF Closed
    <3> QED BY <3>8, <2>1, <2>4, <2>5
  <2> QED BY <2>6, <2>7
<1>6. 0 .. m \subseteq S
  <2> HIDE DEF S
  <2> QED BY <1>2, <1>4, <1>5, CountingUp
<1>7. m \in S
  BY <1>2, <1>6
<1>8. Cardinality(f[m]) <= m
  BY <1>1, <1>3, FS_Subset DEF m
<1>9. Cardinality(f[m]) \in Nat
  BY <1>1, <1>3, FS_Subset, FS_CardinalityType
<1>10. Closed(f[m])
  BY <1>2, <1>7, <1>8, <1>9
<1> QED BY <1>1, <1>3, <1>10

-----------------------------------------------------------------------------
(* Stacks.                                                                 *)

\* A stack with another element on top, one more element, one less.
LEMMA TopReplaced ==
  ASSUME NEW R, NEW cs \in Seq(R), cs # <<>>, NEW top \in R
  PROVE  LET n == Len(cs)
             s == [cs EXCEPT ![n] = top]
         IN  /\ n \in Nat \ {0} /\ DOMAIN cs = 1 .. n /\ n \in 1 .. n
             /\ s \in Seq(R) /\ DOMAIN s = 1 .. n /\ Len(s) = n /\ s[n] = top
             /\ \A i \in 1 .. n : i # n => s[i] = cs[i]
OBVIOUS

LEMMA Pushed ==
  ASSUME NEW R, NEW cs \in Seq(R), NEW top \in R
  PROVE  LET n == Len(cs)
             s == Append(cs, top)
         IN  /\ n \in Nat /\ DOMAIN cs = 1 .. n
             /\ s \in Seq(R) /\ DOMAIN s = 1 .. n + 1 /\ Len(s) = n + 1 /\ s[n + 1] = top
             /\ \A i \in 1 .. n : s[i] = cs[i]
             /\ \A i \in 1 .. n + 1 : i # n + 1 => i \in 1 .. n
OBVIOUS

LEMMA Popped ==
  ASSUME NEW R, NEW cs \in Seq(R), cs # <<>>
  PROVE  LET n == Len(cs)
             s == SubSeq(cs, 1, n - 1)
         IN  /\ n \in Nat \ {0} /\ DOMAIN cs = 1 .. n
             /\ s \in Seq(R) /\ DOMAIN s = 1 .. n - 1 /\ Len(s) = n - 1
             /\ \A i \in 1 .. n - 1 : s[i] = cs[i]
             /\ \A i \in 1 .. n : i # n => i \in 1 .. n - 1
<1> DEFINE n == Len(cs)
           s == SubSeq(cs, 1, n - 1)
<1>1. n \in Nat \ {0} /\ DOMAIN cs = 1 .. n
  OBVIOUS
<1>2. s \in Seq(R) /\ Len(s) = n - 1 /\ \A i \in 1 .. n - 1 : s[i] = cs[i]
  BY <1>1, SubSeqProperties
<1> HIDE DEF s, n
<1>3. DOMAIN s = 1 .. n - 1
  BY <1>2
<1>4. \A i \in 1 .. n : i # n => i \in 1 .. n - 1
  BY <1>1
<1> QED BY <1>1, <1>2, <1>3, <1>4 DEF s, n

-----------------------------------------------------------------------------
(* Dominance, in a function whose lists of predecessors and successors     *)
(* agree.                                                                  *)

\* The lists of predecessors and successors agree, and nothing leads to the
\* entry.
FlowGraph(f) ==
  /\ f.made \in Nat /\ f.blocks \subseteq 1 .. f.made
  /\ Entry \in f.blocks /\ f.pre[Entry] = <<>>
  /\ f.pre \in Seq(Seq(1 .. f.made)) /\ Len(f.pre) = f.made
  /\ f.succ \in Seq(Seq(1 .. f.made)) /\ Len(f.succ) = f.made
  /\ \A b \in f.blocks :
       /\ Range(f.succ[b]) \subseteq f.blocks /\ Range(f.pre[b]) \subseteq f.blocks
       /\ \A c \in f.blocks : b \in Range(f.pre[c]) <=> c \in Range(f.succ[b])

Dominates(f, a, b) ==
  b \in Reachable(f) /\ a \in f.blocks /\ b \notin PathsFrom(f, Entry, {a})

LEMMA FlowFacts ==
  ASSUME NEW f, FlowGraph(f)
  PROVE  /\ IsFiniteSet(f.blocks) /\ Entry \in f.blocks /\ f.blocks \subseteq Nat \ {0}
         /\ \A b \in f.blocks :
              /\ f.pre[b] \in Seq(f.blocks) /\ Len(f.pre[b]) \in Nat
              /\ DOMAIN f.pre[b] = 1 .. Len(f.pre[b])
              /\ f.succ[b] \in Seq(f.blocks) /\ Len(f.succ[b]) \in Nat
              /\ DOMAIN f.succ[b] = 1 .. Len(f.succ[b])
              /\ Range(f.succ[b]) \subseteq f.blocks /\ Range(f.pre[b]) \subseteq f.blocks
              /\ \A i \in 1 .. Len(f.pre[b]) : f.pre[b][i] \in Range(f.pre[b])
              /\ \A i \in 1 .. Len(f.succ[b]) : f.succ[b][i] \in Range(f.succ[b])
              /\ \A c \in f.blocks : b \in Range(f.pre[c]) <=> c \in Range(f.succ[b])
<1>1. IsFiniteSet(f.blocks)
  <2>1. 1 \in Int /\ f.made \in Int /\ f.blocks \in SUBSET (1 .. f.made)
    BY DEF FlowGraph
  <2>2. IsFiniteSet(1 .. f.made)
    BY <2>1, FS_Interval
  <2> QED BY <2>1, <2>2, FS_Subset
<1>2. ASSUME NEW s \in Seq(1 .. f.made), Range(s) \subseteq f.blocks
      PROVE  /\ s \in Seq(f.blocks) /\ Len(s) \in Nat /\ DOMAIN s = 1 .. Len(s)
             /\ \A i \in 1 .. Len(s) : s[i] \in Range(s)
  <2>1. Len(s) \in Nat /\ DOMAIN s = 1 .. Len(s) /\ s = [i \in 1 .. Len(s) |-> s[i]]
    OBVIOUS
  <2>2. \A i \in 1 .. Len(s) : s[i] \in Range(s)
    BY <2>1 DEF Range
  <2>3. s \in [1 .. Len(s) -> f.blocks]
    BY <2>1, <2>2, <1>2
  <2> QED BY <2>1, <2>2, <2>3, SeqDef
<1>3. \A b \in f.blocks : f.pre[b] \in Seq(1 .. f.made) /\ f.succ[b] \in Seq(1 .. f.made)
  <2> DEFINE S == Seq(1 .. f.made)
  <2>1. /\ f.blocks \subseteq 1 .. f.made /\ f.pre \in Seq(S) /\ Len(f.pre) = f.made
        /\ f.succ \in Seq(S) /\ Len(f.succ) = f.made
    BY DEF FlowGraph
  <2> HIDE DEF S
  <2>2. \A b \in f.blocks : f.pre[b] \in S /\ f.succ[b] \in S
    BY <2>1
  <2> QED BY <2>2 DEF S
<1>4. \A b \in f.blocks : Range(f.succ[b]) \subseteq f.blocks /\ Range(f.pre[b]) \subseteq f.blocks
  BY DEF FlowGraph
<1>5. \A b \in f.blocks :
        /\ f.pre[b] \in Seq(f.blocks) /\ Len(f.pre[b]) \in Nat
        /\ DOMAIN f.pre[b] = 1 .. Len(f.pre[b])
        /\ \A i \in 1 .. Len(f.pre[b]) : f.pre[b][i] \in Range(f.pre[b])
        /\ f.succ[b] \in Seq(f.blocks) /\ Len(f.succ[b]) \in Nat
        /\ DOMAIN f.succ[b] = 1 .. Len(f.succ[b])
        /\ \A i \in 1 .. Len(f.succ[b]) : f.succ[b][i] \in Range(f.succ[b])
  BY <1>2, <1>3, <1>4
<1>6. /\ Entry \in f.blocks /\ f.blocks \subseteq Nat \ {0}
      /\ \A b, c \in f.blocks : b \in Range(f.pre[c]) <=> c \in Range(f.succ[b])
  <2>1. f.blocks \subseteq Nat \ {0}
    <3>1. f.made \in Nat /\ f.blocks \subseteq 1 .. f.made
      BY DEF FlowGraph
    <3> QED BY <3>1
  <2> QED BY <2>1 DEF FlowGraph
<1>7. ASSUME NEW b \in f.blocks
      PROVE  \A c \in f.blocks : b \in Range(f.pre[c]) <=> c \in Range(f.succ[b])
  BY <1>6
<1> QED BY <1>1, <1>4, <1>5, <1>6, <1>7

\* The blocks on the paths from the entry that avoid a set.
LEMMA PathFacts ==
  ASSUME NEW f, FlowGraph(f), NEW avoid
  PROVE  LET P == PathsFrom(f, Entry, avoid)
         IN  /\ P \subseteq f.blocks \ avoid
             /\ Entry \notin avoid => Entry \in P
             /\ \A x \in P : Range(f.succ[x]) \ avoid \subseteq P
             /\ \A C \in SUBSET f.blocks :
                  /\ {Entry} \ avoid \subseteq C
                  /\ \A x \in C : Range(f.succ[x]) \ avoid \subseteq C
                  => P \subseteq C
<1> DEFINE next == [b \in f.blocks |-> Range(f.succ[b]) \ avoid]
           start == {Entry} \ avoid
           P == ReachedFrom(next, start)
<1>1. /\ IsFiniteSet(DOMAIN next) /\ DOMAIN next = f.blocks /\ start \subseteq f.blocks \ avoid
      /\ \A b \in f.blocks : next[b] = Range(f.succ[b]) \ avoid
      /\ \A b \in f.blocks : next[b] \subseteq f.blocks \ avoid
  BY FlowFacts
<1>2. P = PathsFrom(f, Entry, avoid)
  BY DEF PathsFrom
<1> HIDE DEF next, start
<1>3. P \subseteq f.blocks /\ \A x \in P : next[x] \subseteq P
  BY <1>1, ReachedIsClosed
<1>4. start \subseteq P
  BY <1>1, ReachedContains
<1>5. ASSUME NEW C \in SUBSET f.blocks, start \subseteq C,
             \A x \in C : Range(f.succ[x]) \ avoid \subseteq C
      PROVE  P \subseteq C
  BY <1>1, <1>5, ReachedIsLeast
<1>6. P \subseteq f.blocks \ avoid
  <2>1. f.blocks \ avoid \in SUBSET f.blocks
    OBVIOUS
  <2>2. \A x \in f.blocks \ avoid : Range(f.succ[x]) \ avoid \subseteq f.blocks \ avoid
    BY <1>1
  <2> QED BY <1>1, <2>1, <2>2, <1>5
<1> HIDE DEF P
<1> QED BY <1>1, <1>2, <1>3, <1>4, <1>5, <1>6 DEF start

LEMMA ReachableFacts ==
  ASSUME NEW f, FlowGraph(f)
  PROVE  /\ Reachable(f) \subseteq f.blocks /\ Entry \in Reachable(f)
         /\ \A x \in Reachable(f) : Range(f.succ[x]) \subseteq Reachable(f)
         /\ \A C \in SUBSET f.blocks :
              Entry \in C /\ (\A x \in C : Range(f.succ[x]) \subseteq C)
                => Reachable(f) \subseteq C
BY PathFacts DEF Reachable

\* A dominator of a block dominates the predecessors of the block too.
LEMMA DominatesBefore ==
  ASSUME NEW f, FlowGraph(f), NEW a, NEW b, NEW p \in Reachable(f),
         b \in Range(f.succ[p]), Dominates(f, a, b), a # b
  PROVE  Dominates(f, a, p)
BY PathFacts DEF Dominates

LEMMA DominatesItself ==
  ASSUME NEW f, FlowGraph(f), NEW b \in Reachable(f)
  PROVE  Dominates(f, b, b)
BY PathFacts, ReachableFacts DEF Dominates

LEMMA EntryDominator ==
  ASSUME NEW f, FlowGraph(f), NEW a, Dominates(f, a, Entry)
  PROVE  a = Entry
BY PathFacts DEF Dominates

LEMMA DominatesTransitive ==
  ASSUME NEW f, FlowGraph(f), NEW a, NEW b, NEW c,
         Dominates(f, a, b), Dominates(f, b, c)
  PROVE  Dominates(f, a, c)
<1> DEFINE A == PathsFrom(f, Entry, {a})
           B == PathsFrom(f, Entry, {b})
<1>1. CASE b = Entry
  BY <1>1, EntryDominator
<1>2. CASE b # Entry
  <2>1. /\ A \subseteq f.blocks \ {a} /\ \A x \in A : Range(f.succ[x]) \ {a} \subseteq A
        /\ B \subseteq f.blocks \ {b} /\ \A x \in B : Range(f.succ[x]) \ {b} \subseteq B
        /\ Entry # a => Entry \in A
        /\ Entry \in B
        /\ \A C \in SUBSET f.blocks :
             {Entry} \ {a} \subseteq C /\ (\A x \in C : Range(f.succ[x]) \ {a} \subseteq C)
               => A \subseteq C
    BY <1>2, PathFacts
  <2>2. b \notin A /\ c \notin B
    BY DEF Dominates
  <2> HIDE DEF A, B
  <2>3. A \cap B \in SUBSET f.blocks /\ {Entry} \ {a} \subseteq A \cap B
    BY <2>1
  <2>4. \A x \in A \cap B : Range(f.succ[x]) \ {a} \subseteq A \cap B
    BY <2>1, <2>2
  <2>5. A \subseteq A \cap B
    BY <2>1, <2>3, <2>4
  <2> QED BY <2>2, <2>5 DEF Dominates, A
<1> QED BY <1>1, <1>2

\* Dominance shown by a set of blocks that only the dominator lets out of.
LEMMA DominatesBySeparation ==
  ASSUME NEW f, FlowGraph(f), NEW a \in f.blocks, NEW b \in Reachable(f),
         NEW C \in SUBSET f.blocks, {Entry} \ {a} \subseteq C,
         \A x \in C : Range(f.succ[x]) \ {a} \subseteq C, b \notin C
  PROVE  Dominates(f, a, b)
BY PathFacts DEF Dominates

LEMMA DominatorReachable ==
  ASSUME NEW f, FlowGraph(f), NEW a, NEW b, Dominates(f, a, b)
  PROVE  a \in Reachable(f)
<1>1. SUFFICES ASSUME a \notin Reachable(f) PROVE FALSE
  OBVIOUS
<1> DEFINE C == Reachable(f) \cap PathsFrom(f, Entry, {a})
<1>2. C \in SUBSET f.blocks /\ Entry \in C
  BY <1>1, ReachableFacts, PathFacts
<1>3. \A x \in C : Range(f.succ[x]) \subseteq C
  BY <1>1, ReachableFacts, PathFacts
<1>4. Reachable(f) \subseteq C
  <2> HIDE DEF C
  <2> QED BY <1>2, <1>3, ReachableFacts
<1> QED BY <1>4 DEF Dominates

LEMMA DominatorsOfFacts ==
  ASSUME NEW f
  PROVE  /\ DOMAIN DominatorsOf(f) = Reachable(f)
         /\ \A b \in Reachable(f) : DominatorsOf(f)[b] = {a \in f.blocks : Dominates(f, a, b)}
<1>1. ASSUME NEW g
      PROVE  Table(g) = g
  BY DEF Table
<1> DEFINE without == [a \in f.blocks |-> PathsFrom(f, Entry, {a})]
           dom == [b \in Reachable(f) |-> {a \in f.blocks : b \notin without[a]}]
<1>2. Table(without) = without
  BY <1>1
<1>3. Table(dom) = dom
  BY <1>1
<1>4. DominatorsOf(f) = dom
  BY <1>2, <1>3 DEF DominatorsOf
<1>5. \A b \in Reachable(f) : dom[b] = {a \in f.blocks : Dominates(f, a, b)}
  BY DEF Dominates
<1> HIDE DEF dom
<1>6. DOMAIN dom = Reachable(f)
  BY DEF dom
<1> QED BY <1>4, <1>5, <1>6

LEMMA DominatesAntisymmetric ==
  ASSUME NEW f, FlowGraph(f), NEW a, NEW b, Dominates(f, a, b), Dominates(f, b, a)
  PROVE  a = b
<1>1. SUFFICES ASSUME a # b PROVE FALSE
  OBVIOUS
<1> DEFINE A == PathsFrom(f, Entry, {a})
           B == PathsFrom(f, Entry, {b})
           C == {x \in Reachable(f) : x \in A /\ x \in B}
<1>2. /\ a # Entry /\ b # Entry
  BY <1>1, EntryDominator
<1>3. /\ A \subseteq f.blocks \ {a} /\ \A x \in A : Range(f.succ[x]) \ {a} \subseteq A
      /\ B \subseteq f.blocks \ {b} /\ \A x \in B : Range(f.succ[x]) \ {b} \subseteq B
      /\ Entry \in A /\ Entry \in B
  BY <1>2, PathFacts
<1>4. b \notin A /\ a \notin B
  BY DEF Dominates
<1>5. C \in SUBSET f.blocks /\ Entry \in C
  BY <1>3, ReachableFacts
<1> HIDE DEF A, B
<1>6. \A x \in C : Range(f.succ[x]) \subseteq C
  <2> SUFFICES ASSUME NEW x \in C, NEW y \in Range(f.succ[x]) PROVE y \in C
    OBVIOUS
  <2>1. y \in Reachable(f)
    BY ReachableFacts
  <2>2. (y # a => y \in A) /\ (y # b => y \in B)
    BY <1>3
  <2> QED BY <1>1, <1>4, <2>1, <2>2
<1>7. b \in C
  BY <1>5, <1>6, ReachableFacts DEF Dominates
<1> QED BY <1>3, <1>7

\* Of two dominators of a block, one dominates the other.
LEMMA DominatorsChain ==
  ASSUME NEW f, FlowGraph(f), NEW a, NEW b, NEW c, Dominates(f, a, c), Dominates(f, b, c)
  PROVE  Dominates(f, a, b) \/ Dominates(f, b, a)
<1>1. SUFFICES ASSUME ~Dominates(f, a, b), ~Dominates(f, b, a) PROVE FALSE
  OBVIOUS
<1> DEFINE A == PathsFrom(f, Entry, {a})
           B == PathsFrom(f, Entry, {b})
           C == {x \in Reachable(f) : x \in A \/ x \in B}
<1>2. a \in Reachable(f) /\ b \in Reachable(f) /\ a \in f.blocks /\ b \in f.blocks
  BY DominatorReachable DEF Dominates
<1>3. b \in A /\ a \in B /\ c \notin A /\ c \notin B
  BY <1>1, <1>2 DEF Dominates
<1>4. /\ \A x \in A : Range(f.succ[x]) \ {a} \subseteq A
      /\ \A x \in B : Range(f.succ[x]) \ {b} \subseteq B
      /\ Entry # a => Entry \in A
      /\ Entry # b => Entry \in B
  BY PathFacts
<1> HIDE DEF A, B
<1>5. C \in SUBSET f.blocks /\ Entry \in C
  BY <1>3, <1>4, ReachableFacts
<1>6. \A x \in C : Range(f.succ[x]) \subseteq C
  <2> SUFFICES ASSUME NEW x \in C, NEW y \in Range(f.succ[x]) PROVE y \in C
    OBVIOUS
  <2>1. y \in Reachable(f)
    BY ReachableFacts
  <2> QED BY <1>3, <1>4, <2>1
<1>7. c \in C
  BY <1>5, <1>6, ReachableFacts DEF Dominates
<1> QED BY <1>3, <1>7

LEMMA EntryDominates ==
  ASSUME NEW f, FlowGraph(f), NEW b \in Reachable(f)
  PROVE  Dominates(f, Entry, b)
<1>1. {} \in SUBSET f.blocks /\ {Entry} \ {Entry} \subseteq {} /\ Entry \in f.blocks
  BY FlowFacts
<1> QED BY <1>1, DominatesBySeparation

-----------------------------------------------------------------------------
(* The dominator tree.                                                     *)

DominatorsIn(f, b) == {a \in f.blocks : Dominates(f, a, b)}

LEMMA DominatorsGrow ==
  ASSUME NEW f, FlowGraph(f), NEW a, NEW b, Dominates(f, a, b), a # b
  PROVE  /\ Cardinality(DominatorsIn(f, a)) \in 0 .. Cardinality(f.blocks)
         /\ Cardinality(DominatorsIn(f, a)) < Cardinality(DominatorsIn(f, b))
         /\ Cardinality(f.blocks) \in Nat
<1>1. IsFiniteSet(f.blocks) /\ b \in Reachable(f) /\ b \in f.blocks
  BY FlowFacts, ReachableFacts DEF Dominates
<1>2. DominatorsIn(f, a) \subseteq DominatorsIn(f, b)
  BY DominatesTransitive DEF DominatorsIn
<1>3. b \in DominatorsIn(f, b) /\ b \notin DominatorsIn(f, a)
  BY <1>1, DominatesItself, DominatesAntisymmetric DEF DominatorsIn
<1>4. IsFiniteSet(DominatorsIn(f, b)) /\ DominatorsIn(f, b) \subseteq f.blocks
  BY <1>1, FS_Subset DEF DominatorsIn
<1>5. Cardinality(DominatorsIn(f, a)) < Cardinality(DominatorsIn(f, b))
  <2>1. /\ Cardinality(DominatorsIn(f, a)) <= Cardinality(DominatorsIn(f, b))
        /\ Cardinality(DominatorsIn(f, a)) # Cardinality(DominatorsIn(f, b))
    BY <1>2, <1>3, <1>4, FS_Subset
  <2>2. /\ Cardinality(DominatorsIn(f, a)) \in Nat
        /\ Cardinality(DominatorsIn(f, b)) \in Nat
    BY <1>2, <1>4, FS_Subset, FS_CardinalityType
  <2> QED BY <2>1, <2>2
<1>6. Cardinality(DominatorsIn(f, a)) <= Cardinality(f.blocks)
  BY <1>1, <1>2, <1>4, FS_Subset
<1>7. Cardinality(DominatorsIn(f, a)) \in Nat /\ Cardinality(f.blocks) \in Nat
  BY <1>1, <1>2, <1>4, FS_Subset, FS_CardinalityType
<1> QED BY <1>5, <1>6, <1>7

\* a is the immediate dominator of b.
Immediate(f, a, b) ==
  /\ Dominates(f, a, b) /\ a # b
  /\ \A c : Dominates(f, c, b) /\ c # b => Dominates(f, c, a)

LEMMA ImmediateExists ==
  ASSUME NEW f, FlowGraph(f), NEW b \in Reachable(f), b # Entry
  PROVE  \E a : Immediate(f, a, b)
<1> DEFINE N == Cardinality(f.blocks)
           rest(a) == N - Cardinality(DominatorsIn(f, a))
           S == {a \in f.blocks : Dominates(f, a, b) /\ a # b}
           T == {rest(a) : a \in S}
<1>1. Entry \in S
  BY EntryDominates, FlowFacts
<1>2. \A a \in S : rest(a) \in Nat
  BY DominatorsGrow
<1>3. PICK n \in T : \A m \in T : n <= m
  <2>1. T \in SUBSET Nat /\ T # {}
    BY <1>1, <1>2
  <2> HIDE DEF T
  <2> QED BY <2>1, LeastNumber
<1>4. PICK a \in S : n = rest(a)
  OBVIOUS
<1>5. ASSUME NEW c, Dominates(f, c, b), c # b, ~Dominates(f, c, a) PROVE FALSE
  <2>1. c \in S /\ Dominates(f, a, c) /\ a # c
    BY <1>5, DominatorsChain, DominatesItself, DominatorReachable DEF Dominates
  <2>2. Cardinality(DominatorsIn(f, a)) < Cardinality(DominatorsIn(f, c))
    BY <2>1, DominatorsGrow
  <2>3. rest(a) <= rest(c)
    BY <1>3, <1>4, <2>1
  <2>4. /\ Cardinality(DominatorsIn(f, a)) \in Nat /\ Cardinality(DominatorsIn(f, c)) \in Nat
        /\ N \in Nat
    BY <2>1, <1>4, DominatorsGrow
  <2> QED BY <2>2, <2>3, <2>4
<1> QED BY <1>4, <1>5 DEF Immediate

LEMMA ImmediateUnique ==
  ASSUME NEW f, FlowGraph(f), NEW a, NEW c, NEW b, Immediate(f, a, b), Immediate(f, c, b)
  PROVE  a = c
BY DominatesAntisymmetric DEF Immediate

LEMMA ImmediateDominatorFacts ==
  ASSUME NEW f, FlowGraph(f), NEW b \in Reachable(f), b # Entry
  PROVE  Immediate(f, ImmediateDominator(f, DominatorsOf(f), b), b)
<1> DEFINE dom == DominatorsOf(f)
           Good(a) == a \in dom[b] \ {b} /\ dom[b] \ {b} \subseteq dom[a]
<1>1. dom[b] = {a \in f.blocks : Dominates(f, a, b)}
  BY DominatorsOfFacts
<1>2. ASSUME NEW a \in dom[b]
      PROVE  dom[a] = {c \in f.blocks : Dominates(f, c, a)}
  BY <1>1, DominatorReachable, DominatorsOfFacts
<1> HIDE DEF dom
<1>3. ASSUME NEW a PROVE Good(a) <=> Immediate(f, a, b)
  <2>1. \A c : Dominates(f, c, b) => c \in f.blocks
    BY DEF Dominates
  <2> QED BY <1>1, <1>2, <2>1 DEF Immediate
<1>4. \E a : Good(a)
  BY <1>3, ImmediateExists
<1>5. Good(CHOOSE a : Good(a))
  BY <1>4
<1>6. ImmediateDominator(f, dom, b) = CHOOSE a : Good(a)
  BY DEF ImmediateDominator
<1> QED BY <1>3, <1>5, <1>6 DEF dom

\* A block that dominates another dominates it through one of its children.
LEMMA ThroughChild ==
  ASSUME NEW f, FlowGraph(f), NEW a, NEW b, Dominates(f, a, b), a # b
  PROVE  \E c \in Reachable(f) \ {Entry} : Immediate(f, a, c) /\ Dominates(f, c, b)
<1> DEFINE S == {c \in f.blocks : Dominates(f, a, c) /\ a # c /\ Dominates(f, c, b)}
           T == {Cardinality(DominatorsIn(f, c)) : c \in S}
<1>1. b \in S
  BY ReachableFacts, DominatesItself DEF Dominates
<1>2. \A c \in S : Cardinality(DominatorsIn(f, c)) \in Nat
  <2> SUFFICES ASSUME NEW c \in S PROVE Cardinality(DominatorsIn(f, c)) \in Nat
    OBVIOUS
  <2>1. IsFiniteSet(DominatorsIn(f, c))
    BY FlowFacts, FS_Subset DEF DominatorsIn
  <2> QED BY <2>1, FS_CardinalityType
<1>3. PICK n \in T : \A m \in T : n <= m
  <2>1. T \in SUBSET Nat /\ T # {}
    BY <1>1, <1>2
  <2> HIDE DEF T
  <2> QED BY <2>1, LeastNumber
<1>4. PICK c \in S : n = Cardinality(DominatorsIn(f, c))
  OBVIOUS
<1>5. c \in Reachable(f) /\ c # Entry
  BY EntryDominator, DominatorReachable
<1>6. PICK e : Immediate(f, e, c)
  BY <1>5, ImmediateExists
<1>7. ASSUME e # a PROVE FALSE
  <2>1. Dominates(f, a, e) /\ Dominates(f, e, c) /\ e # c
    BY <1>6 DEF Immediate
  <2>2. e \in S
    BY <1>7, <2>1, DominatesTransitive DEF Dominates
  <2>3. Cardinality(DominatorsIn(f, e)) < Cardinality(DominatorsIn(f, c))
    BY <2>1, DominatorsGrow
  <2>4. Cardinality(DominatorsIn(f, c)) <= Cardinality(DominatorsIn(f, e))
    BY <1>3, <1>4, <2>2
  <2> QED BY <1>2, <2>2, <2>3, <2>4
<1> QED BY <1>5, <1>6, <1>7

=============================================================================
