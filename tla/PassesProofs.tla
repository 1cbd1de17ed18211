----------------------------- MODULE PassesProofs -----------------------------
(***************************************************************************)
(* Proofs about Passes, for functions of any size and any choice of        *)
(* constant conditions: from its first step to its last ConstPropagation   *)
(* keeps the predecessor lists current, erases nothing that can be         *)
(* executed, and leaves nothing else behind but loops nothing enters; and  *)
(* LoopSearch finds the natural loops.                                     *)
(*                                                                         *)
(* The function the visitor hands over is current: no block jumps to       *)
(* itself or twice to the same block (BuilderProofs), and lists and jumps  *)
(* agree.  A folded branch and an erased block keep that, although the     *)
(* successor lists then hold blocks nothing jumps to any more.  When every *)
(* block but the entry has a predecessor, following predecessors from a    *)
(* block that cannot be executed must end in a cycle.                      *)
(*                                                                         *)
(* The visitor's functions are reducible, so that a component of what is   *)
(* left of the graph has a block that dominates the others; the natural    *)
(* loop of this block is the component, since no block of a loop is taken  *)
(* out of the graph before its header.                                     *)
(***************************************************************************)
EXTENDS Passes, BuilderProofs

-----------------------------------------------------------------------------
(* What is left of a list.                                                 *)

LeftAt(list, b, f, i) ==
  IF i = 0 THEN <<>>
  ELSE IF list[i] = b THEN f[i - 1] ELSE Append(f[i - 1], list[i])
LeftOver(list, b, m, f) == f = [i \in 0 .. m |-> LeftAt(list, b, f, i)]

LEMMA LeftOverExists ==
  ASSUME NEW list, NEW b, NEW m \in Nat
  PROVE  \E f : LeftOver(list, b, m, f)
<1> DEFINE S == {n \in 0 .. m : \E f : LeftOver(list, b, n, f)}
<1>1. 0 \in S
  <2>1. LeftOver(list, b, 0, [i \in 0 .. 0 |-> <<>>])
    BY DEF LeftOver, LeftAt
  <2> QED BY <2>1
<1>2. ASSUME NEW n \in Nat, n < m, n \in S PROVE n + 1 \in S
  <2>1. PICK f : LeftOver(list, b, n, f)
    BY <1>2
  <2> DEFINE g == [i \in 0 .. n + 1 |-> LeftAt(list, b, f, i)]
  <2>2. \A i \in 0 .. n : g[i] = f[i]
    BY <2>1 DEF LeftOver
  <2>3. \A i \in 0 .. n + 1 : i # 0 => i - 1 \in 0 .. n
    OBVIOUS
  <2>4. \A i \in 0 .. n + 1 : LeftAt(list, b, f, i) = LeftAt(list, b, g, i)
    <3> HIDE DEF g
    <3> QED BY <2>2, <2>3 DEF LeftAt
  <2>5. LeftOver(list, b, n + 1, g)
    BY <2>4 DEF LeftOver
  <2>6. n + 1 \in 0 .. m
    BY <1>2
  <2> HIDE DEF g
  <2> QED BY <2>5, <2>6
<1>3. 0 .. m \subseteq S
  <2> HIDE DEF S
  <2> QED BY <1>1, <1>2, CountingUp
<1> QED BY <1>3

\* list::remove leaves the other elements, and no others.
LEMMA WithoutFacts ==
  ASSUME NEW S, NEW list \in Seq(S), NEW b
  PROVE  Without(list, b) \in Seq(S) /\ Range(Without(list, b)) = Range(list) \ {b}
<1>1. Len(list) \in Nat /\ DOMAIN list = 1 .. Len(list) /\ \A i \in 1 .. Len(list) : list[i] \in S
  OBVIOUS
<1> DEFINE f == CHOOSE f : LeftOver(list, b, Len(list), f)
<1>2. LeftOver(list, b, Len(list), f)
  BY <1>1, LeftOverExists
<1>3. Without(list, b) = f[Len(list)]
  BY DEF Without, LeftOver, LeftAt
<1> HIDE DEF f
<1> DEFINE Good == {i \in 0 .. Len(list) : /\ f[i] \in Seq(S)
                     /\ Range(f[i]) = {list[k] : k \in 1 .. i} \ {b}}
<1>4. 0 \in Good
  <2>1. f[0] = <<>>
    BY <1>1, <1>2 DEF LeftOver, LeftAt
  <2>2. f[0] \in Seq(S) /\ Range(f[0]) = {}
    BY <2>1, ForksFacts
  <2>3. {list[k] : k \in 1 .. 0} = {}
    OBVIOUS
  <2> QED BY <1>1, <2>2, <2>3
<1>5. ASSUME NEW n \in Nat, n < Len(list), n \in Good PROVE n + 1 \in Good
  <2>1. n + 1 \in 0 .. Len(list) /\ (n + 1) - 1 = n /\ n + 1 # 0 /\ list[n + 1] \in S
    BY <1>1, <1>5
  <2>2. f[n + 1] = IF list[n + 1] = b THEN f[n] ELSE Append(f[n], list[n + 1])
    BY <1>2, <2>1 DEF LeftOver, LeftAt
  <2>3. {list[k] : k \in 1 .. n + 1} = {list[k] : k \in 1 .. n} \cup {list[n + 1]}
    <3>1. 1 .. n + 1 = (1 .. n) \cup {n + 1}
      OBVIOUS
    <3> QED BY <3>1
  <2>4. f[n] \in Seq(S) /\ Range(f[n]) = {list[k] : k \in 1 .. n} \ {b}
    BY <1>5
  <2>5. CASE list[n + 1] = b
    BY <2>1, <2>2, <2>3, <2>4, <2>5
  <2>6. CASE list[n + 1] # b
    <3>1. /\ Append(f[n], list[n + 1]) \in Seq(S)
          /\ Range(Append(f[n], list[n + 1])) = Range(f[n]) \cup {list[n + 1]}
      BY <2>1, <2>4, Appended
    <3> QED BY <3>1, <2>1, <2>2, <2>3, <2>4, <2>6
  <2> QED BY <2>5, <2>6
<1>6. 0 .. Len(list) \subseteq Good
  <2> HIDE DEF Good
  <2> QED BY <1>1, <1>4, <1>5, CountingUp
<1>7. Len(list) \in Good
  <2> HIDE DEF Good
  <2> QED BY <1>1, <1>6
<1>8. Range(list) = {list[k] : k \in 1 .. Len(list)}
  BY <1>1 DEF Range
<1> QED BY <1>3, <1>7, <1>8

-----------------------------------------------------------------------------
(* A round of erasures.                                                    *)

Next(s) == CHOOSE x \in s : TRUE
EraseAt(f, h, s) == IF s = {} THEN f ELSE EraseBlock(h[s \ {Next(s)}], Next(s))
UpTo(S, n) == {s \in SUBSET S : Cardinality(s) <= n}
Erasures(f, S, n, h) == h = [s \in UpTo(S, n) |-> EraseAt(f, h, s)]

LEMMA SmallerSet ==
  ASSUME NEW S, IsFiniteSet(S), NEW n \in Nat, NEW s \in UpTo(S, n + 1), s # {}
  PROVE  Next(s) \in s /\ s \ {Next(s)} \in UpTo(S, n)
<1>1. Next(s) \in s
  BY DEF Next
<1>2. IsFiniteSet(s) /\ s \subseteq S
  BY FS_Subset DEF UpTo
<1>3. Cardinality(s \ {Next(s)}) = Cardinality(s) - 1 /\ Cardinality(s) \in Nat
  BY <1>1, <1>2, FS_RemoveElement, FS_CardinalityType
<1>4. Cardinality(s) <= n + 1
  BY DEF UpTo
<1>5. Cardinality(s \ {Next(s)}) <= n
  BY <1>3, <1>4
<1> QED BY <1>1, <1>2, <1>5 DEF UpTo

LEMMA AllSubsets ==
  ASSUME NEW S, IsFiniteSet(S)
  PROVE  Cardinality(S) \in Nat /\ UpTo(S, Cardinality(S)) = SUBSET S /\ S \in UpTo(S, Cardinality(S))
<1>1. Cardinality(S) \in Nat /\ \A s \in SUBSET S : Cardinality(s) <= Cardinality(S)
  BY FS_CardinalityType, FS_Subset
<1> QED BY <1>1 DEF UpTo

LEMMA ErasuresExist ==
  ASSUME NEW f, NEW S, IsFiniteSet(S), NEW m \in Nat
  PROVE  \E h : Erasures(f, S, m, h)
<1> DEFINE T == {n \in 0 .. m : \E h : Erasures(f, S, n, h)}
<1>1. 0 \in T
  <2> DEFINE h == [s \in UpTo(S, 0) |-> f]
  <2>1. \A s \in UpTo(S, 0) : s = {}
    <3> SUFFICES ASSUME NEW s \in UpTo(S, 0) PROVE s = {}
      OBVIOUS
    <3>1. IsFiniteSet(s) /\ Cardinality(s) <= 0
      BY FS_Subset DEF UpTo
    <3> QED BY <3>1, FS_CardinalityType, FS_EmptySet
  <2>2. \A s \in UpTo(S, 0) : EraseAt(f, h, s) = f
    BY <2>1 DEF EraseAt
  <2>3. Erasures(f, S, 0, h)
    BY <2>2 DEF Erasures
  <2> HIDE DEF h
  <2> QED BY <2>3
<1>2. ASSUME NEW n \in Nat, n < m, n \in T PROVE n + 1 \in T
  <2>1. PICK h : Erasures(f, S, n, h)
    BY <1>2
  <2> DEFINE g == [s \in UpTo(S, n + 1) |-> EraseAt(f, h, s)]
  <2>2. \A s \in UpTo(S, n) : s \in UpTo(S, n + 1)
    <3> SUFFICES ASSUME NEW s \in UpTo(S, n) PROVE s \in UpTo(S, n + 1)
      OBVIOUS
    <3>1. s \in SUBSET S /\ IsFiniteSet(s) /\ Cardinality(s) <= n
      BY FS_Subset DEF UpTo
    <3>2. Cardinality(s) \in Nat
      BY <3>1, FS_CardinalityType
    <3> QED BY <3>1, <3>2 DEF UpTo
  <2>3. \A s \in UpTo(S, n) : g[s] = h[s]
    BY <2>1, <2>2 DEF Erasures
  <2>4. \A s \in UpTo(S, n + 1) : EraseAt(f, h, s) = EraseAt(f, g, s)
    <3> HIDE DEF g
    <3> QED BY <2>3, SmallerSet DEF EraseAt
  <2>5. Erasures(f, S, n + 1, g)
    BY <2>4 DEF Erasures
  <2>6. n + 1 \in 0 .. m
    BY <1>2
  <2> HIDE DEF g
  <2> QED BY <2>5, <2>6
<1>3. 0 .. m \subseteq T
  <2> HIDE DEF T
  <2> QED BY <1>1, <1>2, CountingUp
<1>4. m \in T
  <2> HIDE DEF T
  <2> QED BY <1>3
<1> QED BY <1>4

LEMMA RoundIsErasures ==
  ASSUME NEW f, NEW S, IsFiniteSet(S)
  PROVE  \E h : /\ Erasures(f, S, Cardinality(S), h)
                /\ C!FoldSet(LAMBDA b, g : C!EraseBlock(g, b), f, S) = h[S]
<1> DEFINE h == CHOOSE h : Erasures(f, S, Cardinality(S), h)
<1>1. Erasures(f, S, Cardinality(S), h)
  BY AllSubsets, ErasuresExist
<1>2. \A g, b : C!EraseBlock(g, b) = EraseBlock(g, b)
  BY DEF C!EraseBlock, EraseBlock, C!Without, Without, C!Range, Range
<1>3. h = CHOOSE i : i = [s \in SUBSET S |->
             IF s = {} THEN f ELSE EraseBlock(i[s \ {CHOOSE x \in s : TRUE}], CHOOSE x \in s : TRUE)]
  BY AllSubsets DEF Erasures, EraseAt, Next
<1> HIDE DEF h
<1>4. C!FoldSet(LAMBDA b, g : C!EraseBlock(g, b), f, S) = h[S]
  BY <1>2, <1>3 DEF C!FoldSet, C!MapThenFoldSet
<1> QED BY <1>1, <1>4

-----------------------------------------------------------------------------
(* The lists ConstPropagation relies on.                                   *)

JumpsTo(f, b) == Range(TargetsOf(f, b))

\* Every jump leads to another block of the function and is known to both ends.
Current(f) ==
  /\ FunctionType(f) /\ Entry \in f.blocks
  /\ \A b \in f.blocks :
       /\ Forks(TargetsOf(f, b))
       /\ b \notin JumpsTo(f, b) /\ JumpsTo(f, b) \subseteq f.blocks
       /\ JumpsTo(f, b) \subseteq Range(f.succ[b])
       /\ Range(f.pre[b]) = {p \in f.blocks : b \in JumpsTo(f, p)}

LEMMA BuiltIsCurrent ==
  ASSUME Inv, EntryInv, Laid, Built
  PROVE  Current(fn)
<1>1. WellFormed(fn) /\ Entry \in fn.blocks
  BY DEF Inv, InvOf, Built, EntryInv, EntryFirst
<1>2. \A b \in fn.blocks : /\ Forks(TargetsOf(fn, b))
                           /\ Range(fn.succ[b]) = JumpsTo(fn, b)
                           /\ JumpsTo(fn, b) \subseteq fn.blocks
                           /\ b \notin JumpsTo(fn, b)
  BY BuiltLaid DEF EdgeLaid, JumpsTo
<1>3. \A b \in fn.blocks : Range(fn.pre[b]) = {p \in fn.blocks : b \in JumpsTo(fn, p)}
  BY <1>1, <1>2 DEF WellFormed, EdgesAgree
<1> QED BY <1>1, <1>2, <1>3 DEF Current, WellFormed

LEMMA PredecessorsChanged ==
  ASSUME NEW f, FunctionType(f), NEW pre \in [1 .. f.made -> Seq(1 .. f.made)],
         NEW blocks \in SUBSET f.blocks
  PROVE  FunctionType([f EXCEPT !.blocks = blocks, !.succ = f.succ, !.pre = pre])
<1>1. f.made \in Nat
  BY BlockLists
<1>2. \A s \in Seq(1 .. f.made) : s \in Seq(Nat)
  BY <1>1, SeqMonotonic
<1>3. pre \in [1 .. f.made -> Seq(Nat)]
  BY <1>2
<1>4. /\ pre \in Seq(Seq(1 .. f.made)) /\ pre \in Seq(Seq(Nat)) /\ Len(pre) = f.made
  BY <1>1, <1>3, ListOf
<1> QED BY <1>4 DEF FunctionType

\* A block without predecessors that goes takes its jumps with it.
LEMMA EraseKeepsCurrent ==
  ASSUME NEW f, Current(f), NEW b \in f.blocks \ {Entry}, f.pre[b] = <<>>
  PROVE  LET g == EraseBlock(f, b)
         IN  /\ Current(g) /\ g.blocks = f.blocks \ {b}
             /\ \A c \in g.blocks : f.pre[c] = <<>> => g.pre[c] = <<>>
             /\ \A c \in g.blocks : TargetsOf(g, c) = TargetsOf(f, c)
<1> DEFINE g == EraseBlock(f, b)
           succ == [p \in DOMAIN f.succ |-> IF p \in Range(f.pre[b]) THEN Without(f.succ[p], b) ELSE f.succ[p]]
           pre == [s \in DOMAIN f.pre |-> IF s \in Range(f.succ[b]) THEN Without(f.pre[s], b) ELSE f.pre[s]]
<1>1. FunctionType(f) /\ b \in f.blocks /\ b \in 1 .. f.made
  BY DEF Current, FunctionType
<1>2. Range(f.pre[b]) = {}
  BY ForksFacts
<1>4. /\ DOMAIN f.pre = 1 .. f.made /\ DOMAIN f.succ = 1 .. f.made
      /\ f.made \in Nat /\ f.blocks \subseteq 1 .. f.made
      /\ \A s \in 1 .. f.made : f.pre[s] \in Seq(1 .. f.made)
  BY <1>1, BlockLists
<1>5. succ = f.succ
  <2>1. succ = [p \in DOMAIN f.succ |-> f.succ[p]]
    BY <1>2
  <2>2. f.succ = [p \in DOMAIN f.succ |-> f.succ[p]]
    BY <1>1 DEF FunctionType
  <2> HIDE DEF succ
  <2> QED BY <2>1, <2>2
<1>6. /\ DOMAIN pre = 1 .. f.made
      /\ \A s \in 1 .. f.made : pre[s] = IF s \in Range(f.succ[b]) THEN Without(f.pre[s], b) ELSE f.pre[s]
  BY <1>4
<1>7. g = [f EXCEPT !.blocks = f.blocks \ {b}, !.succ = succ, !.pre = pre]
  BY <1>1 DEF EraseBlock, FunctionType
<1> HIDE DEF g, pre, succ
<1>8. \A s \in 1 .. f.made : pre[s] \in Seq(1 .. f.made)
  BY <1>4, <1>6, WithoutFacts
<1>9. pre \in [1 .. f.made -> Seq(1 .. f.made)]
  <2>1. pre = [s \in 1 .. f.made |-> pre[s]]
    BY <1>4, <1>6 DEF pre
  <2> QED BY <2>1, <1>8
<1>3. /\ g.made = f.made /\ g.blocks = f.blocks \ {b} /\ g.code = f.code
      /\ g.succ = f.succ /\ g.pre = pre
  BY <1>1, <1>5, <1>7 DEF FunctionType
<1>10. FunctionType(g)
  BY <1>1, <1>5, <1>7, <1>9, PredecessorsChanged
<1>11. \A c \in f.blocks : TargetsOf(g, c) = TargetsOf(f, c) /\ JumpsTo(g, c) = JumpsTo(f, c)
  BY <1>3 DEF TargetsOf, HasTerminator, JumpsTo
<1>12. \A c \in f.blocks : b \notin JumpsTo(f, c)
  BY <1>1, <1>2 DEF Current
<1>13. \A c \in g.blocks : Range(g.pre[c]) = Range(f.pre[c]) \ {b}
  <2> SUFFICES ASSUME NEW c \in f.blocks \ {b} PROVE Range(g.pre[c]) = Range(f.pre[c]) \ {b}
    BY <1>3
  <2>1. c \in 1 .. f.made /\ f.pre[c] \in Seq(1 .. f.made)
    BY <1>4
  <2>2. CASE c \in Range(f.succ[b])
    BY <2>1, <2>2, <1>3, <1>6, WithoutFacts
  <2>3. CASE c \notin Range(f.succ[b])
    <3>1. b \notin Range(f.pre[c])
      BY <2>3, <1>1 DEF Current
    <3> QED BY <2>1, <2>3, <3>1, <1>3, <1>6
  <2> QED BY <2>2, <2>3
<1>14. Entry \in g.blocks
  BY <1>3 DEF Current
<1>15. ASSUME NEW c \in g.blocks
       PROVE  /\ Forks(TargetsOf(g, c)) /\ c \notin JumpsTo(g, c) /\ JumpsTo(g, c) \subseteq g.blocks
              /\ JumpsTo(g, c) \subseteq Range(g.succ[c])
              /\ Range(g.pre[c]) = {p \in g.blocks : c \in JumpsTo(g, p)}
  <2>1. c \in f.blocks
    BY <1>3
  <2>2. /\ Forks(TargetsOf(f, c)) /\ c \notin JumpsTo(f, c) /\ JumpsTo(f, c) \subseteq f.blocks
        /\ JumpsTo(f, c) \subseteq Range(f.succ[c])
        /\ Range(f.pre[c]) = {p \in f.blocks : c \in JumpsTo(f, p)}
    BY <2>1 DEF Current
  <2>3. Range(g.pre[c]) = {p \in g.blocks : c \in JumpsTo(g, p)}
    BY <2>2, <1>3, <1>11, <1>13
  <2> QED BY <2>1, <2>2, <2>3, <1>3, <1>11, <1>12
<1>16. ASSUME NEW c \in g.blocks, f.pre[c] = <<>> PROVE g.pre[c] = <<>>
  <2>1. Range(f.pre[c]) = {}
    BY <1>16, ForksFacts
  <2>2. c \in 1 .. f.made /\ Range(g.pre[c]) = {}
    BY <2>1, <1>3, <1>4, <1>13
  <2> QED BY <2>2, <1>3, <1>8, EmptyRange
<1>17. Current(g)
  BY <1>10, <1>14, <1>15 DEF Current
<1> QED BY <1>3, <1>11, <1>16, <1>17 DEF g

\* So a round of erasures keeps the lists current.
LEMMA RoundKeepsCurrent ==
  ASSUME NEW f, Current(f), NEW S \in SUBSET (f.blocks \ {Entry}), \A b \in S : f.pre[b] = <<>>
  PROVE  LET g == C!FoldSet(LAMBDA b, h : C!EraseBlock(h, b), f, S)
         IN  Current(g) /\ (S = {} => g = f)
<1>1. IsFiniteSet(S)
  <2>1. f.blocks \subseteq 1 .. f.made /\ f.made \in Nat
    BY DEF Current, FunctionType
  <2> PICK n \in Nat : n = f.made
    BY <2>1
  <2>2. IsFiniteSet(1 .. n)
    BY FS_Interval
  <2> QED BY <2>1, <2>2, FS_Subset
<1>2. PICK h : /\ Erasures(f, S, Cardinality(S), h)
               /\ C!FoldSet(LAMBDA b, g : C!EraseBlock(g, b), f, S) = h[S]
  BY <1>1, RoundIsErasures
<1> DEFINE m == Cardinality(S)
           After(g, s) == /\ Current(g) /\ g.blocks = f.blocks \ s
                          /\ \A b \in S \ s : g.pre[b] = <<>>
           T == {n \in 0 .. m : \A s \in UpTo(S, n) : After(h[s], s)}
<1>3. m \in Nat /\ S \in UpTo(S, m)
  BY <1>1, AllSubsets
<1>4. \A n \in 0 .. m : \A s \in UpTo(S, n) : s \in UpTo(S, m) /\ h[s] = EraseAt(f, h, s)
  <2> SUFFICES ASSUME NEW n \in 0 .. m, NEW s \in UpTo(S, n)
               PROVE s \in UpTo(S, m) /\ h[s] = EraseAt(f, h, s)
    OBVIOUS
  <2>1. s \in UpTo(S, m)
    BY <1>1, AllSubsets DEF UpTo
  <2> QED BY <2>1, <1>2 DEF Erasures
<1>5. After(h[{}], {}) /\ h[{}] = f
  <2>1. {} \in UpTo(S, m)
    BY <1>1, AllSubsets
  <2>2. h[{}] = f
    BY <2>1, <1>2 DEF Erasures, EraseAt
  <2>3. \A c \in S \ {} : f.pre[c] = <<>>
    OBVIOUS
  <2>4. f.blocks = f.blocks \ {}
    OBVIOUS
  <2> QED BY <2>2, <2>3, <2>4
<1>6. ASSUME NEW n \in 0 .. m, NEW s \in UpTo(S, n), s # {},
             After(h[s \ {Next(s)}], s \ {Next(s)})
      PROVE  After(h[s], s)
  <2> DEFINE g == h[s \ {Next(s)}]
             b == Next(s)
  <2>1. h[s] = EraseBlock(g, b)
    BY <1>4, <1>6 DEF EraseAt
  <2>2. b \in s /\ s \subseteq S
    BY <1>6 DEF Next, UpTo
  <2>3. Current(g) /\ g.blocks = f.blocks \ (s \ {b}) /\ \A c \in S \ (s \ {b}) : g.pre[c] = <<>>
    BY <1>6
  <2> HIDE DEF g, b, After
  <2>4. b \in g.blocks \ {Entry} /\ g.pre[b] = <<>>
    BY <2>2, <2>3
  <2>5. /\ Current(h[s]) /\ h[s].blocks = g.blocks \ {b}
        /\ \A c \in h[s].blocks : g.pre[c] = <<>> => h[s].pre[c] = <<>>
    BY <2>1, <2>3, <2>4, EraseKeepsCurrent
  <2>6. h[s].blocks = f.blocks \ s
    BY <2>2, <2>3, <2>5
  <2>7. \A c \in S \ s : h[s].pre[c] = <<>>
    BY <2>3, <2>5, <2>6
  <2> QED BY <2>5, <2>6, <2>7 DEF After
<1> HIDE DEF After, m
<1>7. 0 \in T
  <2>1. \A s \in UpTo(S, 0) : s = {}
    <3> SUFFICES ASSUME NEW s \in UpTo(S, 0) PROVE s = {}
      OBVIOUS
    <3>1. IsFiniteSet(s) /\ Cardinality(s) <= 0
      BY <1>1, FS_Subset DEF UpTo
    <3>2. Cardinality(s) \in Nat /\ (Cardinality(s) = 0 => s = {})
      BY <3>1, FS_CardinalityType, FS_EmptySet
    <3> QED BY <3>1, <3>2
  <2>2. ASSUME NEW s \in UpTo(S, 0) PROVE After(h[s], s)
    <3>1. s = {}
      BY <2>1
    <3> QED BY <3>1, <1>5
  <2> QED BY <2>2, <1>3
<1>8. ASSUME NEW n \in Nat, n < m, n \in T PROVE n + 1 \in T
  <2>1. n + 1 \in 0 .. m
    BY <1>3, <1>8
  <2>2. ASSUME NEW s \in UpTo(S, n + 1) PROVE After(h[s], s)
    <3>1. CASE s = {}
      BY <3>1, <1>5
    <3>2. CASE s # {}
      <4>1. s \ {Next(s)} \in UpTo(S, n)
        BY <3>2, <1>1, SmallerSet
      <4>2. After(h[s \ {Next(s)}], s \ {Next(s)})
        BY <4>1, <1>8
      <4> QED BY <4>2, <3>2, <2>1, <1>6
    <3> QED BY <3>1, <3>2
  <2> QED BY <2>1, <2>2
<1>9. 0 .. m \subseteq T
  <2> HIDE DEF T
  <2> QED BY <1>3, <1>7, <1>8, CountingUp
<1>10. m \in T
  <2> HIDE DEF T
  <2> QED BY <1>3, <1>9
<1>11. After(h[S], S)
  BY <1>3, <1>10
<1> QED BY <1>2, <1>5, <1>11 DEF After

-----------------------------------------------------------------------------
(* A folded branch.                                                        *)

\* The arms of a branch on a condition.
LEMMA Arms ==
  ASSUME NEW f, Current(f), NEW b \in f.blocks, HasTerminator(f, b),
         Len(f.code[b][Len(f.code[b])].to) = 2
  PROVE  \E t, e \in f.blocks : /\ t # e /\ t # b /\ e # b
                                /\ f.code[b][Len(f.code[b])].to[1] = t
                                /\ f.code[b][Len(f.code[b])].to[2] = e
                                /\ JumpsTo(f, b) = {t, e}
<1> DEFINE to == f.code[b][Len(f.code[b])].to
<1>1. TargetsOf(f, b) = to
  BY DEF TargetsOf
<1>2. Forks(to) /\ Len(to) = 2
  BY <1>1 DEF Current
<1> HIDE DEF to
<1>3. PICK t, e \in Nat : t # e /\ to = <<t, e>>
  <2>1. Len(<<>>) = 0 /\ \A t \in Nat : Len(<<t>>) = 1
    OBVIOUS
  <2>2. to # <<>>
    BY <1>2, <2>1
  <2>3. ASSUME NEW t \in Nat, to = <<t>> PROVE FALSE
    <3>1. Len(<<t>>) = 2
      BY <1>2, <2>3
    <3> QED BY <3>1, <2>1
  <2> QED BY <1>2, <2>2, <2>3 DEF Forks
<1>4. Range(to) = {t, e}
  BY <1>3, ForksFacts
<1>5. JumpsTo(f, b) = {t, e}
  BY <1>1, <1>4 DEF JumpsTo
<1>6. t \in f.blocks /\ e \in f.blocks /\ t # b /\ e # b
  BY <1>5 DEF Current
<1>7. to[1] = t /\ to[2] = e
  BY <1>3
<1> QED BY <1>3, <1>5, <1>6, <1>7 DEF to

LEMMA ListsReplaced ==
  ASSUME NEW f, FunctionType(f),
         NEW code \in [1 .. f.made -> Seq(Instr)],
         NEW pre \in [1 .. f.made -> Seq(1 .. f.made)],
         NEW succ \in [1 .. f.made -> Seq(1 .. f.made)]
  PROVE  FunctionType([f EXCEPT !.code = code, !.pre = pre, !.succ = succ])
<1>1. f.made \in Nat
  BY BlockLists
<1>2. \A s \in Seq(1 .. f.made) : s \in Seq(Nat)
  BY <1>1, SeqMonotonic
<1>3. pre \in [1 .. f.made -> Seq(Nat)] /\ succ \in [1 .. f.made -> Seq(Nat)]
  BY <1>2
<1>4. /\ pre \in Seq(Seq(1 .. f.made)) /\ pre \in Seq(Seq(Nat)) /\ Len(pre) = f.made
      /\ code \in Seq(Seq(Instr)) /\ Len(code) = f.made
  BY <1>1, <1>3, ListOf
<1>5. /\ succ \in Seq(Seq(1 .. f.made)) /\ succ \in Seq(Seq(Nat)) /\ Len(succ) = f.made
  BY <1>1, <1>3, ListOf
<1> QED BY <1>4, <1>5, ListsChanged

\* What is left of a block once the branch and its condition are gone.
LEMMA Shortened ==
  ASSUME NEW S, NEW s \in Seq(S), NEW e \in S, NEW last \in S, s # <<>>
  PROVE  LET r == SubSeq(Append(s, e), 1, Len(Append(s, e)) - 3) \o <<last>>
         IN  r \in Seq(S) /\ r # <<>> /\ r[Len(r)] = last
<1> DEFINE x == SubSeq(Append(s, e), 1, Len(Append(s, e)) - 3)
<1>1. Append(s, e) \in Seq(S) /\ Len(Append(s, e)) \in Nat /\ Len(Append(s, e)) >= 2
  BY Appended
<1>2. x \in Seq(S)
  BY <1>1
<1> HIDE DEF x
<1>3. x \o <<last>> = Append(x, last)
  BY <1>2
<1>4. /\ Append(x, last) \in Seq(S) /\ Append(x, last) # <<>>
      /\ Append(x, last)[Len(Append(x, last))] = last
  BY <1>2, Appended
<1> QED BY <1>3, <1>4 DEF x

\* From f to g block b loses one of its two targets.
Redirected(f, g, b, kept, lost) ==
  /\ FunctionType(g) /\ g.blocks = f.blocks
  /\ TargetsOf(g, b) = <<kept>>
  /\ \A c \in f.blocks \ {b} : TargetsOf(g, c) = TargetsOf(f, c)
  /\ Range(g.pre[kept]) = Range(f.pre[kept]) \cup {b}
  /\ Range(g.pre[lost]) = Range(f.pre[lost]) \ {b}
  /\ \A c \in f.blocks \ {kept, lost} : g.pre[c] = f.pre[c]
  /\ Range(g.succ[b]) = Range(f.succ[b]) \cup {kept}
  /\ \A c \in f.blocks \ {b} : g.succ[c] = f.succ[c]

LEMMA RedirectShape ==
  ASSUME Current(fn), NEW b \in fn.blocks, HasTerminator(fn, b),
         NEW kept \in fn.blocks, NEW lost \in fn.blocks, kept # lost
  PROVE  Redirected(fn, C!Redirect(b, kept, lost), b, kept, lost)
<1> DEFINE g == C!Redirect(b, kept, lost)
           made == fn.made
           longer == Append(fn.code[b], Br(<<kept>>))
           end == SubSeq(longer, 1, Len(longer) - 3) \o <<Br(<<kept>>)>>
           more == Append(fn.pre[kept], b)
           less == Without(fn.pre[lost], b)
           next == Append(fn.succ[b], kept)
           code == [fn.code EXCEPT ![b] = end]
           pre == [[fn.pre EXCEPT ![kept] = more] EXCEPT ![lost] = less]
           succ == [fn.succ EXCEPT ![b] = next]
<1>1. FunctionType(fn) /\ fn.blocks \subseteq 1 .. made /\ made \in Nat
  BY BlockLists DEF Current
<1>2. /\ DOMAIN fn.pre = 1 .. made /\ DOMAIN fn.succ = 1 .. made /\ DOMAIN fn.code = 1 .. made
      /\ \A s \in 1 .. made : /\ fn.pre[s] \in Seq(1 .. made) /\ fn.succ[s] \in Seq(1 .. made)
                              /\ fn.code[s] \in Seq(Instr)
  BY <1>1, BlockLists
<1>3. b \in 1 .. made /\ kept \in 1 .. made /\ lost \in 1 .. made
  BY <1>1
<1>4. Br(<<kept>>) \in Instr /\ IsTerminator(Br(<<kept>>)) /\ Br(<<kept>>).to = <<kept>>
  <2>1. kept \in Nat
    BY <1>1, <1>3
  <2>2. <<kept>> \in Seq(Nat)
    BY <2>1
  <2> QED BY <2>2, TerminatorInstr, Zenon
<1>5. end \in Seq(Instr) /\ end # <<>> /\ end[Len(end)] = Br(<<kept>>)
  <2>1. fn.code[b] \in Seq(Instr) /\ fn.code[b] # <<>>
    BY <1>2, <1>3 DEF HasTerminator
  <2> QED BY <2>1, <1>4, Shortened
<1>6. more \in Seq(1 .. made) /\ Range(more) = Range(fn.pre[kept]) \cup {b}
  <2> DEFINE names == 1 .. made
  <2>1. fn.pre[kept] \in Seq(names) /\ b \in names
    BY <1>2, <1>3
  <2> HIDE DEF names
  <2>2. more \in Seq(names) /\ Range(more) = Range(fn.pre[kept]) \cup {b}
    BY <2>1, Appended
  <2> QED BY <2>2 DEF names
<1>7. less \in Seq(1 .. made) /\ Range(less) = Range(fn.pre[lost]) \ {b}
  <2> DEFINE names == 1 .. made
  <2>1. fn.pre[lost] \in Seq(names)
    BY <1>2, <1>3
  <2> HIDE DEF names
  <2>2. less \in Seq(names) /\ Range(less) = Range(fn.pre[lost]) \ {b}
    BY <2>1, WithoutFacts
  <2> QED BY <2>2 DEF names
<1>8. next \in Seq(1 .. made) /\ Range(next) = Range(fn.succ[b]) \cup {kept}
  <2> DEFINE names == 1 .. made
  <2>1. fn.succ[b] \in Seq(names) /\ kept \in names
    BY <1>2, <1>3
  <2> HIDE DEF names
  <2>2. next \in Seq(names) /\ Range(next) = Range(fn.succ[b]) \cup {kept}
    BY <2>1, Appended
  <2> QED BY <2>2 DEF names
<1>9. g = [fn EXCEPT !.code = code, !.pre = pre, !.succ = succ]
  <2> DEFINE f0 == CreateBr(fn, b, kept)
             f1 == [f0 EXCEPT !.pre[lost] = Without(@, b)]
  <2>1. g = [f1 EXCEPT !.code[b] = SubSeq(@, 1, Len(@) - 3) \o <<Br(<<kept>>)>>]
    BY DEF C!Redirect, C!LostForgets, C!CreateBr, CreateBr, C!Without, Without, C!Br, Br
  <2>2. f0 = [fn EXCEPT !.code = [fn.code EXCEPT ![b] = longer],
                        !.pre = [fn.pre EXCEPT ![kept] = more],
                        !.succ = succ]
    BY <1>1 DEF FunctionType, CreateBr
  <2>3. f0.pre[lost] = fn.pre[lost]
    <3> HIDE DEF more, longer, succ, f0
    <3> QED BY <2>2, <1>1, <1>2, <1>3 DEF FunctionType
  <2> HIDE DEF f0, more, less, longer, succ
  <2>4. f1 = [fn EXCEPT !.code = [fn.code EXCEPT ![b] = longer], !.pre = pre, !.succ = succ]
    BY <1>1, <2>2, <2>3 DEF FunctionType, less
  <2>5. f1.code[b] = longer
    <3> HIDE DEF f1, pre
    <3> QED BY <2>4, <1>1, <1>2, <1>3 DEF FunctionType
  <2> HIDE DEF f1, g, pre
  <2>6. g = [f1 EXCEPT !.code = [f1.code EXCEPT ![b] = end]]
    BY <2>1, <2>4, <2>5, <1>1 DEF FunctionType
  <2> HIDE DEF end
  <2>7. [f1.code EXCEPT ![b] = end] = [fn.code EXCEPT ![b] = end]
    BY <2>4, <1>1 DEF FunctionType
  <2> QED BY <2>4, <2>6, <2>7, <1>1 DEF FunctionType
<1> HIDE DEF end, more, less, next, g
<1>10. /\ code \in [1 .. made -> Seq(Instr)] /\ code[b] = end
       /\ \A c \in (1 .. made) \ {b} : code[c] = fn.code[c]
  BY <1>2, <1>3, <1>5
<1>11. /\ succ \in [1 .. made -> Seq(1 .. made)] /\ succ[b] = next
       /\ \A c \in (1 .. made) \ {b} : succ[c] = fn.succ[c]
  BY <1>2, <1>3, <1>8
<1>12. /\ pre \in [1 .. made -> Seq(1 .. made)] /\ pre[kept] = more /\ pre[lost] = less
       /\ \A c \in (1 .. made) \ {kept, lost} : pre[c] = fn.pre[c]
  BY <1>2, <1>3, <1>6, <1>7
<1> HIDE DEF code, succ, pre
<1>13. FunctionType(g)
  BY <1>1, <1>9, <1>10, <1>11, <1>12, ListsReplaced
<1>14. g.blocks = fn.blocks /\ g.code = code /\ g.pre = pre /\ g.succ = succ
  BY <1>1, <1>9 DEF FunctionType
<1>15. TargetsOf(g, b) = <<kept>>
  BY <1>4, <1>5, <1>10, <1>14 DEF TargetsOf, HasTerminator
<1>16. ASSUME NEW c \in fn.blocks \ {b} PROVE TargetsOf(g, c) = TargetsOf(fn, c)
  <2>1. g.code[c] = fn.code[c]
    BY <1>1, <1>10, <1>14
  <2> QED BY <2>1 DEF TargetsOf, HasTerminator
<1>17. \A c \in fn.blocks : c \in 1 .. made
  BY <1>1
<1> QED BY <1>6, <1>7, <1>8, <1>11, <1>12, <1>13, <1>14, <1>15, <1>16, <1>17 DEF Redirected, g

LEMMA RedirectKeepsCurrent ==
  ASSUME Current(fn), NEW b \in fn.blocks, HasTerminator(fn, b),
         NEW kept \in fn.blocks, NEW lost \in fn.blocks, kept # lost,
         JumpsTo(fn, b) = {kept, lost}
  PROVE  Current(C!Redirect(b, kept, lost))
<1> DEFINE g == C!Redirect(b, kept, lost)
<1>1. /\ FunctionType(g) /\ g.blocks = fn.blocks
      /\ TargetsOf(g, b) = <<kept>>
      /\ \A c \in fn.blocks \ {b} : TargetsOf(g, c) = TargetsOf(fn, c)
      /\ Range(g.pre[kept]) = Range(fn.pre[kept]) \cup {b}
      /\ Range(g.pre[lost]) = Range(fn.pre[lost]) \ {b}
      /\ \A c \in fn.blocks \ {kept, lost} : g.pre[c] = fn.pre[c]
      /\ Range(g.succ[b]) = Range(fn.succ[b]) \cup {kept}
      /\ \A c \in fn.blocks \ {b} : g.succ[c] = fn.succ[c]
  <2>1. Redirected(fn, g, b, kept, lost)
    BY RedirectShape
  <2> HIDE DEF g
  <2> QED BY <2>1 DEF Redirected
<1> HIDE DEF g
<1>2. kept \in Nat /\ FunctionType(fn) /\ Entry \in fn.blocks
  BY BlockLists DEF Current
<1>3. JumpsTo(g, b) = {kept} /\ Forks(TargetsOf(g, b))
  BY <1>1, <1>2, ForksFacts DEF JumpsTo
<1>4. \A c \in fn.blocks \ {b} : JumpsTo(g, c) = JumpsTo(fn, c)
  BY <1>1 DEF JumpsTo
<1>5. \A c \in fn.blocks :
        /\ Forks(TargetsOf(fn, c)) /\ c \notin JumpsTo(fn, c) /\ JumpsTo(fn, c) \subseteq fn.blocks
        /\ JumpsTo(fn, c) \subseteq Range(fn.succ[c])
        /\ Range(fn.pre[c]) = {p \in fn.blocks : c \in JumpsTo(fn, p)}
  BY DEF Current
<1>6. ASSUME NEW c \in fn.blocks
      PROVE  Range(g.pre[c]) = {p \in fn.blocks : c \in JumpsTo(g, p)}
  <2>1. \A p \in fn.blocks : c \in JumpsTo(g, p) <=>
          (IF p = b THEN c = kept ELSE c \in JumpsTo(fn, p))
    BY <1>3, <1>4
  <2>2. CASE c = kept
    BY <2>1, <2>2, <1>1, <1>5
  <2>3. CASE c = lost
    BY <2>1, <2>3, <1>1, <1>5
  <2>4. CASE c \notin {kept, lost}
    BY <2>1, <2>4, <1>1, <1>5
  <2> QED BY <2>2, <2>3, <2>4
<1>7. ASSUME NEW c \in fn.blocks
      PROVE  /\ Forks(TargetsOf(g, c)) /\ c \notin JumpsTo(g, c) /\ JumpsTo(g, c) \subseteq fn.blocks
             /\ JumpsTo(g, c) \subseteq Range(g.succ[c])
  <2>1. CASE c = b
    BY <2>1, <1>1, <1>3, <1>5
  <2>2. CASE c # b
    BY <2>2, <1>1, <1>4, <1>5
  <2> QED BY <2>1, <2>2
<1> QED BY <1>1, <1>2, <1>6, <1>7 DEF Current, g

LEMMA FoldedKeepsCurrent ==
  ASSUME Current(fn), NEW b \in fn.blocks, C!BranchesOnCondition(b),
         NEW cond \in {"unknown", "true", "false"}
  PROVE  Current(C!Folded(b, cond))
<1>1. HasTerminator(fn, b) /\ Len(fn.code[b][Len(fn.code[b])].to) = 2
  BY DEF C!BranchesOnCondition, C!HasTerminator, HasTerminator, C!IsTerminator, IsTerminator,
         C!LastInstr
<1>2. PICK t, e \in fn.blocks : /\ t # e /\ fn.code[b][Len(fn.code[b])].to[1] = t
                                /\ fn.code[b][Len(fn.code[b])].to[2] = e
                                /\ JumpsTo(fn, b) = {t, e}
  BY <1>1, Arms
<1>3. C!LastInstr(b).to[1] = t /\ C!LastInstr(b).to[2] = e
  BY <1>2 DEF C!LastInstr
<1>4. Current(C!Redirect(b, t, e)) /\ Current(C!Redirect(b, e, t))
  <2>1. JumpsTo(fn, b) = {e, t}
    BY <1>2
  <2> QED BY <2>1, <1>1, <1>2, RedirectKeepsCurrent
<1> QED BY <1>3, <1>4 DEF C!Folded

-----------------------------------------------------------------------------
(* What is left when nothing lacks a predecessor.                          *)

JumpsOf(f) == [b \in f.blocks |-> JumpsTo(f, b)]

LEMMA CurrentGraph ==
  ASSUME NEW f, Current(f)
  PROVE  /\ IsFiniteSet(f.blocks) /\ DOMAIN JumpsOf(f) = f.blocks /\ Entry \in f.blocks
         /\ \A b \in f.blocks : JumpsOf(f)[b] = JumpsTo(f, b) /\ JumpsOf(f)[b] \subseteq f.blocks
         /\ ReachedFrom(JumpsOf(f), {Entry}) \subseteq f.blocks
         /\ Entry \in ReachedFrom(JumpsOf(f), {Entry})
         /\ \A b \in ReachedFrom(JumpsOf(f), {Entry}) :
              JumpsTo(f, b) \subseteq ReachedFrom(JumpsOf(f), {Entry})
<1>1. IsFiniteSet(f.blocks)
  <2>1. f.blocks \subseteq 1 .. f.made /\ f.made \in Nat
    BY BlockLists DEF Current
  <2> PICK n \in Nat : n = f.made
    BY <2>1
  <2>2. IsFiniteSet(1 .. n)
    BY FS_Interval
  <2> QED BY <2>1, <2>2, FS_Subset
<1>2. DOMAIN JumpsOf(f) = f.blocks /\ \A b \in f.blocks : JumpsOf(f)[b] = JumpsTo(f, b)
  BY DEF JumpsOf
<1>3. Entry \in f.blocks /\ \A b \in f.blocks : JumpsTo(f, b) \subseteq f.blocks
  BY DEF Current
<1>4. /\ ReachedFrom(JumpsOf(f), {Entry}) \subseteq f.blocks
      /\ \A b \in ReachedFrom(JumpsOf(f), {Entry}) :
            JumpsOf(f)[b] \subseteq ReachedFrom(JumpsOf(f), {Entry})
      /\ {Entry} \subseteq ReachedFrom(JumpsOf(f), {Entry})
  <2> DEFINE next == JumpsOf(f)
             start == {Entry}
  <2>1. IsFiniteSet(DOMAIN next) /\ start \subseteq DOMAIN next
        /\ \A b \in DOMAIN next : next[b] \subseteq DOMAIN next
    BY <1>1, <1>2, <1>3
  <2> HIDE DEF next, start
  <2>2. /\ ReachedFrom(next, start) \subseteq DOMAIN next
        /\ \A b \in ReachedFrom(next, start) : next[b] \subseteq ReachedFrom(next, start)
        /\ start \subseteq ReachedFrom(next, start)
    BY <2>1, ReachedIsClosed, ReachedContains
  <2> QED BY <2>2, <1>2 DEF next, start
<1>5. \A b \in ReachedFrom(JumpsOf(f), {Entry}) :
         JumpsTo(f, b) \subseteq ReachedFrom(JumpsOf(f), {Entry})
  BY <1>2, <1>4
<1> QED BY <1>1, <1>2, <1>3, <1>4, <1>5

\* Reachability along a closed graph is transitive, and more of a graph
\* reaches more.
LEMMA ReachedAgain ==
  ASSUME NEW next, IsFiniteSet(DOMAIN next), \A b \in DOMAIN next : next[b] \subseteq DOMAIN next,
         NEW a \in DOMAIN next
  PROVE  /\ a \in ReachedFrom(next, {a}) /\ ReachedFrom(next, {a}) \subseteq DOMAIN next
         /\ \A b \in ReachedFrom(next, {a}) :
               /\ next[b] \subseteq ReachedFrom(next, {a})
               /\ ReachedFrom(next, {b}) \subseteq ReachedFrom(next, {a})
<1>1. /\ ReachedFrom(next, {a}) \subseteq DOMAIN next
      /\ \A b \in ReachedFrom(next, {a}) : next[b] \subseteq ReachedFrom(next, {a})
      /\ {a} \subseteq ReachedFrom(next, {a})
  BY ReachedIsClosed, ReachedContains
<1> DEFINE R == ReachedFrom(next, {a})
<1>2. ASSUME NEW b \in R PROVE ReachedFrom(next, {b}) \subseteq R
  <2> HIDE DEF R
  <2>1. {b} \subseteq R /\ \A c \in R : next[c] \subseteq R
    BY <1>1 DEF R
  <2> QED BY <2>1, ReachedIsLeast
<1> QED BY <1>1, <1>2

LEMMA MoreReached ==
  ASSUME NEW next, IsFiniteSet(DOMAIN next), \A b \in DOMAIN next : next[b] \subseteq DOMAIN next,
         NEW less, IsFiniteSet(DOMAIN less), DOMAIN less \subseteq DOMAIN next,
         \A b \in DOMAIN less : less[b] \subseteq next[b] \cap DOMAIN less,
         NEW start \in SUBSET DOMAIN next, NEW a \in start \cap DOMAIN less
  PROVE  ReachedFrom(less, {a}) \subseteq ReachedFrom(next, start)
<1> DEFINE R == ReachedFrom(next, start) \cap DOMAIN less
<1>1. /\ \A b \in ReachedFrom(next, start) : next[b] \subseteq ReachedFrom(next, start)
      /\ start \subseteq ReachedFrom(next, start)
  BY ReachedIsClosed, ReachedContains
<1>2. {a} \subseteq R /\ \A b \in R : less[b] \subseteq R
  BY <1>1
<1>3. ReachedFrom(less, {a}) \subseteq R
  <2> HIDE DEF R
  <2> QED BY <1>2, ReachedIsLeast
<1> QED BY <1>3

LEMMA TwoElements ==
  ASSUME NEW a, NEW b, a # b
  PROVE  Cardinality({a, b}) = 2
<1>1. IsFiniteSet({b}) /\ Cardinality({b}) = 1 /\ a \notin {b} /\ {b} \cup {a} = {a, b}
  BY FS_Singleton
<1>2. Cardinality({b} \cup {a}) = Cardinality({b}) + 1
  BY <1>1, FS_AddElement
<1> QED BY <1>1, <1>2

\* In a finite graph in which every node has a predecessor, and none is its
\* own, every node is behind a cycle.
LEMMA BehindCycles ==
  ASSUME NEW next, IsFiniteSet(DOMAIN next),
         \A b \in DOMAIN next : next[b] \subseteq DOMAIN next /\ b \notin next[b],
         \A b \in DOMAIN next : \E p \in DOMAIN next : b \in next[p],
         NEW b \in DOMAIN next
  PROVE  \E a \in UNION Components(next) : a \in DOMAIN next /\ b \in ReachedFrom(next, {a})
<1> DEFINE Before(n) == {a \in DOMAIN next : n \in ReachedFrom(next, {a})}
           sizes == {Cardinality(Before(a)) : a \in Before(b)}
<1>1. \A a \in DOMAIN next : IsFiniteSet(Before(a)) /\ Cardinality(Before(a)) \in Nat /\ a \in Before(a)
  <2> SUFFICES ASSUME NEW a \in DOMAIN next
               PROVE IsFiniteSet(Before(a)) /\ Cardinality(Before(a)) \in Nat /\ a \in Before(a)
    OBVIOUS
  <2>1. IsFiniteSet(Before(a))
    BY FS_Subset
  <2>2. a \in Before(a)
    BY ReachedAgain
  <2> HIDE DEF Before
  <2> QED BY <2>1, <2>2, FS_CardinalityType
<1>2. \A x \in DOMAIN next : \A y \in Before(x) : y \in DOMAIN next /\ Before(y) \subseteq Before(x)
  <2> SUFFICES ASSUME NEW x \in DOMAIN next, NEW y \in Before(x), NEW z \in Before(y)
               PROVE  z \in Before(x)
    OBVIOUS
  <2>1. x \in ReachedFrom(next, {y}) /\ y \in ReachedFrom(next, {z}) /\ z \in DOMAIN next
    OBVIOUS
  <2>2. ReachedFrom(next, {y}) \subseteq ReachedFrom(next, {z})
    BY <2>1, ReachedAgain
  <2> QED BY <2>1, <2>2
<1>3. \A p \in DOMAIN next : \A a \in next[p] : p \in Before(a)
  BY ReachedAgain
<1>4. Before(b) \subseteq DOMAIN next
  OBVIOUS
<1>5. \A n, a : a \in Before(n) <=> a \in DOMAIN next /\ n \in ReachedFrom(next, {a})
  OBVIOUS
<1> HIDE DEF Before
<1>6. PICK a \in Before(b) : \A c \in Before(b) : Cardinality(Before(a)) <= Cardinality(Before(c))
  <2>1. sizes \subseteq Nat /\ sizes # {}
    BY <1>1, <1>4
  <2>2. PICK x \in sizes : \A y \in sizes : x <= y
    <3> HIDE DEF sizes
    <3> QED BY <2>1, LeastNumber
  <2> QED BY <2>2
<1>7. a \in DOMAIN next
  BY <1>4
<1>8. PICK p \in DOMAIN next : a \in next[p]
  BY <1>7
<1>9. p \in Before(a) /\ p \in Before(b) /\ p # a
  BY <1>2, <1>3, <1>7, <1>8
<1>10. Before(p) = Before(a)
  <2>1. Before(p) \subseteq Before(a) /\ Cardinality(Before(a)) <= Cardinality(Before(p))
    BY <1>2, <1>6, <1>7, <1>9
  <2>2. /\ IsFiniteSet(Before(a)) /\ Cardinality(Before(a)) \in Nat
        /\ IsFiniteSet(Before(p)) /\ Cardinality(Before(p)) \in Nat
    BY <1>1, <1>7
  <2>3. Before(p) # Before(a) => Cardinality(Before(p)) < Cardinality(Before(a))
    BY <2>1, <2>2, FS_Subset
  <2> QED BY <2>1, <2>2, <2>3
<1>11. a \in Before(p)
  BY <1>1, <1>7, <1>10
<1> DEFINE mates == {m \in ReachedFrom(next, {a}) : a \in ReachedFrom(next, {m})}
<1>12. a \in mates /\ p \in mates
  BY <1>1, <1>5, <1>7, <1>9, <1>11
<1>13. Cardinality(mates) >= 2
  <2>1. mates \subseteq DOMAIN next
    BY <1>7, ReachedAgain
  <2>2. IsFiniteSet(mates)
    BY <2>1, FS_Subset
  <2> HIDE DEF mates
  <2>3. Cardinality({a, p}) = 2 /\ {a, p} \subseteq mates
    <3>1. Cardinality({a, p}) = 2
      BY <1>9, TwoElements
    <3>2. {a, p} \subseteq mates
      BY <1>12
    <3> QED BY <3>1, <3>2
  <2>4. Cardinality({a, p}) <= Cardinality(mates) /\ Cardinality(mates) \in Nat
    BY <2>2, <2>3, FS_Subset, FS_CardinalityType
  <2> QED BY <2>3, <2>4
<1>14. mates \in Components(next)
  BY <1>7, <1>13 DEF Components
<1>15. b \in ReachedFrom(next, {a})
  BY <1>5, <1>6
<1> HIDE DEF mates
<1> QED BY <1>7, <1>12, <1>14, <1>15

\* All that is left behind is behind a cycle.
LEMMA LeftBehindCycles ==
  ASSUME NEW f, Current(f), \A b \in f.blocks \ {Entry} : f.pre[b] # <<>>
  PROVE  LET left == f.blocks \ ReachedFrom(JumpsOf(f), {Entry})
             cycles == UNION Components([b \in left |-> JumpsOf(f)[b] \cap left])
         IN  left \subseteq ReachedFrom(JumpsOf(f), cycles)
<1> DEFINE live == ReachedFrom(JumpsOf(f), {Entry})
           left == f.blocks \ live
           inside == [b \in left |-> JumpsOf(f)[b] \cap left]
           cycles == UNION Components(inside)
<1>1. /\ IsFiniteSet(f.blocks) /\ DOMAIN JumpsOf(f) = f.blocks /\ live \subseteq f.blocks
      /\ Entry \in live
      /\ \A b \in f.blocks : JumpsOf(f)[b] = JumpsTo(f, b) /\ JumpsOf(f)[b] \subseteq f.blocks
      /\ \A b \in live : JumpsTo(f, b) \subseteq live
  BY CurrentGraph
<1> HIDE DEF live
<1>2. DOMAIN inside = left /\ IsFiniteSet(left) /\ left \subseteq f.blocks
  BY <1>1, FS_Subset
<1>3. \A b \in left : inside[b] = JumpsTo(f, b) \cap left
  BY <1>1
<1>4. \A b \in left : inside[b] \subseteq left /\ b \notin inside[b]
  BY <1>3 DEF Current
<1>5. ASSUME NEW b \in left PROVE \E p \in left : b \in inside[p]
  <2>1. b \in f.blocks \ {Entry} /\ f.pre[b] # <<>>
    BY <1>1
  <2>2. b \in 1 .. f.made /\ f.pre[b] \in Seq(1 .. f.made)
    BY <2>1, BlockLists DEF Current
  <2>3. Range(f.pre[b]) # {}
    BY <2>1, <2>2, EmptyRange
  <2>4. PICK p \in f.blocks : b \in JumpsTo(f, p)
    BY <2>1, <2>3 DEF Current
  <2>5. p \in left
    BY <2>4, <1>1
  <2> QED BY <2>4, <2>5, <1>3
<1> HIDE DEF inside, left
<1>6. ASSUME NEW b \in left PROVE b \in ReachedFrom(JumpsOf(f), cycles)
  <2>1. PICK a \in cycles : a \in left /\ b \in ReachedFrom(inside, {a})
    BY <1>2, <1>4, <1>5, BehindCycles
  <2>2. cycles \subseteq left
    <3> SUFFICES ASSUME NEW n \in left, NEW c \in ReachedFrom(inside, {n}) PROVE c \in left
      BY <1>2 DEF Components
    <3> QED BY <1>2, <1>4, ReachedAgain
  <2> HIDE DEF cycles
  <2>3. ReachedFrom(inside, {a}) \subseteq ReachedFrom(JumpsOf(f), cycles)
    <3>1. cycles \in SUBSET DOMAIN JumpsOf(f) /\ a \in cycles \cap DOMAIN inside
      BY <1>1, <1>2, <2>1, <2>2
    <3>2. \A c \in DOMAIN inside : inside[c] \subseteq JumpsOf(f)[c] \cap DOMAIN inside
      BY <1>1, <1>2, <1>3, <1>4
    <3>3. \A c \in DOMAIN JumpsOf(f) : JumpsOf(f)[c] \subseteq DOMAIN JumpsOf(f)
      BY <1>1
    <3>4. IsFiniteSet(DOMAIN JumpsOf(f)) /\ IsFiniteSet(DOMAIN inside)
          /\ DOMAIN inside \subseteq DOMAIN JumpsOf(f)
      BY <1>1, <1>2
    <3> QED BY <3>1, <3>2, <3>3, <3>4, MoreReached
  <2> QED BY <2>1, <2>3
<1> QED BY <1>6 DEF cycles, inside, left, live

-----------------------------------------------------------------------------
(* The passes.                                                             *)

ListsCurrent == Current(fn)

PassesInv ==
  /\ pass \in {"idle", "fold", "sweep", "done"}
  /\ pass # "idle" => moving = "off"
  /\ moving = "off" =>
       /\ ~Built => pass = "idle" /\ Inv /\ Scoping /\ Nested
       /\ Built => ListsCurrent
       /\ Built /\ pass = "done" => \A b \in fn.blocks \ {Entry} : fn.pre[b] # <<>>

LEMMA PassesInitially == PassesInit => PassesInv
<1> SUFFICES ASSUME PassesInit PROVE PassesInv
  OBVIOUS
<1>1. BuilderInit /\ pass = "idle" /\ moving = "off"
  BY DEF PassesInit, C!IdleConstPropagation, H!IdleHoist
<1>2. Inv /\ Scoping /\ Nested
  BY <1>1, Initially, InitiallyNested
<1>3. ~Built
  BY <1>1 DEF BuilderInit, Built
<1> QED BY <1>1, <1>2, <1>3 DEF PassesInv

LEMMA BuiltIsCurrentNext == Inv' /\ EntryInv' /\ Laid' /\ Built' => ListsCurrent'
<1>1. Inv /\ EntryInv /\ Laid /\ Built => ListsCurrent
  BY BuiltIsCurrent DEF ListsCurrent
<1> QED BY <1>1, PTL

LEMMA BuildKeeps ==
  ASSUME BuilderAssumption, PassesInv, Build
  PROVE  PassesInv'
<1>1. BuilderStep /\ pass' = pass /\ moving' = moving
  BY DEF Build, constVars, hoistVars
<1>2. ~Built
  BY <1>1, BuildingUnbuilt
<1> SUFFICES ASSUME moving = "off" PROVE PassesInv'
  BY <1>1 DEF PassesInv
<1>3. pass = "idle" /\ Inv /\ Scoping /\ Nested
  BY <1>2 DEF PassesInv
<1>4. Inv' /\ Scoping' /\ Nested'
  BY <1>1, <1>3, Inductive, NestedInductive DEF BuilderNext
<1>5. Built' => ListsCurrent'
  BY <1>4, BuiltIsCurrentNext DEF Nested
<1> QED BY <1>1, <1>3, <1>4, <1>5 DEF PassesInv

\* A step that changes neither the function nor where the passes are.
LEMMA ElsewhereKeeps ==
  ASSUME PassesInv, Built, stack' = stack, fn' = fn, pass' = pass,
         moving' = moving \/ (pass = "idle" /\ moving' # "off")
  PROVE  PassesInv'
<1>1. Built' /\ (ListsCurrent' <=> ListsCurrent)
  BY DEF Built, ListsCurrent
<1> QED BY <1>1 DEF PassesInv

LEMMA FoldingKeeps ==
  ASSUME PassesInv, Built, stack' = stack, moving' = moving, moving = "off",
         C!StartFolding \/ C!FoldBlock \/ C!EndFolding
  PROVE  PassesInv'
<1>1. Current(fn)
  BY DEF PassesInv, ListsCurrent
<1>2. Current(fn')
  <2>1. CASE C!FoldBlock
    <3>1. PICK cond \in {"unknown", "true", "false"} : fn' = C!Folded(at', cond)
      BY <2>1 DEF C!FoldBlock
    <3>2. at' = C!Min(C!StillToFold) /\ C!StillToFold # {} /\ pass' = "fold"
      BY <2>1 DEF C!FoldBlock
    <3>3. at' \in fn.blocks /\ C!BranchesOnCondition(at')
      <4>1. fn.blocks \subseteq Nat
        <5>1. fn.blocks \subseteq 1 .. fn.made /\ fn.made \in Nat
          BY <1>1, BlockLists DEF Current
        <5> QED BY <5>1
      <4>2. C!StillToFold \in SUBSET Nat
        BY <4>1 DEF C!StillToFold
      <4>3. \E x \in C!StillToFold : \A y \in C!StillToFold : x <= y
        BY <3>2, <4>2, LeastNumber
      <4>4. at' \in C!StillToFold
        BY <3>2, <4>3 DEF C!Min
      <4> QED BY <4>4 DEF C!StillToFold
    <3> QED BY <1>1, <3>1, <3>2, <3>3, FoldedKeepsCurrent
  <2>2. CASE C!StartFolding \/ C!EndFolding
    BY <1>1, <2>2 DEF C!StartFolding, C!EndFolding
  <2> QED BY <2>1, <2>2
<1>3. pass' \in {"fold", "sweep"}
  BY DEF C!StartFolding, C!FoldBlock, C!EndFolding
<1>4. Built' /\ ListsCurrent'
  <2>1. fn' # NoFunction
    BY <1>2 DEF Current, NoFunction
  <2> QED BY <1>2, <2>1 DEF Built, ListsCurrent
<1> QED BY <1>3, <1>4 DEF PassesInv

LEMMA EraseKeeps ==
  ASSUME PassesInv, Built, stack' = stack, moving' = moving, moving = "off", C!EraseUnreached
  PROVE  PassesInv'
<1> DEFINE S == C!WithoutPredecessor
<1>1. Current(fn)
  BY DEF PassesInv, ListsCurrent
<1>2. S \in SUBSET (fn.blocks \ {Entry}) /\ \A b \in S : fn.pre[b] = <<>>
  BY DEF C!WithoutPredecessor, C!Entry, Entry
<1>3. /\ fn' = C!FoldSet(LAMBDA b, f : C!EraseBlock(f, b), fn, S)
      /\ pass' = IF S # {} THEN "sweep" ELSE "done"
  BY DEF C!EraseUnreached, C!AnotherRound
<1>4. \A b \in fn.blocks \ {Entry} : fn.pre[b] = <<>> => b \in S
  BY DEF C!WithoutPredecessor, C!Entry, Entry
<1> HIDE DEF S
<1>5. Current(fn') /\ (S = {} => fn' = fn)
  BY <1>1, <1>2, <1>3, RoundKeepsCurrent
<1>6. Built' /\ ListsCurrent'
  <2>1. fn' # NoFunction
    BY <1>5 DEF Current, NoFunction
  <2> QED BY <1>5, <2>1 DEF Built, ListsCurrent
<1>7. pass' = "done" => \A b \in fn'.blocks \ {Entry} : fn'.pre[b] # <<>>
  BY <1>3, <1>4, <1>5
<1> QED BY <1>3, <1>6, <1>7 DEF PassesInv

LEMMA PassesStepKeeps ==
  ASSUME PassesInv, PassesStep
  PROVE  PassesInv'
<1>1. Built /\ stack' = stack
  BY DEF PassesStep, RunLoopSearch, RunConstPropagation, StartHoist, StartMoving, Move, Optimizing
<1>2. CASE RunLoopSearch
  <2>1. fn' = fn /\ pass' = pass /\ moving' = moving
    BY <1>2 DEF RunLoopSearch, L!LoopSearchStep, L!BuildCfg, L!TraverseCrashes, L!FindComponents,
       L!TakeLoop, constVars, hoistVars
  <2> QED BY <1>1, <2>1, ElsewhereKeeps
<1>3. CASE RunConstPropagation
  <2>1. moving' = moving /\ moving = "off" /\ C!ConstPropagationStep
    BY <1>3 DEF RunConstPropagation, hoistVars
  <2> QED BY <1>1, <2>1, FoldingKeeps, EraseKeeps DEF C!ConstPropagationStep
<1>4. CASE StartHoist
  <2>1. fn' = fn /\ pass' = pass /\ moving' = moving
    BY <1>4 DEF StartHoist, constVars, hoistVars
  <2> QED BY <1>1, <2>1, ElsewhereKeeps
<1>5. CASE StartMoving \/ Move
  <2>1. pass' = pass /\ pass = "idle" /\ moving' # "off"
    BY <1>5 DEF StartMoving, Move, H!StartMoving, H!HoistStep, H!NextLoop, H!MoveAllInstr,
       H!EndLoop, H!EndMoving, constVars, PassesInv
  <2> QED BY <2>1 DEF PassesInv
<1> QED BY <1>2, <1>3, <1>4, <1>5 DEF PassesStep

LEMMA PassesStutter ==
  ASSUME PassesInv, UNCHANGED passesVars
  PROVE  PassesInv'
<1>1. UNCHANGED builderVars /\ pass' = pass /\ moving' = moving
  BY DEF passesVars, constVars, hoistVars
<1>2. fn' = fn /\ stack' = stack
  BY <1>1 DEF builderVars
<1>3. (Built' <=> Built) /\ (ListsCurrent' <=> ListsCurrent)
  BY <1>2 DEF Built, ListsCurrent
<1>4. Inv /\ Scoping /\ Nested => Inv' /\ Scoping' /\ Nested'
  BY <1>1 DEF builderVars, Inv, Scoping, ScopesBalanced, Nested, EntryInv, Laid
<1> QED BY <1>1, <1>2, <1>3, <1>4 DEF PassesInv

\* The lists ConstPropagation relies on are current from its first step to its
\* last, and at the end every block but the entry has a predecessor.
THEOREM PassesInvariant == PassesSpec => []PassesInv
<1>1. PassesInit => PassesInv
  BY PassesInitially
<1>2. PassesInv /\ [Build \/ PassesStep \/ Exit]_passesVars => PassesInv'
  BY BuilderAssumption, BuildKeeps, PassesStepKeeps, PassesStutter DEF Exit
<1> QED BY <1>1, <1>2, PTL DEF PassesSpec

\* What ConstPropagation calls its graph is the graph of the jumps.
LEMMA SameGraph ==
  /\ C!JumpGraph = JumpsOf(fn) /\ C!Executable = ReachedFrom(JumpsOf(fn), {Entry})
  /\ \A s : C!Range(s) = Range(s)
  /\ \A next, start : C!ReachedFrom(next, start) = ReachedFrom(next, start)
  /\ \A next : C!Components(next) = Components(next)
<1>1. \A s : C!Range(s) = Range(s)
  BY DEF C!Range, Range
<1>2. \A b : C!TargetsOf(fn, b) = TargetsOf(fn, b)
  BY DEF C!TargetsOf, TargetsOf, C!HasTerminator, HasTerminator, C!IsTerminator, IsTerminator
<1>3. C!JumpGraph = JumpsOf(fn)
  BY <1>1, <1>2 DEF C!JumpGraph, JumpsOf, JumpsTo
<1>4. \A S : C!Cardinality(S) = Cardinality(S)
  BY DEF C!Cardinality, Cardinality
<1>5. \A next, start : C!ReachedFrom(next, start) = ReachedFrom(next, start)
  BY <1>4 DEF C!ReachedFrom, ReachedFrom
<1>6. C!Executable = ReachedFrom(JumpsOf(fn), {Entry})
  BY <1>3, <1>5 DEF C!Executable, C!Entry, Entry
<1>7. \A next : C!Components(next) = Components(next)
  BY <1>4, <1>5 DEF C!Components, Components
<1> QED BY <1>1, <1>3, <1>5, <1>6, <1>7

LEMMA UnbuiltIdle ==
  ASSUME PassesInv, moving = "off", pass # "idle"
  PROVE  Current(fn)
BY DEF PassesInv, ListsCurrent

(* However many conditions fold and blocks go, the predecessor list of     *)
(* every block names exactly the blocks that jump to it, and no jump leads *)
(* to an erased block.                                                     *)
THEOREM PredecessorsStayCurrent == PassesSpec => []PredecessorsCurrent
<1>1. PassesInv => PredecessorsCurrent
  <2> SUFFICES ASSUME PassesInv, moving = "off", pass # "idle" PROVE C!PredecessorsCurrent
    BY DEF PredecessorsCurrent, BeforeMoving, C!PredecessorsCurrent
  <2>1. Current(fn)
    BY UnbuiltIdle
  <2>2. /\ \A b \in fn.blocks : JumpsOf(fn)[b] = JumpsTo(fn, b) /\ JumpsOf(fn)[b] \subseteq fn.blocks
        /\ \A b \in fn.blocks : Range(fn.pre[b]) = {p \in fn.blocks : b \in JumpsTo(fn, p)}
    BY <2>1, CurrentGraph DEF Current
  <2>3. \A b \in fn.blocks : Range(fn.pre[b]) = {p \in fn.blocks : b \in JumpsOf(fn)[p]}
    BY <2>2
  <2> QED BY <2>2, <2>3, SameGraph DEF C!PredecessorsCurrent
<1> QED BY <1>1, PassesInvariant, PTL

(* ConstPropagation erases no block that can still be executed.            *)
THEOREM ExecutableBlocksStay == PassesSpec => []NothingExecutableErased
<1>1. PassesInv => NothingExecutableErased
  <2> SUFFICES ASSUME PassesInv, moving = "off", pass # "idle" PROVE C!Executable \subseteq fn.blocks
    BY DEF NothingExecutableErased, BeforeMoving, C!NothingExecutableErased
  <2>1. Current(fn)
    BY UnbuiltIdle
  <2> QED BY <2>1, CurrentGraph, SameGraph
<1> QED BY <1>1, PassesInvariant, PTL

(* When ConstPropagation is done, the blocks it left although they cannot  *)
(* be executed are those of loops nothing enters and the blocks behind     *)
(* them.                                                                   *)
THEOREM LoopsAloneAreLeft == PassesSpec => []OnlyLoopsLeft
<1>1. PassesInv => OnlyLoopsLeft
  <2> SUFFICES ASSUME PassesInv, moving = "off", pass = "done" PROVE C!OnlyLoopsLeft
    BY DEF OnlyLoopsLeft, BeforeMoving, C!OnlyLoopsLeft, C!Propagated
  <2>1. Current(fn) /\ \A b \in fn.blocks \ {Entry} : fn.pre[b] # <<>>
    BY UnbuiltIdle DEF PassesInv
  <2> QED BY <2>1, LeftBehindCycles, SameGraph DEF C!OnlyLoopsLeft
<1> QED BY <1>1, PassesInvariant, PTL

-----------------------------------------------------------------------------
(* Strongly connected components.                                          *)

Graph(next) ==
  IsFiniteSet(DOMAIN next) /\ \A b \in DOMAIN next : next[b] \subseteq DOMAIN next

Reaches(next, a, b) == b \in ReachedFrom(next, {a})

LEMMA ReachesFacts ==
  ASSUME NEW next, Graph(next)
  PROVE  /\ \A a \in DOMAIN next : Reaches(next, a, a)
         /\ \A a \in DOMAIN next : \A b : Reaches(next, a, b) => b \in DOMAIN next
         /\ \A a \in DOMAIN next : \A b \in next[a] : Reaches(next, a, b)
         /\ \A a, b \in DOMAIN next : \A c :
              Reaches(next, a, b) /\ Reaches(next, b, c) => Reaches(next, a, c)
<1>1. \A a \in DOMAIN next :
        /\ a \in ReachedFrom(next, {a}) /\ ReachedFrom(next, {a}) \subseteq DOMAIN next
        /\ \A b \in ReachedFrom(next, {a}) :
              /\ next[b] \subseteq ReachedFrom(next, {a})
              /\ ReachedFrom(next, {b}) \subseteq ReachedFrom(next, {a})
  BY ReachedAgain DEF Graph
<1> QED BY <1>1 DEF Reaches

\* A set that contains a node and that no edge leaves contains what the node
\* reaches.
LEMMA ReachesWithin ==
  ASSUME NEW next, Graph(next), NEW a \in DOMAIN next, NEW K, a \in K,
         \A x \in K : next[x] \subseteq K, NEW b, Reaches(next, a, b)
  PROVE  b \in K
BY ReachedIsLeast DEF Graph, Reaches

\* Two different nodes at least, with all that reach them and are reached by
\* them.
Component(next, c) ==
  /\ c \subseteq DOMAIN next
  /\ \E x, y \in c : x # y
  /\ \A x \in c : \A y \in DOMAIN next : y \in c <=> Reaches(next, x, y) /\ Reaches(next, y, x)

LEMMA AtLeastTwo ==
  ASSUME NEW S, IsFiniteSet(S)
  PROVE  Cardinality(S) >= 2 <=> \E x, y \in S : x # y
<1>1. ASSUME NEW x \in S, NEW y \in S, x # y PROVE Cardinality(S) >= 2
  <2>1. Cardinality({x, y}) = 2 /\ {x, y} \subseteq S
    BY <1>1, TwoElements
  <2>2. Cardinality({x, y}) <= Cardinality(S) /\ Cardinality(S) \in Nat
    BY <2>1, FS_Subset, FS_CardinalityType
  <2> QED BY <2>1, <2>2
<1>2. ASSUME \A x, y \in S : x = y PROVE ~(Cardinality(S) >= 2)
  <2>1. CASE S = {}
    BY <2>1, FS_EmptySet
  <2>2. CASE S # {}
    <3>1. PICK x \in S : TRUE
      BY <2>2
    <3>2. S = {x}
      BY <1>2
    <3>3. Cardinality(S) = 1
      BY <3>2, FS_Singleton
    <3> QED BY <3>3
  <2> QED BY <2>1, <2>2
<1> QED BY <1>1, <1>2

LEMMA ComponentsAre ==
  ASSUME NEW next, Graph(next), NEW c
  PROVE  c \in Components(next) <=> Component(next, c)
<1> DEFINE mates(n) == {m \in ReachedFrom(next, {n}) : n \in ReachedFrom(next, {m})}
<1>1. \A n \in DOMAIN next :
        mates(n) = {m \in DOMAIN next : Reaches(next, n, m) /\ Reaches(next, m, n)}
  BY ReachesFacts DEF Reaches
<1>2. c \in Components(next) <=> \E n \in DOMAIN next : c = mates(n) /\ Cardinality(c) >= 2
  BY DEF Components
<1> HIDE DEF mates
<1>3. ASSUME NEW n \in DOMAIN next, c = mates(n), Cardinality(c) >= 2
      PROVE  Component(next, c)
  <2>1. c \subseteq DOMAIN next
    BY <1>1, <1>3
  <2>2. IsFiniteSet(c)
    BY <2>1, FS_Subset DEF Graph
  <2>3. \E x, y \in c : x # y
    BY <1>3, <2>2, AtLeastTwo
  <2>4. \A x \in c : \A y \in DOMAIN next :
          y \in c <=> Reaches(next, x, y) /\ Reaches(next, y, x)
    BY <1>1, <1>3, <2>1, ReachesFacts
  <2> QED BY <2>1, <2>3, <2>4 DEF Component
<1>4. ASSUME Component(next, c)
      PROVE  \E n \in DOMAIN next : c = mates(n) /\ Cardinality(c) >= 2
  <2>1. PICK n \in c : n \in DOMAIN next
    BY <1>4 DEF Component
  <2>2. c = mates(n)
    BY <1>1, <1>4, <2>1 DEF Component
  <2>3. IsFiniteSet(c)
    BY <1>4, FS_Subset DEF Graph, Component
  <2>4. Cardinality(c) >= 2
    BY <1>4, <2>3, AtLeastTwo DEF Component
  <2> QED BY <2>1, <2>2, <2>4
<1> QED BY <1>2, <1>3, <1>4

\* No part of a component is without an edge into it from the rest.
LEMMA ComponentWhole ==
  ASSUME NEW next, Graph(next), NEW c, Component(next, c), NEW D \in SUBSET c, D # {},
         \A b \in D : \A p \in c : b \in next[p] => p \in D
  PROVE  D = c
<1> SUFFICES ASSUME NEW x \in c, x \notin D PROVE FALSE
  OBVIOUS
<1>1. PICK d \in D : d \in c
  OBVIOUS
<1>2. x \in DOMAIN next /\ d \in DOMAIN next /\ Reaches(next, x, d)
  BY <1>1 DEF Component
<1> DEFINE K == {y \in DOMAIN next : Reaches(next, x, y) /\ y \notin D}
<1>3. x \in K
  BY <1>2, ReachesFacts
<1>4. ASSUME NEW y \in K, NEW z \in next[y] PROVE z \in K
  <2>1. y \in DOMAIN next /\ z \in DOMAIN next /\ Reaches(next, x, y) /\ Reaches(next, y, z)
    BY <1>4, ReachesFacts DEF Graph
  <2>2. Reaches(next, x, z)
    BY <1>2, <2>1, ReachesFacts
  <2>3. ASSUME z \in D PROVE FALSE
    <3>1. Reaches(next, z, x)
      BY <1>2, <2>3 DEF Component
    <3>2. Reaches(next, y, x)
      BY <1>2, <2>1, <3>1, ReachesFacts
    <3>3. y \in c
      BY <2>1, <3>2 DEF Component
    <3> QED BY <2>3, <3>3
  <2> QED BY <2>1, <2>2, <2>3
<1> HIDE DEF K
<1>5. d \in K
  BY <1>2, <1>3, <1>4, ReachesWithin
<1> QED BY <1>1, <1>5 DEF K

\* Every node of a component has an edge into it from the component.
LEMMA ComponentEntered ==
  ASSUME NEW next, Graph(next), NEW c, Component(next, c), NEW n \in c
  PROVE  \E p \in c : n \in next[p]
<1>1. ASSUME \A p \in c : n \notin next[p] PROVE FALSE
  <2>1. PICK D : D = {n}
    OBVIOUS
  <2>2. D \in SUBSET c /\ D # {} /\ \A b \in D : \A p \in c : b \in next[p] => p \in D
    BY <1>1, <2>1
  <2>3. D = c
    BY <2>2, ComponentWhole
  <2> QED BY <2>1, <2>3 DEF Component
<1> QED BY <1>1

\* From next to less a graph loses edges into one node.
Cut(next, less, base) ==
  /\ DOMAIN less = DOMAIN next
  /\ \A b \in DOMAIN next : less[b] \subseteq next[b] /\ next[b] \ {base} \subseteq less[b]

LEMMA CutReaches ==
  ASSUME NEW next, Graph(next), NEW less, NEW base, Cut(next, less, base)
  PROVE  /\ Graph(less)
         /\ \A a \in DOMAIN next : \A b : Reaches(less, a, b) => Reaches(next, a, b)
<1>1. Graph(less)
  BY DEF Graph, Cut
<1>2. ASSUME NEW a \in DOMAIN next, NEW b, Reaches(less, a, b) PROVE Reaches(next, a, b)
  <2> DEFINE K == {y \in DOMAIN next : Reaches(next, a, y)}
  <2>1. a \in K /\ a \in DOMAIN less
    BY ReachesFacts DEF Cut
  <2>2. ASSUME NEW x \in K PROVE less[x] \subseteq K
    <3> SUFFICES ASSUME NEW y \in less[x] PROVE y \in K
      OBVIOUS
    <3>1. y \in next[x] /\ x \in DOMAIN next /\ y \in DOMAIN next
      BY DEF Cut, Graph
    <3> QED BY <3>1, ReachesFacts
  <2> HIDE DEF K
  <2>3. b \in K
    BY <1>1, <1>2, <2>1, <2>2, ReachesWithin
  <2> QED BY <2>3 DEF K
<1> QED BY <1>1, <1>2

\* The components that do not contain this node stay.
LEMMA ComponentStays ==
  ASSUME NEW next, Graph(next), NEW less, NEW base, Cut(next, less, base),
         NEW c, Component(next, c), base \notin c
  PROVE  Component(less, c)
<1>1. /\ Graph(less) /\ DOMAIN less = DOMAIN next
      /\ \A a \in DOMAIN next : \A b : Reaches(less, a, b) => Reaches(next, a, b)
  BY CutReaches DEF Cut
<1>2. c \subseteq DOMAIN next
  BY DEF Component
<1>3. ASSUME NEW y \in c PROVE \A x \in c : Reaches(less, x, y)
  <2> DEFINE D == {x \in c : Reaches(less, x, y)}
  <2>1. D \in SUBSET c /\ D # {}
    BY <1>1, <1>2, ReachesFacts
  <2>2. ASSUME NEW b \in D, NEW p \in c, b \in next[p] PROVE p \in D
    <3>1. b \in less[p] /\ p \in DOMAIN less /\ b \in DOMAIN less
      BY <1>1, <1>2, <2>2 DEF Cut
    <3>2. Reaches(less, p, b) /\ Reaches(less, b, y)
      BY <1>1, <3>1, ReachesFacts
    <3>3. Reaches(less, p, y)
      BY <1>1, <3>1, <3>2, ReachesFacts
    <3> QED BY <3>3
  <2> HIDE DEF D
  <2>3. D = c
    BY <2>1, <2>2, ComponentWhole
  <2> QED BY <2>3 DEF D
<1>4. \A x \in c : \A y \in DOMAIN next : y \in c <=> Reaches(less, x, y) /\ Reaches(less, y, x)
  BY <1>1, <1>2, <1>3 DEF Component
<1> QED BY <1>1, <1>4 DEF Component
-----------------------------------------------------------------------------
(* Natural loops.                                                          *)

\* No reachable block has an unreachable predecessor, none is its own, and every
\* cycle is entered at one block.
LoopGraph(f) ==
  /\ FlowGraph(f) /\ Reducible(f) /\ ~HasDeadPredecessor(f)
  /\ \A b \in f.blocks : b \notin Range(f.succ[b])

LoopOf(f, h) == NaturalLoop(f, DominatorsOf(f), h)

\* The ends of the edges back to h.
BackTo(f, h) == {t \in Reachable(f) : t \in Range(f.pre[h]) /\ Dominates(f, h, t)}

\* A reachable block has reachable predecessors only.
LEMMA ReachableBefore ==
  ASSUME NEW f, LoopGraph(f), NEW b \in Reachable(f), NEW p \in Range(f.pre[b])
  PROVE  p \in Reachable(f) /\ b \in Range(f.succ[p]) /\ p # b
<1>1. b \in f.blocks /\ Reachable(f) \subseteq f.blocks
  BY ReachableFacts DEF LoopGraph
<1>2. p \in f.blocks /\ b \in Range(f.succ[p])
  BY <1>1, FlowFacts DEF LoopGraph
<1>3. DOMAIN f.pre[b] = 1 .. Len(f.pre[b]) /\ Len(f.pre[b]) \in Nat
  BY <1>1, FlowFacts DEF LoopGraph
<1>4. p \in Reachable(f)
  <2>1. CASE Len(f.pre[b]) >= 2
    BY <2>1 DEF HasDeadPredecessor, LoopGraph
  <2>2. CASE ~(Len(f.pre[b]) >= 2)
    <3>1. \A i, j \in DOMAIN f.pre[b] : i = j
      BY <1>3, <2>2
    <3>2. \A q \in Range(f.pre[b]) : q = p
      BY <3>1 DEF Range
    <3>3. ASSUME p \notin Reachable(f) PROVE FALSE
      <4> DEFINE K == Reachable(f) \ {b}
      <4>1. b # Entry
        BY EmptyRange DEF LoopGraph, FlowGraph, Range
      <4>2. Entry \in K /\ K \in SUBSET f.blocks
        BY <1>1, <4>1, ReachableFacts DEF LoopGraph
      <4>3. ASSUME NEW x \in K, NEW y \in Range(f.succ[x]) PROVE y \in K
        <5>1. y \in Reachable(f) /\ x \in f.blocks
          BY <1>1, ReachableFacts DEF LoopGraph
        <5>2. y = b => x \in Range(f.pre[b])
          BY <1>1, <5>1, FlowFacts DEF LoopGraph
        <5> QED BY <3>2, <3>3, <5>1, <5>2
      <4> HIDE DEF K
      <4>4. Reachable(f) \subseteq K
        BY <4>2, <4>3, ReachableFacts DEF LoopGraph
      <4> QED BY <4>4 DEF K
    <3> QED BY <3>3
  <2> QED BY <2>1, <2>2
<1> QED BY <1>1, <1>2, <1>4 DEF LoopGraph

LEMMA NaturalLoopFacts ==
  ASSUME NEW f, LoopGraph(f), NEW h \in Reachable(f)
  PROVE  /\ LoopOf(f, h) = {} <=> BackTo(f, h) = {}
         /\ LoopOf(f, h) # {} =>
              /\ h \in LoopOf(f, h) /\ BackTo(f, h) \subseteq LoopOf(f, h) \ {h}
              /\ LoopOf(f, h) \subseteq Reachable(f)
              /\ \A b \in LoopOf(f, h) : Dominates(f, h, b)
              /\ \A b \in LoopOf(f, h) \ {h} : Range(f.pre[b]) \subseteq LoopOf(f, h)
              /\ \A K : /\ BackTo(f, h) \subseteq K
                        /\ \A b \in K \cap (LoopOf(f, h) \ {h}) : Range(f.pre[b]) \ {h} \subseteq K
                        => LoopOf(f, h) \ {h} \subseteq K
<1> DEFINE R == Reachable(f)
           dom == DominatorsOf(f)
           back == {t \in Range(f.pre[h]) \cap DOMAIN dom : h \in dom[t]}
           before == [b \in f.blocks |-> (Range(f.pre[b]) \cap DOMAIN dom) \ {h}]
           inner == ReachedFrom(before, back)
           B == BackTo(f, h)
<1>1. /\ R \subseteq f.blocks /\ h \in R /\ h \in f.blocks
      /\ IsFiniteSet(f.blocks)
  BY ReachableFacts, FlowFacts DEF LoopGraph
<1>2. DOMAIN dom = R /\ \A b \in R : dom[b] = {a \in f.blocks : Dominates(f, a, b)}
  BY DominatorsOfFacts
<1>3. back = B
  BY <1>1, <1>2 DEF BackTo
<1>4. LoopOf(f, h) = IF back = {} THEN {} ELSE {h} \cup inner
  BY DEF LoopOf, NaturalLoop
<1>5. DOMAIN before = f.blocks /\ \A b \in R : before[b] = Range(f.pre[b]) \ {h}
  <2>1. \A b \in R : Range(f.pre[b]) \subseteq R
    BY ReachableBefore
  <2> QED BY <1>1, <1>2, <2>1
<1>6. \A b \in f.blocks : before[b] \subseteq R \ {h} /\ before[b] \subseteq f.blocks
  BY <1>1, <1>2
<1>7. B \subseteq R \ {h} /\ \A t \in B : Dominates(f, h, t)
  BY <1>1, ReachableBefore DEF BackTo
<1> HIDE DEF before, back, dom, R
<1> DEFINE body == ReachedFrom(before, B)
<1>8. inner = body
  BY <1>3
<1> HIDE DEF inner
<1>9. B \subseteq body
  BY <1>1, <1>5, ReachedContains
<1>10. /\ body \subseteq f.blocks
       /\ \A b \in body : before[b] \subseteq body
  <2>1. B \subseteq DOMAIN before
    BY <1>1, <1>5, <1>7
  <2> QED BY <1>1, <1>5, <1>6, <2>1, ReachedIsClosed
<1>11. ASSUME NEW K, B \subseteq K, \A b \in K : before[b] \subseteq K PROVE body \subseteq K
  BY <1>1, <1>5, <1>11, ReachedIsLeast
<1> HIDE DEF body, B
<1>12. body \subseteq R \ {h} /\ \A b \in body : Dominates(f, h, b)
  <2> DEFINE K == {b \in R \ {h} : Dominates(f, h, b)}
  <2>1. B \subseteq K
    BY <1>7
  <2>2. ASSUME NEW b \in K, NEW p \in before[b] PROVE p \in K
    <3>1. b \in R /\ b # h /\ Dominates(f, h, b)
      OBVIOUS
    <3>2. p \in Range(f.pre[b]) /\ p \in R \ {h}
      BY <1>1, <1>5, <1>6, <3>1
    <3>3. p \in Reachable(f) /\ b \in Range(f.succ[p])
      BY <3>1, <3>2, ReachableBefore DEF R
    <3>4. Dominates(f, h, p)
      BY <3>1, <3>3, DominatesBefore DEF LoopGraph
    <3> QED BY <3>2, <3>4
  <2> HIDE DEF K
  <2>3. body \subseteq K
    BY <1>11, <2>1, <2>2
  <2> QED BY <2>3 DEF K
<1>13. LoopOf(f, h) = IF B = {} THEN {} ELSE {h} \cup body
  BY <1>3, <1>4, <1>8
<1>14. Dominates(f, h, h)
  BY DominatesItself DEF LoopGraph
<1>15. \A b \in body : Range(f.pre[b]) \subseteq body \cup {h}
  BY <1>5, <1>10, <1>12
<1>16. ASSUME NEW K, B \subseteq K, \A b \in K \cap body : Range(f.pre[b]) \ {h} \subseteq K
       PROVE  body \subseteq K
  <2> DEFINE J == K \cap body
  <2>1. B \subseteq J /\ \A b \in J : before[b] \subseteq J
    BY <1>5, <1>9, <1>10, <1>12, <1>16
  <2> HIDE DEF J
  <2>2. body \subseteq J
    BY <1>11, <2>1
  <2> QED BY <2>2 DEF J
<1>17. B # {} => /\ LoopOf(f, h) \ {h} = body
                 /\ LoopOf(f, h) = {h} \cup body
  BY <1>12, <1>13
<1>18. ASSUME B # {}, NEW K, B \subseteq K,
              \A b \in K \cap (LoopOf(f, h) \ {h}) : Range(f.pre[b]) \ {h} \subseteq K
       PROVE  LoopOf(f, h) \ {h} \subseteq K
  <2>1. \A b \in K \cap body : b \in K \cap (LoopOf(f, h) \ {h})
    BY <1>17, <1>18
  <2>2. body \subseteq K
    BY <1>16, <1>18, <2>1
  <2> QED BY <1>17, <1>18, <2>2
<1>19. LoopOf(f, h) = {} <=> B = {}
  BY <1>13
<1>20. B # {} =>
         /\ h \in LoopOf(f, h) /\ B \subseteq LoopOf(f, h) \ {h}
         /\ LoopOf(f, h) \subseteq R
         /\ \A b \in LoopOf(f, h) : Dominates(f, h, b)
         /\ \A b \in LoopOf(f, h) \ {h} : Range(f.pre[b]) \subseteq LoopOf(f, h)
  BY <1>1, <1>9, <1>12, <1>14, <1>15, <1>17
<1> QED BY <1>18, <1>19, <1>20 DEF B, R

LEMMA NaturalLoopsAre ==
  ASSUME NEW f
  PROVE  NaturalLoops(f) = {<<h, LoopOf(f, h)>> : h \in {b \in Reachable(f) : LoopOf(f, b) # {}}}
<1> DEFINE dom == DominatorsOf(f)
           loop == [h \in DOMAIN dom |-> NaturalLoop(f, dom, h)]
<1>1. DOMAIN dom = Reachable(f)
  BY DominatorsOfFacts
<1>2. NaturalLoops(f) = {<<h, loop[h]>> : h \in {b \in DOMAIN dom : loop[b] # {}}}
  BY DEF NaturalLoops, Table
<1>3. \A h \in DOMAIN dom : loop[h] = LoopOf(f, h)
  BY DEF LoopOf
<1> HIDE DEF dom, loop
<1> QED BY <1>1, <1>2, <1>3
\* next is what is left of the graph of f.
Within(f, next) ==
  /\ DOMAIN next = f.blocks
  /\ \A b \in f.blocks : next[b] \subseteq Range(f.succ[b])

\* A component of reachable blocks has a block that dominates the others and
\* that one of them jumps back to: the first one in an order of the blocks in
\* which only these jumps lead backwards.
LEMMA ComponentHeaded ==
  ASSUME NEW f, LoopGraph(f), NEW next, Graph(next), Within(f, next),
         NEW c \in SUBSET Reachable(f), Component(next, c)
  PROVE  \E h \in c : /\ \A b \in c : Dominates(f, h, b)
                      /\ \E t \in c : h \in next[t]
<1> DEFINE R == Reachable(f)
           dom == DominatorsOf(f)
           forward == [b \in R |-> Range(f.succ[b]) \ dom[b]]
           size(n) == Cardinality(ReachedFrom(forward, {n}))
           sizes == {size(n) : n \in c}
<1>1. /\ R \subseteq f.blocks /\ IsFiniteSet(R)
      /\ \A b \in R : Range(f.succ[b]) \subseteq R
  BY ReachableFacts, FlowFacts, FS_Subset DEF LoopGraph
<1>2. \A b \in R : dom[b] = {a \in f.blocks : Dominates(f, a, b)}
  BY DominatorsOfFacts
<1>3. \A b \in R : \A x \in forward[b] : b \notin ReachedFrom(forward, {x})
  BY DEF LoopGraph, Reducible, Table
<1>4. DOMAIN forward = R /\ Graph(forward)
  BY <1>1 DEF Graph
<1>5. ASSUME NEW b \in R, NEW x \in Range(f.succ[b]), x \notin forward[b]
      PROVE  Dominates(f, x, b)
  BY <1>2, <1>5
<1> HIDE DEF dom, forward
<1>6. ASSUME NEW b \in R
      PROVE  /\ ReachedFrom(forward, {b}) \subseteq R /\ IsFiniteSet(ReachedFrom(forward, {b}))
             /\ b \in ReachedFrom(forward, {b})
             /\ size(b) \in Nat
  <2>1. ReachedFrom(forward, {b}) \subseteq R /\ b \in ReachedFrom(forward, {b})
    BY <1>4, ReachesFacts DEF Reaches
  <2>2. IsFiniteSet(ReachedFrom(forward, {b}))
    BY <1>1, <2>1, FS_Subset
  <2> QED BY <2>1, <2>2, FS_CardinalityType
<1>7. ASSUME NEW p \in R, NEW x \in forward[p] PROVE size(x) < size(p)
  <2>1. x \in R /\ x \in ReachedFrom(forward, {p})
    BY <1>4, ReachesFacts DEF Graph, Reaches
  <2>2. ReachedFrom(forward, {x}) \subseteq ReachedFrom(forward, {p})
    BY <1>4, <2>1, ReachesFacts DEF Reaches
  <2>3. p \in ReachedFrom(forward, {p}) /\ p \notin ReachedFrom(forward, {x})
    BY <1>3, <1>6
  <2>4. ReachedFrom(forward, {x}) # ReachedFrom(forward, {p})
    BY <2>3
  <2>5. PICK big, small : big = ReachedFrom(forward, {p}) /\ small = ReachedFrom(forward, {x})
    OBVIOUS
  <2>6. IsFiniteSet(big) /\ small \subseteq big /\ small # big
    BY <1>6, <2>2, <2>4, <2>5
  <2>7. Cardinality(small) < Cardinality(big)
    BY <2>6, FS_Subset, FS_CardinalityType
  <2> QED BY <2>5, <2>7
<1>8. PICK h \in c : \A b \in c : size(b) <= size(h)
  <2>1. c # {}
    BY DEF Component
  <2>2. IsFiniteSet(c) /\ c \subseteq R
    BY <1>1, FS_Subset
  <2> DEFINE limit == Cardinality(R)
             gaps == {limit - size(n) : n \in c}
  <2>3. limit \in Nat /\ \A n \in c : size(n) \in 0 .. limit
    <3> SUFFICES ASSUME NEW n \in c PROVE Cardinality(R) \in Nat /\ size(n) \in 0 .. Cardinality(R)
      BY <2>1
    <3>1. PICK reached : reached = ReachedFrom(forward, {n})
      OBVIOUS
    <3>2. reached \subseteq R /\ size(n) = Cardinality(reached) /\ size(n) \in Nat
      BY <1>6, <2>2, <3>1
    <3>3. Cardinality(reached) <= Cardinality(R) /\ Cardinality(R) \in Nat
      BY <1>1, <3>2, FS_Subset, FS_CardinalityType
    <3> QED BY <3>2, <3>3
  <2> HIDE DEF limit, size
  <2>4. gaps \subseteq Nat /\ gaps # {}
    BY <2>1, <2>3
  <2>5. PICK g \in gaps : \A k \in gaps : g <= k
    <3> HIDE DEF gaps
    <3> QED BY <2>4, LeastNumber
  <2>6. PICK h \in c : g = limit - size(h)
    BY <2>5
  <2>7. \A b \in c : limit - size(h) <= limit - size(b)
    BY <2>5, <2>6
  <2> QED BY <2>3, <2>7
<1>9. h \in R /\ c \subseteq R
  OBVIOUS
<1>10. ASSUME NEW p \in c, h \in next[p] PROVE Dominates(f, h, p)
  <2>1. p \in R /\ h \in Range(f.succ[p])
    BY <1>1, <1>10 DEF Within
  <2>2. h \notin forward[p]
    <3>1. h \in forward[p] => size(h) < size(p)
      BY <2>1, <1>7
    <3>2. size(p) <= size(h) /\ size(p) \in Nat /\ size(h) \in Nat
      BY <1>6, <1>8, <1>9, <2>1
    <3> HIDE DEF size
    <3> QED BY <3>1, <3>2
  <2> QED BY <1>5, <2>1, <2>2
<1> DEFINE D == {b \in c : Dominates(f, h, b)}
<1>11. h \in D
  BY <1>9, DominatesItself DEF LoopGraph
<1>12. ASSUME NEW b \in D, NEW p \in c, b \in next[p] PROVE p \in D
  <2>1. p \in R /\ b \in Range(f.succ[p])
    BY <1>1, <1>12 DEF Within
  <2>2. CASE b = h
    BY <1>10, <1>12, <2>2
  <2>3. CASE b # h
    BY <2>1, <2>3, DominatesBefore DEF LoopGraph
  <2> QED BY <2>2, <2>3
<1> HIDE DEF D
<1>13. D = c
  <2>1. D \in SUBSET c /\ D # {}
    BY <1>11 DEF D
  <2> QED BY <1>12, <2>1, ComponentWhole
<1>14. \E t \in c : h \in next[t]
  BY ComponentEntered
<1> QED BY <1>13, <1>14 DEF D

\* next keeps the edges between the nodes that are left.
KeepsEdges(f, next, gone) ==
  \A b \in f.blocks \ gone : \A x \in Range(f.succ[b]) \ gone : x \in next[b]

\* A loop none of whose blocks is gone is in one component.
LEMMA LoopConnected ==
  ASSUME NEW f, LoopGraph(f), NEW next, Graph(next), Within(f, next),
         NEW gone, KeepsEdges(f, next, gone),
         NEW h \in Reachable(f), LoopOf(f, h) # {}, LoopOf(f, h) \cap gone = {}
  PROVE  \A b \in LoopOf(f, h) : Reaches(next, b, h) /\ Reaches(next, h, b)
<1> DEFINE R == Reachable(f)
           body == LoopOf(f, h)
           B == BackTo(f, h)
<1>1. /\ h \in body /\ B \subseteq body \ {h} /\ body \subseteq R
      /\ \A b \in body : Dominates(f, h, b)
      /\ \A b \in body \ {h} : Range(f.pre[b]) \subseteq body
      /\ \A K : /\ B \subseteq K
                /\ \A b \in K \cap (body \ {h}) : Range(f.pre[b]) \ {h} \subseteq K
                => body \ {h} \subseteq K
  BY NaturalLoopFacts
<1>2. R \subseteq f.blocks /\ DOMAIN next = f.blocks /\ body \subseteq f.blocks
  BY <1>1, ReachableFacts DEF LoopGraph, Within
<1> HIDE DEF body
<1>3. ASSUME NEW b \in body, NEW p \in body, p \in Range(f.pre[b]) PROVE b \in next[p]
  <2>1. b \in f.blocks \ gone /\ p \in f.blocks \ gone
    BY <1>2 DEF body
  <2>2. b \in Range(f.succ[p])
    BY <2>1, <1>3, FlowFacts DEF LoopGraph
  <2> QED BY <2>1, <2>2 DEF KeepsEdges
<1>4. \A b \in body : Reaches(next, b, h)
  <2> DEFINE K == {b \in body : Reaches(next, b, h)}
  <2>1. B \subseteq K
    <3> SUFFICES ASSUME NEW t \in B PROVE t \in K
      OBVIOUS
    <3>1. t \in body /\ t \in Range(f.pre[h])
      BY <1>1 DEF BackTo
    <3>2. h \in next[t] /\ t \in DOMAIN next
      BY <1>1, <1>2, <1>3, <3>1
    <3> QED BY <3>1, <3>2, ReachesFacts
  <2>2. ASSUME NEW b \in K \cap (body \ {h}), NEW p \in Range(f.pre[b]) \ {h} PROVE p \in K
    <3>1. b \in body /\ p \in body /\ b \in next[p]
      BY <1>1, <1>3
    <3>2. p \in DOMAIN next /\ b \in DOMAIN next
      BY <1>2, <3>1
    <3>3. Reaches(next, p, b) /\ Reaches(next, b, h)
      BY <3>1, <3>2, ReachesFacts
    <3> QED BY <3>1, <3>2, <3>3, ReachesFacts
  <2>3. Reaches(next, h, h)
    BY <1>1, <1>2, ReachesFacts
  <2> HIDE DEF K
  <2>4. body \ {h} \subseteq K
    BY <1>1, <2>1, <2>2
  <2> QED BY <2>3, <2>4 DEF K
<1>5. \A b \in body : Reaches(next, h, b)
  <2> DEFINE missed == {b \in body : ~Reaches(next, h, b)}
             K == R \ missed
  <2>1. h \notin missed
    BY <1>1, <1>2, ReachesFacts
  <2>2. Entry \in K
    <3>1. Entry \in R
      BY ReachableFacts DEF LoopGraph
    <3>2. Entry \in body => Entry = h
      BY <1>1, EntryDominator DEF LoopGraph
    <3> QED BY <2>1, <3>1, <3>2
  <2>3. ASSUME NEW x \in K, NEW y \in Range(f.succ[x]) PROVE y \in K
    <3>1. x \in R /\ x \in f.blocks /\ y \in R /\ y \in f.blocks
      BY <1>2, ReachableFacts DEF LoopGraph
    <3>2. x \in Range(f.pre[y])
      BY <3>1, FlowFacts DEF LoopGraph
    <3>3. ASSUME y \in missed PROVE FALSE
      <4>1. y \in body \ {h}
        BY <2>1, <3>3
      <4>2. x \in body /\ y \in next[x]
        BY <1>1, <1>3, <3>2, <4>1
      <4>3. Reaches(next, h, x)
        BY <4>2
      <4>4. Reaches(next, x, y)
        BY <1>2, <3>1, <4>2, ReachesFacts
      <4>5. Reaches(next, h, y)
        BY <1>1, <1>2, <3>1, <4>3, <4>4, ReachesFacts
      <4> QED BY <3>3, <4>5
    <3> QED BY <3>1, <3>3
  <2> HIDE DEF K
  <2>4. K \in SUBSET f.blocks
    BY <1>2 DEF K
  <2>5. R \subseteq K
    BY <2>2, <2>3, <2>4, ReachableFacts DEF LoopGraph
  <2> QED BY <1>1, <2>5 DEF K
<1> QED BY <1>4, <1>5 DEF body

\* A loop has another block than its header.
LEMMA LoopTwo ==
  ASSUME NEW f, LoopGraph(f), NEW h \in Reachable(f), LoopOf(f, h) # {}
  PROVE  \E x, y \in LoopOf(f, h) : x # y
<1>1. /\ LoopOf(f, h) = {} <=> BackTo(f, h) = {}
      /\ h \in LoopOf(f, h) /\ BackTo(f, h) \subseteq LoopOf(f, h) \ {h}
  BY NaturalLoopFacts
<1>2. PICK t \in BackTo(f, h) : TRUE
  BY <1>1
<1> QED BY <1>1, <1>2

\* The headers of the loops around a node that is gone are gone.
OuterGone(f, gone) ==
  \A h \in Reachable(f) : LoopOf(f, h) \cap gone # {} => h \in gone

\* Nothing is left when there are no components any more.
LEMMA HeadersGone ==
  ASSUME NEW f, LoopGraph(f), NEW next, Graph(next), Within(f, next),
         NEW gone, KeepsEdges(f, next, gone), OuterGone(f, gone), Components(next) = {},
         NEW h \in Reachable(f), LoopOf(f, h) # {}
  PROVE  h \in gone
<1> SUFFICES ASSUME h \notin gone PROVE FALSE
  OBVIOUS
<1>1. LoopOf(f, h) \cap gone = {}
  BY DEF OuterGone
<1>2. \A b \in LoopOf(f, h) : Reaches(next, b, h) /\ Reaches(next, h, b)
  BY <1>1, LoopConnected
<1>3. h \in DOMAIN next
  BY ReachableFacts DEF LoopGraph, Within
<1> DEFINE c == {b \in DOMAIN next : Reaches(next, b, h) /\ Reaches(next, h, b)}
<1>4. LoopOf(f, h) \subseteq c
  BY <1>2, <1>3, ReachesFacts
<1>5. \E x, y \in c : x # y
  BY <1>4, LoopTwo
<1>6. \A x \in c : \A y \in DOMAIN next : y \in c <=> Reaches(next, x, y) /\ Reaches(next, y, x)
  BY <1>3, ReachesFacts
<1> HIDE DEF c
<1>7. c \subseteq DOMAIN next
  BY DEF c
<1>8. Component(next, c)
  BY <1>5, <1>6, <1>7 DEF Component
<1> QED BY <1>8, ComponentsAre
-----------------------------------------------------------------------------
(* How loops lie in each other, and what the queries answer.               *)

Heads(f) == {h \in Reachable(f) : LoopOf(f, h) # {}}

\* The blocks before the header of a loop jump nowhere else.
JumpedTo(f) ==
  \A h \in Heads(f) : \A p \in Range(f.pre[h]) : Range(f.succ[p]) = {h}

LEMMA HeadFacts ==
  ASSUME NEW f, LoopGraph(f), NEW h \in Heads(f)
  PROVE  /\ h \in Reachable(f) /\ h \in f.blocks
         /\ h \in LoopOf(f, h) /\ LoopOf(f, h) \subseteq Reachable(f)
         /\ BackTo(f, h) \subseteq LoopOf(f, h) \ {h} /\ BackTo(f, h) # {}
         /\ \A b \in LoopOf(f, h) : Dominates(f, h, b)
         /\ \A b \in LoopOf(f, h) \ {h} : Range(f.pre[b]) \subseteq LoopOf(f, h)
<1>1. h \in Reachable(f) /\ LoopOf(f, h) # {}
  BY DEF Heads
<1>2. Reachable(f) \subseteq f.blocks
  BY ReachableFacts DEF LoopGraph
<1> QED BY <1>1, <1>2, NaturalLoopFacts

\* Blocks that no edge enters from outside are not reachable.
LEMMA NotEntered ==
  ASSUME NEW f, LoopGraph(f), NEW M \in SUBSET Reachable(f), Entry \notin M,
         \A y \in M : Range(f.pre[y]) \subseteq M
  PROVE  M = {}
<1> DEFINE K == Reachable(f) \ M
<1>1. Reachable(f) \subseteq f.blocks /\ Entry \in Reachable(f)
      /\ \A x \in Reachable(f) : Range(f.succ[x]) \subseteq Reachable(f)
  BY ReachableFacts DEF LoopGraph
<1>2. K \in SUBSET f.blocks /\ Entry \in K
  BY <1>1
<1>3. ASSUME NEW x \in K, NEW y \in Range(f.succ[x]) PROVE y \in K
  <2>1. x \in f.blocks /\ y \in Reachable(f) /\ y \in f.blocks
    BY <1>1
  <2>2. x \in Range(f.pre[y])
    BY <2>1, FlowFacts DEF LoopGraph
  <2> QED BY <2>1, <2>2
<1> HIDE DEF K
<1>4. Reachable(f) \subseteq K
  BY <1>2, <1>3, ReachableFacts DEF LoopGraph
<1> QED BY <1>4 DEF K

\* A loop whose header is inside another loop is inside that loop.
LEMMA LoopNested ==
  ASSUME NEW f, LoopGraph(f), NEW h \in Heads(f), NEW k \in Heads(f), h # k, h \in LoopOf(f, k)
  PROVE  LoopOf(f, h) \subseteq LoopOf(f, k) /\ k \notin LoopOf(f, h)
<1>1. /\ \A b \in LoopOf(f, k) \ {k} : Range(f.pre[b]) \subseteq LoopOf(f, k)
      /\ Dominates(f, k, h)
  BY HeadFacts
<1>2. k \notin LoopOf(f, h)
  <2>1. ASSUME k \in LoopOf(f, h) PROVE FALSE
    <3>1. Dominates(f, h, k)
      BY <2>1, HeadFacts
    <3> QED BY <1>1, <3>1, DominatesAntisymmetric DEF LoopGraph
  <2> QED BY <2>1
<1>3. BackTo(f, h) \subseteq LoopOf(f, k)
  BY <1>1 DEF BackTo
<1>4. \A b \in LoopOf(f, k) \cap (LoopOf(f, h) \ {h}) : Range(f.pre[b]) \ {h} \subseteq LoopOf(f, k)
  BY <1>1, <1>2
<1>5. LoopOf(f, h) # {} /\ h \in Reachable(f)
  BY DEF Heads
<1> DEFINE K == LoopOf(f, k)
<1>6. BackTo(f, h) \subseteq K
      /\ \A b \in K \cap (LoopOf(f, h) \ {h}) : Range(f.pre[b]) \ {h} \subseteq K
  BY <1>3, <1>4
<1> HIDE DEF K
<1>7. LoopOf(f, h) \ {h} \subseteq K
  BY <1>5, <1>6, NaturalLoopFacts
<1> QED BY <1>2, <1>7 DEF K

\* Of two loops with a block in common one is inside the other.
LEMMA Overlapping ==
  ASSUME NEW f, LoopGraph(f), NEW h \in Heads(f), NEW k \in Heads(f), h # k,
         NEW b \in LoopOf(f, h), b \in LoopOf(f, k), Dominates(f, h, k)
  PROVE  k \in LoopOf(f, h)
<1> SUFFICES ASSUME k \notin LoopOf(f, h) PROVE FALSE
  OBVIOUS
<1> DEFINE M == LoopOf(f, h) \cap LoopOf(f, k)
<1>1. h \notin LoopOf(f, k)
  <2>1. ASSUME h \in LoopOf(f, k) PROVE FALSE
    <3>1. Dominates(f, k, h)
      BY <2>1, HeadFacts
    <3> QED BY <3>1, DominatesAntisymmetric DEF LoopGraph
  <2> QED BY <2>1
<1>2. M \in SUBSET Reachable(f)
  BY HeadFacts
<1>3. \A y \in M : Range(f.pre[y]) \subseteq M
  BY <1>1, HeadFacts
<1>4. Entry \notin M
  <2>1. ASSUME Entry \in LoopOf(f, h) PROVE h = Entry
    BY <2>1, HeadFacts, EntryDominator DEF LoopGraph
  <2> QED BY <2>1, <1>1
<1>5. b \in M
  OBVIOUS
<1> HIDE DEF M
<1>6. M = {}
  BY <1>2, <1>3, <1>4, NotEntered
<1> QED BY <1>5, <1>6

LEMMA Laminar ==
  ASSUME NEW f, LoopGraph(f), NEW h \in Heads(f), NEW k \in Heads(f), h # k,
         NEW b \in LoopOf(f, h), b \in LoopOf(f, k), k \notin LoopOf(f, h)
  PROVE  h \in LoopOf(f, k) /\ LoopOf(f, h) \subseteq LoopOf(f, k)
<1>1. Dominates(f, h, b) /\ Dominates(f, k, b)
  BY HeadFacts
<1>2. Dominates(f, h, k) \/ Dominates(f, k, h)
  BY <1>1, DominatorsChain DEF LoopGraph
<1>3. h \in LoopOf(f, k)
  BY <1>2, Overlapping
<1> QED BY <1>3, LoopNested

LEMMA LoopsDiffer ==
  ASSUME NEW f, LoopGraph(f), NEW h \in Heads(f), NEW k \in Heads(f), LoopOf(f, h) = LoopOf(f, k)
  PROVE  h = k
<1>1. Dominates(f, h, k) /\ Dominates(f, k, h)
  BY HeadFacts
<1> QED BY <1>1, DominatesAntisymmetric DEF LoopGraph

\* The header of a loop has a predecessor outside.
LEMMA LoopEntered ==
  ASSUME NEW f, LoopGraph(f), NEW h \in Heads(f)
  PROVE  \E p \in Range(f.pre[h]) : p \notin LoopOf(f, h)
<1> SUFFICES ASSUME \A p \in Range(f.pre[h]) : p \in LoopOf(f, h) PROVE FALSE
  OBVIOUS
<1> DEFINE M == LoopOf(f, h)
<1>1. M \in SUBSET Reachable(f) /\ h \in M /\ BackTo(f, h) # {}
  BY HeadFacts
<1>2. \A y \in M : Range(f.pre[y]) \subseteq M
  BY HeadFacts
<1>3. Entry \notin M
  <2>1. Entry \in M => h = Entry
    BY HeadFacts, EntryDominator DEF LoopGraph
  <2>2. h # Entry
    BY <1>1, EmptyRange DEF LoopGraph, FlowGraph, BackTo
  <2> QED BY <2>1, <2>2
<1> HIDE DEF M
<1> QED BY <1>1, <1>2, <1>3, NotEntered

\* From a block of a loop an edge stays in the loop.
LEMMA LoopStays ==
  ASSUME NEW f, LoopGraph(f), NEW k \in Heads(f), NEW p \in LoopOf(f, k)
  PROVE  \E s \in Range(f.succ[p]) : s \in LoopOf(f, k)
<1> SUFFICES ASSUME \A s \in Range(f.succ[p]) : s \notin LoopOf(f, k) PROVE FALSE
  OBVIOUS
<1>1. /\ k \in Reachable(f) /\ k \in f.blocks /\ Reachable(f) \subseteq f.blocks
      /\ k \in LoopOf(f, k) /\ LoopOf(f, k) \subseteq Reachable(f)
      /\ BackTo(f, k) \subseteq LoopOf(f, k) \ {k} /\ BackTo(f, k) # {}
      /\ \A b \in LoopOf(f, k) : Dominates(f, k, b)
      /\ \A b \in LoopOf(f, k) \ {k} : Range(f.pre[b]) \subseteq LoopOf(f, k)
  BY HeadFacts, ReachableFacts DEF LoopGraph
<1>2. \A b \in LoopOf(f, k) : p \notin Range(f.pre[b])
  <2> SUFFICES ASSUME NEW b \in LoopOf(f, k), p \in Range(f.pre[b]) PROVE FALSE
    OBVIOUS
  <2>1. b \in Range(f.succ[p])
    BY <1>1, ReachableBefore
  <2> QED BY <2>1
<1>3. CASE p = k
  <2> DEFINE M == LoopOf(f, k) \ {k}
  <2>1. M \in SUBSET Reachable(f) /\ M # {}
    BY <1>1
  <2>2. \A y \in M : Range(f.pre[y]) \subseteq M
    BY <1>1, <1>2, <1>3
  <2>3. Entry \notin M
    BY <1>1, EntryDominator DEF LoopGraph
  <2> HIDE DEF M
  <2> QED BY <2>1, <2>2, <2>3, NotEntered
<1>4. CASE p # k
  <2> DEFINE K == LoopOf(f, k) \ {p}
  <2>1. BackTo(f, k) \subseteq K
    BY <1>1, <1>2 DEF BackTo
  <2>2. \A b \in K \cap (LoopOf(f, k) \ {k}) : Range(f.pre[b]) \ {k} \subseteq K
    BY <1>1, <1>2
  <2>3. LoopOf(f, k) # {}
    BY <1>1
  <2> HIDE DEF K
  <2>4. LoopOf(f, k) \ {k} \subseteq K
    BY <1>1, <2>1, <2>2, <2>3, NaturalLoopFacts
  <2> QED BY <1>4, <2>4 DEF K
<1> QED BY <1>3, <1>4

-----------------------------------------------------------------------------
(* The search for loops.                                                   *)

\* LoopSearch's names for graphs are those of this module.
LEMMA LoopNames ==
  /\ \A s : L!Range(s) = Range(s)
  /\ \A f : L!Reachable(f) = Reachable(f)
  /\ \A f : L!HasDeadPredecessor(f) <=> HasDeadPredecessor(f)
  /\ \A next : L!Components(next) = Components(next)
  /\ \A f : L!NaturalLoops(f) = NaturalLoops(f)
<1>1. \A S : L!Cardinality(S) = Cardinality(S)
  BY Zenon DEF Cardinality, L!Cardinality
<1>2. \A s : L!Range(s) = Range(s)
  BY DEF L!Range, Range
<1>3. \A next, start : L!ReachedFrom(next, start) = ReachedFrom(next, start)
  BY <1>1, Zenon DEF ReachedFrom, L!ReachedFrom
<1>4. \A f, from, avoid : L!PathsFrom(f, from, avoid) = PathsFrom(f, from, avoid)
  BY <1>2, <1>3 DEF PathsFrom, L!PathsFrom
<1>5. \A f : L!Reachable(f) = Reachable(f)
  BY <1>4 DEF L!Reachable, Reachable, L!Entry, Entry
<1>6. \A f : L!HasDeadPredecessor(f) <=> HasDeadPredecessor(f)
  BY <1>2, <1>5 DEF L!HasDeadPredecessor, HasDeadPredecessor
<1>7. \A next : L!Components(next) = Components(next)
  BY <1>1, <1>3 DEF L!Components, Components
<1>8. \A g : L!Table(g) = g /\ Table(g) = g
  <2> TAKE g
  <2>1. L!Table(g) = g
    BY Zenon DEF L!Table
  <2>2. Table(g) = g
    BY Zenon DEF Table
  <2> QED BY <2>1, <2>2
<1>9. ASSUME NEW f PROVE L!DominatorsOf(f) = DominatorsOf(f)
  <2> DEFINE withoutL == [a \in f.blocks |-> L!PathsFrom(f, L!Entry, {a})]
             without == [a \in f.blocks |-> PathsFrom(f, Entry, {a})]
             domL == [b \in L!Reachable(f) |-> {a \in f.blocks : b \notin withoutL[a]}]
             dom == [b \in Reachable(f) |-> {a \in f.blocks : b \notin without[a]}]
  <2>1. withoutL = without
    BY <1>4 DEF L!Entry, Entry
  <2>2. L!DominatorsOf(f) = domL /\ DominatorsOf(f) = dom
    BY <1>8 DEF L!DominatorsOf, DominatorsOf
  <2> HIDE DEF withoutL, without
  <2>3. domL = dom
    BY <1>5, <2>1
  <2> HIDE DEF domL, dom
  <2> QED BY <2>2, <2>3
<1>10. \A f, dom, h : L!NaturalLoop(f, dom, h) = NaturalLoop(f, dom, h)
  BY <1>2, <1>3 DEF L!NaturalLoop, NaturalLoop
<1>11. ASSUME NEW f PROVE L!NaturalLoops(f) = NaturalLoops(f)
  <2> DEFINE dom == DominatorsOf(f)
             loop == [h \in DOMAIN dom |-> NaturalLoop(f, dom, h)]
             domL == L!DominatorsOf(f)
             loopL == [h \in DOMAIN domL |-> L!NaturalLoop(f, domL, h)]
  <2>1. /\ NaturalLoops(f) = {<<h, loop[h]>> : h \in {b \in DOMAIN dom : loop[b] # {}}}
        /\ L!NaturalLoops(f) = {<<h, loopL[h]>> : h \in {b \in DOMAIN domL : loopL[b] # {}}}
    <3>1. NaturalLoops(f) = {<<h, loop[h]>> : h \in {b \in DOMAIN dom : loop[b] # {}}}
      BY DEF NaturalLoops, Table
    <3>2. L!NaturalLoops(f) = {<<h, loopL[h]>> : h \in {b \in DOMAIN domL : loopL[b] # {}}}
      BY DEF L!NaturalLoops, L!Table
    <3> QED BY <3>1, <3>2
  <2>2. domL = dom
    BY <1>9
  <2> HIDE DEF domL, dom
  <2>3. loopL = loop
    BY <1>10, <2>2
  <2> HIDE DEF loopL, loop
  <2> QED BY <2>1, <2>2, <2>3
<1> QED BY <1>2, <1>5, <1>6, <1>7, <1>11

\* The copy of the graph: nodes that are reserved have no edges from the others,
\* the other edges are those of the function, the components of this round that
\* are still to be looked at are components, and whoever reserves a node of a
\* loop has reserved the header of the loop.
CopyInv ==
  /\ LoopGraph(fn)
  /\ DOMAIN succs = fn.blocks /\ DOMAIN prevs = fn.blocks
  /\ reserved \subseteq fn.blocks /\ cfg_nodes = fn.blocks \ reserved
  /\ \A b \in fn.blocks : succs[b] \subseteq Range(fn.succ[b])
  /\ \A b \in fn.blocks : Range(fn.succ[b]) \ reserved \subseteq succs[b]
  /\ \A b \in cfg_nodes : succs[b] \cap reserved = {}
  /\ \A b \in cfg_nodes : prevs[b] = Range(fn.pre[b]) \ reserved
  /\ \A c \in Components(succs) : c \cap reserved = {}
  /\ sccs \subseteq Components(succs)
  /\ \A h \in Reachable(fn) : LoopOf(fn, h) \cap reserved # {} => h \in reserved

\* A loop is found when its header is reserved.
FoundInv ==
  /\ \A l \in DOMAIN loop2base : loop2base[l] \in l \cap reserved
  /\ \A h \in reserved \cap Reachable(fn) : LoopOf(fn, h) # {}
  /\ {l \in L!LoopsFound : l[1] \in Reachable(fn)} =
       {<<h, LoopOf(fn, h)>> : h \in reserved \cap Reachable(fn)}

\* What the tables say when the loops of some headers have been found: the
\* innermost of them around each block.
Recorded(heads) ==
  /\ \A h \in heads :
       /\ h \in DOMAIN base2loop /\ base2loop[h] = LoopOf(fn, h)
       /\ LoopOf(fn, h) \in DOMAIN loop2base /\ loop2base[LoopOf(fn, h)] = h
  /\ \A b \in Reachable(fn) :
       /\ b \in DOMAIN bb2base <=> \E h \in heads : b \in LoopOf(fn, h)
       /\ b \in DOMAIN bb2base =>
            /\ bb2base[b] \in heads /\ b \in LoopOf(fn, bb2base[b])
            /\ \A h \in heads :
                 b \in LoopOf(fn, h) => LoopOf(fn, bb2base[b]) \subseteq LoopOf(fn, h)

TablesInv == DOMAIN base2loop \subseteq reserved /\ Recorded(reserved \cap Reachable(fn))

LEMMA CopyFacts ==
  ASSUME CopyInv
  PROVE  /\ Graph(succs) /\ Within(fn, succs) /\ KeepsEdges(fn, succs, reserved)
         /\ OuterGone(fn, reserved)
<1>1. IsFiniteSet(fn.blocks) /\ \A b \in fn.blocks : Range(fn.succ[b]) \subseteq fn.blocks
  BY FlowFacts DEF CopyInv, LoopGraph
<1> QED BY <1>1 DEF CopyInv, Graph, Within, KeepsEdges, OuterGone

\* The base of a component is the header of the loop that the component is.
LEMMA BaseIsHeader ==
  ASSUME CopyInv, NEW c \in sccs, NEW base \in L!LoopBases(c), base # L!NoNode
  PROVE  /\ base \in c /\ base \in cfg_nodes /\ Component(succs, c) /\ c \cap reserved = {}
         /\ base \in Reachable(fn) => LoopOf(fn, base) = c
<1>1. Graph(succs) /\ Within(fn, succs) /\ KeepsEdges(fn, succs, reserved)
  BY CopyFacts
<1>2. Component(succs, c) /\ c \cap reserved = {}
  BY <1>1, ComponentsAre DEF CopyInv
<1>3. base \in L!Entered(c) \/ base \in L!BehindReserved(c)
  BY DEF L!LoopBases
<1>4. base \in c /\ c \subseteq cfg_nodes /\ c \subseteq DOMAIN succs /\ cfg_nodes \subseteq fn.blocks
  BY <1>2, <1>3 DEF L!Entered, L!BehindReserved, Component, CopyInv
<1>5. ASSUME base \in Reachable(fn) PROVE LoopOf(fn, base) = c
  <2>1. c \in SUBSET Reachable(fn)
    <3> SUFFICES ASSUME NEW x \in c PROVE x \in Reachable(fn)
      OBVIOUS
    <3>1. Reaches(succs, base, x)
      BY <1>2, <1>4 DEF Component
    <3>2. \A y \in Reachable(fn) : succs[y] \subseteq Reachable(fn)
      BY <1>1, ReachableFacts DEF CopyInv, LoopGraph, Within
    <3> QED BY <1>1, <1>4, <1>5, <3>1, <3>2, ReachesWithin
  <2>2. PICK h \in c : /\ \A b \in c : Dominates(fn, h, b)
                       /\ \E t \in c : h \in succs[t]
    BY <1>1, <1>2, <2>1, ComponentHeaded DEF CopyInv
  <2>3. h \in Reachable(fn) /\ h \in fn.blocks
    BY <1>4, <2>1
  <2>4. \A b \in c : \A p \in c : b \in succs[p] => p \in Range(fn.pre[b])
    <3> SUFFICES ASSUME NEW b \in c, NEW p \in c, b \in succs[p] PROVE p \in Range(fn.pre[b])
      OBVIOUS
    <3>1. b \in fn.blocks /\ p \in fn.blocks /\ b \in Range(fn.succ[p])
      BY <1>1, <1>4 DEF Within
    <3> QED BY <3>1, FlowFacts DEF CopyInv, LoopGraph
  <2>5. \A p \in c : h \in succs[p] => p \in BackTo(fn, h)
    BY <2>1, <2>2, <2>4 DEF BackTo
  <2>6. LoopOf(fn, h) # {}
    BY <2>2, <2>3, <2>5, NaturalLoopFacts DEF CopyInv
  <2>7. /\ h \in LoopOf(fn, h) /\ BackTo(fn, h) \subseteq LoopOf(fn, h)
        /\ \A b \in LoopOf(fn, h) \ {h} : Range(fn.pre[b]) \subseteq LoopOf(fn, h)
    BY <2>3, <2>6, NaturalLoopFacts DEF CopyInv
  <2>8. c \subseteq LoopOf(fn, h)
    <3> DEFINE D == c \cap LoopOf(fn, h)
    <3>1. D \in SUBSET c /\ D # {}
      BY <2>7
    <3>2. ASSUME NEW b \in D, NEW p \in c, b \in succs[p] PROVE p \in D
      BY <2>4, <2>5, <2>7, <3>2
    <3> HIDE DEF D
    <3>3. D = c
      BY <1>1, <1>2, <3>1, <3>2, ComponentWhole
    <3> QED BY <3>3 DEF D
  <2>9. LoopOf(fn, h) \cap reserved = {}
    BY <1>2, <2>3 DEF CopyInv
  <2>10. \A b \in LoopOf(fn, h) : Reaches(succs, b, h) /\ Reaches(succs, h, b)
    BY <1>1, <2>3, <2>6, <2>9, LoopConnected DEF CopyInv
  <2>11. LoopOf(fn, h) \subseteq c
    <3> SUFFICES ASSUME NEW b \in LoopOf(fn, h) PROVE b \in c
      OBVIOUS
    <3>1. b \in DOMAIN succs
      BY <1>1, <1>4, <2>10, ReachesFacts
    <3> QED BY <1>2, <2>10, <3>1 DEF Component
  <2>12. base = h
    <3> SUFFICES ASSUME base # h PROVE FALSE
      OBVIOUS
    <3>1. Range(fn.pre[base]) \subseteq c
      BY <1>4, <2>7, <2>8, <2>11
    <3>2. CASE base \in L!Entered(c)
      <4>1. prevs[base] \ c # {}
        BY <3>2 DEF L!Entered, L!OutsideOf
      <4> QED BY <1>4, <3>1, <4>1 DEF CopyInv
    <3>3. CASE base \in L!BehindReserved(c)
      <4>1. PICK r \in reserved : base \in succs[r]
        BY <3>3 DEF L!BehindReserved
      <4>2. r \in fn.blocks /\ base \in Range(fn.succ[r]) /\ base \in fn.blocks
        BY <1>4, <4>1 DEF CopyInv
      <4>3. r \in Range(fn.pre[base])
        BY <4>2, FlowFacts DEF CopyInv, LoopGraph
      <4> QED BY <1>2, <3>1, <4>3
    <3> QED BY <1>3, <3>2, <3>3
  <2> QED BY <2>8, <2>11, <2>12
<1> QED BY <1>2, <1>4, <1>5

\* What the builder hands over.
BuiltGraph(f) ==
  /\ FlowGraph(f) /\ Reducible(f) /\ \A b \in f.blocks : b \notin Range(f.succ[b])
  /\ LoopGraph(f) => JumpedTo(f)

LEMMA BuiltJumps ==
  ASSUME Inv, EntryInv, Laid, Built, LoopGraph(fn)
  PROVE  JumpedTo(fn)
<1>1. WellFormed(fn) /\ Open(fn) = {}
  BY DEF Inv, InvOf, Built
<1>2. PICK D, rank :
           /\ D \in [Nat -> SUBSET Nat] /\ rank \in [Nat -> Nat]
           /\ D[Entry] = {Entry}
           /\ \A b \in fn.blocks : /\ b \in D[b] /\ Forks(TargetsOf(fn, b))
                                   /\ Range(fn.succ[b]) = Range(TargetsOf(fn, b))
                                   /\ Range(fn.succ[b]) \subseteq fn.blocks
                                   /\ \A c \in Range(fn.succ[b]) :
                                        /\ EdgeLaid(D, rank, b, c)
                                        /\ rank[b] < rank[c] \/ ~BranchedTo(fn, c)
  BY BuiltLaid
<1> SUFFICES ASSUME NEW h \in Heads(fn), NEW p \in Range(fn.pre[h]) PROVE Range(fn.succ[p]) = {h}
  BY DEF JumpedTo
<1>3. FlowGraph(fn) /\ fn.blocks \subseteq Nat /\ Reachable(fn) \subseteq fn.blocks
  BY FlowFacts, ReachableFacts DEF LoopGraph
<1>4. h \in Reachable(fn) /\ h \in fn.blocks
  BY HeadFacts
<1>5. PICK t \in BackTo(fn, h) : TRUE
  BY HeadFacts
<1>6. t \in Reachable(fn) /\ h \in Range(fn.succ[t]) /\ Dominates(fn, h, t) /\ t \in fn.blocks
  BY <1>3, <1>4, ReachableBefore DEF BackTo
<1>7. p \in fn.blocks /\ h \in Range(fn.succ[p])
  BY <1>3, <1>4, ReachableBefore
<1>8. \A x \in fn.blocks : rank[x] \in Nat
  BY <1>2, <1>3
<1>9. ASSUME rank[t] < rank[h] PROVE FALSE
  <2> DEFINE U == PathsFrom(fn, Entry, {h})
             K == {x \in Reachable(fn) : \A d \in D[x] : rank[d] < rank[h] => d \in U}
  <2>1. /\ Entry \notin {h} => Entry \in U
        /\ \A x \in U : Range(fn.succ[x]) \ {h} \subseteq U
        /\ U \subseteq fn.blocks
    BY <1>3, PathFacts
  <2>2. t \notin U
    BY <1>6 DEF Dominates
  <2> HIDE DEF U
  <2>3. Entry \in K
    <3>1. ASSUME rank[Entry] < rank[h] PROVE Entry \in U
      <4>1. Entry # h
        BY <3>1, <1>4, <1>8
      <4> QED BY <2>1, <4>1
    <3> QED BY <3>1, <1>2, <1>3, ReachableFacts
  <2>4. ASSUME NEW x \in K, NEW y \in Range(fn.succ[x]) PROVE y \in K
    <3>1. x \in fn.blocks /\ y \in Reachable(fn) /\ y \in fn.blocks
      BY <1>3, ReachableFacts
    <3>2. EdgeLaid(D, rank, x, y) /\ x \in D[x]
      BY <1>2, <3>1
    <3>3. ASSUME NEW d \in D[y], rank[d] < rank[h] PROVE d \in U
      <4>1. CASE d \in D[x]
        BY <3>3, <4>1
      <4>2. CASE d \notin D[x]
        <5>1. d = y
          BY <3>2, <4>2 DEF EdgeLaid
        <5>2. rank[x] < rank[y]
          BY <3>2, <4>2, <5>1 DEF EdgeLaid
        <5>3. rank[x] < rank[h]
          BY <1>4, <1>8, <3>1, <3>3, <5>1, <5>2
        <5>4. x \in U
          BY <3>2, <5>3
        <5>5. y # h
          BY <1>4, <1>8, <3>3, <5>1
        <5> QED BY <2>1, <5>1, <5>4, <5>5
      <4> QED BY <4>1, <4>2
    <3> QED BY <3>1, <3>3
  <2>5. K \in SUBSET fn.blocks
    BY <1>3
  <2>6. t \in D[t]
    BY <1>2, <1>6
  <2>7. t \in K => t \in U
    BY <1>9, <2>6
  <2> HIDE DEF K
  <2>8. Reachable(fn) \subseteq K
    BY <1>3, <2>3, <2>4, <2>5, ReachableFacts
  <2> QED BY <1>6, <2>2, <2>7, <2>8
<1>10. ~BranchedTo(fn, h)
  BY <1>2, <1>6, <1>9
<1>11. h \in Range(TargetsOf(fn, p)) /\ Range(fn.succ[p]) = Range(TargetsOf(fn, p))
  BY <1>2, <1>7
<1>12. TargetsOf(fn, p) = <<h>>
  BY <1>1, <1>7, <1>10, <1>11 DEF BranchedTo
<1> QED BY <1>3, <1>4, <1>11, <1>12, ForksFacts

LEMMA BuiltIsLoopGraph ==
  ASSUME Inv, EntryInv, Laid, Built
  PROVE  BuiltGraph(fn)
<1>1. WellFormed(fn) /\ EntryFirst(fn)
  BY DEF Inv, InvOf, EntryInv, Built
<1>2. FlowGraph(fn)
  BY <1>1 DEF WellFormed, FunctionType, EdgesAgree, EntryFirst, FlowGraph
<1>3. ASSUME NEW b \in fn.blocks PROVE b \notin Range(fn.succ[b])
  BY BuiltIsCurrent, <1>2 DEF Current, FlowGraph
<1> QED BY <1>2, <1>3, LaidReducible, BuiltJumps DEF BuiltGraph

LEMMA SearchBegins ==
  ASSUME BuiltGraph(fn), ~HasDeadPredecessor(fn), reserved = {}, sccs = {},
         loop2base = <<>>, base2loop = <<>>, bb2base = <<>>, L!BuildCfg
  PROVE  CopyInv' /\ FoundInv' /\ TablesInv'
<1>1. /\ fn' = fn /\ reserved' = {} /\ sccs' = {}
      /\ loop2base' = <<>> /\ base2loop' = <<>> /\ bb2base' = <<>>
      /\ cfg_nodes' = fn.blocks
      /\ succs' = [b \in fn.blocks |-> {L!NodeOf(s) : s \in Range(fn.succ[b])}]
      /\ prevs' = [b \in fn.blocks |-> {L!NodeOf(p) : p \in Range(fn.pre[b])}]
  BY LoopNames DEF L!BuildCfg
<1>2. \A b \in fn.blocks : /\ Range(fn.succ[b]) \subseteq fn.blocks
                           /\ Range(fn.pre[b]) \subseteq fn.blocks
  BY FlowFacts DEF BuiltGraph
<1>3. \A b \in fn.blocks : succs'[b] = Range(fn.succ[b]) /\ prevs'[b] = Range(fn.pre[b])
  BY <1>1, <1>2 DEF L!NodeOf
<1>4. DOMAIN succs' = fn.blocks /\ DOMAIN prevs' = fn.blocks
  BY <1>1
<1>5. LoopGraph(fn)
  BY DEF BuiltGraph, LoopGraph
<1>6. CopyInv'
  BY <1>1, <1>3, <1>4, <1>5 DEF CopyInv
<1>7. L!LoopsFound' = {}
  BY <1>1 DEF L!LoopsFound
<1>8. FoundInv'
  BY <1>1, <1>7 DEF FoundInv
<1>9. TablesInv'
  BY <1>1 DEF TablesInv, Recorded
<1> QED BY <1>6, <1>8, <1>9

LEMMA RoundGoesOn ==
  ASSUME CopyInv, FoundInv, TablesInv, L!FindComponents
  PROVE  /\ search' \in {"done", "bases"}
         /\ search' = "bases" => CopyInv' /\ FoundInv' /\ TablesInv'
         /\ search' = "done" => L!LoopsNatural' /\ LoopGraph(fn)' /\ Recorded(Heads(fn))'
<1>1. /\ base2loop' = base2loop /\ bb2base' = bb2base /\ fn' = fn /\ succs' = succs /\ prevs' = prevs /\ loop2base' = loop2base
      /\ sccs' = {c \in Components(succs) : c \cap cfg_nodes # {}}
      /\ search' = IF sccs' = {} THEN "done" ELSE "bases"
      /\ sccs' # {} => cfg_nodes' = cfg_nodes /\ reserved' = reserved
  BY LoopNames DEF L!FindComponents
<1>2. L!LoopsFound' = L!LoopsFound
  BY <1>1 DEF L!LoopsFound
<1>3. ASSUME search' = "bases" PROVE CopyInv' /\ FoundInv' /\ TablesInv'
  <2>1. cfg_nodes' = cfg_nodes /\ reserved' = reserved /\ sccs' \subseteq Components(succs)
    BY <1>1, <1>3
  <2>2. CopyInv'
    BY <1>1, <2>1 DEF CopyInv
  <2>3. FoundInv'
    BY <1>1, <1>2, <2>1 DEF FoundInv
  <2>4. TablesInv'
    BY <1>1, <2>1 DEF TablesInv, Recorded
  <2> QED BY <2>2, <2>3, <2>4
<1>4. ASSUME search' = "done"
      PROVE  L!LoopsNatural' /\ LoopGraph(fn)' /\ Recorded(Heads(fn))'
  <2>1. Graph(succs) /\ Within(fn, succs) /\ KeepsEdges(fn, succs, reserved)
        /\ OuterGone(fn, reserved)
    BY CopyFacts
  <2>2. Components(succs) = {}
    <3> SUFFICES ASSUME NEW c \in Components(succs) PROVE FALSE
      OBVIOUS
    <3>1. Component(succs, c) /\ c \cap reserved = {}
      BY <2>1, ComponentsAre DEF CopyInv
    <3>2. c \cap cfg_nodes # {}
      BY <3>1 DEF Component, CopyInv
    <3> QED BY <1>1, <1>4, <3>2
  <2>3. \A h \in Reachable(fn) : LoopOf(fn, h) # {} => h \in reserved
    BY <2>1, <2>2, HeadersGone DEF CopyInv
  <2>4. {l \in L!LoopsFound : l[1] \in Reachable(fn)} = NaturalLoops(fn)
    BY <2>3, NaturalLoopsAre DEF FoundInv
  <2>5. {l \in L!LoopsFound' : l[1] \in L!Reachable(fn')} = L!NaturalLoops(fn')
    BY <1>1, <1>2, <2>4, LoopNames
  <2>6. reserved \cap Reachable(fn) = Heads(fn)
    BY <2>3 DEF FoundInv, Heads
  <2>7. Recorded(Heads(fn))'
    BY <1>1, <2>6 DEF TablesInv, Recorded
  <2>8. LoopGraph(fn)'
    BY <1>1 DEF CopyInv
  <2> QED BY <2>5, <2>7, <2>8 DEF L!LoopsNatural
<1> QED BY <1>1, <1>3, <1>4

LEMMA InComponent ==
  ASSUME NEW next, Graph(next), NEW x \in DOMAIN next, NEW y \in DOMAIN next, x # y,
         Reaches(next, x, y), Reaches(next, y, x)
  PROVE  \E c \in Components(next) : x \in c
<1> DEFINE c == {b \in DOMAIN next : Reaches(next, b, x) /\ Reaches(next, x, b)}
<1>1. x \in c /\ y \in c /\ c \subseteq DOMAIN next
  BY ReachesFacts
<1>2. \A a \in c : \A b \in DOMAIN next : b \in c <=> Reaches(next, a, b) /\ Reaches(next, b, a)
  BY ReachesFacts
<1> HIDE DEF c
<1>3. Component(next, c)
  BY <1>1, <1>2 DEF Component
<1> QED BY <1>1, <1>3, ComponentsAre

LEMMA BaseTaken ==
  ASSUME CopyInv, NEW c \in sccs, NEW base \in L!LoopBases(c), base # L!NoNode,
         L!RemoveBase(base), sccs' = sccs \ {c}, fn' = fn
  PROVE  CopyInv'
<1>1. Graph(succs) /\ Within(fn, succs) /\ KeepsEdges(fn, succs, reserved) /\ OuterGone(fn, reserved)
  BY CopyFacts
<1>2. /\ base \in c /\ base \in cfg_nodes /\ Component(succs, c) /\ c \cap reserved = {}
      /\ base \in Reachable(fn) => LoopOf(fn, base) = c
  BY BaseIsHeader
<1>3. /\ reserved' = reserved \cup {base} /\ cfg_nodes' = cfg_nodes \ {base}
      /\ succs' = [p \in DOMAIN succs |->
                     IF p \in prevs[base] THEN succs[p] \ {base} ELSE succs[p]]
      /\ prevs' = [s \in DOMAIN prevs |->
                     IF s \in succs[base] THEN prevs[s] \ {base} ELSE prevs[s]]
  BY DEF L!RemoveBase, L!CutEdges
<1>4. base \in fn.blocks /\ base \notin reserved
  BY <1>2 DEF CopyInv
<1>5. DOMAIN succs' = fn.blocks /\ DOMAIN prevs' = fn.blocks
  BY <1>3 DEF CopyInv
<1>6. \A b \in fn.blocks : succs'[b] \subseteq succs[b] /\ succs[b] \ {base} \subseteq succs'[b]
  BY <1>3 DEF CopyInv
<1>7. reserved' \subseteq fn.blocks /\ cfg_nodes' = fn.blocks \ reserved' /\ cfg_nodes' \subseteq cfg_nodes
  BY <1>3, <1>4 DEF CopyInv
<1>8. ASSUME NEW b \in cfg_nodes' PROVE succs'[b] \cap reserved' = {}
  <2>1. b \in fn.blocks \ reserved /\ b \in cfg_nodes /\ b \in DOMAIN succs
    BY <1>7 DEF CopyInv
  <2>2. succs[b] \cap reserved = {}
    BY <2>1 DEF CopyInv
  <2>3. ASSUME base \in succs'[b] PROVE FALSE
    <3>1. base \in succs[b] /\ base \in Range(fn.succ[b])
      BY <1>6, <2>1, <2>3 DEF CopyInv
    <3>2. b \in Range(fn.pre[base])
      BY <1>4, <2>1, <3>1, FlowFacts DEF CopyInv, LoopGraph
    <3>3. b \in prevs[base]
      BY <1>2, <2>1, <3>2 DEF CopyInv
    <3> QED BY <1>3, <2>1, <2>3, <3>3
  <2> QED BY <1>3, <1>6, <2>1, <2>2, <2>3
<1>9. ASSUME NEW b \in cfg_nodes' PROVE prevs'[b] = Range(fn.pre[b]) \ reserved'
  <2>1. b \in fn.blocks \ reserved /\ b \in cfg_nodes /\ b \in DOMAIN prevs
    BY <1>7 DEF CopyInv
  <2>2. prevs[b] = Range(fn.pre[b]) \ reserved
    BY <2>1 DEF CopyInv
  <2>3. base \in Range(fn.pre[b]) => b \in succs[base]
    <3>1. base \in Range(fn.pre[b]) => b \in Range(fn.succ[base])
      BY <1>4, <2>1, FlowFacts DEF CopyInv, LoopGraph
    <3> QED BY <1>4, <2>1, <3>1 DEF CopyInv
  <2> QED BY <1>3, <2>1, <2>2, <2>3
<1>10. Cut(succs, succs', base)
  BY <1>5, <1>6 DEF Cut, CopyInv
<1>11. /\ Graph(succs') /\ DOMAIN succs = fn.blocks
       /\ \A a \in DOMAIN succs : \A b : Reaches(succs', a, b) => Reaches(succs, a, b)
  BY <1>1, <1>10, CutReaches DEF CopyInv
<1>12. ASSUME NEW d \in Components(succs') PROVE d \cap reserved' = {}
  <2>1. Component(succs', d)
    BY <1>11, ComponentsAre
  <2>2. ASSUME NEW r \in d, r \in reserved PROVE FALSE
    <3>1. PICK m \in d : m # r
      BY <2>1 DEF Component
    <3>2. /\ r \in DOMAIN succs /\ m \in DOMAIN succs
          /\ Reaches(succs', r, m) /\ Reaches(succs', m, r)
      BY <1>5, <1>11, <2>1 DEF Component
    <3>3. Reaches(succs, r, m) /\ Reaches(succs, m, r)
      BY <1>11, <3>2
    <3>4. \E e \in Components(succs) : r \in e
      BY <1>1, <3>1, <3>2, <3>3, InComponent
    <3> QED BY <2>2, <3>4 DEF CopyInv
  <2>3. ASSUME base \in d PROVE FALSE
    <3>1. PICK m \in d : m # base
      BY <2>1 DEF Component
    <3>2. /\ base \in DOMAIN succs' /\ m \in DOMAIN succs'
          /\ Reaches(succs', base, m) /\ Reaches(succs', m, base)
      BY <2>1, <2>3 DEF Component
    <3> DEFINE K == cfg_nodes' \cup {base}
    <3>3. \A x \in cfg_nodes' : succs'[x] \subseteq cfg_nodes'
      BY <1>5, <1>7, <1>8, <1>11 DEF Graph
    <3>4. succs'[base] \subseteq cfg_nodes'
      <4>1. succs'[base] \subseteq succs[base] /\ succs[base] \subseteq fn.blocks
        BY <1>1, <1>4, <1>6, <1>11 DEF Graph
      <4>2. succs[base] \cap reserved = {} /\ base \notin succs[base]
        BY <1>2, <1>4 DEF CopyInv, LoopGraph
      <4> QED BY <1>3, <1>7, <4>1, <4>2
    <3>5. m \in cfg_nodes'
      <4>1. base \in K /\ \A x \in K : succs'[x] \subseteq K
        BY <3>3, <3>4
      <4> HIDE DEF K
      <4>2. m \in K
        BY <1>11, <3>2, <4>1, ReachesWithin
      <4> QED BY <3>1, <4>2 DEF K
    <3>6. base \in cfg_nodes'
      <4> DEFINE J == cfg_nodes'
      <4>1. m \in J /\ \A x \in J : succs'[x] \subseteq J
        BY <3>3, <3>5
      <4> HIDE DEF J
      <4>2. base \in J
        BY <1>11, <3>2, <4>1, ReachesWithin
      <4> QED BY <4>2 DEF J
    <3> QED BY <1>3, <3>6
  <2> QED BY <1>3, <2>2, <2>3
<1>13. ASSUME NEW d \in sccs' PROVE d \in Components(succs')
  <2>1. d \in sccs /\ d # c
    BY <1>13
  <2>2. Component(succs, d)
    BY <1>1, <2>1, ComponentsAre DEF CopyInv
  <2>3. base \notin d
    <3>1. base \in d => \A y \in DOMAIN succs : y \in d <=> y \in c
      BY <1>2, <2>2 DEF Component
    <3>2. d \subseteq DOMAIN succs /\ c \subseteq DOMAIN succs
      BY <1>2, <2>2 DEF Component
    <3> QED BY <2>1, <3>1, <3>2
  <2>4. Component(succs', d)
    BY <1>1, <1>10, <2>2, <2>3, ComponentStays
  <2> QED BY <1>11, <2>4, ComponentsAre
<1>14. ASSUME NEW h \in Reachable(fn), LoopOf(fn, h) \cap reserved' # {} PROVE h \in reserved'
  <2>1. CASE LoopOf(fn, h) \cap reserved # {}
    BY <1>3, <2>1 DEF CopyInv
  <2>2. CASE LoopOf(fn, h) \cap reserved = {}
    <3>1. base \in LoopOf(fn, h)
      BY <1>3, <1>14, <2>2
    <3>2. /\ base \in Reachable(fn) /\ Dominates(fn, h, base) /\ h \in LoopOf(fn, h)
      BY <3>1, NaturalLoopFacts DEF CopyInv
    <3>3. Reaches(succs, base, h) /\ Reaches(succs, h, base)
      BY <1>1, <2>2, <3>1, LoopConnected DEF CopyInv
    <3>4. h \in c
      <4>1. h \in DOMAIN succs
        BY <1>1, <1>4, <1>11, <3>3, ReachesFacts
      <4> QED BY <1>2, <3>3, <4>1 DEF Component
    <3>5. Dominates(fn, base, h)
      BY <1>2, <3>2, <3>4, NaturalLoopFacts DEF CopyInv
    <3>6. h = base
      BY <3>2, <3>5, DominatesAntisymmetric DEF CopyInv, LoopGraph
    <3> QED BY <1>3, <3>6
  <2> QED BY <2>1, <2>2
<1>15. \A b \in fn.blocks : /\ succs'[b] \subseteq Range(fn.succ[b])
                            /\ Range(fn.succ[b]) \ reserved' \subseteq succs'[b]
  BY <1>3, <1>6 DEF CopyInv
<1> QED BY <1>5, <1>7, <1>8, <1>9, <1>12, <1>13, <1>14, <1>15 DEF CopyInv

LEMMA LoopFound ==
  ASSUME CopyInv, FoundInv, NEW c \in sccs, NEW base \in L!LoopBases(c), base # L!NoNode,
         L!RemoveBase(base), L!RecordLoop(c, base), fn' = fn
  PROVE  FoundInv'
<1>1. /\ base \in c /\ base \in cfg_nodes /\ c \cap reserved = {}
      /\ base \in Reachable(fn) => LoopOf(fn, base) = c
  BY BaseIsHeader
<1>2. reserved' = reserved \cup {base} /\ base \notin reserved
  BY <1>1 DEF L!RemoveBase, CopyInv
<1>3. c \notin DOMAIN loop2base
  BY <1>1 DEF FoundInv
<1>4. /\ DOMAIN loop2base' = DOMAIN loop2base \cup {c} /\ loop2base'[c] = base
      /\ \A l \in DOMAIN loop2base : loop2base'[l] = loop2base[l]
  BY <1>3 DEF L!RecordLoop, L!Inserted
<1>5. \A l \in DOMAIN loop2base' : loop2base'[l] \in l \cap reserved'
  BY <1>1, <1>2, <1>4 DEF FoundInv
<1>6. L!LoopsFound' = L!LoopsFound \cup {<<base, c>>}
  BY <1>4 DEF L!LoopsFound
<1>7. \A h \in reserved' \cap Reachable(fn) : LoopOf(fn, h) # {}
  BY <1>1, <1>2 DEF FoundInv
<1>8. {l \in L!LoopsFound' : l[1] \in Reachable(fn)} =
        {<<h, LoopOf(fn, h)>> : h \in reserved' \cap Reachable(fn)}
  <2> DEFINE old == {l \in L!LoopsFound : l[1] \in Reachable(fn)}
             oldLoops == {<<h, LoopOf(fn, h)>> : h \in reserved \cap Reachable(fn)}
  <2>1. old = oldLoops
    BY DEF FoundInv
  <2>2. {l \in L!LoopsFound' : l[1] \in Reachable(fn)} =
          old \cup (IF base \in Reachable(fn) THEN {<<base, c>>} ELSE {})
    BY <1>6
  <2>3. {<<h, LoopOf(fn, h)>> : h \in reserved' \cap Reachable(fn)} =
          oldLoops \cup (IF base \in Reachable(fn) THEN {<<base, LoopOf(fn, base)>>} ELSE {})
    BY <1>2
  <2> HIDE DEF old, oldLoops
  <2> QED BY <1>1, <2>1, <2>2, <2>3
<1> QED BY <1>5, <1>7, <1>8 DEF FoundInv

LEMMA LoopRecorded ==
  ASSUME CopyInv, FoundInv, TablesInv, NEW c \in sccs, NEW base \in L!LoopBases(c),
         base # L!NoNode, L!RemoveBase(base), L!RecordLoop(c, base), fn' = fn
  PROVE  TablesInv'
<1> DEFINE heads == reserved \cap Reachable(fn)
<1>1. /\ base \in c /\ base \in cfg_nodes /\ Component(succs, c) /\ c \cap reserved = {}
      /\ base \in Reachable(fn) => LoopOf(fn, base) = c
  BY BaseIsHeader
<1>2. reserved' = reserved \cup {base} /\ base \notin reserved /\ base \notin DOMAIN base2loop
  BY <1>1 DEF L!RemoveBase, CopyInv, TablesInv
<1>3. c \notin DOMAIN loop2base
  BY <1>1 DEF FoundInv
<1>4. /\ DOMAIN loop2base' = DOMAIN loop2base \cup {c} /\ loop2base'[c] = base
      /\ \A l \in DOMAIN loop2base : loop2base'[l] = loop2base[l]
  BY <1>3 DEF L!RecordLoop, L!Inserted
<1>5. /\ DOMAIN base2loop' = DOMAIN base2loop \cup {base} /\ base2loop'[base] = c
      /\ \A l \in DOMAIN base2loop : base2loop'[l] = base2loop[l]
  BY <1>2 DEF L!RecordLoop, L!Inserted
<1>6. /\ DOMAIN bb2base' = DOMAIN bb2base \cup c
      /\ \A b \in c : bb2base'[b] = base
      /\ \A b \in DOMAIN bb2base \ c : bb2base'[b] = bb2base[b]
  BY DEF L!RecordLoop, L!LatestBase
<1>7. LoopGraph(fn) /\ Graph(succs) /\ Within(fn, succs) /\ base \in fn.blocks
  BY <1>1, CopyFacts DEF CopyInv
<1>8. heads \subseteq Heads(fn)
  BY DEF FoundInv, Heads
<1>9. Recorded(heads)
  BY DEF TablesInv
<1>10. CASE base \in Reachable(fn)
  <2>1. LoopOf(fn, base) = c /\ base \in Heads(fn) /\ base \notin heads
    BY <1>1, <1>2, <1>10 DEF Heads
  <2>2. ASSUME NEW b \in c, NEW h \in heads, b \in LoopOf(fn, h)
        PROVE  c \subseteq LoopOf(fn, h)
    <3>1. h \in Heads(fn) /\ h # base /\ h \notin c
      BY <1>1, <1>8, <2>1
    <3> QED BY <1>7, <2>1, <2>2, <3>1, Laminar
  <2>3. reserved' \cap Reachable(fn) = heads \cup {base}
    BY <1>2, <1>10
  <2> HIDE DEF heads
  <2>4. ASSUME NEW h \in heads \cup {base}
        PROVE  /\ h \in DOMAIN base2loop' /\ base2loop'[h] = LoopOf(fn, h)
               /\ LoopOf(fn, h) \in DOMAIN loop2base' /\ loop2base'[LoopOf(fn, h)] = h
    BY <1>4, <1>5, <1>9, <2>1 DEF Recorded
  <2>5. ASSUME NEW b \in Reachable(fn)
        PROVE  /\ b \in DOMAIN bb2base' <=> \E h \in heads \cup {base} : b \in LoopOf(fn, h)
               /\ b \in DOMAIN bb2base' =>
                    /\ bb2base'[b] \in heads \cup {base} /\ b \in LoopOf(fn, bb2base'[b])
                    /\ \A h \in heads \cup {base} :
                         b \in LoopOf(fn, h) => LoopOf(fn, bb2base'[b]) \subseteq LoopOf(fn, h)
    <3>1. CASE b \in c
      BY <1>6, <2>1, <2>2, <3>1
    <3>2. CASE b \notin c
      BY <1>6, <1>9, <2>1, <3>2 DEF Recorded
    <3> QED BY <3>1, <3>2
  <2>6. Recorded(reserved \cap Reachable(fn))'
    BY <2>3, <2>4, <2>5 DEF Recorded
  <2> QED BY <1>2, <1>5, <2>6 DEF TablesInv
<1>11. CASE base \notin Reachable(fn)
  <2>1. c \cap Reachable(fn) = {}
    <3> SUFFICES ASSUME NEW x \in c, x \in Reachable(fn) PROVE FALSE
      OBVIOUS
    <3>1. Reaches(succs, x, base) /\ x \in DOMAIN succs
      BY <1>1 DEF Component
    <3>2. \A y \in Reachable(fn) : succs[y] \subseteq Reachable(fn)
      BY <1>7, ReachableFacts DEF LoopGraph, Within
    <3> QED BY <1>7, <1>11, <3>1, <3>2, ReachesWithin
  <2>2. reserved' \cap Reachable(fn) = heads
    BY <1>2, <1>11
  <2> HIDE DEF heads
  <2>3. ASSUME NEW h \in heads
        PROVE  /\ h \in DOMAIN base2loop' /\ base2loop'[h] = LoopOf(fn, h)
               /\ LoopOf(fn, h) \in DOMAIN loop2base' /\ loop2base'[LoopOf(fn, h)] = h
    BY <1>4, <1>5, <1>9 DEF Recorded
  <2>4. \A b \in Reachable(fn) : /\ b \in DOMAIN bb2base' <=> b \in DOMAIN bb2base
                                 /\ b \in DOMAIN bb2base => bb2base'[b] = bb2base[b]
    BY <1>6, <2>1
  <2>5. Recorded(reserved \cap Reachable(fn))'
    BY <1>9, <2>2, <2>3, <2>4 DEF Recorded
  <2> QED BY <1>2, <1>5, <2>5 DEF TablesInv
<1> QED BY <1>10, <1>11

\* The loops of the graph are those of the headers.
LEMMA LoopBodies ==
  {l[2] : l \in NaturalLoops(fn)} = {LoopOf(fn, h) : h \in Heads(fn)}
<1>1. NaturalLoops(fn) = {<<h, LoopOf(fn, h)>> : h \in Heads(fn)}
  BY NaturalLoopsAre DEF Heads
<1>2. \A h : <<h, LoopOf(fn, h)>>[2] = LoopOf(fn, h)
  OBVIOUS
<1> QED BY <1>1, <1>2

\* get_inner_loop answers with the innermost loop around a block.
LEMMA InnerLoop ==
  ASSUME Recorded(Heads(fn)), NEW b \in Reachable(fn)
  PROVE  /\ \/ /\ L!get_inner_loop(b) = {}
               /\ \A h \in Heads(fn) : b \notin LoopOf(fn, h)
            \/ \E k \in Heads(fn) :
                 /\ L!get_inner_loop(b) = LoopOf(fn, k) /\ b \in LoopOf(fn, k)
                 /\ \A h \in Heads(fn) :
                      b \in LoopOf(fn, h) => LoopOf(fn, k) \subseteq LoopOf(fn, h)
         /\ L!Innermost(L!get_inner_loop(b), {l \in {LoopOf(fn, h) : h \in Heads(fn)} : b \in l})
<1> DEFINE bodies == {l \in {LoopOf(fn, h) : h \in Heads(fn)} : b \in l}
<1>1. CASE b \in DOMAIN bb2base
  <2> DEFINE k == bb2base[b]
  <2>1. /\ k \in Heads(fn) /\ b \in LoopOf(fn, k)
        /\ \A h \in Heads(fn) : b \in LoopOf(fn, h) => LoopOf(fn, k) \subseteq LoopOf(fn, h)
        /\ base2loop[k] = LoopOf(fn, k)
    BY <1>1 DEF Recorded
  <2>2. L!get_inner_loop(b) = LoopOf(fn, k)
    BY <1>1, <2>1 DEF L!get_inner_loop
  <2>3. LoopOf(fn, k) \in bodies /\ \A m \in bodies : LoopOf(fn, k) \subseteq m
    BY <2>1
  <2> HIDE DEF k, bodies
  <2>4. L!Innermost(L!get_inner_loop(b), bodies)
    BY <2>2, <2>3 DEF L!Innermost
  <2> QED BY <2>1, <2>2, <2>4 DEF bodies
<1>2. CASE b \notin DOMAIN bb2base
  <2>1. L!get_inner_loop(b) = {}
    BY <1>2 DEF L!get_inner_loop
  <2>2. \A h \in Heads(fn) : b \notin LoopOf(fn, h)
    BY <1>2 DEF Recorded
  <2>3. bodies = {}
    BY <2>2
  <2> HIDE DEF bodies
  <2>4. L!Innermost(L!get_inner_loop(b), bodies)
    BY <2>1, <2>3 DEF L!Innermost
  <2> QED BY <2>1, <2>2, <2>4 DEF bodies
<1> QED BY <1>1, <1>2

\* The block before a loop that the queries look at is in every loop around it.
LEMMA ParentLoop ==
  ASSUME LoopGraph(fn), JumpedTo(fn), Recorded(Heads(fn)), NEW h \in Heads(fn)
  PROVE  L!Innermost(L!get_parent_loop(LoopOf(fn, h)),
                     {m \in {LoopOf(fn, k) : k \in Heads(fn)} :
                        LoopOf(fn, h) \subseteq m /\ LoopOf(fn, h) # m})
<1> DEFINE l == LoopOf(fn, h)
           around == {m \in {LoopOf(fn, k) : k \in Heads(fn)} : l \subseteq m /\ l # m}
           pre == fn.pre[h]
           outside == {i \in DOMAIN pre : pre[i] \notin l}
           first == CHOOSE i \in outside : \A j \in outside : i <= j
           p == pre[first]
<1>1. l \in DOMAIN loop2base /\ loop2base[l] = h /\ h \in l /\ h \in Reachable(fn) /\ h \in fn.blocks
  BY HeadFacts DEF Recorded
<1>2. DOMAIN pre = 1 .. Len(pre) /\ Len(pre) \in Nat
  BY <1>1, FlowFacts DEF LoopGraph
<1>3. outside # {} /\ outside \in SUBSET Nat
  <2>1. PICK q \in Range(pre) : q \notin l
    BY LoopEntered
  <2> QED BY <1>2, <2>1 DEF Range
<1>4. first \in outside
  <2> HIDE DEF outside
  <2>1. \E i \in outside : \A j \in outside : i <= j
    BY <1>3, LeastNumber
  <2> QED BY <2>1
<1>5. p \in Range(pre) /\ p \notin l
  BY <1>4 DEF Range
<1>6. L!get_parent_loop(l) =
        IF h \in L!get_inner_loop(p) THEN L!get_inner_loop(p) ELSE {}
  BY <1>1, <1>3 DEF L!get_parent_loop
<1> HIDE DEF p, first, outside
<1>7. p \in Reachable(fn) /\ Range(fn.succ[p]) = {h}
  BY <1>1, <1>5, ReachableBefore DEF JumpedTo
<1>8. ASSUME NEW k \in Heads(fn), l \subseteq LoopOf(fn, k), l # LoopOf(fn, k)
      PROVE  p \in LoopOf(fn, k)
  <2>1. h \in LoopOf(fn, k) \ {k}
    BY <1>1, <1>8
  <2> QED BY <1>5, <2>1, HeadFacts
<1>9. CASE L!get_inner_loop(p) = {}
  <2>1. \A k \in Heads(fn) : p \notin LoopOf(fn, k)
    <3>1. \A k \in Heads(fn) : LoopOf(fn, k) # {}
      BY DEF Heads
    <3> QED BY <1>7, <1>9, <3>1, InnerLoop
  <2>2. around = {}
    BY <1>8, <2>1
  <2>3. L!get_parent_loop(l) = {}
    BY <1>6, <1>9
  <2> HIDE DEF around, l
  <2>4. L!Innermost(L!get_parent_loop(l), around)
    BY <2>2, <2>3 DEF L!Innermost
  <2> QED BY <2>4 DEF around, l
<1>10. CASE L!get_inner_loop(p) # {}
  <2>1. PICK k \in Heads(fn) :
          /\ L!get_inner_loop(p) = LoopOf(fn, k) /\ p \in LoopOf(fn, k)
          /\ \A j \in Heads(fn) : p \in LoopOf(fn, j) => LoopOf(fn, k) \subseteq LoopOf(fn, j)
    BY <1>7, <1>10, InnerLoop
  <2>2. h \in LoopOf(fn, k)
    BY <1>7, <2>1, LoopStays
  <2>3. h # k
    BY <1>5, <2>1
  <2>4. l \subseteq LoopOf(fn, k) /\ l # LoopOf(fn, k)
    BY <1>5, <2>1, <2>2, <2>3, LoopNested
  <2>5. LoopOf(fn, k) \in around /\ \A m \in around : LoopOf(fn, k) \subseteq m
    BY <1>8, <2>1, <2>4
  <2>6. L!get_parent_loop(l) = LoopOf(fn, k)
    BY <1>6, <2>1, <2>2
  <2> HIDE DEF around, l
  <2>7. L!Innermost(L!get_parent_loop(l), around)
    BY <2>5, <2>6 DEF L!Innermost
  <2> QED BY <2>7 DEF around, l
<1> QED BY <1>9, <1>10

LEMMA QueriesCorrect ==
  ASSUME LoopGraph(fn), JumpedTo(fn), Recorded(Heads(fn))
  PROVE  L!LoopQueriesCorrect
<1> DEFINE bodies == {l[2] : l \in NaturalLoops(fn)}
<1>1. bodies = {LoopOf(fn, h) : h \in Heads(fn)}
  BY LoopBodies
<1> HIDE DEF bodies
<1>2. \A b \in Reachable(fn) : L!Innermost(L!get_inner_loop(b), {l \in bodies : b \in l})
  BY <1>1, InnerLoop
<1>3. \A l \in bodies :
        L!Innermost(L!get_parent_loop(l), {m \in bodies : l \subseteq m /\ l # m})
  <2> SUFFICES ASSUME NEW h \in Heads(fn)
               PROVE  L!Innermost(L!get_parent_loop(LoopOf(fn, h)),
                        {m \in bodies : LoopOf(fn, h) \subseteq m /\ LoopOf(fn, h) # m})
    BY <1>1
  <2> QED BY <1>1, ParentLoop
<1>4. bodies = {l[2] : l \in L!NaturalLoops(fn)} /\ Reachable(fn) = L!Reachable(fn)
  BY LoopNames DEF bodies
<1> QED BY <1>2, <1>3, <1>4 DEF L!LoopQueriesCorrect

LEMMA LoopTaken ==
  ASSUME CopyInv, FoundInv, TablesInv, L!TakeLoop
  PROVE  \/ search' = "crashed"
         \/ search' \in {"round", "bases"} /\ CopyInv' /\ FoundInv' /\ TablesInv'
<1>1. PICK c \in sccs : \E base \in L!LoopBases(c) :
        /\ sccs' = sccs \ {c}
        /\ IF base = L!NoNode
           THEN search' = "crashed"
           ELSE /\ search' = IF sccs' = {} THEN "round" ELSE "bases"
                /\ L!RecordLoop(c, base)
                /\ L!RemoveBase(base)
  BY DEF L!TakeLoop
<1>2. PICK base \in L!LoopBases(c) :
        /\ sccs' = sccs \ {c}
        /\ IF base = L!NoNode
           THEN search' = "crashed"
           ELSE /\ search' = IF sccs' = {} THEN "round" ELSE "bases"
                /\ L!RecordLoop(c, base)
                /\ L!RemoveBase(base)
  BY <1>1
<1>3. fn' = fn
  BY DEF L!TakeLoop
<1>4. CASE base = L!NoNode
  BY <1>2, <1>4
<1>5. CASE base # L!NoNode
  <2>1. CopyInv'
    BY <1>2, <1>3, <1>5, BaseTaken
  <2>2. FoundInv'
    BY <1>2, <1>3, <1>5, LoopFound
  <2>3. TablesInv'
    BY <1>2, <1>3, <1>5, LoopRecorded
  <2> QED BY <1>2, <1>5, <2>1, <2>2, <2>3
<1> QED BY <1>4, <1>5

\* From its first step to its last, the search knows the loops whose headers it
\* has reserved.
LoopInv ==
  pass = "idle" /\ moving = "off" =>
    /\ ~Built => search = "idle"
    /\ Built => BuiltGraph(fn)
    /\ search = "idle" =>
         /\ reserved = {} /\ sccs = {}
         /\ loop2base = <<>> /\ base2loop = <<>> /\ bb2base = <<>>
    /\ search \in {"round", "bases"} => CopyInv /\ FoundInv /\ TablesInv
    /\ search = "done" => L!LoopsNatural /\ LoopGraph(fn) /\ Recorded(Heads(fn))

LEMMA LoopInitially == PassesInit => LoopInv
<1> SUFFICES ASSUME PassesInit PROVE LoopInv
  OBVIOUS
<1>1. /\ BuilderInit /\ search = "idle" /\ reserved = {} /\ sccs = {}
      /\ loop2base = <<>> /\ base2loop = <<>> /\ bb2base = <<>>
  BY DEF PassesInit, L!IdleLoopSearch
<1>2. ~Built
  BY <1>1 DEF BuilderInit, Built
<1> QED BY <1>1, <1>2 DEF LoopInv

LEMMA BuiltIsLoopGraphNext == Inv' /\ EntryInv' /\ Laid' /\ Built' => BuiltGraph(fn)'
<1>1. Inv /\ EntryInv /\ Laid /\ Built => BuiltGraph(fn)
  BY BuiltIsLoopGraph
<1> QED BY <1>1, PTL

LEMMA BuildKeepsLoops ==
  ASSUME BuilderAssumption, PassesInv, LoopInv, Build
  PROVE  LoopInv'
<1>1. BuilderStep /\ pass' = pass /\ moving' = moving /\ UNCHANGED loopVars
  BY DEF Build, constVars, hoistVars
<1>2. ~Built
  BY <1>1, BuildingUnbuilt
<1> SUFFICES ASSUME moving = "off", pass = "idle" PROVE LoopInv'
  BY <1>1 DEF LoopInv
<1>3. Inv /\ Scoping /\ Nested
  BY <1>2 DEF PassesInv
<1>4. Inv' /\ Scoping' /\ Nested'
  BY <1>1, <1>3, Inductive, NestedInductive DEF BuilderNext
<1>5. Built' => BuiltGraph(fn)'
  BY <1>4, BuiltIsLoopGraphNext DEF Nested
<1>6. /\ search' = "idle" /\ reserved' = {} /\ sccs' = {}
      /\ loop2base' = <<>> /\ base2loop' = <<>> /\ bb2base' = <<>>
  BY <1>1, <1>2 DEF LoopInv, loopVars
<1> QED BY <1>5, <1>6 DEF LoopInv

LEMMA UnchangedKeepsLoops ==
  ASSUME LoopInv, fn' = fn, Built' <=> Built, pass' = pass, moving' = moving, UNCHANGED loopVars
  PROVE  LoopInv'
<1>1. CopyInv /\ FoundInv /\ TablesInv => CopyInv' /\ FoundInv' /\ TablesInv'
  BY DEF loopVars, CopyInv, FoundInv, TablesInv, Recorded, L!LoopsFound
<1>2. /\ L!LoopsNatural => L!LoopsNatural'
      /\ LoopGraph(fn) /\ Recorded(Heads(fn)) => LoopGraph(fn)' /\ Recorded(Heads(fn))'
  BY DEF loopVars, Recorded, L!LoopsNatural, L!LoopsFound, L!Searched
<1> QED BY <1>1, <1>2 DEF LoopInv, loopVars

LEMMA SearchKeepsLoops ==
  ASSUME PassesInv, LoopInv, RunLoopSearch
  PROVE  LoopInv'
<1>1. Built /\ stack' = stack /\ pass' = pass /\ moving' = moving
  BY DEF RunLoopSearch, Optimizing, constVars, hoistVars
<1>2. fn' = fn
  BY DEF RunLoopSearch, L!LoopSearchStep, L!BuildCfg, L!TraverseCrashes, L!FindComponents, L!TakeLoop
<1>3. Built' /\ (BuiltGraph(fn') <=> BuiltGraph(fn))
  BY <1>1, <1>2 DEF Built
<1> SUFFICES ASSUME pass = "idle", moving = "off" PROVE LoopInv'
  BY <1>1 DEF LoopInv
<1>4. CASE L!BuildCfg
  <2>1. search = "idle" /\ search' = "round"
    BY <1>4 DEF L!BuildCfg
  <2>2. ~HasDeadPredecessor(fn)
    BY <2>1, LoopNames DEF RunLoopSearch
  <2>3. CopyInv' /\ FoundInv' /\ TablesInv'
    BY <1>1, <1>4, <2>1, <2>2, SearchBegins DEF LoopInv
  <2> QED BY <1>1, <1>3, <2>1, <2>3 DEF LoopInv
<1>5. CASE L!TraverseCrashes
  <2>1. search' = "crashed"
    BY <1>5 DEF L!TraverseCrashes
  <2> QED BY <1>1, <1>3, <2>1 DEF LoopInv
<1>6. CASE L!FindComponents
  <2>1. CopyInv /\ FoundInv /\ TablesInv
    BY <1>6 DEF LoopInv, L!FindComponents
  <2>2. /\ search' \in {"done", "bases"}
        /\ search' = "bases" => CopyInv' /\ FoundInv' /\ TablesInv'
        /\ search' = "done" => L!LoopsNatural' /\ LoopGraph(fn)' /\ Recorded(Heads(fn))'
    BY <1>6, <2>1, RoundGoesOn
  <2> QED BY <1>1, <1>3, <2>2 DEF LoopInv
<1>7. CASE L!TakeLoop
  <2>1. CopyInv /\ FoundInv /\ TablesInv
    BY <1>7 DEF LoopInv, L!TakeLoop
  <2>2. \/ search' = "crashed"
        \/ search' \in {"round", "bases"} /\ CopyInv' /\ FoundInv' /\ TablesInv'
    BY <1>7, <2>1, LoopTaken
  <2> QED BY <1>1, <1>3, <2>2 DEF LoopInv
<1> QED BY <1>4, <1>5, <1>6, <1>7 DEF RunLoopSearch, L!LoopSearchStep

LEMMA PassesStepKeepsLoops ==
  ASSUME PassesInv, LoopInv, PassesStep
  PROVE  LoopInv'
<1>1. CASE RunLoopSearch
  BY <1>1, SearchKeepsLoops
<1>2. CASE RunConstPropagation
  <2>1. pass' # "idle"
    BY <1>2 DEF RunConstPropagation, C!ConstPropagationStep, C!StartFolding, C!FoldBlock,
       C!EndFolding, C!EraseUnreached, C!AnotherRound
  <2> QED BY <2>1 DEF LoopInv
<1>3. CASE StartHoist
  BY <1>3 DEF StartHoist, constVars, LoopInv
<1>4. CASE StartMoving \/ Move
  <2>1. moving' # "off"
    BY <1>4 DEF StartMoving, Move, H!StartMoving, H!HoistStep, H!NextLoop, H!MoveAllInstr,
       H!EndLoop, H!EndMoving
  <2> QED BY <2>1 DEF LoopInv
<1> QED BY <1>1, <1>2, <1>3, <1>4 DEF PassesStep

LEMMA StutterKeepsLoops ==
  ASSUME LoopInv, UNCHANGED passesVars
  PROVE  LoopInv'
<1>1. /\ UNCHANGED builderVars /\ pass' = pass /\ moving' = moving /\ UNCHANGED loopVars
  BY DEF passesVars, constVars, hoistVars
<1>2. fn' = fn /\ (Built' <=> Built)
  BY <1>1 DEF builderVars, Built
<1> QED BY <1>1, <1>2, UnchangedKeepsLoops

\* What LoopSearch knows at each of its steps.
THEOREM LoopInvariant == PassesSpec => []LoopInv
<1>1. PassesInit => LoopInv
  BY LoopInitially
<1>2. PassesInv /\ LoopInv /\ [Build \/ PassesStep \/ Exit]_passesVars => LoopInv'
  BY BuilderAssumption, BuildKeepsLoops, PassesStepKeepsLoops, StutterKeepsLoops DEF Exit
<1> QED BY <1>1, <1>2, PassesInvariant, PTL DEF PassesSpec

(* The loops the search finds in reachable code are exactly the natural    *)
(* loops of the graph, each with its header as base, in whatever order the *)
(* components of a round are looked at.                                    *)
THEOREM LoopsFoundAreNatural == PassesSpec => []LoopsNatural
<1>1. LoopInv => LoopsNatural
  BY DEF LoopInv, LoopsNatural, BeforeFolding, L!LoopsNatural, L!Searched
<1> QED BY <1>1, LoopInvariant, PTL

(* When the search is done, get_inner_loop answers for every reachable     *)
(* block with the innermost loop around it and get_parent_loop for every   *)
(* loop with the smallest one around that, or with nullptr if there is     *)
(* none, whatever order the components were looked at in.                  *)
THEOREM LoopQueriesAreCorrect == PassesSpec => []LoopQueriesCorrect
<1>1. LoopInv => LoopQueriesCorrect
  <2> SUFFICES ASSUME LoopInv, pass = "idle", moving = "off" PROVE L!LoopQueriesCorrect
    BY DEF LoopQueriesCorrect, BeforeFolding
  <2>1. CASE search = "done"
    <3>1. LoopGraph(fn) /\ JumpedTo(fn) /\ Recorded(Heads(fn))
      BY <2>1 DEF LoopInv, BuiltGraph
    <3> QED BY <3>1, QueriesCorrect
  <2>2. CASE search # "done"
    BY <2>2 DEF L!LoopQueriesCorrect, L!Searched
  <2> QED BY <2>1, <2>2
<1> QED BY <1>1, LoopInvariant, PTL

=============================================================================
