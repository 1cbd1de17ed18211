---------------------------- MODULE PromotionProofs ----------------------------
(***************************************************************************)
(* Proofs about Mem2Reg, for functions of any size: the renaming stacks    *)
(* are balanced, the pass fails only on a variable that may be read before *)
(* it is set, every access of the others is removed, every phi has an      *)
(* operand for each of its predecessors, and the promoted program does     *)
(* what the original one does.                                             *)
(*                                                                         *)
(* The argument is about the order of the renaming.  What is left to do    *)
(* hangs below the active calls (Awaits): the subtrees of the dominator    *)
(* tree under the children that were not called yet.  A block leaves this  *)
(* set once and never comes back, and when it is renamed all blocks that   *)
(* dominate it have been, so that a store or a phi in one of them has made *)
(* the stack of its variable.                                              *)
(*                                                                         *)
(* That the programs agree is about names.  The dominator tree says which  *)
(* value of a variable reaches a point (Reaching): the last one set in its *)
(* block, or by the closest block above.  The stacks hold these values,    *)
(* loads and phis are given them (NamesInv), and because a phi stands      *)
(* wherever the region of a setter ends, what reaches the end of a block   *)
(* is what reaches its successors.                                         *)
(***************************************************************************)
EXTENDS Promotion, BuilderProofs

-----------------------------------------------------------------------------
(* Mem2Reg's names for graphs and sets are those of this module.           *)

LEMMA SameGraphs ==
  /\ M!Entry = Entry
  /\ \A S : M!Cardinality(S) = Cardinality(S)
  /\ \A s : M!Range(s) = Range(s)
  /\ \A f : M!Reachable(f) = Reachable(f)
  /\ \A f : M!DominatorsOf(f) = DominatorsOf(f)
  /\ \A f : M!HasDeadPredecessor(f) <=> HasDeadPredecessor(f)
<1>1. ASSUME NEW S PROVE M!Cardinality(S) = Cardinality(S)
  BY Zenon DEF Cardinality, M!Cardinality
<1>2. \A s : M!Range(s) = Range(s)
  BY DEF M!Range, Range
<1>3. \A next, start : M!ReachedFrom(next, start) = ReachedFrom(next, start)
  BY <1>1, Zenon DEF ReachedFrom, M!ReachedFrom
<1>4. \A f, from, avoid : M!PathsFrom(f, from, avoid) = PathsFrom(f, from, avoid)
  BY <1>2, <1>3 DEF PathsFrom, M!PathsFrom
<1>5. M!Entry = Entry
  BY DEF M!Entry, Entry
<1>6. \A f : M!Reachable(f) = Reachable(f)
  BY <1>4, <1>5 DEF M!Reachable, Reachable
<1>7. \A f : M!HasDeadPredecessor(f) <=> HasDeadPredecessor(f)
  BY <1>2, <1>6 DEF M!HasDeadPredecessor, HasDeadPredecessor
<1>8. ASSUME NEW f PROVE M!DominatorsOf(f) = DominatorsOf(f)
  <2>1. ASSUME NEW g PROVE M!Table(g) = g /\ Table(g) = g
    <3>1. M!Table(g) = g
      BY Zenon DEF M!Table
    <3>2. Table(g) = g
      BY Zenon DEF Table
    <3> QED BY <3>1, <3>2
  <2> DEFINE withoutM == [a \in f.blocks |-> M!PathsFrom(f, M!Entry, {a})]
             without == [a \in f.blocks |-> PathsFrom(f, Entry, {a})]
             domM == [b \in M!Reachable(f) |-> {a \in f.blocks : b \notin withoutM[a]}]
             dom == [b \in Reachable(f) |-> {a \in f.blocks : b \notin without[a]}]
  <2>2. withoutM = without
    BY <1>4, <1>5
  <2>3. M!DominatorsOf(f) = domM /\ DominatorsOf(f) = dom
    BY <2>1 DEF M!DominatorsOf, DominatorsOf
  <2> HIDE DEF withoutM, without
  <2>4. domM = dom
    BY <1>6, <2>2
  <2> HIDE DEF domM, dom
  <2> QED BY <2>3, <2>4
<1> QED BY <1>1, <1>2, <1>5, <1>6, <1>7, <1>8

LEMMA SameDominance ==
  /\ \A f, dom, a : M!DominanceFrontier(f, dom, a) = DominanceFrontier(f, dom, a)
  /\ \A f, a : M!JoinsBehind(f, a) = JoinsBehind(f, a)
  /\ \A f, dom, b : M!ImmediateDominator(f, dom, b) = ImmediateDominator(f, dom, b)
<1>1. \A f, dom, a : M!DominanceFrontier(f, dom, a) = DominanceFrontier(f, dom, a)
  BY SameGraphs DEF M!DominanceFrontier, DominanceFrontier
<1>2. \A f, a : M!JoinsBehind(f, a) = JoinsBehind(f, a)
  BY SameGraphs DEF M!JoinsBehind, JoinsBehind
<1>3. \A f, dom, b : M!ImmediateDominator(f, dom, b) = ImmediateDominator(f, dom, b)
  BY DEF M!ImmediateDominator, ImmediateDominator
<1> QED BY <1>1, <1>2, <1>3

-----------------------------------------------------------------------------
(* What Mem2Reg is given: the function and the results of Dominators.      *)

\* The tree leads from every block to those it dominates immediately.
TreeOf(f, tree) ==
  \A b \in f.blocks : tree[b] = {c \in Reachable(f) \ {Entry} : Immediate(f, b, c)}

\* A block in the frontier of a has a predecessor that a dominates, or joins
\* right behind the unreachable a.
FrontierOf(f, df) ==
  /\ \A a \in Reachable(f) : \A b \in df[a] :
       /\ b \in Reachable(f)
       /\ \E p \in Reachable(f) : b \in Range(f.succ[p]) /\ Dominates(f, a, p)
  /\ \A a \in f.blocks \ Reachable(f) : \A b \in df[a] :
       b \in f.blocks /\ Len(f.pre[b]) >= 2 /\ a \in Range(f.pre[b])

Given(f, df, tree) ==
  /\ WellFormed(f) /\ FlowGraph(f)
  /\ ~HasDeadPredecessor(f)
  /\ TreeOf(f, tree) /\ FrontierOf(f, df)

LEMMA BuiltIsFlowGraph ==
  ASSUME Inv, EntryInv, Built
  PROVE  WellFormed(fn) /\ FlowGraph(fn)
<1>1. WellFormed(fn) /\ EntryFirst(fn)
  BY DEF Inv, InvOf, EntryInv, Built
<1> QED
  BY <1>1 DEF WellFormed, FunctionType, EdgesAgree, EntryFirst, FlowGraph

LEMMA DominatorsGiven ==
  ASSUME Inv, EntryInv, RunDominators
  PROVE  Given(fn, dom_frontier', dom_tree_succ')
<1>1. Built /\ ~HasDeadPredecessor(fn) /\ WellFormed(fn) /\ FlowGraph(fn)
  BY BuiltIsFlowGraph, SameGraphs DEF RunDominators
<1> DEFINE dom == DominatorsOf(fn)
<1>2. /\ dom_frontier' = [b \in fn.blocks |->
            IF b \in DOMAIN dom THEN DominanceFrontier(fn, dom, b) ELSE JoinsBehind(fn, b)]
      /\ dom_tree_succ' = [b \in fn.blocks |->
            {c \in DOMAIN dom \ {Entry} : b = ImmediateDominator(fn, dom, c)}]
  BY SameGraphs, SameDominance DEF RunDominators
<1>3. /\ DOMAIN dom = Reachable(fn)
      /\ \A b \in Reachable(fn) : dom[b] = {a \in fn.blocks : Dominates(fn, a, b)}
  BY DominatorsOfFacts
<1>4. \A c \in Reachable(fn) \ {Entry} : Immediate(fn, ImmediateDominator(fn, dom, c), c)
  BY <1>1, ImmediateDominatorFacts
<1>5. Reachable(fn) \subseteq fn.blocks
  BY <1>1, ReachableFacts
<1> HIDE DEF dom
<1>6. TreeOf(fn, dom_tree_succ')
  <2> SUFFICES ASSUME NEW b \in fn.blocks, NEW c \in Reachable(fn) \ {Entry}
               PROVE  b = ImmediateDominator(fn, dom, c) <=> Immediate(fn, b, c)
    BY <1>2, <1>3 DEF TreeOf
  <2> QED BY <1>1, <1>4, ImmediateUnique
<1>7. FrontierOf(fn, dom_frontier')
  <2>1. ASSUME NEW a \in Reachable(fn), NEW b \in dom_frontier'[a]
        PROVE  /\ b \in Reachable(fn)
               /\ \E p \in Reachable(fn) : b \in Range(fn.succ[p]) /\ Dominates(fn, a, p)
    <3>1. b \in DominanceFrontier(fn, dom, a)
      BY <1>2, <1>3, <1>5, <2>1
    <3> QED BY <1>3, <3>1 DEF DominanceFrontier
  <2>2. ASSUME NEW a \in fn.blocks \ Reachable(fn), NEW b \in dom_frontier'[a]
        PROVE  b \in fn.blocks /\ Len(fn.pre[b]) >= 2 /\ a \in Range(fn.pre[b])
    <3>1. b \in JoinsBehind(fn, a)
      BY <1>2, <1>3, <2>2
    <3> QED BY <3>1 DEF JoinsBehind
  <2> QED BY <2>1, <2>2 DEF FrontierOf
<1> QED BY <1>1, <1>6, <1>7 DEF Given

\* A block that is in a frontier and reachable has reachable predecessors only.
LEMMA PredecessorsReachable ==
  ASSUME NEW f, FlowGraph(f), ~HasDeadPredecessor(f),
         NEW b \in Reachable(f), NEW p \in Reachable(f), b \in Range(f.succ[p])
  PROVE  Range(f.pre[b]) \subseteq Reachable(f) /\ p \in Range(f.pre[b])
<1>1. b \in f.blocks /\ p \in f.blocks
  BY ReachableFacts
<1>2. p \in Range(f.pre[b])
  BY <1>1, FlowFacts
<1>3. DOMAIN f.pre[b] = 1 .. Len(f.pre[b]) /\ Len(f.pre[b]) \in Nat
  BY <1>1, FlowFacts
<1>4. CASE Len(f.pre[b]) >= 2
  BY <1>2, <1>4 DEF HasDeadPredecessor
<1>5. CASE ~(Len(f.pre[b]) >= 2)
  <2>1. \A i, j \in DOMAIN f.pre[b] : i = j
    BY <1>3, <1>5
  <2>2. \A q \in Range(f.pre[b]) : q = p
    BY <1>2, <2>1 DEF Range
  <2> QED BY <1>2, <2>2
<1> QED BY <1>4, <1>5

-----------------------------------------------------------------------------
(* What is left of the renaming.                                           *)

CallFrame(f) ==
  [bb : Reachable(f), pc : {"phis", "instrs", "successors", "children"},
   pos : Nat \ {0}, todo : SUBSET Reachable(f)]

\* The children of a block that an active call has not called yet, and all that
\* hangs below them.
Rest(tree, frame) == IF frame.pc = "children" THEN frame.todo ELSE tree[frame.bb]

Awaits(f, tree, cs) ==
  {d \in Reachable(f) : \E i \in 1 .. Len(cs) : \E c \in Rest(tree, cs[i]) : Dominates(f, c, d)}

\* A block has one call at most, and only the last call is at work on its block.
CallsNested(f, tree, cs) ==
  /\ cs \in Seq(CallFrame(f))
  /\ \A i \in 1 .. Len(cs) :
       /\ cs[i].bb \notin Awaits(f, tree, cs)
       /\ cs[i].todo \subseteq tree[cs[i].bb]
       /\ i < Len(cs) => cs[i].pc = "children"
       /\ cs[i].pc = "instrs" => cs[i].pos <= Len(f.code[cs[i].bb]) + 1
  /\ \A i, j \in 1 .. Len(cs) : cs[i].bb = cs[j].bb => i = j
  /\ cs # <<>> => cs[1].bb = Entry

\* The i-th instruction of b (the phis, for i = 0) has been renamed; the pairs for
\* its k-th successor have been added.
InstrBehind(frame, i) == frame.pc # "phis" /\ (frame.pc = "instrs" => i < frame.pos)
EdgeBehind(frame, k) ==
  frame.pc = "children" \/ (frame.pc = "successors" /\ k < frame.pos)

Renamed(f, tree, cs, b, i) ==
  /\ b \in Reachable(f) \ Awaits(f, tree, cs)
  /\ \A j \in 1 .. Len(cs) : cs[j].bb = b => InstrBehind(cs[j], i)

Filled(f, tree, cs, b, k) ==
  /\ b \in Reachable(f) \ Awaits(f, tree, cs)
  /\ \A j \in 1 .. Len(cs) : cs[j].bb = b => EdgeBehind(cs[j], k)

\* The call on top goes on: its block stays, and so do the children it has not
\* called.
LEMMA CallGoesOn ==
  ASSUME NEW f, NEW tree, NEW cs, CallsNested(f, tree, cs), cs # <<>>,
         NEW fr \in CallFrame(f), fr.bb = cs[Len(cs)].bb,
         fr.todo \subseteq tree[fr.bb], Rest(tree, fr) = Rest(tree, cs[Len(cs)]),
         fr.pc = "instrs" => fr.pos <= Len(f.code[fr.bb]) + 1
  PROVE  LET n == Len(cs)
             ds == [cs EXCEPT ![n] = fr]
         IN  /\ CallsNested(f, tree, ds) /\ Awaits(f, tree, ds) = Awaits(f, tree, cs)
             /\ n \in 1 .. n /\ n \in Nat \ {0} /\ Len(ds) = n /\ ds # <<>>
             /\ ds[n] = fr /\ \A i \in 1 .. n : i # n => ds[i] = cs[i]
             /\ fr.bb \in Reachable(f) \ Awaits(f, tree, cs)
             /\ \A i : Renamed(f, tree, cs, fr.bb, i) <=> InstrBehind(cs[n], i)
             /\ \A i : Renamed(f, tree, ds, fr.bb, i) <=> InstrBehind(fr, i)
             /\ \A b, i : b # fr.bb => (Renamed(f, tree, ds, b, i) <=> Renamed(f, tree, cs, b, i))
             /\ \A k : Filled(f, tree, cs, fr.bb, k) <=> EdgeBehind(cs[n], k)
             /\ \A k : Filled(f, tree, ds, fr.bb, k) <=> EdgeBehind(fr, k)
             /\ \A b, k : b # fr.bb => (Filled(f, tree, ds, b, k) <=> Filled(f, tree, cs, b, k))
<1> DEFINE n == Len(cs)
           ds == [cs EXCEPT ![n] = fr]
           R == CallFrame(f)
<1>1. cs \in Seq(R) /\ fr \in R
  BY DEF CallsNested
<1> HIDE DEF R
<1>2. /\ n \in Nat \ {0} /\ n \in 1 .. n /\ ds \in Seq(R) /\ Len(ds) = n /\ ds[n] = fr
      /\ \A i \in 1 .. n : i # n => ds[i] = cs[i]
      /\ \A i \in 1 .. n : cs[i] \in R
  BY <1>1
<1> HIDE DEF ds, n
<1>3. Awaits(f, tree, ds) = Awaits(f, tree, cs)
  <2>1. \A i \in 1 .. n : Rest(tree, ds[i]) = Rest(tree, cs[i])
    BY <1>2 DEF n
  <2> QED BY <1>2, <2>1 DEF Awaits, n
<1>4. \A i \in 1 .. n : ds[i].bb = cs[i].bb
  BY <1>2 DEF n
<1>5. CallsNested(f, tree, ds)
  <2>1. ds \in Seq(CallFrame(f))
    BY <1>2 DEF R
  <2>2. ASSUME NEW i \in 1 .. n
        PROVE  /\ ds[i].bb \notin Awaits(f, tree, ds)
               /\ ds[i].todo \subseteq tree[ds[i].bb]
               /\ i < n => ds[i].pc = "children"
               /\ ds[i].pc = "instrs" => ds[i].pos <= Len(f.code[ds[i].bb]) + 1
    <3>1. /\ cs[i].bb \notin Awaits(f, tree, cs) /\ cs[i].todo \subseteq tree[cs[i].bb]
          /\ i < n => cs[i].pc = "children"
          /\ cs[i].pc = "instrs" => cs[i].pos <= Len(f.code[cs[i].bb]) + 1
      BY DEF CallsNested, n
    <3>2. CASE i = n
      BY <1>2, <1>3, <1>4, <3>1, <3>2
    <3>3. CASE i # n
      BY <1>2, <1>3, <3>1, <3>3
    <3> QED BY <3>2, <3>3
  <2>3. \A i, j \in 1 .. n : ds[i].bb = ds[j].bb => i = j
    BY <1>4 DEF CallsNested, n
  <2>4. ds[1].bb = Entry
    <3>1. 1 \in 1 .. n
      BY <1>2
    <3> QED BY <1>4, <3>1 DEF CallsNested
  <2> QED BY <1>2, <2>1, <2>2, <2>3, <2>4 DEF CallsNested
<1>6. fr.bb \in Reachable(f) \ Awaits(f, tree, cs)
  <2>1. fr.bb \in Reachable(f)
    BY DEF CallFrame
  <2> QED BY <1>2, <2>1 DEF CallsNested, n
<1>7. \A j \in 1 .. n : (cs[j].bb = fr.bb <=> j = n) /\ (ds[j].bb = fr.bb <=> j = n)
  BY <1>2, <1>4 DEF CallsNested, n
<1>8. /\ \A i : Renamed(f, tree, cs, fr.bb, i) <=> InstrBehind(cs[n], i)
      /\ \A k : Filled(f, tree, cs, fr.bb, k) <=> EdgeBehind(cs[n], k)
  BY <1>2, <1>6, <1>7 DEF Renamed, Filled, n
<1>9. /\ \A i : Renamed(f, tree, ds, fr.bb, i) <=> InstrBehind(fr, i)
      /\ \A k : Filled(f, tree, ds, fr.bb, k) <=> EdgeBehind(fr, k)
  BY <1>2, <1>3, <1>6, <1>7 DEF Renamed, Filled
<1>10. ASSUME NEW b, b # fr.bb
       PROVE  /\ \A i : Renamed(f, tree, ds, b, i) <=> Renamed(f, tree, cs, b, i)
              /\ \A k : Filled(f, tree, ds, b, k) <=> Filled(f, tree, cs, b, k)
  <2>1. \A j \in 1 .. n : (cs[j].bb = b <=> ds[j].bb = b) /\ (cs[j].bb = b => ds[j] = cs[j])
    BY <1>2, <1>4, <1>7, <1>10
  <2> QED BY <1>2, <1>3, <2>1 DEF Renamed, Filled, n
<1>11. ds # <<>>
  BY <1>2
<1> QED BY <1>2, <1>3, <1>5, <1>6, <1>8, <1>9, <1>10, <1>11 DEF ds, n

\* The call on top calls a child: the child leaves what is left.
LEMMA CallMade ==
  ASSUME NEW f, NEW tree, NEW cs, FlowGraph(f), TreeOf(f, tree), CallsNested(f, tree, cs),
         cs # <<>>, cs[Len(cs)].pc = "children", NEW b \in cs[Len(cs)].todo
  PROVE  LET n == Len(cs)
             ds == Append([cs EXCEPT ![n].todo = @ \ {b}], M!Rename(b))
         IN  /\ CallsNested(f, tree, ds) /\ Awaits(f, tree, ds) = Awaits(f, tree, cs) \ {b}
             /\ b \in Awaits(f, tree, cs) /\ b \in Reachable(f)
             /\ n \in Nat \ {0} /\ Len(ds) = n + 1 /\ ds # <<>> /\ ds[n + 1] = M!Rename(b)
             /\ ds[n].bb = cs[n].bb /\ ds[n].pc = "children"
             /\ \A i \in 1 .. n : i # n => ds[i] = cs[i]
             /\ \A i : ~Renamed(f, tree, cs, b, i) /\ ~Renamed(f, tree, ds, b, i)
             /\ \A c, i : c # b => (Renamed(f, tree, ds, c, i) <=> Renamed(f, tree, cs, c, i))
             /\ \A k : ~Filled(f, tree, cs, b, k) /\ ~Filled(f, tree, ds, b, k)
             /\ \A c, k : c # b => (Filled(f, tree, ds, c, k) <=> Filled(f, tree, cs, c, k))
<1> DEFINE n == Len(cs)
           top == [cs[n] EXCEPT !.todo = @ \ {b}]
           es == [cs EXCEPT ![n] = top]
           ds == Append(es, M!Rename(b))
           R == CallFrame(f)
<1>1. cs \in Seq(R)
  BY DEF CallsNested
<1>2. n \in Nat \ {0} /\ n \in 1 .. n /\ \A i \in 1 .. n : cs[i] \in R
  BY <1>1
<1>3. /\ cs[n].todo \subseteq tree[cs[n].bb] /\ cs[n].bb \in f.blocks
      /\ cs[n].bb \in Reachable(f) /\ cs[n].bb \notin Awaits(f, tree, cs)
  <2>1. cs[n].bb \in Reachable(f)
    BY <1>2 DEF CallFrame
  <2> QED BY <1>2, <2>1, ReachableFacts DEF CallsNested
<1>4. Immediate(f, cs[n].bb, b) /\ b \in Reachable(f) \ {Entry}
  BY <1>3 DEF TreeOf
<1>5. top \in R /\ M!Rename(b) \in R
  <2>1. cs[n] \in R
    BY <1>2
  <2> QED BY <1>4, <2>1 DEF CallFrame, M!Rename
<1>6. /\ top.bb = cs[n].bb /\ top.pc = "children" /\ top.todo = cs[n].todo \ {b}
      /\ M!Rename(b).bb = b /\ M!Rename(b).pc = "phis" /\ M!Rename(b).todo = {}
  <2>1. cs[n] \in R
    BY <1>2
  <2> QED BY <2>1 DEF CallFrame, M!Rename
<1>7. ds = Append([cs EXCEPT ![n].todo = @ \ {b}], M!Rename(b))
  <2>1. [cs EXCEPT ![n].todo = @ \ {b}] = es
    BY <1>1, <1>2
  <2> QED BY <2>1
<1> HIDE DEF R, top
<1>8. /\ es \in Seq(R) /\ Len(es) = n /\ es[n] = top
      /\ \A i \in 1 .. n : i # n => es[i] = cs[i]
  BY <1>1, <1>2, <1>5
<1> HIDE DEF es
<1>9. /\ ds \in Seq(R) /\ Len(ds) = n + 1 /\ ds[n + 1] = M!Rename(b) /\ ds[n] = top
      /\ \A i \in 1 .. n : i # n => ds[i] = cs[i]
      /\ \A i \in 1 .. n + 1 : i \in 1 .. n \/ i = n + 1
      /\ 1 .. n \subseteq 1 .. n + 1 /\ n + 1 \in 1 .. n + 1 /\ n + 1 \notin 1 .. n
  BY <1>2, <1>5, <1>8
<1> HIDE DEF ds, n
<1>10. /\ \A i \in 1 .. n : ds[i].bb = cs[i].bb
       /\ ds[n + 1].bb = b
  BY <1>6, <1>9
<1>11. /\ \A i \in 1 .. n : i # n => Rest(tree, ds[i]) = Rest(tree, cs[i])
       /\ Rest(tree, cs[n]) = cs[n].todo /\ Rest(tree, ds[n]) = cs[n].todo \ {b}
       /\ Rest(tree, ds[n + 1]) = tree[b]
  BY <1>6, <1>9 DEF Rest, n
<1>12. b \in Awaits(f, tree, cs)
  <2>1. Dominates(f, b, b)
    BY <1>4, DominatesItself
  <2> QED BY <1>2, <1>4, <1>11, <2>1 DEF Awaits, n
<1>13. \A c \in tree[b] : Immediate(f, b, c)
  BY <1>4, ReachableFacts DEF TreeOf
<1>14. ASSUME NEW d \in Awaits(f, tree, ds) PROVE d \in Awaits(f, tree, cs)
  <2>0. PICK i \in 1 .. n + 1 : \E c \in Rest(tree, ds[i]) : Dominates(f, c, d)
    BY <1>9 DEF Awaits
  <2>1. PICK c \in Rest(tree, ds[i]) : Dominates(f, c, d)
    BY <2>0
  <2>2. d \in Reachable(f)
    BY DEF Awaits
  <2>3. CASE i \in 1 .. n
    <3>1. c \in Rest(tree, cs[i])
      BY <1>11, <2>1, <2>3
    <3> QED BY <2>1, <2>2, <2>3, <3>1 DEF Awaits, n
  <2>4. CASE i = n + 1
    <3>1. Immediate(f, b, c)
      BY <1>11, <1>13, <2>1, <2>4
    <3>2. Dominates(f, b, d)
      BY <2>1, <3>1, DominatesTransitive DEF Immediate
    <3> QED BY <1>2, <1>11, <2>2, <3>2 DEF Awaits, n
  <2> QED BY <1>9, <2>3, <2>4
<1>15. b \notin Awaits(f, tree, ds)
  <2> SUFFICES ASSUME b \in Awaits(f, tree, ds) PROVE FALSE
    OBVIOUS
  <2>0. PICK i \in 1 .. n + 1 : \E c \in Rest(tree, ds[i]) : Dominates(f, c, b)
    BY <1>9 DEF Awaits
  <2>1. PICK c \in Rest(tree, ds[i]) : Dominates(f, c, b)
    BY <2>0
  <2>2. CASE i = n + 1
    BY <1>11, <1>13, <2>1, <2>2, DominatesAntisymmetric DEF Immediate
  <2>3. CASE i = n
    <3>1. c \in cs[n].todo /\ c # b
      BY <1>11, <2>1, <2>3
    <3>2. Immediate(f, cs[n].bb, c)
      BY <1>3, <3>1 DEF TreeOf
    <3>3. Dominates(f, c, cs[n].bb)
      BY <1>4, <2>1, <3>1 DEF Immediate
    <3> QED BY <3>2, <3>3, DominatesAntisymmetric DEF Immediate
  <2>4. CASE i \in 1 .. n /\ i # n
    <3>1. c \in Rest(tree, cs[i])
      BY <1>11, <2>1, <2>4
    <3>2. CASE c # b
      <4>1. Dominates(f, c, cs[n].bb)
        BY <1>4, <2>1, <3>2 DEF Immediate
      <4> QED BY <1>3, <2>4, <3>1, <4>1 DEF Awaits, n
    <3>3. CASE c = b
      <4>1. cs[i].bb \in f.blocks /\ cs[i].bb \in Reachable(f)
        <5>1. cs[i] \in R
          BY <1>2, <2>4
        <5> QED BY <5>1, ReachableFacts DEF CallFrame, R
      <4>2. b \in tree[cs[i].bb]
        BY <2>4, <3>1, <3>3 DEF Rest, CallsNested, n
      <4>3. Immediate(f, cs[i].bb, b)
        BY <4>1, <4>2 DEF TreeOf
      <4>4. cs[i].bb = cs[n].bb
        BY <1>4, <4>3, ImmediateUnique
      <4> QED BY <1>2, <2>4, <4>4 DEF CallsNested, n
    <3> QED BY <3>2, <3>3
  <2> QED BY <1>9, <2>2, <2>3, <2>4
<1>16. ASSUME NEW d \in Awaits(f, tree, cs), d # b PROVE d \in Awaits(f, tree, ds)
  <2>0. PICK i \in 1 .. n : \E c \in Rest(tree, cs[i]) : Dominates(f, c, d)
    BY DEF Awaits, n
  <2>1. PICK c \in Rest(tree, cs[i]) : Dominates(f, c, d)
    BY <2>0
  <2>2. d \in Reachable(f)
    BY DEF Awaits
  <2>3. CASE i # n \/ c # b
    <3>1. c \in Rest(tree, ds[i])
      BY <1>11, <2>1, <2>3
    <3> QED BY <1>9, <2>1, <2>2, <3>1 DEF Awaits
  <2>4. CASE i = n /\ c = b
    <3>1. PICK e \in Reachable(f) \ {Entry} : Immediate(f, b, e) /\ Dominates(f, e, d)
      BY <1>16, <2>1, <2>4, ThroughChild
    <3>2. e \in tree[b]
      BY <1>4, <3>1, ReachableFacts DEF TreeOf
    <3> QED BY <1>9, <1>11, <2>2, <3>1, <3>2 DEF Awaits
  <2> QED BY <2>3, <2>4
<1>17. Awaits(f, tree, ds) = Awaits(f, tree, cs) \ {b}
  BY <1>14, <1>15, <1>16
<1>18. \A i \in 1 .. n : cs[i].bb # b
  BY <1>12 DEF CallsNested, n
<1>19. CallsNested(f, tree, ds)
  <2>1. ASSUME NEW i \in 1 .. n + 1
        PROVE  /\ ds[i].bb \notin Awaits(f, tree, ds)
               /\ ds[i].todo \subseteq tree[ds[i].bb]
               /\ i < n + 1 => ds[i].pc = "children"
               /\ ds[i].pc = "instrs" => ds[i].pos <= Len(f.code[ds[i].bb]) + 1
    <3>1. CASE i = n + 1
      BY <1>6, <1>9, <1>15, <3>1
    <3>2. CASE i = n
      BY <1>2, <1>3, <1>6, <1>9, <1>17, <3>2 DEF n
    <3>3. CASE i \in 1 .. n /\ i # n
      <4>1. /\ cs[i].bb \notin Awaits(f, tree, cs) /\ cs[i].todo \subseteq tree[cs[i].bb]
            /\ cs[i].pc = "children"
            /\ cs[i].pc = "instrs" => cs[i].pos <= Len(f.code[cs[i].bb]) + 1
        BY <1>2, <3>3 DEF CallsNested, n
      <4> QED BY <1>9, <1>17, <3>3, <4>1
    <3> QED BY <1>9, <3>1, <3>2, <3>3
  <2>2. ASSUME NEW i \in 1 .. n + 1, NEW j \in 1 .. n + 1, ds[i].bb = ds[j].bb PROVE i = j
    <3>1. CASE i \in 1 .. n /\ j \in 1 .. n
      BY <1>10, <2>2, <3>1 DEF CallsNested, n
    <3> QED BY <1>9, <1>10, <1>18, <2>2, <3>1
  <2>3. ds[1].bb = Entry
    <3>1. 1 \in 1 .. n
      BY <1>2
    <3> QED BY <1>10, <3>1 DEF CallsNested
  <2>4. ds \in Seq(CallFrame(f))
    BY <1>9 DEF R
  <2> QED BY <1>9, <2>1, <2>2, <2>3, <2>4 DEF CallsNested
<1>20. \A i : ~InstrBehind(ds[n + 1], i) /\ ~EdgeBehind(ds[n + 1], i)
  BY <1>6, <1>9 DEF InstrBehind, EdgeBehind
<1>21. /\ \A i : ~Renamed(f, tree, cs, b, i) /\ ~Renamed(f, tree, ds, b, i)
       /\ \A k : ~Filled(f, tree, cs, b, k) /\ ~Filled(f, tree, ds, b, k)
  BY <1>9, <1>10, <1>12, <1>20 DEF Renamed, Filled
<1>22. ASSUME NEW c, c # b
       PROVE  /\ \A i : Renamed(f, tree, ds, c, i) <=> Renamed(f, tree, cs, c, i)
              /\ \A k : Filled(f, tree, ds, c, k) <=> Filled(f, tree, cs, c, k)
  <2>1. \A j \in 1 .. n : /\ \A i : InstrBehind(ds[j], i) <=> InstrBehind(cs[j], i)
                          /\ \A k : EdgeBehind(ds[j], k) <=> EdgeBehind(cs[j], k)
    <3> SUFFICES ASSUME NEW j \in 1 .. n
                 PROVE  /\ \A i : InstrBehind(ds[j], i) <=> InstrBehind(cs[j], i)
                        /\ \A k : EdgeBehind(ds[j], k) <=> EdgeBehind(cs[j], k)
      OBVIOUS
    <3>1. CASE j = n
      BY <1>6, <1>9, <3>1 DEF InstrBehind, EdgeBehind, n
    <3> QED BY <1>9, <3>1
  <2>2. c \in Reachable(f) \ Awaits(f, tree, ds) <=> c \in Reachable(f) \ Awaits(f, tree, cs)
    BY <1>17, <1>22
  <2>3. \A j \in 1 .. n + 1 : ds[j].bb = c => j \in 1 .. n /\ cs[j].bb = c
    BY <1>9, <1>10, <1>22
  <2>4. \A j \in 1 .. n : cs[j].bb = c => j \in 1 .. n + 1 /\ ds[j].bb = c
    BY <1>9, <1>10
  <2>5. Len(cs) = n /\ Len(ds) = n + 1
    BY <1>9 DEF n
  <2>6. \A i : Renamed(f, tree, ds, c, i) <=> Renamed(f, tree, cs, c, i)
    BY <2>1, <2>2, <2>3, <2>4, <2>5 DEF Renamed
  <2>7. \A k : Filled(f, tree, ds, c, k) <=> Filled(f, tree, cs, c, k)
    BY <2>1, <2>2, <2>3, <2>4, <2>5 DEF Filled
  <2> QED BY <2>6, <2>7
<1>23. ds # <<>>
  BY <1>2, <1>9
<1>24. /\ CallsNested(f, tree, ds) /\ Awaits(f, tree, ds) = Awaits(f, tree, cs) \ {b}
       /\ b \in Awaits(f, tree, cs) /\ b \in Reachable(f)
       /\ n \in Nat \ {0} /\ Len(ds) = n + 1 /\ ds # <<>> /\ ds[n + 1] = M!Rename(b)
       /\ ds[n].bb = cs[n].bb /\ ds[n].pc = "children"
       /\ \A i \in 1 .. n : i # n => ds[i] = cs[i]
  BY <1>2, <1>4, <1>6, <1>9, <1>12, <1>17, <1>19, <1>23
<1> QED BY <1>7, <1>21, <1>22, <1>24 DEF n

\* The call on top returns, with nothing left below it.
LEMMA CallReturns ==
  ASSUME NEW f, NEW tree, NEW cs, CallsNested(f, tree, cs), cs # <<>>,
         cs[Len(cs)].pc = "children", cs[Len(cs)].todo = {}
  PROVE  LET n == Len(cs)
             ds == SubSeq(cs, 1, n - 1)
         IN  /\ CallsNested(f, tree, ds) /\ Awaits(f, tree, ds) = Awaits(f, tree, cs)
             /\ n \in Nat \ {0} /\ Len(ds) = n - 1 /\ \A i \in 1 .. n - 1 : ds[i] = cs[i]
             /\ \A c, i : Renamed(f, tree, ds, c, i) <=> Renamed(f, tree, cs, c, i)
             /\ \A c, k : Filled(f, tree, ds, c, k) <=> Filled(f, tree, cs, c, k)
<1> DEFINE n == Len(cs)
           ds == SubSeq(cs, 1, n - 1)
           R == CallFrame(f)
<1>1. cs \in Seq(R)
  BY DEF CallsNested
<1> HIDE DEF R
<1>2. n \in Nat \ {0} /\ n \in 1 .. n
  BY <1>1
<1>3. ds \in Seq(R) /\ Len(ds) = n - 1 /\ \A i \in 1 .. n - 1 : ds[i] = cs[i]
  BY <1>1, Popped
<1> HIDE DEF ds, n
<1>4. /\ 1 .. n - 1 \subseteq 1 .. n /\ \A i \in 1 .. n : i = n \/ i \in 1 .. n - 1
      /\ \A i \in 1 .. n - 1 : i # n
  BY <1>2
<1>5. Rest(tree, cs[n]) = {}
  BY DEF Rest, n
<1>6. Awaits(f, tree, ds) = Awaits(f, tree, cs)
  BY <1>3, <1>4, <1>5 DEF Awaits, n
<1>7. CallsNested(f, tree, ds)
  <2>1. ASSUME NEW i \in 1 .. n - 1
        PROVE  /\ ds[i].bb \notin Awaits(f, tree, ds)
               /\ ds[i].todo \subseteq tree[ds[i].bb]
               /\ i < n - 1 => ds[i].pc = "children"
               /\ ds[i].pc = "instrs" => ds[i].pos <= Len(f.code[ds[i].bb]) + 1
    <3>1. /\ cs[i].bb \notin Awaits(f, tree, cs) /\ cs[i].todo \subseteq tree[cs[i].bb]
          /\ cs[i].pc = "children"
      BY <1>2, <1>4, <2>1 DEF CallsNested, n
    <3> QED BY <1>3, <1>6, <3>1
  <2>2. \A i, j \in 1 .. n - 1 : ds[i].bb = ds[j].bb => i = j
    BY <1>3, <1>4 DEF CallsNested, n
  <2>3. ds # <<>> => ds[1].bb = Entry
    <3>1. ds # <<>> => 1 \in 1 .. n - 1
      BY <1>2, <1>3
    <3> QED BY <1>3, <3>1 DEF CallsNested
  <2>4. ds \in Seq(CallFrame(f))
    BY <1>3 DEF R
  <2> QED BY <1>3, <2>1, <2>2, <2>3, <2>4 DEF CallsNested
<1>8. \A i : InstrBehind(cs[n], i) /\ EdgeBehind(cs[n], i)
  BY DEF InstrBehind, EdgeBehind, n
<1>10. \A c, i : Renamed(f, tree, ds, c, i) <=> Renamed(f, tree, cs, c, i)
  BY <1>3, <1>4, <1>6, <1>8 DEF Renamed, n
<1>11. \A c, k : Filled(f, tree, ds, c, k) <=> Filled(f, tree, cs, c, k)
  BY <1>3, <1>4, <1>6, <1>8 DEF Filled, n
<1> QED BY <1>2, <1>3, <1>6, <1>7, <1>10, <1>11 DEF ds, n

\* When no call is left everything has been renamed, and at the beginning nothing.
LEMMA NothingAwaits ==
  ASSUME NEW f, NEW tree
  PROVE  /\ Awaits(f, tree, <<>>) = {}
         /\ \A b \in Reachable(f) : \A i : Renamed(f, tree, <<>>, b, i) /\ Filled(f, tree, <<>>, b, i)
BY DEF Awaits, Renamed, Filled

LEMMA FirstCall ==
  ASSUME NEW f, NEW tree, FlowGraph(f), TreeOf(f, tree)
  PROVE  /\ CallsNested(f, tree, <<M!Rename(Entry)>>)
         /\ \A b, i : /\ ~Renamed(f, tree, <<M!Rename(Entry)>>, b, i)
                      /\ ~Filled(f, tree, <<M!Rename(Entry)>>, b, i)
<1> DEFINE fr == M!Rename(Entry)
           cs == <<fr>>
<1>1. Entry \in Reachable(f) /\ Entry \in f.blocks /\ Reachable(f) \subseteq f.blocks
  BY ReachableFacts
<1>2. fr \in CallFrame(f) /\ fr.bb = Entry /\ fr.pc = "phis" /\ fr.todo = {}
  BY <1>1 DEF CallFrame, M!Rename
<1> HIDE DEF fr
<1>3. cs \in Seq(CallFrame(f)) /\ Len(cs) = 1 /\ cs[1] = fr /\ 1 .. 1 = {1}
  BY <1>2
<1> HIDE DEF cs
<1>4. Awaits(f, tree, cs) = Reachable(f) \ {Entry}
  <2>1. Rest(tree, cs[1]) = {c \in Reachable(f) \ {Entry} : Immediate(f, Entry, c)}
    BY <1>1, <1>2, <1>3 DEF Rest, TreeOf
  <2>2. ASSUME NEW d \in Reachable(f) \ {Entry} PROVE d \in Awaits(f, tree, cs)
    <3>1. Dominates(f, Entry, d)
      BY EntryDominates
    <3>2. \E c \in Reachable(f) \ {Entry} : Immediate(f, Entry, c) /\ Dominates(f, c, d)
      BY <3>1, ThroughChild
    <3> QED BY <1>3, <2>1, <3>2 DEF Awaits
  <2>3. Entry \notin Awaits(f, tree, cs)
    BY <1>3, <2>1, EntryDominator DEF Awaits
  <2> QED BY <2>2, <2>3 DEF Awaits
<1>5. CallsNested(f, tree, cs)
  BY <1>2, <1>3, <1>4 DEF CallsNested
<1>6. \A i : ~InstrBehind(fr, i) /\ ~EdgeBehind(fr, i)
  BY <1>2 DEF InstrBehind, EdgeBehind
<1>7. \A b, i : ~Renamed(f, tree, cs, b, i) /\ ~Filled(f, tree, cs, b, i)
  BY <1>2, <1>3, <1>4, <1>6 DEF Renamed, Filled
<1> QED BY <1>5, <1>7 DEF cs, fr

\* A block that dominates one that was called has been called before.
LEMMA DominatorsFirst ==
  ASSUME NEW f, NEW tree, NEW cs, FlowGraph(f), NEW a, NEW b \in Reachable(f) \ Awaits(f, tree, cs),
         Dominates(f, a, b)
  PROVE  a \in Reachable(f) \ Awaits(f, tree, cs)
BY DominatesTransitive, DominatorReachable DEF Awaits

-----------------------------------------------------------------------------
(* The invariant of the renaming.                                          *)

Accessed ==
  M!InstrsOf("load", Locals \cup Globals) \cup M!InstrsOf("store", Locals \cup Globals)

Values == [kind : {"own", "load", "phi"}, block : Nat, at : Int, var : Nat]

PassTyped ==
  /\ phis \subseteq fn.blocks \X Locals
  /\ operand \in [Accessed -> Values]
  /\ DOMAIN var_val_stack \subseteq Locals
  /\ \A v \in DOMAIN var_val_stack : var_val_stack[v] \in Seq(Values)
  /\ pairs \subseteq [at : phis, from : Reachable(fn), val : Values]

\* The block b stores to v or has a phi for it.
Sets(b, v) == <<b, v>> \in phis \/ b \in M!StoreBlocks(v)

\* A phi stands in the frontier of a block that sets the variable.
PhisPlaced ==
  \A phi \in phis :
    /\ M!StoreBlocks(phi[2]) # {}
    /\ \E b \in fn.blocks : Sets(b, phi[2]) /\ phi[1] \in dom_frontier[b]

IsRenamed(b, i) == Renamed(fn, dom_tree_succ, calls, b, i)
IsFilled(b, k) == Filled(fn, dom_tree_succ, calls, b, k)

\* A variable has a stack as soon as a store or a phi of it has been renamed, and
\* only if it is stored to.
KeysMade ==
  /\ \A v \in DOMAIN var_val_stack : M!StoreBlocks(v) # {}
  /\ \A phi \in phis : IsRenamed(phi[1], 0) => phi[2] \in DOMAIN var_val_stack
  /\ \A id \in M!InstrsOf("store", Locals) :
       IsRenamed(id[1], id[2]) => id \in deleted /\ M!At(id).var \in DOMAIN var_val_stack

LoadsGone ==
  \A id \in M!InstrsOf("load", Locals) :
    IsRenamed(id[1], id[2]) /\ M!StoredFirst(M!At(id).var) => id \in deleted

\* One pair for a phi and a predecessor, added when the predecessor's edges were
\* filled; and there is one if a dominator of the predecessor sets the variable.
PairsMade ==
  /\ \A p, q \in pairs : p.at = q.at /\ p.from = q.from => p = q
  /\ \A p \in pairs : \E k \in DOMAIN fn.succ[p.from] :
       fn.succ[p.from][k] = p.at[1] /\ IsFilled(p.from, k)
  /\ \A phi \in phis : \A b \in Reachable(fn) : \A k \in DOMAIN fn.succ[b] :
       /\ fn.succ[b][k] = phi[1] /\ IsFilled(b, k)
       /\ \E a \in fn.blocks : Sets(a, phi[2]) /\ Dominates(fn, a, b)
       => \E p \in pairs : p.at = phi /\ p.from = b

\* While the edges of a block are filled its newest values stay what they are.
PairsFresh ==
  M!Renaming("successors") =>
    \A p \in pairs : p.from = M!TopRename.bb =>
      p.at[2] \in DOMAIN var_val_stack /\ p.val = M!Newest(p.at[2])

\* What the active calls have pushed is what is on the stacks.
Sums(cs, v, g) ==
  /\ g \in [0 .. Len(cs) -> Nat] /\ g[0] = 0
  /\ \A n \in 1 .. Len(cs) : g[n] = g[n - 1] + M!Done(cs[n], v)

Height(v) == IF v \in DOMAIN var_val_stack THEN Len(var_val_stack[v]) ELSE 0

Balanced ==
  \A v \in Locals : \E g : Sums(calls, v, g) /\ g[Len(calls)] = Height(v)

RenameInv ==
  /\ PassTyped /\ CallsNested(fn, dom_tree_succ, calls)
  /\ PhisPlaced /\ KeysMade /\ LoadsGone /\ PairsMade /\ PairsFresh /\ Balanced

Mem2RegInv ==
  /\ stage \in M!Stages
  /\ stage # "off" => Built /\ Given(fn, dom_frontier, dom_tree_succ)
  /\ stage \in {"off", "place"} =>
       /\ phis = {} /\ pairs = {} /\ var_val_stack = <<>> /\ calls = <<>> /\ deleted = {}
  /\ stage \notin {"off", "place"} => RenameInv
  /\ stage \in {"remove", "promoted"} => calls = <<>>
  /\ FailsOnlyOnUnstored

PromotionInv == Mem2RegInv /\ (stage = "off" => Inv /\ Scoping /\ EntryInv)

-----------------------------------------------------------------------------
(* Instructions, and what a call has pushed.                               *)

LEMMA InstrFacts ==
  ASSUME WellFormed(fn)
  PROVE  /\ \A b \in fn.blocks : /\ fn.code[b] \in Seq(Instr) /\ Len(fn.code[b]) \in Nat
                                 /\ DOMAIN fn.code[b] = 1 .. Len(fn.code[b])
                                 /\ b \in Nat \ {0}
         /\ \A op, vars, b, i : <<b, i>> \in M!InstrsOf(op, vars) <=>
              /\ b \in fn.blocks /\ i \in DOMAIN fn.code[b]
              /\ fn.code[b][i].op = op /\ fn.code[b][i].var \in vars
         /\ \A op, vars : \A id \in M!InstrsOf(op, vars) :
              id = <<id[1], id[2]>> /\ M!At(id) = fn.code[id[1]][id[2]]
<1>1. ASSUME NEW b \in fn.blocks
      PROVE  /\ fn.code[b] \in Seq(Instr) /\ Len(fn.code[b]) \in Nat
             /\ DOMAIN fn.code[b] = 1 .. Len(fn.code[b]) /\ b \in Nat \ {0}
  <2>1. fn.code \in Seq(Seq(Instr)) /\ b \in 1 .. Len(fn.code)
    BY DEF WellFormed, FunctionType
  <2>2. fn.code[b] \in Seq(Instr) /\ b \in Nat \ {0}
    BY <2>1
  <2> HIDE DEF Instr
  <2> QED BY <2>2
<1>2. ASSUME NEW op, NEW vars, NEW b, NEW i
      PROVE  <<b, i>> \in M!InstrsOf(op, vars) <=>
              /\ b \in fn.blocks /\ i \in DOMAIN fn.code[b]
              /\ fn.code[b][i].op = op /\ fn.code[b][i].var \in vars
  BY DEF M!InstrsOf, M!At
<1>3. ASSUME NEW op, NEW vars, NEW id \in M!InstrsOf(op, vars)
      PROVE  id = <<id[1], id[2]>> /\ M!At(id) = fn.code[id[1]][id[2]]
  BY DEF M!InstrsOf, M!At
<1> QED BY <1>1, <1>2, <1>3

\* The stores of b to v among its first k instructions.
StoresUpTo(b, v, k) ==
  {i \in 1 .. k : fn.code[b][i].op = "store" /\ fn.code[b][i].var = v}

LEMMA StoresUpToFacts ==
  ASSUME NEW b, NEW v
  PROVE  /\ Cardinality(StoresUpTo(b, v, 0)) = 0
         /\ \A k \in Nat : Cardinality(StoresUpTo(b, v, k)) \in Nat
         /\ \A k \in Nat : Cardinality(StoresUpTo(b, v, k + 1)) = Cardinality(StoresUpTo(b, v, k)) +
              (IF fn.code[b][k + 1].op = "store" /\ fn.code[b][k + 1].var = v THEN 1 ELSE 0)
<1>1. ASSUME NEW k \in Nat
      PROVE  IsFiniteSet(StoresUpTo(b, v, k)) /\ Cardinality(StoresUpTo(b, v, k)) \in Nat
  <2>1. IsFiniteSet(1 .. k) /\ StoresUpTo(b, v, k) \subseteq 1 .. k
    BY FS_Interval DEF StoresUpTo
  <2> QED BY <2>1, FS_Subset, FS_CardinalityType
<1>2. StoresUpTo(b, v, 0) = {}
  BY DEF StoresUpTo
<1>3. ASSUME NEW k \in Nat, fn.code[b][k + 1].op = "store" /\ fn.code[b][k + 1].var = v
      PROVE  Cardinality(StoresUpTo(b, v, k + 1)) = Cardinality(StoresUpTo(b, v, k)) + 1
  <2>1. StoresUpTo(b, v, k + 1) = StoresUpTo(b, v, k) \cup {k + 1} /\ k + 1 \notin StoresUpTo(b, v, k)
    BY <1>3 DEF StoresUpTo
  <2> QED BY <1>1, <2>1, FS_AddElement
<1>4. ASSUME NEW k \in Nat, ~(fn.code[b][k + 1].op = "store" /\ fn.code[b][k + 1].var = v)
      PROVE  StoresUpTo(b, v, k + 1) = StoresUpTo(b, v, k)
  BY <1>4 DEF StoresUpTo
<1>5. ASSUME NEW k \in Nat
      PROVE  Cardinality(StoresUpTo(b, v, k + 1)) = Cardinality(StoresUpTo(b, v, k)) +
              (IF fn.code[b][k + 1].op = "store" /\ fn.code[b][k + 1].var = v THEN 1 ELSE 0)
  BY <1>1, <1>3, <1>4
<1> QED BY <1>1, <1>2, <1>5, FS_EmptySet

LEMMA StoredIsAll ==
  ASSUME WellFormed(fn), NEW b \in fn.blocks, NEW v
  PROVE  M!Stored(v, b) = Cardinality(StoresUpTo(b, v, Len(fn.code[b])))
<1> DEFINE k == Len(fn.code[b])
           T == StoresUpTo(b, v, k)
           S == {id \in M!InstrsOf("store", {v}) : id[1] = b}
           h == [i \in T |-> <<b, i>>]
<1>1. M!Stored(v, b) = Cardinality(S)
  BY SameGraphs DEF M!Stored
<1>2. k \in Nat /\ DOMAIN fn.code[b] = 1 .. k
  BY InstrFacts
<1>3. IsFiniteSet(T)
  <2>1. IsFiniteSet(1 .. k) /\ T \subseteq 1 .. k
    BY <1>2, FS_Interval DEF StoresUpTo
  <2> QED BY <2>1, FS_Subset
<1>4. S = {<<b, i>> : i \in T}
  <2>1. ASSUME NEW id \in S PROVE \E i \in T : id = <<b, i>>
    <3>1. id[2] \in T /\ id = <<b, id[2]>>
      BY <1>2, InstrFacts DEF StoresUpTo
    <3> QED BY <3>1
  <2>2. ASSUME NEW i \in T PROVE <<b, i>> \in S
    <3>1. i \in DOMAIN fn.code[b] /\ fn.code[b][i].op = "store" /\ fn.code[b][i].var \in {v}
      BY <1>2 DEF StoresUpTo
    <3>2. <<b, i>> \in M!InstrsOf("store", {v})
      BY <3>1, InstrFacts
    <3> QED BY <3>2
  <2> QED BY <2>1, <2>2
<1> HIDE DEF T
<1>5. h \in Bijection(T, S)
  BY <1>4 DEF Bijection, Injection, Surjection, IsInjective
<1> HIDE DEF h, S
<1>6. Cardinality(T) = Cardinality(S)
  <2>1. ExistsBijection(T, S)
    BY <1>5 DEF ExistsBijection
  <2> QED BY <1>3, <2>1, FS_Bijection
<1> QED BY <1>1, <1>6 DEF T, k

LEMMA DoneFacts ==
  ASSUME WellFormed(fn), NEW fr \in CallFrame(fn), NEW v, fr.bb \in fn.blocks
  PROVE  /\ M!HasPhi(v, fr.bb) \in {0, 1}
         /\ M!Stored(v, fr.bb) \in Nat
         /\ M!Done(fr, v) \in Nat
         /\ fr.pc = "phis" => M!Done(fr, v) = 0
         /\ fr.pc = "instrs" =>
              M!Done(fr, v) = Cardinality(StoresUpTo(fr.bb, v, fr.pos - 1)) + M!HasPhi(v, fr.bb)
         /\ fr.pc \in {"successors", "children"} =>
              M!Done(fr, v) = M!Stored(v, fr.bb) + M!HasPhi(v, fr.bb)
<1>1. M!HasPhi(v, fr.bb) \in {0, 1}
  BY DEF M!HasPhi
<1>2. M!Stored(v, fr.bb) \in Nat
  <2>1. Len(fn.code[fr.bb]) \in Nat
    BY InstrFacts
  <2>2. M!Stored(v, fr.bb) = Cardinality(StoresUpTo(fr.bb, v, Len(fn.code[fr.bb])))
    BY StoredIsAll
  <2>3. Cardinality(StoresUpTo(fr.bb, v, Len(fn.code[fr.bb]))) \in Nat
    BY <2>1, StoresUpToFacts
  <2> QED BY <2>2, <2>3
<1>3. fr.pc \in {"phis", "instrs", "successors", "children"} /\ fr.pos \in Nat \ {0}
  BY DEF CallFrame
<1>4. fr.pc = "phis" => M!Done(fr, v) = 0
  BY DEF M!Done
<1>5. fr.pc = "instrs" =>
        M!Done(fr, v) = Cardinality(StoresUpTo(fr.bb, v, fr.pos - 1)) + M!HasPhi(v, fr.bb)
  BY SameGraphs DEF M!Done, StoresUpTo
<1>6. fr.pc \in {"successors", "children"} =>
        M!Done(fr, v) = M!Stored(v, fr.bb) + M!HasPhi(v, fr.bb)
  BY DEF M!Done
<1>7. fr.pc = "instrs" => M!Done(fr, v) \in Nat
  <2>1. fr.pos - 1 \in Nat
    BY <1>3
  <2>2. Cardinality(StoresUpTo(fr.bb, v, fr.pos - 1)) \in Nat
    BY <2>1, StoresUpToFacts
  <2> QED BY <1>1, <1>5, <2>2
<1>8. M!Done(fr, v) \in Nat
  BY <1>1, <1>2, <1>3, <1>4, <1>6, <1>7
<1> QED BY <1>1, <1>2, <1>4, <1>5, <1>6, <1>8

-----------------------------------------------------------------------------
(* The renaming only reads the function, the results of Dominators and the *)
(* phis.                                                                   *)

Reading == UNCHANGED <<fn, dom_frontier, dom_tree_succ, phis>>

LEMMA SameProgram ==
  ASSUME Reading
  PROVE  /\ \A op, vars : M!InstrsOf(op, vars)' = M!InstrsOf(op, vars)
         /\ \A id : M!At(id)' = M!At(id)
         /\ \A v : M!StoreBlocks(v)' = M!StoreBlocks(v)
         /\ \A v : M!StoredFirst(v)' <=> M!StoredFirst(v)
         /\ \A fr, v : M!Done(fr, v)' = M!Done(fr, v)
         /\ \A b, v : Sets(b, v)' <=> Sets(b, v)
         /\ Accessed' = Accessed
         /\ PhisPlaced' <=> PhisPlaced
<1>1. /\ \A op, vars : M!InstrsOf(op, vars)' = M!InstrsOf(op, vars)
      /\ \A id : M!At(id)' = M!At(id)
  BY DEF Reading, M!InstrsOf, M!At
<1>2. \A v : M!StoreBlocks(v)' = M!StoreBlocks(v)
  BY <1>1 DEF M!StoreBlocks
<1>3. \A v : M!StoredFirst(v)' <=> M!StoredFirst(v)
  BY <1>1 DEF M!StoredFirst
<1>4. \A v, b : M!Stored(v, b)' = M!Stored(v, b) /\ M!HasPhi(v, b)' = M!HasPhi(v, b)
  BY <1>1 DEF M!Stored, M!HasPhi, Reading
<1>5. \A fr, v : M!Done(fr, v)' = M!Done(fr, v)
  BY <1>4 DEF M!Done, Reading
<1>6. \A b, v : Sets(b, v)' <=> Sets(b, v)
  BY <1>2 DEF Sets, Reading
<1>7. Accessed' = Accessed
  BY <1>1 DEF Accessed
<1>8. PhisPlaced' <=> PhisPlaced
  BY <1>2, <1>6 DEF PhisPlaced, Reading
<1> QED BY <1>1, <1>2, <1>3, <1>5, <1>6, <1>7, <1>8

\* The facts a step of the renaming starts from.
Ready ==
  /\ Built /\ Given(fn, dom_frontier, dom_tree_succ)
  /\ RenameInv /\ stage = "rename"

LEMMA TopCallFacts ==
  ASSUME Ready, calls # <<>>
  PROVE  /\ WellFormed(fn) /\ FlowGraph(fn) /\ TreeOf(fn, dom_tree_succ)
         /\ CallsNested(fn, dom_tree_succ, calls)
         /\ Len(calls) \in Nat \ {0} /\ Len(calls) \in 1 .. Len(calls)
         /\ \A i \in 1 .. Len(calls) : calls[i] \in CallFrame(fn) /\ calls[i].bb \in fn.blocks
         /\ M!TopRename = calls[Len(calls)] /\ M!TopRename \in CallFrame(fn)
         /\ M!TopRename.bb \in Reachable(fn) /\ M!TopRename.bb \in fn.blocks
         /\ M!TopRename.pos \in Nat \ {0}
         /\ M!TopRename.todo \subseteq dom_tree_succ[M!TopRename.bb]
         /\ M!TopRename.pc = "instrs" => M!TopRename.pos <= Len(fn.code[M!TopRename.bb]) + 1
<1>1. WellFormed(fn) /\ FlowGraph(fn) /\ TreeOf(fn, dom_tree_succ)
  BY DEF Ready, Given
<1>2. CallsNested(fn, dom_tree_succ, calls)
  BY DEF Ready, RenameInv
<1>3. calls \in Seq(CallFrame(fn))
  BY <1>2 DEF CallsNested
<1> DEFINE R == CallFrame(fn)
<1> HIDE DEF R
<1>4. Len(calls) \in Nat \ {0} /\ Len(calls) \in 1 .. Len(calls) /\ \A i \in 1 .. Len(calls) : calls[i] \in R
  BY <1>3 DEF R
<1>5. \A i \in 1 .. Len(calls) : calls[i].bb \in Reachable(fn)
  BY <1>4 DEF R, CallFrame
<1>6. Reachable(fn) \subseteq fn.blocks
  BY <1>1, ReachableFacts
<1>7. M!TopRename = calls[Len(calls)]
  BY DEF M!TopRename
<1>8. M!TopRename \in CallFrame(fn)
  BY <1>4, <1>7 DEF R
<1>9. M!TopRename.bb \in Reachable(fn) /\ M!TopRename.pos \in Nat \ {0}
  BY <1>8 DEF CallFrame
<1>10. /\ M!TopRename.todo \subseteq dom_tree_succ[M!TopRename.bb]
       /\ M!TopRename.pc = "instrs" => M!TopRename.pos <= Len(fn.code[M!TopRename.bb]) + 1
  BY <1>2, <1>4, <1>7 DEF CallsNested
<1>11. \A i \in 1 .. Len(calls) : calls[i] \in CallFrame(fn) /\ calls[i].bb \in fn.blocks
  BY <1>4, <1>5, <1>6 DEF R
<1>12. M!TopRename.bb \in fn.blocks
  BY <1>6, <1>9
<1> QED BY <1>1, <1>2, <1>4, <1>7, <1>8, <1>9, <1>10, <1>11, <1>12

\* The frame of the call on top after GoOn.
Onward(pc, pos_, todo) == [M!TopRename EXCEPT !.pc = pc, !.pos = pos_, !.todo = todo]

LEMMA TopGoesOn ==
  ASSUME Ready, calls # <<>>, Reading, NEW pc \in {"phis", "instrs", "successors", "children"},
         NEW k \in Nat \ {0}, NEW todo, M!GoOn(pc, k, todo),
         todo \subseteq dom_tree_succ[M!TopRename.bb],
         pc = "children" => todo = dom_tree_succ[M!TopRename.bb],
         M!TopRename.pc # "children",
         pc = "instrs" => k <= Len(fn.code[M!TopRename.bb]) + 1
  PROVE  LET n == Len(calls)
             fr == Onward(pc, k, todo)
             bb == M!TopRename.bb
         IN  /\ fr \in CallFrame(fn) /\ fr.bb = bb /\ fr.pc = pc /\ fr.pos = k
             /\ CallsNested(fn, dom_tree_succ, calls)'
             /\ Len(calls') = n /\ calls' # <<>> /\ calls'[n] = fr
             /\ \A i \in 1 .. n : i # n => calls'[i] = calls[i]
             /\ M!TopRename' = fr
             /\ bb \in Reachable(fn) \ Awaits(fn, dom_tree_succ, calls)
             /\ \A i : IsRenamed(bb, i) <=> InstrBehind(M!TopRename, i)
             /\ \A b, i : b = bb => (IsRenamed(b, i)' <=> InstrBehind(fr, i))
             /\ \A b, i : b # bb => (IsRenamed(b, i)' <=> IsRenamed(b, i))
             /\ \A i : IsFilled(bb, i) <=> EdgeBehind(M!TopRename, i)
             /\ \A b, i : b = bb => (IsFilled(b, i)' <=> EdgeBehind(fr, i))
             /\ \A b, i : b # bb => (IsFilled(b, i)' <=> IsFilled(b, i))
<1> DEFINE n == Len(calls)
           fr == Onward(pc, k, todo)
           bb == M!TopRename.bb
           ds == [calls EXCEPT ![n] = fr]
<1>1. /\ CallsNested(fn, dom_tree_succ, calls) /\ M!TopRename = calls[n]
      /\ M!TopRename \in CallFrame(fn) /\ M!TopRename.bb \in Reachable(fn)
      /\ M!TopRename.bb \in fn.blocks /\ TreeOf(fn, dom_tree_succ)
  BY TopCallFacts
<1>2. todo \subseteq Reachable(fn)
  BY <1>1 DEF TreeOf
<1>3. fr \in CallFrame(fn) /\ fr.bb = bb /\ fr.pc = pc /\ fr.pos = k /\ fr.todo = todo
  BY <1>1, <1>2 DEF CallFrame, Onward
<1>4. Rest(dom_tree_succ, fr) = Rest(dom_tree_succ, calls[n])
  BY <1>1, <1>3 DEF Rest
<1>5. calls' = ds /\ fn' = fn /\ dom_tree_succ' = dom_tree_succ
  <2>1. calls' = [calls EXCEPT ![n] = [@ EXCEPT !.pc = pc, !.pos = k, !.todo = todo]]
    BY DEF M!GoOn
  <2>2. fr = [calls[n] EXCEPT !.pc = pc, !.pos = k, !.todo = todo]
    BY <1>1 DEF Onward
  <2> QED BY <2>1, <2>2 DEF Reading
<1> HIDE DEF fr
<1>6. /\ CallsNested(fn, dom_tree_succ, ds)
      /\ Len(ds) = n /\ ds # <<>> /\ ds[n] = fr
      /\ \A i \in 1 .. n : i # n => ds[i] = calls[i]
      /\ bb \in Reachable(fn) \ Awaits(fn, dom_tree_succ, calls)
      /\ \A i : Renamed(fn, dom_tree_succ, calls, bb, i) <=> InstrBehind(M!TopRename, i)
      /\ \A i : Renamed(fn, dom_tree_succ, ds, bb, i) <=> InstrBehind(fr, i)
      /\ \A b, i : b # bb =>
           (Renamed(fn, dom_tree_succ, ds, b, i) <=> Renamed(fn, dom_tree_succ, calls, b, i))
      /\ \A i : Filled(fn, dom_tree_succ, calls, bb, i) <=> EdgeBehind(M!TopRename, i)
      /\ \A i : Filled(fn, dom_tree_succ, ds, bb, i) <=> EdgeBehind(fr, i)
      /\ \A b, i : b # bb =>
           (Filled(fn, dom_tree_succ, ds, b, i) <=> Filled(fn, dom_tree_succ, calls, b, i))
  <2>1. /\ fr.bb = calls[Len(calls)].bb /\ fr.todo \subseteq dom_tree_succ[fr.bb]
        /\ fr.pc = "instrs" => fr.pos <= Len(fn.code[fr.bb]) + 1
    BY <1>1, <1>3
  <2>2. CallsNested(fn, dom_tree_succ, calls) /\ fr \in CallFrame(fn)
    BY <1>1, <1>3
  <2> DEFINE es == [calls EXCEPT ![Len(calls)] = fr]
  <2> HIDE DEF bb, fr
  <2>3. CallsNested(fn, dom_tree_succ, es)
    BY <1>4, <2>1, <2>2, CallGoesOn
  <2>4. Len(es) = Len(calls) /\ es # <<>> /\ es[Len(calls)] = fr
    BY <1>4, <2>1, <2>2, CallGoesOn
  <2>5. \A i \in 1 .. Len(calls) : i # Len(calls) => es[i] = calls[i]
    BY <1>4, <2>1, <2>2, CallGoesOn
  <2>6. fr.bb \in Reachable(fn) \ Awaits(fn, dom_tree_succ, calls)
    BY <1>4, <2>1, <2>2, CallGoesOn
  <2>7. \A i : Renamed(fn, dom_tree_succ, calls, fr.bb, i) <=> InstrBehind(calls[Len(calls)], i)
    BY <1>4, <2>1, <2>2, CallGoesOn
  <2>8. \A i : Renamed(fn, dom_tree_succ, es, fr.bb, i) <=> InstrBehind(fr, i)
    BY <1>4, <2>1, <2>2, CallGoesOn
  <2>9. \A b, i : b # fr.bb =>
             (Renamed(fn, dom_tree_succ, es, b, i) <=> Renamed(fn, dom_tree_succ, calls, b, i))
    BY <1>4, <2>1, <2>2, CallGoesOn
  <2>10. \A i : Filled(fn, dom_tree_succ, calls, fr.bb, i) <=> EdgeBehind(calls[Len(calls)], i)
    BY <1>4, <2>1, <2>2, CallGoesOn
  <2>11. \A i : Filled(fn, dom_tree_succ, es, fr.bb, i) <=> EdgeBehind(fr, i)
    BY <1>4, <2>1, <2>2, CallGoesOn
  <2>12. \A b, i : b # fr.bb =>
             (Filled(fn, dom_tree_succ, es, b, i) <=> Filled(fn, dom_tree_succ, calls, b, i))
    BY <1>4, <2>1, <2>2, CallGoesOn
  <2> QED BY <1>1, <1>3, <2>3, <2>4, <2>5, <2>6, <2>7, <2>8, <2>9, <2>10, <2>11, <2>12 DEF bb
<1>7. M!TopRename' = fr
  BY <1>5, <1>6 DEF M!TopRename
<1> HIDE DEF ds
<1>8. CallsNested(fn, dom_tree_succ, calls)'
  <2>1. CallsNested(fn', dom_tree_succ', calls')
    BY <1>5, <1>6
  <2> QED BY <2>1
<1>9. /\ \A b, i : IsRenamed(b, i)' <=> Renamed(fn, dom_tree_succ, ds, b, i)
      /\ \A b, i : IsFilled(b, i)' <=> Filled(fn, dom_tree_succ, ds, b, i)
  BY <1>5 DEF IsRenamed, IsFilled
<1>10. /\ \A i : IsRenamed(bb, i) <=> InstrBehind(M!TopRename, i)
       /\ \A b, i : b = bb => (IsRenamed(b, i)' <=> InstrBehind(fr, i))
       /\ \A b, i : b # bb => (IsRenamed(b, i)' <=> IsRenamed(b, i))
  <2>1. \A b, i : IsRenamed(b, i) <=> Renamed(fn, dom_tree_succ, calls, b, i)
    BY DEF IsRenamed
  <2> HIDE DEF bb
  <2>2. \A b, i : b = bb => (IsRenamed(b, i)' <=> InstrBehind(fr, i))
    BY <1>6, <1>9, Zenon
  <2>3. \A b, i : b # bb => (IsRenamed(b, i)' <=> IsRenamed(b, i))
    BY <1>6, <1>9, <2>1, Zenon
  <2> QED BY <1>6, <2>1, <2>2, <2>3
<1>11. /\ \A i : IsFilled(bb, i) <=> EdgeBehind(M!TopRename, i)
       /\ \A b, i : b = bb => (IsFilled(b, i)' <=> EdgeBehind(fr, i))
       /\ \A b, i : b # bb => (IsFilled(b, i)' <=> IsFilled(b, i))
  <2>1. \A b, i : IsFilled(b, i) <=> Filled(fn, dom_tree_succ, calls, b, i)
    BY DEF IsFilled
  <2> HIDE DEF bb
  <2>2. \A b, i : b = bb => (IsFilled(b, i)' <=> EdgeBehind(fr, i))
    BY <1>6, <1>9, Zenon
  <2>3. \A b, i : b # bb => (IsFilled(b, i)' <=> IsFilled(b, i))
    BY <1>6, <1>9, <2>1, Zenon
  <2> QED BY <1>6, <2>1, <2>2, <2>3
<1> QED BY <1>3, <1>5, <1>6, <1>7, <1>8, <1>10, <1>11 DEF fr

LEMMA DoneLater ==
  ASSUME Reading, NEW e, NEW v, NEW i, calls'[i] = e
  PROVE  M!Done(calls[i], v)' = M!Done(e, v)
BY DEF Reading, M!Done, M!Stored, M!HasPhi, M!InstrsOf, M!At

LEMMA HeightFacts ==
  ASSUME PassTyped, NEW v
  PROVE  /\ Height(v) \in Nat
         /\ v \in DOMAIN var_val_stack => Height(v) = Len(var_val_stack[v])
         /\ v \notin DOMAIN var_val_stack => Height(v) = 0
<1> DEFINE R == Values
<1>1. \A w \in DOMAIN var_val_stack : var_val_stack[w] \in Seq(R)
  BY DEF PassTyped
<1> HIDE DEF R
<1>2. \A w \in DOMAIN var_val_stack : Len(var_val_stack[w]) \in Nat
  BY <1>1
<1> QED BY <1>2 DEF Height

\* What the top call has pushed changes by as much as the stacks do.
LEMMA BalanceGoesOn ==
  ASSUME Ready, calls # <<>>, Reading, Len(calls') = Len(calls),
         \A i \in 1 .. Len(calls) : i # Len(calls) => calls'[i] = calls[i],
         NEW fr \in CallFrame(fn), calls'[Len(calls)] = fr, fr.bb \in fn.blocks,
         \A v \in Locals : Height(v)' + M!Done(M!TopRename, v) = Height(v) + M!Done(fr, v),
         \A v \in Locals : Height(v)' \in Nat
  PROVE  Balanced'
<1> SUFFICES ASSUME NEW v \in Locals PROVE (\E g : Sums(calls, v, g) /\ g[Len(calls)] = Height(v))'
  BY DEF Balanced
<1> DEFINE n == Len(calls)
<1>1. /\ n \in Nat \ {0} /\ n \in 1 .. n /\ M!TopRename = calls[n] /\ WellFormed(fn)
      /\ \A i \in 1 .. n : calls[i] \in CallFrame(fn) /\ calls[i].bb \in fn.blocks
  BY TopCallFacts
<1>2. PICK g : Sums(calls, v, g) /\ g[n] = Height(v)
  BY DEF Ready, RenameInv, Balanced
<1>3. M!Done(calls[n], v) \in Nat /\ M!Done(fr, v) \in Nat
  BY <1>1, DoneFacts
<1>4. Height(v) \in Nat
  BY HeightFacts DEF Ready, RenameInv
<1>5. Height(v)' + M!Done(calls[n], v) = Height(v) + M!Done(fr, v) /\ Height(v)' \in Nat
  BY <1>1
<1>6. /\ g \in [0 .. n -> Nat] /\ g[0] = 0 /\ \A i \in 1 .. n : g[i] = g[i - 1] + M!Done(calls[i], v)
  BY <1>2 DEF Sums
<1> HIDE DEF n
<1>7. n - 1 \in 0 .. n /\ n \in 0 .. n /\ g[n - 1] \in Nat /\ g[n] = g[n - 1] + M!Done(calls[n], v)
  BY <1>1, <1>6
<1>8. Height(v)' = g[n - 1] + M!Done(fr, v)
  BY <1>2, <1>3, <1>4, <1>5, <1>7
<1>9. PICK h : h = [g EXCEPT ![n] = g[n - 1] + M!Done(fr, v)]
  OBVIOUS
<1>10. /\ h \in [0 .. n -> Nat] /\ h[n] = g[n - 1] + M!Done(fr, v)
      /\ \A i \in 0 .. n : i # n => h[i] = g[i]
  BY <1>3, <1>6, <1>7, <1>9
<1>11. n' = n
  BY DEF n
<1>12. ASSUME NEW i \in 1 .. n, i # n PROVE M!Done(calls[i], v)' = M!Done(calls[i], v)
  <2>1. calls'[i] = calls[i]
    BY <1>12 DEF n
  <2> QED BY <2>1, DoneLater
<1>13. ASSUME NEW i \in 1 .. n, i = n PROVE M!Done(calls[i], v)' = M!Done(fr, v)
  <2>1. calls'[i] = fr
    BY <1>13 DEF n
  <2> QED BY <2>1, DoneLater
<1>14. Sums(calls, v, h)'
  <2> SUFFICES /\ h \in [0 .. n -> Nat] /\ h[0] = 0
               /\ \A i \in 1 .. n : h[i] = h[i - 1] + M!Done(calls[i], v)'
    BY <1>11 DEF Sums, n
  <2>1. h[0] = 0
    BY <1>1, <1>6, <1>10
  <2>2. ASSUME NEW i \in 1 .. n PROVE h[i] = h[i - 1] + M!Done(calls[i], v)'
    <3>1. i - 1 \in 0 .. n /\ i - 1 # n /\ i \in 0 .. n
      BY <1>1
    <3>2. CASE i = n
      BY <1>10, <1>13, <3>1, <3>2
    <3>3. CASE i # n
      BY <1>6, <1>10, <1>12, <3>1, <3>3
    <3> QED BY <3>2, <3>3
  <2> QED BY <1>10, <2>1, <2>2
<1>15. (h[Len(calls)] = Height(v))'
  BY <1>8, <1>10 DEF n
<1> QED BY <1>14, <1>15

-----------------------------------------------------------------------------
(* What keeps each part of the invariant.                                  *)

LEMMA KeysKept ==
  ASSUME KeysMade, Reading, deleted \subseteq deleted',
         DOMAIN var_val_stack \subseteq DOMAIN var_val_stack',
         \A v \in DOMAIN var_val_stack' : M!StoreBlocks(v) # {},
         \A phi \in phis : IsRenamed(phi[1], 0)' =>
           IsRenamed(phi[1], 0) \/ phi[2] \in DOMAIN var_val_stack',
         \A id \in M!InstrsOf("store", Locals) : IsRenamed(id[1], id[2])' =>
           IsRenamed(id[1], id[2]) \/ (id \in deleted' /\ M!At(id).var \in DOMAIN var_val_stack')
  PROVE  KeysMade'
<1>1. \A v \in DOMAIN var_val_stack' : M!StoreBlocks(v)' # {}
  BY SameProgram
<1>2. ASSUME NEW phi \in phis', IsRenamed(phi[1], 0)' PROVE phi[2] \in DOMAIN var_val_stack'
  BY <1>2 DEF KeysMade, Reading
<1>3. ASSUME NEW id \in M!InstrsOf("store", Locals)', IsRenamed(id[1], id[2])'
      PROVE  id \in deleted' /\ M!At(id)'.var \in DOMAIN var_val_stack'
  <2>1. id \in M!InstrsOf("store", Locals) /\ M!At(id)' = M!At(id)
    BY SameProgram
  <2> QED BY <1>3, <2>1 DEF KeysMade
<1> QED BY <1>1, <1>2, <1>3 DEF KeysMade

LEMMA LoadsKept ==
  ASSUME LoadsGone, Reading, deleted \subseteq deleted',
         \A id \in M!InstrsOf("load", Locals) :
           IsRenamed(id[1], id[2])' /\ M!StoredFirst(M!At(id).var) =>
             IsRenamed(id[1], id[2]) \/ id \in deleted'
  PROVE  LoadsGone'
<1> SUFFICES ASSUME NEW id \in M!InstrsOf("load", Locals)',
                    IsRenamed(id[1], id[2])', M!StoredFirst(M!At(id).var)'
             PROVE  id \in deleted'
  BY DEF LoadsGone
<1>1. id \in M!InstrsOf("load", Locals) /\ M!At(id)' = M!At(id)
  BY SameProgram
<1>2. ASSUME NEW v, v = M!At(id).var PROVE M!StoredFirst(v)
  <2>1. M!StoredFirst(v)'
    BY <1>1, <1>2 DEF M!StoredFirst
  <2> QED BY <2>1, SameProgram
<1> QED BY <1>1, <1>2 DEF LoadsGone

\* Pairs keep their phi and their predecessor.
LEMMA PairsKept ==
  ASSUME PairsMade, Reading, NEW h, pairs' = {h[p] : p \in pairs},
         \A p \in pairs : h[p].at = p.at /\ h[p].from = p.from,
         \A b \in Reachable(fn), k \in Nat : k \in DOMAIN fn.succ[b] =>
           (IsFilled(b, k)' <=> IsFilled(b, k)),
         \A b \in Reachable(fn) : DOMAIN fn.succ[b] \subseteq Nat,
         \A p \in pairs : p.from \in Reachable(fn)
  PROVE  PairsMade'
<1>1. \A p, q \in pairs' : p.at = q.at /\ p.from = q.from => p = q
  BY DEF PairsMade
<1>2. ASSUME NEW p \in pairs'
      PROVE  \E k \in DOMAIN fn'.succ[p.from] : fn'.succ[p.from][k] = p.at[1] /\ IsFilled(p.from, k)'
  <2>1. PICK q \in pairs : p = h[q]
    OBVIOUS
  <2>2. q.at = p.at /\ q.from = p.from /\ p.from \in Reachable(fn)
    BY <2>1
  <2>3. PICK k \in DOMAIN fn.succ[p.from] : fn.succ[p.from][k] = p.at[1] /\ IsFilled(p.from, k)
    BY <2>2 DEF PairsMade
  <2>4. IsFilled(p.from, k)'
    BY <2>2, <2>3
  <2> QED BY <2>3, <2>4 DEF Reading
<1>3. ASSUME NEW phi \in phis', NEW b \in Reachable(fn'), NEW k \in DOMAIN fn'.succ[b],
             fn'.succ[b][k] = phi[1], IsFilled(b, k)',
             \E a \in fn'.blocks : Sets(a, phi[2])' /\ Dominates(fn', a, b)
      PROVE  \E p \in pairs' : p.at = phi /\ p.from = b
  <2>1. phi \in phis /\ b \in Reachable(fn) /\ k \in DOMAIN fn.succ[b] /\ fn.succ[b][k] = phi[1]
    BY <1>3 DEF Reading
  <2>2. \E a \in fn.blocks : Sets(a, phi[2]) /\ Dominates(fn, a, b)
    <3>1. PICK a \in fn'.blocks : Sets(a, phi[2])' /\ Dominates(fn', a, b)
      BY <1>3
    <3>2. Sets(a, phi[2])
      BY <3>1, SameProgram
    <3> QED BY <3>1, <3>2 DEF Reading
  <2>3. IsFilled(b, k)
    BY <1>3, <2>1
  <2>4. \E p \in pairs : p.at = phi /\ p.from = b
    BY <2>1, <2>2, <2>3 DEF PairsMade
  <2> QED BY <2>4
<1> QED BY <1>1, <1>2, <1>3 DEF PairsMade, Reading

LEMMA PairsStay ==
  ASSUME PairsMade, Reading, pairs' = pairs,
         \A b \in Reachable(fn), k \in Nat : k \in DOMAIN fn.succ[b] =>
           (IsFilled(b, k)' <=> IsFilled(b, k)),
         \A b \in Reachable(fn) : DOMAIN fn.succ[b] \subseteq Nat,
         \A p \in pairs : p.from \in Reachable(fn)
  PROVE  PairsMade'
<1>1. PICK h : h = [p \in pairs |-> p]
  OBVIOUS
<1>2. pairs' = {h[p] : p \in pairs} /\ \A p \in pairs : h[p].at = p.at /\ h[p].from = p.from
  BY <1>1
<1> QED BY <1>2, PairsKept

LEMMA TypesStay ==
  ASSUME PassTyped, Reading, UNCHANGED <<operand, var_val_stack, pairs>>
  PROVE  PassTyped'
BY SameProgram DEF PassTyped, Reading

LEMMA EdgeNumbers ==
  ASSUME Ready
  PROVE  /\ \A b \in Reachable(fn) : /\ b \in fn.blocks /\ Len(fn.succ[b]) \in Nat
                                     /\ DOMAIN fn.succ[b] = 1 .. Len(fn.succ[b])
                                     /\ DOMAIN fn.succ[b] \subseteq Nat
         /\ \A p \in pairs : p.at \in phis /\ p.from \in Reachable(fn) /\ p.val \in Values
         /\ \A phi \in phis : /\ phi = <<phi[1], phi[2]>> /\ phi[1] \in fn.blocks
                              /\ phi[2] \in Locals
<1>1. FlowGraph(fn)
  BY DEF Ready, Given
<1>2. Reachable(fn) \subseteq fn.blocks
  BY <1>1, ReachableFacts
<1>3. ASSUME NEW b \in Reachable(fn)
      PROVE  Len(fn.succ[b]) \in Nat /\ DOMAIN fn.succ[b] = 1 .. Len(fn.succ[b])
  BY <1>1, <1>2, FlowFacts
<1>4. \A p \in pairs : p.at \in phis /\ p.from \in Reachable(fn) /\ p.val \in Values
  BY DEF Ready, RenameInv, PassTyped
<1>5. \A phi \in phis : phi = <<phi[1], phi[2]>> /\ phi[1] \in fn.blocks /\ phi[2] \in Locals
  BY DEF Ready, RenameInv, PassTyped
<1> QED BY <1>2, <1>3, <1>4, <1>5

LEMMA OnwardFrame ==
  ASSUME Ready, calls # <<>>, NEW pc \in {"phis", "instrs", "successors", "children"},
         NEW k \in Nat \ {0}, NEW todo, todo \subseteq Reachable(fn)
  PROVE  /\ Onward(pc, k, todo) \in CallFrame(fn)
         /\ Onward(pc, k, todo).bb = M!TopRename.bb
         /\ Onward(pc, k, todo).pc = pc /\ Onward(pc, k, todo).pos = k
         /\ Onward(pc, k, todo).todo = todo
<1>1. M!TopRename \in CallFrame(fn)
  BY TopCallFacts
<1> QED BY <1>1 DEF CallFrame, Onward

LEMMA OnwardEmpty ==
  ASSUME Ready, calls # <<>>, NEW pc \in {"phis", "instrs", "successors", "children"},
         NEW k \in Nat \ {0}
  PROVE  /\ Onward(pc, k, {}) \in CallFrame(fn)
         /\ Onward(pc, k, {}).bb = M!TopRename.bb
         /\ Onward(pc, k, {}).pc = pc /\ Onward(pc, k, {}).pos = k
         /\ Onward(pc, k, {}).todo = {}
<1> DEFINE todo == {}
<1>1. todo \subseteq Reachable(fn) /\ todo = {}
  OBVIOUS
<1> HIDE DEF todo
<1>2. /\ Onward(pc, k, todo) \in CallFrame(fn)
      /\ Onward(pc, k, todo).bb = M!TopRename.bb
      /\ Onward(pc, k, todo).pc = pc /\ Onward(pc, k, todo).pos = k
      /\ Onward(pc, k, todo).todo = todo
  BY <1>1, OnwardFrame
<1> QED BY <1>1, <1>2

\* A step that changes nothing but the place of the call on top, and renames
\* neither a phi nor an access of a local variable.
LEMMA PassingOn ==
  ASSUME Ready, calls # <<>>, Reading, UNCHANGED <<pairs, operand, var_val_stack, deleted>>,
         NEW pc \in {"phis", "instrs", "successors", "children"},
         NEW k \in Nat \ {0}, NEW todo, M!GoOn(pc, k, todo),
         todo \subseteq dom_tree_succ[M!TopRename.bb],
         pc = "children" => todo = dom_tree_succ[M!TopRename.bb],
         M!TopRename.pc \in {"instrs", "successors"},
         pc = "instrs" => k <= Len(fn.code[M!TopRename.bb]) + 1,
         \A id \in M!InstrsOf("load", Locals) \cup M!InstrsOf("store", Locals) :
           id[1] = M!TopRename.bb /\ InstrBehind(Onward(pc, k, todo), id[2])
             => InstrBehind(M!TopRename, id[2]),
         \A i \in DOMAIN fn.succ[M!TopRename.bb] :
           EdgeBehind(Onward(pc, k, todo), i) <=> EdgeBehind(M!TopRename, i),
         pc = "successors" => M!TopRename.pc = "instrs",
         \A v \in Locals : M!Done(Onward(pc, k, todo), v) = M!Done(M!TopRename, v)
  PROVE  RenameInv'
<1> DEFINE bb == M!TopRename.bb
           fr == Onward(pc, k, todo)
           n == Len(calls)
<1>1. /\ fr \in CallFrame(fn) /\ fr.bb = bb /\ fr.pc = pc
      /\ CallsNested(fn, dom_tree_succ, calls)'
      /\ Len(calls') = n /\ calls'[n] = fr
      /\ \A i \in 1 .. n : i # n => calls'[i] = calls[i]
      /\ M!TopRename' = fr
      /\ \A i : IsRenamed(bb, i) <=> InstrBehind(M!TopRename, i)
      /\ \A b, i : b = bb => (IsRenamed(b, i)' <=> InstrBehind(fr, i))
      /\ \A b, i : b # bb => (IsRenamed(b, i)' <=> IsRenamed(b, i))
      /\ \A i : IsFilled(bb, i) <=> EdgeBehind(M!TopRename, i)
      /\ \A b, i : b = bb => (IsFilled(b, i)' <=> EdgeBehind(fr, i))
      /\ \A b, i : b # bb => (IsFilled(b, i)' <=> IsFilled(b, i))
  BY TopGoesOn
<1> HIDE DEF fr, bb
<1>2. /\ PassTyped /\ PhisPlaced /\ KeysMade /\ LoadsGone /\ PairsMade /\ WellFormed(fn)
      /\ bb \in Reachable(fn) /\ bb \in fn.blocks
  BY TopCallFacts DEF Ready, RenameInv, bb
<1>3. PassTyped' /\ PhisPlaced'
  BY <1>2, TypesStay, SameProgram
<1>4. InstrBehind(M!TopRename, 0)
  <2>1. M!TopRename.pos \in Nat \ {0}
    BY TopCallFacts
  <2> QED BY <2>1 DEF InstrBehind
<1>5. KeysMade'
  <2>1. \A phi \in phis : IsRenamed(phi[1], 0)' => IsRenamed(phi[1], 0)
    BY <1>1, <1>4
  <2>2. ASSUME NEW id \in M!InstrsOf("store", Locals), IsRenamed(id[1], id[2])'
        PROVE  IsRenamed(id[1], id[2])
    <3>1. CASE id[1] = bb
      BY <1>1, <2>2, <3>1 DEF fr, bb
    <3> QED BY <1>1, <2>2, <3>1
  <2>3. \A v \in DOMAIN var_val_stack' : M!StoreBlocks(v) # {}
    BY <1>2 DEF KeysMade
  <2> QED BY <1>2, <2>1, <2>2, <2>3, KeysKept
<1>6. LoadsGone'
  <2>1. ASSUME NEW id \in M!InstrsOf("load", Locals), IsRenamed(id[1], id[2])'
        PROVE  IsRenamed(id[1], id[2])
    <3>1. CASE id[1] = bb
      BY <1>1, <2>1, <3>1 DEF fr, bb
    <3> QED BY <1>1, <2>1, <3>1
  <2> QED BY <1>2, <2>1, LoadsKept
<1>7. PairsMade'
  <2>1. ASSUME NEW b \in Reachable(fn), NEW i \in Nat, i \in DOMAIN fn.succ[b]
        PROVE  IsFilled(b, i)' <=> IsFilled(b, i)
    <3>1. CASE b = bb
      BY <1>1, <2>1, <3>1 DEF fr, bb
    <3> QED BY <1>1, <3>1
  <2>2. pairs' = pairs
    OBVIOUS
  <2> QED BY <1>2, <2>1, <2>2, EdgeNumbers, PairsStay
<1>8. PairsFresh'
  <2> SUFFICES ASSUME pc = "successors", NEW p \in pairs, p.from = bb
               PROVE  FALSE
    <3>1. M!TopRename'.bb = bb /\ M!TopRename'.pc = pc
      BY <1>1
    <3> QED BY <3>1 DEF PairsFresh, M!Renaming
  <2>1. PICK i \in DOMAIN fn.succ[p.from] : IsFilled(p.from, i)
    BY <1>2 DEF PairsMade
  <2> QED BY <1>1, <2>1 DEF EdgeBehind
<1>9. Balanced'
  <2>1. ASSUME NEW v \in Locals PROVE Height(v)' = Height(v) /\ Height(v) \in Nat
    BY <1>2, HeightFacts DEF Height
  <2>2. \A v \in Locals : Height(v)' + M!Done(M!TopRename, v) = Height(v) + M!Done(fr, v)
    BY <2>1 DEF fr
  <2> QED BY <1>1, <1>2, <2>1, <2>2, BalanceGoesOn DEF n
<1> QED BY <1>1, <1>3, <1>5, <1>6, <1>7, <1>8, <1>9 DEF RenameInv


LEMMA SkipKeeps ==
  ASSUME Ready, M!SkipInstr
  PROVE  RenameInv'
<1> DEFINE bb == M!TopRename.bb
           k == M!TopRename.pos
           fr == Onward("instrs", k + 1, {})
<1>1. /\ calls # <<>> /\ M!TopRename.pc = "instrs" /\ k <= Len(fn.code[bb])
      /\ (fn.code[bb][k].op \notin {"load", "store"} \/ fn.code[bb][k].var \notin Locals)
      /\ M!GoOn("instrs", k + 1, {}) /\ Reading
      /\ UNCHANGED <<pairs, operand, var_val_stack, deleted>>
  BY DEF M!SkipInstr, M!HasInstr, M!Renaming, M!Current, M!given, Reading
<1>2. /\ M!TopRename \in CallFrame(fn) /\ k \in Nat \ {0} /\ WellFormed(fn)
      /\ bb \in fn.blocks /\ Len(fn.code[bb]) \in Nat /\ bb \in Reachable(fn)
  BY <1>1, TopCallFacts, InstrFacts
<1>3. /\ fr.bb = bb /\ fr.pc = "instrs" /\ fr.pos = k + 1 /\ fr \in CallFrame(fn)
  <2>1. k + 1 \in Nat \ {0} /\ {} \subseteq Reachable(fn)
    BY <1>2
  <2> QED BY <1>1, <2>1, OnwardFrame
<1> HIDE DEF fr
<1>4. ASSUME NEW id \in M!InstrsOf("load", Locals) \cup M!InstrsOf("store", Locals),
             id[1] = bb, InstrBehind(fr, id[2])
      PROVE  InstrBehind(M!TopRename, id[2])
  <2>1. PICK op \in {"load", "store"} : id \in M!InstrsOf(op, Locals)
    OBVIOUS
  <2>2. id = <<id[1], id[2]>>
    BY <1>2, <2>1, InstrFacts
  <2>3. <<id[1], id[2]>> \in M!InstrsOf(op, Locals)
    BY <2>1, <2>2
  <2>4. /\ id[2] \in DOMAIN fn.code[bb] /\ fn.code[bb][id[2]].op = op
        /\ fn.code[bb][id[2]].var \in Locals
    BY <1>2, <1>4, <2>3, InstrFacts
  <2>5. id[2] # k
    BY <1>1, <2>4
  <2>6. id[2] \in Nat
    BY <1>2, <2>4, InstrFacts
  <2>7. id[2] < k + 1
    BY <1>3, <1>4 DEF InstrBehind
  <2>8. id[2] < k
    BY <1>2, <2>5, <2>6, <2>7
  <2> QED BY <1>1, <2>8 DEF InstrBehind
<1>5. \A i \in DOMAIN fn.succ[bb] : EdgeBehind(fr, i) <=> EdgeBehind(M!TopRename, i)
  BY <1>1, <1>3 DEF EdgeBehind
<1>7. ASSUME NEW v \in Locals PROVE M!Done(fr, v) = M!Done(M!TopRename, v)
  <2>1. PICK j \in Nat : k = j + 1
    <3>1. k \in Nat \ {0}
      BY <1>2
    <3> HIDE DEF k
    <3>2. k - 1 \in Nat /\ k = (k - 1) + 1
      BY <3>1
    <3> QED BY <3>2
  <2>2. (k + 1) - 1 = j + 1 /\ k - 1 = j
    BY <2>1
  <2>3. M!Done(fr, v) = Cardinality(StoresUpTo(bb, v, (k + 1) - 1)) + M!HasPhi(v, bb)
    BY <1>2, <1>3, DoneFacts
  <2>4. M!Done(M!TopRename, v) = Cardinality(StoresUpTo(bb, v, k - 1)) + M!HasPhi(v, bb)
    BY <1>1, <1>2, DoneFacts
  <2>5. StoresUpTo(bb, v, j + 1) = StoresUpTo(bb, v, j)
    <3>1. ~(fn.code[bb][j + 1].op = "store" /\ fn.code[bb][j + 1].var = v)
      BY <1>1, <2>1
    <3> QED BY <3>1 DEF StoresUpTo
  <2> QED BY <2>2, <2>3, <2>4, <2>5
<1>8. k + 1 \in Nat \ {0} /\ k + 1 <= Len(fn.code[bb]) + 1
  BY <1>1, <1>2
<1>9. \A id \in M!InstrsOf("load", Locals) \cup M!InstrsOf("store", Locals) :
        id[1] = M!TopRename.bb /\ InstrBehind(Onward("instrs", k + 1, {}), id[2])
             => InstrBehind(M!TopRename, id[2])
  BY <1>4 DEF fr
<1>10. /\ \A i \in DOMAIN fn.succ[M!TopRename.bb] :
            EdgeBehind(Onward("instrs", k + 1, {}), i) <=> EdgeBehind(M!TopRename, i)
       /\ \A v \in Locals : M!Done(Onward("instrs", k + 1, {}), v) = M!Done(M!TopRename, v)
  BY <1>5, <1>7 DEF fr
<1> HIDE DEF k
<1> QED BY <1>1, <1>8, <1>9, <1>10, PassingOn

LEMMA EndInstrsKeeps ==
  ASSUME Ready, M!EndInstrs
  PROVE  RenameInv'
<1> DEFINE bb == M!TopRename.bb
           k == M!TopRename.pos
           fr == Onward("successors", 1, {})
<1>1. /\ calls # <<>> /\ M!TopRename.pc = "instrs" /\ k > Len(fn.code[bb])
      /\ M!GoOn("successors", 1, {}) /\ Reading
      /\ UNCHANGED <<pairs, operand, var_val_stack, deleted>>
  BY DEF M!EndInstrs, M!Renaming, M!given, Reading
<1>2. /\ M!TopRename \in CallFrame(fn) /\ k \in Nat \ {0} /\ WellFormed(fn)
      /\ bb \in fn.blocks /\ Len(fn.code[bb]) \in Nat /\ bb \in Reachable(fn)
      /\ k <= Len(fn.code[bb]) + 1
  BY <1>1, TopCallFacts, InstrFacts
<1>3. fr.bb = bb /\ fr.pc = "successors" /\ fr.pos = 1 /\ fr \in CallFrame(fn)
  <2>1. 1 \in Nat \ {0}
    OBVIOUS
  <2> QED BY <1>1, <2>1, OnwardEmpty
<1> HIDE DEF fr
<1>4. ASSUME NEW id \in M!InstrsOf("load", Locals) \cup M!InstrsOf("store", Locals),
             id[1] = bb
      PROVE  InstrBehind(M!TopRename, id[2])
  <2>1. PICK op \in {"load", "store"} : id \in M!InstrsOf(op, Locals)
    OBVIOUS
  <2>2. id = <<id[1], id[2]>>
    BY <1>2, <2>1, InstrFacts
  <2>3. <<id[1], id[2]>> \in M!InstrsOf(op, Locals)
    BY <2>1, <2>2
  <2>4. id[2] \in DOMAIN fn.code[bb] /\ DOMAIN fn.code[bb] = 1 .. Len(fn.code[bb])
    BY <1>2, <1>4, <2>3, InstrFacts
  <2>5. id[2] < k
    BY <1>1, <1>2, <2>4
  <2> QED BY <1>1, <2>5 DEF InstrBehind
<1>5. ASSUME NEW i \in DOMAIN fn.succ[bb] PROVE EdgeBehind(fr, i) <=> EdgeBehind(M!TopRename, i)
  <2>1. i \in Nat /\ i >= 1
    BY <1>2, EdgeNumbers
  <2> QED BY <1>1, <1>3, <2>1 DEF EdgeBehind
<1>6. ASSUME NEW v \in Locals PROVE M!Done(fr, v) = M!Done(M!TopRename, v)
  <2>1. k - 1 = Len(fn.code[bb])
    BY <1>1, <1>2
  <2>2. M!Done(fr, v) = M!Stored(v, bb) + M!HasPhi(v, bb)
    BY <1>2, <1>3, DoneFacts
  <2>3. M!Done(M!TopRename, v) = Cardinality(StoresUpTo(bb, v, k - 1)) + M!HasPhi(v, bb)
    BY <1>1, <1>2, DoneFacts
  <2>4. M!Stored(v, bb) = Cardinality(StoresUpTo(bb, v, Len(fn.code[bb])))
    BY <1>2, StoredIsAll
  <2> QED BY <2>1, <2>2, <2>3, <2>4
<1>7. \A id \in M!InstrsOf("load", Locals) \cup M!InstrsOf("store", Locals) :
        id[1] = M!TopRename.bb /\ InstrBehind(Onward("successors", 1, {}), id[2])
             => InstrBehind(M!TopRename, id[2])
  BY <1>4
<1>8. /\ \A i \in DOMAIN fn.succ[M!TopRename.bb] :
           EdgeBehind(Onward("successors", 1, {}), i) <=> EdgeBehind(M!TopRename, i)
      /\ \A v \in Locals : M!Done(Onward("successors", 1, {}), v) = M!Done(M!TopRename, v)
  BY <1>5, <1>6 DEF fr
<1> HIDE DEF k
<1> QED BY <1>1, <1>7, <1>8, PassingOn

LEMMA EndSuccessorsKeeps ==
  ASSUME Ready, M!EndSuccessors
  PROVE  RenameInv'
<1> DEFINE bb == M!TopRename.bb
           k == M!TopRename.pos
           kids == dom_tree_succ[bb]
           fr == Onward("children", 1, kids)
<1>1. /\ calls # <<>> /\ M!TopRename.pc = "successors" /\ k > Len(fn.succ[bb])
      /\ M!GoOn("children", 1, kids) /\ Reading
      /\ UNCHANGED <<pairs, operand, var_val_stack, deleted>>
  BY DEF M!EndSuccessors, M!Renaming, M!given, Reading, M!Children
<1>2. /\ M!TopRename \in CallFrame(fn) /\ k \in Nat \ {0} /\ WellFormed(fn)
      /\ bb \in fn.blocks /\ bb \in Reachable(fn) /\ TreeOf(fn, dom_tree_succ)
  BY <1>1, TopCallFacts
<1>3. kids \subseteq Reachable(fn)
  BY <1>2 DEF TreeOf
<1> HIDE DEF kids
<1>4. fr.bb = bb /\ fr.pc = "children" /\ fr \in CallFrame(fn)
  BY <1>1, <1>3, OnwardFrame
<1> HIDE DEF fr
<1>5. \A i : InstrBehind(M!TopRename, i)
  BY <1>1 DEF InstrBehind
<1>6. ASSUME NEW i \in DOMAIN fn.succ[bb] PROVE EdgeBehind(fr, i) <=> EdgeBehind(M!TopRename, i)
  <2>1. i \in Nat /\ i <= Len(fn.succ[bb]) /\ Len(fn.succ[bb]) \in Nat
    BY <1>2, EdgeNumbers
  <2>2. i < k
    BY <1>1, <1>2, <2>1
  <2> QED BY <1>1, <1>4, <2>2 DEF EdgeBehind
<1>7. ASSUME NEW v \in Locals PROVE M!Done(fr, v) = M!Done(M!TopRename, v)
  BY <1>1, <1>2, <1>4, DoneFacts
<1>8. /\ \A i \in DOMAIN fn.succ[M!TopRename.bb] :
           EdgeBehind(Onward("children", 1, kids), i) <=> EdgeBehind(M!TopRename, i)
      /\ \A v \in Locals : M!Done(Onward("children", 1, kids), v) = M!Done(M!TopRename, v)
  BY <1>6, <1>7 DEF fr
<1>9. kids \subseteq dom_tree_succ[M!TopRename.bb] /\ kids = dom_tree_succ[M!TopRename.bb]
  BY DEF kids
<1> HIDE DEF k
<1> QED BY <1>1, <1>5, <1>8, <1>9, PassingOn

-----------------------------------------------------------------------------
(* Steps that push: RenamePhis and RenameStore.                            *)

StacksOf(S, s) == \A v \in DOMAIN s : s[v] \in Seq(S)
ValuesOf(S, f) == \A v \in DOMAIN f : f[v] \in S

AfterPush(S, s, f, r) ==
  /\ DOMAIN r = DOMAIN s \cup DOMAIN f
  /\ StacksOf(S, r)
  /\ \A v \in DOMAIN f : v \in DOMAIN s => Len(r[v]) = Len(s[v]) + 1
  /\ \A v \in DOMAIN f : v \notin DOMAIN s => Len(r[v]) = 1
  /\ \A v \in DOMAIN s : v \notin DOMAIN f => r[v] = s[v]

LEMMA ValuesPushed ==
  ASSUME NEW S, NEW s, NEW f, StacksOf(S, s), ValuesOf(S, f)
  PROVE  AfterPush(S, s, f, M!Push(s, f))
<1> DEFINE r == M!Push(s, f)
           old(v) == IF v \in DOMAIN s THEN s[v] ELSE <<>>
<1>1. /\ DOMAIN r = DOMAIN s \cup DOMAIN f
      /\ \A v \in DOMAIN r : r[v] = IF v \in DOMAIN f THEN Append(old(v), f[v]) ELSE old(v)
  BY DEF M!Push
<1> HIDE DEF r
<1>2. ASSUME NEW v PROVE old(v) \in Seq(S)
  BY DEF StacksOf
<1> SUFFICES ASSUME NEW v \in DOMAIN s \cup DOMAIN f
             PROVE  /\ r[v] \in Seq(S)
                    /\ v \in DOMAIN f => /\ v \in DOMAIN s => Len(r[v]) = Len(s[v]) + 1
                                         /\ v \notin DOMAIN s => Len(r[v]) = 1
                    /\ v \notin DOMAIN f => r[v] = s[v]
  BY <1>1 DEF r, StacksOf, AfterPush
<1>3. CASE v \in DOMAIN f
  <2>1. r[v] = Append(old(v), f[v]) /\ f[v] \in S /\ old(v) \in Seq(S)
    BY <1>1, <1>2, <1>3 DEF ValuesOf
  <2>2. /\ v \in DOMAIN s => old(v) = s[v]
        /\ v \notin DOMAIN s => old(v) = <<>>
    OBVIOUS
  <2> HIDE DEF old
  <2>3. r[v] \in Seq(S) /\ Len(r[v]) = Len(old(v)) + 1
    BY <2>1
  <2> QED BY <1>3, <2>2, <2>3
<1>4. CASE v \notin DOMAIN f
  BY <1>1, <1>4 DEF StacksOf
<1> HIDE DEF old
<1> QED BY <1>3, <1>4

LEMMA RenamePhisKeeps ==
  ASSUME Ready, M!RenamePhis
  PROVE  RenameInv'
<1> DEFINE bb == M!TopRename.bb
           n == Len(calls)
           fr == Onward("instrs", 1, {})
           new == {v \in Locals : <<bb, v>> \in phis}
           vals == [v \in new |-> M!PhiValue(<<bb, v>>)]
<1>1. /\ calls # <<>> /\ M!TopRename.pc = "phis" /\ M!GoOn("instrs", 1, {}) /\ Reading
      /\ UNCHANGED <<pairs, operand, deleted>>
      /\ var_val_stack' = M!Push(var_val_stack, [v \in {phi[2] : phi \in {phi \in phis : phi[1] = bb}}
                                                   |-> M!PhiValue(<<bb, v>>)])
  BY DEF M!RenamePhis, M!Renaming, M!given, Reading
<1>2. /\ M!TopRename \in CallFrame(fn) /\ WellFormed(fn) /\ bb \in fn.blocks
      /\ bb \in Reachable(fn) /\ Len(fn.code[bb]) \in Nat /\ bb \in Nat
  BY <1>1, TopCallFacts, InstrFacts
<1>3. PassTyped /\ PhisPlaced /\ KeysMade /\ LoadsGone /\ PairsMade
  BY DEF Ready, RenameInv
<1>4. {phi[2] : phi \in {phi \in phis : phi[1] = bb}} = new
  <2>1. ASSUME NEW phi \in phis, phi[1] = bb PROVE phi[2] \in new
    BY <2>1, EdgeNumbers
  <2>2. ASSUME NEW v \in new PROVE \E phi \in phis : phi[1] = bb /\ phi[2] = v
    <3>1. <<bb, v>> \in phis /\ <<bb, v>>[1] = bb /\ <<bb, v>>[2] = v
      OBVIOUS
    <3> QED BY <3>1
  <2> QED BY <2>1, <2>2
<1>5. var_val_stack' = M!Push(var_val_stack, vals)
  BY <1>1, <1>4
<1>6. \A v \in new : vals[v] \in Values
  BY <1>2, PromotionAssumption DEF Values, M!PhiValue
<1>7. /\ DOMAIN var_val_stack' = DOMAIN var_val_stack \cup new
      /\ \A v \in DOMAIN var_val_stack' : var_val_stack'[v] \in Seq(Values)
      /\ \A v \in new : v \in DOMAIN var_val_stack =>
                          Len(var_val_stack'[v]) = Len(var_val_stack[v]) + 1
      /\ \A v \in new : v \notin DOMAIN var_val_stack => Len(var_val_stack'[v]) = 1
      /\ \A v \in DOMAIN var_val_stack : v \notin new => var_val_stack'[v] = var_val_stack[v]
  <2>1. DOMAIN vals = new /\ ValuesOf(Values, vals)
    BY <1>6 DEF ValuesOf
  <2>2. StacksOf(Values, var_val_stack)
    BY <1>3 DEF PassTyped, StacksOf
  <2> HIDE DEF new, vals
  <2>3. AfterPush(Values, var_val_stack, vals, M!Push(var_val_stack, vals))
    BY <2>1, <2>2, ValuesPushed
  <2> QED BY <1>5, <2>1, <2>3 DEF AfterPush, StacksOf
<1>8. /\ fr \in CallFrame(fn) /\ fr.bb = bb /\ fr.pc = "instrs" /\ fr.pos = 1
      /\ CallsNested(fn, dom_tree_succ, calls)'
      /\ Len(calls') = n /\ calls'[n] = fr
      /\ \A i \in 1 .. n : i # n => calls'[i] = calls[i]
      /\ M!TopRename' = fr
      /\ \A b, i : b = bb => (IsRenamed(b, i)' <=> InstrBehind(fr, i))
      /\ \A b, i : b # bb => (IsRenamed(b, i)' <=> IsRenamed(b, i))
      /\ \A i : IsFilled(bb, i) <=> EdgeBehind(M!TopRename, i)
      /\ \A b, i : b = bb => (IsFilled(b, i)' <=> EdgeBehind(fr, i))
      /\ \A b, i : b # bb => (IsFilled(b, i)' <=> IsFilled(b, i))
  <2>1. {} \subseteq dom_tree_succ[bb] /\ {} \subseteq Reachable(fn) /\ 1 \in Nat \ {0}
        /\ 1 <= Len(fn.code[bb]) + 1
    BY <1>2
  <2>2. fr \in CallFrame(fn) /\ fr.bb = bb /\ fr.pc = "instrs" /\ fr.pos = 1
    BY <1>1, <2>1, OnwardEmpty
  <2> HIDE DEF fr
  <2> QED BY <1>1, <2>1, <2>2, TopGoesOn DEF fr
<1> HIDE DEF fr, vals
<1>9. PassTyped' /\ PhisPlaced'
  <2>1. PhisPlaced'
    BY <1>1, <1>3, SameProgram
  <2>2. Accessed' = Accessed
    BY <1>1, SameProgram
  <2>3. DOMAIN var_val_stack' \subseteq Locals
    BY <1>3, <1>7 DEF PassTyped
  <2> HIDE DEF new
  <2> QED BY <1>1, <1>3, <1>7, <2>1, <2>2, <2>3 DEF PassTyped, Reading
<1>10. \A i \in Nat : i >= 1 => ~InstrBehind(fr, i)
  BY <1>8 DEF InstrBehind
<1>11. \A op, vars : \A id \in M!InstrsOf(op, vars) : id[2] \in Nat /\ id[2] >= 1
  <2> SUFFICES ASSUME NEW op, NEW vars, NEW id \in M!InstrsOf(op, vars)
               PROVE  id[2] \in Nat /\ id[2] >= 1
    OBVIOUS
  <2>1. <<id[1], id[2]>> \in M!InstrsOf(op, vars)
    BY <1>2, InstrFacts
  <2>2. id[1] \in fn.blocks /\ id[2] \in 1 .. Len(fn.code[id[1]])
    BY <1>2, <2>1, InstrFacts
  <2> QED BY <2>2
<1>12. KeysMade'
  <2>1. \A v \in DOMAIN var_val_stack' : M!StoreBlocks(v) # {}
    <3>1. ASSUME NEW v \in new PROVE M!StoreBlocks(v) # {}
      <4>1. <<bb, v>> \in phis /\ <<bb, v>>[2] = v
        OBVIOUS
      <4> QED BY <1>3, <4>1 DEF PhisPlaced
    <3> QED BY <1>3, <1>7, <3>1 DEF KeysMade
  <2>2. ASSUME NEW phi \in phis, IsRenamed(phi[1], 0)'
        PROVE  IsRenamed(phi[1], 0) \/ phi[2] \in DOMAIN var_val_stack'
    <3>1. phi = <<phi[1], phi[2]>> /\ phi[2] \in Locals
      BY EdgeNumbers
    <3>2. phi[1] = bb => phi[2] \in new
      BY <3>1
    <3> QED BY <1>7, <1>8, <2>2, <3>2
  <2>3. ASSUME NEW id \in M!InstrsOf("store", Locals), IsRenamed(id[1], id[2])'
        PROVE  IsRenamed(id[1], id[2])
    BY <1>8, <1>10, <1>11, <2>3
  <2> QED BY <1>1, <1>3, <1>7, <2>1, <2>2, <2>3, KeysKept
<1>13. LoadsGone'
  <2>1. ASSUME NEW id \in M!InstrsOf("load", Locals), IsRenamed(id[1], id[2])'
        PROVE  IsRenamed(id[1], id[2])
    BY <1>8, <1>10, <1>11, <2>1
  <2> QED BY <1>1, <1>3, <2>1, LoadsKept
<1>14. PairsMade'
  <2>1. \A i : ~EdgeBehind(M!TopRename, i) /\ ~EdgeBehind(fr, i)
    BY <1>1, <1>8 DEF EdgeBehind
  <2>2. ASSUME NEW b \in Reachable(fn), NEW i \in Nat PROVE IsFilled(b, i)' <=> IsFilled(b, i)
    BY <1>8, <2>1
  <2>3. pairs' = pairs
    BY <1>1
  <2> QED BY <1>1, <1>3, <2>2, <2>3, EdgeNumbers, PairsStay
<1>15. PairsFresh'
  BY <1>8 DEF PairsFresh, M!Renaming
<1>16. Balanced'
  <2> SUFFICES ASSUME NEW v \in Locals
               PROVE  /\ Height(v)' + M!Done(M!TopRename, v) = Height(v) + M!Done(fr, v)
                      /\ Height(v)' \in Nat
    BY <1>1, <1>2, <1>8, BalanceGoesOn DEF n
  <2>1. M!Done(M!TopRename, v) = 0 /\ M!Done(fr, v) = M!HasPhi(v, bb)
    <3>1. M!Done(fr, v) = Cardinality(StoresUpTo(bb, v, 1 - 1)) + M!HasPhi(v, bb)
      BY <1>2, <1>8, DoneFacts
    <3>2. Cardinality(StoresUpTo(bb, v, 0)) = 0
      BY StoresUpToFacts
    <3>3. M!HasPhi(v, bb) \in {0, 1}
      BY DEF M!HasPhi
    <3> QED BY <1>1, <1>2, <3>1, <3>2, <3>3, DoneFacts
  <2>2. M!HasPhi(v, bb) = IF v \in new THEN 1 ELSE 0
    BY DEF M!HasPhi
  <2>3. Height(v) \in Nat
    BY <1>3, HeightFacts
  <2>4. Height(v)' = IF v \in DOMAIN var_val_stack' THEN Len(var_val_stack'[v]) ELSE 0
    BY DEF Height
  <2>5. Height(v)' = Height(v) + M!HasPhi(v, bb)
    <3> HIDE DEF new
    <3>1. CASE v \in new
      <4>1. v \in DOMAIN var_val_stack'
        BY <1>7, <3>1
      <4>2. CASE v \in DOMAIN var_val_stack
        BY <1>7, <2>2, <2>4, <3>1, <4>1, <4>2 DEF Height
      <4>3. CASE v \notin DOMAIN var_val_stack
        BY <1>7, <2>2, <2>4, <3>1, <4>1, <4>3 DEF Height
      <4> QED BY <4>2, <4>3
    <3>2. CASE v \notin new
      BY <1>7, <2>2, <2>3, <2>4, <3>2 DEF Height
    <3> QED BY <3>1, <3>2
  <2> QED BY <2>1, <2>2, <2>3, <2>5
<1> QED BY <1>8, <1>9, <1>12, <1>13, <1>14, <1>15, <1>16 DEF RenameInv

\* One instruction has been renamed: the one at the position of the top call.
LEMMA OneInstr ==
  ASSUME Ready, calls # <<>>, Reading, M!TopRename.pc = "instrs",
         M!TopRename.pos <= Len(fn.code[M!TopRename.bb]),
         M!GoOn("instrs", M!TopRename.pos + 1, {})
  PROVE  LET bb == M!TopRename.bb
             k == M!TopRename.pos
             fr == Onward("instrs", k + 1, {})
             n == Len(calls)
         IN  /\ fr \in CallFrame(fn) /\ fr.bb = bb /\ fr.bb \in fn.blocks
             /\ k \in DOMAIN fn.code[bb] /\ k \in Nat \ {0} /\ bb \in Reachable(fn)
             /\ CallsNested(fn, dom_tree_succ, calls)'
             /\ Len(calls') = n /\ calls'[n] = fr /\ \A i \in 1 .. n : i # n => calls'[i] = calls[i]
             /\ bb \notin Awaits(fn, dom_tree_succ, calls)
             /\ \A i : IsRenamed(bb, i) <=> i < k
             /\ \A phi \in phis : IsRenamed(phi[1], 0)' => IsRenamed(phi[1], 0)
             /\ \A op, vars : \A id \in M!InstrsOf(op, vars) :
                  IsRenamed(id[1], id[2])' => IsRenamed(id[1], id[2]) \/ id = <<bb, k>>
             /\ \A b \in Reachable(fn), i \in Nat : IsFilled(b, i)' <=> IsFilled(b, i)
             /\ ~M!Renaming("successors")'
             /\ \A v : /\ M!Done(M!TopRename, v) \in Nat
                       /\ (fn.code[bb][k].op = "store" /\ fn.code[bb][k].var = v)
                            => M!Done(fr, v) = M!Done(M!TopRename, v) + 1
                       /\ ~(fn.code[bb][k].op = "store" /\ fn.code[bb][k].var = v)
                            => M!Done(fr, v) = M!Done(M!TopRename, v)
<1> DEFINE bb == M!TopRename.bb
           k == M!TopRename.pos
           fr == Onward("instrs", k + 1, {})
           n == Len(calls)
<1>1. /\ M!TopRename \in CallFrame(fn) /\ WellFormed(fn) /\ bb \in fn.blocks
      /\ bb \in Reachable(fn) /\ Len(fn.code[bb]) \in Nat /\ k \in Nat \ {0}
      /\ DOMAIN fn.code[bb] = 1 .. Len(fn.code[bb])
  BY TopCallFacts, InstrFacts
<1>2. /\ {} \subseteq dom_tree_succ[bb] /\ {} \subseteq Reachable(fn) /\ k + 1 \in Nat \ {0}
      /\ k + 1 <= Len(fn.code[bb]) + 1 /\ k \in DOMAIN fn.code[bb]
  BY <1>1
<1>3. fr \in CallFrame(fn) /\ fr.bb = bb /\ fr.pc = "instrs" /\ fr.pos = k + 1
  BY <1>2, OnwardFrame
<1> HIDE DEF fr, k
<1>4. /\ CallsNested(fn, dom_tree_succ, calls)'
      /\ Len(calls') = n /\ calls'[n] = fr
      /\ \A i \in 1 .. n : i # n => calls'[i] = calls[i]
      /\ M!TopRename' = fr
      /\ bb \in Reachable(fn) \ Awaits(fn, dom_tree_succ, calls)
      /\ \A i : IsRenamed(bb, i) <=> InstrBehind(M!TopRename, i)
      /\ \A b, i : b = bb => (IsRenamed(b, i)' <=> InstrBehind(fr, i))
      /\ \A b, i : b # bb => (IsRenamed(b, i)' <=> IsRenamed(b, i))
      /\ \A i : IsFilled(bb, i) <=> EdgeBehind(M!TopRename, i)
      /\ \A b, i : b = bb => (IsFilled(b, i)' <=> EdgeBehind(fr, i))
      /\ \A b, i : b # bb => (IsFilled(b, i)' <=> IsFilled(b, i))
  BY <1>2, TopGoesOn DEF fr, k
<1>5. /\ \A i : InstrBehind(M!TopRename, i) <=> i < k
      /\ \A i : InstrBehind(fr, i) <=> i < k + 1
      /\ \A i : ~EdgeBehind(M!TopRename, i) /\ ~EdgeBehind(fr, i)
  BY <1>3 DEF InstrBehind, EdgeBehind, k
<1>6. \A i : IsRenamed(bb, i) <=> i < k
  BY <1>4, <1>5
<1>7. ASSUME NEW phi \in phis, IsRenamed(phi[1], 0)' PROVE IsRenamed(phi[1], 0)
  <2>1. 0 < k
    BY <1>1 DEF k
  <2> QED BY <1>4, <1>6, <1>7, <2>1
<1>8. ASSUME NEW op, NEW vars, NEW id \in M!InstrsOf(op, vars), IsRenamed(id[1], id[2])'
      PROVE  IsRenamed(id[1], id[2]) \/ id = <<bb, k>>
  <2>1. id = <<id[1], id[2]>> /\ <<id[1], id[2]>> \in M!InstrsOf(op, vars)
    BY <1>1, InstrFacts
  <2>2. id[1] \in fn.blocks /\ id[2] \in DOMAIN fn.code[id[1]]
    BY <1>1, <2>1, InstrFacts
  <2>3. id[2] \in Nat
    BY <1>1, <2>2, InstrFacts
  <2>4. CASE id[1] = bb
    <3>1. id[2] < k + 1
      BY <1>4, <1>5, <1>8, <2>4
    <3>2. id[2] < k \/ id[2] = k
      BY <1>1, <2>3, <3>1 DEF k
    <3>3. id[2] < k => IsRenamed(id[1], id[2])
      BY <1>6, <2>4
    <3> HIDE DEF bb
    <3>4. id[2] = k => id = <<bb, k>>
      BY <2>1, <2>4
    <3> QED BY <3>2, <3>3, <3>4
  <2>5. CASE id[1] # bb
    BY <1>4, <1>8, <2>5
  <2> QED BY <2>4, <2>5
<1>9. ASSUME NEW b \in Reachable(fn), NEW i \in Nat PROVE IsFilled(b, i)' <=> IsFilled(b, i)
  BY <1>4, <1>5
<1>10. ~M!Renaming("successors")'
  BY <1>3, <1>4 DEF M!Renaming
<1>11. ASSUME NEW v
       PROVE  /\ M!Done(M!TopRename, v) \in Nat
              /\ (fn.code[bb][k].op = "store" /\ fn.code[bb][k].var = v)
                   => M!Done(fr, v) = M!Done(M!TopRename, v) + 1
              /\ ~(fn.code[bb][k].op = "store" /\ fn.code[bb][k].var = v)
                   => M!Done(fr, v) = M!Done(M!TopRename, v)
  <2>1. PICK j \in Nat : k = j + 1
    <3>1. k \in Nat \ {0}
      BY <1>1
    <3>2. k - 1 \in Nat /\ k = (k - 1) + 1
      BY <3>1
    <3> QED BY <3>2
  <2>2. (k + 1) - 1 = j + 1 /\ k - 1 = j
    BY <2>1
  <2>3. M!Done(fr, v) = Cardinality(StoresUpTo(bb, v, (k + 1) - 1)) + M!HasPhi(v, bb)
    BY <1>1, <1>3, DoneFacts
  <2>4. M!Done(M!TopRename, v) = Cardinality(StoresUpTo(bb, v, k - 1)) + M!HasPhi(v, bb)
    BY <1>1, DoneFacts DEF k
  <2>5. M!HasPhi(v, bb) \in {0, 1}
    BY DEF M!HasPhi
  <2>6. Cardinality(StoresUpTo(bb, v, j)) \in Nat
    BY StoresUpToFacts
  <2>7. M!Done(M!TopRename, v) \in Nat
    BY <2>2, <2>4, <2>5, <2>6
  <2>8. ASSUME fn.code[bb][k].op = "store" /\ fn.code[bb][k].var = v
        PROVE  Cardinality(StoresUpTo(bb, v, j + 1)) = Cardinality(StoresUpTo(bb, v, j)) + 1
    <3>1. /\ StoresUpTo(bb, v, j + 1) = StoresUpTo(bb, v, j) \cup {j + 1}
          /\ j + 1 \notin StoresUpTo(bb, v, j)
      BY <2>1, <2>8 DEF StoresUpTo
    <3>2. IsFiniteSet(1 .. j) /\ StoresUpTo(bb, v, j) \subseteq 1 .. j
      BY FS_Interval DEF StoresUpTo
    <3>3. IsFiniteSet(StoresUpTo(bb, v, j))
      BY <3>2, FS_Subset
    <3> QED BY <3>1, <3>3, FS_AddElement
  <2>9. ASSUME ~(fn.code[bb][k].op = "store" /\ fn.code[bb][k].var = v)
        PROVE  StoresUpTo(bb, v, j + 1) = StoresUpTo(bb, v, j)
    BY <2>1, <2>9 DEF StoresUpTo
  <2>10. (fn.code[bb][k].op = "store" /\ fn.code[bb][k].var = v)
           => M!Done(fr, v) = M!Done(M!TopRename, v) + 1
    BY <2>2, <2>3, <2>4, <2>5, <2>6, <2>8
  <2>11. ~(fn.code[bb][k].op = "store" /\ fn.code[bb][k].var = v)
           => M!Done(fr, v) = M!Done(M!TopRename, v)
    BY <2>2, <2>3, <2>4, <2>9
  <2> QED BY <2>7, <2>10, <2>11
<1> QED
  BY <1>1, <1>2, <1>3, <1>4, <1>6, <1>7, <1>8, <1>9, <1>10, <1>11 DEF fr, k

LEMMA RenameStoreKeeps ==
  ASSUME Ready, M!RenameStore
  PROVE  RenameInv'
<1> DEFINE bb == M!TopRename.bb
           k == M!TopRename.pos
           fr == Onward("instrs", k + 1, {})
           n == Len(calls)
           w == fn.code[bb][k].var
           id0 == <<bb, k>>
           vals == [v \in {w} |-> operand[id0]]
<1>1. /\ calls # <<>> /\ M!TopRename.pc = "instrs" /\ M!GoOn("instrs", k + 1, {}) /\ Reading
      /\ k <= Len(fn.code[bb]) /\ fn.code[bb][k].op = "store" /\ w \in Locals
      /\ UNCHANGED <<pairs, operand>> /\ deleted' = deleted \cup {id0}
      /\ var_val_stack' = M!Push(var_val_stack, vals)
  BY DEF M!RenameStore, M!HasInstr, M!Renaming, M!given, Reading, M!Current, M!CurrentId
<1>2. /\ fr \in CallFrame(fn) /\ fr.bb = bb /\ fr.bb \in fn.blocks
      /\ k \in DOMAIN fn.code[bb] /\ k \in Nat \ {0} /\ bb \in Reachable(fn)
      /\ CallsNested(fn, dom_tree_succ, calls)'
      /\ Len(calls') = n /\ calls'[n] = fr /\ \A i \in 1 .. n : i # n => calls'[i] = calls[i]
      /\ \A phi \in phis : IsRenamed(phi[1], 0)' => IsRenamed(phi[1], 0)
      /\ \A op, vars : \A id \in M!InstrsOf(op, vars) :
           IsRenamed(id[1], id[2])' => IsRenamed(id[1], id[2]) \/ id = id0
      /\ \A b \in Reachable(fn), i \in Nat : IsFilled(b, i)' <=> IsFilled(b, i)
      /\ ~M!Renaming("successors")'
      /\ \A v : /\ M!Done(M!TopRename, v) \in Nat
                /\ v = w => M!Done(fr, v) = M!Done(M!TopRename, v) + 1
                /\ v # w => M!Done(fr, v) = M!Done(M!TopRename, v)
  BY <1>1, OneInstr
<1> HIDE DEF fr, k
<1>3. PassTyped /\ PhisPlaced /\ KeysMade /\ LoadsGone /\ PairsMade /\ WellFormed(fn)
  BY DEF Ready, RenameInv, Given
<1>4. id0 \in M!InstrsOf("store", Locals) /\ id0 \in M!InstrsOf("store", {w}) /\ M!At(id0).var = w
  <2>1. <<bb, k>> \in M!InstrsOf("store", Locals) /\ <<bb, k>> \in M!InstrsOf("store", {w})
    BY <1>1, <1>2, <1>3, InstrFacts
  <2>2. M!At(<<bb, k>>) = fn.code[bb][k]
    BY DEF M!At
  <2> QED BY <2>1, <2>2
<1>5. id0 \in Accessed /\ operand[id0] \in Values
  <2>1. <<bb, k>> \in M!InstrsOf("store", Locals \cup Globals)
    BY <1>1, <1>2, <1>3, InstrFacts
  <2>2. id0 \in Accessed
    BY <2>1 DEF Accessed
  <2> QED BY <1>3, <2>2 DEF PassTyped
<1> HIDE DEF w, id0
<1>6. /\ DOMAIN var_val_stack' = DOMAIN var_val_stack \cup {w}
      /\ \A v \in DOMAIN var_val_stack' : var_val_stack'[v] \in Seq(Values)
      /\ w \in DOMAIN var_val_stack => Len(var_val_stack'[w]) = Len(var_val_stack[w]) + 1
      /\ w \notin DOMAIN var_val_stack => Len(var_val_stack'[w]) = 1
      /\ \A v \in DOMAIN var_val_stack : v # w => var_val_stack'[v] = var_val_stack[v]
  <2>1. DOMAIN vals = {w} /\ ValuesOf(Values, vals)
    BY <1>5 DEF ValuesOf
  <2>2. StacksOf(Values, var_val_stack)
    BY <1>3 DEF PassTyped, StacksOf
  <2> HIDE DEF vals
  <2>3. AfterPush(Values, var_val_stack, vals, M!Push(var_val_stack, vals))
    BY <2>1, <2>2, ValuesPushed
  <2>4. var_val_stack' = M!Push(var_val_stack, vals)
    BY <1>1
  <2> QED BY <2>1, <2>3, <2>4 DEF AfterPush, StacksOf
<1> HIDE DEF vals
<1>7. PassTyped' /\ PhisPlaced'
  <2>1. PhisPlaced'
    BY <1>1, <1>3, SameProgram
  <2>2. Accessed' = Accessed
    BY <1>1, SameProgram
  <2>3. DOMAIN var_val_stack' \subseteq Locals
    BY <1>1, <1>3, <1>6 DEF PassTyped, w
  <2> QED BY <1>1, <1>3, <1>6, <2>1, <2>2, <2>3 DEF PassTyped, Reading
<1>8. KeysMade'
  <2>1. \A v \in DOMAIN var_val_stack' : M!StoreBlocks(v) # {}
    <3>1. M!StoreBlocks(w) # {}
      BY <1>4 DEF M!StoreBlocks
    <3> QED BY <1>3, <1>6, <3>1 DEF KeysMade
  <2>2. \A id \in M!InstrsOf("store", Locals) : IsRenamed(id[1], id[2])' =>
           IsRenamed(id[1], id[2]) \/ (id \in deleted' /\ M!At(id).var \in DOMAIN var_val_stack')
    <3> SUFFICES ASSUME NEW id \in M!InstrsOf("store", Locals), IsRenamed(id[1], id[2])'
                 PROVE  IsRenamed(id[1], id[2]) \/
                          (id \in deleted' /\ M!At(id).var \in DOMAIN var_val_stack')
      OBVIOUS
    <3>1. IsRenamed(id[1], id[2]) \/ id = id0
      BY <1>2
    <3> QED BY <1>1, <1>4, <1>6, <3>1
  <2>3. deleted \subseteq deleted'
    BY <1>1
  <2> QED BY <1>1, <1>2, <1>3, <1>6, <2>1, <2>2, <2>3, KeysKept
<1>9. LoadsGone'
  <2>1. ASSUME NEW id \in M!InstrsOf("load", Locals) PROVE id # id0
    <3>1. M!At(id).op = "load" /\ M!At(id0).op = "store"
      BY <1>4 DEF M!InstrsOf
    <3> QED BY <3>1
  <2>2. deleted \subseteq deleted'
    BY <1>1
  <2> QED BY <1>1, <1>2, <1>3, <2>1, <2>2, LoadsKept
<1>10. PairsMade'
  <2>1. pairs' = pairs
    BY <1>1
  <2> QED BY <1>1, <1>2, <1>3, <2>1, EdgeNumbers, PairsStay
<1>11. PairsFresh'
  BY <1>2 DEF PairsFresh
<1>12. Balanced'
  <2> SUFFICES ASSUME NEW v \in Locals
               PROVE  /\ Height(v)' + M!Done(M!TopRename, v) = Height(v) + M!Done(fr, v)
                      /\ Height(v)' \in Nat
    BY <1>1, <1>2, BalanceGoesOn DEF n
  <2>1. /\ M!Done(M!TopRename, v) \in Nat
        /\ v = w => M!Done(fr, v) = M!Done(M!TopRename, v) + 1
        /\ v # w => M!Done(fr, v) = M!Done(M!TopRename, v)
    BY <1>2
  <2>2. Height(v) \in Nat
    BY <1>3, HeightFacts
  <2>3. Height(v)' = IF v \in DOMAIN var_val_stack' THEN Len(var_val_stack'[v]) ELSE 0
    BY DEF Height
  <2>4. v = w => Height(v)' = Height(v) + 1
    BY <1>6, <2>3 DEF Height
  <2>5. v # w => Height(v)' = Height(v)
    BY <1>6, <2>3 DEF Height
  <2> QED BY <2>1, <2>2, <2>4, <2>5
<1> QED BY <1>2, <1>7, <1>8, <1>9, <1>10, <1>11, <1>12 DEF RenameInv

-----------------------------------------------------------------------------
(* What a call has pushed stays on the stack while it is active.           *)

LEMMA DonePositive ==
  ASSUME WellFormed(fn), NEW fr \in CallFrame(fn), fr.bb \in fn.blocks, NEW v, NEW i,
         <<fr.bb, i>> \in M!InstrsOf("store", {v}), InstrBehind(fr, i)
  PROVE  M!Done(fr, v) >= 1
<1> DEFINE len == Len(fn.code[fr.bb])
<1>1. /\ i \in 1 .. len /\ len \in Nat
      /\ fn.code[fr.bb][i].op = "store" /\ fn.code[fr.bb][i].var = v
  <2>1. i \in DOMAIN fn.code[fr.bb] /\ fn.code[fr.bb][i].op = "store" /\ fn.code[fr.bb][i].var \in {v}
    BY InstrFacts
  <2> QED BY <2>1, InstrFacts
<1> HIDE DEF len
<1>2. ASSUME NEW k \in Nat, i <= k PROVE Cardinality(StoresUpTo(fr.bb, v, k)) >= 1
  <2>1. i \in StoresUpTo(fr.bb, v, k)
    BY <1>1, <1>2 DEF StoresUpTo
  <2>2. IsFiniteSet(1 .. k) /\ StoresUpTo(fr.bb, v, k) \subseteq 1 .. k
    BY FS_Interval DEF StoresUpTo
  <2>3. IsFiniteSet(StoresUpTo(fr.bb, v, k))
    BY <2>2, FS_Subset
  <2>4. Cardinality(StoresUpTo(fr.bb, v, k)) # 0
    BY <2>1, <2>3, FS_EmptySet
  <2>5. Cardinality(StoresUpTo(fr.bb, v, k)) \in Nat
    BY StoresUpToFacts
  <2> QED BY <2>4, <2>5
<1>3. M!HasPhi(v, fr.bb) \in {0, 1}
  BY DEF M!HasPhi
<1>4. fr.pc \in {"phis", "instrs", "successors", "children"} /\ fr.pos \in Nat \ {0}
  BY DEF CallFrame
<1>5. CASE fr.pc = "instrs"
  <2>1. i < fr.pos /\ fr.pos - 1 \in Nat /\ i <= fr.pos - 1
    BY <1>1, <1>4, <1>5 DEF InstrBehind
  <2>2. /\ Cardinality(StoresUpTo(fr.bb, v, fr.pos - 1)) >= 1
        /\ Cardinality(StoresUpTo(fr.bb, v, fr.pos - 1)) \in Nat
    BY <1>2, <2>1, StoresUpToFacts
  <2> QED BY <1>3, <1>5, <2>2, DoneFacts
<1>6. CASE fr.pc \in {"successors", "children"}
  <2>1. M!Stored(v, fr.bb) = Cardinality(StoresUpTo(fr.bb, v, len))
    BY StoredIsAll DEF len
  <2>2. Cardinality(StoresUpTo(fr.bb, v, len)) >= 1 /\ Cardinality(StoresUpTo(fr.bb, v, len)) \in Nat
    <3>1. len \in Nat /\ i <= len
      BY <1>1
    <3> QED BY <1>2, <3>1, StoresUpToFacts
  <2>3. M!Done(fr, v) = M!Stored(v, fr.bb) + M!HasPhi(v, fr.bb)
    BY <1>6, DoneFacts
  <2> QED BY <1>3, <2>1, <2>2, <2>3
<1> QED BY <1>4, <1>5, <1>6 DEF InstrBehind

LEMMA HeightPositive ==
  ASSUME Ready, calls # <<>>, NEW j \in 1 .. Len(calls), NEW v \in Locals, M!Done(calls[j], v) >= 1
  PROVE  v \in DOMAIN var_val_stack /\ var_val_stack[v] # <<>>
<1> DEFINE n == Len(calls)
<1>1. n \in Nat \ {0} /\ \A i \in 1 .. n : M!Done(calls[i], v) \in Nat
  <2>1. \A i \in 1 .. n : calls[i] \in CallFrame(fn) /\ calls[i].bb \in fn.blocks
    BY TopCallFacts
  <2> QED BY <2>1, TopCallFacts, DoneFacts
<1>2. PICK g : Sums(calls, v, g) /\ g[n] = Height(v)
  BY DEF Ready, RenameInv, Balanced
<1>3. g \in [0 .. n -> Nat] /\ \A i \in 1 .. n : g[i] = g[i - 1] + M!Done(calls[i], v)
  BY <1>2 DEF Sums
<1> HIDE DEF n
<1>4. j \in 1 .. n /\ j \in Nat /\ n - j \in Nat
  BY <1>1 DEF n
<1> DEFINE S == {i \in Nat : j + i <= n => g[j + i] >= 1}
<1>5. 0 \in S
  <2>1. g[j] = g[j - 1] + M!Done(calls[j], v) /\ g[j - 1] \in Nat
    BY <1>1, <1>3, <1>4
  <2>2. j + 0 = j
    BY <1>4
  <2> QED BY <1>1, <1>4, <2>1, <2>2
<1>6. \A i \in Nat : i < n - j /\ i \in S => i + 1 \in S
  <2> SUFFICES ASSUME NEW i \in Nat, i < n - j, i \in S PROVE i + 1 \in S
    OBVIOUS
  <2>1. /\ j + (i + 1) \in 1 .. n /\ (j + (i + 1)) - 1 = j + i /\ j + i \in 0 .. n /\ j + i <= n
    BY <1>1, <1>4
  <2>2. g[j + (i + 1)] = g[j + i] + M!Done(calls[j + (i + 1)], v)
    BY <1>3, <2>1
  <2>3. g[j + i] >= 1 /\ g[j + i] \in Nat /\ M!Done(calls[j + (i + 1)], v) \in Nat
    BY <1>1, <1>3, <2>1
  <2> QED BY <2>2, <2>3
<1>7. 0 .. (n - j) \subseteq S
  <2> HIDE DEF S
  <2> QED BY <1>4, <1>5, <1>6, CountingUp
<1>8. g[n] >= 1
  <2>1. n - j \in 0 .. (n - j) /\ j + (n - j) = n
    BY <1>1, <1>4
  <2>2. n - j \in S
    BY <1>7, <2>1
  <2> QED BY <1>1, <2>1, <2>2
<1>9. Height(v) >= 1
  BY <1>2, <1>8
<1> QED BY <1>9 DEF Height

\* A variable that the entry block stores before it loads it has a value as soon as
\* that store has been renamed.
LEMMA StoredFirstHasValue ==
  ASSUME Ready, calls # <<>>, NEW v \in Locals, M!StoredFirst(v),
         M!TopRename.pc = "successors" \/ ( /\ M!TopRename.pc = "instrs"
             /\ <<M!TopRename.bb, M!TopRename.pos>> \in M!InstrsOf("load", {v}))
  PROVE  v \in DOMAIN var_val_stack /\ var_val_stack[v] # <<>>
<1> DEFINE top == M!TopRename
           n == Len(calls)
<1>1. /\ WellFormed(fn) /\ n \in Nat \ {0} /\ 1 \in 1 .. n /\ top = calls[n]
      /\ \A i \in 1 .. n : calls[i] \in CallFrame(fn) /\ calls[i].bb \in fn.blocks
      /\ CallsNested(fn, dom_tree_succ, calls) /\ top.pos \in Nat \ {0}
  BY TopCallFacts
<1>2. calls[1].bb = Entry /\ (1 < n => calls[1].pc = "children")
  BY <1>1 DEF CallsNested
<1>3. PICK id \in M!InstrsOf("store", {v}) :
        id[1] = Entry /\ \A i \in 1 .. id[2] : <<Entry, i>> \notin M!InstrsOf("load", {v})
  BY SameGraphs DEF M!StoredFirst
<1>4. <<Entry, id[2]>> \in M!InstrsOf("store", {v}) /\ id[2] \in Nat
  <2>1. id = <<id[1], id[2]>>
    BY <1>1, InstrFacts
  <2>2. <<Entry, id[2]>> \in M!InstrsOf("store", {v})
    BY <1>3, <2>1
  <2>3. Entry \in fn.blocks /\ id[2] \in DOMAIN fn.code[Entry]
    BY <1>1, <2>2, InstrFacts
  <2> QED BY <1>1, <2>2, <2>3, InstrFacts
<1>5. InstrBehind(calls[1], id[2])
  <2>1. CASE 1 < n
    BY <1>2, <2>1 DEF InstrBehind
  <2>2. CASE ~(1 < n)
    <3>1. n = 1 /\ calls[1] = top
      <4> HIDE DEF n, top
      <4>1. n = 1
        BY <1>1, <2>2
      <4> QED BY <1>1, <4>1
    <3>2. CASE top.pc = "successors"
      BY <3>1, <3>2 DEF InstrBehind
    <3>3. CASE top.pc = "instrs" /\ <<top.bb, top.pos>> \in M!InstrsOf("load", {v})
      <4>1. <<Entry, top.pos>> \in M!InstrsOf("load", {v})
        BY <1>2, <3>1, <3>3
      <4>2. top.pos \notin 1 .. id[2]
        BY <1>3, <4>1
      <4>3. id[2] < top.pos
        BY <1>1, <1>4, <4>2
      <4> QED BY <3>1, <3>3, <4>3 DEF InstrBehind
    <3> QED BY <3>2, <3>3
  <2> QED BY <2>1, <2>2
<1>6. <<calls[1].bb, id[2]>> \in M!InstrsOf("store", {v})
  BY <1>2, <1>4
<1>7. M!Done(calls[1], v) >= 1
  BY <1>1, <1>5, <1>6, DonePositive
<1> QED BY <1>1, <1>7, HeightPositive

-----------------------------------------------------------------------------
(* RenameLoad: a load of a variable with a stack goes, and its users name  *)
(* the newest value.                                                       *)

Put(load, val, p) == [p EXCEPT !.val = IF @ = load THEN val ELSE @]

LEMMA RenameLoadKeeps ==
  ASSUME Ready, M!RenameLoad
  PROVE  RenameInv' /\ (stage' = "undefined" =>
           \E v \in Locals : M!StoreBlocks(v) # {} /\ ~M!StoredFirst(v))
<1> DEFINE bb == M!TopRename.bb
           k == M!TopRename.pos
           fr == Onward("instrs", k + 1, {})
           n == Len(calls)
           w == fn.code[bb][k].var
           id0 == <<bb, k>>
           load == M!Value("load", bb, k)
<1>1. /\ calls # <<>> /\ M!TopRename.pc = "instrs" /\ M!GoOn("instrs", k + 1, {}) /\ Reading
      /\ k <= Len(fn.code[bb]) /\ fn.code[bb][k].op = "load" /\ w \in Locals
      /\ UNCHANGED var_val_stack /\ stage = "rename"
  BY DEF M!RenameLoad, M!HasInstr, M!Renaming, M!given, Reading, M!Current
<1>2. /\ w \notin DOMAIN var_val_stack => UNCHANGED <<stage, operand, pairs>> /\ deleted' = deleted
      /\ w \in DOMAIN var_val_stack => deleted' = deleted \cup {id0}
      /\ w \in DOMAIN var_val_stack /\ var_val_stack[w] = <<>> => UNCHANGED <<operand, pairs>>
      /\ w \in DOMAIN var_val_stack /\ var_val_stack[w] # <<>> =>
           M!ReplaceUses(load, M!Newest(w)) /\ stage' = stage
  BY DEF M!RenameLoad, M!Current, M!CurrentId
<1>3. /\ fr \in CallFrame(fn) /\ fr.bb = bb /\ fr.bb \in fn.blocks
      /\ k \in DOMAIN fn.code[bb] /\ k \in Nat \ {0} /\ bb \in Reachable(fn)
      /\ CallsNested(fn, dom_tree_succ, calls)'
      /\ Len(calls') = n /\ calls'[n] = fr /\ \A i \in 1 .. n : i # n => calls'[i] = calls[i]
      /\ \A phi \in phis : IsRenamed(phi[1], 0)' => IsRenamed(phi[1], 0)
      /\ \A op, vars : \A id \in M!InstrsOf(op, vars) :
           IsRenamed(id[1], id[2])' => IsRenamed(id[1], id[2]) \/ id = id0
      /\ \A b \in Reachable(fn), i \in Nat : IsFilled(b, i)' <=> IsFilled(b, i)
      /\ ~M!Renaming("successors")'
      /\ \A v : M!Done(fr, v) = M!Done(M!TopRename, v)
  BY <1>1, OneInstr
<1> HIDE DEF fr
<1>4. PassTyped /\ PhisPlaced /\ KeysMade /\ LoadsGone /\ PairsMade /\ WellFormed(fn)
  BY DEF Ready, RenameInv, Given
<1>5. /\ id0 \in M!InstrsOf("load", Locals) /\ id0 \in M!InstrsOf("load", {w})
      /\ M!At(id0).var = w /\ M!At(id0).op = "load"
  <2>1. <<bb, k>> \in M!InstrsOf("load", Locals) /\ <<bb, k>> \in M!InstrsOf("load", {w})
    BY <1>1, <1>3, <1>4, InstrFacts
  <2>2. M!At(<<bb, k>>) = fn.code[bb][k]
    BY DEF M!At
  <2> QED BY <1>1, <2>1, <2>2
<1>6. M!StoredFirst(w) => w \in DOMAIN var_val_stack /\ var_val_stack[w] # <<>>
  <2>1. <<M!TopRename.bb, M!TopRename.pos>> \in M!InstrsOf("load", {w})
    BY <1>5
  <2> HIDE DEF w
  <2> QED BY <1>1, <2>1, StoredFirstHasValue
<1> HIDE DEF w, id0, load
<1>7. w \in DOMAIN var_val_stack /\ var_val_stack[w] # <<>> => M!Newest(w) \in Values
  <2> DEFINE R == Values
  <2>1. \A v \in DOMAIN var_val_stack : var_val_stack[v] \in Seq(R)
    BY <1>4 DEF PassTyped
  <2> HIDE DEF R
  <2>2. ASSUME NEW s \in Seq(R), s # <<>> PROVE s[Len(s)] \in R
    BY <2>2
  <2>3. w \in DOMAIN var_val_stack /\ var_val_stack[w] # <<>> => M!Newest(w) \in R
    BY <2>1, <2>2 DEF M!Newest
  <2> QED BY <2>3 DEF R
<1>8. PICK h : /\ h \in [pairs -> [at : phis, from : Reachable(fn), val : Values]]
               /\ pairs' = {h[p] : p \in pairs}
               /\ \A p \in pairs : h[p].at = p.at /\ h[p].from = p.from
  <2>1. CASE w \in DOMAIN var_val_stack /\ var_val_stack[w] # <<>>
    <3> DEFINE h == [p \in pairs |-> Put(load, M!Newest(w), p)]
    <3>1. pairs' = {Put(load, M!Newest(w), p) : p \in pairs}
      BY <1>2, <2>1 DEF M!ReplaceUses, Put
    <3>2. ASSUME NEW p \in pairs
          PROVE  /\ Put(load, M!Newest(w), p) \in [at : phis, from : Reachable(fn), val : Values]
                 /\ Put(load, M!Newest(w), p).at = p.at /\ Put(load, M!Newest(w), p).from = p.from
      <4>1. p \in [at : phis, from : Reachable(fn), val : Values]
        BY <1>4 DEF PassTyped
      <4>2. M!Newest(w) \in Values
        BY <1>7, <2>1
      <4> QED BY <4>1, <4>2 DEF Put
    <3>3. h \in [pairs -> [at : phis, from : Reachable(fn), val : Values]]
      BY <3>2
    <3>4. pairs' = {h[p] : p \in pairs} /\ \A p \in pairs : h[p].at = p.at /\ h[p].from = p.from
      BY <3>1, <3>2
    <3> QED BY <3>3, <3>4
  <2>2. CASE ~(w \in DOMAIN var_val_stack /\ var_val_stack[w] # <<>>)
    <3> DEFINE h == [p \in pairs |-> p]
    <3>1. pairs' = pairs
      BY <1>2, <2>2
    <3>2. h \in [pairs -> [at : phis, from : Reachable(fn), val : Values]]
      BY <1>4 DEF PassTyped
    <3>3. pairs' = {h[p] : p \in pairs} /\ \A p \in pairs : h[p].at = p.at /\ h[p].from = p.from
      BY <3>1
    <3> QED BY <3>2, <3>3
  <2> QED BY <2>1, <2>2
<1>9. operand' \in [Accessed -> Values]
  <2>1. operand \in [Accessed -> Values]
    BY <1>4 DEF PassTyped
  <2>2. CASE w \in DOMAIN var_val_stack /\ var_val_stack[w] # <<>>
    <3>1. operand' = [id \in DOMAIN operand |->
                        IF operand[id] = load THEN M!Newest(w) ELSE operand[id]]
      BY <1>2, <2>2 DEF M!ReplaceUses
    <3> QED BY <1>7, <2>1, <2>2, <3>1
  <2>3. CASE ~(w \in DOMAIN var_val_stack /\ var_val_stack[w] # <<>>)
    BY <1>2, <2>1, <2>3
  <2> QED BY <2>2, <2>3
<1>10. PassTyped' /\ PhisPlaced'
  <2>1. PhisPlaced'
    BY <1>1, <1>4, SameProgram
  <2>2. Accessed' = Accessed
    BY <1>1, SameProgram
  <2>3. pairs' \subseteq [at : phis', from : Reachable(fn'), val : Values]
    BY <1>1, <1>8 DEF Reading
  <2> QED BY <1>1, <1>4, <1>9, <2>1, <2>2, <2>3 DEF PassTyped, Reading
<1>11. deleted \subseteq deleted'
  BY <1>2
<1>12. KeysMade'
  <2>1. \A v \in DOMAIN var_val_stack' : M!StoreBlocks(v) # {}
    BY <1>1, <1>4 DEF KeysMade
  <2>2. ASSUME NEW id \in M!InstrsOf("store", Locals) PROVE id # id0
    <3>1. M!At(id).op = "store"
      BY DEF M!InstrsOf
    <3> QED BY <1>5, <3>1
  <2>3. DOMAIN var_val_stack' = DOMAIN var_val_stack
    BY <1>1
  <2> QED BY <1>1, <1>3, <1>4, <1>11, <2>1, <2>2, <2>3, KeysKept
<1>13. LoadsGone'
  <2>1. ASSUME NEW id \in M!InstrsOf("load", Locals),
               IsRenamed(id[1], id[2])', M!StoredFirst(M!At(id).var)
        PROVE  IsRenamed(id[1], id[2]) \/ id \in deleted'
    <3>1. CASE id = id0
      BY <1>2, <1>5, <1>6, <2>1, <3>1
    <3> QED BY <1>3, <2>1, <3>1
  <2> QED BY <1>1, <1>4, <1>11, <2>1, LoadsKept
<1>14. PairsMade'
  <2>1. /\ pairs' = {h[p] : p \in pairs}
        /\ \A p \in pairs : h[p].at = p.at /\ h[p].from = p.from
    BY <1>8
  <2> QED BY <1>1, <1>3, <1>4, <2>1, EdgeNumbers, PairsKept
<1>15. PairsFresh'
  BY <1>3 DEF PairsFresh
<1>16. Balanced'
  <2>1. ASSUME NEW v \in Locals PROVE Height(v)' = Height(v) /\ Height(v) \in Nat
    BY <1>1, <1>4, HeightFacts DEF Height
  <2> QED BY <1>1, <1>3, <2>1, BalanceGoesOn DEF n
<1>17. RenameInv'
  BY <1>3, <1>10, <1>12, <1>13, <1>14, <1>15, <1>16 DEF RenameInv
<1>18. ASSUME stage' = "undefined"
       PROVE  \E v \in Locals : M!StoreBlocks(v) # {} /\ ~M!StoredFirst(v)
  <2>1. w \in DOMAIN var_val_stack /\ var_val_stack[w] = <<>>
    BY <1>1, <1>2, <1>18
  <2> QED BY <1>1, <1>4, <1>6, <2>1 DEF KeysMade, w
<1> QED BY <1>17, <1>18

-----------------------------------------------------------------------------
(* FillSuccessor: the phis of a successor get their pairs.                 *)

\* The pass rests or stops, or deletes the allocas: nothing else changes.
LEMMA StageChangeKeeps ==
  ASSUME RenameInv, Given(fn, dom_frontier, dom_tree_succ), Reading,
         UNCHANGED <<pairs, operand, var_val_stack, calls>>,
         deleted \subseteq deleted', stage' \in {stage} \/ stage' # "rename"
  PROVE  RenameInv'
<1>1. /\ PassTyped /\ PhisPlaced /\ KeysMade /\ LoadsGone /\ PairsMade /\ Balanced
      /\ CallsNested(fn, dom_tree_succ, calls) /\ FlowGraph(fn)
  BY DEF RenameInv, Given
<1>2. PassTyped' /\ PhisPlaced'
  BY <1>1, TypesStay, SameProgram
<1>3. CallsNested(fn, dom_tree_succ, calls)'
  <2>1. CallsNested(fn', dom_tree_succ', calls')
    BY <1>1 DEF Reading
  <2> QED BY <2>1
<1>4. \A b, i : (IsRenamed(b, i)' <=> IsRenamed(b, i)) /\ (IsFilled(b, i)' <=> IsFilled(b, i))
  BY DEF IsRenamed, IsFilled, Reading
<1>5. KeysMade'
  <2>1. /\ DOMAIN var_val_stack' = DOMAIN var_val_stack
        /\ \A v \in DOMAIN var_val_stack' : M!StoreBlocks(v) # {}
    BY <1>1 DEF KeysMade
  <2> QED BY <1>1, <1>4, <2>1, KeysKept
<1>6. LoadsGone'
  BY <1>1, <1>4, LoadsKept
<1>7. PairsMade'
  <2>1. Reachable(fn) \subseteq fn.blocks
    BY <1>1, ReachableFacts
  <2>2. \A b \in Reachable(fn) : DOMAIN fn.succ[b] \subseteq Nat
    BY <1>1, <2>1, FlowFacts
  <2>3. \A p \in pairs : p.from \in Reachable(fn)
    BY <1>1 DEF PassTyped
  <2>4. pairs' = pairs
    OBVIOUS
  <2> QED BY <1>1, <1>4, <2>2, <2>3, <2>4, PairsStay
<1>8. PairsFresh'
  <2>1. PairsFresh
    BY DEF RenameInv
  <2>2. M!Renaming("successors")' => M!Renaming("successors")
    BY DEF M!Renaming, M!TopRename
  <2>3. M!TopRename' = M!TopRename /\ \A v : M!Newest(v)' = M!Newest(v)
    BY DEF M!TopRename, M!Newest
  <2> QED BY <2>1, <2>2, <2>3 DEF PairsFresh
<1>9. Balanced'
  <2> SUFFICES ASSUME NEW v \in Locals
               PROVE  (\E g : Sums(calls, v, g) /\ g[Len(calls)] = Height(v))'
    BY DEF Balanced
  <2>1. PICK g : Sums(calls, v, g) /\ g[Len(calls)] = Height(v)
    BY <1>1 DEF Balanced
  <2>2. Height(v)' = Height(v)
    BY DEF Height
  <2>3. \A i : M!Done(calls[i], v)' = M!Done(calls[i], v)
    <3> SUFFICES ASSUME NEW i PROVE M!Done(calls[i], v)' = M!Done(calls[i], v)
      OBVIOUS
    <3>1. calls'[i] = calls[i]
      OBVIOUS
    <3> QED BY <3>1, DoneLater
  <2>4. Sums(calls, v, g)'
    BY <2>1, <2>3 DEF Sums
  <2> QED BY <2>1, <2>2, <2>4
<1> QED BY <1>2, <1>3, <1>5, <1>6, <1>7, <1>8, <1>9 DEF RenameInv

\* Every block that dominates the one whose edges are filled has made the stacks of
\* the variables it sets.
LEMMA SettersFirst ==
  ASSUME Ready, calls # <<>>, M!TopRename.pc = "successors", NEW v \in Locals,
         NEW a, Sets(a, v), Dominates(fn, a, M!TopRename.bb)
  PROVE  v \in DOMAIN var_val_stack
<1> DEFINE n == Len(calls)
           bb == M!TopRename.bb
<1>1. /\ WellFormed(fn) /\ FlowGraph(fn) /\ CallsNested(fn, dom_tree_succ, calls)
      /\ n \in Nat \ {0} /\ M!TopRename = calls[n] /\ bb \in Reachable(fn) /\ n \in 1 .. n
  BY TopCallFacts
<1>2. bb \notin Awaits(fn, dom_tree_succ, calls)
  BY <1>1 DEF CallsNested
<1>3. a \in Reachable(fn) \ Awaits(fn, dom_tree_succ, calls)
  BY <1>1, <1>2, DominatorsFirst
<1>4. ASSUME NEW i PROVE IsRenamed(a, i)
  <2>1. ASSUME NEW j \in 1 .. n PROVE calls[j].pc \in {"successors", "children"}
    <3>1. CASE j = n
      BY <1>1, <3>1
    <3>2. CASE j # n
      BY <1>1, <3>2 DEF CallsNested
    <3> QED BY <3>1, <3>2
  <2> QED BY <1>3, <2>1 DEF IsRenamed, Renamed, InstrBehind
<1>5. KeysMade
  BY DEF Ready, RenameInv
<1>6. CASE <<a, v>> \in phis
  <2>1. <<a, v>>[1] = a /\ <<a, v>>[2] = v
    OBVIOUS
  <2> QED BY <1>4, <1>5, <1>6, <2>1 DEF KeysMade
<1>7. CASE a \in M!StoreBlocks(v)
  <2>1. PICK id \in M!InstrsOf("store", {v}) : id[1] = a
    BY <1>7 DEF M!StoreBlocks
  <2>2. id \in M!InstrsOf("store", Locals) /\ M!At(id).var = v
    BY <2>1 DEF M!InstrsOf
  <2> QED BY <1>4, <1>5, <2>1, <2>2 DEF KeysMade
<1> QED BY <1>6, <1>7 DEF Sets

NewPair(phi) == [at |-> phi, from |-> M!TopRename.bb, val |-> M!Newest(phi[2])]

LEMMA FillSuccessorKeeps ==
  ASSUME Ready, M!FillSuccessor
  PROVE  RenameInv' /\ (stage' = "aborted" =>
           \E v \in Locals : M!StoreBlocks(v) # {} /\ ~M!StoredFirst(v))
<1> DEFINE bb == M!TopRename.bb
           k == M!TopRename.pos
           fr == Onward("successors", k + 1, {})
           n == Len(calls)
           keyed == {phi \in phis : phi[1] = fn.succ[bb][k] /\ phi[2] \in DOMAIN var_val_stack}
           unset == \E phi \in keyed : var_val_stack[phi[2]] = <<>>
<1>1. /\ calls # <<>> /\ M!TopRename.pc = "successors" /\ Reading /\ k <= Len(fn.succ[bb])
      /\ UNCHANGED <<operand, var_val_stack, deleted>> /\ stage = "rename"
  BY DEF M!FillSuccessor, M!Renaming, M!given, Reading
<1>2. /\ unset => stage' = "aborted" /\ UNCHANGED <<pairs, calls>>
      /\ ~unset => /\ pairs' = pairs \cup {NewPair(phi) : phi \in keyed}
                   /\ M!GoOn("successors", k + 1, {}) /\ stage' = stage
  BY DEF M!FillSuccessor, NewPair
<1>3. /\ PassTyped /\ PhisPlaced /\ KeysMade /\ LoadsGone /\ PairsMade /\ PairsFresh /\ RenameInv
      /\ Given(fn, dom_frontier, dom_tree_succ)
  BY DEF Ready, RenameInv
<1>4. CASE unset
  <2>1. RenameInv'
    BY <1>1, <1>2, <1>3, <1>4, StageChangeKeeps
  <2>2. PICK phi \in keyed : var_val_stack[phi[2]] = <<>>
    BY <1>4
  <2>3. phi[2] \in Locals /\ M!StoreBlocks(phi[2]) # {}
    BY <1>3, <2>2, EdgeNumbers DEF KeysMade
  <2>4. ~M!StoredFirst(phi[2])
    BY <1>1, <2>2, <2>3, StoredFirstHasValue
  <2> QED BY <2>1, <2>3, <2>4
<1>5. CASE ~unset
  <2>1. /\ pairs' = pairs \cup {NewPair(phi) : phi \in keyed}
        /\ M!GoOn("successors", k + 1, {}) /\ stage' = "rename"
        /\ \A phi \in keyed : var_val_stack[phi[2]] # <<>>
    BY <1>1, <1>2, <1>5
  <2>2. /\ M!TopRename \in CallFrame(fn) /\ WellFormed(fn) /\ bb \in fn.blocks
        /\ bb \in Reachable(fn) /\ k \in Nat \ {0} /\ M!TopRename.pos = k
    BY <1>1, TopCallFacts
  <2>3. k \in DOMAIN fn.succ[bb] /\ k + 1 \in Nat \ {0}
    BY <1>1, <2>2, EdgeNumbers
  <2>4. fr \in CallFrame(fn) /\ fr.bb = bb /\ fr.pc = "successors" /\ fr.pos = k + 1
    <3>1. {} \subseteq Reachable(fn)
      OBVIOUS
    <3> QED BY <1>1, <2>3, <3>1, OnwardFrame
  <2> HIDE DEF fr, k, keyed, unset
  <2>5. /\ CallsNested(fn, dom_tree_succ, calls)'
        /\ Len(calls') = n /\ calls'[n] = fr
        /\ \A i \in 1 .. n : i # n => calls'[i] = calls[i]
        /\ M!TopRename' = fr
        /\ \A i : IsRenamed(bb, i) <=> InstrBehind(M!TopRename, i)
        /\ \A b, i : b = bb => (IsRenamed(b, i)' <=> InstrBehind(fr, i))
        /\ \A b, i : b # bb => (IsRenamed(b, i)' <=> IsRenamed(b, i))
        /\ \A i : IsFilled(bb, i) <=> EdgeBehind(M!TopRename, i)
        /\ \A b, i : b = bb => (IsFilled(b, i)' <=> EdgeBehind(fr, i))
        /\ \A b, i : b # bb => (IsFilled(b, i)' <=> IsFilled(b, i))
    <3>1. {} \subseteq dom_tree_succ[bb]
      OBVIOUS
    <3> QED BY <1>1, <2>1, <2>3, <3>1, TopGoesOn DEF fr
  <2>6. \A b, i : IsRenamed(b, i)' <=> IsRenamed(b, i)
    <3>1. \A i : InstrBehind(M!TopRename, i) /\ InstrBehind(fr, i)
      BY <1>1, <2>4 DEF InstrBehind
    <3> QED BY <2>5, <3>1
  <2>7. /\ \A b, i : b # bb => (IsFilled(b, i)' <=> IsFilled(b, i))
        /\ \A b, i : b = bb => (IsFilled(b, i) <=> i < k) /\ (IsFilled(b, i)' <=> i < k + 1)
    <3>1. \A i : (EdgeBehind(M!TopRename, i) <=> i < k) /\ (EdgeBehind(fr, i) <=> i < k + 1)
      BY <1>1, <2>4 DEF EdgeBehind, k
    <3> QED BY <2>5, <3>1
  <2>8. \A phi \in keyed :
          /\ phi \in phis /\ phi[1] = fn.succ[bb][k] /\ phi[2] \in DOMAIN var_val_stack
          /\ NewPair(phi) \in [at : phis, from : Reachable(fn), val : Values]
          /\ NewPair(phi).at = phi /\ NewPair(phi).from = bb /\ NewPair(phi).val = M!Newest(phi[2])
    <3> SUFFICES ASSUME NEW phi \in keyed
                 PROVE  /\ phi \in phis /\ phi[1] = fn.succ[bb][k] /\ phi[2] \in DOMAIN var_val_stack
                        /\ M!Newest(phi[2]) \in Values
      BY <2>2 DEF NewPair
    <3>1. phi \in phis /\ phi[1] = fn.succ[bb][k] /\ phi[2] \in DOMAIN var_val_stack
      BY DEF keyed
    <3> DEFINE R == Values
    <3>2. \A v \in DOMAIN var_val_stack : var_val_stack[v] \in Seq(R)
      BY <1>3 DEF PassTyped
    <3> HIDE DEF R
    <3>3. ASSUME NEW s \in Seq(R), s # <<>> PROVE s[Len(s)] \in R
      BY <3>3
    <3>4. M!Newest(phi[2]) \in R
      BY <2>1, <3>1, <3>2, <3>3 DEF M!Newest
    <3> QED BY <3>1, <3>4 DEF R
  <2>9. PassTyped' /\ PhisPlaced'
    <3>1. PhisPlaced'
      BY <1>1, <1>3, SameProgram
    <3>2. Accessed' = Accessed
      BY <1>1, SameProgram
    <3>3. pairs' \subseteq [at : phis', from : Reachable(fn'), val : Values]
      <4>1. pairs \subseteq [at : phis, from : Reachable(fn), val : Values]
        BY <1>3 DEF PassTyped
      <4> QED BY <1>1, <2>1, <2>8, <4>1 DEF Reading
    <3> QED BY <1>1, <1>3, <3>1, <3>2, <3>3 DEF PassTyped, Reading
  <2>10. KeysMade' /\ LoadsGone'
    <3>1. /\ DOMAIN var_val_stack' = DOMAIN var_val_stack /\ deleted' = deleted
          /\ \A v \in DOMAIN var_val_stack' : M!StoreBlocks(v) # {}
      BY <1>1, <1>3 DEF KeysMade
    <3> QED BY <1>1, <1>3, <2>6, <3>1, KeysKept, LoadsKept
  <2>11. PairsMade'
    <3>1. ASSUME NEW p \in pairs', NEW q \in pairs', p.at = q.at, p.from = q.from PROVE p = q
      <4>1. ASSUME NEW r \in pairs, NEW phi \in keyed, r.at = phi, r.from = bb
            PROVE  r = NewPair(phi)
        <5>1. M!Renaming("successors")
          BY <1>1 DEF M!Renaming
        <5>2. r.val = M!Newest(phi[2])
          BY <1>3, <4>1, <5>1 DEF PairsFresh
        <5>3. r \in [at : phis, from : Reachable(fn), val : Values]
          BY <1>3 DEF PassTyped
        <5> QED BY <4>1, <5>2, <5>3 DEF NewPair
      <4>2. CASE p \in pairs /\ q \in pairs
        BY <1>3, <3>1, <4>2 DEF PairsMade
      <4>3. CASE p \in pairs /\ q \notin pairs
        BY <2>1, <2>8, <3>1, <4>1, <4>3
      <4>4. CASE p \notin pairs /\ q \in pairs
        BY <2>1, <2>8, <3>1, <4>1, <4>4
      <4>5. CASE p \notin pairs /\ q \notin pairs
        BY <2>1, <2>8, <3>1, <4>5
      <4> QED BY <4>2, <4>3, <4>4, <4>5
    <3>2. ASSUME NEW p \in pairs'
          PROVE  \E i \in DOMAIN fn'.succ[p.from] :
                   fn'.succ[p.from][i] = p.at[1] /\ IsFilled(p.from, i)'
      <4>1. CASE p \in pairs
        <5>1. PICK i \in DOMAIN fn.succ[p.from] : fn.succ[p.from][i] = p.at[1] /\ IsFilled(p.from, i)
          BY <1>3, <4>1 DEF PairsMade
        <5>2. p.from \in Reachable(fn) /\ i \in Nat
          BY <4>1, <5>1, EdgeNumbers
        <5>3. IsFilled(p.from, i)'
          BY <2>2, <2>7, <5>1, <5>2
        <5> QED BY <1>1, <5>1, <5>3 DEF Reading
      <4>2. CASE p \notin pairs
        <5>1. PICK phi \in keyed : p = NewPair(phi)
          BY <2>1, <4>2
        <5>2. p.from = bb /\ p.at = phi /\ phi[1] = fn.succ[bb][k]
          BY <2>8, <5>1
        <5>3. ASSUME NEW i \in Nat, i = k PROVE IsFilled(p.from, i)'
          BY <2>2, <2>7, <5>2, <5>3
        <5>4. PICK i \in Nat : i = k
          BY <2>2
        <5>5. IsFilled(p.from, i)' /\ i \in DOMAIN fn.succ[p.from] /\ fn.succ[p.from][i] = p.at[1]
          BY <2>3, <5>2, <5>3, <5>4
        <5> QED BY <1>1, <5>5 DEF Reading
      <4> QED BY <4>1, <4>2
    <3>3. ASSUME NEW phi \in phis', NEW b \in Reachable(fn'), NEW i \in DOMAIN fn'.succ[b],
                 fn'.succ[b][i] = phi[1], IsFilled(b, i)',
                 \E a \in fn'.blocks : Sets(a, phi[2])' /\ Dominates(fn', a, b)
          PROVE  \E p \in pairs' : p.at = phi /\ p.from = b
      <4>1. phi \in phis /\ b \in Reachable(fn) /\ i \in DOMAIN fn.succ[b] /\ fn.succ[b][i] = phi[1]
        BY <1>1, <3>3 DEF Reading
      <4>2. i \in Nat /\ phi[2] \in Locals
        BY <4>1, EdgeNumbers
      <4>3. PICK a \in fn.blocks : Sets(a, phi[2]) /\ Dominates(fn, a, b)
        <5>1. PICK a \in fn'.blocks : Sets(a, phi[2])' /\ Dominates(fn', a, b)
          BY <3>3
        <5>2. Sets(a, phi[2])
          BY <1>1, <5>1, SameProgram
        <5> QED BY <1>1, <5>1, <5>2 DEF Reading
      <4>4. CASE IsFilled(b, i)
        <5>1. \E p \in pairs : p.at = phi /\ p.from = b
          BY <1>3, <4>1, <4>3, <4>4 DEF PairsMade
        <5> QED BY <2>1, <5>1
      <4>5. CASE ~IsFilled(b, i)
        <5>1. b = bb /\ i = k
          BY <2>2, <2>7, <3>3, <4>2, <4>5
        <5>2. phi[2] \in DOMAIN var_val_stack
          BY <1>1, <4>2, <4>3, <5>1, SettersFirst
        <5>3. phi \in keyed
          BY <4>1, <5>1, <5>2 DEF keyed
        <5> QED BY <2>1, <2>8, <5>1, <5>3
      <4> QED BY <4>4, <4>5
    <3> QED BY <1>1, <3>1, <3>2, <3>3 DEF PairsMade, Reading
  <2>12. PairsFresh'
    <3> SUFFICES ASSUME NEW p \in pairs', p.from = bb
                 PROVE  p.at[2] \in DOMAIN var_val_stack /\ p.val = M!Newest(p.at[2])
      <4>1. M!TopRename'.bb = bb
        BY <2>4, <2>5
      <4>2. \A v : M!Newest(v)' = M!Newest(v)
        BY <1>1 DEF M!Newest
      <4> QED BY <1>1, <4>1, <4>2 DEF PairsFresh
    <3>1. M!Renaming("successors")
      BY <1>1 DEF M!Renaming
    <3>2. CASE p \in pairs
      BY <1>3, <3>1, <3>2 DEF PairsFresh
    <3>3. CASE p \notin pairs
      BY <2>1, <2>8, <3>3
    <3> QED BY <3>2, <3>3
  <2>13. Balanced'
    <3>1. ASSUME NEW v \in Locals
          PROVE  Height(v)' + M!Done(M!TopRename, v) = Height(v) + M!Done(fr, v) /\ Height(v)' \in Nat
      <4>1. Height(v)' = Height(v) /\ Height(v) \in Nat
        BY <1>1, <1>3, HeightFacts DEF Height
      <4>2. M!Done(fr, v) = M!Done(M!TopRename, v)
        BY <1>1, <2>2, <2>4, DoneFacts
      <4> QED BY <4>1, <4>2
    <3> QED BY <1>1, <2>2, <2>4, <2>5, <3>1, BalanceGoesOn DEF n
  <2> QED BY <2>1, <2>5, <2>9, <2>10, <2>11, <2>12, <2>13 DEF RenameInv
<1> QED BY <1>4, <1>5

-----------------------------------------------------------------------------
(* RenameChild and LeaveBlock: a call is made, a call returns.             *)

LEMMA RenameChildKeeps ==
  ASSUME Ready, M!RenameChild
  PROVE  RenameInv'
<1> DEFINE n == Len(calls)
<1>1. PICK b \in M!TopRename.todo :
        calls' = Append([calls EXCEPT ![n].todo = @ \ {b}], M!Rename(b))
  BY DEF M!RenameChild
<1>2. /\ calls # <<>> /\ M!TopRename.pc = "children" /\ Reading
      /\ UNCHANGED <<pairs, operand, var_val_stack, deleted>>
  BY DEF M!RenameChild, M!Renaming, M!given, Reading
<1>3. /\ CallsNested(fn, dom_tree_succ, calls) /\ FlowGraph(fn) /\ TreeOf(fn, dom_tree_succ)
      /\ n \in Nat \ {0} /\ n \in 1 .. n /\ M!TopRename = calls[n] /\ WellFormed(fn)
      /\ \A i \in 1 .. n : calls[i] \in CallFrame(fn) /\ calls[i].bb \in fn.blocks
  BY <1>2, TopCallFacts
<1>4. calls[n].pc = "children" /\ b \in calls[n].todo
  BY <1>1, <1>2, <1>3
<1> DEFINE ds == Append([calls EXCEPT ![Len(calls)].todo = @ \ {b}], M!Rename(b))
<1>5. CallsNested(fn, dom_tree_succ, ds) /\ b \in Reachable(fn)
  BY <1>2, <1>3, <1>4, CallMade
<1>6. /\ Len(ds) = n + 1 /\ ds # <<>> /\ ds[n + 1] = M!Rename(b)
      /\ ds[n].bb = calls[n].bb /\ ds[n].pc = "children"
  <2>1. Len(ds) = n + 1
    BY <1>2, <1>3, <1>4, CallMade
  <2>2. ds # <<>> /\ ds[n + 1] = M!Rename(b)
    BY <1>2, <1>3, <1>4, CallMade
  <2>3. ds[n].bb = calls[n].bb /\ ds[n].pc = "children"
    BY <1>2, <1>3, <1>4, CallMade
  <2> QED BY <2>1, <2>2, <2>3
<1>7. \A i \in 1 .. n : i # n => ds[i] = calls[i]
  BY <1>2, <1>3, <1>4, CallMade
<1>8. \A c, i : Renamed(fn, dom_tree_succ, ds, c, i) <=> Renamed(fn, dom_tree_succ, calls, c, i)
  <2>1. \A i : ~Renamed(fn, dom_tree_succ, calls, b, i) /\ ~Renamed(fn, dom_tree_succ, ds, b, i)
    BY <1>2, <1>3, <1>4, CallMade
  <2>2. \A c, i : c # b =>
          (Renamed(fn, dom_tree_succ, ds, c, i) <=> Renamed(fn, dom_tree_succ, calls, c, i))
    BY <1>2, <1>3, <1>4, CallMade
  <2> QED BY <2>1, <2>2
<1>9. \A c, k : Filled(fn, dom_tree_succ, ds, c, k) <=> Filled(fn, dom_tree_succ, calls, c, k)
  <2>1. \A k : ~Filled(fn, dom_tree_succ, calls, b, k) /\ ~Filled(fn, dom_tree_succ, ds, b, k)
    BY <1>2, <1>3, <1>4, CallMade
  <2>2. \A c, k : c # b =>
          (Filled(fn, dom_tree_succ, ds, c, k) <=> Filled(fn, dom_tree_succ, calls, c, k))
    BY <1>2, <1>3, <1>4, CallMade
  <2> QED BY <2>1, <2>2
<1>10. calls' = ds /\ fn' = fn /\ dom_tree_succ' = dom_tree_succ
  BY <1>1, <1>2 DEF Reading
<1> HIDE DEF ds
<1>11. CallsNested(fn, dom_tree_succ, calls)'
  <2>1. CallsNested(fn', dom_tree_succ', calls')
    BY <1>5, <1>10
  <2> QED BY <2>1
<1>12. \A c, i : (IsRenamed(c, i)' <=> IsRenamed(c, i)) /\ (IsFilled(c, i)' <=> IsFilled(c, i))
  BY <1>8, <1>9, <1>10 DEF IsRenamed, IsFilled
<1>13. PassTyped /\ PhisPlaced /\ KeysMade /\ LoadsGone /\ PairsMade /\ Balanced
  BY DEF Ready, RenameInv
<1>14. PassTyped' /\ PhisPlaced'
  BY <1>2, <1>13, TypesStay, SameProgram
<1>15. KeysMade' /\ LoadsGone'
  <2>1. /\ DOMAIN var_val_stack' = DOMAIN var_val_stack /\ deleted' = deleted
        /\ \A v \in DOMAIN var_val_stack' : M!StoreBlocks(v) # {}
    BY <1>2, <1>13 DEF KeysMade
  <2> QED BY <1>2, <1>12, <1>13, <2>1, KeysKept, LoadsKept
<1>16. PairsMade'
  <2>1. pairs' = pairs
    BY <1>2
  <2> QED BY <1>2, <1>12, <1>13, <2>1, EdgeNumbers, PairsStay
<1>17. M!Rename(b).pc = "phis" /\ M!Rename(b).bb = b
  BY DEF M!Rename
<1>18. PairsFresh'
  <2>1. M!TopRename' = M!Rename(b)
    BY <1>3, <1>6, <1>10 DEF M!TopRename
  <2> QED BY <1>17, <2>1 DEF PairsFresh, M!Renaming
<1>19. Balanced'
  <2> SUFFICES ASSUME NEW v \in Locals
               PROVE  (\E g : Sums(calls, v, g) /\ g[Len(calls)] = Height(v))'
    BY DEF Balanced
  <2>1. PICK g : Sums(calls, v, g) /\ g[n] = Height(v)
    BY <1>13 DEF Balanced
  <2>2. /\ g \in [0 .. n -> Nat] /\ g[0] = 0
        /\ \A i \in 1 .. n : g[i] = g[i - 1] + M!Done(calls[i], v)
    BY <2>1 DEF Sums
  <2> HIDE DEF n
  <2>3. PICK h : h = [i \in 0 .. n + 1 |-> IF i = n + 1 THEN g[n] ELSE g[i]]
    OBVIOUS
  <2>4. /\ h \in [0 .. n + 1 -> Nat] /\ h[n + 1] = g[n] /\ h[0] = 0
        /\ \A i \in 0 .. n : h[i] = g[i]
    BY <1>3, <2>2, <2>3
  <2>5. ASSUME NEW i \in 1 .. n, i # n PROVE M!Done(calls[i], v)' = M!Done(calls[i], v)
    <3>1. calls'[i] = calls[i]
      BY <1>7, <1>10, <2>5
    <3> QED BY <1>2, <3>1, DoneLater
  <2>6. ASSUME NEW i \in 1 .. n, i = n PROVE M!Done(calls[i], v)' = M!Done(calls[n], v)
    <3>1. PICK e : e = ds[n]
      OBVIOUS
    <3>2. calls'[i] = e
      BY <1>10, <2>6, <3>1
    <3>3. M!Done(calls[i], v)' = M!Done(e, v)
      BY <1>2, <3>2, DoneLater
    <3>4. e.bb = calls[n].bb /\ e.pc = "children"
      BY <1>6, <3>1
    <3>5. M!Done(e, v) = M!Done(calls[n], v)
      BY <1>4, <3>4 DEF M!Done
    <3> QED BY <3>3, <3>5
  <2>7. ASSUME NEW i, i = n + 1 PROVE M!Done(calls[i], v)' = 0
    <3>1. calls'[i] = M!Rename(b)
      BY <1>6, <1>10, <2>7
    <3>2. M!Done(calls[i], v)' = M!Done(M!Rename(b), v)
      BY <1>2, <3>1, DoneLater
    <3> QED BY <1>17, <3>2 DEF M!Done
  <2>8. \A i \in 1 .. n + 1 : h[i] = h[i - 1] + M!Done(calls[i], v)'
    <3> SUFFICES ASSUME NEW i \in 1 .. n + 1 PROVE h[i] = h[i - 1] + M!Done(calls[i], v)'
      OBVIOUS
    <3>1. CASE i = n + 1
      <4>1. i - 1 = n /\ n \in 0 .. n
        BY <1>3, <3>1
      <4>2. h[i - 1] = g[n] /\ g[n] \in Nat
        BY <2>2, <2>4, <4>1
      <4> QED BY <2>4, <2>7, <3>1, <4>2
    <3>2. CASE i # n + 1
      <4>1. i \in 1 .. n /\ i \in 0 .. n /\ i - 1 \in 0 .. n
        BY <1>3, <3>2
      <4>2. h[i] = g[i] /\ h[i - 1] = g[i - 1]
        BY <2>4, <4>1
      <4>3. M!Done(calls[i], v)' = M!Done(calls[i], v)
        BY <2>5, <2>6, <4>1
      <4> QED BY <2>2, <4>1, <4>2, <4>3
    <3> QED BY <3>1, <3>2
  <2>9. Len(calls') = n + 1
    BY <1>6, <1>10
  <2>10. Sums(calls, v, h)'
    BY <2>4, <2>8, <2>9 DEF Sums
  <2>11. (h[Len(calls)] = Height(v))'
    <3>1. Height(v)' = Height(v)
      BY <1>2 DEF Height
    <3> QED BY <2>1, <2>4, <2>9, <3>1
  <2> QED BY <2>10, <2>11
<1> QED BY <1>11, <1>14, <1>15, <1>16, <1>18, <1>19 DEF RenameInv

LEMMA LeaveBlockKeeps ==
  ASSUME Ready, M!LeaveBlock
  PROVE  RenameInv'
<1> DEFINE n == Len(calls)
           bb == M!TopRename.bb
           ds == SubSeq(calls, 1, Len(calls) - 1)
<1>1. /\ calls # <<>> /\ M!TopRename.pc = "children" /\ M!TopRename.todo = {} /\ Reading
      /\ UNCHANGED <<pairs, operand, deleted>> /\ calls' = ds
      /\ var_val_stack' = [v \in DOMAIN var_val_stack |->
                             SubSeq(var_val_stack[v], 1, Len(var_val_stack[v]) - M!Popped(v, bb))]
  BY DEF M!LeaveBlock, M!Renaming, M!given, Reading
<1>2. /\ CallsNested(fn, dom_tree_succ, calls) /\ FlowGraph(fn) /\ TreeOf(fn, dom_tree_succ)
      /\ n \in Nat \ {0} /\ n \in 1 .. n /\ M!TopRename = calls[n] /\ WellFormed(fn)
      /\ \A i \in 1 .. n : calls[i] \in CallFrame(fn) /\ calls[i].bb \in fn.blocks
  BY <1>1, TopCallFacts
<1>3. calls[n].pc = "children" /\ calls[n].todo = {}
  BY <1>1, <1>2
<1>4. CallsNested(fn, dom_tree_succ, ds) /\ Len(ds) = n - 1 /\ \A i \in 1 .. n - 1 : ds[i] = calls[i]
  BY <1>1, <1>2, <1>3, CallReturns
<1>5. \A c, i : Renamed(fn, dom_tree_succ, ds, c, i) <=> Renamed(fn, dom_tree_succ, calls, c, i)
  BY <1>1, <1>2, <1>3, CallReturns
<1>6. \A c, i : Filled(fn, dom_tree_succ, ds, c, i) <=> Filled(fn, dom_tree_succ, calls, c, i)
  BY <1>1, <1>2, <1>3, CallReturns
<1> HIDE DEF ds
<1>7. CallsNested(fn, dom_tree_succ, calls)'
  <2>1. CallsNested(fn', dom_tree_succ', calls')
    BY <1>1, <1>4 DEF Reading
  <2> QED BY <2>1
<1>8. \A c, i : (IsRenamed(c, i)' <=> IsRenamed(c, i)) /\ (IsFilled(c, i)' <=> IsFilled(c, i))
  BY <1>1, <1>5, <1>6 DEF IsRenamed, IsFilled, Reading
<1>9. PassTyped /\ PhisPlaced /\ KeysMade /\ LoadsGone /\ PairsMade /\ Balanced
  BY DEF Ready, RenameInv
<1>10. ASSUME NEW v \in Locals
       PROVE  \E g : /\ Sums(calls, v, g) /\ g[n] = Height(v)
                     /\ g[n - 1] = Height(v) - M!Popped(v, bb)
                     /\ g[n - 1] \in Nat /\ M!Popped(v, bb) \in Nat
  <2>1. PICK g : Sums(calls, v, g) /\ g[n] = Height(v)
    BY <1>9 DEF Balanced
  <2>2. g \in [0 .. n -> Nat] /\ \A i \in 1 .. n : g[i] = g[i - 1] + M!Done(calls[i], v)
    BY <2>1 DEF Sums
  <2>3. M!Done(calls[n], v) = M!Popped(v, bb) /\ M!Done(calls[n], v) \in Nat
    <3>1. /\ M!Done(calls[n], v) = M!Stored(v, calls[n].bb) + M!HasPhi(v, calls[n].bb)
          /\ M!Done(calls[n], v) \in Nat
      BY <1>2, <1>3, DoneFacts
    <3> QED BY <1>2, <3>1 DEF M!Popped
  <2> HIDE DEF n
  <2>4. n - 1 \in 0 .. n /\ g[n] = g[n - 1] + M!Done(calls[n], v)
    BY <1>2, <2>2
  <2>5. g[n - 1] \in Nat
    BY <2>2, <2>4
  <2> QED BY <2>1, <2>3, <2>4, <2>5
<1>11. /\ DOMAIN var_val_stack' = DOMAIN var_val_stack
       /\ \A v \in DOMAIN var_val_stack :
            /\ var_val_stack'[v] \in Seq(Values)
            /\ Len(var_val_stack'[v]) = Len(var_val_stack[v]) - M!Popped(v, bb)
  <2> DEFINE R == Values
  <2>1. DOMAIN var_val_stack \subseteq Locals /\ \A v \in DOMAIN var_val_stack : var_val_stack[v] \in Seq(R)
    BY <1>9 DEF PassTyped
  <2> HIDE DEF R
  <2> SUFFICES ASSUME NEW v \in DOMAIN var_val_stack
               PROVE  /\ var_val_stack'[v] \in Seq(R)
                      /\ Len(var_val_stack'[v]) = Len(var_val_stack[v]) - M!Popped(v, bb)
    BY <1>1 DEF R
  <2>2. Height(v) = Len(var_val_stack[v])
    BY DEF Height
  <2>3. M!Popped(v, bb) \in Nat /\ Len(var_val_stack[v]) - M!Popped(v, bb) \in Nat
    BY <1>10, <2>1, <2>2
  <2> DEFINE s == var_val_stack[v]
             p == M!Popped(v, bb)
  <2>4. s \in Seq(R) /\ p \in Nat /\ Len(s) - p \in Nat /\ var_val_stack'[v] = SubSeq(s, 1, Len(s) - p)
    BY <1>1, <2>1, <2>3
  <2> HIDE DEF s, p
  <2>5. SubSeq(s, 1, Len(s) - p) \in Seq(R) /\ Len(SubSeq(s, 1, Len(s) - p)) = Len(s) - p
    BY <2>4
  <2> QED BY <2>4, <2>5 DEF s, p
<1>12. PassTyped' /\ PhisPlaced'
  <2>1. PhisPlaced'
    BY <1>1, <1>9, SameProgram
  <2>2. Accessed' = Accessed
    BY <1>1, SameProgram
  <2> QED BY <1>1, <1>9, <1>11, <2>1, <2>2 DEF PassTyped, Reading
<1>13. KeysMade' /\ LoadsGone'
  <2>1. /\ DOMAIN var_val_stack' = DOMAIN var_val_stack /\ deleted' = deleted
        /\ \A v \in DOMAIN var_val_stack' : M!StoreBlocks(v) # {}
    BY <1>1, <1>9, <1>11 DEF KeysMade
  <2> QED BY <1>1, <1>8, <1>9, <2>1, KeysKept, LoadsKept
<1>14. PairsMade'
  <2>1. pairs' = pairs
    BY <1>1
  <2> QED BY <1>1, <1>8, <1>9, <2>1, EdgeNumbers, PairsStay
<1>15. PairsFresh'
  <2> SUFFICES ASSUME ds # <<>> PROVE M!TopRename'.pc # "successors"
    BY <1>1 DEF PairsFresh, M!Renaming
  <2> DEFINE m == n - 1
  <2>1. Len(ds) = m /\ m \in Nat
    BY <1>2, <1>4
  <2>2. m # 0
    <3>1. ds \in Seq(CallFrame(fn))
      BY <1>4 DEF CallsNested
    <3> DEFINE R == CallFrame(fn)
    <3> HIDE DEF R, m
    <3>2. ds \in Seq(R)
      BY <3>1 DEF R
    <3> QED BY <2>1, <3>2
  <2>3. m \in 1 .. n - 1 /\ m \in 1 .. n /\ m < n
    BY <1>2, <2>1, <2>2
  <2>4. ds[m] = calls[m] /\ calls[m].pc = "children"
    BY <1>2, <1>4, <2>3 DEF CallsNested
  <2>5. M!TopRename' = ds[m]
    BY <1>1, <2>1 DEF M!TopRename
  <2> QED BY <2>4, <2>5
<1>16. Balanced'
  <2> SUFFICES ASSUME NEW v \in Locals
               PROVE  (\E g : Sums(calls, v, g) /\ g[Len(calls)] = Height(v))'
    BY DEF Balanced
  <2>1. PICK g : /\ Sums(calls, v, g) /\ g[n] = Height(v)
                 /\ g[n - 1] = Height(v) - M!Popped(v, bb)
                 /\ g[n - 1] \in Nat /\ M!Popped(v, bb) \in Nat
    BY <1>10
  <2>2. /\ g \in [0 .. n -> Nat] /\ g[0] = 0
        /\ \A i \in 1 .. n : g[i] = g[i - 1] + M!Done(calls[i], v)
    BY <2>1 DEF Sums
  <2>3. Height(v)' = g[n - 1]
    <3>1. CASE v \in DOMAIN var_val_stack
      BY <1>11, <2>1, <3>1 DEF Height
    <3>2. CASE v \notin DOMAIN var_val_stack
      <4>1. Height(v) = 0 /\ Height(v)' = 0
        BY <1>11, <3>2 DEF Height
      <4> QED BY <2>1, <4>1
    <3> QED BY <3>1, <3>2
  <2> HIDE DEF n
  <2>4. PICK h : h = [i \in 0 .. n - 1 |-> g[i]]
    OBVIOUS
  <2>5. 0 .. n - 1 \subseteq 0 .. n /\ 0 \in 0 .. n - 1 /\ n - 1 \in 0 .. n - 1
    BY <1>2
  <2>6. h \in [0 .. n - 1 -> Nat] /\ h[0] = 0 /\ \A i \in 0 .. n - 1 : h[i] = g[i]
    BY <2>2, <2>4, <2>5
  <2>7. \A i \in 1 .. n - 1 : h[i] = h[i - 1] + M!Done(calls[i], v)'
    <3> SUFFICES ASSUME NEW i \in 1 .. n - 1 PROVE h[i] = h[i - 1] + M!Done(calls[i], v)'
      OBVIOUS
    <3>1. i \in 0 .. n - 1 /\ i - 1 \in 0 .. n - 1 /\ i \in 1 .. n
      BY <1>2
    <3>2. calls'[i] = calls[i]
      BY <1>1, <1>4
    <3>3. M!Done(calls[i], v)' = M!Done(calls[i], v)
      BY <1>1, <3>2, DoneLater
    <3> QED BY <2>2, <2>6, <3>1, <3>3
  <2>8. Len(calls') = n - 1
    BY <1>1, <1>4
  <2>9. Sums(calls, v, h)'
    BY <2>6, <2>7, <2>8 DEF Sums
  <2>10. (h[Len(calls)] = Height(v))'
    BY <2>3, <2>5, <2>6, <2>8
  <2> QED BY <2>9, <2>10
<1> QED BY <1>7, <1>12, <1>13, <1>14, <1>15, <1>16 DEF RenameInv

-----------------------------------------------------------------------------
(* GeneratePhi: a phi stands in the frontier of a block that sets the      *)
(* variable, and the first call is made.                                   *)

GrownAt(v, f, n) ==
  IF n = 0 THEN M!Frontier(M!StoreBlocks(v)) ELSE f[n - 1] \cup M!Frontier(f[n - 1])
Grown(v, m, f) == f = [n \in 0 .. m |-> GrownAt(v, f, n)]

LEMMA GrownExists ==
  ASSUME NEW v, NEW m \in Nat
  PROVE  \E f : Grown(v, m, f)
<1> DEFINE S == {n \in 0 .. m : \E f : Grown(v, n, f)}
<1>1. 0 \in S
  <2>1. Grown(v, 0, [n \in 0 .. 0 |-> M!Frontier(M!StoreBlocks(v))])
    BY DEF Grown, GrownAt
  <2> QED BY <2>1
<1>2. ASSUME NEW n \in Nat, n < m, n \in S PROVE n + 1 \in S
  <2>1. PICK f : Grown(v, n, f)
    BY <1>2
  <2> DEFINE g == [i \in 0 .. n + 1 |-> GrownAt(v, f, i)]
  <2>2. \A i \in 0 .. n : g[i] = f[i]
    BY <2>1 DEF Grown
  <2>3. \A i \in 0 .. n + 1 : i # 0 => i - 1 \in 0 .. n
    OBVIOUS
  <2>4. \A i \in 0 .. n + 1 : GrownAt(v, f, i) = GrownAt(v, g, i)
    <3> HIDE DEF g
    <3> QED BY <2>2, <2>3 DEF GrownAt
  <2>5. Grown(v, n + 1, g)
    BY <2>4 DEF Grown
  <2>6. n + 1 \in 0 .. m
    BY <1>2
  <2> HIDE DEF g
  <2> QED BY <2>5, <2>6
<1>3. 0 .. m \subseteq S
  <2> HIDE DEF S
  <2> QED BY <1>1, <1>2, CountingUp
<1> QED BY <1>3

LEMMA PhiBlocksIsLast ==
  ASSUME NEW v, IsFiniteSet(fn.blocks)
  PROVE  \E m \in Nat : m = Cardinality(fn.blocks) /\ \E f : Grown(v, m, f) /\ M!PhiBlocks(v) = f[m]
<1> DEFINE m == Cardinality(fn.blocks)
           f == CHOOSE g : g = [n \in 0 .. m |->
                  IF n = 0 THEN M!Frontier(M!StoreBlocks(v))
                  ELSE LET near == g[n - 1] IN near \cup M!Frontier(near)]
<1>1. m \in Nat
  BY FS_CardinalityType
<1>2. \E g : g = [n \in 0 .. m |->
                  IF n = 0 THEN M!Frontier(M!StoreBlocks(v))
                  ELSE LET near == g[n - 1] IN near \cup M!Frontier(near)]
  <2> HIDE DEF m, f
  <2>1. PICK g : Grown(v, m, g)
    BY <1>1, GrownExists
  <2> QED BY <2>1 DEF Grown, GrownAt
<1>3. Grown(v, m, f)
  <2> HIDE DEF m
  <2> QED BY <1>2 DEF Grown, GrownAt
<1>4. M!PhiBlocks(v) = f[m]
  <2>1. M!Cardinality(fn.blocks) = m
    BY SameGraphs
  <2> QED BY <2>1, Zenon DEF M!PhiBlocks
<1> QED BY <1>1, <1>3, <1>4

\* The work list takes a block in only from the frontier of one that stores to v
\* or that it holds already.
LEMMA PhiBlocksFacts ==
  ASSUME FlowGraph(fn), FrontierOf(fn, dom_frontier), NEW v,
         M!StoreBlocks(v) \subseteq fn.blocks
  PROVE  /\ M!PhiBlocks(v) \subseteq fn.blocks
         /\ M!PhiBlocks(v) # {} => M!StoreBlocks(v) # {}
         /\ \A b \in M!PhiBlocks(v) : \E c \in M!StoreBlocks(v) \cup M!PhiBlocks(v) :
              b \in dom_frontier[c]
<1> DEFINE B == M!StoreBlocks(v)
<1>1. IsFiniteSet(fn.blocks) /\ Reachable(fn) \subseteq fn.blocks
  BY FlowFacts, ReachableFacts
<1>2. PICK m \in Nat : \E f : Grown(v, m, f) /\ M!PhiBlocks(v) = f[m]
  BY <1>1, PhiBlocksIsLast
<1>3. PICK f : Grown(v, m, f) /\ M!PhiBlocks(v) = f[m]
  BY <1>2
<1>4. \A b \in fn.blocks : dom_frontier[b] \subseteq fn.blocks
  BY <1>1 DEF FrontierOf
<1>5. \A C : M!Frontier(C) = {b \in UNION {dom_frontier[c] : c \in C} : TRUE}
  BY DEF M!Frontier
<1> DEFINE S == {n \in 0 .. m : /\ f[n] \subseteq fn.blocks
                                /\ B = {} => f[n] = {}
                                /\ \A b \in f[n] : \E c \in B \cup f[n] : b \in dom_frontier[c]}
<1> HIDE DEF B
<1>6. 0 \in S
  <2>1. f[0] = M!Frontier(B) /\ 0 \in 0 .. m
    BY <1>3 DEF Grown, GrownAt, B
  <2>2. \A b \in f[0] : \E c \in B : b \in dom_frontier[c]
    BY <1>5, <2>1
  <2>3. f[0] \subseteq fn.blocks
    BY <1>4, <2>2 DEF B
  <2> QED BY <2>1, <2>2, <2>3
<1>7. ASSUME NEW n \in Nat, n < m, n \in S PROVE n + 1 \in S
  <2>1. n + 1 \in 0 .. m /\ (n + 1) - 1 = n /\ n + 1 # 0
    BY <1>7
  <2>2. f[n + 1] = f[n] \cup M!Frontier(f[n])
    BY <1>3, <2>1 DEF Grown, GrownAt
  <2>3. /\ f[n] \subseteq fn.blocks
        /\ B = {} => f[n] = {}
        /\ \A b \in f[n] : \E c \in B \cup f[n] : b \in dom_frontier[c]
    BY <1>7
  <2>4. \A b \in M!Frontier(f[n]) : \E c \in f[n] : b \in dom_frontier[c]
    BY <1>5
  <2> DEFINE X == f[n]
             Y == f[n + 1]
  <2> HIDE DEF X, Y, S
  <2>5. Y = X \cup M!Frontier(X)
    BY <2>2 DEF X, Y
  <2>6. /\ X \subseteq fn.blocks
        /\ B = {} => X = {}
        /\ \A b \in X : \E c \in B \cup X : b \in dom_frontier[c]
        /\ \A b \in M!Frontier(X) : \E c \in X : b \in dom_frontier[c]
    BY <2>3, <2>4 DEF X
  <2>7. ASSUME NEW b \in Y PROVE b \in fn.blocks /\ \E c \in B \cup Y : b \in dom_frontier[c]
    <3>1. CASE b \in X
      BY <2>5, <2>6, <3>1
    <3>2. CASE b \in M!Frontier(X)
      <4>1. PICK c \in X : b \in dom_frontier[c]
        BY <2>6, <3>2
      <4> QED BY <1>4, <2>5, <2>6, <4>1
    <3> QED BY <2>5, <3>1, <3>2
  <2>8. B = {} => Y = {}
    BY <2>5, <2>6
  <2> QED BY <2>1, <2>7, <2>8 DEF S, Y
<1>8. m \in S
  <2>1. 0 .. m \subseteq S
    <3> HIDE DEF S
    <3> QED BY <1>6, <1>7, CountingUp
  <2> QED BY <2>1
<1> QED BY <1>3, <1>8 DEF B

LEMMA GeneratePhiKeeps ==
  ASSUME Built, Given(fn, dom_frontier, dom_tree_succ), M!GeneratePhi,
         pairs = {}, var_val_stack = <<>>, deleted = {}
  PROVE  RenameInv'
<1> DEFINE I == M!InstrsOf("load", Locals \cup Globals) \cup M!InstrsOf("store", Locals \cup Globals)
           cs == <<M!Rename(Entry)>>
<1>1. /\ WellFormed(fn) /\ FlowGraph(fn) /\ TreeOf(fn, dom_tree_succ) /\ FrontierOf(fn, dom_frontier)
      /\ UNCHANGED <<fn, dom_frontier, dom_tree_succ>>
  BY DEF Given, M!GeneratePhi, M!given
<1>2. /\ phis' = UNION {M!PhiBlocks(v) \X {v} : v \in Locals}
      /\ operand' = [id \in I |-> M!InitialOperand(id)]
      /\ calls' = cs /\ pairs' = {} /\ var_val_stack' = <<>> /\ deleted' = {} /\ stage' = "rename"
  BY SameGraphs DEF M!GeneratePhi
<1>3. /\ \A op, vars : M!InstrsOf(op, vars)' = M!InstrsOf(op, vars)
      /\ \A v : M!StoreBlocks(v)' = M!StoreBlocks(v)
  BY <1>1 DEF M!InstrsOf, M!At, M!StoreBlocks
<1>4. \A v : M!StoreBlocks(v) \subseteq fn.blocks
  BY DEF M!StoreBlocks, M!InstrsOf
<1>5. \A phi \in phis' : /\ phi \in fn.blocks \X Locals /\ phi = <<phi[1], phi[2]>>
                         /\ phi[1] \in M!PhiBlocks(phi[2])
  <2> SUFFICES ASSUME NEW phi \in phis'
               PROVE  /\ phi \in fn.blocks \X Locals /\ phi = <<phi[1], phi[2]>>
                      /\ phi[1] \in M!PhiBlocks(phi[2])
    OBVIOUS
  <2>1. PICK v \in Locals : phi \in M!PhiBlocks(v) \X {v}
    BY <1>2
  <2>2. M!PhiBlocks(v) \subseteq fn.blocks
    BY <1>1, <1>4, PhiBlocksFacts
  <2> QED BY <2>1, <2>2
<1>6. \A v \in Locals : \A b \in M!PhiBlocks(v) : <<b, v>> \in phis'
  BY <1>2
<1>7. PassTyped'
  <2>1. phis' \subseteq fn'.blocks \X Locals
    BY <1>1, <1>5
  <2>2. Accessed' = I
    BY <1>3 DEF Accessed
  <2>3. ASSUME NEW id \in I PROVE M!InitialOperand(id) \in Values
    <3>1. id[1] \in fn.blocks /\ id[2] \in DOMAIN fn.code[id[1]] /\ M!At(id) = fn.code[id[1]][id[2]]
      <4>1. PICK op, vars : id \in M!InstrsOf(op, vars)
        OBVIOUS
      <4>2. id = <<id[1], id[2]>>
        BY <1>1, <4>1, InstrFacts
      <4>3. <<id[1], id[2]>> \in M!InstrsOf(op, vars)
        BY <4>1, <4>2
      <4>4. id[1] \in fn.blocks /\ id[2] \in DOMAIN fn.code[id[1]]
        BY <1>1, <4>3, InstrFacts
      <4> QED BY <4>4 DEF M!At
    <3>2. fn.code[id[1]] \in Seq(Instr) /\ id[1] \in Nat /\ id[2] \in Nat
      BY <1>1, <3>1, InstrFacts
    <3>3. M!At(id) \in Instr
      <4> HIDE DEF Instr
      <4> QED BY <3>1, <3>2
    <3>4. M!At(id).src \in Nat
      BY <3>3 DEF Instr
    <3> QED BY <3>2, <3>4 DEF M!InitialOperand, M!Value, Values
  <2>4. operand' \in [I -> Values]
    BY <1>2, <2>3
  <2>5. DOMAIN var_val_stack' = {}
    BY <1>2
  <2> QED BY <1>2, <2>1, <2>2, <2>4, <2>5 DEF PassTyped
<1>8. CallsNested(fn, dom_tree_succ, calls)' /\ \A b, i : ~IsRenamed(b, i)' /\ ~IsFilled(b, i)'
  <2>1. /\ CallsNested(fn, dom_tree_succ, cs)
        /\ \A b, i : ~Renamed(fn, dom_tree_succ, cs, b, i) /\ ~Filled(fn, dom_tree_succ, cs, b, i)
    BY <1>1, FirstCall
  <2> HIDE DEF cs
  <2>2. CallsNested(fn', dom_tree_succ', calls')
    BY <1>1, <1>2, <2>1
  <2>3. \A b, i : ~Renamed(fn', dom_tree_succ', calls', b, i) /\ ~Filled(fn', dom_tree_succ', calls', b, i)
    BY <1>1, <1>2, <2>1
  <2> QED BY <2>2, <2>3 DEF IsRenamed, IsFilled
<1>9. PhisPlaced'
  <2>1. ASSUME NEW phi \in phis'
        PROVE  /\ M!StoreBlocks(phi[2]) # {}
               /\ \E b \in fn.blocks : /\ <<b, phi[2]>> \in phis' \/ b \in M!StoreBlocks(phi[2])
                                       /\ phi[1] \in dom_frontier[b]
    <3> DEFINE v == phi[2]
    <3>1. phi[1] \in M!PhiBlocks(v) /\ v \in Locals
      BY <1>5
    <3> HIDE DEF v
    <3>2. M!StoreBlocks(v) # {} /\ M!PhiBlocks(v) \subseteq fn.blocks
      BY <1>1, <1>4, <3>1, PhiBlocksFacts
    <3>3. PICK c \in M!StoreBlocks(v) \cup M!PhiBlocks(v) : phi[1] \in dom_frontier[c]
      BY <1>1, <1>4, <3>1, PhiBlocksFacts
    <3>4. c \in fn.blocks
      BY <1>4, <3>2, <3>3
    <3>5. <<c, v>> \in phis' \/ c \in M!StoreBlocks(v)
      BY <1>6, <3>1, <3>3
    <3> QED BY <3>2, <3>3, <3>4, <3>5 DEF v
  <2> QED BY <1>1, <1>3, <2>1 DEF PhisPlaced, Sets
<1>10. KeysMade' /\ LoadsGone'
  BY <1>2, <1>8 DEF KeysMade, LoadsGone
<1>11. PairsMade'
  BY <1>2, <1>8 DEF PairsMade
<1>12. PairsFresh'
  BY <1>2 DEF PairsFresh
<1>13. Balanced'
  <2> DEFINE g == [n \in 0 .. 1 |-> 0]
  <2> SUFFICES ASSUME NEW v \in Locals
               PROVE  (\E h : Sums(calls, v, h) /\ h[Len(calls)] = Height(v))'
    BY DEF Balanced
  <2>1. Len(calls') = 1 /\ calls'[1] = M!Rename(Entry) /\ 1 .. 1 = {1} /\ 1 - 1 = 0
    BY <1>2
  <2>2. Height(v)' = 0
    BY <1>2 DEF Height
  <2>3. M!Done(calls[1], v)' = 0
    BY <2>1 DEF M!Done, M!Rename
  <2>4. g \in [0 .. 1 -> Nat] /\ g[0] = 0 /\ g[1] = 0
    OBVIOUS
  <2>5. PICK h : h = g
    OBVIOUS
  <2>6. h \in [0 .. 1 -> Nat] /\ h[0] = 0 /\ h[1] = 0
    BY <2>4, <2>5
  <2>7. Sums(calls, v, h)'
    BY <2>1, <2>3, <2>6 DEF Sums
  <2> QED BY <2>1, <2>2, <2>6, <2>7
<1> QED BY <1>7, <1>8, <1>9, <1>10, <1>11, <1>12, <1>13 DEF RenameInv

-----------------------------------------------------------------------------
(* The pass keeps its invariant, and the driver too.                       *)

\* re_name goes on, or stops on a variable that may be read unset.
LEMMA RenamingKeeps ==
  ASSUME Ready,
         \/ M!RenamePhis \/ M!SkipInstr \/ M!RenameLoad \/ M!RenameStore \/ M!EndInstrs
         \/ M!FillSuccessor \/ M!EndSuccessors \/ M!RenameChild \/ M!LeaveBlock
  PROVE  /\ RenameInv' /\ Reading /\ stage' \in {"rename", "undefined", "aborted"}
         /\ stage' # "rename" => \E v \in Locals : M!StoreBlocks(v) # {} /\ ~M!StoredFirst(v)
<1>1. stage = "rename"
  BY DEF Ready
<1>2. CASE M!RenamePhis
  <2>1. Reading /\ stage' = "rename"
    BY <1>1, <1>2 DEF M!RenamePhis, M!given, Reading
  <2> QED BY <1>2, <2>1, RenamePhisKeeps
<1>3. CASE M!SkipInstr
  <2>1. Reading /\ stage' = "rename"
    BY <1>1, <1>3 DEF M!SkipInstr, M!given, Reading
  <2> QED BY <1>3, <2>1, SkipKeeps
<1>4. CASE M!RenameLoad
  <2>1. Reading /\ stage' \in {"rename", "undefined"}
    BY <1>1, <1>4 DEF M!RenameLoad, M!given, Reading
  <2> QED BY <1>4, <2>1, RenameLoadKeeps
<1>5. CASE M!RenameStore
  <2>1. Reading /\ stage' = "rename"
    BY <1>1, <1>5 DEF M!RenameStore, M!given, Reading
  <2> QED BY <1>5, <2>1, RenameStoreKeeps
<1>6. CASE M!EndInstrs
  <2>1. Reading /\ stage' = "rename"
    BY <1>1, <1>6 DEF M!EndInstrs, M!given, Reading
  <2> QED BY <1>6, <2>1, EndInstrsKeeps
<1>7. CASE M!FillSuccessor
  <2>1. Reading /\ stage' \in {"rename", "aborted"}
    BY <1>1, <1>7 DEF M!FillSuccessor, M!given, Reading
  <2> QED BY <1>7, <2>1, FillSuccessorKeeps
<1>8. CASE M!EndSuccessors
  <2>1. Reading /\ stage' = "rename"
    BY <1>1, <1>8 DEF M!EndSuccessors, M!given, Reading
  <2> QED BY <1>8, <2>1, EndSuccessorsKeeps
<1>9. CASE M!RenameChild
  <2>1. Reading /\ stage' = "rename"
    BY <1>1, <1>9 DEF M!RenameChild, M!given, Reading
  <2> QED BY <1>9, <2>1, RenameChildKeeps
<1>10. CASE M!LeaveBlock
  <2>1. Reading /\ stage' = "rename"
    BY <1>1, <1>10 DEF M!LeaveBlock, M!given, Reading
  <2> QED BY <1>10, <2>1, LeaveBlockKeeps
<1> QED BY <1>2, <1>3, <1>4, <1>5, <1>6, <1>7, <1>8, <1>9, <1>10

LEMMA Mem2RegKeeps ==
  ASSUME Mem2RegInv, M!Mem2RegStep, UNCHANGED stack
  PROVE  Mem2RegInv' /\ stage' # "off"
<1>1. stage \in {"place", "rename", "remove"}
  BY DEF M!Mem2RegStep, M!GeneratePhi, M!RenamePhis, M!SkipInstr, M!RenameLoad, M!RenameStore,
         M!EndInstrs, M!FillSuccessor, M!EndSuccessors, M!RenameChild, M!LeaveBlock,
         M!EndRename, M!RemoveAlloca, M!Renaming, M!HasInstr
<1>2. Built /\ Given(fn, dom_frontier, dom_tree_succ)
  BY <1>1 DEF Mem2RegInv
<1>3. ASSUME fn' = fn, dom_frontier' = dom_frontier, dom_tree_succ' = dom_tree_succ
      PROVE  Built' /\ Given(fn, dom_frontier, dom_tree_succ)'
  <2>1. Given(fn', dom_frontier', dom_tree_succ')
    BY <1>2, <1>3
  <2> QED BY <1>2, <1>3, <2>1 DEF Built
<1>4. CASE M!GeneratePhi
  <2>1. /\ stage = "place" /\ stage' = "rename"
        /\ fn' = fn /\ dom_frontier' = dom_frontier /\ dom_tree_succ' = dom_tree_succ
    BY <1>4 DEF M!GeneratePhi, M!given
  <2>2. pairs = {} /\ var_val_stack = <<>> /\ deleted = {}
    BY <2>1 DEF Mem2RegInv
  <2>3. RenameInv'
    BY <1>2, <1>4, <2>2, GeneratePhiKeeps
  <2>4. FailsOnlyOnUnstored'
    BY <2>1 DEF FailsOnlyOnUnstored, M!FailsOnlyOnUnstored
  <2> QED BY <1>3, <2>1, <2>3, <2>4 DEF Mem2RegInv, M!Stages
<1>5. CASE \/ M!RenamePhis \/ M!SkipInstr \/ M!RenameLoad \/ M!RenameStore \/ M!EndInstrs
           \/ M!FillSuccessor \/ M!EndSuccessors \/ M!RenameChild \/ M!LeaveBlock
  <2>1. stage = "rename"
    BY <1>5 DEF M!RenamePhis, M!SkipInstr, M!RenameLoad, M!RenameStore, M!EndInstrs,
         M!FillSuccessor, M!EndSuccessors, M!RenameChild, M!LeaveBlock, M!Renaming, M!HasInstr
  <2>2. Ready
    BY <1>2, <2>1 DEF Ready, Mem2RegInv
  <2>3. /\ RenameInv' /\ Reading /\ stage' \in {"rename", "undefined", "aborted"}
        /\ stage' # "rename" => \E v \in Locals : M!StoreBlocks(v) # {} /\ ~M!StoredFirst(v)
    BY <1>5, <2>2, RenamingKeeps
  <2>4. fn' = fn /\ dom_frontier' = dom_frontier /\ dom_tree_succ' = dom_tree_succ
    BY <2>3 DEF Reading
  <2>5. FailsOnlyOnUnstored'
    <3>1. \A v : M!StoreBlocks(v)' = M!StoreBlocks(v) /\ (M!StoredFirst(v)' <=> M!StoredFirst(v))
      BY <2>3, SameProgram
    <3>2. CASE stage' = "rename"
      BY <3>2 DEF FailsOnlyOnUnstored, M!FailsOnlyOnUnstored
    <3>3. CASE stage' # "rename"
      <4>1. \E v \in Locals : M!StoreBlocks(v)' # {} /\ ~M!StoredFirst(v)'
        BY <2>3, <3>1, <3>3
      <4> QED BY <4>1 DEF FailsOnlyOnUnstored, M!FailsOnlyOnUnstored
    <3> QED BY <3>2, <3>3
  <2> QED BY <1>3, <2>3, <2>4, <2>5 DEF Mem2RegInv, M!Stages
<1>6. CASE M!EndRename \/ M!RemoveAlloca
  <2>1. /\ RenameInv /\ Reading /\ UNCHANGED <<pairs, operand, var_val_stack, calls>>
        /\ deleted \subseteq deleted' /\ stage' \in {"remove", "promoted"} /\ calls = <<>>
    BY <1>6 DEF Mem2RegInv, M!EndRename, M!RemoveAlloca, M!given, Reading
  <2>2. RenameInv'
    BY <1>2, <2>1, StageChangeKeeps
  <2>3. fn' = fn /\ dom_frontier' = dom_frontier /\ dom_tree_succ' = dom_tree_succ
    BY <2>1 DEF Reading
  <2>4. FailsOnlyOnUnstored'
    BY <2>1 DEF FailsOnlyOnUnstored, M!FailsOnlyOnUnstored
  <2> QED BY <1>3, <2>1, <2>2, <2>3, <2>4 DEF Mem2RegInv, M!Stages
<1> QED BY <1>4, <1>5, <1>6 DEF M!Mem2RegStep

LEMMA PromotionInitially == PromotionInit => PromotionInv
<1> SUFFICES ASSUME PromotionInit PROVE PromotionInv
  OBVIOUS
<1>1. BuilderInit /\ M!Mem2RegOff
  BY DEF PromotionInit
<1>2. Inv /\ Scoping
  BY <1>1, Initially
<1>3. EntryInv
  BY <1>1 DEF BuilderInit, EntryInv
<1> QED BY <1>1, <1>2, <1>3 DEF PromotionInv, Mem2RegInv, M!Mem2RegOff, M!Stages,
           FailsOnlyOnUnstored, M!FailsOnlyOnUnstored

\* Nothing that Mem2Reg keeps changes.
LEMMA PassRests ==
  ASSUME PromotionInv, UNCHANGED <<fn, stack, dom_frontier, dom_tree_succ, promotion>>,
         stage = "off" => Inv' /\ Scoping' /\ EntryInv'
  PROVE  PromotionInv'
<1>1. Reading /\ UNCHANGED <<stage, pairs, operand, var_val_stack, calls, deleted>>
  BY DEF promotion, Reading
<1>2. Given(fn, dom_frontier, dom_tree_succ)' <=> Given(fn, dom_frontier, dom_tree_succ)
  <2>1. Given(fn', dom_frontier', dom_tree_succ') <=> Given(fn, dom_frontier, dom_tree_succ)
    OBVIOUS
  <2> QED BY <2>1
<1>3. Built' <=> Built
  BY DEF Built
<1>4. FailsOnlyOnUnstored'
  <2>1. \A v : M!StoreBlocks(v)' = M!StoreBlocks(v) /\ (M!StoredFirst(v)' <=> M!StoredFirst(v))
    BY <1>1, SameProgram
  <2>2. FailsOnlyOnUnstored
    BY DEF PromotionInv, Mem2RegInv
  <2> QED BY <1>1, <2>1, <2>2 DEF FailsOnlyOnUnstored, M!FailsOnlyOnUnstored
<1>5. CASE stage \in {"off", "place"}
  <2>1. /\ phis' = {} /\ pairs' = {} /\ var_val_stack' = <<>> /\ calls' = <<>> /\ deleted' = {}
        /\ stage' = stage
    BY <1>1, <1>5 DEF PromotionInv, Mem2RegInv, Reading
  <2>2. Mem2RegInv'
    BY <1>2, <1>3, <1>4, <1>5, <2>1 DEF PromotionInv, Mem2RegInv, M!Stages
  <2> QED BY <2>1, <2>2 DEF PromotionInv
<1>6. CASE stage \notin {"off", "place"}
  <2>1. RenameInv /\ Given(fn, dom_frontier, dom_tree_succ)
    BY <1>6 DEF PromotionInv, Mem2RegInv
  <2>2. RenameInv'
    BY <1>1, <2>1, StageChangeKeeps
  <2> QED BY <1>1, <1>2, <1>3, <1>4, <1>6, <2>2 DEF PromotionInv, Mem2RegInv
<1> QED BY <1>5, <1>6

LEMMA PromotionBuildKeeps ==
  ASSUME BuilderAssumption, PromotionInv, Build
  PROVE  PromotionInv'
<1>1. BuilderStep /\ UNCHANGED <<dominatorResults, promotion>>
  BY DEF Build
<1>2. ~Built /\ stage = "off" /\ stage' = "off"
  BY <1>1, BuildingUnbuilt DEF PromotionInv, Mem2RegInv, promotion
<1>3. Inv' /\ Scoping' /\ EntryInv'
  BY <1>1, <1>2, Inductive, BuilderStepEntry DEF PromotionInv, BuilderNext
<1>4. Mem2RegInv'
  BY <1>1, <1>2 DEF PromotionInv, Mem2RegInv, promotion, M!Stages, FailsOnlyOnUnstored,
                    M!FailsOnlyOnUnstored
<1> QED BY <1>2, <1>3, <1>4 DEF PromotionInv

LEMMA PromotionDominatorsKeeps ==
  ASSUME PromotionInv, RunDominators
  PROVE  PromotionInv'
<1>1. /\ Built /\ stage = "off" /\ stage' = "place" /\ fn' = fn /\ stack' = stack
      /\ UNCHANGED <<phis, pairs, operand, var_val_stack, calls, deleted>>
  BY DEF RunDominators
<1>2. Inv /\ EntryInv
  BY <1>1 DEF PromotionInv
<1>3. Given(fn, dom_frontier', dom_tree_succ')
  BY <1>2, DominatorsGiven
<1>4. Built' /\ Given(fn, dom_frontier, dom_tree_succ)'
  <2>1. Given(fn', dom_frontier', dom_tree_succ')
    BY <1>1, <1>3
  <2> QED BY <1>1, <2>1 DEF Built
<1> QED BY <1>1, <1>4 DEF PromotionInv, Mem2RegInv, M!Stages, FailsOnlyOnUnstored,
                          M!FailsOnlyOnUnstored

LEMMA PromotionInductive ==
  ASSUME BuilderAssumption, PromotionInv, [PromotionNext]_promotionVars
  PROVE  PromotionInv'
<1>1. CASE Build
  BY <1>1, PromotionBuildKeeps
<1>2. CASE RunDominators
  BY <1>2, PromotionDominatorsKeeps
<1>3. CASE Promote
  <2>1. M!Mem2RegStep /\ stack' = stack
    BY <1>3 DEF Promote
  <2> QED BY <2>1, Mem2RegKeeps DEF PromotionInv
<1>4. ASSUME UNCHANGED <<builderVars, dominatorResults, promotion>> PROVE PromotionInv'
  <2>1. UNCHANGED <<fn, stack, dom_frontier, dom_tree_succ, promotion>>
    BY <1>4 DEF builderVars, dominatorResults
  <2>2. Inv /\ Scoping /\ EntryInv => Inv' /\ Scoping' /\ EntryInv'
    BY <1>4 DEF builderVars, Inv, Scoping, ScopesBalanced, EntryInv
  <2> QED BY <2>1, <2>2, PassRests DEF PromotionInv
<1>5. CASE Analyse
  BY <1>4, <1>5 DEF Analyse
<1>6. CASE Run
  <2>1. UNCHANGED <<fn, dom_frontier, dom_tree_succ, promotion>> /\ UNCHANGED <<insert, stack, depth, pre_enter_scope, nodes>>
    BY <1>6 DEF Run, E!ExecutionStep, E!program, promotion
  <2> QED BY <1>4, <2>1 DEF builderVars, dominatorResults
<1>7. CASE Ended \/ UNCHANGED promotionVars
  BY <1>4, <1>7 DEF Ended, promotionVars
<1> QED BY <1>1, <1>2, <1>3, <1>5, <1>6, <1>7 DEF PromotionNext

(* From the visitor's first step on: the active calls of re_name are nested *)
(* as the dominator tree is, what they and the phis have pushed is on the   *)
(* stacks, and every load, store and phi operand behind them is dealt with. *)
THEOREM PromotionInvariant == PromotionSpec => []PromotionInv
BY BuilderAssumption, PromotionInitially, PromotionInductive, PTL DEF PromotionSpec

-----------------------------------------------------------------------------
(* What the invariant says of the stacks, of the accesses and of the phis. *)

LEMMA StacksAreBalanced == Mem2RegInv => StacksBalanced
<1> SUFFICES ASSUME Mem2RegInv, stage \in {"rename", "remove", "promoted"},
                    NEW v \in DOMAIN var_val_stack
             PROVE  LET sum[n \in 0 .. Len(calls)] ==
                          IF n = 0 THEN 0 ELSE sum[n - 1] + M!Done(calls[n], v)
                    IN  Len(var_val_stack[v]) = sum[Len(calls)]
  BY DEF StacksBalanced, M!StacksBalanced
<1> DEFINE m == Len(calls)
           sum == CHOOSE s : s = [n \in 0 .. m |-> IF n = 0 THEN 0 ELSE s[n - 1] + M!Done(calls[n], v)]
<1>1. RenameInv
  BY DEF Mem2RegInv
<1>2. v \in Locals /\ Height(v) = Len(var_val_stack[v])
  BY <1>1 DEF RenameInv, PassTyped, Height
<1>3. m \in Nat
  <2>1. calls \in Seq(CallFrame(fn))
    BY <1>1 DEF RenameInv, CallsNested
  <2> HIDE DEF CallFrame
  <2> QED BY <2>1
<1>4. PICK g : Sums(calls, v, g) /\ g[m] = Height(v)
  BY <1>1, <1>2 DEF RenameInv, Balanced
<1> HIDE DEF m
<1>5. \A n \in 0 .. m : g[n] = IF n = 0 THEN 0 ELSE g[n - 1] + M!Done(calls[n], v)
  BY <1>3, <1>4 DEF Sums, m
<1>6. g = [n \in 0 .. m |-> IF n = 0 THEN 0 ELSE g[n - 1] + M!Done(calls[n], v)]
  <2>1. g \in [0 .. m -> Nat]
    BY <1>4 DEF Sums, m
  <2> QED BY <1>5, <2>1
<1>7. sum = [n \in 0 .. m |-> IF n = 0 THEN 0 ELSE sum[n - 1] + M!Done(calls[n], v)]
  BY <1>6
<1> HIDE DEF sum
<1> DEFINE S == {n \in 0 .. m : sum[n] = g[n]}
<1>8. 0 \in S
  BY <1>3, <1>5, <1>7
<1>9. ASSUME NEW n \in Nat, n < m, n \in S PROVE n + 1 \in S
  <2>1. n + 1 \in 0 .. m /\ (n + 1) - 1 = n /\ n + 1 # 0
    BY <1>3, <1>9
  <2>2. sum[n + 1] = sum[n] + M!Done(calls[n + 1], v)
    BY <1>7, <2>1
  <2>3. g[n + 1] = g[n] + M!Done(calls[n + 1], v)
    BY <1>5, <2>1
  <2> QED BY <1>9, <2>1, <2>2, <2>3
<1>10. m \in S
  <2> HIDE DEF S
  <2>1. 0 .. m \subseteq S
    BY <1>3, <1>8, <1>9, CountingUp
  <2> QED BY <1>3, <2>1
<1>11. Len(var_val_stack[v]) = sum[m]
  BY <1>2, <1>4, <1>10
<1> QED BY <1>11 DEF sum, m

LEMMA AccessesAreRemoved == Mem2RegInv => AccessesRemoved
<1> SUFFICES ASSUME Mem2RegInv, stage = "promoted", NEW id \in M!Accesses, id \notin deleted,
                    id[1] \in Reachable(fn), M!StoredFirst(M!At(id).var)
             PROVE  FALSE
  BY SameGraphs DEF AccessesRemoved, M!AccessesRemoved
<1>1. RenameInv /\ calls = <<>>
  BY DEF Mem2RegInv
<1>2. IsRenamed(id[1], id[2])
  BY <1>1, NothingAwaits DEF IsRenamed
<1>3. CASE id \in M!InstrsOf("load", Locals)
  BY <1>1, <1>2, <1>3 DEF RenameInv, LoadsGone
<1>4. CASE id \in M!InstrsOf("store", Locals)
  BY <1>1, <1>2, <1>4 DEF RenameInv, KeysMade
<1> QED BY <1>3, <1>4 DEF M!Accesses

\* When the renaming is over, a predecessor of a phi's block below a block that sets
\* the variable has its pair.
LEMMA PairFor ==
  ASSUME RenameInv, calls = <<>>, FlowGraph(fn), NEW phi \in phis, NEW q \in Reachable(fn),
         phi[1] \in Range(fn.succ[q]),
         NEW a \in fn.blocks, Sets(a, phi[2]), Dominates(fn, a, q)
  PROVE  \E p \in pairs : p.at = phi /\ p.from = q
<1>1. PICK k \in DOMAIN fn.succ[q] : fn.succ[q][k] = phi[1]
  BY DEF Range
<1>2. IsFilled(q, k)
  BY NothingAwaits DEF IsFilled
<1> QED BY <1>1, <1>2 DEF RenameInv, PairsMade

LEMMA PhisAreFilled == Mem2RegInv => PhisFilled
<1> SUFFICES ASSUME Mem2RegInv, stage = "promoted", NEW phi \in phis, phi[1] \in Reachable(fn)
             PROVE  LET filled == {p \in pairs : p.at = phi}
                        sources == {p.from : p \in filled}
                        preds == Range(fn.pre[phi[1]])
                    IN  /\ filled # {} /\ sources \subseteq preds
                        /\ Cardinality(filled) = Cardinality(sources)
                        /\ M!StoredFirst(phi[2]) => sources = preds
  BY SameGraphs DEF PhisFilled, M!PhisFilled
<1> DEFINE b == phi[1]
           v == phi[2]
           filled == {p \in pairs : p.at = phi}
           sources == {p.from : p \in filled}
           preds == Range(fn.pre[b])
<1>1. /\ RenameInv /\ calls = <<>> /\ FlowGraph(fn) /\ ~HasDeadPredecessor(fn)
      /\ FrontierOf(fn, dom_frontier)
  BY DEF Mem2RegInv, Given
<1>2. Reachable(fn) \subseteq fn.blocks /\ IsFiniteSet(fn.blocks) /\ Entry \in fn.blocks
  BY <1>1, ReachableFacts, FlowFacts
<1>3. \A p \in filled : /\ p.from \in Reachable(fn)
                        /\ \E k \in DOMAIN fn.succ[p.from] : fn.succ[p.from][k] = b
  BY <1>1 DEF RenameInv, PairsMade, PassTyped
<1>4. sources \subseteq preds /\ sources \subseteq fn.blocks
  <2> SUFFICES ASSUME NEW p \in filled PROVE p.from \in preds /\ p.from \in fn.blocks
    OBVIOUS
  <2>1. p.from \in fn.blocks /\ b \in fn.blocks
    BY <1>2, <1>3
  <2>2. b \in Range(fn.succ[p.from])
    BY <1>3 DEF Range
  <2>3. \A c, d \in fn.blocks : d \in Range(fn.succ[c]) => c \in Range(fn.pre[d])
    BY <1>1, FlowFacts
  <2> HIDE DEF b, filled
  <2> QED BY <2>1, <2>2, <2>3
<1>5. Cardinality(filled) = Cardinality(sources)
  <2> DEFINE h == [s \in sources |-> CHOOSE p \in filled : p.from = s]
  <2>1. \A p, q \in filled : p.from = q.from => p = q
    BY <1>1 DEF RenameInv, PairsMade
  <2>2. \A s \in sources : \E p \in filled : p.from = s
    OBVIOUS
  <2>3. \A p \in filled : p.from \in sources
    OBVIOUS
  <2>4. IsFiniteSet(sources)
    BY <1>2, <1>4, FS_Subset
  <2> HIDE DEF filled, sources
  <2>5. \A s \in sources : h[s] \in filled /\ h[s].from = s
    BY <2>2
  <2>6. h \in [sources -> filled]
    BY <2>5
  <2>7. \A p \in filled : p.from \in sources /\ h[p.from] = p
    BY <2>1, <2>3, <2>5
  <2> HIDE DEF h
  <2>8. \A s, t \in sources : h[s] = h[t] => s = t
    BY <2>5
  <2>9. h \in Bijection(sources, filled)
    BY <2>6, <2>7, <2>8 DEF Bijection, Injection, Surjection, IsInjective
  <2>10. ExistsBijection(sources, filled)
    BY <2>9 DEF ExistsBijection
  <2> QED BY <2>4, <2>10, FS_Bijection
<1>6. PICK a \in fn.blocks : Sets(a, v) /\ b \in dom_frontier[a]
  BY <1>1 DEF RenameInv, PhisPlaced
<1>7. a \in Reachable(fn)
  <2> SUFFICES ASSUME a \notin Reachable(fn) PROVE FALSE
    OBVIOUS
  <2>1. Len(fn.pre[b]) >= 2 /\ a \in Range(fn.pre[b])
    BY <1>1, <1>6 DEF FrontierOf
  <2> QED BY <1>1, <2>1 DEF HasDeadPredecessor
<1>8. PICK p \in Reachable(fn) : b \in Range(fn.succ[p]) /\ Dominates(fn, a, p)
  BY <1>1, <1>6, <1>7 DEF FrontierOf
<1>9. filled # {}
  <2>1. \E r \in pairs : r.at = phi /\ r.from = p
    BY <1>1, <1>6, <1>8, PairFor
  <2> QED BY <2>1
<1>10. ASSUME M!StoredFirst(v) PROVE sources = preds
  <2> SUFFICES ASSUME NEW q \in preds PROVE q \in sources
    BY <1>4
  <2>1. q \in Reachable(fn)
    BY <1>1, <1>8, PredecessorsReachable
  <2>2. b \in Range(fn.succ[q])
    BY <1>1, <1>2, <2>1, FlowFacts
  <2>3. Sets(Entry, v)
    BY <1>10, SameGraphs DEF M!StoredFirst, M!StoreBlocks, Sets
  <2>4. Dominates(fn, Entry, q)
    BY <1>1, <2>1, EntryDominates
  <2>5. \E r \in pairs : r.at = phi /\ r.from = q
    BY <1>1, <1>2, <2>1, <2>2, <2>3, <2>4, PairFor
  <2> QED BY <2>5
<1> QED BY <1>4, <1>5, <1>9, <1>10

(* Whenever re_name is inside a block, the stack of a variable holds what   *)
(* the blocks on the path from the entry down the dominator tree have       *)
(* pushed, as often as they did, and nothing of a sibling's.                *)
THEOREM StacksAlwaysBalanced == PromotionSpec => []StacksBalanced
<1>1. PromotionInv => StacksBalanced
  BY StacksAreBalanced DEF PromotionInv
<1> QED BY <1>1, PromotionInvariant, PTL

(* The assert in re_name fails, and an empty vector is read, only if some   *)
(* variable is stored to but not first thing in the entry block.            *)
THEOREM PassFailsOnlyOnUnstored == PromotionSpec => []FailsOnlyOnUnstored
<1>1. PromotionInv => FailsOnlyOnUnstored
  BY DEF PromotionInv, Mem2RegInv
<1> QED BY <1>1, PromotionInvariant, PTL

(* When Mem2Reg is done, no load or store of a local is left in a block     *)
(* some path reaches, for every variable set before it is read.             *)
THEOREM AllAccessesRemoved == PromotionSpec => []AccessesRemoved
<1>1. PromotionInv => AccessesRemoved
  BY AccessesAreRemoved DEF PromotionInv
<1> QED BY <1>1, PromotionInvariant, PTL

(* When Mem2Reg is done, every phi in a block some path reaches has an      *)
(* operand, at most one for a predecessor and none for another block; and   *)
(* one for every predecessor if its variable is set before it is read.      *)
THEOREM AllPhisFilled == PromotionSpec => []PhisFilled
<1>1. PromotionInv => PhisFilled
  BY PhisAreFilled DEF PromotionInv
<1> QED BY <1>1, PromotionInvariant, PTL

-----------------------------------------------------------------------------
(* The value a variable has at a point of the program, found on the tree   *)
(* of dominators: what the last store before the point in its block names, *)
(* or the phi of the block, or else the same at the end of the closest     *)
(* block above that sets the variable.  A program q is a function, its     *)
(* phis, and the operands of its stores.                                   *)

StoresBefore(q, b, i, v) ==
  {j \in 1 .. i - 1 : q.fn.code[b][j].op = "store" /\ q.fn.code[b][j].var = v}

LastOf(S) == CHOOSE k \in S : \A j \in S : j <= k

IsSet(q, b, i, v) == StoresBefore(q, b, i, v) # {} \/ <<b, v>> \in q.phis

SetTo(q, b, i, v) ==
  IF StoresBefore(q, b, i, v) # {}
  THEN q.operand[<<b, LastOf(StoresBefore(q, b, i, v))>>]
  ELSE M!PhiValue(<<b, v>>)

EndOf(q, b) == Len(q.fn.code[b]) + 1

Leaves(q, b, v) == IsSet(q, b, EndOf(q, b), v)
Left(q, b, v)   == SetTo(q, b, EndOf(q, b), v)

Setters(q, b, v) == {a \in q.fn.blocks : a # b /\ Dominates(q.fn, a, b) /\ Leaves(q, a, v)}

Closest(q, X) == CHOOSE a \in X : \A c \in X : Dominates(q.fn, c, a)

Inherited(q, b, v) == Left(q, Closest(q, Setters(q, b, v)), v)

Reaches(q, b, i, v) == IsSet(q, b, i, v) \/ Setters(q, b, v) # {}

Reaching(q, b, i, v) ==
  IF IsSet(q, b, i, v) THEN SetTo(q, b, i, v) ELSE Inherited(q, b, v)

LEMMA LastOfFacts ==
  ASSUME NEW n \in Nat, NEW S \in SUBSET (1 .. n), S # {}
  PROVE  LastOf(S) \in S /\ \A j \in S : j <= LastOf(S)
<1> DEFINE T == {n - j : j \in S}
<1>1. T \in SUBSET Nat /\ T # {}
  <2>1. \A j \in S : n - j \in Nat
    OBVIOUS
  <2> QED BY <2>1
<1>2. PICK m \in T : \A l \in T : m <= l
  <2> HIDE DEF T
  <2> QED BY <1>1, LeastNumber
<1>3. PICK k \in S : m = n - k
  OBVIOUS
<1>4. \A j \in S : j <= k
  <2> SUFFICES ASSUME NEW j \in S PROVE j <= k
    OBVIOUS
  <2>1. n - k <= n - j
    BY <1>2, <1>3
  <2> QED BY <2>1
<1>5. \E l \in S : \A j \in S : j <= l
  BY <1>4
<1> QED BY <1>5 DEF LastOf

\* The stores of b to v, before the first instruction and past the i-th.
LEMMA StoresPast ==
  ASSUME NEW q, NEW b, NEW i \in Nat \ {0}, NEW v
  PROVE  /\ StoresBefore(q, b, 1, v) = {}
         /\ q.fn.code[b][i].op = "store" /\ q.fn.code[b][i].var = v
              => StoresBefore(q, b, i + 1, v) = StoresBefore(q, b, i, v) \cup {i}
         /\ ~(q.fn.code[b][i].op = "store" /\ q.fn.code[b][i].var = v)
              => StoresBefore(q, b, i + 1, v) = StoresBefore(q, b, i, v)
<1>1. StoresBefore(q, b, 1, v) = {}
  BY DEF StoresBefore
<1>2. 1 .. (i + 1) - 1 = (1 .. i - 1) \cup {i}
  OBVIOUS
<1> QED BY <1>1, <1>2 DEF StoresBefore

LEMMA ReachingNow ==
  ASSUME NEW q, NEW b, NEW i \in Nat \ {0}, NEW v,
         q.fn.code[b][i].op = "store" /\ q.fn.code[b][i].var = v
  PROVE  /\ IsSet(q, b, i + 1, v) /\ Reaches(q, b, i + 1, v)
         /\ SetTo(q, b, i + 1, v) = q.operand[<<b, i>>]
         /\ Reaching(q, b, i + 1, v) = q.operand[<<b, i>>]
<1> DEFINE S == StoresBefore(q, b, i + 1, v)
<1>1. S = StoresBefore(q, b, i, v) \cup {i}
  BY StoresPast
<1>2. S \in SUBSET (1 .. i) /\ i \in S
  BY <1>1 DEF StoresBefore
<1> HIDE DEF S
<1>3. LastOf(S) \in S /\ i <= LastOf(S)
  BY <1>2, LastOfFacts
<1>4. LastOf(S) = i
  <2>1. \A k \in 1 .. i : i <= k => k = i
    OBVIOUS
  <2> QED BY <1>2, <1>3, <2>1
<1> QED BY <1>2, <1>4 DEF S, IsSet, SetTo, Reaches, Reaching

LEMMA ReachingPast ==
  ASSUME NEW q, NEW b, NEW i \in Nat \ {0}, NEW v,
         ~(q.fn.code[b][i].op = "store" /\ q.fn.code[b][i].var = v)
  PROVE  /\ Reaches(q, b, i + 1, v) <=> Reaches(q, b, i, v)
         /\ Reaching(q, b, i + 1, v) = Reaching(q, b, i, v)
<1>1. StoresBefore(q, b, i + 1, v) = StoresBefore(q, b, i, v)
  BY StoresPast
<1>2. /\ IsSet(q, b, i + 1, v) <=> IsSet(q, b, i, v)
      /\ SetTo(q, b, i + 1, v) = SetTo(q, b, i, v)
  BY <1>1, Zenon DEF IsSet, SetTo
<1> QED BY <1>2 DEF Reaches, Reaching

\* Of the blocks above b, one is the closest.
LEMMA ClosestIs ==
  ASSUME NEW q, FlowGraph(q.fn), NEW X, NEW a \in X, \A c \in X : Dominates(q.fn, c, a)
  PROVE  Closest(q, X) = a
<1> DEFINE Good(c) == c \in X /\ \A d \in X : Dominates(q.fn, d, c)
<1>1. Good(a)
  OBVIOUS
<1>2. Good(CHOOSE c : Good(c))
  BY <1>1
<1>3. Closest(q, X) = CHOOSE c : Good(c)
  BY DEF Closest
<1> QED BY <1>1, <1>2, <1>3, DominatesAntisymmetric

LEMMA ClosestFacts ==
  ASSUME NEW q, FlowGraph(q.fn), NEW b, NEW v, Setters(q, b, v) # {}
  PROVE  /\ Closest(q, Setters(q, b, v)) \in Setters(q, b, v)
         /\ \A c \in Setters(q, b, v) : Dominates(q.fn, c, Closest(q, Setters(q, b, v)))
<1> DEFINE f == q.fn
           X == Setters(q, b, v)
           N == Cardinality(f.blocks)
           rest(a) == N - Cardinality(DominatorsIn(f, a))
           T == {rest(a) : a \in X}
<1>1. \A a \in X : a \in f.blocks /\ Dominates(f, a, b) /\ a # b
  BY DEF Setters
<1> HIDE DEF X, f
<1>2. FlowGraph(f)
  BY DEF f
<1>3. \A a \in X : rest(a) \in Nat
  BY <1>1, <1>2, DominatorsGrow
<1>4. PICK n \in T : \A m \in T : n <= m
  <2>1. T \in SUBSET Nat /\ T # {}
    BY <1>3 DEF X
  <2> HIDE DEF T
  <2> QED BY <2>1, LeastNumber
<1>5. PICK a \in X : n = rest(a)
  OBVIOUS
<1>6. ASSUME NEW c \in X, ~Dominates(f, c, a) PROVE FALSE
  <2>1. Dominates(f, a, c) /\ a # c
    BY <1>1, <1>2, <1>6, DominatorsChain, DominatesItself, DominatorReachable
  <2>2. Cardinality(DominatorsIn(f, a)) < Cardinality(DominatorsIn(f, c))
    BY <1>2, <2>1, DominatorsGrow
  <2>3. rest(a) <= rest(c)
    BY <1>4, <1>5
  <2>4. /\ Cardinality(DominatorsIn(f, a)) \in Nat /\ Cardinality(DominatorsIn(f, c)) \in Nat
        /\ N \in Nat
    BY <1>1, <1>2, DominatorsGrow
  <2> QED BY <2>2, <2>3, <2>4
<1>7. Closest(q, X) = a
  BY <1>2, <1>6, ClosestIs DEF f
<1> QED BY <1>5, <1>6, <1>7 DEF X, f

\* What reaches the end of p is what b inherits, if the blocks that set v and
\* dominate p are those that do and are above b.
LEMMA InheritedFrom ==
  ASSUME NEW q, FlowGraph(q.fn), NEW p \in Reachable(q.fn), NEW b, NEW v,
         \A c : Leaves(q, c, v) => (c # b /\ Dominates(q.fn, c, b) <=> Dominates(q.fn, c, p))
  PROVE  /\ Setters(q, b, v) # {} <=> Reaches(q, p, EndOf(q, p), v)
         /\ Setters(q, b, v) # {} => Inherited(q, b, v) = Reaching(q, p, EndOf(q, p), v)
<1> DEFINE f == q.fn
           X == Setters(q, b, v)
           Y == Setters(q, p, v)
<1>1. \A c : c \in X <=> Leaves(q, c, v) /\ Dominates(f, c, p)
  BY DEF Setters, Dominates
<1>2. \A c : c \in Y <=> c # p /\ Leaves(q, c, v) /\ Dominates(f, c, p)
  BY DEF Setters, Dominates
<1>3. Dominates(f, p, p)
  BY DominatesItself
<1>4. Leaves(q, p, v) <=> IsSet(q, p, EndOf(q, p), v)
  BY DEF Leaves
<1> HIDE DEF X, Y, f
<1>5. CASE Leaves(q, p, v)
  <2>1. p \in X /\ \A c \in X : Dominates(f, c, p)
    BY <1>1, <1>3, <1>5
  <2>2. Closest(q, X) = p
    BY <2>1, ClosestIs DEF f
  <2>3. Inherited(q, b, v) = Left(q, p, v)
    BY <2>2 DEF Inherited, X
  <2>4. Reaches(q, p, EndOf(q, p), v) /\ Reaching(q, p, EndOf(q, p), v) = Left(q, p, v)
    BY <1>4, <1>5 DEF Reaches, Reaching, Left
  <2> QED BY <2>1, <2>3, <2>4 DEF X
<1>6. CASE ~Leaves(q, p, v)
  <2>1. \A c : c \in X <=> c \in Y
    BY <1>1, <1>2, <1>6
  <2>2. X = Y
    BY <2>1 DEF X, Y, Setters
  <2>3. Inherited(q, b, v) = Inherited(q, p, v)
    BY <2>2 DEF Inherited, X, Y
  <2>4. /\ Reaches(q, p, EndOf(q, p), v) <=> Y # {}
        /\ Reaching(q, p, EndOf(q, p), v) = Inherited(q, p, v)
    BY <1>4, <1>6 DEF Reaches, Reaching, Y
  <2> QED BY <2>2, <2>3, <2>4 DEF X
<1> QED BY <1>5, <1>6

LEMMA InheritedFromParent ==
  ASSUME NEW q, FlowGraph(q.fn), NEW a, NEW b, Immediate(q.fn, a, b), NEW v
  PROVE  /\ Setters(q, b, v) # {} <=> Reaches(q, a, EndOf(q, a), v)
         /\ Setters(q, b, v) # {} => Inherited(q, b, v) = Reaching(q, a, EndOf(q, a), v)
<1>1. a \in Reachable(q.fn) /\ Dominates(q.fn, a, b) /\ a # b
  BY DominatorReachable DEF Immediate
<1>2. \A c : c # b /\ Dominates(q.fn, c, b) <=> Dominates(q.fn, c, a)
  BY <1>1, DominatesTransitive, DominatesAntisymmetric DEF Immediate
<1> QED BY <1>1, <1>2, InheritedFrom

\* Along an edge, if no setter's region ends there.
LEMMA InheritedAlongEdge ==
  ASSUME NEW q, FlowGraph(q.fn), NEW p \in Reachable(q.fn), NEW b \in Range(q.fn.succ[p]), NEW v,
         \A c : Leaves(q, c, v) /\ Dominates(q.fn, c, p) => c # b /\ Dominates(q.fn, c, b)
  PROVE  /\ Setters(q, b, v) # {} <=> Reaches(q, p, EndOf(q, p), v)
         /\ Setters(q, b, v) # {} => Inherited(q, b, v) = Reaching(q, p, EndOf(q, p), v)
<1>1. \A c : Leaves(q, c, v) => (c # b /\ Dominates(q.fn, c, b) <=> Dominates(q.fn, c, p))
  BY DominatesBefore
<1> QED BY <1>1, InheritedFrom

-----------------------------------------------------------------------------
(* A value is defined before it is used.                                   *)

\* val is defined on every path to the i-th instruction of b.
DefinedBefore(f, val, b, i) ==
  IF val.block = b THEN val.kind = "phi" \/ val.at < i ELSE Dominates(f, val.block, b)

LEMMA DefinedLater ==
  ASSUME NEW f, FlowGraph(f), NEW val \in Values, NEW b, NEW i \in Int, NEW c, NEW j \in Int,
         DefinedBefore(f, val, b, i), (b = c /\ i <= j) \/ (b # c /\ Dominates(f, b, c))
  PROVE  DefinedBefore(f, val, c, j)
<1>1. val.at \in Int
  BY DEF Values
<1>2. CASE b = c
  BY <1>1, <1>2 DEF DefinedBefore
<1>3. CASE b # c
  <2>1. Dominates(f, b, c)
    BY <1>3
  <2>2. CASE val.block = b
    BY <1>3, <2>1, <2>2 DEF DefinedBefore
  <2>3. CASE val.block # b
    <3>1. Dominates(f, val.block, b)
      BY <2>3 DEF DefinedBefore
    <3>2. val.block # c
      BY <1>3, <2>1, <3>1, DominatesAntisymmetric
    <3> QED BY <2>1, <3>1, <3>2, DominatesTransitive DEF DefinedBefore
  <2> QED BY <2>2, <2>3
<1> QED BY <1>2, <1>3

\* Every store to v names a value that is defined before it.
StoresDefined(q, v) ==
  \A b \in q.fn.blocks : \A j \in 1 .. Len(q.fn.code[b]) :
    q.fn.code[b][j].op = "store" /\ q.fn.code[b][j].var = v =>
      q.operand[<<b, j>>] \in Values /\ DefinedBefore(q.fn, q.operand[<<b, j>>], b, j + 1)

LEMMA SetToDefined ==
  ASSUME NEW q, NEW b \in q.fn.blocks, NEW i \in Nat \ {0}, NEW v \in Nat,
         FlowGraph(q.fn), Len(q.fn.code[b]) \in Nat, i <= EndOf(q, b), StoresDefined(q, v),
         IsSet(q, b, i, v)
  PROVE  /\ SetTo(q, b, i, v) \in Values /\ DefinedBefore(q.fn, SetTo(q, b, i, v), b, i)
<1> DEFINE S == StoresBefore(q, b, i, v)
<1>1. CASE S # {}
  <2>1. i - 1 \in Nat /\ S \in SUBSET (1 .. i - 1) /\ i - 1 <= Len(q.fn.code[b])
    BY DEF StoresBefore, EndOf
  <2> DEFINE k == LastOf(S)
  <2>2. k \in S
    <3> HIDE DEF S
    <3> QED BY <1>1, <2>1, LastOfFacts
  <2> HIDE DEF k
  <2>3. k \in 1 .. Len(q.fn.code[b]) /\ q.fn.code[b][k].op = "store" /\ q.fn.code[b][k].var = v
    BY <2>1, <2>2 DEF StoresBefore
  <2>4. k \in Nat /\ k + 1 <= i
    BY <2>1, <2>2
  <2>5. SetTo(q, b, i, v) = q.operand[<<b, k>>]
    BY <1>1 DEF SetTo, k
  <2>6. q.operand[<<b, k>>] \in Values /\ DefinedBefore(q.fn, q.operand[<<b, k>>], b, k + 1)
    BY <2>3 DEF StoresDefined
  <2>7. DefinedBefore(q.fn, q.operand[<<b, k>>], b, i)
    BY <2>4, <2>6, DefinedLater
  <2> QED BY <2>5, <2>6, <2>7
<1>2. CASE S = {}
  <2>1. SetTo(q, b, i, v) = M!PhiValue(<<b, v>>)
    BY <1>2 DEF SetTo
  <2>2. b \in Nat
    BY FlowFacts
  <2> QED BY <2>1, <2>2 DEF M!PhiValue, Values, DefinedBefore
<1> QED BY <1>1, <1>2

LEMMA InheritedDefined ==
  ASSUME NEW q, NEW b, NEW v \in Nat, FlowGraph(q.fn),
         \A a \in q.fn.blocks : Len(q.fn.code[a]) \in Nat, StoresDefined(q, v),
         Setters(q, b, v) # {}
  PROVE  /\ Inherited(q, b, v) \in Values
         /\ Inherited(q, b, v).block # b /\ Dominates(q.fn, Inherited(q, b, v).block, b)
<1>1. PICK a : a = Closest(q, Setters(q, b, v))
  OBVIOUS
<1>2. a \in q.fn.blocks /\ a # b /\ Dominates(q.fn, a, b) /\ Leaves(q, a, v)
  <2>1. a \in Setters(q, b, v)
    BY <1>1, ClosestFacts
  <2> QED BY <2>1 DEF Setters
<1>3. Inherited(q, b, v) = Left(q, a, v)
  BY <1>1 DEF Inherited
<1>4. EndOf(q, a) \in Nat \ {0}
  BY <1>2 DEF EndOf
<1>5. /\ SetTo(q, a, EndOf(q, a), v) \in Values
      /\ DefinedBefore(q.fn, SetTo(q, a, EndOf(q, a), v), a, EndOf(q, a))
  BY <1>2, <1>4, SetToDefined DEF Leaves
<1>6. PICK val : val = Left(q, a, v)
  OBVIOUS
<1>7. val \in Values /\ (val.block = a \/ Dominates(q.fn, val.block, a))
  BY <1>5, <1>6 DEF Left, DefinedBefore
<1>8. val.block # b /\ Dominates(q.fn, val.block, b)
  BY <1>2, <1>7, DominatesTransitive, DominatesAntisymmetric
<1> QED BY <1>3, <1>6, <1>7, <1>8

LEMMA ReachingDefined ==
  ASSUME NEW q, NEW b \in q.fn.blocks, NEW i \in Nat \ {0}, NEW v \in Nat, FlowGraph(q.fn),
         \A a \in q.fn.blocks : Len(q.fn.code[a]) \in Nat, i <= EndOf(q, b), StoresDefined(q, v),
         Reaches(q, b, i, v)
  PROVE  Reaching(q, b, i, v) \in Values /\ DefinedBefore(q.fn, Reaching(q, b, i, v), b, i)
<1>1. CASE IsSet(q, b, i, v)
  <2>1. SetTo(q, b, i, v) \in Values /\ DefinedBefore(q.fn, SetTo(q, b, i, v), b, i)
    BY <1>1, SetToDefined
  <2> QED BY <1>1, <2>1 DEF Reaching
<1>2. CASE ~IsSet(q, b, i, v)
  <2>1. Setters(q, b, v) # {} /\ Reaching(q, b, i, v) = Inherited(q, b, v)
    BY <1>2 DEF Reaches, Reaching
  <2>2. /\ Inherited(q, b, v) \in Values
        /\ Inherited(q, b, v).block # b /\ Dominates(q.fn, Inherited(q, b, v).block, b)
    BY <2>1, InheritedDefined
  <2> QED BY <2>1, <2>2 DEF DefinedBefore
<1> QED BY <1>1, <1>2

\* The programs q and r store the same values of v above the place i of block b.
SameStores(q, r, b, i, v) ==
  /\ r.fn = q.fn /\ r.phis = q.phis /\ FlowGraph(q.fn)
  /\ \A a \in q.fn.blocks : Len(q.fn.code[a]) \in Nat
  /\ \A j \in StoresBefore(q, b, i, v) : r.operand[<<b, j>>] = q.operand[<<b, j>>]
  /\ \A a \in Setters(q, b, v) : \A j \in StoresBefore(q, a, EndOf(q, a), v) :
       r.operand[<<a, j>>] = q.operand[<<a, j>>]

\* What reaches a point depends on the stores before it and in the blocks above.
LEMMA SameReaching ==
  ASSUME NEW q, NEW r, NEW b, NEW i \in Nat \ {0}, NEW v, SameStores(q, r, b, i, v)
  PROVE  /\ \A j : IsSet(r, b, j, v) <=> IsSet(q, b, j, v)
         /\ Setters(r, b, v) = Setters(q, b, v)
         /\ Reaches(r, b, i, v) <=> Reaches(q, b, i, v)
         /\ Setters(q, b, v) # {} => Inherited(r, b, v) = Inherited(q, b, v)
         /\ IsSet(q, b, i, v) => SetTo(r, b, i, v) = SetTo(q, b, i, v)
         /\ Reaches(q, b, i, v) => Reaching(r, b, i, v) = Reaching(q, b, i, v)
<1> USE DEF SameStores
<1>1. \A a, j : StoresBefore(r, a, j, v) = StoresBefore(q, a, j, v) /\ EndOf(r, a) = EndOf(q, a)
  BY DEF StoresBefore, EndOf
<1>2. \A a, j : IsSet(r, a, j, v) <=> IsSet(q, a, j, v)
  BY <1>1 DEF IsSet
<1>3. Setters(r, b, v) = Setters(q, b, v)
  BY <1>1, <1>2 DEF Setters, Leaves
<1>4. \A X : Closest(r, X) = Closest(q, X)
  BY DEF Closest
<1>5. ASSUME NEW a, NEW k \in Nat \ {0},
             \A j \in StoresBefore(q, a, k, v) : r.operand[<<a, j>>] = q.operand[<<a, j>>]
      PROVE  SetTo(r, a, k, v) = SetTo(q, a, k, v)
  <2> DEFINE S == StoresBefore(q, a, k, v)
  <2>1. StoresBefore(r, a, k, v) = S
    BY <1>1
  <2>2. CASE S # {}
    <3>1. k - 1 \in Nat /\ S \in SUBSET (1 .. k - 1)
      BY DEF StoresBefore
    <3>2. LastOf(S) \in S
      <4> HIDE DEF S
      <4> QED BY <2>2, <3>1, LastOfFacts
    <3>3. r.operand[<<a, LastOf(S)>>] = q.operand[<<a, LastOf(S)>>]
      BY <1>5, <3>2
    <3> QED BY <2>1, <2>2, <3>3 DEF SetTo
  <2>3. CASE S = {}
    BY <2>1, <2>3 DEF SetTo
  <2> QED BY <2>2, <2>3
<1>6. ASSUME Setters(q, b, v) # {} PROVE Inherited(r, b, v) = Inherited(q, b, v)
  <2>1. PICK a : a = Closest(q, Setters(q, b, v))
    OBVIOUS
  <2>2. a \in Setters(q, b, v) /\ a \in q.fn.blocks
    <3>1. a \in Setters(q, b, v)
      BY <1>6, <2>1, ClosestFacts
    <3> QED BY <3>1 DEF Setters
  <2>3. EndOf(q, a) \in Nat \ {0}
    BY <2>2 DEF EndOf
  <2>4. SetTo(r, a, EndOf(q, a), v) = SetTo(q, a, EndOf(q, a), v)
    BY <1>5, <2>2, <2>3
  <2>5. Left(r, a, v) = Left(q, a, v)
    BY <1>1, <2>4 DEF Left
  <2> QED BY <1>3, <1>4, <2>1, <2>5 DEF Inherited
<1>7. SetTo(r, b, i, v) = SetTo(q, b, i, v)
  BY <1>5
<1>8. Reaches(r, b, i, v) <=> Reaches(q, b, i, v)
  BY <1>2, <1>3 DEF Reaches
<1>9. Reaches(q, b, i, v) => Reaching(r, b, i, v) = Reaching(q, b, i, v)
  BY <1>2, <1>6, <1>7 DEF Reaches, Reaching
<1> QED BY <1>2, <1>3, <1>6, <1>7, <1>8, <1>9

-----------------------------------------------------------------------------
(* The code the visitor emits copies what it has loaded.                   *)

Copying(code) ==
  \A i \in DOMAIN code :
    code[i].var \in Locals \cup Globals /\ code[i].src # 0 =>
      /\ code[i].op # "load"
      /\ code[i].op = "store" =>
           /\ code[i].src < i
           /\ code[i - code[i].src].op = "load"
           /\ code[i - code[i].src].var \in Locals \cup Globals

CopyingCode == {code \in Seq(Instr) : Copying(code)}

CodeCopies(f) ==
  /\ DOMAIN f = {"blocks", "made", "code", "pre", "succ"}
  /\ f.code \in Seq(CopyingCode)

LEMMA CopyingEmpty == <<>> \in CopyingCode
BY DEF CopyingCode, Copying

LEMMA CopyingJoined ==
  ASSUME NEW s \in CopyingCode, NEW t \in CopyingCode
  PROVE  s \o t \in CopyingCode
<1> DEFINE r == s \o t
<1>1. s \in Seq(Instr) /\ t \in Seq(Instr) /\ Copying(s) /\ Copying(t)
  BY DEF CopyingCode
<1>2. /\ Len(s) \in Nat /\ Len(t) \in Nat /\ DOMAIN s = 1 .. Len(s) /\ DOMAIN t = 1 .. Len(t)
      /\ r \in Seq(Instr) /\ DOMAIN r = 1 .. Len(s) + Len(t)
      /\ \A i \in 1 .. Len(s) : r[i] = s[i] /\ s[i] \in Instr
      /\ \A i \in 1 .. Len(t) : r[Len(s) + i] = t[i] /\ t[i] \in Instr
  <2> HIDE DEF Instr
  <2> QED BY <1>1
<1> HIDE DEF r
<1>3. ASSUME NEW i \in DOMAIN r, r[i].var \in Locals \cup Globals, r[i].src # 0
      PROVE  /\ r[i].op # "load"
             /\ r[i].op = "store" =>
                  /\ r[i].src < i /\ r[i - r[i].src].op = "load"
                  /\ r[i - r[i].src].var \in Locals \cup Globals
  <2>1. CASE i <= Len(s)
    <3>1. i \in 1 .. Len(s) /\ r[i] = s[i] /\ s[i].src \in Nat
      BY <1>2, <2>1 DEF Instr
    <3>2. /\ s[i].op # "load"
          /\ s[i].op = "store" => /\ s[i].src < i /\ s[i - s[i].src].op = "load"
                                  /\ s[i - s[i].src].var \in Locals \cup Globals
      BY <1>1, <1>2, <1>3, <3>1 DEF Copying
    <3>3. s[i].op = "store" => r[i - s[i].src] = s[i - s[i].src]
      <4>1. s[i].op = "store" => i - s[i].src \in 1 .. Len(s)
        BY <1>2, <3>1, <3>2
      <4> QED BY <1>2, <4>1
    <3> QED BY <3>1, <3>2, <3>3
  <2>2. CASE ~(i <= Len(s))
    <3>1. PICK j \in 1 .. Len(t) : i = Len(s) + j
      <4>1. i - Len(s) \in 1 .. Len(t) /\ i = Len(s) + (i - Len(s))
        BY <1>2, <2>2
      <4> QED BY <4>1
    <3>2. r[i] = t[j] /\ t[j].src \in Nat
      BY <1>2, <3>1 DEF Instr
    <3>3. /\ t[j].op # "load"
          /\ t[j].op = "store" => /\ t[j].src < j /\ t[j - t[j].src].op = "load"
                                  /\ t[j - t[j].src].var \in Locals \cup Globals
      BY <1>1, <1>2, <1>3, <3>2 DEF Copying
    <3>4. t[j].op = "store" => r[i - t[j].src] = t[j - t[j].src] /\ t[j].src < i
      <4>1. t[j].op = "store" => /\ j - t[j].src \in 1 .. Len(t)
                                 /\ i - t[j].src = Len(s) + (j - t[j].src) /\ t[j].src < i
        BY <1>2, <3>1, <3>2, <3>3
      <4> QED BY <1>2, <4>1
    <3> QED BY <3>2, <3>3, <3>4
  <2> QED BY <2>1, <2>2
<1>4. Copying(r)
  BY <1>3 DEF Copying
<1> QED BY <1>2, <1>4 DEF CopyingCode, r

LEMMA CopyingOne ==
  ASSUME NEW i \in Instr, i.op \notin {"load", "store"}
  PROVE  <<i>> \in CopyingCode
<1>1. <<i>> \in Seq(Instr) /\ DOMAIN <<i>> = {1} /\ <<i>>[1] = i
  <2> HIDE DEF Instr
  <2> QED OBVIOUS
<1> QED BY <1>1 DEF CopyingCode, Copying

LEMMA CodeReplaced ==
  ASSUME NEW S, NEW s \in Seq(S), NEW b, NEW e, b \in DOMAIN s => e \in S
  PROVE  [s EXCEPT ![b] = e] \in Seq(S)
<1>1. CASE b \in DOMAIN s
  <2>1. b \in 1 .. Len(s)
    BY <1>1
  <2> QED BY <1>1, <2>1, ExceptSeq
<1>2. CASE b \notin DOMAIN s
  <2>1. [s EXCEPT ![b] = e] = s
    BY <1>2
  <2> QED BY <2>1
<1> QED BY <1>1, <1>2

LEMMA CopiesCreateBlock ==
  ASSUME NEW f, CodeCopies(f)
  PROVE  CodeCopies(CreateBlock(f))
<1> HIDE DEF CopyingCode
<1>1. Append(f.code, <<>>) \in Seq(CopyingCode)
  BY CopyingEmpty DEF CodeCopies
<1> QED BY <1>1 DEF CodeCopies, CreateBlock

LEMMA CopiesAddInstrs ==
  ASSUME NEW f, CodeCopies(f), NEW b, NEW code \in CopyingCode
  PROVE  CodeCopies(AddInstrs(f, b, code))
<1> DEFINE C == CopyingCode
<1>1. f.code \in Seq(C)
  BY DEF CodeCopies
<1>2. b \in DOMAIN f.code => f.code[b] \in C
  <2> HIDE DEF C
  <2> QED BY <1>1
<1>3. b \in DOMAIN f.code => f.code[b] \o code \in C
  BY <1>2, CopyingJoined
<1> HIDE DEF C
<1>4. [f.code EXCEPT ![b] = f.code[b] \o code] \in Seq(C)
  BY <1>1, <1>3, CodeReplaced
<1>5. /\ DOMAIN AddInstrs(f, b, code) = {"blocks", "made", "code", "pre", "succ"}
      /\ AddInstrs(f, b, code).code = [f.code EXCEPT ![b] = f.code[b] \o code]
  BY DEF CodeCopies, AddInstrs
<1> QED BY <1>4, <1>5 DEF CodeCopies, C

\* A function whose code grows by one instruction that is no access.
LEMMA CopiesGrown ==
  ASSUME NEW f, CodeCopies(f), NEW b, NEW i \in Instr, i.op \notin {"load", "store"}, NEW g,
         DOMAIN g = {"blocks", "made", "code", "pre", "succ"},
         g.code = [f.code EXCEPT ![b] = Append(f.code[b], i)]
  PROVE  CodeCopies(g)
<1> DEFINE C == CopyingCode
<1>1. f.code \in Seq(C)
  BY DEF CodeCopies
<1>2. b \in DOMAIN f.code => f.code[b] \in C
  <2> HIDE DEF C
  <2> QED BY <1>1
<1>3. b \in DOMAIN f.code => Append(f.code[b], i) \in C
  <2> SUFFICES ASSUME b \in DOMAIN f.code PROVE Append(f.code[b], i) \in C
    OBVIOUS
  <2>1. f.code[b] \in Seq(Instr)
    BY <1>2 DEF CopyingCode
  <2>2. Append(f.code[b], i) = f.code[b] \o <<i>>
    <3> DEFINE R == Instr
    <3>1. f.code[b] \in Seq(R) /\ i \in R
      BY <2>1
    <3> HIDE DEF R
    <3> QED BY <3>1
  <2> QED BY <1>2, <2>2, CopyingJoined, CopyingOne
<1> HIDE DEF C
<1>4. [f.code EXCEPT ![b] = Append(f.code[b], i)] \in Seq(C)
  BY <1>1, <1>3, CodeReplaced
<1> QED BY <1>4 DEF CodeCopies, C

LEMMA PlainInstrs ==
  /\ \A op \in {"alloca", "icmp", "gep", "call", "ret"} : Plain(op) \in Instr /\ Plain(op).op = op
  /\ \A t \in Nat : Br(<<t>>) \in Instr /\ Br(<<t>>).op = "br"
  /\ \A t, e \in Nat : Br(<<t, e>>) \in Instr /\ Br(<<t, e>>).op = "br"
<1>1. <<>> \in Seq(Nat) /\ (\A t \in Nat : <<t>> \in Seq(Nat)) /\ \A t, e \in Nat : <<t, e>> \in Seq(Nat)
  OBVIOUS
<1> QED BY <1>1 DEF Plain, Br, Instr, Ops

LEMMA CopiesAddInstr ==
  ASSUME NEW f, CodeCopies(f), NEW b, NEW op \in {"alloca", "icmp", "gep", "call", "ret"}
  PROVE  CodeCopies(AddInstr(f, b, Plain(op)))
<1> DEFINE g == AddInstr(f, b, Plain(op))
<1>1. /\ DOMAIN g = {"blocks", "made", "code", "pre", "succ"}
      /\ g.code = [f.code EXCEPT ![b] = Append(f.code[b], Plain(op))]
  BY DEF CodeCopies, AddInstr
<1>2. Plain(op) \in Instr /\ Plain(op).op \notin {"load", "store"}
  BY PlainInstrs
<1> HIDE DEF g
<1>3. CodeCopies(g)
  BY <1>1, <1>2, CopiesGrown
<1> QED BY <1>3 DEF g

LEMMA CopiesRet ==
  ASSUME NEW f, CodeCopies(f), NEW b
  PROVE  CodeCopies(CreateRet(f, b)) /\ CodeCopies(DefaultRet(f, b))
<1>1. CodeCopies(CreateRet(f, b))
  BY CopiesAddInstr DEF CreateRet, Ret
<1> QED BY <1>1 DEF DefaultRet

LEMMA CopiesBr ==
  ASSUME NEW f, CodeCopies(f), NEW b, NEW t \in Nat
  PROVE  CodeCopies(CreateBr(f, b, t)) /\ CodeCopies(BrIfOpen(f, b, t))
<1> DEFINE g == CreateBr(f, b, t)
<1>1. /\ DOMAIN g = {"blocks", "made", "code", "pre", "succ"}
      /\ g.code = [f.code EXCEPT ![b] = Append(f.code[b], Br(<<t>>))]
  BY DEF CodeCopies, CreateBr
<1>2. Br(<<t>>) \in Instr /\ Br(<<t>>).op \notin {"load", "store"}
  BY PlainInstrs
<1> HIDE DEF g
<1>3. CodeCopies(g)
  BY <1>1, <1>2, CopiesGrown
<1> QED BY <1>3 DEF g, BrIfOpen

LEMMA CopiesCondBr ==
  ASSUME NEW f, CodeCopies(f), NEW b, NEW t \in Nat, NEW e \in Nat
  PROVE  CodeCopies(CreateCondBr(f, b, t, e))
<1> DEFINE g == CreateCondBr(f, b, t, e)
<1>1. /\ DOMAIN g = {"blocks", "made", "code", "pre", "succ"}
      /\ g.code = [f.code EXCEPT ![b] = Append(f.code[b], Br(<<t, e>>))]
  BY DEF CodeCopies, CreateCondBr
<1>2. Br(<<t, e>>) \in Instr /\ Br(<<t, e>>).op \notin {"load", "store"}
  BY PlainInstrs
<1> HIDE DEF g
<1>3. CodeCopies(g)
  BY <1>1, <1>2, CopiesGrown
<1> QED BY <1>3 DEF g

LEMMA CopiesErase ==
  ASSUME NEW f, CodeCopies(f), NEW b
  PROVE  CodeCopies(EraseBlock(f, b))
<1>1. EraseBlock(f, b).code = f.code
  BY DEF CodeCopies, EraseBlock
<1> DEFINE g == EraseBlock(f, b)
<1>2. DOMAIN g = {"blocks", "made", "code", "pre", "succ"}
  BY DEF CodeCopies, EraseBlock
<1> QED BY <1>1, <1>2 DEF CodeCopies

LEMMA BuilderCopies ==
  ASSUME BuilderAssumption, Inv, CodeCopies(fn), BuilderStep
  PROVE  CodeCopies(fn')
<1>1. fn.made \in Nat /\ (stack # <<>> => Top \in Frame /\ Top.other \in Nat /\ Top.cont \in Nat)
  <2>1. WellFormed(fn)
    BY DEF Inv, InvOf, Flow
  <2>2. stack \in Seq(Frame)
    BY DEF Inv, InvOf
  <2>3. stack # <<>> => Top \in Frame
    <3> DEFINE R == Frame
    <3>1. stack \in Seq(R)
      BY <2>2
    <3> HIDE DEF R
    <3>2. stack # <<>> => Top \in R
      BY <3>1 DEF Top
    <3> QED BY <3>2 DEF R
  <2> QED BY <2>1, <2>3 DEF WellFormed, FunctionType, Frame
<1>2. \A code \in Segments \cup Prologues : code \in CopyingCode
  <2> SUFFICES ASSUME NEW code \in Segments \cup Prologues PROVE code \in CopyingCode
    OBVIOUS
  <2>1. code \in Seq({i \in Instr : ~IsTerminator(i)})
    BY DEF BuilderAssumption
  <2>2. code \in Seq(Instr)
    <3> DEFINE R == Instr
               S == {i \in R : ~IsTerminator(i)}
    <3>1. code \in Seq(S) /\ S \subseteq R
      BY <2>1
    <3> HIDE DEF R, S
    <3>2. code \in Seq(R)
      BY <3>1, SeqMonotonic
    <3> QED BY <3>2 DEF R
  <2>3. Copying(code)
    BY CopyAssumption DEF Copying
  <2> QED BY <2>2, <2>3 DEF CopyingCode
<1>3. fn.made + 1 \in Nat /\ fn.made + 2 \in Nat /\ fn.made + 3 \in Nat
  BY <1>1
<1>4. CASE FunDeclaration
  <2>1. PICK prologue \in Prologues : fn' = AddInstrs(CreateBlock(NoFunction), Entry, prologue)
    BY <1>4 DEF FunDeclaration
  <2>2. CodeCopies(NoFunction)
    BY DEF CodeCopies, NoFunction
  <2> QED BY <1>2, <2>1, <2>2, CopiesCreateBlock, CopiesAddInstrs
<1>5. CASE EndFunDeclaration
  BY <1>5, CopiesRet DEF EndFunDeclaration
<1>6. CASE LocalDeclaration
  BY <1>6, CopiesAddInstr DEF LocalDeclaration
<1>7. CASE EmitSegment
  BY <1>2, <1>7, CopiesAddInstrs DEF EmitSegment
<1>8. CASE IndexedVar
  <2> DEFINE f0 == CreateBlock(CreateBlock(fn))
             f1 == AddInstr(f0, insert, Plain("icmp"))
             f2 == CreateCondBr(f1, insert, fn.made + 1, fn.made + 2)
             f3 == AddInstr(f2, fn.made + 1, Plain("call"))
             f4 == CreateRet(f3, fn.made + 1)
  <2>1. fn' = AddInstr(f4, fn.made + 2, Plain("gep"))
    BY <1>8 DEF IndexedVar
  <2>2. CodeCopies(f0)
    BY CopiesCreateBlock
  <2> HIDE DEF f0
  <2>3. CodeCopies(f1)
    BY <2>2, CopiesAddInstr
  <2> HIDE DEF f1
  <2>4. CodeCopies(f2)
    BY <1>3, <2>3, CopiesCondBr
  <2> HIDE DEF f2
  <2>5. CodeCopies(f3)
    BY <2>4, CopiesAddInstr
  <2> HIDE DEF f3
  <2>6. CodeCopies(f4)
    BY <2>5, CopiesRet
  <2> HIDE DEF f4
  <2> QED BY <2>1, <2>6, CopiesAddInstr
<1>9. CASE BranchSelection
  <2> DEFINE f0 == CreateBlock(CreateBlock(CreateBlock(fn)))
             f1 == AddInstr(f0, insert, Plain("icmp"))
             e == IF Top.flag THEN fn.made + 2 ELSE fn.made + 3
  <2>1. fn' = CreateCondBr(f1, insert, fn.made + 1, e) /\ e \in Nat
    BY <1>3, <1>9 DEF BranchSelection
  <2>2. CodeCopies(f0)
    BY CopiesCreateBlock
  <2> HIDE DEF f0, e
  <2>3. CodeCopies(f1)
    BY <2>2, CopiesAddInstr
  <2> HIDE DEF f1
  <2> QED BY <1>3, <2>1, <2>3, CopiesCondBr
<1>10. CASE EndThen
  <2>1. stack # <<>>
    BY <1>10 DEF EndThen, InVisit
  <2>2. CodeCopies(BrIfOpen(fn, insert, Top.cont))
    BY <1>1, <2>1, CopiesBr
  <2> DEFINE f1 == BrIfOpen(fn, insert, Top.cont)
  <2>3. fn' \in {f1, EraseBlock(f1, Top.other)}
    BY <1>10 DEF EndThen, DropFalseBB
  <2> HIDE DEF f1
  <2> QED BY <2>2, <2>3, CopiesErase DEF f1
<1>11. CASE EndElse
  BY <1>1, <1>11, CopiesBr DEF EndElse, InVisit
<1>12. CASE IterationStmt
  <2>1. fn' = BrIfOpen(CreateBlock(fn), insert, fn.made + 1)
    BY <1>12 DEF IterationStmt
  <2> QED BY <1>3, <2>1, CopiesBr, CopiesCreateBlock
<1>13. CASE BranchIteration
  <2> DEFINE f0 == CreateBlock(CreateBlock(fn))
             f1 == AddInstr(f0, insert, Plain("icmp"))
  <2>1. fn' = CreateCondBr(f1, insert, fn.made + 1, fn.made + 2)
    BY <1>13 DEF BranchIteration
  <2>2. CodeCopies(f0)
    BY CopiesCreateBlock
  <2> HIDE DEF f0
  <2>3. CodeCopies(f1)
    BY <2>2, CopiesAddInstr
  <2> HIDE DEF f1
  <2> QED BY <1>3, <2>1, <2>3, CopiesCondBr
<1>14. CASE EndWhile
  BY <1>1, <1>14, CopiesBr DEF EndWhile, InVisit, LoopHead
<1>15. CASE ReturnStmt \/ EndReturnStmt
  BY <1>15, CopiesRet DEF ReturnStmt, EndReturnStmt
<1>16. CASE \/ EnterCompoundStmt \/ NextStatement \/ LeaveCompoundStmt \/ ExpressionStmt
            \/ EndExpression \/ SelectionStmt
  BY <1>16 DEF EnterCompoundStmt, NextStatement, LeaveCompoundStmt, ExpressionStmt,
               EndExpression, SelectionStmt
<1> QED BY <1>4, <1>5, <1>6, <1>7, <1>8, <1>9, <1>10, <1>11, <1>12, <1>13, <1>14, <1>15, <1>16
        DEF BuilderStep

-----------------------------------------------------------------------------
(* Every join where the region of a setter ends has a phi.                 *)

\* The frontier of a misses no join.
FrontierFull(f, df) ==
  \A a, p \in Reachable(f) : \A b \in Range(f.succ[p]) :
    Dominates(f, a, p) /\ ~(a # b /\ Dominates(f, a, b)) => b \in df[a]

PhisClosed ==
  \A v \in Locals : \A a \in fn.blocks : Sets(a, v) =>
    \A b \in dom_frontier[a] : <<b, v>> \in phis

LEMMA DominatorsGiveFrontiers ==
  ASSUME Inv, EntryInv, RunDominators
  PROVE  FrontierFull(fn, dom_frontier')
<1>1. FlowGraph(fn)
  BY BuiltIsFlowGraph DEF RunDominators
<1> DEFINE dom == DominatorsOf(fn)
<1>2. dom_frontier' = [b \in fn.blocks |->
            IF b \in DOMAIN dom THEN DominanceFrontier(fn, dom, b) ELSE JoinsBehind(fn, b)]
  BY SameGraphs, SameDominance DEF RunDominators
<1>3. /\ DOMAIN dom = Reachable(fn)
      /\ \A b \in Reachable(fn) : dom[b] = {a \in fn.blocks : Dominates(fn, a, b)}
  BY DominatorsOfFacts
<1> HIDE DEF dom
<1> SUFFICES ASSUME NEW a \in Reachable(fn), NEW p \in Reachable(fn), NEW b \in Range(fn.succ[p]),
                    Dominates(fn, a, p), ~(a # b /\ Dominates(fn, a, b))
             PROVE  b \in dom_frontier'[a]
  BY DEF FrontierFull
<1>4. b \in Reachable(fn) /\ a \in fn.blocks
  BY <1>1, ReachableFacts
<1>5. b \in DominanceFrontier(fn, dom, a)
  BY <1>3, <1>4 DEF DominanceFrontier
<1> QED BY <1>2, <1>3, <1>4, <1>5

LEMMA PhiBlocksClosed ==
  ASSUME FlowGraph(fn), FrontierOf(fn, dom_frontier), NEW v,
         M!StoreBlocks(v) \subseteq fn.blocks
  PROVE  \A a \in M!StoreBlocks(v) \cup M!PhiBlocks(v) : dom_frontier[a] \subseteq M!PhiBlocks(v)
<1> DEFINE B == M!StoreBlocks(v)
           Closed(C) == \A a \in C : dom_frontier[a] \subseteq C
<1>1. IsFiniteSet(fn.blocks) /\ Reachable(fn) \subseteq fn.blocks
  BY FlowFacts, ReachableFacts
<1>2. PICK m \in Nat : m = Cardinality(fn.blocks) /\ \E f : Grown(v, m, f) /\ M!PhiBlocks(v) = f[m]
  BY <1>1, PhiBlocksIsLast
<1>3. PICK f : Grown(v, m, f) /\ M!PhiBlocks(v) = f[m]
  BY <1>2
<1>4. \A b \in fn.blocks : dom_frontier[b] \subseteq fn.blocks
  BY <1>1 DEF FrontierOf
<1>5. \A C : M!Frontier(C) = UNION {dom_frontier[c] : c \in C}
  BY DEF M!Frontier
<1> DEFINE S == {n \in 0 .. m : /\ f[n] \subseteq fn.blocks /\ f[0] \subseteq f[n]
                                /\ Closed(f[n]) \/ Cardinality(f[n]) > n}
<1>6. f[0] = M!Frontier(B) /\ f[0] \subseteq fn.blocks
  <2>1. f[0] = M!Frontier(B)
    BY <1>3 DEF Grown, GrownAt
  <2> HIDE DEF B
  <2>2. \A b \in f[0] : \E c \in B : b \in dom_frontier[c]
    BY <1>5, <2>1
  <2> QED BY <1>4, <2>1, <2>2 DEF B
<1> HIDE DEF B
<1>7. 0 \in S
  <2>1. f[0] # {} => Cardinality(f[0]) > 0
    BY <1>1, <1>6, FS_Subset, FS_EmptySet, FS_CardinalityType
  <2>2. f[0] = {} => Closed(f[0])
    OBVIOUS
  <2> HIDE DEF Closed
  <2> QED BY <1>6, <2>1, <2>2
<1>8. ASSUME NEW n \in Nat, n < m, n \in S PROVE n + 1 \in S
  <2>1. n + 1 \in 0 .. m /\ (n + 1) - 1 = n /\ n + 1 # 0
    BY <1>8
  <2>2. f[n + 1] = f[n] \cup M!Frontier(f[n])
    BY <1>3, <2>1 DEF Grown, GrownAt
  <2>3. PICK X : X = f[n]
    OBVIOUS
  <2>4. PICK Y : Y = f[n + 1]
    OBVIOUS
  <2>5. X \subseteq fn.blocks /\ f[0] \subseteq X /\ (Closed(X) \/ Cardinality(X) > n)
    BY <1>8, <2>3
  <2>6. Y = X \cup UNION {dom_frontier[c] : c \in X}
    BY <1>5, <2>2, <2>3, <2>4
  <2>7. Y \subseteq fn.blocks /\ f[0] \subseteq Y /\ X \subseteq Y
    BY <1>4, <2>5, <2>6
  <2>8. Closed(Y) \/ Cardinality(Y) > n + 1
    <3>1. CASE Closed(X)
      <4>1. Y = X
        BY <2>6, <3>1
      <4> QED BY <3>1, <4>1
    <3>2. CASE ~Closed(X)
      <4>1. PICK a \in X : ~(dom_frontier[a] \subseteq X)
        BY <3>2
      <4>2. PICK c \in dom_frontier[a] : c \notin X
        BY <4>1
      <4>3. c \in Y /\ X \cup {c} \subseteq Y
        BY <2>6, <2>7, <4>1, <4>2
      <4>4. IsFiniteSet(X) /\ IsFiniteSet(Y)
        BY <1>1, <2>5, <2>7, FS_Subset
      <4>5. Cardinality(X \cup {c}) = Cardinality(X) + 1 /\ Cardinality(X \cup {c}) <= Cardinality(Y)
        BY <4>2, <4>3, <4>4, FS_AddElement, FS_Subset
      <4>6. Cardinality(X) \in Nat /\ Cardinality(Y) \in Nat /\ Cardinality(X) > n
        BY <2>5, <3>2, <4>4, FS_CardinalityType
      <4> QED BY <4>5, <4>6
    <3> QED BY <3>1, <3>2
  <2> HIDE DEF Closed
  <2> QED BY <2>1, <2>4, <2>7, <2>8
<1>9. m \in S
  <2>1. 0 .. m \subseteq S
    <3> HIDE DEF S
    <3> QED BY <1>7, <1>8, CountingUp
  <2> QED BY <2>1
<1>10. PICK X : X = f[m]
  OBVIOUS
<1>11. X \subseteq fn.blocks /\ f[0] \subseteq X /\ (Closed(X) \/ Cardinality(X) > m)
  BY <1>9, <1>10
<1>12. Cardinality(X) <= m /\ Cardinality(X) \in Nat
  BY <1>1, <1>2, <1>11, FS_Subset, FS_CardinalityType
<1>13. Closed(X)
  BY <1>11, <1>12
<1>14. \A a \in B : dom_frontier[a] \subseteq X
  BY <1>5, <1>6, <1>11
<1> QED BY <1>3, <1>10, <1>13, <1>14 DEF B

-----------------------------------------------------------------------------
(* The invariant of the names: a stack holds, for every active call, the   *)
(* value its variable has where the call is at work; a load that has been  *)
(* renamed is replaced by the value its variable has there, and a phi gets *)
(* the value its variable has at the end of the predecessor.               *)

Program == [fn |-> fn, phis |-> phis, operand |-> operand]

\* Where a call is at work, and the value of v there.
PointOf(q, fr) == IF fr.pc = "instrs" THEN fr.pos ELSE EndOf(q, fr.bb)

HasValue(q, fr, v) ==
  IF fr.pc = "phis" THEN Setters(q, fr.bb, v) # {} ELSE Reaches(q, fr.bb, PointOf(q, fr), v)

ValueOf(q, fr, v) ==
  IF fr.pc = "phis" THEN Inherited(q, fr.bb, v) ELSE Reaching(q, fr.bb, PointOf(q, fr), v)

CallNamed(q, fr, v, height, list) ==
  /\ height > 0 <=> HasValue(q, fr, v)
  /\ height > 0 => list[height] = ValueOf(q, fr, v)

StacksNamed ==
  \A v \in Locals : \E g :
    /\ Sums(calls, v, g) /\ g[Len(calls)] = Height(v)
    /\ \A n \in 1 .. Len(calls) : CallNamed(Program, calls[n], v, g[n], var_val_stack[v])

OwnLoad(id) == M!Value("load", id[1], id[2])

StoresNamed ==
  \A id \in M!InstrsOf("store", Locals \cup Globals) :
    operand[id] = IF M!At(id).src = 0 THEN M!Value("own", id[1], id[2])
                  ELSE operand[<<id[1], id[2] - M!At(id).src>>]

LoadsNamed ==
  /\ \A id \in M!InstrsOf("load", Globals) : operand[id] = OwnLoad(id)
  /\ \A id \in M!InstrsOf("load", Locals) :
       operand[id] = IF IsRenamed(id[1], id[2]) /\ Reaches(Program, id[1], id[2], M!At(id).var)
                     THEN Reaching(Program, id[1], id[2], M!At(id).var) ELSE OwnLoad(id)

OperandsDefined == \A id \in Accessed : DefinedBefore(fn, operand[id], id[1], id[2] + 1)

PairsNamed ==
  \A p \in pairs : /\ Reaches(Program, p.from, EndOf(Program, p.from), p.at[2])
                   /\ p.val = Reaching(Program, p.from, EndOf(Program, p.from), p.at[2])

NamesInv ==
  /\ StacksNamed /\ StoresNamed /\ LoadsNamed /\ OperandsDefined /\ PairsNamed
  /\ PhisClosed /\ CodeCopies(fn)

\* The sums determine each other and grow.
LEMMA SumsUnique ==
  ASSUME NEW cs, NEW v, NEW g, NEW h, Sums(cs, v, g), Sums(cs, v, h), Len(cs) \in Nat
  PROVE  g = h
<1> DEFINE n == Len(cs)
<1>1. /\ g \in [0 .. n -> Nat] /\ g[0] = 0 /\ \A i \in 1 .. n : g[i] = g[i - 1] + M!Done(cs[i], v)
      /\ h \in [0 .. n -> Nat] /\ h[0] = 0 /\ \A i \in 1 .. n : h[i] = h[i - 1] + M!Done(cs[i], v)
  BY DEF Sums
<1> DEFINE S == {k \in Nat : g[k] = h[k]}
<1>2. 0 \in S
  BY <1>1
<1>3. ASSUME NEW k \in Nat, k < n, k \in S PROVE k + 1 \in S
  <2>1. k + 1 \in 1 .. n /\ (k + 1) - 1 = k /\ k + 1 \in Nat
    BY <1>3
  <2>2. g[k + 1] = g[k] + M!Done(cs[k + 1], v) /\ h[k + 1] = h[k] + M!Done(cs[k + 1], v)
    BY <1>1, <2>1
  <2> QED BY <1>3, <2>1, <2>2
<1>4. 0 .. n \subseteq S
  <2> HIDE DEF S
  <2> QED BY <1>2, <1>3, CountingUp
<1>5. \A k \in 0 .. n : g[k] = h[k]
  BY <1>4
<1> QED BY <1>1, <1>5

LEMMA SumsGrow ==
  ASSUME NEW cs, NEW v, NEW g, Sums(cs, v, g), Len(cs) \in Nat,
         \A i \in 1 .. Len(cs) : M!Done(cs[i], v) \in Nat,
         NEW i \in 0 .. Len(cs), NEW j \in 0 .. Len(cs), i <= j
  PROVE  g[i] <= g[j] /\ g[i] \in Nat /\ g[j] \in Nat
<1> DEFINE n == Len(cs)
<1>1. /\ g \in [0 .. n -> Nat] /\ \A k \in 1 .. n : g[k] = g[k - 1] + M!Done(cs[k], v)
  BY DEF Sums
<1>2. n \in Nat /\ \A k \in 1 .. n : M!Done(cs[k], v) \in Nat
  OBVIOUS
<1>3. i \in 0 .. n /\ j \in 0 .. n /\ i <= j
  OBVIOUS
<1> HIDE DEF n
<1> DEFINE S == {k \in Nat : i + k <= n => g[i] <= g[i + k]}
<1>4. 0 \in S
  BY <1>1, <1>2, <1>3
<1>5. ASSUME NEW k \in Nat, k < n - i, k \in S PROVE k + 1 \in S
  <2>1. /\ i + (k + 1) \in 1 .. n /\ (i + (k + 1)) - 1 = i + k /\ i + k \in 0 .. n /\ i + k <= n
    BY <1>2, <1>3, <1>5
  <2>2. g[i + (k + 1)] = g[i + k] + M!Done(cs[i + (k + 1)], v)
    BY <1>1, <2>1
  <2>3. /\ g[i] <= g[i + k] /\ g[i + k] \in Nat /\ g[i] \in Nat
        /\ M!Done(cs[i + (k + 1)], v) \in Nat
    BY <1>1, <1>2, <1>3, <1>5, <2>1
  <2> QED BY <2>2, <2>3
<1>6. 0 .. (n - i) \subseteq S
  <2>1. n - i \in Nat
    BY <1>2, <1>3
  <2> HIDE DEF S
  <2> QED BY <1>4, <1>5, <2>1, CountingUp
<1>7. j - i \in S /\ i + (j - i) = j /\ j <= n
  <2>1. j - i \in 0 .. (n - i)
    BY <1>2, <1>3
  <2> HIDE DEF S
  <2>2. j - i \in S
    BY <1>6, <2>1
  <2> QED BY <1>2, <1>3, <2>2
<1> QED BY <1>1, <1>3, <1>7

\* The newest value of a variable is the one it has where the call on top is at work.
LEMMA TopNamed ==
  ASSUME Ready, calls # <<>>, StacksNamed, NEW v \in Locals
  PROVE  /\ Height(v) > 0 <=> HasValue(Program, M!TopRename, v)
         /\ Height(v) > 0 => M!Newest(v) = ValueOf(Program, M!TopRename, v)
         /\ v \in DOMAIN var_val_stack /\ var_val_stack[v] # <<>> <=> Height(v) > 0
<1> DEFINE n == Len(calls)
<1>1. n \in 1 .. n /\ M!TopRename = calls[n]
  BY TopCallFacts
<1>2. PICK g : /\ g[n] = Height(v)
               /\ \A i \in 1 .. n : CallNamed(Program, calls[i], v, g[i], var_val_stack[v])
  BY DEF StacksNamed
<1> HIDE DEF n
<1>3. CallNamed(Program, M!TopRename, v, Height(v), var_val_stack[v])
  BY <1>1, <1>2
<1>4. Height(v) > 0 => Height(v) = Len(var_val_stack[v])
  BY DEF Height
<1>5. v \in DOMAIN var_val_stack /\ var_val_stack[v] # <<>> <=> Height(v) > 0
  <2> DEFINE R == Values
  <2>1. \A w \in DOMAIN var_val_stack : var_val_stack[w] \in Seq(R)
    BY DEF Ready, RenameInv, PassTyped
  <2> HIDE DEF R
  <2>2. \A s \in Seq(R) : s # <<>> <=> Len(s) > 0
    OBVIOUS
  <2> QED BY <2>1, <2>2 DEF Height
<1> QED BY <1>3, <1>4, <1>5 DEF CallNamed, M!Newest

\* A block above one that was called has been renamed to its end.
LEMMA RenamedAbove ==
  ASSUME NEW f, NEW tree, NEW cs, FlowGraph(f), TreeOf(f, tree), CallsNested(f, tree, cs),
         NEW a, NEW b \in Reachable(f) \ Awaits(f, tree, cs), Dominates(f, a, b), a # b
  PROVE  \A i : Renamed(f, tree, cs, a, i)
<1>1. a \in Reachable(f) \ Awaits(f, tree, cs)
  BY DominatorsFirst
<1>2. ASSUME NEW j \in 1 .. Len(cs), cs[j].bb = a PROVE cs[j].pc = "children"
  <2> SUFFICES ASSUME cs[j].pc # "children" PROVE FALSE
    OBVIOUS
  <2>1. PICK c \in Reachable(f) \ {Entry} : Immediate(f, a, c) /\ Dominates(f, c, b)
    BY ThroughChild
  <2>2. a \in f.blocks
    BY <1>1, ReachableFacts
  <2>3. c \in tree[a]
    BY <2>1, <2>2 DEF TreeOf
  <2>4. c \in Rest(tree, cs[j])
    BY <1>2, <2>3 DEF Rest
  <2>5. b \in Awaits(f, tree, cs)
    BY <2>1, <2>4 DEF Awaits
  <2> QED BY <2>5
<1> QED BY <1>1, <1>2 DEF Renamed, InstrBehind

LEMMA ProgramFacts ==
  ASSUME PromotionAssumption, WellFormed(fn), FlowGraph(fn)
  PROVE  /\ Program.fn = fn /\ Program.phis = phis /\ Program.operand = operand
         /\ FlowGraph(Program.fn) /\ Locals \subseteq Nat
         /\ \A a \in Program.fn.blocks : Len(Program.fn.code[a]) \in Nat
         /\ \A b : EndOf(Program, b) = Len(fn.code[b]) + 1
<1>1. Program.fn = fn /\ Program.phis = phis /\ Program.operand = operand
  BY DEF Program
<1>2. \A a \in fn.blocks : Len(fn.code[a]) \in Nat
  BY InstrFacts
<1>3. Locals \subseteq Nat
  BY DEF PromotionAssumption
<1> QED BY <1>1, <1>2, <1>3 DEF EndOf

LEMMA StoresAreDefined ==
  ASSUME WellFormed(fn), PassTyped, OperandsDefined, NEW v \in Locals
  PROVE  StoresDefined(Program, v)
<1>1. Program.fn = fn /\ Program.operand = operand
  BY DEF Program
<1> SUFFICES ASSUME NEW b \in fn.blocks, NEW j \in 1 .. Len(fn.code[b]),
                    fn.code[b][j].op = "store", fn.code[b][j].var = v
             PROVE  operand[<<b, j>>] \in Values /\ DefinedBefore(fn, operand[<<b, j>>], b, j + 1)
  BY <1>1 DEF StoresDefined
<1>2. DOMAIN fn.code[b] = 1 .. Len(fn.code[b])
  BY InstrFacts
<1>3. <<b, j>> \in M!InstrsOf("store", Locals \cup Globals)
  BY <1>2, InstrFacts
<1>4. <<b, j>> \in Accessed
  BY <1>3 DEF Accessed
<1>5. operand[<<b, j>>] \in Values
  BY <1>4 DEF PassTyped
<1>6. <<b, j>>[1] = b /\ <<b, j>>[2] = j
  OBVIOUS
<1> QED BY <1>4, <1>5, <1>6 DEF OperandsDefined

\* What reaches a point that the renaming has passed does not change any more.
LEMMA ReachingSettled ==
  ASSUME PromotionAssumption, WellFormed(fn), FlowGraph(fn), TreeOf(fn, dom_tree_succ),
         CallsNested(fn, dom_tree_succ, calls),
         NEW b \in Reachable(fn) \ Awaits(fn, dom_tree_succ, calls), NEW i \in Nat \ {0},
         i <= EndOf(Program, b), \A j \in 1 .. i - 1 : IsRenamed(b, j), NEW v \in Locals,
         NEW r, r.fn = fn, r.phis = phis,
         \A id \in M!InstrsOf("store", Locals) : IsRenamed(id[1], id[2]) => r.operand[id] = operand[id]
  PROVE  /\ Reaches(r, b, i, v) <=> Reaches(Program, b, i, v)
         /\ Reaches(Program, b, i, v) => Reaching(r, b, i, v) = Reaching(Program, b, i, v)
<1>1. /\ Program.fn = fn /\ Program.phis = phis /\ Program.operand = operand
      /\ FlowGraph(Program.fn) /\ \A a \in Program.fn.blocks : Len(Program.fn.code[a]) \in Nat
      /\ \A a : EndOf(Program, a) = Len(fn.code[a]) + 1
  BY ProgramFacts
<1>2. b \in fn.blocks
  BY ReachableFacts
<1>3. ASSUME NEW a \in fn.blocks, NEW k, NEW j \in StoresBefore(Program, a, k, v),
             k \in Nat, k <= EndOf(Program, a), IsRenamed(a, j)
      PROVE  r.operand[<<a, j>>] = operand[<<a, j>>]
  <2>1. j \in 1 .. k - 1 /\ fn.code[a][j].op = "store" /\ fn.code[a][j].var = v
    BY <1>1 DEF StoresBefore
  <2>2. DOMAIN fn.code[a] = 1 .. Len(fn.code[a]) /\ Len(fn.code[a]) \in Nat
    BY InstrFacts
  <2>3. j \in DOMAIN fn.code[a]
    BY <1>1, <1>3, <2>1, <2>2
  <2>4. <<a, j>> \in M!InstrsOf("store", Locals)
    BY <2>1, <2>3, InstrFacts
  <2>5. <<a, j>>[1] = a /\ <<a, j>>[2] = j
    OBVIOUS
  <2> QED BY <1>3, <2>4, <2>5
<1>4. \A j \in StoresBefore(Program, b, i, v) : r.operand[<<b, j>>] = Program.operand[<<b, j>>]
  <2>1. \A j \in StoresBefore(Program, b, i, v) : IsRenamed(b, j)
    BY DEF StoresBefore
  <2> QED BY <1>1, <1>2, <1>3, <2>1
<1>5. \A a \in Setters(Program, b, v) : \A j \in StoresBefore(Program, a, EndOf(Program, a), v) :
        r.operand[<<a, j>>] = Program.operand[<<a, j>>]
  <2> SUFFICES ASSUME NEW a \in Setters(Program, b, v),
                      NEW j \in StoresBefore(Program, a, EndOf(Program, a), v)
               PROVE  r.operand[<<a, j>>] = operand[<<a, j>>]
    BY <1>1
  <2>1. a \in fn.blocks /\ a # b /\ Dominates(fn, a, b)
    BY <1>1 DEF Setters
  <2>2. IsRenamed(a, j)
    BY <2>1, RenamedAbove DEF IsRenamed
  <2>3. EndOf(Program, a) \in Nat
    BY <1>1, <2>1
  <2>4. EndOf(Program, a) <= EndOf(Program, a)
    BY <2>3
  <2> QED BY <1>3, <2>1, <2>2, <2>3, <2>4
<1>6. PICK q : q = Program
  OBVIOUS
<1>7. r.fn = q.fn /\ r.phis = q.phis /\ FlowGraph(q.fn)
  BY <1>1, <1>6
<1>8. \A a \in q.fn.blocks : Len(q.fn.code[a]) \in Nat
  BY <1>1, <1>6
<1>9. \A j \in StoresBefore(q, b, i, v) : r.operand[<<b, j>>] = q.operand[<<b, j>>]
  BY <1>4, <1>6
<1>10. \A a \in Setters(q, b, v) : \A j \in StoresBefore(q, a, EndOf(q, a), v) :
         r.operand[<<a, j>>] = q.operand[<<a, j>>]
  BY <1>5, <1>6
<1>11. /\ Reaches(r, b, i, v) <=> Reaches(q, b, i, v)
       /\ Reaches(q, b, i, v) => Reaching(r, b, i, v) = Reaching(q, b, i, v)
  <2>1. SameStores(q, r, b, i, v)
    BY <1>7, <1>8, <1>9, <1>10 DEF SameStores
  <2> QED BY ONLY <2>1, SameReaching, i \in Nat \ {0}
<1> QED BY <1>6, <1>11

\* While instructions are renamed, nothing below their block has been called.
LEMMA NothingBelow ==
  ASSUME Ready, calls # <<>>, M!TopRename.pc = "instrs",
         NEW b \in Reachable(fn) \ Awaits(fn, dom_tree_succ, calls), b # M!TopRename.bb
  PROVE  ~Dominates(fn, M!TopRename.bb, b)
<1> SUFFICES ASSUME Dominates(fn, M!TopRename.bb, b) PROVE FALSE
  OBVIOUS
<1>1. /\ FlowGraph(fn) /\ TreeOf(fn, dom_tree_succ) /\ CallsNested(fn, dom_tree_succ, calls)
      /\ Len(calls) \in 1 .. Len(calls) /\ M!TopRename = calls[Len(calls)]
      /\ M!TopRename.pos \in Nat
  BY TopCallFacts
<1>2. IsRenamed(M!TopRename.bb, M!TopRename.pos)
  BY <1>1, RenamedAbove DEF IsRenamed
<1>3. InstrBehind(M!TopRename, M!TopRename.pos)
  BY <1>1, <1>2 DEF IsRenamed, Renamed
<1> QED BY <1>1, <1>3 DEF InstrBehind

\* What has been renamed does not name the load that is renamed next.
LEMMA RenamedOther ==
  ASSUME Ready, calls # <<>>, M!TopRename.pc = "instrs", OperandsDefined,
         NEW id \in Accessed, IsRenamed(id[1], id[2])
  PROVE  operand[id] # OwnLoad(<<M!TopRename.bb, M!TopRename.pos>>)
<1> DEFINE bb == M!TopRename.bb
           k == M!TopRename.pos
<1> SUFFICES ASSUME operand[id] = OwnLoad(<<bb, k>>) PROVE FALSE
  OBVIOUS
<1>1. /\ WellFormed(fn) /\ Len(calls) \in 1 .. Len(calls) /\ M!TopRename = calls[Len(calls)]
      /\ k \in Nat
  BY TopCallFacts
<1>2. DefinedBefore(fn, OwnLoad(<<bb, k>>), id[1], id[2] + 1)
  BY DEF OperandsDefined
<1>3. OwnLoad(<<bb, k>>).block = bb /\ OwnLoad(<<bb, k>>).at = k /\ OwnLoad(<<bb, k>>).kind = "load"
  BY DEF OwnLoad, M!Value
<1>4. id[2] \in Nat
  <2>1. PICK op, vars : id \in M!InstrsOf(op, vars)
    BY DEF Accessed
  <2>2. <<id[1], id[2]>> \in M!InstrsOf(op, vars)
    BY <1>1, <2>1, InstrFacts
  <2> QED BY <1>1, <2>2, InstrFacts
<1>5. CASE id[1] = bb
  <2>1. k < id[2] + 1
    BY <1>2, <1>3, <1>5 DEF DefinedBefore
  <2>2. InstrBehind(M!TopRename, id[2])
    BY <1>1, <1>5 DEF IsRenamed, Renamed
  <2>3. id[2] < k
    BY <2>2 DEF InstrBehind
  <2> QED BY <1>1, <1>4, <2>1, <2>3
<1>6. CASE id[1] # bb
  <2>1. Dominates(fn, bb, id[1])
    BY <1>2, <1>3, <1>6 DEF DefinedBefore
  <2>2. id[1] \in Reachable(fn) \ Awaits(fn, dom_tree_succ, calls)
    BY DEF IsRenamed, Renamed
  <2> QED BY <1>6, <2>1, <2>2, NothingBelow
<1> QED BY <1>5, <1>6

LEMMA PairsOther ==
  ASSUME PromotionAssumption, Ready, calls # <<>>, M!TopRename.pc = "instrs",
         OperandsDefined, PairsNamed, NEW p \in pairs
  PROVE  /\ p.val # OwnLoad(<<M!TopRename.bb, M!TopRename.pos>>)
         /\ p.from \in Reachable(fn) \ Awaits(fn, dom_tree_succ, calls)
         /\ \A j : IsRenamed(p.from, j)
<1> DEFINE bb == M!TopRename.bb
           k == M!TopRename.pos
<1>1. /\ WellFormed(fn) /\ FlowGraph(fn)
      /\ Len(calls) \in 1 .. Len(calls) /\ M!TopRename = calls[Len(calls)]
      /\ PassTyped
  BY TopCallFacts DEF Ready, RenameInv
<1>2. p.at \in phis /\ p.from \in Reachable(fn) /\ p.at[2] \in Locals
  BY EdgeNumbers
<1>3. PICK j : IsFilled(p.from, j)
  BY DEF Ready, RenameInv, PairsMade
<1>4. p.from \in Reachable(fn) \ Awaits(fn, dom_tree_succ, calls) /\ p.from \in fn.blocks
  BY <1>1, <1>3, ReachableFacts DEF IsFilled, Filled
<1>5. p.from # bb
  BY <1>1, <1>3 DEF IsFilled, Filled, EdgeBehind
<1>6. \A i : IsRenamed(p.from, i)
  BY <1>3 DEF IsFilled, Filled, IsRenamed, Renamed, EdgeBehind, InstrBehind
<1>7. /\ Program.fn = fn /\ FlowGraph(Program.fn)
      /\ \A a \in Program.fn.blocks : Len(Program.fn.code[a]) \in Nat
      /\ EndOf(Program, p.from) \in Nat \ {0} /\ EndOf(Program, p.from) <= EndOf(Program, p.from)
      /\ p.at[2] \in Nat
  <2>1. Len(fn.code[p.from]) \in Nat
    BY <1>1, <1>4, InstrFacts
  <2> QED BY <1>1, <1>2, <2>1, ProgramFacts
<1>8. StoresDefined(Program, p.at[2])
  BY <1>1, <1>2, StoresAreDefined
<1>9. /\ Reaches(Program, p.from, EndOf(Program, p.from), p.at[2])
      /\ p.val = Reaching(Program, p.from, EndOf(Program, p.from), p.at[2])
  BY DEF PairsNamed
<1>10. DefinedBefore(fn, p.val, p.from, EndOf(Program, p.from))
  BY <1>4, <1>7, <1>8, <1>9, ReachingDefined
<1>11. p.val # OwnLoad(<<bb, k>>)
  <2> SUFFICES ASSUME p.val = OwnLoad(<<bb, k>>) PROVE FALSE
    OBVIOUS
  <2>1. p.val.block = bb
    BY DEF OwnLoad, M!Value
  <2>2. Dominates(fn, bb, p.from)
    BY <1>5, <1>10, <2>1 DEF DefinedBefore
  <2> QED BY <1>4, <1>5, <2>2, NothingBelow
<1> QED BY <1>4, <1>6, <1>11

-----------------------------------------------------------------------------
(* What keeps the names.                                                   *)

\* Only the call on top moves, and the stacks keep what they held.
LEMMA StackGoesOn ==
  ASSUME Ready, calls # <<>>, Reading, RenameInv', StacksNamed, Len(calls') = Len(calls),
         \A i \in 1 .. Len(calls) : i # Len(calls) => calls'[i] = calls[i],
         \A v \in Locals : \A m \in 1 .. Height(v) : var_val_stack'[v][m] = var_val_stack[v][m],
         \A v \in Locals : \A i \in 1 .. Len(calls) : i # Len(calls) =>
           /\ HasValue(Program', calls[i], v) <=> HasValue(Program, calls[i], v)
           /\ HasValue(Program, calls[i], v) =>
                ValueOf(Program', calls[i], v) = ValueOf(Program, calls[i], v),
         \A v \in Locals :
           CallNamed(Program', calls'[Len(calls)], v, Height(v)', var_val_stack'[v])
  PROVE  StacksNamed'
<1> SUFFICES ASSUME NEW v \in Locals
             PROVE  \E g : /\ Sums(calls, v, g)' /\ g[Len(calls')] = Height(v)'
                           /\ \A n \in 1 .. Len(calls') :
                                CallNamed(Program', calls'[n], v, g[n], var_val_stack'[v])
  BY DEF StacksNamed
<1> DEFINE n == Len(calls)
<1>1. /\ n \in Nat \ {0} /\ n \in 1 .. n /\ WellFormed(fn)
      /\ \A i \in 1 .. n : calls[i] \in CallFrame(fn) /\ calls[i].bb \in fn.blocks
  BY TopCallFacts
<1>2. \A i \in 1 .. n : M!Done(calls[i], v) \in Nat
  BY <1>1, DoneFacts
<1>3. PICK g : /\ Sums(calls, v, g) /\ g[n] = Height(v)
               /\ \A i \in 1 .. n : CallNamed(Program, calls[i], v, g[i], var_val_stack[v])
  BY DEF StacksNamed
<1>4. PICK h : Sums(calls, v, h)' /\ h[Len(calls')] = Height(v)'
  BY DEF RenameInv, Balanced
<1>5. /\ h \in [0 .. n -> Nat] /\ h[0] = 0
      /\ \A i \in 1 .. n : h[i] = h[i - 1] + M!Done(calls[i], v)'
  BY <1>4 DEF Sums
<1>6. \A i \in 1 .. n : i # n => M!Done(calls[i], v)' = M!Done(calls[i], v)
  <2> SUFFICES ASSUME NEW i \in 1 .. n, i # n PROVE M!Done(calls[i], v)' = M!Done(calls[i], v)
    OBVIOUS
  <2>1. calls'[i] = calls[i]
    OBVIOUS
  <2> QED BY <2>1, DoneLater
<1>7. PICK k : k = [h EXCEPT ![n] = h[n - 1] + M!Done(calls[n], v)]
  OBVIOUS
<1>8. n - 1 \in 0 .. n /\ n \in 0 .. n /\ h[n - 1] \in Nat
  BY <1>1, <1>5
<1>9. /\ k \in [0 .. n -> Nat] /\ k[n] = h[n - 1] + M!Done(calls[n], v)
      /\ \A i \in 0 .. n : i # n => k[i] = h[i]
  BY <1>1, <1>2, <1>5, <1>7, <1>8
<1>10. Sums(calls, v, k)
  <2>1. k[0] = 0
    BY <1>1, <1>5, <1>9
  <2>2. ASSUME NEW i \in 1 .. n PROVE k[i] = k[i - 1] + M!Done(calls[i], v)
    <3>1. i - 1 \in 0 .. n /\ i - 1 # n /\ i \in 0 .. n
      BY <1>1
    <3>2. CASE i = n
      BY <1>9, <3>1, <3>2
    <3>3. CASE i # n
      BY <1>5, <1>6, <1>9, <3>1, <3>3
    <3> QED BY <3>2, <3>3
  <2> QED BY <1>9, <2>1, <2>2 DEF Sums
<1>11. k = g
  BY <1>1, <1>3, <1>10, SumsUnique
<1>12. ASSUME NEW i \in 1 .. n, i # n
       PROVE  h[i] = g[i] /\ h[i] \in Nat /\ h[i] <= Height(v)
  <2>1. i \in 0 .. n /\ n \in 0 .. n /\ i <= n
    BY <1>1
  <2>2. g[i] <= g[n] /\ g[i] \in Nat
    BY <1>1, <1>2, <1>3, <2>1, SumsGrow
  <2> QED BY <1>3, <1>9, <1>11, <1>12, <2>1, <2>2
<1>13. Height(v) \in Nat
  BY HeightFacts DEF Ready, RenameInv
<1>14. ASSUME NEW i \in 1 .. n, i # n
       PROVE  CallNamed(Program', calls'[i], v, h[i], var_val_stack'[v])
  <2>1. CallNamed(Program, calls[i], v, h[i], var_val_stack[v])
    BY <1>3, <1>12, <1>14
  <2>2. calls'[i] = calls[i]
    BY <1>14
  <2>3. /\ HasValue(Program', calls[i], v) <=> HasValue(Program, calls[i], v)
        /\ HasValue(Program, calls[i], v) =>
             ValueOf(Program', calls[i], v) = ValueOf(Program, calls[i], v)
    BY <1>14
  <2>4. h[i] > 0 => var_val_stack'[v][h[i]] = var_val_stack[v][h[i]]
    BY <1>12, <1>13, <1>14
  <2> QED BY <2>1, <2>2, <2>3, <2>4 DEF CallNamed
<1>15. \A i \in 1 .. n : CallNamed(Program', calls'[i], v, h[i], var_val_stack'[v])
  BY <1>4, <1>14
<1> QED BY <1>4, <1>15

\* The same if no operand changes.
LEMMA StackGrows ==
  ASSUME Ready, calls # <<>>, Reading, UNCHANGED operand, RenameInv', StacksNamed,
         Len(calls') = Len(calls),
         \A i \in 1 .. Len(calls) : i # Len(calls) => calls'[i] = calls[i],
         \A v \in Locals : \A m \in 1 .. Height(v) : var_val_stack'[v][m] = var_val_stack[v][m],
         \A v \in Locals :
           CallNamed(Program, calls'[Len(calls)], v, Height(v)', var_val_stack'[v])
  PROVE  StacksNamed'
<1>1. Program' = Program
  BY DEF Program, Reading
<1>2. \A v \in Locals :
        CallNamed(Program', calls'[Len(calls)], v, Height(v)', var_val_stack'[v])
  BY <1>1
<1>3. \A v \in Locals : \A i \in 1 .. Len(calls) : i # Len(calls) =>
           /\ HasValue(Program', calls[i], v) <=> HasValue(Program, calls[i], v)
           /\ HasValue(Program, calls[i], v) =>
                ValueOf(Program', calls[i], v) = ValueOf(Program, calls[i], v)
  BY <1>1
<1> HIDE <1>1
<1> QED BY <1>2, <1>3, StackGoesOn

\* The same if no stack changes either.
LEMMA StackRests ==
  ASSUME Ready, calls # <<>>, Reading, UNCHANGED <<operand, var_val_stack>>, RenameInv',
         StacksNamed, Len(calls') = Len(calls),
         \A i \in 1 .. Len(calls) : i # Len(calls) => calls'[i] = calls[i],
         NEW fr, calls'[Len(calls)] = fr,
         \A v \in Locals : /\ HasValue(Program, fr, v) <=> HasValue(Program, M!TopRename, v)
                           /\ ValueOf(Program, fr, v) = ValueOf(Program, M!TopRename, v)
  PROVE  StacksNamed'
<1>1. \A v \in Locals :
        CallNamed(Program, calls'[Len(calls)], v, Height(v)', var_val_stack'[v])
  <2> SUFFICES ASSUME NEW v \in Locals
               PROVE  CallNamed(Program, fr, v, Height(v), var_val_stack[v])
    BY DEF Height
  <2>1. /\ Height(v) > 0 <=> HasValue(Program, M!TopRename, v)
        /\ Height(v) > 0 => M!Newest(v) = ValueOf(Program, M!TopRename, v)
    BY TopNamed
  <2>2. Height(v) > 0 => M!Newest(v) = var_val_stack[v][Height(v)]
    BY DEF Height, M!Newest
  <2> QED BY <2>1, <2>2 DEF CallNamed
<1> QED BY <1>1, StackGrows

\* No operand changes, and no load of a local variable is renamed.
LEMMA NamesStay ==
  ASSUME NamesInv, Reading, UNCHANGED operand, StacksNamed', PairsNamed',
         \A id \in M!InstrsOf("load", Locals) :
           IsRenamed(id[1], id[2])' <=> IsRenamed(id[1], id[2])
  PROVE  NamesInv'
<1>1. Program' = Program /\ fn' = fn /\ operand' = operand /\ dom_frontier' = dom_frontier
      /\ phis' = phis
  BY DEF Program, Reading
<1>2. /\ \A op, vars : M!InstrsOf(op, vars)' = M!InstrsOf(op, vars)
      /\ \A id : M!At(id)' = M!At(id)
      /\ Accessed' = Accessed /\ \A b, v : Sets(b, v)' <=> Sets(b, v)
  BY SameProgram
<1>3. StoresNamed'
  BY <1>1, <1>2 DEF NamesInv, StoresNamed
<1>4. LoadsNamed'
  <2>1. ASSUME NEW id \in M!InstrsOf("load", Globals) PROVE operand[id] = OwnLoad(id)
    BY DEF NamesInv, LoadsNamed
  <2>2. ASSUME NEW id \in M!InstrsOf("load", Locals)
        PROVE  operand[id] =
                 IF IsRenamed(id[1], id[2])' /\ Reaches(Program, id[1], id[2], M!At(id).var)
                 THEN Reaching(Program, id[1], id[2], M!At(id).var) ELSE OwnLoad(id)
    BY DEF NamesInv, LoadsNamed
  <2> QED BY <1>1, <1>2, <2>1, <2>2 DEF LoadsNamed
<1>5. OperandsDefined'
  BY <1>1, <1>2 DEF NamesInv, OperandsDefined
<1>6. PhisClosed'
  BY <1>1, <1>2 DEF NamesInv, PhisClosed
<1>7. CodeCopies(fn)'
  BY <1>1 DEF NamesInv
<1> QED BY <1>3, <1>4, <1>5, <1>6, <1>7 DEF NamesInv

LEMMA PairsNamedStay ==
  ASSUME PairsNamed, Reading, UNCHANGED <<operand, pairs>>
  PROVE  PairsNamed'
<1>1. Program' = Program
  BY DEF Program, Reading
<1> QED BY <1>1 DEF PairsNamed

LEMMA EntriesPushed ==
  ASSUME NEW S, NEW s, NEW f, StacksOf(S, s), ValuesOf(S, f), NEW v
  PROVE  /\ v \in DOMAIN s => \A m \in 1 .. Len(s[v]) : M!Push(s, f)[v][m] = s[v][m]
         /\ v \in DOMAIN f => M!Push(s, f)[v][Len(M!Push(s, f)[v])] = f[v]
<1> DEFINE r == M!Push(s, f)
           old == IF v \in DOMAIN s THEN s[v] ELSE <<>>
<1>1. v \in DOMAIN s \cup DOMAIN f => r[v] = IF v \in DOMAIN f THEN Append(old, f[v]) ELSE old
  BY DEF M!Push
<1>2. old \in Seq(S)
  BY DEF StacksOf
<1>3. v \in DOMAIN f => f[v] \in S
  BY DEF ValuesOf
<1>4. v \in DOMAIN s => old = s[v]
  OBVIOUS
<1> HIDE DEF r, old
<1>5. v \in DOMAIN f => r[v][Len(r[v])] = f[v] /\ \A m \in 1 .. Len(old) : r[v][m] = old[m]
  BY <1>1, <1>2, <1>3
<1>6. v \in DOMAIN s => \A m \in 1 .. Len(s[v]) : r[v][m] = s[v][m]
  BY <1>1, <1>4, <1>5
<1> QED BY <1>5, <1>6 DEF r

\* The stacks after a push.
LEMMA HeightPushed ==
  ASSUME PassTyped, NEW f, ValuesOf(Values, f), var_val_stack' = M!Push(var_val_stack, f), NEW v
  PROVE  /\ v \in DOMAIN f => /\ Height(v)' = Height(v) + 1
                              /\ var_val_stack'[v][Height(v)'] = f[v]
         /\ v \notin DOMAIN f => Height(v)' = Height(v)
         /\ \A m \in 1 .. Height(v) : var_val_stack'[v][m] = var_val_stack[v][m]
<1> DEFINE s == var_val_stack
           r == M!Push(var_val_stack, f)
<1>1. StacksOf(Values, s)
  BY DEF PassTyped, StacksOf
<1>2. AfterPush(Values, s, f, r)
  BY <1>1, ValuesPushed
<1>3. /\ v \in DOMAIN s => \A m \in 1 .. Len(s[v]) : r[v][m] = s[v][m]
      /\ v \in DOMAIN f => r[v][Len(r[v])] = f[v]
  BY <1>1, EntriesPushed
<1>4. Height(v)' = IF v \in DOMAIN r THEN Len(r[v]) ELSE 0
  BY DEF Height
<1>5. /\ Height(v) \in Nat
      /\ v \in DOMAIN s => Height(v) = Len(s[v])
      /\ v \notin DOMAIN s => Height(v) = 0
  BY HeightFacts
<1>6. /\ DOMAIN r = DOMAIN s \cup DOMAIN f
      /\ v \in DOMAIN f /\ v \in DOMAIN s => Len(r[v]) = Len(s[v]) + 1
      /\ v \in DOMAIN f /\ v \notin DOMAIN s => Len(r[v]) = 1
      /\ v \in DOMAIN s /\ v \notin DOMAIN f => r[v] = s[v]
  BY <1>2 DEF AfterPush
<1>7. var_val_stack'[v] = r[v]
  OBVIOUS
<1> HIDE DEF s, r
<1>8. v \in DOMAIN f => Height(v)' = Height(v) + 1 /\ r[v][Height(v)'] = f[v]
  BY <1>3, <1>4, <1>5, <1>6
<1>9. v \notin DOMAIN f => Height(v)' = Height(v)
  BY <1>4, <1>5, <1>6
<1>10. \A m \in 1 .. Height(v) : r[v][m] = s[v][m]
  BY <1>3, <1>5
<1> QED BY <1>7, <1>8, <1>9, <1>10 DEF s

\* Of the instructions only the one at the position of the top call is renamed.
LEMMA OnlyThisInstr ==
  ASSUME Ready, calls # <<>>, Reading, M!TopRename.pc = "instrs",
         M!TopRename.pos <= Len(fn.code[M!TopRename.bb]),
         M!GoOn("instrs", M!TopRename.pos + 1, {})
  PROVE  /\ \A op, vars : \A id \in M!InstrsOf(op, vars) :
              IsRenamed(id[1], id[2])' <=>
                IsRenamed(id[1], id[2]) \/ id = <<M!TopRename.bb, M!TopRename.pos>>
         /\ ~IsRenamed(M!TopRename.bb, M!TopRename.pos)
         /\ \A j \in 1 .. M!TopRename.pos - 1 : IsRenamed(M!TopRename.bb, j)
         /\ M!TopRename.bb \in Reachable(fn) \ Awaits(fn, dom_tree_succ, calls)
<1> DEFINE bb == M!TopRename.bb
           k == M!TopRename.pos
           fr == Onward("instrs", k + 1, {})
<1>1. /\ WellFormed(fn) /\ k \in Nat \ {0} /\ Len(fn.code[bb]) \in Nat
      /\ bb \in Reachable(fn) \ Awaits(fn, dom_tree_succ, calls)
      /\ fr.bb = bb /\ fr.pc = "instrs" /\ fr.pos = k + 1
      /\ \A i : IsRenamed(bb, i) <=> i < k
      /\ \A op, vars : \A id \in M!InstrsOf(op, vars) :
            IsRenamed(id[1], id[2])' => IsRenamed(id[1], id[2]) \/ id = <<bb, k>>
  <2>1. WellFormed(fn) /\ bb \in fn.blocks
    BY TopCallFacts
  <2>2. /\ k \in Nat \ {0} /\ bb \in Reachable(fn) /\ bb \notin Awaits(fn, dom_tree_succ, calls)
        /\ \A i : IsRenamed(bb, i) <=> i < k
        /\ \A op, vars : \A id \in M!InstrsOf(op, vars) :
              IsRenamed(id[1], id[2])' => IsRenamed(id[1], id[2]) \/ id = <<bb, k>>
    BY OneInstr
  <2>3. fr.bb = bb /\ fr.pc = "instrs" /\ fr.pos = k + 1
    <3>1. k + 1 \in Nat \ {0}
      BY <2>2
    <3> QED BY <3>1, OnwardEmpty
  <2> QED BY <2>1, <2>2, <2>3, InstrFacts
<1>2. /\ {} \subseteq dom_tree_succ[bb] /\ k + 1 \in Nat \ {0} /\ k + 1 <= Len(fn.code[bb]) + 1
  BY <1>1
<1> HIDE DEF fr, k
<1>3. /\ \A b, i : b = bb => (IsRenamed(b, i)' <=> InstrBehind(fr, i))
      /\ \A b, i : b # bb => (IsRenamed(b, i)' <=> IsRenamed(b, i))
  BY <1>2, TopGoesOn DEF fr, k
<1>4. \A i : InstrBehind(fr, i) <=> i < k + 1
  BY <1>1 DEF InstrBehind
<1>5. ASSUME NEW op, NEW vars, NEW id \in M!InstrsOf(op, vars),
             IsRenamed(id[1], id[2]) \/ id = <<bb, k>>
      PROVE  IsRenamed(id[1], id[2])'
  <2>1. <<id[1], id[2]>> \in M!InstrsOf(op, vars)
    BY <1>1, <1>5, InstrFacts
  <2>2. id[2] \in Nat
    BY <1>1, <2>1, InstrFacts
  <2>3. CASE id[1] = bb
    <3>1. id[2] < k \/ id[2] = k
      BY <1>1, <1>5, <2>3
    <3>2. id[2] < k + 1
      BY <1>1, <2>2, <3>1
    <3> QED BY <1>3, <1>4, <2>3, <3>2
  <2>4. CASE id[1] # bb
    <3>1. IsRenamed(id[1], id[2])
      BY <1>5, <2>4
    <3> QED BY <1>3, <2>4, <3>1
  <2> QED BY <2>3, <2>4
<1>6. ~IsRenamed(bb, k)
  BY <1>1
<1>7. \A j \in 1 .. k - 1 : IsRenamed(bb, j)
  BY <1>1
<1> QED BY <1>1, <1>5, <1>6, <1>7 DEF k

LEMMA RenamePhisNames ==
  ASSUME PromotionAssumption, Ready, NamesInv, M!RenamePhis
  PROVE  NamesInv'
<1> DEFINE bb == M!TopRename.bb
           n == Len(calls)
           fr == Onward("instrs", 1, {})
           new == {v \in Locals : <<bb, v>> \in phis}
           vals == [v \in new |-> M!PhiValue(<<bb, v>>)]
<1>1. /\ calls # <<>> /\ M!TopRename.pc = "phis" /\ M!GoOn("instrs", 1, {}) /\ Reading
      /\ UNCHANGED <<pairs, operand>>
      /\ var_val_stack' = M!Push(var_val_stack, [v \in {phi[2] : phi \in {phi \in phis : phi[1] = bb}}
                                                   |-> M!PhiValue(<<bb, v>>)])
  BY DEF M!RenamePhis, M!Renaming, M!given, Reading
<1>2. /\ M!TopRename \in CallFrame(fn) /\ WellFormed(fn) /\ bb \in fn.blocks
      /\ bb \in Reachable(fn) /\ Len(fn.code[bb]) \in Nat /\ bb \in Nat
  BY <1>1, TopCallFacts, InstrFacts
<1>3. {phi[2] : phi \in {phi \in phis : phi[1] = bb}} = new
  <2>1. ASSUME NEW phi \in phis, phi[1] = bb PROVE phi[2] \in new
    BY <2>1, EdgeNumbers
  <2>2. ASSUME NEW v \in new PROVE \E phi \in phis : phi[1] = bb /\ phi[2] = v
    <3>1. <<bb, v>> \in phis /\ <<bb, v>>[1] = bb /\ <<bb, v>>[2] = v
      OBVIOUS
    <3> QED BY <3>1
  <2> QED BY <2>1, <2>2
<1>4. var_val_stack' = M!Push(var_val_stack, vals)
  BY <1>1, <1>3
<1>5. ValuesOf(Values, vals)
  BY <1>2, PromotionAssumption DEF Values, M!PhiValue, ValuesOf
<1>6. /\ DOMAIN vals = new /\ \A v \in new : vals[v] = M!PhiValue(<<bb, v>>)
      /\ \A v \in Locals : v \in new <=> <<bb, v>> \in phis
  OBVIOUS
<1>7. PassTyped
  BY DEF Ready, RenameInv
<1>8. /\ fr.bb = bb /\ fr.pc = "instrs" /\ fr.pos = 1
      /\ Len(calls') = n /\ calls'[n] = fr
      /\ \A i \in 1 .. n : i # n => calls'[i] = calls[i]
      /\ \A i : IsRenamed(bb, i) <=> InstrBehind(M!TopRename, i)
      /\ \A b, i : b = bb => (IsRenamed(b, i)' <=> InstrBehind(fr, i))
      /\ \A b, i : b # bb => (IsRenamed(b, i)' <=> IsRenamed(b, i))
  <2>1. {} \subseteq dom_tree_succ[bb] /\ {} \subseteq Reachable(fn) /\ 1 \in Nat \ {0}
        /\ 1 <= Len(fn.code[bb]) + 1
    BY <1>2
  <2>2. fr.bb = bb /\ fr.pc = "instrs" /\ fr.pos = 1
    BY <1>1, <2>1, OnwardEmpty
  <2> HIDE DEF fr
  <2> QED BY <1>1, <2>1, <2>2, TopGoesOn DEF fr
<1> HIDE DEF fr, vals, new
<1>9. RenameInv'
  BY RenamePhisKeeps
<1>10. \A v \in Locals : /\ Height(v) > 0 <=> Setters(Program, bb, v) # {}
                         /\ Height(v) > 0 => M!Newest(v) = Inherited(Program, bb, v)
  <2> SUFFICES ASSUME NEW v \in Locals
               PROVE  /\ Height(v) > 0 <=> Setters(Program, bb, v) # {}
                      /\ Height(v) > 0 => M!Newest(v) = Inherited(Program, bb, v)
    OBVIOUS
  <2>1. /\ Height(v) > 0 <=> HasValue(Program, M!TopRename, v)
        /\ Height(v) > 0 => M!Newest(v) = ValueOf(Program, M!TopRename, v)
    BY <1>1, TopNamed DEF NamesInv
  <2> QED BY <1>1, <2>1 DEF HasValue, ValueOf
<1>11. ASSUME NEW v \in Locals
       PROVE  CallNamed(Program, fr, v, Height(v)', var_val_stack'[v])
  <2>1. /\ v \in new => Height(v)' = Height(v) + 1 /\ var_val_stack'[v][Height(v)'] = vals[v]
        /\ v \notin new => Height(v)' = Height(v)
        /\ \A m \in 1 .. Height(v) : var_val_stack'[v][m] = var_val_stack[v][m]
    BY <1>4, <1>5, <1>6, <1>7, HeightPushed
  <2>2. Height(v) \in Nat
    BY <1>7, HeightFacts
  <2>3. StoresBefore(Program, bb, 1, v) = {}
    BY StoresPast
  <2>4. IsSet(Program, bb, 1, v) <=> v \in new
    BY <1>6, <2>3 DEF IsSet, Program
  <2>5. PointOf(Program, fr) = 1
    BY <1>8 DEF PointOf
  <2>6. HasValue(Program, fr, v) <=> Reaches(Program, bb, 1, v)
    BY <1>8, <2>5 DEF HasValue
  <2>7. ValueOf(Program, fr, v) = Reaching(Program, bb, 1, v)
    BY <1>8, <2>5 DEF ValueOf
  <2>8. CASE v \in new
    <3>1. Reaches(Program, bb, 1, v) /\ Reaching(Program, bb, 1, v) = M!PhiValue(<<bb, v>>)
      BY <2>3, <2>4, <2>8 DEF Reaches, Reaching, SetTo
    <3>2. Height(v)' > 0
      BY <2>1, <2>2, <2>8
    <3>3. var_val_stack'[v][Height(v)'] = M!PhiValue(<<bb, v>>)
      BY <1>6, <2>1, <2>8
    <3> QED BY <2>6, <2>7, <3>1, <3>2, <3>3 DEF CallNamed
  <2>9. CASE v \notin new
    <3>1. /\ Reaches(Program, bb, 1, v) <=> Setters(Program, bb, v) # {}
          /\ Reaching(Program, bb, 1, v) = Inherited(Program, bb, v)
      BY <2>4, <2>9 DEF Reaches, Reaching
    <3>2. Height(v)' = Height(v)
      BY <2>1, <2>9
    <3>3. Height(v) > 0 => var_val_stack'[v][Height(v)] = var_val_stack[v][Height(v)]
      BY <2>1, <2>2
    <3>4. Height(v) > 0 => var_val_stack[v][Height(v)] = M!Newest(v)
      BY DEF Height, M!Newest
    <3> QED BY <1>10, <2>6, <2>7, <3>1, <3>2, <3>3, <3>4 DEF CallNamed
  <2> QED BY <2>8, <2>9
<1>12. StacksNamed'
  <2>1. \A v \in Locals : \A m \in 1 .. Height(v) : var_val_stack'[v][m] = var_val_stack[v][m]
    BY <1>4, <1>5, <1>7, HeightPushed
  <2>2. \A v \in Locals :
          CallNamed(Program, calls'[Len(calls)], v, Height(v)', var_val_stack'[v])
    BY <1>8, <1>11
  <2>3. /\ Len(calls') = Len(calls)
        /\ \A i \in 1 .. Len(calls) : i # Len(calls) => calls'[i] = calls[i]
    BY <1>8
  <2>4. operand' = operand /\ StacksNamed
    BY <1>1 DEF NamesInv
  <2> QED BY <1>1, <1>9, <2>1, <2>2, <2>3, <2>4, StackGrows
<1>13. PairsNamed'
  BY <1>1, PairsNamedStay DEF NamesInv
<1>14. ASSUME NEW id \in M!InstrsOf("load", Locals)
       PROVE  IsRenamed(id[1], id[2])' <=> IsRenamed(id[1], id[2])
  <2>1. <<id[1], id[2]>> \in M!InstrsOf("load", Locals)
    BY <1>2, InstrFacts
  <2>2. id[2] \in 1 .. Len(fn.code[id[1]]) /\ Len(fn.code[id[1]]) \in Nat
    BY <1>2, <2>1, InstrFacts
  <2>3. ~(id[2] < 1)
    BY <2>2
  <2>4. ~InstrBehind(fr, id[2]) /\ ~InstrBehind(M!TopRename, id[2])
    BY <1>1, <1>8, <2>3 DEF InstrBehind
  <2> QED BY <1>8, <2>4
<1> QED BY <1>1, <1>12, <1>13, <1>14, NamesStay

LEMMA SkipNames ==
  ASSUME PromotionAssumption, Ready, NamesInv, M!SkipInstr
  PROVE  NamesInv'
<1> DEFINE bb == M!TopRename.bb
           k == M!TopRename.pos
           fr == Onward("instrs", k + 1, {})
           n == Len(calls)
<1>1. /\ calls # <<>> /\ M!TopRename.pc = "instrs" /\ k <= Len(fn.code[bb])
      /\ (fn.code[bb][k].op \notin {"load", "store"} \/ fn.code[bb][k].var \notin Locals)
      /\ M!GoOn("instrs", k + 1, {}) /\ Reading
      /\ UNCHANGED <<pairs, operand, var_val_stack>>
  BY DEF M!SkipInstr, M!HasInstr, M!Renaming, M!Current, M!given, Reading
<1>2. /\ fr.bb = bb /\ k \in Nat \ {0}
      /\ Len(calls') = n /\ calls'[n] = fr /\ \A i \in 1 .. n : i # n => calls'[i] = calls[i]
  BY <1>1, OneInstr
<1>3. fr.pc = "instrs" /\ fr.pos = k + 1
  <2>1. k + 1 \in Nat \ {0}
    BY <1>2
  <2> QED BY <1>1, <2>1, OnwardEmpty
<1>4. \A op, vars : \A id \in M!InstrsOf(op, vars) :
        IsRenamed(id[1], id[2])' <=> IsRenamed(id[1], id[2]) \/ id = <<bb, k>>
  BY <1>1, OnlyThisInstr
<1> HIDE DEF fr, k
<1>5. RenameInv'
  BY SkipKeeps
<1>6. ASSUME NEW v \in Locals
      PROVE  /\ HasValue(Program, fr, v) <=> HasValue(Program, M!TopRename, v)
             /\ ValueOf(Program, fr, v) = ValueOf(Program, M!TopRename, v)
  <2>1. ~(Program.fn.code[bb][k].op = "store" /\ Program.fn.code[bb][k].var = v)
    BY <1>1 DEF Program
  <2>2. /\ Reaches(Program, bb, k + 1, v) <=> Reaches(Program, bb, k, v)
        /\ Reaching(Program, bb, k + 1, v) = Reaching(Program, bb, k, v)
    BY <1>2, <2>1, ReachingPast
  <2>3. PointOf(Program, fr) = k + 1 /\ PointOf(Program, M!TopRename) = k
    BY <1>1, <1>3 DEF PointOf, k
  <2> QED BY <1>1, <1>2, <1>3, <2>2, <2>3 DEF HasValue, ValueOf
<1>7. StacksNamed'
  <2>1. UNCHANGED <<operand, var_val_stack>> /\ StacksNamed
    BY <1>1 DEF NamesInv
  <2> QED BY <1>1, <1>2, <1>5, <1>6, <2>1, StackRests DEF n
<1>8. PairsNamed'
  BY <1>1, PairsNamedStay DEF NamesInv
<1>9. ASSUME NEW id \in M!InstrsOf("load", Locals)
      PROVE  IsRenamed(id[1], id[2])' <=> IsRenamed(id[1], id[2])
  <2>1. WellFormed(fn)
    BY <1>1, TopCallFacts
  <2>2. id = <<id[1], id[2]>> /\ <<id[1], id[2]>> \in M!InstrsOf("load", Locals)
    BY <2>1, InstrFacts
  <2>3. fn.code[id[1]][id[2]].op = "load" /\ fn.code[id[1]][id[2]].var \in Locals
    BY <2>1, <2>2, InstrFacts
  <2>4. id # <<bb, k>>
    BY <1>1, <2>3
  <2> QED BY <1>4, <2>4
<1> QED BY <1>1, <1>7, <1>8, <1>9, NamesStay

LEMMA RenameStoreNames ==
  ASSUME PromotionAssumption, Ready, NamesInv, M!RenameStore
  PROVE  NamesInv'
<1> DEFINE bb == M!TopRename.bb
           k == M!TopRename.pos
           fr == Onward("instrs", k + 1, {})
           n == Len(calls)
           w == fn.code[bb][k].var
           vals == [v \in {w} |-> operand[<<bb, k>>]]
<1>1. /\ calls # <<>> /\ M!TopRename.pc = "instrs" /\ M!GoOn("instrs", k + 1, {}) /\ Reading
      /\ k <= Len(fn.code[bb]) /\ fn.code[bb][k].op = "store" /\ w \in Locals
      /\ UNCHANGED <<pairs, operand>>
      /\ var_val_stack' = M!Push(var_val_stack, vals)
  BY DEF M!RenameStore, M!HasInstr, M!Renaming, M!given, Reading, M!Current, M!CurrentId
<1>2. /\ fr.bb = bb /\ k \in Nat \ {0} /\ fr.bb \in fn.blocks /\ k \in DOMAIN fn.code[bb]
      /\ Len(calls') = n /\ calls'[n] = fr /\ \A i \in 1 .. n : i # n => calls'[i] = calls[i]
  BY <1>1, OneInstr
<1>3. fr.pc = "instrs" /\ fr.pos = k + 1
  <2>1. k + 1 \in Nat \ {0}
    BY <1>2
  <2> QED BY <1>1, <2>1, OnwardEmpty
<1>4. \A op, vars : \A id \in M!InstrsOf(op, vars) :
        IsRenamed(id[1], id[2])' <=> IsRenamed(id[1], id[2]) \/ id = <<bb, k>>
  BY <1>1, OnlyThisInstr
<1>5. PassTyped /\ WellFormed(fn)
  BY DEF Ready, RenameInv, Given
<1>6. ValuesOf(Values, vals)
  <2>1. <<bb, k>> \in M!InstrsOf("store", Locals \cup Globals)
    BY <1>1, <1>2, <1>5, InstrFacts
  <2>2. operand[<<bb, k>>] \in Values
    BY <1>5, <2>1 DEF PassTyped, Accessed
  <2> QED BY <2>2 DEF ValuesOf
<1>7. DOMAIN vals = {w} /\ vals[w] = operand[<<bb, k>>]
  OBVIOUS
<1> HIDE DEF fr, k, vals, w
<1>8. RenameInv'
  BY RenameStoreKeeps
<1>9. ASSUME NEW v \in Locals
      PROVE  CallNamed(Program, fr, v, Height(v)', var_val_stack'[v])
  <2>1. /\ v \in DOMAIN vals => Height(v)' = Height(v) + 1 /\ var_val_stack'[v][Height(v)'] = vals[v]
        /\ v \notin DOMAIN vals => Height(v)' = Height(v)
        /\ \A m \in 1 .. Height(v) : var_val_stack'[v][m] = var_val_stack[v][m]
    BY <1>1, <1>5, <1>6, HeightPushed
  <2>2. Height(v) \in Nat
    BY <1>5, HeightFacts
  <2>3. PointOf(Program, fr) = k + 1 /\ PointOf(Program, M!TopRename) = k
    BY <1>1, <1>3 DEF PointOf, k
  <2>4. HasValue(Program, fr, v) <=> Reaches(Program, bb, k + 1, v)
    BY <1>2, <1>3, <2>3 DEF HasValue
  <2>5. ValueOf(Program, fr, v) = Reaching(Program, bb, k + 1, v)
    BY <1>2, <1>3, <2>3 DEF ValueOf
  <2>6. CASE v = w
    <3>1. /\ Program.fn.code[bb][k].op = "store" /\ Program.fn.code[bb][k].var = v
          /\ Program.operand = operand
      BY <1>1, <2>6 DEF Program, w
    <3>2. /\ Reaches(Program, bb, k + 1, v)
          /\ Reaching(Program, bb, k + 1, v) = operand[<<bb, k>>]
      BY <1>2, <3>1, ReachingNow
    <3>3. Height(v)' > 0 /\ var_val_stack'[v][Height(v)'] = operand[<<bb, k>>]
      BY <1>7, <2>1, <2>2, <2>6
    <3> QED BY <2>4, <2>5, <3>2, <3>3 DEF CallNamed
  <2>7. CASE v # w
    <3>1. ~(Program.fn.code[bb][k].op = "store" /\ Program.fn.code[bb][k].var = v)
      BY <2>7 DEF Program, w
    <3>2. /\ Reaches(Program, bb, k + 1, v) <=> Reaches(Program, bb, k, v)
          /\ Reaching(Program, bb, k + 1, v) = Reaching(Program, bb, k, v)
      BY <1>2, <3>1, ReachingPast
    <3>3. /\ HasValue(Program, M!TopRename, v) <=> Reaches(Program, bb, k, v)
          /\ ValueOf(Program, M!TopRename, v) = Reaching(Program, bb, k, v)
      BY <1>1, <2>3 DEF HasValue, ValueOf
    <3>4. /\ Height(v) > 0 <=> HasValue(Program, M!TopRename, v)
          /\ Height(v) > 0 => M!Newest(v) = ValueOf(Program, M!TopRename, v)
      BY <1>1, TopNamed DEF NamesInv
    <3>5. Height(v)' = Height(v)
      BY <1>7, <2>1, <2>7
    <3>6. Height(v) > 0 => var_val_stack'[v][Height(v)] = var_val_stack[v][Height(v)]
      BY <2>1, <2>2
    <3>7. Height(v) > 0 => var_val_stack[v][Height(v)] = M!Newest(v)
      BY DEF Height, M!Newest
    <3> QED BY <2>4, <2>5, <3>2, <3>3, <3>4, <3>5, <3>6, <3>7 DEF CallNamed
  <2> QED BY <2>6, <2>7
<1>10. StacksNamed'
  <2>1. \A v \in Locals : \A m \in 1 .. Height(v) : var_val_stack'[v][m] = var_val_stack[v][m]
    BY <1>1, <1>5, <1>6, HeightPushed
  <2>2. \A v \in Locals :
          CallNamed(Program, calls'[Len(calls)], v, Height(v)', var_val_stack'[v])
    BY <1>2, <1>9
  <2>3. /\ Len(calls') = Len(calls)
        /\ \A i \in 1 .. Len(calls) : i # Len(calls) => calls'[i] = calls[i]
    BY <1>2
  <2>4. operand' = operand /\ StacksNamed
    BY <1>1 DEF NamesInv
  <2> QED BY <1>1, <1>8, <2>1, <2>2, <2>3, <2>4, StackGrows
<1>11. PairsNamed'
  BY <1>1, PairsNamedStay DEF NamesInv
<1>12. ASSUME NEW id \in M!InstrsOf("load", Locals)
       PROVE  IsRenamed(id[1], id[2])' <=> IsRenamed(id[1], id[2])
  <2>1. id = <<id[1], id[2]>> /\ <<id[1], id[2]>> \in M!InstrsOf("load", Locals)
    BY <1>5, InstrFacts
  <2>2. fn.code[id[1]][id[2]].op = "load"
    BY <1>5, <2>1, InstrFacts
  <2>3. id # <<bb, k>>
    BY <1>1, <2>2
  <2> QED BY <1>4, <2>3
<1> QED BY <1>1, <1>10, <1>11, <1>12, NamesStay

\* The call on top is done with its instructions.
LEMMA LeavingNames ==
  ASSUME PromotionAssumption, Ready, calls # <<>>, NamesInv, Reading,
         UNCHANGED <<operand, var_val_stack>>, RenameInv', PairsNamed',
         M!TopRename.pc = "successors" \/ ( /\ M!TopRename.pc = "instrs"
                                            /\ M!TopRename.pos > Len(fn.code[M!TopRename.bb])),
         NEW pc \in {"successors", "children"}, NEW k \in Nat \ {0}, NEW todo,
         M!GoOn(pc, k, todo), todo \subseteq dom_tree_succ[M!TopRename.bb],
         pc = "children" => todo = dom_tree_succ[M!TopRename.bb]
  PROVE  NamesInv'
<1> DEFINE bb == M!TopRename.bb
           n == Len(calls)
           fr == Onward(pc, k, todo)
<1>1. /\ WellFormed(fn) /\ Len(fn.code[bb]) \in Nat /\ M!TopRename.pos \in Nat
      /\ M!TopRename.pc = "instrs" => M!TopRename.pos <= Len(fn.code[bb]) + 1
  BY TopCallFacts, InstrFacts
<1>2. /\ fr.bb = bb /\ fr.pc = pc /\ Len(calls') = n /\ calls'[n] = fr
      /\ \A i \in 1 .. n : i # n => calls'[i] = calls[i]
      /\ \A i : IsRenamed(bb, i) <=> InstrBehind(M!TopRename, i)
      /\ \A b, i : b = bb => (IsRenamed(b, i)' <=> InstrBehind(fr, i))
      /\ \A b, i : b # bb => (IsRenamed(b, i)' <=> IsRenamed(b, i))
  <2>1. pc \in {"phis", "instrs", "successors", "children"} /\ pc # "instrs"
        /\ M!TopRename.pc # "children"
    OBVIOUS
  <2> QED BY <2>1, TopGoesOn
<1> HIDE DEF fr
<1>3. PointOf(Program, fr) = Len(fn.code[bb]) + 1 /\ PointOf(Program, M!TopRename) = Len(fn.code[bb]) + 1
  <2>1. EndOf(Program, bb) = Len(fn.code[bb]) + 1
    BY DEF EndOf, Program
  <2>2. M!TopRename.pc = "instrs" => M!TopRename.pos = Len(fn.code[bb]) + 1
    BY <1>1
  <2> QED BY <1>2, <2>1, <2>2 DEF PointOf
<1>4. M!TopRename.pc # "phis" /\ fr.pc # "phis"
  BY <1>2
<1>5. \A v \in Locals : /\ HasValue(Program, fr, v) <=> HasValue(Program, M!TopRename, v)
                        /\ ValueOf(Program, fr, v) = ValueOf(Program, M!TopRename, v)
  BY <1>2, <1>3, <1>4 DEF HasValue, ValueOf
<1>6. StacksNamed'
  <2>1. StacksNamed
    BY DEF NamesInv
  <2> QED BY <1>2, <1>5, <2>1, StackRests DEF n
<1>7. ASSUME NEW id \in M!InstrsOf("load", Locals)
      PROVE  IsRenamed(id[1], id[2])' <=> IsRenamed(id[1], id[2])
  <2>1. <<id[1], id[2]>> \in M!InstrsOf("load", Locals)
    BY <1>1, InstrFacts
  <2>2. id[1] \in fn.blocks /\ id[2] \in 1 .. Len(fn.code[id[1]])
    BY <1>1, <2>1, InstrFacts
  <2>3. id[1] = bb => InstrBehind(M!TopRename, id[2]) /\ InstrBehind(fr, id[2])
    BY <1>1, <1>2, <2>2 DEF InstrBehind
  <2> QED BY <1>2, <2>3
<1> QED BY <1>6, <1>7, NamesStay

LEMMA EndInstrsNames ==
  ASSUME PromotionAssumption, Ready, NamesInv, M!EndInstrs
  PROVE  NamesInv'
<1>1. /\ calls # <<>> /\ M!TopRename.pc = "instrs"
      /\ M!TopRename.pos > Len(fn.code[M!TopRename.bb])
      /\ M!GoOn("successors", 1, {}) /\ Reading
      /\ UNCHANGED <<pairs, operand, var_val_stack>>
  BY DEF M!EndInstrs, M!Renaming, M!given, Reading
<1>2. RenameInv'
  BY EndInstrsKeeps
<1>3. PairsNamed'
  BY <1>1, PairsNamedStay DEF NamesInv
<1>4. {} \subseteq dom_tree_succ[M!TopRename.bb] /\ 1 \in Nat \ {0}
  OBVIOUS
<1> QED BY <1>1, <1>2, <1>3, <1>4, LeavingNames

LEMMA EndSuccessorsNames ==
  ASSUME PromotionAssumption, Ready, NamesInv, M!EndSuccessors
  PROVE  NamesInv'
<1>1. /\ calls # <<>> /\ M!TopRename.pc = "successors"
      /\ M!GoOn("children", 1, dom_tree_succ[M!TopRename.bb]) /\ Reading
      /\ UNCHANGED <<pairs, operand, var_val_stack>>
  BY DEF M!EndSuccessors, M!Renaming, M!given, Reading, M!Children
<1>2. RenameInv'
  BY EndSuccessorsKeeps
<1>3. PairsNamed'
  BY <1>1, PairsNamedStay DEF NamesInv
<1>4. 1 \in Nat \ {0}
  OBVIOUS
<1> QED BY <1>1, <1>2, <1>3, <1>4, LeavingNames

LEMMA FillSuccessorNames ==
  ASSUME PromotionAssumption, Ready, NamesInv, M!FillSuccessor, stage' = "rename"
  PROVE  NamesInv'
<1> DEFINE bb == M!TopRename.bb
           k == M!TopRename.pos
           keyed == {phi \in phis : phi[1] = fn.succ[bb][k] /\ phi[2] \in DOMAIN var_val_stack}
           unset == \E phi \in keyed : var_val_stack[phi[2]] = <<>>
<1>1. /\ calls # <<>> /\ M!TopRename.pc = "successors" /\ Reading
      /\ UNCHANGED <<operand, var_val_stack>>
  BY DEF M!FillSuccessor, M!Renaming, M!given, Reading
<1>2. /\ unset => stage' = "aborted"
      /\ ~unset => /\ pairs' = pairs \cup {NewPair(phi) : phi \in keyed}
                   /\ M!GoOn("successors", k + 1, {})
  BY DEF M!FillSuccessor, NewPair
<1>3. /\ pairs' = pairs \cup {NewPair(phi) : phi \in keyed} /\ M!GoOn("successors", k + 1, {})
      /\ \A phi \in keyed : var_val_stack[phi[2]] # <<>>
  BY <1>2
<1>4. ASSUME NEW phi \in keyed
      PROVE  /\ Reaches(Program, bb, EndOf(Program, bb), phi[2])
             /\ NewPair(phi).val = Reaching(Program, bb, EndOf(Program, bb), phi[2])
  <2>1. phi[2] \in Locals
    BY EdgeNumbers
  <2>2. phi[2] \in DOMAIN var_val_stack /\ var_val_stack[phi[2]] # <<>>
    BY <1>3
  <2> HIDE DEF keyed, unset
  <2>3. StacksNamed
    BY DEF NamesInv
  <2>4. /\ HasValue(Program, M!TopRename, phi[2])
        /\ M!Newest(phi[2]) = ValueOf(Program, M!TopRename, phi[2])
    BY <1>1, <2>1, <2>2, <2>3, TopNamed
  <2>5. PointOf(Program, M!TopRename) = EndOf(Program, bb)
    BY <1>1 DEF PointOf
  <2>6. NewPair(phi).val = M!Newest(phi[2])
    BY DEF NewPair
  <2> QED BY <1>1, <2>4, <2>5, <2>6 DEF HasValue, ValueOf
<1> HIDE DEF keyed, unset
<1>5. Program' = Program
  BY <1>1 DEF Program, Reading
<1>6. PairsNamed'
  <2> SUFFICES ASSUME NEW p \in pairs'
               PROVE  /\ Reaches(Program, p.from, EndOf(Program, p.from), p.at[2])
                      /\ p.val = Reaching(Program, p.from, EndOf(Program, p.from), p.at[2])
    BY <1>5 DEF PairsNamed
  <2>1. CASE p \in pairs
    BY <2>1 DEF NamesInv, PairsNamed
  <2>2. CASE p \notin pairs
    <3>1. PICK phi \in keyed : p = NewPair(phi)
      BY <1>3, <2>2
    <3>2. p.from = bb /\ p.at = phi
      BY <3>1 DEF NewPair
    <3> QED BY <1>4, <3>1, <3>2
  <2> QED BY <2>1, <2>2
<1>7. RenameInv'
  BY FillSuccessorKeeps
<1>8. {} \subseteq dom_tree_succ[bb] /\ k + 1 \in Nat \ {0}
  BY <1>1, TopCallFacts
<1> HIDE DEF k
<1> QED BY <1>1, <1>3, <1>6, <1>7, <1>8, LeavingNames

\* The calls below the one on top have renamed their blocks.
LEMMA CallsRenamed ==
  ASSUME Ready, NEW i \in 1 .. Len(calls), i # Len(calls)
  PROVE  /\ calls[i].pc = "children"
         /\ calls[i].bb \in Reachable(fn) \ Awaits(fn, dom_tree_succ, calls)
         /\ calls[i].bb \in fn.blocks
         /\ \A j : IsRenamed(calls[i].bb, j)
<1>1. calls # <<>>
  <2>1. CallsNested(fn, dom_tree_succ, calls)
    BY DEF Ready, RenameInv
  <2>2. calls = <<>> => Len(calls) = 0
    OBVIOUS
  <2> QED BY <2>2
<1>2. /\ CallsNested(fn, dom_tree_succ, calls) /\ Len(calls) \in Nat
      /\ calls[i] \in CallFrame(fn) /\ calls[i].bb \in fn.blocks
  BY <1>1, TopCallFacts
<1>3. i < Len(calls)
  BY <1>2
<1>4. calls[i].pc = "children" /\ calls[i].bb \notin Awaits(fn, dom_tree_succ, calls)
  BY <1>2, <1>3 DEF CallsNested
<1>5. calls[i].bb \in Reachable(fn)
  BY <1>2 DEF CallFrame
<1>6. \A m \in 1 .. Len(calls) : calls[m].bb = calls[i].bb => m = i
  BY <1>2 DEF CallsNested
<1>7. \A j : InstrBehind(calls[i], j)
  BY <1>4 DEF InstrBehind
<1> QED BY <1>2, <1>4, <1>5, <1>6, <1>7 DEF IsRenamed, Renamed

\* What comes before a renamed instruction has been renamed.
LEMMA RenamedBefore ==
  ASSUME Ready, NEW b, NEW i \in Nat, IsRenamed(b, i)
  PROVE  /\ b \in Reachable(fn) \ Awaits(fn, dom_tree_succ, calls)
         /\ \A j \in 1 .. i - 1 : IsRenamed(b, j)
<1>1. /\ b \in Reachable(fn) \ Awaits(fn, dom_tree_succ, calls)
      /\ \A m \in 1 .. Len(calls) : calls[m].bb = b => InstrBehind(calls[m], i)
  BY DEF IsRenamed, Renamed
<1>2. CallsNested(fn, dom_tree_succ, calls)
  BY DEF Ready, RenameInv
<1>3. \A m \in 1 .. Len(calls) : calls[m].pos \in Nat
  <2> DEFINE R == CallFrame(fn)
  <2>1. calls \in Seq(R)
    BY <1>2 DEF CallsNested
  <2> HIDE DEF R
  <2>2. \A m \in 1 .. Len(calls) : calls[m] \in R
    BY <2>1
  <2>3. \A fr \in R : fr.pos \in Nat
    BY DEF R, CallFrame
  <2> QED BY <2>2, <2>3
<1>4. ASSUME NEW j \in 1 .. i - 1, NEW m \in 1 .. Len(calls), calls[m].bb = b
      PROVE  InstrBehind(calls[m], j)
  <2>1. InstrBehind(calls[m], i) /\ calls[m].pos \in Nat
    BY <1>1, <1>3, <1>4
  <2>2. j < i /\ j \in Nat
    BY <1>4
  <2> HIDE <1>4
  <2>3. i < calls[m].pos => j < calls[m].pos
    BY <2>1, <2>2
  <2> QED BY <2>1, <2>3 DEF InstrBehind
<1> QED BY <1>1, <1>4 DEF IsRenamed, Renamed

\* A store that names another instruction's result names that of a load before it.
LEMMA CopiedLoad ==
  ASSUME WellFormed(fn), CodeCopies(fn),
         NEW id \in M!InstrsOf("store", Locals \cup Globals), M!At(id).src # 0
  PROVE  /\ <<id[1], id[2] - M!At(id).src>> \in M!InstrsOf("load", Locals \cup Globals)
         /\ id[2] - M!At(id).src \in Nat \ {0} /\ id[2] - M!At(id).src < id[2]
         /\ M!At(id).src \in Nat /\ id[2] \in Nat
<1> DEFINE b == id[1]
           i == id[2]
           C == CopyingCode
<1>1. /\ id = <<b, i>> /\ M!At(id) = fn.code[b][i] /\ <<b, i>> \in M!InstrsOf("store", Locals \cup Globals)
      /\ b \in fn.blocks /\ i \in DOMAIN fn.code[b] /\ DOMAIN fn.code[b] = 1 .. Len(fn.code[b])
      /\ Len(fn.code[b]) \in Nat /\ fn.code[b][i].op = "store"
      /\ fn.code[b][i].var \in Locals \cup Globals /\ fn.code[b] \in Seq(Instr)
  BY InstrFacts
<1>2. b \in 1 .. Len(fn.code)
  BY <1>1 DEF WellFormed, FunctionType
<1>3. fn.code \in Seq(C)
  BY DEF CodeCopies
<1> HIDE DEF C, b, i
<1>4. fn.code[b] \in C
  BY <1>2, <1>3
<1>5. /\ fn.code[b][i].src < i /\ fn.code[b][i - fn.code[b][i].src].op = "load"
      /\ fn.code[b][i - fn.code[b][i].src].var \in Locals \cup Globals
  <2>1. Copying(fn.code[b])
    BY <1>4 DEF C, CopyingCode
  <2> QED BY <1>1, <2>1 DEF Copying
<1>6. fn.code[b][i].src \in Nat
  <2>1. fn.code[b][i] \in Instr
    <3> DEFINE R == Instr
    <3>1. fn.code[b] \in Seq(R)
      BY <1>1
    <3> HIDE DEF R
    <3>2. fn.code[b][i] \in R
      BY <1>1, <3>1
    <3> QED BY <3>2 DEF R
  <2> QED BY <2>1 DEF Instr
<1> DEFINE s == fn.code[b][i].src
           n == Len(fn.code[b])
<1>7. s \in Nat /\ s # 0 /\ s < i /\ i \in 1 .. n /\ n \in Nat
  BY <1>1, <1>5, <1>6
<1> HIDE DEF s, n
<1>8. i - s \in 1 .. n /\ i - s \in Nat \ {0} /\ i - s < i /\ i \in Nat
  BY <1>7
<1>9. <<b, i - s>> \in M!InstrsOf("load", Locals \cup Globals)
  BY <1>1, <1>5, <1>8, InstrFacts DEF s, n
<1> QED BY <1>1, <1>7, <1>8, <1>9 DEF s, b, i

\* The effect of renaming a load: who names the load names the value of its variable.
LEMMA LoadReplaced ==
  ASSUME PromotionAssumption, Ready, NamesInv, M!RenameLoad, stage' = "rename"
  PROVE  \E val :
    /\ val = IF Reaches(Program, M!TopRename.bb, M!TopRename.pos, M!Current.var)
             THEN Reaching(Program, M!TopRename.bb, M!TopRename.pos, M!Current.var)
             ELSE OwnLoad(<<M!TopRename.bb, M!TopRename.pos>>)
    /\ operand' \in [Accessed -> Values]
    /\ \A id \in Accessed :
         operand'[id] = IF operand[id] = OwnLoad(<<M!TopRename.bb, M!TopRename.pos>>)
                        THEN val ELSE operand[id]
    /\ pairs' = pairs
<1> DEFINE bb == M!TopRename.bb
           k == M!TopRename.pos
           w == M!Current.var
           own == OwnLoad(<<bb, k>>)
<1>1. /\ calls # <<>> /\ M!TopRename.pc = "instrs" /\ w \in Locals /\ Reading
      /\ w \notin DOMAIN var_val_stack => UNCHANGED <<operand, pairs>>
      /\ w \in DOMAIN var_val_stack => var_val_stack[w] # <<>>
      /\ w \in DOMAIN var_val_stack => M!ReplaceUses(M!Value("load", bb, k), M!Newest(w))
  BY DEF M!RenameLoad, M!HasInstr, M!Renaming, M!given, Reading
<1>2. own = M!Value("load", bb, k)
  BY DEF OwnLoad
<1>3. /\ Height(w) > 0 <=> Reaches(Program, bb, k, w)
      /\ Height(w) > 0 => M!Newest(w) = Reaching(Program, bb, k, w)
      /\ w \in DOMAIN var_val_stack /\ var_val_stack[w] # <<>> <=> Height(w) > 0
  <2>1. /\ Height(w) > 0 <=> HasValue(Program, M!TopRename, w)
        /\ Height(w) > 0 => M!Newest(w) = ValueOf(Program, M!TopRename, w)
        /\ w \in DOMAIN var_val_stack /\ var_val_stack[w] # <<>> <=> Height(w) > 0
    <3> HIDE DEF w
    <3> QED BY <1>1, TopNamed DEF NamesInv
  <2>2. PointOf(Program, M!TopRename) = k
    BY <1>1 DEF PointOf
  <2> QED BY <1>1, <2>1, <2>2 DEF HasValue, ValueOf
<1>4. operand \in [Accessed -> Values] /\ RenameInv'
  <2>1. RenameInv'
    BY RenameLoadKeeps
  <2> QED BY <2>1 DEF Ready, RenameInv, PassTyped
<1>5. operand' \in [Accessed -> Values]
  <2>1. operand' \in [Accessed' -> Values]
    BY <1>4 DEF RenameInv, PassTyped
  <2> QED BY <1>1, <2>1, SameProgram
<1> HIDE DEF w, own
<1>6. CASE Reaches(Program, bb, k, w)
  <2>1. /\ M!Newest(w) = Reaching(Program, bb, k, w)
        /\ operand' = [id \in DOMAIN operand |-> IF operand[id] = own THEN M!Newest(w) ELSE operand[id]]
        /\ pairs' = {[p EXCEPT !.val = IF @ = own THEN M!Newest(w) ELSE @] : p \in pairs}
    BY <1>1, <1>2, <1>3, <1>6 DEF M!ReplaceUses
  <2>2. ASSUME NEW p \in pairs
        PROVE  [p EXCEPT !.val = IF @ = own THEN M!Newest(w) ELSE @] = p
    <3>1. p.val # own
      BY <1>1, PairsOther DEF NamesInv, own
    <3>2. p \in [at : phis, from : Reachable(fn), val : Values]
      BY DEF Ready, RenameInv, PassTyped
    <3> QED BY <3>1, <3>2
  <2>3. pairs' = pairs
    BY <2>1, <2>2
  <2>4. \A id \in Accessed :
           operand'[id] = IF operand[id] = own THEN M!Newest(w) ELSE operand[id]
    BY <1>4, <2>1
  <2>5. M!Newest(w) = IF Reaches(Program, bb, k, w) THEN Reaching(Program, bb, k, w) ELSE own
    BY <1>6, <2>1
  <2> QED BY <1>5, <2>3, <2>4, <2>5 DEF own, w
<1>7. CASE ~Reaches(Program, bb, k, w)
  <2>1. UNCHANGED <<operand, pairs>>
    BY <1>1, <1>3, <1>7
  <2>2. \A id \in Accessed : operand'[id] = IF operand[id] = own THEN own ELSE operand[id]
    BY <2>1
  <2>3. own = IF Reaches(Program, bb, k, w) THEN Reaching(Program, bb, k, w) ELSE own
    BY <1>7
  <2> QED BY <1>5, <2>1, <2>2, <2>3 DEF own, w
<1> QED BY <1>6, <1>7

LEMMA RenameLoadNames ==
  ASSUME PromotionAssumption, Ready, NamesInv, M!RenameLoad, stage' = "rename"
  PROVE  NamesInv'
<1> DEFINE bb == M!TopRename.bb
           k == M!TopRename.pos
           fr == Onward("instrs", k + 1, {})
           n == Len(calls)
           w == M!Current.var
           own == OwnLoad(<<bb, k>>)
           T == Awaits(fn, dom_tree_succ, calls)
<1>1. /\ calls # <<>> /\ M!TopRename.pc = "instrs" /\ M!GoOn("instrs", k + 1, {}) /\ Reading
      /\ k <= Len(fn.code[bb]) /\ fn.code[bb][k].op = "load" /\ w \in Locals
      /\ fn.code[bb][k].var = w /\ UNCHANGED var_val_stack
  BY DEF M!RenameLoad, M!HasInstr, M!Renaming, M!given, Reading, M!Current
<1>2. /\ fr.bb = bb /\ k \in Nat \ {0} /\ bb \in fn.blocks /\ k \in DOMAIN fn.code[bb]
      /\ Len(calls') = n /\ calls'[n] = fr /\ \A i \in 1 .. n : i # n => calls'[i] = calls[i]
  BY <1>1, OneInstr
<1>3. fr.pc = "instrs" /\ fr.pos = k + 1
  <2>1. k + 1 \in Nat \ {0}
    BY <1>2
  <2> QED BY <1>1, <2>1, OnwardEmpty
<1>4. /\ \A op, vars : \A id \in M!InstrsOf(op, vars) :
            IsRenamed(id[1], id[2])' <=> IsRenamed(id[1], id[2]) \/ id = <<bb, k>>
      /\ ~IsRenamed(bb, k) /\ \A j \in 1 .. k - 1 : IsRenamed(bb, j)
      /\ bb \in Reachable(fn) \ T
  BY <1>1, OnlyThisInstr
<1>5. /\ WellFormed(fn) /\ FlowGraph(fn) /\ TreeOf(fn, dom_tree_succ) /\ PassTyped
      /\ CallsNested(fn, dom_tree_succ, calls)
      /\ n \in Nat \ {0} /\ n \in 1 .. n /\ M!TopRename = calls[n]
  BY <1>1, TopCallFacts DEF Ready, RenameInv
<1>6. PICK val :
        /\ val = IF Reaches(Program, bb, k, w) THEN Reaching(Program, bb, k, w) ELSE own
        /\ operand' \in [Accessed -> Values]
        /\ \A id \in Accessed : operand'[id] = IF operand[id] = own THEN val ELSE operand[id]
        /\ pairs' = pairs
  BY LoadReplaced
<1>7. <<bb, k>> \in M!InstrsOf("load", Locals) /\ <<bb, k>> \in Accessed
  BY <1>1, <1>2, <1>5, InstrFacts DEF Accessed
<1>8. /\ Program'.fn = fn /\ Program'.phis = phis /\ Program'.operand = operand'
      /\ fn' = fn /\ phis' = phis /\ dom_frontier' = dom_frontier
  BY <1>1 DEF Program, Reading
<1>9. \A op, vars : M!InstrsOf(op, vars)' = M!InstrsOf(op, vars)
  BY <1>1, SameProgram
<1>10. \A id : M!At(id)' = M!At(id)
  BY <1>1, SameProgram
<1>11. /\ Accessed' = Accessed /\ \A b, v : Sets(b, v)' <=> Sets(b, v)
  BY <1>1, SameProgram
<1> HIDE DEF fr, k, w, T
<1>12. \A id \in Accessed : IsRenamed(id[1], id[2]) => operand'[id] = operand[id]
  <2>1. ASSUME NEW id \in Accessed, IsRenamed(id[1], id[2]) PROVE operand[id] # own
    BY <1>1, <2>1, RenamedOther DEF NamesInv, k
  <2> HIDE DEF own
  <2> QED BY <1>6, <2>1
<1> HIDE DEF own
<1>13. ASSUME NEW b \in Reachable(fn) \ T, NEW i \in Nat \ {0},
              i <= EndOf(Program, b), \A j \in 1 .. i - 1 : IsRenamed(b, j), NEW v \in Locals
       PROVE  /\ Reaches(Program', b, i, v) <=> Reaches(Program, b, i, v)
              /\ Reaches(Program, b, i, v) => Reaching(Program', b, i, v) = Reaching(Program, b, i, v)
  <2>1. PICK r : r = Program'
    OBVIOUS
  <2>2. r.fn = fn /\ r.phis = phis /\ r.operand = operand'
    BY <1>8, <2>1
  <2>3. ASSUME NEW id \in M!InstrsOf("store", Locals), IsRenamed(id[1], id[2])
        PROVE  r.operand[id] = operand[id]
    <3>1. id \in Accessed
      BY <1>5, InstrFacts DEF Accessed, M!InstrsOf
    <3> QED BY <1>12, <2>2, <2>3, <3>1
  <2>4. /\ Reaches(r, b, i, v) <=> Reaches(Program, b, i, v)
        /\ Reaches(Program, b, i, v) => Reaching(r, b, i, v) = Reaching(Program, b, i, v)
    BY <1>5, <1>13, <2>2, <2>3, ReachingSettled DEF T
  <2> QED BY <2>1, <2>4
<1>14. /\ Reaches(Program', bb, k, w) <=> Reaches(Program, bb, k, w)
       /\ Reaches(Program, bb, k, w) => Reaching(Program', bb, k, w) = Reaching(Program, bb, k, w)
  <2>1. EndOf(Program, bb) = Len(fn.code[bb]) + 1 /\ Len(fn.code[bb]) \in Nat
    BY <1>2, <1>5, InstrFacts DEF EndOf, Program
  <2>2. k <= EndOf(Program, bb)
    BY <1>1, <1>2, <2>1
  <2> QED BY <1>1, <1>2, <1>4, <1>13, <2>2
<1>15. own = M!Value("load", bb, k)
  BY DEF own, OwnLoad
<1>16. LoadsNamed'
  <2>1. ASSUME NEW id \in M!InstrsOf("load", Globals) PROVE operand'[id] = OwnLoad(id)
    <3>1. id \in Accessed /\ operand[id] = OwnLoad(id)
      BY <1>5, InstrFacts DEF Accessed, M!InstrsOf, NamesInv, LoadsNamed
    <3>2. id = <<id[1], id[2]>> /\ fn.code[id[1]][id[2]].var \in Globals
      BY <1>5, InstrFacts
    <3>3. ~(id[1] = bb /\ id[2] = k)
      BY <1>1, <3>2, PromotionAssumption DEF PromotionAssumption
    <3>4. OwnLoad(id) # own
      BY <1>15, <3>3 DEF OwnLoad, M!Value
    <3> QED BY <1>6, <3>1, <3>4
  <2>2. ASSUME NEW id \in M!InstrsOf("load", Locals)
        PROVE  operand'[id] = IF IsRenamed(id[1], id[2])' /\ Reaches(Program', id[1], id[2], M!At(id).var)
                              THEN Reaching(Program', id[1], id[2], M!At(id).var) ELSE OwnLoad(id)
    <3>1. /\ id \in Accessed /\ id = <<id[1], id[2]>> /\ M!At(id) = fn.code[id[1]][id[2]]
          /\ id[1] \in fn.blocks /\ id[2] \in 1 .. Len(fn.code[id[1]]) /\ M!At(id).var \in Locals
      <4>1. id = <<id[1], id[2]>> /\ M!At(id) = fn.code[id[1]][id[2]]
        BY <1>5, InstrFacts
      <4>2. <<id[1], id[2]>> \in M!InstrsOf("load", Locals)
        BY <4>1
      <4>3. id[1] \in fn.blocks /\ id[2] \in DOMAIN fn.code[id[1]] /\ fn.code[id[1]][id[2]].var \in Locals
        BY <1>5, <4>2, InstrFacts
      <4>4. DOMAIN fn.code[id[1]] = 1 .. Len(fn.code[id[1]])
        BY <1>5, <4>3, InstrFacts
      <4>5. id \in Accessed
        BY DEF Accessed, M!InstrsOf
      <4> QED BY <4>1, <4>3, <4>4, <4>5
    <3>2. operand[id] = IF IsRenamed(id[1], id[2]) /\ Reaches(Program, id[1], id[2], M!At(id).var)
                        THEN Reaching(Program, id[1], id[2], M!At(id).var) ELSE OwnLoad(id)
      BY DEF NamesInv, LoadsNamed
    <3>3. CASE id = <<bb, k>>
      <4>1. id[1] = bb /\ id[2] = k /\ M!At(id).var = w
        BY <1>1, <3>1, <3>3
      <4>2. operand[id] = own
        BY <1>4, <3>2, <3>3, <4>1 DEF own
      <4>3. operand'[id] = val
        BY <1>6, <3>1, <4>2
      <4>4. IsRenamed(id[1], id[2])'
        BY <1>4, <3>3
      <4>5. OwnLoad(id) = own
        BY <3>3 DEF own
      <4>6. val = IF Reaches(Program', bb, k, w) THEN Reaching(Program', bb, k, w) ELSE own
        BY <1>6, <1>14
      <4> HIDE <3>3
      <4> QED BY <4>1, <4>3, <4>4, <4>5, <4>6
    <3>4. CASE id # <<bb, k>> /\ IsRenamed(id[1], id[2])
      <4>1. operand'[id] = operand[id]
        BY <1>12, <3>1, <3>4
      <4>2. IsRenamed(id[1], id[2])'
        BY <1>4, <3>4
      <4>3. id[2] \in Nat \ {0} /\ id[2] <= EndOf(Program, id[1])
        <5>1. Len(fn.code[id[1]]) \in Nat /\ EndOf(Program, id[1]) = Len(fn.code[id[1]]) + 1
          BY <1>5, <3>1, InstrFacts DEF EndOf, Program
        <5> QED BY <3>1, <5>1
      <4>4. id[1] \in Reachable(fn) \ T /\ \A j \in 1 .. id[2] - 1 : IsRenamed(id[1], j)
        BY <3>4, <4>3, RenamedBefore DEF T
      <4>5. /\ Reaches(Program', id[1], id[2], M!At(id).var) <=> Reaches(Program, id[1], id[2], M!At(id).var)
            /\ Reaches(Program, id[1], id[2], M!At(id).var) =>
                 Reaching(Program', id[1], id[2], M!At(id).var) = Reaching(Program, id[1], id[2], M!At(id).var)
        BY <1>13, <3>1, <4>3, <4>4
      <4> QED BY <3>2, <3>4, <4>1, <4>2, <4>5
    <3>5. CASE id # <<bb, k>> /\ ~IsRenamed(id[1], id[2])
      <4>1. operand[id] = OwnLoad(id)
        BY <3>2, <3>5
      <4>2. ~(id[1] = bb /\ id[2] = k)
        BY <3>1, <3>5
      <4>3. OwnLoad(id) # own
        BY <1>15, <4>2 DEF OwnLoad, M!Value
      <4>4. operand'[id] = OwnLoad(id)
        BY <1>6, <3>1, <4>1, <4>3
      <4>5. ~IsRenamed(id[1], id[2])'
        BY <1>4, <3>5
      <4> QED BY <4>4, <4>5
    <3> QED BY <3>3, <3>4, <3>5
  <2>3. /\ M!InstrsOf("load", Globals)' = M!InstrsOf("load", Globals)
        /\ M!InstrsOf("load", Locals)' = M!InstrsOf("load", Locals)
    BY <1>9
  <2> QED BY <1>10, <2>1, <2>2, <2>3 DEF LoadsNamed
<1>17. StoresNamed'
  <2>1. ASSUME NEW id \in M!InstrsOf("store", Locals \cup Globals)
        PROVE  operand'[id] = IF M!At(id).src = 0 THEN M!Value("own", id[1], id[2])
                              ELSE operand'[<<id[1], id[2] - M!At(id).src>>]
    <3>1. id \in Accessed
      BY DEF Accessed
    <3>2. operand[id] = IF M!At(id).src = 0 THEN M!Value("own", id[1], id[2])
                        ELSE operand[<<id[1], id[2] - M!At(id).src>>]
      BY DEF NamesInv, StoresNamed
    <3>3. CASE M!At(id).src = 0
      <4>1. operand[id] = M!Value("own", id[1], id[2])
        BY <3>2, <3>3
      <4>2. operand[id] # own
        BY <1>15, <4>1 DEF M!Value
      <4> QED BY <1>6, <3>1, <3>3, <4>1, <4>2
    <3>4. CASE M!At(id).src # 0
      <4>1. <<id[1], id[2] - M!At(id).src>> \in Accessed
        BY <1>5, <3>4, CopiedLoad DEF NamesInv, Accessed
      <4> QED BY <1>6, <3>1, <3>2, <3>4, <4>1
    <3> QED BY <3>3, <3>4
  <2>2. M!InstrsOf("store", Locals \cup Globals)' = M!InstrsOf("store", Locals \cup Globals)
    BY <1>9
  <2> QED BY <1>10, <2>1, <2>2 DEF StoresNamed
<1>18. OperandsDefined'
  <2>1. ASSUME NEW id \in Accessed
        PROVE  DefinedBefore(fn, operand'[id], id[1], id[2] + 1)
    <3>1. DefinedBefore(fn, operand[id], id[1], id[2] + 1)
      BY DEF NamesInv, OperandsDefined
    <3>2. CASE operand[id] # own \/ val = own
      BY <1>6, <3>1, <3>2
    <3>3. CASE operand[id] = own /\ val # own
      <4>1. operand'[id] = val /\ Reaches(Program, bb, k, w) /\ val = Reaching(Program, bb, k, w)
        BY <1>6, <3>3
      <4>2. /\ Program.fn = fn /\ FlowGraph(Program.fn)
            /\ \A a \in Program.fn.blocks : Len(Program.fn.code[a]) \in Nat
            /\ EndOf(Program, bb) = Len(fn.code[bb]) + 1 /\ w \in Nat /\ Len(fn.code[bb]) \in Nat
        BY <1>1, <1>2, <1>5, ProgramFacts, InstrFacts
      <4>3. k <= EndOf(Program, bb)
        BY <1>1, <1>2, <4>2
      <4>4. StoresDefined(Program, w)
        BY <1>1, <1>5, StoresAreDefined DEF NamesInv
      <4>5. val \in Values /\ DefinedBefore(fn, val, bb, k)
        BY <1>2, <4>1, <4>2, <4>3, <4>4, ReachingDefined, SMTT(40)
      <4>6. IF bb = id[1] THEN k < id[2] + 1 ELSE Dominates(fn, bb, id[1])
        BY <1>15, <3>1, <3>3 DEF DefinedBefore, M!Value
      <4>7. id[2] \in Nat
        <5>1. PICK op, vars : id \in M!InstrsOf(op, vars)
          BY DEF Accessed
        <5>2. <<id[1], id[2]>> \in M!InstrsOf(op, vars)
          BY <1>5, <5>1, InstrFacts
        <5> QED BY <1>5, <5>2, InstrFacts
      <4>8. k \in Int /\ id[2] + 1 \in Int
        BY <1>2, <4>7
      <4>9. (bb = id[1] /\ k <= id[2] + 1) \/ (bb # id[1] /\ Dominates(fn, bb, id[1]))
        BY <1>2, <4>6, <4>7
      <4> QED BY <1>5, <4>1, <4>5, <4>8, <4>9, DefinedLater
    <3> QED BY <3>2, <3>3
  <2> QED BY <1>8, <1>11, <2>1 DEF OperandsDefined
<1>19. PairsNamed'
  <2>1. ASSUME NEW p \in pairs
        PROVE  /\ Reaches(Program', p.from, EndOf(Program', p.from), p.at[2])
               /\ p.val = Reaching(Program', p.from, EndOf(Program', p.from), p.at[2])
    <3>1. /\ Reaches(Program, p.from, EndOf(Program, p.from), p.at[2])
          /\ p.val = Reaching(Program, p.from, EndOf(Program, p.from), p.at[2])
      BY DEF NamesInv, PairsNamed
    <3>2. EndOf(Program', p.from) = EndOf(Program, p.from)
      BY <1>8 DEF EndOf, Program
    <3>3. p.from \in Reachable(fn) \ T /\ \A j : IsRenamed(p.from, j)
      BY <1>1, PairsOther DEF NamesInv, T
    <3>4. p.at[2] \in Locals
      BY EdgeNumbers
    <3>5. EndOf(Program, p.from) \in Nat \ {0} /\ EndOf(Program, p.from) <= EndOf(Program, p.from)
      <4>1. Len(fn.code[p.from]) \in Nat
        BY <1>5, <3>3, ReachableFacts, InstrFacts
      <4> QED BY <4>1 DEF EndOf, Program
    <3> QED BY <1>13, <3>1, <3>2, <3>3, <3>4, <3>5
  <2> QED BY <1>6, <2>1 DEF PairsNamed
<1>20. StacksNamed'
  <2>1. ASSUME NEW v \in Locals, NEW i \in 1 .. Len(calls), i # Len(calls)
        PROVE  /\ HasValue(Program', calls[i], v) <=> HasValue(Program, calls[i], v)
               /\ HasValue(Program, calls[i], v) =>
                    ValueOf(Program', calls[i], v) = ValueOf(Program, calls[i], v)
    <3>1. PICK c : c = calls[i]
      OBVIOUS
    <3>2. /\ c.pc = "children" /\ c.bb \in Reachable(fn) \ T /\ c.bb \in fn.blocks
          /\ \A j : IsRenamed(c.bb, j)
      BY <2>1, <3>1, CallsRenamed DEF T
    <3>3. EndOf(Program', c.bb) = EndOf(Program, c.bb)
      BY <1>8 DEF EndOf, Program
    <3>4. EndOf(Program, c.bb) \in Nat \ {0} /\ EndOf(Program, c.bb) <= EndOf(Program, c.bb)
      <4>1. Len(fn.code[c.bb]) \in Nat
        BY <1>5, <3>2, InstrFacts
      <4> QED BY <4>1 DEF EndOf, Program
    <3>5. /\ Reaches(Program', c.bb, EndOf(Program, c.bb), v) <=> Reaches(Program, c.bb, EndOf(Program, c.bb), v)
          /\ Reaches(Program, c.bb, EndOf(Program, c.bb), v) =>
               Reaching(Program', c.bb, EndOf(Program, c.bb), v) = Reaching(Program, c.bb, EndOf(Program, c.bb), v)
      BY <1>13, <3>2, <3>4
    <3>6. /\ PointOf(Program', c) = EndOf(Program, c.bb) /\ PointOf(Program, c) = EndOf(Program, c.bb)
          /\ c.pc # "phis"
      BY <3>2, <3>3 DEF PointOf
    <3>7. /\ HasValue(Program', c, v) <=> HasValue(Program, c, v)
          /\ HasValue(Program, c, v) => ValueOf(Program', c, v) = ValueOf(Program, c, v)
      BY <3>5, <3>6 DEF HasValue, ValueOf
    <3> QED BY <3>1, <3>7
  <2>2. ASSUME NEW v \in Locals
        PROVE  CallNamed(Program', fr, v, Height(v)', var_val_stack'[v])
    <3>1. ~(Program'.fn.code[bb][k].op = "store" /\ Program'.fn.code[bb][k].var = v)
      BY <1>1, <1>8
    <3>2. /\ Reaches(Program', bb, k + 1, v) <=> Reaches(Program', bb, k, v)
          /\ Reaching(Program', bb, k + 1, v) = Reaching(Program', bb, k, v)
      <4>1. PICK r : r = Program'
        OBVIOUS
      <4>2. ~(r.fn.code[bb][k].op = "store" /\ r.fn.code[bb][k].var = v)
        BY <3>1, <4>1
      <4>3. /\ Reaches(r, bb, k + 1, v) <=> Reaches(r, bb, k, v)
            /\ Reaching(r, bb, k + 1, v) = Reaching(r, bb, k, v)
        BY <1>2, <4>2, ReachingPast
      <4> QED BY <4>1, <4>3
    <3>3. k <= EndOf(Program, bb)
      <4>1. EndOf(Program, bb) = Len(fn.code[bb]) + 1 /\ Len(fn.code[bb]) \in Nat
        BY <1>2, <1>5, InstrFacts DEF EndOf, Program
      <4> QED BY <1>1, <1>2, <4>1
    <3>4. /\ Reaches(Program', bb, k, v) <=> Reaches(Program, bb, k, v)
          /\ Reaches(Program, bb, k, v) => Reaching(Program', bb, k, v) = Reaching(Program, bb, k, v)
      BY <1>2, <1>4, <1>13, <3>3
    <3>5. /\ Height(v) > 0 <=> HasValue(Program, M!TopRename, v)
          /\ Height(v) > 0 => M!Newest(v) = ValueOf(Program, M!TopRename, v)
      BY <1>1, TopNamed DEF NamesInv
    <3>6. PointOf(Program, M!TopRename) = k /\ PointOf(Program', fr) = k + 1
      BY <1>1, <1>3 DEF PointOf, k
    <3>7. /\ HasValue(Program, M!TopRename, v) <=> Reaches(Program, bb, k, v)
          /\ ValueOf(Program, M!TopRename, v) = Reaching(Program, bb, k, v)
      BY <1>1, <3>6 DEF HasValue, ValueOf
    <3>8. /\ HasValue(Program', fr, v) <=> Reaches(Program', bb, k + 1, v)
          /\ ValueOf(Program', fr, v) = Reaching(Program', bb, k + 1, v)
      BY <1>2, <1>3, <3>6 DEF HasValue, ValueOf
    <3>9. Height(v)' = Height(v) /\ var_val_stack'[v] = var_val_stack[v]
      BY <1>1 DEF Height
    <3>10. Height(v) > 0 => var_val_stack[v][Height(v)] = M!Newest(v)
      BY DEF Height, M!Newest
    <3> QED BY <3>2, <3>4, <3>5, <3>7, <3>8, <3>9, <3>10 DEF CallNamed
  <2>3. \A v \in Locals : CallNamed(Program', calls'[Len(calls)], v, Height(v)', var_val_stack'[v])
    BY <1>2, <2>2 DEF n
  <2>4. \A v \in Locals : \A m \in 1 .. Height(v) : var_val_stack'[v][m] = var_val_stack[v][m]
    BY <1>1
  <2>5. RenameInv'
    BY RenameLoadKeeps
  <2>6. /\ Len(calls') = Len(calls)
        /\ \A i \in 1 .. Len(calls) : i # Len(calls) => calls'[i] = calls[i]
    BY <1>2
  <2>7. StacksNamed
    BY DEF NamesInv
  <2> QED BY <1>1, <2>1, <2>3, <2>4, <2>5, <2>6, <2>7, StackGoesOn
<1>21. PhisClosed' /\ CodeCopies(fn)'
  BY <1>8, <1>11 DEF NamesInv, PhisClosed
<1> QED BY <1>16, <1>17, <1>18, <1>19, <1>20, <1>21 DEF NamesInv

LEMMA SameSums ==
  ASSUME NEW n \in Nat, NEW g, NEW h, NEW d, g[0] = h[0],
         \A i \in 1 .. n : g[i] = g[i - 1] + d[i], \A i \in 1 .. n : h[i] = h[i - 1] + d[i]
  PROVE  \A i \in 0 .. n : g[i] = h[i]
<1> DEFINE S == {i \in Nat : g[i] = h[i]}
<1>1. 0 \in S
  OBVIOUS
<1>2. ASSUME NEW i \in Nat, i < n, i \in S PROVE i + 1 \in S
  <2>1. i + 1 \in 1 .. n /\ (i + 1) - 1 = i
    BY <1>2
  <2>2. g[i + 1] = g[i] + d[i + 1] /\ h[i + 1] = h[i] + d[i + 1]
    BY <2>1
  <2> QED BY <1>2, <2>2
<1>3. 0 .. n \subseteq S
  <2> HIDE DEF S
  <2> QED BY <1>1, <1>2, CountingUp
<1> QED BY <1>3

LEMMA RenameChildNames ==
  ASSUME PromotionAssumption, Ready, NamesInv, M!RenameChild
  PROVE  NamesInv'
<1> DEFINE n == Len(calls)
<1>1. PICK b \in M!TopRename.todo :
        calls' = Append([calls EXCEPT ![n].todo = @ \ {b}], M!Rename(b))
  BY DEF M!RenameChild
<1>2. /\ calls # <<>> /\ M!TopRename.pc = "children" /\ Reading
      /\ UNCHANGED <<pairs, operand, var_val_stack>>
  BY DEF M!RenameChild, M!Renaming, M!given, Reading
<1>3. /\ CallsNested(fn, dom_tree_succ, calls) /\ FlowGraph(fn) /\ TreeOf(fn, dom_tree_succ)
      /\ n \in Nat \ {0} /\ n \in 1 .. n /\ M!TopRename = calls[n] /\ WellFormed(fn)
      /\ \A i \in 1 .. n : calls[i] \in CallFrame(fn) /\ calls[i].bb \in fn.blocks
      /\ M!TopRename.todo \subseteq dom_tree_succ[M!TopRename.bb] /\ M!TopRename.bb \in fn.blocks
  BY <1>2, TopCallFacts
<1>4. calls[n].pc = "children" /\ b \in calls[n].todo
  BY <1>1, <1>2, <1>3
<1> DEFINE ds == Append([calls EXCEPT ![Len(calls)].todo = @ \ {b}], M!Rename(b))
<1>5. /\ Len(ds) = n + 1 /\ ds[n + 1] = M!Rename(b)
      /\ ds[n].bb = calls[n].bb /\ ds[n].pc = "children"
  <2>1. Len(ds) = n + 1
    BY <1>2, <1>3, <1>4, CallMade
  <2>2. ds[n + 1] = M!Rename(b)
    BY <1>2, <1>3, <1>4, CallMade
  <2>3. ds[n].bb = calls[n].bb /\ ds[n].pc = "children"
    BY <1>2, <1>3, <1>4, CallMade
  <2> QED BY <2>1, <2>2, <2>3
<1>6. \A i \in 1 .. n : i # n => ds[i] = calls[i]
  BY <1>2, <1>3, <1>4, CallMade
<1>7. \A c, i : Renamed(fn, dom_tree_succ, ds, c, i) <=> Renamed(fn, dom_tree_succ, calls, c, i)
  <2>1. \A i : ~Renamed(fn, dom_tree_succ, calls, b, i) /\ ~Renamed(fn, dom_tree_succ, ds, b, i)
    BY <1>2, <1>3, <1>4, CallMade
  <2>2. \A c, i : c # b =>
          (Renamed(fn, dom_tree_succ, ds, c, i) <=> Renamed(fn, dom_tree_succ, calls, c, i))
    BY <1>2, <1>3, <1>4, CallMade
  <2> QED BY <2>1, <2>2
<1>8. calls' = ds /\ fn' = fn /\ dom_tree_succ' = dom_tree_succ
  BY <1>1, <1>2 DEF Reading
<1> HIDE DEF ds
<1>9. \A c, i : IsRenamed(c, i)' <=> IsRenamed(c, i)
  BY <1>7, <1>8 DEF IsRenamed
<1>10. M!Rename(b).pc = "phis" /\ M!Rename(b).bb = b
  BY DEF M!Rename
<1>11. Program' = Program
  BY <1>2 DEF Program, Reading
<1>12. Immediate(fn, M!TopRename.bb, b)
  BY <1>1, <1>3 DEF TreeOf
<1>13. \A v \in Locals :
         /\ HasValue(Program, M!Rename(b), v) <=> HasValue(Program, M!TopRename, v)
         /\ HasValue(Program, M!TopRename, v) =>
              ValueOf(Program, M!Rename(b), v) = ValueOf(Program, M!TopRename, v)
  <2> SUFFICES ASSUME NEW v \in Locals
               PROVE  /\ HasValue(Program, M!Rename(b), v) <=> HasValue(Program, M!TopRename, v)
                      /\ HasValue(Program, M!TopRename, v) =>
                           ValueOf(Program, M!Rename(b), v) = ValueOf(Program, M!TopRename, v)
    OBVIOUS
  <2>1. PICK q : q = Program
    OBVIOUS
  <2>2. q.fn = fn
    BY <2>1 DEF Program
  <2> DEFINE a == M!TopRename.bb
  <2>3. FlowGraph(q.fn) /\ Immediate(q.fn, a, b)
    BY <1>3, <1>12, <2>2
  <2> HIDE DEF a
  <2>4. /\ Setters(q, b, v) # {} <=> Reaches(q, a, EndOf(q, a), v)
        /\ Setters(q, b, v) # {} => Inherited(q, b, v) = Reaching(q, a, EndOf(q, a), v)
    BY <2>3, InheritedFromParent
  <2>5. PointOf(q, M!TopRename) = EndOf(q, a) /\ M!TopRename.pc # "phis"
    BY <1>2 DEF PointOf, a
  <2>6. /\ HasValue(q, M!Rename(b), v) <=> Setters(q, b, v) # {}
        /\ ValueOf(q, M!Rename(b), v) = Inherited(q, b, v)
    BY <1>10 DEF HasValue, ValueOf
  <2>7. /\ HasValue(q, M!TopRename, v) <=> Reaches(q, a, EndOf(q, a), v)
        /\ ValueOf(q, M!TopRename, v) = Reaching(q, a, EndOf(q, a), v)
    BY <2>5 DEF HasValue, ValueOf, a
  <2> QED BY <2>1, <2>4, <2>6, <2>7
<1>14. StacksNamed'
  <2> SUFFICES ASSUME NEW v \in Locals
               PROVE  \E h : /\ Sums(calls, v, h)' /\ h[Len(calls')] = Height(v)'
                             /\ \A i \in 1 .. Len(calls') :
                                  CallNamed(Program', calls'[i], v, h[i], var_val_stack'[v])
    BY DEF StacksNamed
  <2>1. PICK g : /\ Sums(calls, v, g) /\ g[n] = Height(v)
                 /\ \A i \in 1 .. n : CallNamed(Program, calls[i], v, g[i], var_val_stack[v])
    BY DEF NamesInv, StacksNamed
  <2>2. PICK h : Sums(calls, v, h)' /\ h[Len(calls')] = Height(v)'
    <3>1. RenameInv'
      BY RenameChildKeeps
    <3> QED BY <3>1 DEF RenameInv, Balanced
  <2>3. Len(calls') = n + 1
    BY <1>5, <1>8
  <2>4. /\ g[0] = 0 /\ \A i \in 1 .. n : g[i] = g[i - 1] + M!Done(calls[i], v)
    BY <2>1 DEF Sums
  <2>5. /\ h[0] = 0 /\ \A i \in 1 .. n + 1 : h[i] = h[i - 1] + M!Done(calls[i], v)'
    BY <2>2, <2>3 DEF Sums
  <2>6. ASSUME NEW i \in 1 .. n PROVE M!Done(calls[i], v)' = M!Done(calls[i], v)
    <3>1. PICK e : e = ds[i]
      OBVIOUS
    <3>2. calls'[i] = e
      BY <1>8, <3>1
    <3>3. M!Done(calls[i], v)' = M!Done(e, v)
      BY <1>2, <3>2, DoneLater
    <3>4. CASE i # n
      BY <1>6, <3>1, <3>3, <3>4
    <3>5. CASE i = n
      <4>1. e.bb = calls[n].bb /\ e.pc = "children"
        BY <1>5, <3>1, <3>5
      <4>2. M!Done(e, v) = M!Done(calls[n], v)
        BY <1>4, <4>1 DEF M!Done
      <4> QED BY <3>3, <3>5, <4>2
    <3> QED BY <3>4, <3>5
  <2> HIDE DEF n
  <2>7. PICK d : d = [i \in 1 .. n |-> M!Done(calls[i], v)]
    OBVIOUS
  <2>8. \A i \in 1 .. n : g[i] = g[i - 1] + d[i]
    BY <2>4, <2>7
  <2>9. \A i \in 1 .. n : h[i] = h[i - 1] + d[i]
    <3>1. \A i \in 1 .. n : i \in 1 .. n + 1
      BY <1>3
    <3> QED BY <2>5, <2>6, <2>7, <3>1
  <2>10. \A i \in 0 .. n : g[i] = h[i]
    <3>1. n \in Nat /\ g[0] = h[0]
      BY <1>3, <2>4, <2>5
    <3> QED BY <2>8, <2>9, <3>1, SameSums
  <2>11. h[n + 1] = Height(v)
    BY <1>2, <2>2, <2>3 DEF Height
  <2>12. ASSUME NEW i \in 1 .. n PROVE CallNamed(Program, ds[i], v, h[i], var_val_stack[v])
    <3>1. CallNamed(Program, calls[i], v, h[i], var_val_stack[v])
      <4>1. i \in 0 .. n
        BY <1>3
      <4> QED BY <2>1, <2>10, <4>1
    <3>2. CASE i # n
      BY <1>6, <3>1, <3>2
    <3>3. CASE i = n
      <4>1. PICK e : e = ds[n]
        OBVIOUS
      <4>2. e.bb = calls[n].bb /\ e.pc = calls[n].pc /\ calls[n].pc = "children"
        BY <1>4, <1>5, <4>1
      <4>3. PointOf(Program, e) = PointOf(Program, calls[n])
        BY <4>2 DEF PointOf
      <4>4. /\ HasValue(Program, e, v) <=> HasValue(Program, calls[n], v)
            /\ ValueOf(Program, e, v) = ValueOf(Program, calls[n], v)
        BY <4>2, <4>3 DEF HasValue, ValueOf
      <4>5. CallNamed(Program, calls[n], v, h[n], var_val_stack[v])
        BY <3>1, <3>3
      <4>6. CallNamed(Program, e, v, h[n], var_val_stack[v])
        BY <4>4, <4>5 DEF CallNamed
      <4> QED BY <3>3, <4>1, <4>6
    <3> QED BY <3>2, <3>3
  <2>13. CallNamed(Program, ds[n + 1], v, h[n + 1], var_val_stack[v])
    <3>1. CallNamed(Program, M!TopRename, v, Height(v), var_val_stack[v])
      BY <1>3, <2>1
    <3>2. CallNamed(Program, M!Rename(b), v, Height(v), var_val_stack[v])
      BY <1>13, <3>1 DEF CallNamed
    <3> QED BY <1>5, <2>11, <3>2
  <2>14. \A i \in 1 .. n + 1 : CallNamed(Program, ds[i], v, h[i], var_val_stack[v])
    <3>1. \A i \in 1 .. n + 1 : i = n + 1 \/ i \in 1 .. n
      BY <1>3
    <3> QED BY <2>12, <2>13, <3>1
  <2>15. \A i \in 1 .. Len(calls') : CallNamed(Program', calls'[i], v, h[i], var_val_stack'[v])
    BY <1>2, <1>8, <1>11, <2>3, <2>14
  <2> QED BY <2>2, <2>15
<1>15. PairsNamed'
  BY <1>2, PairsNamedStay DEF NamesInv
<1>16. \A id \in M!InstrsOf("load", Locals) :
         IsRenamed(id[1], id[2])' <=> IsRenamed(id[1], id[2])
  BY <1>9
<1> QED BY <1>2, <1>14, <1>15, <1>16, NamesStay

\* Popping leaves the values below where they are.
LEMMA EntriesLeft ==
  ASSUME NEW S, NEW s \in Seq(S), NEW p \in Nat, Len(s) - p \in Nat,
         NEW m \in Nat \ {0}, m <= Len(s) - p
  PROVE  SubSeq(s, 1, Len(s) - p)[m] = s[m]
<1> DEFINE k == Len(s) - p
<1>1. k \in Nat /\ k <= Len(s) /\ m \in 1 .. k
  OBVIOUS
<1> HIDE DEF k
<1>2. SubSeq(s, 1, k)[m] = s[1 + m - 1]
  BY <1>1
<1>3. 1 + m - 1 = m
  OBVIOUS
<1> QED BY <1>2, <1>3 DEF k

LEMMA LeaveBlockNames ==
  ASSUME PromotionAssumption, Ready, NamesInv, M!LeaveBlock
  PROVE  NamesInv'
<1> DEFINE n == Len(calls)
           bb == M!TopRename.bb
           ds == SubSeq(calls, 1, Len(calls) - 1)
<1>1. /\ calls # <<>> /\ M!TopRename.pc = "children" /\ M!TopRename.todo = {} /\ Reading
      /\ UNCHANGED <<pairs, operand>> /\ calls' = ds
      /\ var_val_stack' = [v \in DOMAIN var_val_stack |->
                             SubSeq(var_val_stack[v], 1, Len(var_val_stack[v]) - M!Popped(v, bb))]
  BY DEF M!LeaveBlock, M!Renaming, M!given, Reading
<1>2. /\ CallsNested(fn, dom_tree_succ, calls)
      /\ n \in Nat \ {0} /\ n \in 1 .. n /\ M!TopRename = calls[n] /\ WellFormed(fn)
      /\ \A i \in 1 .. n : calls[i] \in CallFrame(fn) /\ calls[i].bb \in fn.blocks
  BY <1>1, TopCallFacts
<1>3. calls[n].pc = "children" /\ calls[n].todo = {}
  BY <1>1, <1>2
<1>4. Len(ds) = n - 1 /\ \A i \in 1 .. n - 1 : ds[i] = calls[i]
  BY <1>1, <1>2, <1>3, CallReturns
<1>5. \A c, i : Renamed(fn, dom_tree_succ, ds, c, i) <=> Renamed(fn, dom_tree_succ, calls, c, i)
  BY <1>1, <1>2, <1>3, CallReturns
<1> HIDE DEF ds
<1>6. \A c, i : IsRenamed(c, i)' <=> IsRenamed(c, i)
  BY <1>1, <1>5 DEF IsRenamed, Reading
<1>7. PassTyped /\ RenameInv'
  BY LeaveBlockKeeps DEF Ready, RenameInv
<1>8. Program' = Program
  BY <1>1 DEF Program, Reading
<1>9. StacksNamed'
  <2> SUFFICES ASSUME NEW v \in Locals
               PROVE  \E h : /\ Sums(calls, v, h)' /\ h[Len(calls')] = Height(v)'
                             /\ \A i \in 1 .. Len(calls') :
                                  CallNamed(Program', calls'[i], v, h[i], var_val_stack'[v])
    BY DEF StacksNamed
  <2>1. PICK g : /\ Sums(calls, v, g) /\ g[n] = Height(v)
                 /\ \A i \in 1 .. n : CallNamed(Program, calls[i], v, g[i], var_val_stack[v])
    BY DEF NamesInv, StacksNamed
  <2>2. PICK h : Sums(calls, v, h)' /\ h[Len(calls')] = Height(v)'
    BY <1>7 DEF RenameInv, Balanced
  <2>3. Len(calls') = n - 1 /\ n - 1 \in Nat
    BY <1>1, <1>2, <1>4
  <2>4. /\ g[0] = 0 /\ \A i \in 1 .. n : g[i] = g[i - 1] + M!Done(calls[i], v)
    BY <2>1 DEF Sums
  <2>5. /\ h \in [0 .. n - 1 -> Nat] /\ h[0] = 0
        /\ \A i \in 1 .. n - 1 : h[i] = h[i - 1] + M!Done(calls[i], v)'
    BY <2>2, <2>3 DEF Sums
  <2>6. \A i \in 1 .. n : M!Done(calls[i], v) \in Nat
    BY <1>2, DoneFacts
  <2>7. /\ M!Done(calls[n], v) = M!Popped(v, bb)
    <3>1. M!Done(calls[n], v) = M!Stored(v, calls[n].bb) + M!HasPhi(v, calls[n].bb)
      BY <1>2, <1>3, DoneFacts
    <3> QED BY <1>2, <3>1 DEF M!Popped
  <2> HIDE DEF n
  <2>8. ASSUME NEW i \in 1 .. n - 1
        PROVE  /\ i \in 1 .. n /\ calls'[i] = calls[i]
               /\ M!Done(calls[i], v)' = M!Done(calls[i], v)
    <3>1. i \in 1 .. n
      BY <1>2
    <3>2. calls'[i] = calls[i]
      BY <1>1, <1>4
    <3>3. M!Done(calls[i], v)' = M!Done(calls[i], v)
      BY <1>1, <3>2, DoneLater
    <3> QED BY <3>1, <3>2, <3>3
  <2>9. \A i \in 0 .. n - 1 : g[i] = h[i]
    <3>1. PICK d : d = [i \in 1 .. n - 1 |-> M!Done(calls[i], v)]
      OBVIOUS
    <3>2. \A i \in 1 .. n - 1 : g[i] = g[i - 1] + d[i]
      BY <2>4, <2>8, <3>1
    <3>3. \A i \in 1 .. n - 1 : h[i] = h[i - 1] + d[i]
      BY <2>5, <2>8, <3>1
    <3>4. PICK m \in Nat : m = n - 1
      BY <2>3
    <3>5. g[0] = h[0]
      BY <2>4, <2>5
    <3>6. /\ \A i \in 1 .. m : g[i] = g[i - 1] + d[i]
          /\ \A i \in 1 .. m : h[i] = h[i - 1] + d[i]
      BY <3>2, <3>3, <3>4
    <3>7. \A i \in 0 .. m : g[i] = h[i]
      BY ONLY m \in Nat, <3>5, <3>6, SameSums
    <3> QED BY <3>4, <3>7
  <2>10. /\ Height(v) = g[n - 1] + M!Popped(v, bb) /\ g[n - 1] \in Nat /\ M!Popped(v, bb) \in Nat
         /\ Height(v)' = g[n - 1]
    <3>1. n - 1 \in 0 .. n - 1
      BY <1>2
    <3>2. g[n - 1] = h[n - 1] /\ h[n - 1] \in Nat
      BY <2>5, <2>9, <3>1
    <3>3. g[n] = g[n - 1] + M!Popped(v, bb) /\ M!Popped(v, bb) \in Nat
      BY <1>2, <2>4, <2>6, <2>7
    <3> QED BY <2>1, <2>2, <2>3, <3>2, <3>3
  <2>11. ASSUME NEW m \in Nat \ {0}, m <= g[n - 1]
         PROVE  var_val_stack'[v][m] = var_val_stack[v][m]
    <3>1. v \in DOMAIN var_val_stack
      <4>1. v \notin DOMAIN var_val_stack => Height(v) = 0
        BY DEF Height
      <4>2. Height(v) # 0
        BY <2>10, <2>11
      <4> QED BY <4>1, <4>2
    <3> DEFINE R == Values
               s == var_val_stack[v]
               p == M!Popped(v, bb)
    <3>2. \A w \in DOMAIN var_val_stack : var_val_stack[w] \in Seq(R)
      BY <1>7 DEF PassTyped
    <3> HIDE DEF R
    <3>3. s \in Seq(R)
      BY <3>1, <3>2
    <3>4. Height(v) = Len(s)
      BY <3>1 DEF Height
    <3>5. var_val_stack'[v] = SubSeq(s, 1, Len(s) - p)
      BY <1>1, <3>1
    <3>6. p \in Nat /\ Len(s) - p = g[n - 1] /\ Len(s) \in Nat
      BY <2>10, <3>3, <3>4
    <3> HIDE DEF s, p
    <3>7. SubSeq(s, 1, Len(s) - p)[m] = s[m]
      BY <2>10, <2>11, <3>3, <3>6, EntriesLeft
    <3> QED BY <3>5, <3>7 DEF s
  <2>12. ASSUME NEW i \in 1 .. n - 1
         PROVE  CallNamed(Program', calls'[i], v, h[i], var_val_stack'[v])
    <3>1. i \in 0 .. n - 1 /\ i \in 0 .. n /\ n - 1 \in 0 .. n /\ i <= n - 1 /\ i \in 1 .. n
      BY <1>2
    <3>2. h[i] = g[i]
      BY <2>9, <3>1
    <3>3. g[i] <= g[n - 1] /\ g[i] \in Nat
      BY <1>2, <2>1, <2>6, <3>1, SumsGrow DEF n
    <3>4. g[i] > 0 => var_val_stack'[v][g[i]] = var_val_stack[v][g[i]]
      BY <2>11, <3>3
    <3>5. CallNamed(Program, calls[i], v, g[i], var_val_stack[v])
      BY <2>1, <3>1
    <3>6. calls'[i] = calls[i]
      BY <2>8
    <3> QED BY <1>8, <3>2, <3>4, <3>5, <3>6 DEF CallNamed
  <2> QED BY <2>2, <2>3, <2>12
<1>10. PairsNamed'
  BY <1>1, PairsNamedStay DEF NamesInv
<1>11. \A id \in M!InstrsOf("load", Locals) :
         IsRenamed(id[1], id[2])' <=> IsRenamed(id[1], id[2])
  BY <1>6
<1> QED BY <1>1, <1>9, <1>10, <1>11, NamesStay

\* Nothing that the names are about changes.
LEMMA NamesRest ==
  ASSUME NamesInv, Reading, UNCHANGED <<operand, pairs, var_val_stack, calls>>
  PROVE  NamesInv'
<1>1. Program' = Program
  BY DEF Program, Reading
<1>2. \A fr, v : M!Done(fr, v)' = M!Done(fr, v)
  BY SameProgram
<1>3. \A v : Height(v)' = Height(v)
  BY DEF Height
<1>4. ASSUME NEW v, NEW g, Sums(calls, v, g) PROVE Sums(calls, v, g)'
  <2>1. /\ g \in [0 .. Len(calls) -> Nat] /\ g[0] = 0
        /\ \A n \in 1 .. Len(calls) : g[n] = g[n - 1] + M!Done(calls[n], v)
    BY <1>4 DEF Sums
  <2>2. ASSUME NEW n \in 1 .. Len(calls) PROVE M!Done(calls[n], v)' = M!Done(calls[n], v)
    <3>1. PICK e : e = calls[n]
      OBVIOUS
    <3>2. calls'[n] = e
      BY <3>1
    <3> QED BY <3>1, <3>2, DoneLater
  <2> QED BY <2>1, <2>2 DEF Sums
<1>5. StacksNamed'
  <2> SUFFICES ASSUME NEW v \in Locals
               PROVE  \E g : /\ Sums(calls, v, g)' /\ g[Len(calls)] = Height(v)
                             /\ \A n \in 1 .. Len(calls) :
                                  CallNamed(Program, calls[n], v, g[n], var_val_stack[v])
    BY <1>1, <1>3 DEF StacksNamed
  <2>1. PICK g : /\ Sums(calls, v, g) /\ g[Len(calls)] = Height(v)
                 /\ \A n \in 1 .. Len(calls) : CallNamed(Program, calls[n], v, g[n], var_val_stack[v])
    BY DEF NamesInv, StacksNamed
  <2> QED BY <1>4, <2>1
<1>6. PairsNamed'
  BY PairsNamedStay DEF NamesInv
<1>7. \A c, i : IsRenamed(c, i)' <=> IsRenamed(c, i)
  BY DEF IsRenamed, Reading
<1> QED BY <1>5, <1>6, <1>7, NamesStay

LEMMA LoadNamesItself ==
  ASSUME WellFormed(fn), CodeCopies(fn), NEW id \in M!InstrsOf("load", Locals \cup Globals)
  PROVE  /\ M!InitialOperand(id) = OwnLoad(id)
         /\ id[1] \in fn.blocks /\ id[2] \in Nat \ {0}
<1> DEFINE b == id[1]
           i == id[2]
           C == CopyingCode
<1>1. /\ id = <<b, i>> /\ M!At(id) = fn.code[b][i] /\ <<b, i>> \in M!InstrsOf("load", Locals \cup Globals)
      /\ b \in fn.blocks /\ i \in DOMAIN fn.code[b] /\ DOMAIN fn.code[b] = 1 .. Len(fn.code[b])
      /\ Len(fn.code[b]) \in Nat /\ fn.code[b][i].op = "load"
      /\ fn.code[b][i].var \in Locals \cup Globals
  BY InstrFacts
<1>2. b \in 1 .. Len(fn.code)
  BY <1>1 DEF WellFormed, FunctionType
<1>3. fn.code \in Seq(C)
  BY DEF CodeCopies
<1> HIDE DEF C, b, i
<1>4. fn.code[b] \in C
  BY <1>2, <1>3
<1>5. fn.code[b][i].src = 0
  BY <1>1, <1>4 DEF C, CopyingCode, Copying
<1>6. i \in Nat \ {0} /\ i - 0 = i
  BY <1>1
<1>7. M!InitialOperand(id) = M!Value("load", id[1], id[2] - 0)
  BY <1>1, <1>5 DEF M!InitialOperand
<1> QED BY <1>1, <1>6, <1>7 DEF b, i, OwnLoad

LEMMA GeneratePhiNames ==
  ASSUME PromotionAssumption, Built, Given(fn, dom_frontier, dom_tree_succ), M!GeneratePhi,
         pairs = {}, var_val_stack = <<>>, deleted = {}, CodeCopies(fn)
  PROVE  NamesInv'
<1> DEFINE cs == <<M!Rename(Entry)>>
<1>1. /\ WellFormed(fn) /\ FlowGraph(fn) /\ TreeOf(fn, dom_tree_succ) /\ FrontierOf(fn, dom_frontier)
      /\ UNCHANGED <<fn, dom_frontier, dom_tree_succ>>
  BY DEF Given, M!GeneratePhi, M!given
<1>2. /\ phis' = UNION {M!PhiBlocks(v) \X {v} : v \in Locals}
      /\ operand' = [id \in Accessed |-> M!InitialOperand(id)]
      /\ calls' = cs /\ pairs' = {} /\ var_val_stack' = <<>>
  BY SameGraphs DEF M!GeneratePhi, Accessed
<1>3. /\ \A op, vars : M!InstrsOf(op, vars)' = M!InstrsOf(op, vars)
      /\ \A v : M!StoreBlocks(v)' = M!StoreBlocks(v)
      /\ \A id : M!At(id)' = M!At(id)
  BY <1>1 DEF M!InstrsOf, M!At, M!StoreBlocks
<1>4. Accessed' = Accessed
  BY <1>3 DEF Accessed
<1>5. \A v : M!StoreBlocks(v) \subseteq fn.blocks
  BY DEF M!StoreBlocks, M!InstrsOf
<1>6. RenameInv'
  BY GeneratePhiKeeps
<1>7. \A b, i : ~IsRenamed(b, i)'
  <2>1. \A b, i : ~Renamed(fn, dom_tree_succ, cs, b, i)
    BY <1>1, FirstCall
  <2> HIDE DEF cs
  <2> QED BY <1>1, <1>2, <2>1 DEF IsRenamed
<1>8. ASSUME NEW id \in M!InstrsOf("load", Locals \cup Globals)
      PROVE  operand'[id] = OwnLoad(id) /\ id \in Accessed
  BY <1>1, <1>2, <1>8, LoadNamesItself DEF Accessed
<1>9. ASSUME NEW id \in M!InstrsOf("store", Locals \cup Globals)
      PROVE  /\ operand'[id] = IF M!At(id).src = 0 THEN M!Value("own", id[1], id[2])
                               ELSE M!Value("load", id[1], id[2] - M!At(id).src)
             /\ id \in Accessed
  <2>1. id \in Accessed /\ M!At(id).op = "store"
    BY DEF Accessed, M!InstrsOf
  <2> QED BY <1>2, <2>1 DEF M!InitialOperand
<1>10. StacksNamed'
  <2> SUFFICES ASSUME NEW v \in Locals
               PROVE  \E g : /\ Sums(calls, v, g)' /\ g[Len(calls')] = Height(v)'
                             /\ \A n \in 1 .. Len(calls') :
                                  CallNamed(Program', calls'[n], v, g[n], var_val_stack'[v])
    BY DEF StacksNamed
  <2>1. PICK g : Sums(calls, v, g)' /\ g[Len(calls')] = Height(v)'
    BY <1>6 DEF RenameInv, Balanced
  <2>2. Height(v)' = 0
    BY <1>2 DEF Height
  <2>3. Len(calls') = 1 /\ calls'[1] = M!Rename(Entry) /\ 1 .. 1 = {1}
    BY <1>2
  <2>4. M!Rename(Entry).pc = "phis" /\ M!Rename(Entry).bb = Entry
    BY DEF M!Rename
  <2>5. PICK r : r = Program'
    OBVIOUS
  <2>6. r.fn = fn
    BY <1>1, <2>5 DEF Program
  <2>7. Setters(r, Entry, v) = {}
    BY <1>1, <2>6, EntryDominator DEF Setters
  <2>8. CallNamed(r, M!Rename(Entry), v, 0, var_val_stack'[v])
    BY <2>4, <2>7 DEF CallNamed, HasValue
  <2> QED BY <2>1, <2>2, <2>3, <2>5, <2>8
<1>11. StoresNamed'
  <2>1. ASSUME NEW id \in M!InstrsOf("store", Locals \cup Globals), M!At(id).src # 0
        PROVE  operand'[id] = operand'[<<id[1], id[2] - M!At(id).src>>]
    <3> DEFINE l == <<id[1], id[2] - M!At(id).src>>
    <3>1. l \in M!InstrsOf("load", Locals \cup Globals)
      BY <1>1, <2>1, CopiedLoad
    <3>2. l[1] = id[1] /\ l[2] = id[2] - M!At(id).src
      OBVIOUS
    <3> HIDE DEF l
    <3>3. operand'[l] = M!Value("load", id[1], id[2] - M!At(id).src)
      BY <1>8, <3>1, <3>2 DEF OwnLoad
    <3> QED BY <1>9, <2>1, <3>3 DEF l
  <2> QED BY <1>3, <1>9, <2>1 DEF StoresNamed
<1>12. LoadsNamed'
  <2>1. \A id \in M!InstrsOf("load", Locals) \cup M!InstrsOf("load", Globals) : operand'[id] = OwnLoad(id)
    <3> SUFFICES ASSUME NEW id \in M!InstrsOf("load", Locals) \cup M!InstrsOf("load", Globals)
                 PROVE  operand'[id] = OwnLoad(id)
      OBVIOUS
    <3>1. id \in M!InstrsOf("load", Locals \cup Globals)
      BY DEF M!InstrsOf
    <3> QED BY <1>8, <3>1
  <2> QED BY <1>3, <1>7, <2>1 DEF LoadsNamed
<1>13. OperandsDefined'
  <2>1. ASSUME NEW id \in Accessed PROVE DefinedBefore(fn, operand'[id], id[1], id[2] + 1)
    <3>1. CASE id \in M!InstrsOf("load", Locals \cup Globals)
      <4>1. operand'[id] = OwnLoad(id) /\ id[2] \in Nat
        BY <1>1, <1>8, <3>1, LoadNamesItself
      <4>2. id[2] < id[2] + 1
        BY <4>1
      <4> QED BY <4>1, <4>2 DEF DefinedBefore, OwnLoad, M!Value
    <3>2. CASE id \in M!InstrsOf("store", Locals \cup Globals)
      <4>1. id[2] \in Nat
        <5>1. <<id[1], id[2]>> \in M!InstrsOf("store", Locals \cup Globals)
          BY <1>1, <3>2, InstrFacts
        <5> QED BY <1>1, <5>1, InstrFacts
      <4>2. CASE M!At(id).src = 0
        <5>1. operand'[id] = M!Value("own", id[1], id[2]) /\ id[2] < id[2] + 1
          BY <1>9, <3>2, <4>1, <4>2
        <5> QED BY <5>1 DEF DefinedBefore, M!Value
      <4>3. CASE M!At(id).src # 0
        <5>1. operand'[id] = M!Value("load", id[1], id[2] - M!At(id).src)
          BY <1>9, <3>2, <4>3
        <5>2. M!At(id).src \in Nat
          BY <1>1, <3>2, <4>3, CopiedLoad
        <5>3. id[2] - M!At(id).src < id[2] + 1
          BY <4>1, <5>2
        <5> QED BY <5>1, <5>3 DEF DefinedBefore, M!Value
      <4> QED BY <4>2, <4>3
    <3> QED BY <3>1, <3>2 DEF Accessed
  <2> QED BY <1>1, <1>4, <2>1 DEF OperandsDefined
<1>14. PairsNamed'
  BY <1>2 DEF PairsNamed
<1>15. PhisClosed'
  <2> SUFFICES ASSUME NEW v \in Locals, NEW a \in fn.blocks, Sets(a, v)',
                      NEW b \in dom_frontier[a]
               PROVE  <<b, v>> \in phis'
    BY <1>1 DEF PhisClosed
  <2>1. \A c \in M!StoreBlocks(v) \cup M!PhiBlocks(v) : dom_frontier[c] \subseteq M!PhiBlocks(v)
    BY <1>1, <1>5, PhiBlocksClosed
  <2>2. a \in M!StoreBlocks(v) \cup M!PhiBlocks(v)
    <3>1. <<a, v>> \in phis' \/ a \in M!StoreBlocks(v)
      BY <1>3 DEF Sets
    <3>2. <<a, v>> \in phis' => a \in M!PhiBlocks(v)
      BY <1>2
    <3> QED BY <3>1, <3>2
  <2>3. b \in M!PhiBlocks(v)
    BY <2>1, <2>2
  <2> QED BY <1>2, <2>3
<1>16. CodeCopies(fn)'
  BY <1>1
<1> QED BY <1>10, <1>11, <1>12, <1>13, <1>14, <1>15, <1>16 DEF NamesInv

\* The names hold as long as the pass goes on and when it is done.
LEMMA Mem2RegNames ==
  ASSUME PromotionAssumption, Mem2RegInv, M!Mem2RegStep, CodeCopies(fn),
         stage \in {"rename", "remove", "promoted"} => NamesInv,
         stage' \in {"rename", "remove", "promoted"}
  PROVE  NamesInv'
<1>1. stage \in {"place", "rename", "remove"}
  BY DEF M!Mem2RegStep, M!GeneratePhi, M!RenamePhis, M!SkipInstr, M!RenameLoad, M!RenameStore,
         M!EndInstrs, M!FillSuccessor, M!EndSuccessors, M!RenameChild, M!LeaveBlock,
         M!EndRename, M!RemoveAlloca, M!Renaming, M!HasInstr
<1>2. Built /\ Given(fn, dom_frontier, dom_tree_succ)
  BY <1>1 DEF Mem2RegInv
<1>3. CASE M!GeneratePhi
  <2>1. stage = "place"
    BY <1>3 DEF M!GeneratePhi
  <2>2. pairs = {} /\ var_val_stack = <<>> /\ deleted = {}
    BY <2>1 DEF Mem2RegInv
  <2> QED BY <1>2, <1>3, <2>2, GeneratePhiNames
<1>4. CASE \/ M!RenamePhis \/ M!SkipInstr \/ M!RenameLoad \/ M!RenameStore \/ M!EndInstrs
           \/ M!FillSuccessor \/ M!EndSuccessors \/ M!RenameChild \/ M!LeaveBlock
  <2>1. stage = "rename"
    BY <1>4 DEF M!RenamePhis, M!SkipInstr, M!RenameLoad, M!RenameStore, M!EndInstrs,
         M!FillSuccessor, M!EndSuccessors, M!RenameChild, M!LeaveBlock, M!Renaming, M!HasInstr
  <2>2. Ready /\ NamesInv
    BY <1>2, <2>1 DEF Ready, Mem2RegInv
  <2>3. stage' = "rename"
    BY <1>4, <2>2, RenamingKeeps
  <2> QED BY <1>4, <2>2, <2>3, RenamePhisNames, SkipNames, RenameLoadNames, RenameStoreNames,
             EndInstrsNames, FillSuccessorNames, EndSuccessorsNames, RenameChildNames,
             LeaveBlockNames
<1>5. CASE M!EndRename \/ M!RemoveAlloca
  <2>1. /\ NamesInv /\ Reading /\ UNCHANGED <<pairs, operand, var_val_stack, calls>>
    BY <1>5 DEF M!EndRename, M!RemoveAlloca, M!given, Reading
  <2> QED BY <2>1, NamesRest
<1> QED BY <1>3, <1>4, <1>5 DEF M!Mem2RegStep

\* When the pass is done, a load names what reaches it, wherever it is in a block that
\* some path reaches.
LEMMA PromotedLoad ==
  ASSUME LoadsNamed, calls = <<>>, WellFormed(fn), NEW b \in Reachable(fn), NEW i,
         <<b, i>> \in M!InstrsOf("load", Locals),
         Reaches(Program, b, i, fn.code[b][i].var)
  PROVE  operand[<<b, i>>] = Reaching(Program, b, i, fn.code[b][i].var)
<1>1. IsRenamed(b, i)
  BY NothingAwaits DEF IsRenamed
<1>2. M!At(<<b, i>>) = fn.code[b][i]
  BY DEF M!At
<1> QED BY <1>1, <1>2 DEF LoadsNamed

LEMMA SameNames ==
  /\ E!M!Entry = Entry
  /\ \A s : E!Range(s) = Range(s)
  /\ \A op, vars : E!M!InstrsOf(op, vars) = M!InstrsOf(op, vars)
  /\ \A id : E!M!InitialOperand(id) = M!InitialOperand(id)
  /\ \A phi : E!M!PhiValue(phi) = M!PhiValue(phi)
  /\ \A kind, b, i : E!M!Value(kind, b, i) = M!Value(kind, b, i)
<1>1. E!M!Entry = Entry
  BY DEF E!M!Entry, Entry
<1>2. \A s : E!Range(s) = Range(s)
  BY DEF E!Range, Range
<1>3. \A id : E!M!At(id) = M!At(id)
  BY DEF E!M!At, M!At
<1>4. \A op, vars : E!M!InstrsOf(op, vars) = M!InstrsOf(op, vars)
  BY <1>3 DEF E!M!InstrsOf, M!InstrsOf
<1>5. /\ \A phi : E!M!PhiValue(phi) = M!PhiValue(phi)
      /\ \A kind, b, i : E!M!Value(kind, b, i) = M!Value(kind, b, i)
  BY DEF E!M!PhiValue, M!PhiValue, E!M!Value, M!Value
<1>6. \A id : E!M!InitialOperand(id) = M!InitialOperand(id)
  BY <1>3, <1>5 DEF E!M!InitialOperand, M!InitialOperand
<1> QED BY <1>1, <1>2, <1>4, <1>5, <1>6

-----------------------------------------------------------------------------
(* Running both programs: where the original program holds a defined value *)
(* of a variable, the name that reaches the point holds it in the promoted *)
(* program, and so do the names of the loads the block has executed.       *)

\* The pass is done.
PassDone ==
  /\ WellFormed(fn) /\ FlowGraph(fn) /\ Open(fn) = {} /\ FrontierFull(fn, dom_frontier)
  /\ RenameInv /\ calls = <<>> /\ NamesInv

Registers ==
  {M!Value("own", id[1], id[2]) :
     id \in {i \in M!InstrsOf("store", Locals \cup Globals) : M!At(i).src = 0}}
    \cup {OwnLoad(id) : id \in M!InstrsOf("load", Locals \cup Globals)}
    \cup {M!PhiValue(phi) : phi \in phis}

MachineTyped ==
  /\ block \in Reachable(fn) /\ pos \in 1 .. Len(fn.code[block])
  /\ DOMAIN mem = Locals \cup Globals /\ DOMAIN ssaMem = Globals
  /\ DOMAIN reg = M!InstrsOf("load", Locals \cup Globals)
  /\ Registers \subseteq DOMAIN ssa

\* At the i-th instruction of b, with the memory m, the load results r and the
\* registers s.
LocalsAgree(q, b, i, m, s) ==
  \A v \in Locals : m[v] # E!Undef =>
    /\ Reaches(q, b, i, v) /\ Reaching(q, b, i, v) \in DOMAIN s
    /\ s[Reaching(q, b, i, v)] = m[v]

LoadsAgree(q, b, i, r, s) ==
  \A id \in DOMAIN r : id[1] = b /\ id[2] < i /\ r[id] # E!Undef =>
    q.operand[id] \in DOMAIN s /\ s[q.operand[id]] = r[id]

GlobalsAgree(m, sm) == \A v \in Globals : m[v] # E!Undef => sm[v] = m[v]

RunInv ==
  block # 0 =>
    /\ stage = "promoted" /\ MachineTyped
    /\ LocalsAgree(Program, block, pos, mem, ssa)
    /\ LoadsAgree(Program, block, pos, reg, ssa)
    /\ GlobalsAgree(mem, ssaMem)

\* A block that is not open ends in a branch or a return.
LEMMA BlockEnds ==
  ASSUME WellFormed(fn), Open(fn) = {}, NEW b \in fn.blocks
  PROVE  /\ Len(fn.code[b]) \in Nat \ {0} /\ IsTerminator(fn.code[b][Len(fn.code[b])])
         /\ \A i \in 1 .. Len(fn.code[b]) :
              fn.code[b][i].op \notin {"br", "ret"} => i + 1 \in 1 .. Len(fn.code[b])
<1>1. HasTerminator(fn, b)
  BY DEF Open
<1>2. fn.code[b] \in Seq(Instr) /\ Len(fn.code[b]) \in Nat
  BY InstrFacts
<1> HIDE DEF Instr
<1>3. Len(fn.code[b]) # 0 /\ IsTerminator(fn.code[b][Len(fn.code[b])])
  BY <1>1, <1>2 DEF HasTerminator
<1> QED BY <1>2, <1>3 DEF IsTerminator

LEMMA NextAccessFacts ==
  ASSUME WellFormed(fn), Open(fn) = {}, NEW b \in fn.blocks, NEW i \in 1 .. Len(fn.code[b])
  PROVE  /\ E!NextAccess(b, i) \in i .. Len(fn.code[b])
         /\ \A h \in i .. E!NextAccess(b, i) - 1 : fn.code[b][h].op \notin {"load", "store"}
<1> DEFINE ops == {"load", "store", "br", "ret"}
           T == {j \in i .. Len(fn.code[b]) : fn.code[b][j].op \in ops}
           P(j) == fn.code[b][j].op \in ops /\ \A h \in i .. j - 1 : fn.code[b][h].op \notin ops
<1>1. Len(fn.code[b]) \in Nat \ {0} /\ i \in Nat /\ fn.code[b][Len(fn.code[b])].op \in ops
  BY BlockEnds DEF IsTerminator
<1>2. T \in SUBSET Nat /\ Len(fn.code[b]) \in T
  BY <1>1
<1>3. PICK x \in T : \A y \in T : x <= y
  <2> HIDE DEF T
  <2> QED BY <1>2, LeastNumber
<1>4. x \in i .. Len(fn.code[b]) /\ P(x)
  <2>1. x \in i .. Len(fn.code[b]) /\ fn.code[b][x].op \in ops /\ x \in Nat
    BY <1>1, <1>3
  <2>2. \A h \in i .. x - 1 : fn.code[b][h].op \notin ops
    BY <1>1, <1>3, <2>1
  <2> QED BY <2>1, <2>2
<1>5. E!NextAccess(b, i) = CHOOSE j \in i .. Len(fn.code[b]) : P(j)
  BY DEF E!NextAccess
<1> HIDE DEF P
<1>6. E!NextAccess(b, i) \in i .. Len(fn.code[b]) /\ P(E!NextAccess(b, i))
  BY <1>4, <1>5
<1> QED BY <1>6 DEF P

\* Past instructions that neither load nor store nothing changes.
LEMMA PassedOver ==
  ASSUME NEW q, NEW b, NEW i \in Nat \ {0}, NEW j \in Nat, i <= j,
         \A h \in i .. j - 1 : q.fn.code[b][h].op \notin {"load", "store"},
         NEW m, NEW r, NEW s,
         \A id \in DOMAIN r : id[2] \in Nat /\ q.fn.code[id[1]][id[2]].op = "load",
         LocalsAgree(q, b, i, m, s), LoadsAgree(q, b, i, r, s)
  PROVE  LocalsAgree(q, b, j, m, s) /\ LoadsAgree(q, b, j, r, s)
<1>1. \A v : StoresBefore(q, b, j, v) = StoresBefore(q, b, i, v)
  BY DEF StoresBefore
<1>2. \A v : /\ Reaches(q, b, j, v) <=> Reaches(q, b, i, v)
             /\ Reaching(q, b, j, v) = Reaching(q, b, i, v)
  <2>1. \A v : /\ IsSet(q, b, j, v) <=> IsSet(q, b, i, v)
               /\ SetTo(q, b, j, v) = SetTo(q, b, i, v)
    BY <1>1 DEF IsSet, SetTo
  <2> QED BY <2>1 DEF Reaches, Reaching
<1>3. LocalsAgree(q, b, j, m, s)
  BY <1>2 DEF LocalsAgree
<1>4. \A id \in DOMAIN r : id[1] = b /\ id[2] < j => id[2] < i
  <2> SUFFICES ASSUME NEW id \in DOMAIN r, id[1] = b, id[2] < j, ~(id[2] < i) PROVE FALSE
    OBVIOUS
  <2>1. id[2] \in i .. j - 1
    OBVIOUS
  <2> QED BY <2>1
<1>5. LoadsAgree(q, b, j, r, s)
  BY <1>4 DEF LoadsAgree
<1> QED BY <1>3, <1>5

\* What has been executed does not name the result of the instruction at hand.
LEMMA NotYet ==
  ASSUME NEW f, NEW val, NEW b, NEW i \in Nat, NEW j \in Nat, DefinedBefore(f, val, b, j), j <= i
  PROVE  val # M!Value("load", b, i) /\ val # M!Value("own", b, i)
<1>1. ASSUME NEW kind \in {"load", "own"}, val = M!Value(kind, b, i) PROVE FALSE
  <2>1. val.block = b /\ val.kind # "phi" /\ val.at = i
    BY <1>1 DEF M!Value
  <2> QED BY <2>1 DEF DefinedBefore
<1> QED BY <1>1

LEMMA RegisterWritten ==
  ASSUME PromotionAssumption, PassDone, MachineTyped,
         LocalsAgree(Program, block, pos, mem, ssa), LoadsAgree(Program, block, pos, reg, ssa),
         NEW kind \in {"load", "own"}, NEW e, NEW s,
         s = [ssa EXCEPT ![M!Value(kind, block, pos)] = e]
  PROVE  /\ LocalsAgree(Program, block, pos, mem, s) /\ LoadsAgree(Program, block, pos, reg, s)
         /\ DOMAIN s = DOMAIN ssa
         /\ M!Value(kind, block, pos) \in DOMAIN ssa => s[M!Value(kind, block, pos)] = e
<1>1. PICK x : x = M!Value(kind, block, pos)
  OBVIOUS
<1>2. s = [ssa EXCEPT ![x] = e]
  BY <1>1
<1>3. /\ WellFormed(fn) /\ FlowGraph(fn) /\ PassTyped /\ OperandsDefined
      /\ block \in fn.blocks /\ pos \in Nat \ {0} /\ pos <= Len(fn.code[block])
      /\ Len(fn.code[block]) \in Nat
  BY InstrFacts, ReachableFacts DEF PassDone, MachineTyped, RenameInv, NamesInv
<1>4. DOMAIN s = DOMAIN ssa /\ \A y \in DOMAIN ssa : y # x => s[y] = ssa[y]
  BY <1>2
<1>5. ASSUME NEW v \in Locals, Reaches(Program, block, pos, v)
      PROVE  Reaching(Program, block, pos, v) # x
  <2>1. PICK q : q = Program
    OBVIOUS
  <2>2. /\ q.fn = fn /\ FlowGraph(q.fn) /\ Locals \subseteq Nat
        /\ \A a \in q.fn.blocks : Len(q.fn.code[a]) \in Nat
        /\ EndOf(q, block) = Len(fn.code[block]) + 1
    BY <1>3, <2>1, ProgramFacts
  <2>3. StoresDefined(q, v)
    BY <1>3, <2>1, StoresAreDefined
  <2>4. Reaches(q, block, pos, v) /\ pos <= EndOf(q, block) /\ block \in q.fn.blocks /\ v \in Nat
    BY <1>3, <1>5, <2>1, <2>2
  <2>5. DefinedBefore(q.fn, Reaching(q, block, pos, v), block, pos)
    BY <1>3, <2>2, <2>3, <2>4, ReachingDefined
  <2>6. pos <= pos
    BY <1>3
  <2> QED BY <1>1, <1>3, <2>1, <2>5, <2>6, NotYet
<1>6. ASSUME NEW id \in DOMAIN reg, id[1] = block, id[2] < pos
      PROVE  operand[id] # x
  <2>1. id \in M!InstrsOf("load", Locals \cup Globals)
    BY DEF MachineTyped
  <2>2. id \in Accessed /\ id[2] \in Nat
    <3>1. <<id[1], id[2]>> \in M!InstrsOf("load", Locals \cup Globals)
      BY <1>3, <2>1, InstrFacts
    <3> QED BY <1>3, <2>1, <3>1, InstrFacts DEF Accessed
  <2>3. DefinedBefore(fn, operand[id], block, id[2] + 1)
    BY <1>3, <1>6, <2>2 DEF OperandsDefined
  <2>4. id[2] + 1 \in Nat /\ id[2] + 1 <= pos
    BY <1>3, <1>6, <2>2
  <2> QED BY <1>1, <1>3, <2>3, <2>4, NotYet
<1>7. Program.operand = operand
  BY DEF Program
<1>8. LocalsAgree(Program, block, pos, mem, s)
  BY <1>4, <1>5 DEF LocalsAgree
<1>9. LoadsAgree(Program, block, pos, reg, s)
  BY <1>4, <1>6, <1>7 DEF LoadsAgree
<1> QED BY <1>1, <1>2, <1>4, <1>8, <1>9

LEMMA RunNext ==
  ASSUME UNCHANGED <<fn, phis, operand, stage>>, stage = "promoted",
         block' \in Reachable(fn), pos' \in 1 .. Len(fn.code[block']),
         DOMAIN mem' = Locals \cup Globals, DOMAIN ssaMem' = Globals,
         DOMAIN reg' = M!InstrsOf("load", Locals \cup Globals), Registers \subseteq DOMAIN ssa',
         LocalsAgree(Program, block', pos', mem', ssa'),
         LoadsAgree(Program, block', pos', reg', ssa'), GlobalsAgree(mem', ssaMem')
  PROVE  RunInv'
<1>1. Program' = Program
  BY DEF Program
<1>2. /\ \A op, vars : M!InstrsOf(op, vars)' = M!InstrsOf(op, vars)
      /\ \A id : M!At(id)' = M!At(id)
  BY DEF M!InstrsOf, M!At
<1>3. Registers' = Registers
  BY <1>2 DEF Registers
<1>4. MachineTyped'
  BY <1>2, <1>3 DEF MachineTyped
<1>5. LocalsAgree(Program, block, pos, mem, ssa)'
  <2>1. LocalsAgree(Program', block', pos', mem', ssa')
    BY <1>1
  <2> QED BY <2>1
<1>6. LoadsAgree(Program, block, pos, reg, ssa)'
  <2>1. LoadsAgree(Program', block', pos', reg', ssa')
    BY <1>1
  <2> QED BY <2>1
<1>7. GlobalsAgree(mem, ssaMem)'
  <2>1. GlobalsAgree(mem', ssaMem')
    OBVIOUS
  <2> QED BY <2>1
<1> QED BY <1>4, <1>5, <1>6, <1>7 DEF RunInv

\* A run goes on to the next access at or behind the i-th instruction of b.
LEMMA RunGoesOn ==
  ASSUME PassDone, NEW b \in Reachable(fn), NEW i \in 1 .. Len(fn.code[b]),
         NEW m, NEW r, NEW s, DOMAIN r = M!InstrsOf("load", Locals \cup Globals),
         LocalsAgree(Program, b, i, m, s), LoadsAgree(Program, b, i, r, s)
  PROVE  /\ E!NextAccess(b, i) \in 1 .. Len(fn.code[b])
         /\ LocalsAgree(Program, b, E!NextAccess(b, i), m, s)
         /\ LoadsAgree(Program, b, E!NextAccess(b, i), r, s)
<1>1. /\ WellFormed(fn) /\ Open(fn) = {} /\ b \in fn.blocks
      /\ Len(fn.code[b]) \in Nat /\ i \in Nat \ {0}
  BY InstrFacts, ReachableFacts DEF PassDone
<1>2. PICK j : j = E!NextAccess(b, i)
  OBVIOUS
<1>3. j \in i .. Len(fn.code[b]) /\ \A h \in i .. j - 1 : fn.code[b][h].op \notin {"load", "store"}
  BY <1>1, <1>2, NextAccessFacts
<1>4. j \in Nat /\ i <= j /\ j \in 1 .. Len(fn.code[b])
  BY <1>1, <1>3
<1>5. PICK q : q = Program
  OBVIOUS
<1>6. q.fn = fn
  BY <1>5 DEF Program
<1>7. \A id \in DOMAIN r : id[2] \in Nat /\ q.fn.code[id[1]][id[2]].op = "load"
  <2> SUFFICES ASSUME NEW id \in M!InstrsOf("load", Locals \cup Globals)
               PROVE  id[2] \in Nat /\ fn.code[id[1]][id[2]].op = "load"
    BY <1>6
  <2>1. <<id[1], id[2]>> \in M!InstrsOf("load", Locals \cup Globals)
    BY <1>1, InstrFacts
  <2> QED BY <1>1, <2>1, InstrFacts
<1>8. LocalsAgree(q, b, j, m, s) /\ LoadsAgree(q, b, j, r, s)
  <2>1. \A h \in i .. j - 1 : q.fn.code[b][h].op \notin {"load", "store"}
    BY <1>3, <1>6
  <2>2. LocalsAgree(q, b, i, m, s) /\ LoadsAgree(q, b, i, r, s)
    BY <1>5
  <2> QED BY <1>1, <1>4, <1>7, <2>1, <2>2, PassedOver
<1> QED BY <1>2, <1>4, <1>5, <1>8

LEMMA CallAgrees ==
  ASSUME PassDone, E!Call, UNCHANGED E!program
  PROVE  RunInv'
<1>1. /\ UNCHANGED <<fn, phis, operand, stage>> /\ stage = "promoted"
      /\ block' = Entry /\ pos' = E!NextAccess(Entry, 1)
      /\ mem' = [v \in Locals \cup Globals |-> E!Undef] /\ ssaMem' = [v \in Globals |-> E!Undef]
      /\ reg' = [id \in M!InstrsOf("load", Locals \cup Globals) |-> E!Undef]
  BY SameNames DEF E!Call, E!program
<1>2. /\ WellFormed(fn) /\ FlowGraph(fn) /\ Open(fn) = {} /\ DOMAIN operand = Accessed
      /\ CodeCopies(fn) /\ Entry \in Reachable(fn) /\ Entry \in fn.blocks
  BY ReachableFacts DEF PassDone, RenameInv, PassTyped, NamesInv
<1>3. 1 \in 1 .. Len(fn.code[Entry])
  BY <1>2, BlockEnds
<1>4. /\ LocalsAgree(Program, Entry, 1, mem', ssa') /\ LoadsAgree(Program, Entry, 1, reg', ssa')
      /\ GlobalsAgree(mem', ssaMem')
  BY <1>1 DEF LocalsAgree, LoadsAgree, GlobalsAgree
<1>5. DOMAIN reg' = M!InstrsOf("load", Locals \cup Globals)
  BY <1>1
<1>6. /\ pos' \in 1 .. Len(fn.code[Entry])
      /\ LocalsAgree(Program, Entry, pos', mem', ssa') /\ LoadsAgree(Program, Entry, pos', reg', ssa')
  BY <1>1, <1>2, <1>3, <1>4, <1>5, RunGoesOn
<1>7. Registers \subseteq DOMAIN ssa'
  <2> DEFINE loads == M!InstrsOf("load", Locals \cup Globals)
             owns == {id \in DOMAIN operand : M!InitialOperand(id).kind = "own"}
  <2>1. DOMAIN ssa' = {M!InitialOperand(id) : id \in owns \cup loads}
                        \cup {M!PhiValue(phi) : phi \in phis}
    BY SameNames DEF E!Call
  <2>2. ASSUME NEW id \in M!InstrsOf("store", Locals \cup Globals), M!At(id).src = 0
        PROVE  id \in owns /\ M!InitialOperand(id) = M!Value("own", id[1], id[2])
    <3>1. M!At(id).op = "store" /\ id \in DOMAIN operand
      BY <1>2 DEF M!InstrsOf, Accessed
    <3>2. M!InitialOperand(id) = M!Value("own", id[1], id[2])
      BY <2>2, <3>1 DEF M!InitialOperand
    <3>3. M!InitialOperand(id).kind = "own"
      BY <3>2 DEF M!Value
    <3> QED BY <3>1, <3>2, <3>3
  <2>3. \A id \in loads : M!InitialOperand(id) = OwnLoad(id)
    BY <1>2, LoadNamesItself
  <2> HIDE DEF loads, owns
  <2>4. ASSUME NEW x \in Registers PROVE x \in DOMAIN ssa'
    <3>1. CASE \E id \in M!InstrsOf("store", Locals \cup Globals) :
                 M!At(id).src = 0 /\ x = M!Value("own", id[1], id[2])
      BY <2>1, <2>2, <3>1
    <3>2. CASE \E id \in M!InstrsOf("load", Locals \cup Globals) : x = OwnLoad(id)
      <4>1. PICK id \in loads : x = OwnLoad(id)
        BY <3>2 DEF loads
      <4> QED BY <2>1, <2>3, <4>1
    <3>3. CASE x \in {M!PhiValue(phi) : phi \in phis}
      BY <2>1, <3>3
    <3> QED BY <3>1, <3>2, <3>3 DEF Registers
  <2> QED BY <2>4
<1>8. DOMAIN mem' = Locals \cup Globals /\ DOMAIN ssaMem' = Globals
  BY <1>1
<1> QED BY <1>1, <1>2, <1>4, <1>5, <1>6, <1>7, <1>8, RunNext

\* The facts a step of a run starts from.
LEMMA RunFacts ==
  ASSUME PassDone, RunInv, E!Running
  PROVE  /\ WellFormed(fn) /\ FlowGraph(fn) /\ Open(fn) = {} /\ PassTyped
         /\ stage = "promoted" /\ MachineTyped
         /\ LocalsAgree(Program, block, pos, mem, ssa)
         /\ LoadsAgree(Program, block, pos, reg, ssa) /\ GlobalsAgree(mem, ssaMem)
         /\ block \in fn.blocks /\ block \in Reachable(fn)
         /\ pos \in Nat \ {0} /\ pos \in 1 .. Len(fn.code[block])
         /\ Len(fn.code[block]) \in Nat
         /\ E!Instruction = fn.code[block][pos]
         /\ \A op, vars : <<block, pos>> \in M!InstrsOf(op, vars) <=>
              fn.code[block][pos].op = op /\ fn.code[block][pos].var \in vars
         /\ \A op, vars : \A id \in M!InstrsOf(op, vars) :
              /\ id = <<id[1], id[2]>> /\ id[2] \in Nat \ {0}
              /\ fn.code[id[1]][id[2]].op = op
<1>1. /\ WellFormed(fn) /\ FlowGraph(fn) /\ Open(fn) = {} /\ PassTyped
      /\ stage = "promoted" /\ MachineTyped
      /\ LocalsAgree(Program, block, pos, mem, ssa)
      /\ LoadsAgree(Program, block, pos, reg, ssa) /\ GlobalsAgree(mem, ssaMem)
  BY DEF PassDone, RenameInv, RunInv, E!Running
<1>2. /\ block \in fn.blocks /\ block \in Reachable(fn) /\ pos \in 1 .. Len(fn.code[block])
  BY <1>1, ReachableFacts DEF MachineTyped
<1>3. Len(fn.code[block]) \in Nat /\ pos \in Nat \ {0} /\ DOMAIN fn.code[block] = 1 .. Len(fn.code[block])
  BY <1>1, <1>2, InstrFacts
<1>4. E!Instruction = fn.code[block][pos]
  BY DEF E!Instruction
<1>5. \A op, vars : <<block, pos>> \in M!InstrsOf(op, vars) <=>
              fn.code[block][pos].op = op /\ fn.code[block][pos].var \in vars
  BY <1>1, <1>2, <1>3, InstrFacts
<1>6. ASSUME NEW op, NEW vars, NEW id \in M!InstrsOf(op, vars)
      PROVE  /\ id = <<id[1], id[2]>> /\ id[2] \in Nat \ {0}
             /\ fn.code[id[1]][id[2]].op = op
  <2>1. id = <<id[1], id[2]>> /\ <<id[1], id[2]>> \in M!InstrsOf(op, vars)
    BY <1>1, <1>6, InstrFacts
  <2> QED BY <1>1, <2>1, InstrFacts
<1> QED BY <1>1, <1>2, <1>3, <1>4, <1>5, <1>6

LEMMA LoadAgrees ==
  ASSUME PromotionAssumption, PassDone, RunInv, E!ExecuteLoad, UNCHANGED E!program
  PROVE  RunInv'
<1> DEFINE v0 == fn.code[block][pos].var
           here == <<block, pos>>
           own == M!Value("load", block, pos)
           loads == M!InstrsOf("load", Locals \cup Globals)
<1>1. E!Running
  BY DEF E!ExecuteLoad
<1>2. /\ WellFormed(fn) /\ FlowGraph(fn) /\ Open(fn) = {} /\ PassTyped
      /\ stage = "promoted" /\ MachineTyped
      /\ LocalsAgree(Program, block, pos, mem, ssa)
      /\ LoadsAgree(Program, block, pos, reg, ssa) /\ GlobalsAgree(mem, ssaMem)
      /\ block \in fn.blocks /\ block \in Reachable(fn)
      /\ pos \in Nat \ {0} /\ pos \in 1 .. Len(fn.code[block])
      /\ Len(fn.code[block]) \in Nat
      /\ E!Instruction = fn.code[block][pos]
  BY <1>1, RunFacts
<1>3. /\ \A op, vars : <<block, pos>> \in M!InstrsOf(op, vars) <=>
           fn.code[block][pos].op = op /\ fn.code[block][pos].var \in vars
      /\ \A op, vars : \A id \in M!InstrsOf(op, vars) :
           /\ id = <<id[1], id[2]>> /\ id[2] \in Nat \ {0}
           /\ fn.code[id[1]][id[2]].op = op
  BY <1>1, RunFacts
<1>4. /\ fn.code[block][pos].op = "load" /\ UNCHANGED <<fn, phis, operand, stage, block, mem, ssaMem>>
      /\ reg' = [reg EXCEPT ![here] = mem[v0]]
      /\ ssa' = IF v0 \in Globals THEN [ssa EXCEPT ![own] = ssaMem[v0]] ELSE ssa
      /\ pos' = E!NextAccess(block, pos + 1)
  BY <1>2, SameNames DEF E!ExecuteLoad, E!program, E!Id
<1>5. pos + 1 \in 1 .. Len(fn.code[block])
  BY <1>2, <1>4, BlockEnds
<1>6. /\ DOMAIN mem' = Locals \cup Globals /\ DOMAIN ssaMem' = Globals
      /\ DOMAIN reg' = loads /\ DOMAIN reg = loads /\ Registers \subseteq DOMAIN ssa
  BY <1>2, <1>4 DEF MachineTyped
<1>7. /\ LocalsAgree(Program, block, pos, mem, ssa') /\ LoadsAgree(Program, block, pos, reg, ssa')
      /\ DOMAIN ssa' = DOMAIN ssa
      /\ v0 \in Globals /\ own \in DOMAIN ssa => ssa'[own] = ssaMem[v0]
  <2>1. CASE v0 \in Globals
    <3>1. PICK s : s = [ssa EXCEPT ![M!Value("load", block, pos)] = ssaMem[v0]]
      OBVIOUS
    <3>2. s = ssa'
      BY <1>4, <2>1, <3>1
    <3>3. /\ LocalsAgree(Program, block, pos, mem, s) /\ LoadsAgree(Program, block, pos, reg, s)
          /\ DOMAIN s = DOMAIN ssa
          /\ M!Value("load", block, pos) \in DOMAIN ssa => s[M!Value("load", block, pos)] = ssaMem[v0]
      BY <1>2, <3>1, RegisterWritten
    <3> QED BY <3>2, <3>3
  <2>2. CASE v0 \notin Globals
    BY <1>2, <1>4, <2>2
  <2> QED BY <2>1, <2>2
<1>8. LocalsAgree(Program, block, pos + 1, mem', ssa')
  <2>1. PICK q : q = Program
    OBVIOUS
  <2>2. q.fn = fn
    BY <2>1 DEF Program
  <2>3. \A v : /\ Reaches(q, block, pos + 1, v) <=> Reaches(q, block, pos, v)
               /\ Reaching(q, block, pos + 1, v) = Reaching(q, block, pos, v)
    <3>1. \A v : ~(q.fn.code[block][pos].op = "store" /\ q.fn.code[block][pos].var = v)
      BY <1>4, <2>2
    <3> QED BY <1>2, <3>1, ReachingPast
  <2> QED BY <1>4, <1>7, <2>1, <2>3 DEF LocalsAgree
<1>9. ASSUME here \in loads, mem[v0] # E!Undef
      PROVE  operand[here] \in DOMAIN ssa' /\ ssa'[operand[here]] = mem[v0]
  <2>1. v0 \in Locals \cup Globals
    BY <1>3, <1>9
  <2>2. CASE v0 \in Globals
    <3>1. here \in M!InstrsOf("load", Globals)
      BY <1>3, <1>4, <2>2
    <3>2. LoadsNamed
      BY DEF PassDone, NamesInv
    <3>3. operand[here] = OwnLoad(here)
      BY <3>1, <3>2 DEF LoadsNamed
    <3>4. OwnLoad(here) = own
      BY DEF OwnLoad
    <3>5. own \in DOMAIN ssa
      <4>1. OwnLoad(here) \in Registers
        BY <1>9 DEF Registers
      <4> QED BY <1>6, <3>4, <4>1
    <3>6. ssaMem[v0] = mem[v0]
      BY <1>2, <1>9, <2>2 DEF GlobalsAgree
    <3> QED BY <1>7, <2>2, <3>3, <3>4, <3>5, <3>6
  <2>3. CASE v0 \in Locals
    <3>1. v0 \notin Globals
      BY <2>3 DEF PromotionAssumption
    <3>2. /\ Reaches(Program, block, pos, v0) /\ Reaching(Program, block, pos, v0) \in DOMAIN ssa
          /\ ssa[Reaching(Program, block, pos, v0)] = mem[v0]
      BY <1>2, <1>9, <2>3 DEF LocalsAgree
    <3>3. operand[here] = Reaching(Program, block, pos, v0)
      <4>1. LoadsNamed /\ calls = <<>>
        BY DEF PassDone, NamesInv
      <4>2. <<block, pos>> \in M!InstrsOf("load", Locals)
        BY <1>3, <1>4, <2>3
      <4> QED BY <1>2, <3>2, <4>1, <4>2, PromotedLoad
    <3> QED BY <1>4, <3>1, <3>2, <3>3
  <2> QED BY <2>1, <2>2, <2>3
<1>10. LoadsAgree(Program, block, pos + 1, reg', ssa')
  <2>1. Program.operand = operand
    BY DEF Program
  <2> SUFFICES ASSUME NEW id \in loads, id[1] = block, id[2] < pos + 1, reg'[id] # E!Undef
               PROVE  operand[id] \in DOMAIN ssa' /\ ssa'[operand[id]] = reg'[id]
    BY <1>6, <2>1 DEF LoadsAgree
  <2>2. id = <<id[1], id[2]>> /\ id[2] \in Nat
    BY <1>3
  <2>3. CASE id = here
    <3>1. reg'[here] = mem[v0]
      BY <1>4, <1>6, <2>3
    <3> QED BY <1>9, <2>3, <3>1
  <2>4. CASE id # here
    <3>1. id[2] < pos /\ reg'[id] = reg[id]
      BY <1>2, <1>4, <1>6, <2>2, <2>4
    <3> QED BY <1>6, <1>7, <2>1, <3>1 DEF LoadsAgree
  <2> QED BY <2>3, <2>4
<1>11. GlobalsAgree(mem', ssaMem')
  BY <1>2, <1>4
<1> HIDE DEF loads, own, here, v0
<1>12. /\ pos' \in 1 .. Len(fn.code[block])
       /\ LocalsAgree(Program, block, pos', mem', ssa') /\ LoadsAgree(Program, block, pos', reg', ssa')
  BY <1>2, <1>4, <1>5, <1>6, <1>8, <1>10, RunGoesOn DEF loads
<1> QED BY <1>2, <1>4, <1>6, <1>7, <1>11, <1>12, RunNext DEF loads

LEMMA StoreAgrees ==
  ASSUME PromotionAssumption, PassDone, RunInv, E!ExecuteStore, UNCHANGED E!program
  PROVE  RunInv'
<1> DEFINE v0 == fn.code[block][pos].var
           src == fn.code[block][pos].src
           here == <<block, pos>>
           own == M!Value("own", block, pos)
           copied == <<block, pos - src>>
           loads == M!InstrsOf("load", Locals \cup Globals)
           fresh == [kind |-> "own", block |-> block, at |-> pos, var |-> 0, tick |-> tick]
           val == IF src = 0 THEN fresh ELSE reg[copied]
<1>1. E!Running
  BY DEF E!ExecuteStore
<1>2. /\ WellFormed(fn) /\ FlowGraph(fn) /\ Open(fn) = {} /\ PassTyped
      /\ stage = "promoted" /\ MachineTyped
      /\ LocalsAgree(Program, block, pos, mem, ssa)
      /\ LoadsAgree(Program, block, pos, reg, ssa) /\ GlobalsAgree(mem, ssaMem)
      /\ block \in fn.blocks /\ block \in Reachable(fn)
      /\ pos \in Nat \ {0} /\ pos \in 1 .. Len(fn.code[block])
      /\ Len(fn.code[block]) \in Nat
      /\ E!Instruction = fn.code[block][pos]
  BY <1>1, RunFacts
<1>3. /\ \A op, vars : <<block, pos>> \in M!InstrsOf(op, vars) <=>
           fn.code[block][pos].op = op /\ fn.code[block][pos].var \in vars
      /\ \A op, vars : \A id \in M!InstrsOf(op, vars) :
           /\ id = <<id[1], id[2]>> /\ id[2] \in Nat \ {0}
           /\ fn.code[id[1]][id[2]].op = op
  BY <1>1, RunFacts
<1>4. /\ fn.code[block][pos].op = "store" /\ UNCHANGED <<fn, phis, operand, stage, block, reg>>
      /\ ssa' = IF src = 0 THEN [ssa EXCEPT ![own] = fresh] ELSE ssa
      /\ mem' = [mem EXCEPT ![v0] = val]
      /\ ssaMem' = IF v0 \in Globals THEN [ssaMem EXCEPT ![v0] = ssa'[operand[here]]] ELSE ssaMem
      /\ pos' = E!NextAccess(block, pos + 1)
  BY <1>2, SameNames DEF E!ExecuteStore, E!program, E!Id
<1>5. pos + 1 \in 1 .. Len(fn.code[block])
  BY <1>2, <1>4, BlockEnds
<1>6. /\ DOMAIN mem = Locals \cup Globals /\ DOMAIN ssaMem = Globals
      /\ DOMAIN mem' = Locals \cup Globals /\ DOMAIN ssaMem' = Globals
      /\ DOMAIN reg' = loads /\ DOMAIN reg = loads /\ Registers \subseteq DOMAIN ssa
  BY <1>2, <1>4 DEF MachineTyped
<1>7. /\ LocalsAgree(Program, block, pos, mem, ssa') /\ LoadsAgree(Program, block, pos, reg, ssa')
      /\ DOMAIN ssa' = DOMAIN ssa
      /\ src = 0 /\ own \in DOMAIN ssa => ssa'[own] = fresh
  <2>1. CASE src = 0
    <3>1. PICK s : s = [ssa EXCEPT ![M!Value("own", block, pos)] = fresh]
      OBVIOUS
    <3>2. s = ssa'
      BY <1>4, <2>1, <3>1
    <3>3. /\ LocalsAgree(Program, block, pos, mem, s) /\ LoadsAgree(Program, block, pos, reg, s)
          /\ DOMAIN s = DOMAIN ssa
          /\ M!Value("own", block, pos) \in DOMAIN ssa => s[M!Value("own", block, pos)] = fresh
      BY <1>2, <3>1, RegisterWritten
    <3> QED BY <3>2, <3>3
  <2>2. CASE src # 0
    BY <1>2, <1>4, <2>2
  <2> QED BY <2>1, <2>2
<1>8. ASSUME v0 \in Locals \cup Globals, val # E!Undef
      PROVE  operand[here] \in DOMAIN ssa' /\ ssa'[operand[here]] = val
  <2>1. here \in M!InstrsOf("store", Locals \cup Globals)
    BY <1>3, <1>4, <1>8
  <2>2. M!At(here) = fn.code[block][pos] /\ here[1] = block /\ here[2] = pos
    BY DEF M!At
  <2>3. StoresNamed /\ CodeCopies(fn)
    BY DEF PassDone, NamesInv
  <2>4. operand[here] = IF src = 0 THEN own ELSE operand[copied]
    BY <2>1, <2>2, <2>3 DEF StoresNamed
  <2>5. CASE src = 0
    <3>1. own \in Registers
      BY <2>1, <2>2, <2>5 DEF Registers
    <3> QED BY <1>6, <1>7, <2>4, <2>5, <3>1
  <2>6. CASE src # 0
    <3>1. copied \in loads /\ pos - src < pos /\ src \in Nat
      BY <1>2, <2>1, <2>2, <2>3, <2>6, CopiedLoad
    <3>2. copied[1] = block /\ copied[2] = pos - src
      OBVIOUS
    <3>3. reg[copied] # E!Undef /\ val = reg[copied]
      BY <1>8, <2>6
    <3>4. Program.operand = operand
      BY DEF Program
    <3> HIDE DEF copied, loads
    <3>5. operand[copied] \in DOMAIN ssa' /\ ssa'[operand[copied]] = reg[copied]
      BY <1>6, <1>7, <3>1, <3>2, <3>3, <3>4 DEF LoadsAgree
    <3> QED BY <2>4, <2>6, <3>3, <3>5
  <2> QED BY <2>5, <2>6
<1> HIDE DEF val
<1>9. LocalsAgree(Program, block, pos + 1, mem', ssa')
  <2>1. PICK q : q = Program
    OBVIOUS
  <2>2. q.fn = fn /\ q.operand = operand
    BY <2>1 DEF Program
  <2> SUFFICES ASSUME NEW v \in Locals, mem'[v] # E!Undef
               PROVE  /\ Reaches(q, block, pos + 1, v)
                      /\ Reaching(q, block, pos + 1, v) \in DOMAIN ssa'
                      /\ ssa'[Reaching(q, block, pos + 1, v)] = mem'[v]
    BY <2>1 DEF LocalsAgree
  <2>3. CASE v = v0
    <3>1. mem'[v] = val
      BY <1>4, <1>6, <2>3
    <3>2. q.fn.code[block][pos].op = "store" /\ q.fn.code[block][pos].var = v
      BY <1>4, <2>2, <2>3
    <3>3. Reaches(q, block, pos + 1, v) /\ Reaching(q, block, pos + 1, v) = q.operand[<<block, pos>>]
      BY <1>2, <3>2, ReachingNow
    <3> QED BY <1>8, <2>2, <2>3, <3>1, <3>3
  <2>4. CASE v # v0
    <3>1. mem'[v] = mem[v]
      BY <1>4, <1>6, <2>4
    <3>2. ~(q.fn.code[block][pos].op = "store" /\ q.fn.code[block][pos].var = v)
      BY <2>2, <2>4
    <3>3. /\ Reaches(q, block, pos + 1, v) <=> Reaches(q, block, pos, v)
          /\ Reaching(q, block, pos + 1, v) = Reaching(q, block, pos, v)
      BY <1>2, <3>2, ReachingPast
    <3>4. /\ Reaches(q, block, pos, v) /\ Reaching(q, block, pos, v) \in DOMAIN ssa'
          /\ ssa'[Reaching(q, block, pos, v)] = mem[v]
      BY <1>7, <2>1, <3>1 DEF LocalsAgree
    <3> QED BY <3>1, <3>3, <3>4
  <2> QED BY <2>3, <2>4
<1>10. LoadsAgree(Program, block, pos + 1, reg', ssa')
  <2>1. ASSUME NEW id \in loads, id[1] = block, id[2] < pos + 1 PROVE id[2] < pos
    <3>1. id[2] \in Nat /\ fn.code[id[1]][id[2]].op = "load"
      BY <1>3
    <3> QED BY <1>2, <1>4, <2>1, <3>1
  <2> QED BY <1>4, <1>6, <1>7, <2>1 DEF LoadsAgree
<1>11. GlobalsAgree(mem', ssaMem')
  <2> SUFFICES ASSUME NEW v \in Globals, mem'[v] # E!Undef PROVE ssaMem'[v] = mem'[v]
    BY DEF GlobalsAgree
  <2>1. CASE v = v0
    <3>1. mem'[v] = val /\ ssaMem'[v] = ssa'[operand[here]]
      BY <1>4, <1>6, <2>1
    <3> QED BY <1>8, <2>1, <3>1
  <2>2. CASE v # v0
    <3>1. mem'[v] = mem[v] /\ ssaMem'[v] = ssaMem[v]
      BY <1>4, <1>6, <2>2
    <3> QED BY <1>2, <3>1 DEF GlobalsAgree
  <2> QED BY <2>1, <2>2
<1> HIDE DEF loads, own, here, v0, src, copied, fresh
<1>12. /\ pos' \in 1 .. Len(fn.code[block])
       /\ LocalsAgree(Program, block, pos', mem', ssa') /\ LoadsAgree(Program, block, pos', reg', ssa')
  BY <1>2, <1>4, <1>5, <1>6, <1>9, <1>10, RunGoesOn DEF loads
<1> QED BY <1>2, <1>4, <1>6, <1>7, <1>11, <1>12, RunNext DEF loads

\* A block leaves a value of v behind if it stores to v or has a phi for it.
LEMMA LeavesSets ==
  ASSUME WellFormed(fn), FlowGraph(fn), PassTyped, NEW a \in fn.blocks, NEW v
  PROVE  Leaves(Program, a, v) <=> Sets(a, v)
<1>1. Len(fn.code[a]) \in Nat /\ DOMAIN fn.code[a] = 1 .. Len(fn.code[a])
  BY InstrFacts
<1>2. Program.fn = fn /\ Program.phis = phis
  BY DEF Program
<1>3. StoresBefore(Program, a, EndOf(Program, a), v) =
        {j \in 1 .. Len(fn.code[a]) : fn.code[a][j].op = "store" /\ fn.code[a][j].var = v}
  BY <1>1, <1>2 DEF StoresBefore, EndOf
<1>4. a \in M!StoreBlocks(v) <=>
        \E j \in 1 .. Len(fn.code[a]) : fn.code[a][j].op = "store" /\ fn.code[a][j].var = v
  <2>1. ASSUME NEW j \in 1 .. Len(fn.code[a]), fn.code[a][j].op = "store", fn.code[a][j].var = v
        PROVE  a \in M!StoreBlocks(v)
    <3>1. <<a, j>> \in M!InstrsOf("store", {v})
      BY <1>1, <2>1, InstrFacts
    <3> QED BY <3>1 DEF M!StoreBlocks
  <2>2. ASSUME a \in M!StoreBlocks(v)
        PROVE  \E j \in 1 .. Len(fn.code[a]) : fn.code[a][j].op = "store" /\ fn.code[a][j].var = v
    <3>1. PICK id \in M!InstrsOf("store", {v}) : id[1] = a
      BY <2>2 DEF M!StoreBlocks
    <3>2. <<a, id[2]>> \in M!InstrsOf("store", {v})
      BY <3>1, InstrFacts
    <3> QED BY <1>1, <3>2, InstrFacts
  <2> QED BY <2>1, <2>2
<1> QED BY <1>2, <1>3, <1>4 DEF Leaves, IsSet, Sets

LEMMA ReachesFromSetter ==
  ASSUME WellFormed(fn), FlowGraph(fn), PassTyped, NEW b \in Reachable(fn), NEW v,
         Reaches(Program, b, EndOf(Program, b), v)
  PROVE  \E a \in fn.blocks : Sets(a, v) /\ Dominates(fn, a, b)
<1>1. b \in fn.blocks /\ Dominates(fn, b, b)
  BY ReachableFacts, DominatesItself
<1>2. CASE IsSet(Program, b, EndOf(Program, b), v)
  BY <1>1, <1>2, LeavesSets DEF Leaves
<1>3. CASE Setters(Program, b, v) # {}
  <2>1. PICK a \in fn.blocks : Dominates(fn, a, b) /\ Leaves(Program, a, v)
    BY <1>3 DEF Setters, Program
  <2> QED BY <2>1, LeavesSets
<1> QED BY <1>2, <1>3 DEF Reaches

\* Where a phi stands it is what reaches its block, and it has been given what reaches
\* the end of the predecessor; elsewhere a value goes through unchanged, for it is
\* none of the phis of the block.
LEMMA PhiReached ==
  ASSUME PassDone, PromotionAssumption, NEW p \in Reachable(fn), NEW b \in Range(fn.succ[p]),
         NEW v \in Locals, Reaches(Program, p, EndOf(Program, p), v), <<b, v>> \in phis
  PROVE  /\ Reaches(Program, b, 1, v) /\ Reaching(Program, b, 1, v) = M!PhiValue(<<b, v>>)
         /\ E!PhiOperand(<<b, v>>, p) = ssa[Reaching(Program, p, EndOf(Program, p), v)]
<1>1. WellFormed(fn) /\ FlowGraph(fn) /\ RenameInv /\ PassTyped /\ calls = <<>> /\ PairsNamed
  BY DEF PassDone, RenameInv, NamesInv
<1>2. StoresBefore(Program, b, 1, v) = {}
  BY StoresPast
<1>3. IsSet(Program, b, 1, v)
  BY DEF IsSet, Program
<1>4. Reaches(Program, b, 1, v) /\ Reaching(Program, b, 1, v) = M!PhiValue(<<b, v>>)
  BY <1>2, <1>3 DEF Reaches, Reaching, SetTo
<1>5. PICK phi \in phis : phi = <<b, v>>
  OBVIOUS
<1>6. phi[1] = b /\ phi[2] = v
  BY <1>5
<1>7. PICK a \in fn.blocks : Sets(a, v) /\ Dominates(fn, a, p)
  BY <1>1, ReachesFromSetter
<1>8. \E x \in pairs : x.at = phi /\ x.from = p
  BY <1>1, <1>6, <1>7, PairFor
<1> DEFINE given == {x \in pairs : x.at = phi /\ x.from = p}
<1>9. given # {}
  BY <1>8
<1>10. (CHOOSE x \in given : TRUE) \in given
  BY <1>9
<1>11. PICK x : x \in pairs /\ x.at = phi /\ x.from = p /\ x = CHOOSE y \in given : TRUE
  BY <1>10
<1>12. x.val = Reaching(Program, p, EndOf(Program, p), v)
  BY <1>1, <1>6, <1>11 DEF PairsNamed
<1>13. E!PhiOperand(phi, p) = ssa[(CHOOSE y \in given : TRUE).val]
  BY <1>9 DEF E!PhiOperand
<1> HIDE DEF given
<1> QED BY <1>4, <1>5, <1>11, <1>12, <1>13

LEMMA ValueGoesThrough ==
  ASSUME PassDone, PromotionAssumption, NEW p \in Reachable(fn), NEW b \in Range(fn.succ[p]),
         NEW v \in Locals, Reaches(Program, p, EndOf(Program, p), v), <<b, v>> \notin phis
  PROVE  /\ Reaches(Program, b, 1, v)
         /\ Reaching(Program, b, 1, v) = Reaching(Program, p, EndOf(Program, p), v)
         /\ Reaching(Program, b, 1, v).block # b
<1>1. /\ WellFormed(fn) /\ FlowGraph(fn) /\ PassTyped /\ OperandsDefined /\ PhisClosed
      /\ FrontierFull(fn, dom_frontier)
  BY DEF PassDone, RenameInv, NamesInv
<1>2. PICK q : q = Program
  OBVIOUS
<1>3. /\ q.fn = fn /\ q.phis = phis /\ FlowGraph(q.fn) /\ Locals \subseteq Nat
      /\ \A a \in q.fn.blocks : Len(q.fn.code[a]) \in Nat
  BY <1>1, <1>2, ProgramFacts
<1>4. StoresDefined(q, v)
  BY <1>1, <1>2, StoresAreDefined
<1>5. StoresBefore(q, b, 1, v) = {} /\ ~IsSet(q, b, 1, v)
  BY <1>3, StoresPast DEF IsSet
<1>6. ASSUME NEW c, Leaves(q, c, v), Dominates(q.fn, c, p)
      PROVE  c # b /\ Dominates(q.fn, c, b)
  <2>1. c \in fn.blocks /\ c \in Reachable(fn)
    BY <1>1, <1>3, <1>6, DominatorReachable DEF Dominates
  <2>2. Sets(c, v)
    BY <1>1, <1>2, <1>6, <2>1, LeavesSets
  <2>3. b \notin dom_frontier[c]
    BY <1>1, <2>1, <2>2 DEF PhisClosed
  <2> QED BY <1>1, <1>3, <1>6, <2>1, <2>3 DEF FrontierFull
<1>7. /\ Setters(q, b, v) # {} <=> Reaches(q, p, EndOf(q, p), v)
      /\ Setters(q, b, v) # {} => Inherited(q, b, v) = Reaching(q, p, EndOf(q, p), v)
  BY <1>3, <1>6, InheritedAlongEdge
<1>8. Setters(q, b, v) # {} /\ Inherited(q, b, v) = Reaching(q, p, EndOf(q, p), v)
  BY <1>2, <1>7
<1>9. Inherited(q, b, v).block # b
  <2>1. v \in Nat
    BY <1>3
  <2> QED BY <1>3, <1>4, <1>8, <2>1, InheritedDefined
<1> QED BY <1>2, <1>5, <1>8, <1>9 DEF Reaches, Reaching

\* A block that ends in a branch at the i-th instruction has its targets as successors.
LEMMA BranchEnds ==
  ASSUME WellFormed(fn), NEW b \in fn.blocks, NEW i \in 1 .. Len(fn.code[b]),
         fn.code[b][i].op = "br"
  PROVE  i = Len(fn.code[b]) /\ Range(fn.code[b][i].to) = Range(fn.succ[b])
<1>1. IsTerminator(fn.code[b][i])
  BY DEF IsTerminator
<1>2. i = Len(fn.code[b])
  BY <1>1 DEF WellFormed, OneTerminator
<1>3. HasTerminator(fn, b)
  BY <1>1, <1>2 DEF HasTerminator
<1> QED BY <1>2, <1>3 DEF WellFormed, EdgesAgree, TargetsOf

LEMMA BranchAgrees ==
  ASSUME PromotionAssumption, PassDone, RunInv, E!ExecuteBranch, UNCHANGED E!program
  PROVE  RunInv'
<1>1. E!Running
  BY DEF E!ExecuteBranch
<1>2. /\ WellFormed(fn) /\ FlowGraph(fn) /\ Open(fn) = {} /\ PassTyped
      /\ stage = "promoted" /\ MachineTyped
      /\ LocalsAgree(Program, block, pos, mem, ssa) /\ GlobalsAgree(mem, ssaMem)
      /\ block \in fn.blocks /\ block \in Reachable(fn)
      /\ pos \in Nat \ {0} /\ pos \in 1 .. Len(fn.code[block])
      /\ Len(fn.code[block]) \in Nat
      /\ E!Instruction = fn.code[block][pos]
  BY <1>1, RunFacts
<1>3. PICK target \in Range(fn.code[block][pos].to) :
        /\ block' = target
        /\ ssa' = [x \in DOMAIN ssa |->
                     IF x.kind = "phi" /\ x.block = target
                     THEN E!PhiOperand(<<target, x.var>>, block) ELSE ssa[x]]
        /\ pos' = E!NextAccess(target, 1)
  BY <1>2, SameNames DEF E!ExecuteBranch
<1>4. /\ fn.code[block][pos].op = "br" /\ UNCHANGED <<fn, phis, operand, stage, mem, reg, ssaMem>>
  BY <1>2 DEF E!ExecuteBranch, E!program
<1>5. pos = Len(fn.code[block]) /\ target \in Range(fn.succ[block])
  BY <1>2, <1>3, <1>4, BranchEnds
<1>6. target \in Reachable(fn) /\ target \in fn.blocks
  BY <1>2, <1>5, ReachableFacts
<1>7. 1 \in 1 .. Len(fn.code[target])
  BY <1>2, <1>6, BlockEnds
<1>8. /\ DOMAIN mem' = Locals \cup Globals /\ DOMAIN ssaMem' = Globals
      /\ DOMAIN reg' = M!InstrsOf("load", Locals \cup Globals)
      /\ Registers \subseteq DOMAIN ssa /\ DOMAIN ssa' = DOMAIN ssa
  BY <1>2, <1>3, <1>4 DEF MachineTyped
<1>9. LocalsAgree(Program, target, 1, mem, ssa')
  <2> SUFFICES ASSUME NEW v \in Locals, mem[v] # E!Undef
               PROVE  /\ Reaches(Program, target, 1, v)
                      /\ Reaching(Program, target, 1, v) \in DOMAIN ssa'
                      /\ ssa'[Reaching(Program, target, 1, v)] = mem[v]
    BY DEF LocalsAgree
  <2>1. PICK y : y = Reaching(Program, block, EndOf(Program, block), v)
    OBVIOUS
  <2>2. Reaches(Program, block, EndOf(Program, block), v) /\ y \in DOMAIN ssa /\ ssa[y] = mem[v]
    <3>1. PICK q : q = Program
      OBVIOUS
    <3>2. q.fn = fn /\ EndOf(q, block) = pos + 1
      BY <1>5, <3>1 DEF Program, EndOf
    <3>3. ~(q.fn.code[block][pos].op = "store" /\ q.fn.code[block][pos].var = v)
      BY <1>4, <3>2
    <3>4. /\ Reaches(q, block, pos + 1, v) <=> Reaches(q, block, pos, v)
          /\ Reaching(q, block, pos + 1, v) = Reaching(q, block, pos, v)
      BY <1>2, <3>3, ReachingPast
    <3>5. /\ Reaches(q, block, pos, v) /\ Reaching(q, block, pos, v) \in DOMAIN ssa
          /\ ssa[Reaching(q, block, pos, v)] = mem[v]
      BY <1>2, <3>1 DEF LocalsAgree
    <3> QED BY <2>1, <3>1, <3>2, <3>4, <3>5
  <2>3. CASE <<target, v>> \in phis
    <3>1. PICK x : x = M!PhiValue(<<target, v>>)
      OBVIOUS
    <3>2. /\ Reaches(Program, target, 1, v) /\ Reaching(Program, target, 1, v) = x
          /\ E!PhiOperand(<<target, v>>, block) = ssa[y]
      BY <1>2, <1>5, <2>1, <2>2, <2>3, <3>1, PhiReached
    <3>3. x.kind = "phi" /\ x.block = target /\ x.var = v
      BY <3>1 DEF M!PhiValue
    <3>4. x \in DOMAIN ssa
      <4>1. x \in Registers
        BY <2>3, <3>1 DEF Registers
      <4> QED BY <1>8, <4>1
    <3>5. ssa'[x] = ssa[y]
      BY <1>3, <3>2, <3>3, <3>4
    <3> QED BY <1>8, <2>2, <3>2, <3>4, <3>5
  <2>4. CASE <<target, v>> \notin phis
    <3>1. /\ Reaches(Program, target, 1, v) /\ Reaching(Program, target, 1, v) = y
          /\ y.block # target
      BY <1>2, <1>5, <2>1, <2>2, <2>4, ValueGoesThrough
    <3>2. ssa'[y] = ssa[y]
      BY <1>3, <2>2, <3>1
    <3> QED BY <1>8, <2>2, <3>1, <3>2
  <2> QED BY <2>3, <2>4
<1>10. LoadsAgree(Program, target, 1, reg, ssa')
  <2>1. \A id \in DOMAIN reg : ~(id[2] < 1)
    <3> SUFFICES ASSUME NEW id \in M!InstrsOf("load", Locals \cup Globals) PROVE ~(id[2] < 1)
      BY <1>2 DEF MachineTyped
    <3>1. id[2] \in Nat \ {0}
      BY <1>1, RunFacts
    <3> QED BY <3>1
  <2> QED BY <2>1 DEF LoadsAgree
<1>11. DOMAIN reg = M!InstrsOf("load", Locals \cup Globals)
  BY <1>2 DEF MachineTyped
<1>12. /\ pos' \in 1 .. Len(fn.code[target])
       /\ LocalsAgree(Program, target, pos', mem, ssa') /\ LoadsAgree(Program, target, pos', reg, ssa')
  BY <1>3, <1>6, <1>7, <1>9, <1>10, <1>11, RunGoesOn
<1>13. GlobalsAgree(mem', ssaMem')
  BY <1>2, <1>4
<1>14. LocalsAgree(Program, block', pos', mem', ssa') /\ LoadsAgree(Program, block', pos', reg', ssa')
  BY <1>3, <1>4, <1>12
<1> QED BY <1>2, <1>3, <1>4, <1>6, <1>8, <1>12, <1>13, <1>14, RunNext

-----------------------------------------------------------------------------
(* The driver: from the first step of the visitor to the last of a run.    *)

AgreeInv ==
  /\ PromotionInv /\ CodeCopies(fn)
  /\ stage # "off" => Open(fn) = {} /\ FrontierFull(fn, dom_frontier)
  /\ stage \in {"rename", "remove", "promoted"} => NamesInv
  /\ RunInv

LEMMA AgreeInitially == PromotionInit => AgreeInv
<1> SUFFICES ASSUME PromotionInit PROVE AgreeInv
  OBVIOUS
<1>1. /\ PromotionInv /\ stage = "off" /\ block = 0 /\ fn = NoFunction
  BY PromotionInitially DEF PromotionInit, M!Mem2RegOff, E!Stopped, BuilderInit
<1>2. CodeCopies(fn)
  BY <1>1 DEF CodeCopies, NoFunction
<1> QED BY <1>1, <1>2 DEF AgreeInv, RunInv

LEMMA PromotedIsDone ==
  ASSUME AgreeInv, stage = "promoted"
  PROVE  PassDone
BY DEF AgreeInv, PromotionInv, Mem2RegInv, Given, PassDone

\* Nothing changes but what neither Mem2Reg nor a run looks at.
LEMMA AgreeRests ==
  ASSUME AgreeInv, UNCHANGED <<fn, dom_frontier, dom_tree_succ, promotion, machine>>, PromotionInv'
  PROVE  AgreeInv'
<1>1. Reading /\ UNCHANGED <<stage, pairs, operand, var_val_stack, calls, deleted>>
  BY DEF promotion, Reading
<1>2. UNCHANGED <<block, pos, mem, reg, ssa, ssaMem>>
  BY DEF machine
<1>3. CodeCopies(fn)'
  <2>1. CodeCopies(fn')
    BY DEF AgreeInv
  <2> QED BY <2>1
<1>4. stage' # "off" => Open(fn)' = {} /\ FrontierFull(fn, dom_frontier)'
  <2>1. stage # "off" => Open(fn') = {} /\ FrontierFull(fn', dom_frontier')
    BY DEF AgreeInv
  <2> QED BY <1>1, <2>1
<1>5. stage' \in {"rename", "remove", "promoted"} => NamesInv'
  BY <1>1, NamesRest DEF AgreeInv
<1>6. RunInv'
  <2>1. CASE block = 0
    BY <1>2, <2>1 DEF RunInv
  <2>2. CASE block # 0
    <3>1. /\ stage = "promoted" /\ MachineTyped
          /\ LocalsAgree(Program, block, pos, mem, ssa)
          /\ LoadsAgree(Program, block, pos, reg, ssa) /\ GlobalsAgree(mem, ssaMem)
      BY <2>2 DEF AgreeInv, RunInv
    <3>2. UNCHANGED <<fn, phis, operand, stage>>
      BY <1>1 DEF Reading
    <3>3. /\ block' \in Reachable(fn) /\ pos' \in 1 .. Len(fn.code[block'])
          /\ DOMAIN mem' = Locals \cup Globals /\ DOMAIN ssaMem' = Globals
          /\ DOMAIN reg' = M!InstrsOf("load", Locals \cup Globals) /\ Registers \subseteq DOMAIN ssa'
      BY <1>2, <3>1 DEF MachineTyped
    <3>4. /\ LocalsAgree(Program, block', pos', mem', ssa')
          /\ LoadsAgree(Program, block', pos', reg', ssa') /\ GlobalsAgree(mem', ssaMem')
      BY <1>2, <3>1
    <3> QED BY <3>1, <3>2, <3>3, <3>4, RunNext
  <2> QED BY <2>1, <2>2
<1> QED BY <1>3, <1>4, <1>5, <1>6 DEF AgreeInv

LEMMA BuildAgrees ==
  ASSUME BuilderAssumption, AgreeInv, Build, PromotionInv'
  PROVE  AgreeInv'
<1>1. /\ BuilderStep /\ UNCHANGED <<stage, block>>
  BY DEF Build, promotion, machine
<1>2. ~Built /\ stage = "off"
  BY <1>1, BuildingUnbuilt DEF AgreeInv, PromotionInv, Mem2RegInv
<1>3. Inv /\ CodeCopies(fn)
  BY <1>2 DEF AgreeInv, PromotionInv
<1>4. CodeCopies(fn')
  BY <1>1, <1>3, BuilderCopies
<1>5. block = 0
  BY <1>2 DEF AgreeInv, RunInv
<1> QED BY <1>1, <1>2, <1>4, <1>5 DEF AgreeInv, RunInv

LEMMA DominatorsAgree ==
  ASSUME AgreeInv, RunDominators, PromotionInv'
  PROVE  AgreeInv'
<1>1. /\ Built /\ stage = "off" /\ stage' = "place" /\ fn' = fn /\ UNCHANGED block
  BY DEF RunDominators, machine
<1>2. Inv /\ EntryInv
  BY <1>1 DEF AgreeInv, PromotionInv
<1>3. FrontierFull(fn, dom_frontier')
  BY <1>2, DominatorsGiveFrontiers
<1>4. Open(fn) = {}
  BY <1>1, <1>2 DEF Built, Inv, InvOf
<1>5. Open(fn)' = {} /\ FrontierFull(fn, dom_frontier)' /\ CodeCopies(fn)'
  <2>1. Open(fn') = {} /\ FrontierFull(fn', dom_frontier') /\ CodeCopies(fn')
    BY <1>1, <1>3, <1>4 DEF AgreeInv
  <2> QED BY <2>1
<1>6. RunInv'
  BY <1>1 DEF AgreeInv, RunInv
<1> QED BY <1>1, <1>5, <1>6 DEF AgreeInv

LEMMA PromoteAgrees ==
  ASSUME PromotionAssumption, AgreeInv, Promote, PromotionInv'
  PROVE  AgreeInv'
<1>1. M!Mem2RegStep /\ UNCHANGED block
  BY DEF Promote, machine
<1>2. stage \in {"place", "rename", "remove"} /\ UNCHANGED <<fn, dom_frontier>>
  BY <1>1 DEF M!Mem2RegStep, M!GeneratePhi, M!RenamePhis, M!SkipInstr, M!RenameLoad,
         M!RenameStore, M!EndInstrs, M!FillSuccessor, M!EndSuccessors, M!RenameChild,
         M!LeaveBlock, M!EndRename, M!RemoveAlloca, M!Renaming, M!HasInstr, M!given
<1>3. stage' \in {"rename", "remove", "promoted"} => NamesInv'
  BY <1>1, Mem2RegNames DEF AgreeInv, PromotionInv
<1>4. Open(fn)' = {} /\ FrontierFull(fn, dom_frontier)' /\ CodeCopies(fn)'
  <2>1. Open(fn') = {} /\ FrontierFull(fn', dom_frontier') /\ CodeCopies(fn')
    BY <1>2 DEF AgreeInv
  <2> QED BY <2>1
<1>5. RunInv'
  BY <1>1, <1>2 DEF AgreeInv, RunInv
<1> QED BY <1>3, <1>4, <1>5 DEF AgreeInv

LEMMA RunAgrees ==
  ASSUME PromotionAssumption, AgreeInv, Run, PromotionInv'
  PROVE  AgreeInv'
<1>1. /\ UNCHANGED E!program
      /\ E!Call \/ E!ExecuteLoad \/ E!ExecuteStore \/ E!ExecuteBranch
  BY DEF Run, E!ExecutionStep
<1>2. stage = "promoted"
  BY <1>1 DEF E!Call, E!ExecuteLoad, E!ExecuteStore, E!ExecuteBranch, E!Running, AgreeInv, RunInv
<1>3. PassDone /\ RunInv
  BY <1>2, PromotedIsDone DEF AgreeInv
<1>4. RunInv'
  BY <1>1, <1>3, CallAgrees, LoadAgrees, StoreAgrees, BranchAgrees
<1>5. Reading /\ UNCHANGED <<stage, pairs, operand, var_val_stack, calls>>
  BY <1>1 DEF E!program, Reading
<1>6. NamesInv'
  BY <1>3, <1>5, NamesRest DEF PassDone
<1>7. Open(fn)' = {} /\ FrontierFull(fn, dom_frontier)' /\ CodeCopies(fn)'
  <2>1. Open(fn') = {} /\ FrontierFull(fn', dom_frontier') /\ CodeCopies(fn')
    BY <1>2, <1>5 DEF AgreeInv, Reading
  <2> QED BY <2>1
<1> QED BY <1>4, <1>6, <1>7 DEF AgreeInv

LEMMA AgreeInductive ==
  ASSUME BuilderAssumption, PromotionAssumption,
         AgreeInv, [PromotionNext]_promotionVars
  PROVE  AgreeInv'
<1>1. PromotionInv'
  BY PromotionInductive DEF AgreeInv
<1>2. CASE Build
  BY <1>1, <1>2, BuildAgrees
<1>3. CASE RunDominators
  BY <1>1, <1>3, DominatorsAgree
<1>4. CASE Promote
  BY <1>1, <1>4, PromoteAgrees
<1>5. CASE Run
  BY <1>1, <1>5, RunAgrees
<1>6. CASE Analyse \/ Ended \/ UNCHANGED promotionVars
  <2>1. UNCHANGED <<fn, dom_frontier, dom_tree_succ, promotion, machine>>
    BY <1>6 DEF Analyse, Ended, promotionVars, builderVars, dominatorResults
  <2> QED BY <1>1, <2>1, AgreeRests
<1> QED BY <1>2, <1>3, <1>4, <1>5, <1>6 DEF PromotionNext

LEMMA RunsAgree == AgreeInv => ProgramsAgree
<1> SUFFICES ASSUME AgreeInv, block # 0
             PROVE  /\ \A id \in DOMAIN reg :
                         id[1] = block /\ id[2] < pos /\ reg[id] # E!Undef
                           => ssa[operand[id]] = reg[id]
                    /\ \A v \in Globals : mem[v] # E!Undef => ssaMem[v] = mem[v]
  BY DEF ProgramsAgree, E!ProgramsAgree
<1>1. LoadsAgree(Program, block, pos, reg, ssa) /\ GlobalsAgree(mem, ssaMem)
  BY DEF AgreeInv, RunInv
<1>2. Program.operand = operand
  BY DEF Program
<1> QED BY <1>1, <1>2 DEF LoadsAgree, GlobalsAgree

(* Promotion preserves what a function does: along every path through it,   *)
(* round loops and across joins, the operand that replaces a load holds     *)
(* what the load loads wherever that is defined, and the globals are the    *)
(* same in both programs.                                                   *)
THEOREM PromotionPreservesRuns == PromotionSpec => []ProgramsAgree
<1>1. PromotionSpec => []AgreeInv
  BY BuilderAssumption, PromotionAssumption, AgreeInitially, AgreeInductive, PTL
     DEF PromotionSpec
<1>2. AgreeInv => ProgramsAgree
  BY RunsAgree
<1> QED BY <1>1, <1>2, PTL

=============================================================================
