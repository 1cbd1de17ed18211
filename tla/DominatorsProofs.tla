--------------------------- MODULE DominatorsProofs ---------------------------
(***************************************************************************)
(* Proofs about Dominators, for any function whose lists of predecessors   *)
(* and successors agree and whose entry has no predecessor: no assert of   *)
(* the pass fails, and what it ends with are the immediate dominators and  *)
(* the dominance frontiers by their definition on paths.                   *)
(*                                                                         *)
(* The argument, in the order of the phases.                               *)
(*   - The post order.  Blocks on the call stack of post_order_visit lead  *)
(*     one to the next; a block that has a number, but is not on it, has   *)
(*     numbered successors only.  So every block reached gets a number,    *)
(*     and every one but the entry has a predecessor with a greater one.   *)
(*   - create_idom.  What idom_ holds of a block is always numbered higher *)
(*     than the block, so the climbs of intersect go up and meet at the    *)
(*     latest in the entry.  Everything that dominates a block is among    *)
(*     the ancestors the table gives it (Covers), from the first sweep to  *)
(*     the last.  A sweep that changes nothing leaves a table in which     *)
(*     each block's entry is an ancestor of all its predecessors; then an  *)
(*     ancestor cuts the block off the entry, by least numbers, and the    *)
(*     ancestors are exactly the dominators.                               *)
(*   - The frontiers.  A runner stands on an ancestor of a predecessor     *)
(*     that is no strict ancestor of the join, and passes each of them.    *)
(***************************************************************************)
EXTENDS Dominators, CfgProofs

-----------------------------------------------------------------------------
(* The invariant.                                                          *)

OnStack(cs, b) == \E i \in DOMAIN cs : cs[i].bb = b

\* Block b gets a greater number than the i-th block.
FinishesAfter(cs, po, i, b) ==
  OnStack(cs, b) \/ (\E j \in DOMAIN po : j > i /\ po[j] = b)

\* A call that is active: the successors before the next one are visited, and
\* the calls below it form a path from the entry, on which every dominator lies.
ActiveCall(f, vis, cs, i) ==
  /\ cs[i].bb \in vis
  /\ \A j \in DOMAIN cs : cs[i].bb = cs[j].bb => i = j
  /\ \A j \in DOMAIN f.succ[cs[i].bb] : j < cs[i].next => f.succ[cs[i].bb][j] \in vis
  /\ \A a \in f.blocks : Dominates(f, a, cs[i].bb) => \E j \in 1 .. i : cs[j].bb = a
  /\ cs[i].bb # Entry => \E j \in 1 .. i - 1 : cs[j].bb \in Range(f.pre[cs[i].bb])

\* A block whose call has returned: its dominators and the block it was visited
\* from get greater numbers.
FinishedBlock(f, vis, cs, po, id, i) ==
  /\ po[i] \in vis /\ ~OnStack(cs, po[i]) /\ id[po[i]] = i - 1
  /\ Range(f.succ[po[i]]) \subseteq vis
  /\ \A a \in f.blocks : Dominates(f, a, po[i]) /\ a # po[i] => FinishesAfter(cs, po, i, a)
  /\ po[i] # Entry => \E p \in Range(f.pre[po[i]]) : FinishesAfter(cs, po, i, p)

Searched(f, vis, cs, po, id) ==
  /\ vis \subseteq Reachable(f) /\ Entry \in vis
  /\ cs \in Seq([bb : f.blocks, next : Nat \ {0}])
  /\ po \in Seq(f.blocks) /\ id \in [f.blocks -> Nat]
  /\ \A b \in vis : OnStack(cs, b) \/ \E i \in DOMAIN po : po[i] = b
  /\ \A i \in DOMAIN cs : ActiveCall(f, vis, cs, i)
  /\ \A i \in DOMAIN po : FinishedBlock(f, vis, cs, po, id, i)

\* What is left of that once every call has returned.
Numbered(f, po, id) ==
  /\ po \in Seq(Reachable(f)) /\ id \in [f.blocks -> Nat]
  /\ \A b \in Reachable(f) : \E i \in DOMAIN po : po[i] = b
  /\ \A i \in DOMAIN po : id[po[i]] = i - 1
  /\ \A a, b \in f.blocks : Dominates(f, a, b) /\ a # b => id[b] < id[a]
  /\ \A b \in Reachable(f) \ {Entry} :
       \E p \in Range(f.pre[b]) \cap Reachable(f) : id[b] < id[p]

\* Every strict dominator of b dominates d.
Covers(f, d, b) == \A a \in f.blocks : Dominates(f, a, b) /\ a # b => Dominates(f, a, d)

\* The blocks above b in the tree that idom makes, and b.
Ancestors(f, up, b) == ReachedFrom([x \in f.blocks |-> {up[x]} \ {Null}], {b})

Tree(f, id, up) ==
  /\ up \in [f.blocks -> f.blocks \cup {Null}]
  /\ up[Entry] = Entry
  /\ \A b \in f.blocks : up[b] # Null => b \in Reachable(f) /\ up[up[b]] # Null
  /\ \A b \in f.blocks \ {Entry} : up[b] # Null => id[b] < id[up[b]] /\ Covers(f, up[b], b)

\* The blocks the sweep has passed have an immediate dominator, which is above
\* their predecessors if this sweep has changed nothing.
Swept(f, po, up, n, same) ==
  /\ n \in 0 .. Len(po)
  /\ \A i \in DOMAIN po : i > n => up[po[i]] # Null
  /\ same => \A i \in DOMAIN po : i > n /\ po[i] # Entry =>
               \A p \in Range(f.pre[po[i]]) :
                 up[p] # Null => up[po[i]] \in Ancestors(f, up, p)

\* d is above the first n predecessors of b.
Joined(f, up, b, d, n) ==
  /\ d \in f.blocks /\ up[d] # Null /\ Covers(f, d, b)
  /\ \A j \in 1 .. n :
       j <= Len(f.pre[b]) /\ up[f.pre[b][j]] # Null => d \in Ancestors(f, up, f.pre[b][j])

Scanning ==
  /\ at > 0 /\ bb # Entry /\ k \in Nat \ {0}
  /\ first \in Range(fn.pre[bb]) /\ idom[first] # Null
  /\ Joined(fn, idom, bb, new_idom, k - 1)
  /\ new_idom \in Ancestors(fn, idom, first)

Intersecting ==
  /\ k <= Len(fn.pre[bb]) /\ idom[fn.pre[bb][k]] # Null
  /\ b1 \in Ancestors(fn, idom, fn.pre[bb][k]) /\ Covers(fn, b1, bb)
  /\ b2 \in Ancestors(fn, idom, new_idom) /\ Covers(fn, b2, bb)

\* idom holds the immediate dominators.
Solved(f, up) ==
  /\ \A b \in Reachable(f) : up[b] # Null
  /\ \A b \in Reachable(f) \ {Entry} : Dominates(f, up[b], b) /\ up[b] # b

StrictlyDominates(f, a, b) == Dominates(f, a, b) /\ a # b

\* What may be in a frontier, and what the predecessor p of b puts there.
FrontierSound(f, df) ==
  \A a \in f.blocks : \A b \in df[a] :
    IF a \in Reachable(f)
    THEN /\ b \in Reachable(f) /\ ~StrictlyDominates(f, a, b)
         /\ \E p \in Reachable(f) : b \in Range(f.succ[p]) /\ Dominates(f, a, p)
    ELSE b \in JoinsBehind(f, a)

FrontierHas(f, df, b, p) ==
  IF p \in Reachable(f)
  THEN \A a \in f.blocks : Dominates(f, a, p) /\ ~StrictlyDominates(f, a, b) => b \in df[a]
  ELSE b \notin Reachable(f) /\ b \in df[p]

Frontiers(f, df, n, m) ==
  /\ df \in [f.blocks \cup {Null} -> SUBSET f.blocks]
  /\ n \in Nat /\ m \in Nat \ {0}
  /\ FrontierSound(f, df)
  /\ \A b \in f.blocks : Len(f.pre[b]) >= 2 =>
       \A j \in 1 .. Len(f.pre[b]) :
         b < n \/ (b = n /\ j < m) => FrontierHas(f, df, b, f.pre[b][j])

Climbing ==
  LET p == fn.pre[at][k]
  IN  /\ at \in fn.blocks /\ Len(fn.pre[at]) >= 2 /\ k <= Len(fn.pre[at])
      /\ IF p \in Reachable(fn)
         THEN /\ Dominates(fn, runner, p) /\ Dominates(fn, idom[at], runner)
              /\ \A a \in fn.blocks :
                   Dominates(fn, a, p) /\ ~StrictlyDominates(fn, a, at)
                     => at \in dom_frontier[a] \/ Dominates(fn, a, runner)
         ELSE runner = p \/ (runner = Null /\ at \in dom_frontier[p])

Inv ==
  /\ FlowGraph(fn)
  /\ phase \in Phases \ {"aborted"}
  /\ phase = "visit" =>
       /\ Searched(fn, visited, calls, post_order, post_order_id)
       /\ dom_frontier = [b \in Keys |-> {}]
  /\ phase \notin {"idle", "visit"} =>
       Numbered(fn, post_order, post_order_id) /\ Tree(fn, post_order_id, idom)
  /\ phase \in {"sweep", "scan", "intersect"} =>
       /\ Swept(fn, post_order, idom, at, ~changed) /\ changed \in BOOLEAN
       /\ dom_frontier = [b \in Keys |-> {}]
  /\ phase \in {"scan", "intersect"} => Scanning
  /\ phase = "intersect" => Intersecting
  /\ phase \in {"frontier", "climb", "tree", "done"} =>
       Solved(fn, idom) /\ Frontiers(fn, dom_frontier, at, k)
  /\ phase = "climb" => Climbing
  /\ phase \in {"tree", "done"} => at > fn.made
  /\ phase = "done" =>
       dom_tree_succ = [d \in Keys |-> {b \in fn.blocks : idom[b] = d /\ b # d}]

-----------------------------------------------------------------------------
(* The depth-first search.                                                 *)

LEMMA StartInv == Inv /\ Start => Inv'
<1> SUFFICES ASSUME Inv, Start PROVE Inv'
  OBVIOUS
<1>1. /\ FlowGraph(fn) /\ fn' = fn /\ phase' = "visit" /\ visited' = {Entry}
      /\ calls' = <<[bb |-> Entry, next |-> 1]>> /\ post_order' = <<>>
      /\ post_order_id' = [b \in fn.blocks |-> 0]
      /\ dom_frontier' = [b \in Keys |-> {}] /\ Keys' = Keys
  BY DEF Inv, Start, Call, Keys
<1>2. Entry \in fn.blocks /\ Entry \in Reachable(fn)
  BY <1>1, FlowFacts, ReachableFacts
<1> DEFINE c == [bb |-> Entry, next |-> 1]
<1>3. /\ <<c>> \in Seq([bb : fn.blocks, next : Nat \ {0}]) /\ DOMAIN <<c>> = {1}
      /\ <<c>>[1] = c /\ c.bb = Entry /\ c.next = 1
  BY <1>2
<1> HIDE DEF c
<1>4. ASSUME NEW a, Dominates(fn, a, Entry) PROVE \E j \in 1 .. 1 : <<c>>[j].bb = a
  BY <1>1, <1>3, <1>4, EntryDominator
<1>5. <<>> \in Seq(fn.blocks) /\ DOMAIN <<>> = {}
  OBVIOUS
<1>6. [b \in fn.blocks |-> 0] \in [fn.blocks -> Nat]
  OBVIOUS
<1>7. \A j \in DOMAIN fn.succ[Entry] : j \in Nat \ {0}
  BY <1>1, <1>2, FlowFacts
<1>8. Searched(fn, {Entry}, <<c>>, <<>>, [b \in fn.blocks |-> 0])
  BY <1>2, <1>3, <1>4, <1>5, <1>6, <1>7 DEF Searched, ActiveCall, OnStack
<1>9. Searched(fn, visited, calls, post_order, post_order_id)'
  BY <1>1, <1>8 DEF c
<1> QED BY <1>1, <1>9 DEF Inv, Phases

\* The stack with the call on top one successor further.
LEMMA SteppedFacts ==
  ASSUME NEW B, NEW cs \in Seq([bb : B, next : Nat \ {0}]), cs # <<>>
  PROVE  LET n == Len(cs)
             stepped == [cs EXCEPT ![n].next = @ + 1]
         IN  /\ n \in Nat \ {0} /\ DOMAIN cs = 1 .. n /\ n \in 1 .. n
             /\ cs[n].bb \in B /\ cs[n].next \in Nat \ {0}
             /\ stepped \in Seq([bb : B, next : Nat \ {0}])
             /\ DOMAIN stepped = 1 .. n /\ Len(stepped) = n
             /\ \A i \in 1 .. n : stepped[i].bb = cs[i].bb
             /\ \A i \in 1 .. n : i # n => stepped[i] = cs[i]
             /\ stepped[n].next = cs[n].next + 1
<1> DEFINE R == [bb : B, next : Nat \ {0}]
           n == Len(cs)
           top == [cs[n] EXCEPT !.next = @ + 1]
           stepped == [cs EXCEPT ![n] = top]
<1>1. cs \in Seq(R)
  OBVIOUS
<1>2. cs[n] \in R
  <2> HIDE DEF R
  <2> QED BY <1>1
<1>3. cs[n].bb \in B /\ cs[n].next \in Nat \ {0}
  BY <1>2
<1>4. top = [bb |-> cs[n].bb, next |-> cs[n].next + 1]
  BY <1>2
<1>5. top \in R /\ top.bb = cs[n].bb /\ top.next = cs[n].next + 1
  BY <1>3, <1>4
<1>6. stepped = [cs EXCEPT ![n].next = @ + 1]
  OBVIOUS
<1> HIDE DEF top, R
<1>7. /\ n \in Nat \ {0} /\ DOMAIN cs = 1 .. n /\ n \in 1 .. n
      /\ stepped \in Seq(R) /\ DOMAIN stepped = 1 .. n /\ Len(stepped) = n
      /\ stepped[n] = top /\ \A i \in 1 .. n : i # n => stepped[i] = cs[i]
  BY <1>1, <1>5, TopReplaced
<1> HIDE DEF stepped, n
<1>9. \A i \in 1 .. n : stepped[i].bb = cs[i].bb
  BY <1>5, <1>7
<1> QED BY <1>3, <1>5, <1>6, <1>7, <1>9 DEF n, R

LEMMA VisitSuccessorInv == Inv /\ VisitSuccessor => Inv'
<1> SUFFICES ASSUME Inv, VisitSuccessor PROVE Inv'
  OBVIOUS
<1> DEFINE R == [bb : fn.blocks, next : Nat \ {0}]
           n == Len(calls)
           p == calls[n].bb
           m == calls[n].next
           b == fn.succ[p][m]
           stepped == [calls EXCEPT ![n].next = @ + 1]
           new == [bb |-> b, next |-> 1]
<1>1. /\ FlowGraph(fn) /\ fn' = fn /\ phase' = "visit" /\ phase = "visit"
      /\ post_order' = post_order /\ post_order_id' = post_order_id
      /\ dom_frontier' = [x \in Keys |-> {}] /\ Keys' = Keys
      /\ calls # <<>> /\ m <= Len(fn.succ[p])
      /\ IF b \in visited
         THEN calls' = stepped /\ visited' = visited
         ELSE calls' = Append(stepped, new) /\ visited' = visited \cup {b}
  BY DEF Inv, VisitSuccessor, TopCall, Call, Keys, frontierVars
<1>2. Searched(fn, visited, calls, post_order, post_order_id)
  BY <1>1 DEF Inv
<1>3. calls \in Seq(R)
  BY <1>2 DEF Searched
<1>4. /\ n \in Nat \ {0} /\ DOMAIN calls = 1 .. n /\ n \in 1 .. n
      /\ p \in fn.blocks /\ m \in Nat \ {0}
      /\ stepped \in Seq(R) /\ DOMAIN stepped = 1 .. n /\ Len(stepped) = n
      /\ \A i \in 1 .. n : stepped[i].bb = calls[i].bb
      /\ \A i \in 1 .. n : i # n => stepped[i] = calls[i]
      /\ stepped[n].next = m + 1
  BY <1>1, <1>3, SteppedFacts
<1> HIDE DEF R, n, p, m, b, stepped, new
<1>5. /\ m \in 1 .. Len(fn.succ[p]) /\ b \in Range(fn.succ[p]) /\ b \in fn.blocks
      /\ DOMAIN fn.succ[p] = 1 .. Len(fn.succ[p]) /\ Len(fn.succ[p]) \in Nat
      /\ p \in Range(fn.pre[b])
  <2>1. DOMAIN fn.succ[p] = 1 .. Len(fn.succ[p]) /\ Len(fn.succ[p]) \in Nat
    BY <1>1, <1>4, FlowFacts
  <2>2. m \in 1 .. Len(fn.succ[p])
    BY <1>1, <1>4, <2>1
  <2>3. b \in Range(fn.succ[p]) /\ Range(fn.succ[p]) \subseteq fn.blocks
    BY <1>1, <1>4, <2>2, FlowFacts DEF b
  <2>4. b \in fn.blocks
    BY <2>3
  <2>5. p \in Range(fn.pre[b])
    BY <1>1, <1>4, <2>3, <2>4, FlowFacts
  <2> QED BY <2>1, <2>2, <2>3, <2>4, <2>5
<1>6. calls[n].bb = p /\ calls[n].next = m /\ stepped[n].bb = p
  BY <1>4 DEF p, m
<1>7. /\ \A i \in 1 .. n : ActiveCall(fn, visited, calls, i)
      /\ \A i \in DOMAIN post_order : FinishedBlock(fn, visited, calls, post_order, post_order_id, i)
      /\ visited \subseteq Reachable(fn) /\ Entry \in visited
      /\ post_order \in Seq(fn.blocks) /\ post_order_id \in [fn.blocks -> Nat]
      /\ \A x \in visited : OnStack(calls, x) \/ \E i \in DOMAIN post_order : post_order[i] = x
  BY <1>2, <1>4 DEF Searched
<1>8. p \in visited /\ p \in Reachable(fn)
  BY <1>4, <1>6, <1>7 DEF ActiveCall
<1>9. b \in Reachable(fn)
  BY <1>1, <1>5, <1>8, ReachableFacts
<1>10. \A x : OnStack(stepped, x) <=> OnStack(calls, x)
  BY <1>4 DEF OnStack
\* What a call on the old stack becomes, when b has been visited.
<1>11. ASSUME NEW vis, visited \subseteq vis, b \in vis, NEW i \in 1 .. n
       PROVE  ActiveCall(fn, vis, stepped, i)
  <2>1. ActiveCall(fn, visited, calls, i) /\ stepped[i].bb = calls[i].bb
    BY <1>4, <1>7
  <2>2. \A j \in DOMAIN fn.succ[calls[i].bb] : j < stepped[i].next => fn.succ[calls[i].bb][j] \in vis
    <3>1. CASE i = n
      <4>1. \A j \in 1 .. Len(fn.succ[p]) : j < m => fn.succ[p][j] \in visited
        BY <3>1, <2>1, <1>5, <1>6 DEF ActiveCall
      <4>2. \A j \in 1 .. Len(fn.succ[p]) : j < m + 1 => j < m \/ j = m
        BY <1>4
      <4>3. fn.succ[p][m] \in vis
        BY <1>11 DEF b
      <4> QED BY <3>1, <1>4, <1>5, <1>6, <1>11, <4>1, <4>2, <4>3
    <3>2. CASE i # n
      BY <3>2, <2>1, <1>4, <1>11 DEF ActiveCall
    <3> QED BY <3>1, <3>2
  <2>3. \A a \in fn.blocks : Dominates(fn, a, calls[i].bb) => \E j \in 1 .. i : stepped[j].bb = a
    <3> TAKE a \in fn.blocks
    <3>1. HAVE Dominates(fn, a, calls[i].bb)
    <3>2. PICK j \in 1 .. i : calls[j].bb = a
      BY <3>1, <2>1 DEF ActiveCall
    <3>3. j \in 1 .. n
      BY <1>4
    <3> QED BY <3>2, <3>3, <1>4
  <2>4. calls[i].bb # Entry => \E j \in 1 .. i - 1 : stepped[j].bb \in Range(fn.pre[calls[i].bb])
    <3>1. HAVE calls[i].bb # Entry
    <3>2. PICK j \in 1 .. i - 1 : calls[j].bb \in Range(fn.pre[calls[i].bb])
      BY <3>1, <2>1 DEF ActiveCall
    <3>3. j \in 1 .. n
      BY <1>4
    <3> QED BY <3>2, <3>3, <1>4
  <2>5. calls[i].bb \in vis /\ \A j \in 1 .. n : calls[i].bb = stepped[j].bb => i = j
    BY <2>1, <1>4, <1>11 DEF ActiveCall
  <2> QED BY <2>1, <2>2, <2>3, <2>4, <2>5, <1>4 DEF ActiveCall
\* What a finished block becomes, when b is called that was not finished.
<1>12. ASSUME NEW vis, visited \subseteq vis, NEW cs, \A x : OnStack(calls, x) => OnStack(cs, x),
              \A x \in visited : OnStack(cs, x) => OnStack(calls, x), NEW i \in DOMAIN post_order
       PROVE  FinishedBlock(fn, vis, cs, post_order, post_order_id, i)
  <2>1. FinishedBlock(fn, visited, calls, post_order, post_order_id, i)
    BY <1>7
  <2>2. \A x : FinishesAfter(calls, post_order, i, x) => FinishesAfter(cs, post_order, i, x)
    BY <1>12 DEF FinishesAfter
  <2> QED BY <2>1, <2>2, <1>12 DEF FinishedBlock
<1>13. CASE b \in visited
  <2>1. calls' = stepped /\ visited' = visited
    BY <1>1, <1>13
  <2>2. Searched(fn, visited, stepped, post_order, post_order_id)
    <3>1. \A i \in 1 .. n : ActiveCall(fn, visited, stepped, i)
      BY <1>11, <1>13
    <3>2. \A i \in DOMAIN post_order :
            FinishedBlock(fn, visited, stepped, post_order, post_order_id, i)
      BY <1>10, <1>12
    <3> QED BY <3>1, <3>2, <1>4, <1>7, <1>10 DEF Searched, R
  <2> QED BY <1>1, <2>1, <2>2 DEF Inv, Phases
<1>14. CASE b \notin visited
  <2> DEFINE cs == Append(stepped, new)
             vis == visited \cup {b}
  <2>1. new \in R /\ new.bb = b /\ new.next = 1
    BY <1>5 DEF new, R
  <2>2. /\ cs \in Seq(R) /\ DOMAIN cs = 1 .. n + 1 /\ cs[n + 1] = new
        /\ \A i \in 1 .. n : cs[i] = stepped[i]
        /\ \A i \in 1 .. n + 1 : i # n + 1 => i \in 1 .. n
    BY <2>1, <1>4, Pushed
  <2> HIDE DEF cs
  <2>3. \A x : OnStack(cs, x) <=> OnStack(calls, x) \/ x = b
    <3>1. \A x : OnStack(calls, x) => OnStack(cs, x)
      BY <1>4, <2>2 DEF OnStack
    <3>2. OnStack(cs, b)
      BY <1>4, <2>1, <2>2 DEF OnStack
    <3>3. \A x : OnStack(cs, x) => OnStack(calls, x) \/ x = b
      BY <1>4, <2>1, <2>2 DEF OnStack
    <3> QED BY <3>1, <3>2, <3>3
  <2>4. \A i \in DOMAIN post_order : FinishedBlock(fn, vis, cs, post_order, post_order_id, i)
    <3>1. \A x : OnStack(calls, x) => OnStack(cs, x)
      BY <2>3
    <3>2. \A x \in visited : OnStack(cs, x) => OnStack(calls, x)
      BY <2>3, <1>14
    <3> QED BY <3>1, <3>2, <1>12
  <2>5. ASSUME NEW i \in 1 .. n PROVE ActiveCall(fn, vis, cs, i)
    <3>1. ActiveCall(fn, vis, stepped, i)
      BY <1>11
    <3>2. cs[i] = stepped[i] /\ \A j \in 1 .. i : cs[j] = stepped[j]
      BY <1>4, <2>2
    <3>3. \A j \in 1 .. n + 1 : cs[i].bb = cs[j].bb => i = j
      <4>1. calls[i].bb \in visited
        BY <1>7 DEF ActiveCall
      <4>2. cs[i].bb # b
        BY <4>1, <3>2, <1>4, <1>14
      <4>3. \A j \in 1 .. n : cs[i].bb = cs[j].bb => i = j
        BY <3>1, <2>2, <1>4 DEF ActiveCall
      <4> QED BY <4>2, <4>3, <2>1, <2>2
    <3>4. \A j \in 1 .. i - 1 : cs[j] = stepped[j]
      BY <3>2
    <3> QED BY <3>1, <3>2, <3>3, <3>4, <2>2 DEF ActiveCall
  <2>6. ActiveCall(fn, vis, cs, n + 1)
    <3>1. \A j \in 1 .. n + 1 : cs[j].bb = b => n + 1 = j
      <4>1. \A j \in 1 .. n : calls[j].bb \in visited
        BY <1>7 DEF ActiveCall
      <4> QED BY <4>1, <1>4, <1>14, <2>2
    <3>2. ASSUME NEW a \in fn.blocks, Dominates(fn, a, b) PROVE \E j \in 1 .. n + 1 : cs[j].bb = a
      <4>1. CASE a = b
        BY <4>1, <1>4, <2>1, <2>2
      <4>2. CASE a # b
        <5>1. Dominates(fn, a, p)
          BY <4>2, <3>2, <1>1, <1>5, <1>8, DominatesBefore
        <5>2. PICK j \in 1 .. n : calls[j].bb = a
          BY <5>1, <1>4, <1>6, <1>7 DEF ActiveCall
        <5>3. cs[j].bb = a /\ j \in 1 .. n + 1
          BY <5>2, <1>4, <2>2
        <5> QED BY <5>3
      <4> QED BY <4>1, <4>2
    <3>3. \E j \in 1 .. (n + 1) - 1 : cs[j].bb \in Range(fn.pre[b])
      <4>1. n \in 1 .. (n + 1) - 1 /\ cs[n].bb = p
        BY <1>4, <1>6, <2>2
      <4> QED BY <4>1, <1>5
    <3>4. \A j \in DOMAIN fn.succ[b] : j \in Nat \ {0}
      <4>1. DOMAIN fn.succ[b] = 1 .. Len(fn.succ[b]) /\ Len(fn.succ[b]) \in Nat
        BY <1>1, <1>5, FlowFacts
      <4> QED BY <4>1
    <3> QED BY <3>1, <3>2, <3>3, <3>4, <2>1, <2>2 DEF ActiveCall
  <2>7. Searched(fn, vis, cs, post_order, post_order_id)
    <3>1. vis \subseteq Reachable(fn) /\ Entry \in vis
      BY <1>7, <1>9
    <3>2. \A x \in vis : OnStack(cs, x) \/ \E i \in DOMAIN post_order : post_order[i] = x
      BY <1>7, <2>3
    <3>3. \A i \in 1 .. n + 1 : ActiveCall(fn, vis, cs, i)
      BY <2>2, <2>5, <2>6
    <3> HIDE DEF vis
    <3> QED BY <3>1, <3>2, <3>3, <2>2, <2>4, <1>7 DEF Searched, R
  <2>8. calls' = cs /\ visited' = vis
    BY <1>1, <1>14 DEF cs
  <2> HIDE DEF vis
  <2> QED BY <1>1, <2>7, <2>8 DEF Inv, Phases
<1> QED BY <1>13, <1>14

LEMMA FinishBlockInv == Inv /\ FinishBlock => Inv'
<1> SUFFICES ASSUME Inv, FinishBlock PROVE Inv'
  OBVIOUS
<1> DEFINE R == [bb : fn.blocks, next : Nat \ {0}]
           n == Len(calls)
           l == Len(post_order)
           b == calls[n].bb
           cs == SubSeq(calls, 1, n - 1)
           po == Append(post_order, b)
           id == [post_order_id EXCEPT ![b] = l]
<1>1. /\ FlowGraph(fn) /\ fn' = fn /\ phase' = "visit" /\ phase = "visit"
      /\ dom_frontier' = [x \in Keys |-> {}] /\ Keys' = Keys
      /\ calls # <<>> /\ calls[n].next > Len(fn.succ[b])
      /\ calls' = cs /\ post_order' = po /\ post_order_id' = id /\ visited' = visited
  BY DEF Inv, FinishBlock, NextNumber, TopCall, Keys, frontierVars
<1>2. Searched(fn, visited, calls, post_order, post_order_id)
  BY <1>1 DEF Inv
<1>3. calls \in Seq(R) /\ post_order \in Seq(fn.blocks) /\ post_order_id \in [fn.blocks -> Nat]
  BY <1>2 DEF Searched
<1>4. b \in fn.blocks /\ calls[n].next \in Nat \ {0} /\ n \in 1 .. n
  <2>1. calls[n] \in R /\ n \in 1 .. n
    <3> HIDE DEF R
    <3> QED BY <1>1, <1>3
  <2> QED BY <2>1
<1>5. /\ n \in Nat \ {0} /\ DOMAIN calls = 1 .. n
      /\ cs \in Seq(R) /\ DOMAIN cs = 1 .. n - 1
      /\ \A i \in 1 .. n - 1 : cs[i] = calls[i]
      /\ \A i \in 1 .. n : i # n => i \in 1 .. n - 1
  <2> HIDE DEF R
  <2> QED BY <1>1, <1>3, Popped
<1>6. /\ l \in Nat /\ DOMAIN post_order = 1 .. l
      /\ po \in Seq(fn.blocks) /\ DOMAIN po = 1 .. l + 1 /\ po[l + 1] = b
      /\ \A i \in 1 .. l : po[i] = post_order[i]
      /\ \A i \in 1 .. l + 1 : i # l + 1 => i \in 1 .. l
  <2>1. post_order \in Seq(fn.blocks) /\ b \in fn.blocks
    BY <1>3, <1>4
  <2> HIDE DEF R, n, b, cs, id
  <2> QED BY <2>1, Pushed
<1>7. id \in [fn.blocks -> Nat] /\ id[b] = l /\ \A x \in fn.blocks : x # b => id[x] = post_order_id[x]
  BY <1>3, <1>4, <1>6
<1>8. calls[n].bb = b
  OBVIOUS
<1> HIDE DEF R, n, l, b, cs, po, id
<1>9. /\ \A i \in 1 .. n : ActiveCall(fn, visited, calls, i)
      /\ \A i \in 1 .. l : FinishedBlock(fn, visited, calls, post_order, post_order_id, i)
      /\ visited \subseteq Reachable(fn) /\ Entry \in visited
      /\ \A x \in visited : OnStack(calls, x) \/ \E i \in DOMAIN post_order : post_order[i] = x
  BY <1>2, <1>5, <1>6 DEF Searched
<1>10. ActiveCall(fn, visited, calls, n)
  BY <1>4, <1>9
<1>11. \A x : OnStack(calls, x) <=> OnStack(cs, x) \/ x = b
  <2>1. \A i \in 1 .. n - 1 : i \in 1 .. n
    BY <1>5
  <2>2. \A x : OnStack(cs, x) => OnStack(calls, x)
    BY <1>5, <2>1 DEF OnStack
  <2>3. \A x : OnStack(calls, x) => OnStack(cs, x) \/ x = b
    BY <1>5, <1>8 DEF OnStack
  <2>4. OnStack(calls, b)
    BY <1>4, <1>5, <1>8 DEF OnStack
  <2> QED BY <2>2, <2>3, <2>4
<1>12. ~OnStack(cs, b)
  <2>1. \A j \in 1 .. n - 1 : j \in 1 .. n /\ j # n
    BY <1>5
  <2>2. \A j \in 1 .. n - 1 : calls[j].bb # b
    BY <2>1, <1>5, <1>8, <1>10 DEF ActiveCall
  <2> QED BY <2>2, <1>5 DEF OnStack
<1>13. ASSUME NEW i \in 1 .. n - 1 PROVE ActiveCall(fn, visited, cs, i)
  <2>1. ActiveCall(fn, visited, calls, i) /\ i \in 1 .. n
    BY <1>5, <1>9
  <2>2. cs[i] = calls[i] /\ \A j \in 1 .. i : cs[j] = calls[j] /\ j \in 1 .. n
    BY <1>5
  <2>3. \A j \in 1 .. i - 1 : cs[j] = calls[j]
    BY <2>2
  <2>4. \A j \in 1 .. n - 1 : cs[i].bb = cs[j].bb => i = j
    BY <1>5, <2>1 DEF ActiveCall
  <2> QED BY <2>1, <2>2, <2>3, <2>4, <1>5 DEF ActiveCall
<1>14. \A i \in 1 .. l : \A x :
         FinishesAfter(calls, post_order, i, x) => FinishesAfter(cs, po, i, x)
  <2> TAKE i \in 1 .. l
  <2> TAKE x
  <2>1. HAVE FinishesAfter(calls, post_order, i, x)
  <2>2. CASE \E j \in 1 .. l : j > i /\ post_order[j] = x
    <3>1. PICK j \in 1 .. l : j > i /\ post_order[j] = x
      BY <2>2
    <3>2. j \in 1 .. l + 1 /\ po[j] = x
      BY <3>1, <1>6
    <3> QED BY <3>1, <3>2, <1>6 DEF FinishesAfter
  <2>3. CASE x = b
    <3>1. l + 1 \in 1 .. l + 1 /\ l + 1 > i
      BY <1>6
    <3> QED BY <2>3, <3>1, <1>6 DEF FinishesAfter
  <2>4. CASE OnStack(cs, x)
    BY <2>4 DEF FinishesAfter
  <2> QED BY <2>1, <2>2, <2>3, <2>4, <1>6, <1>11 DEF FinishesAfter
<1>15. ASSUME NEW i \in 1 .. l PROVE FinishedBlock(fn, visited, cs, po, id, i)
  <2>1. FinishedBlock(fn, visited, calls, post_order, post_order_id, i) /\ po[i] = post_order[i]
    BY <1>6, <1>9
  <2>2. ~OnStack(calls, po[i]) /\ po[i] \in visited /\ post_order_id[po[i]] = i - 1
    BY <2>1 DEF FinishedBlock
  <2>3. ~OnStack(cs, po[i]) /\ po[i] # b
    BY <2>2, <1>11
  <2>4. po[i] \in fn.blocks
    BY <1>6, <1>3, <2>1
  <2>5. id[po[i]] = i - 1
    BY <2>2, <2>3, <2>4, <1>7
  <2> QED BY <2>1, <2>3, <2>5, <1>14 DEF FinishedBlock
<1>16. FinishedBlock(fn, visited, cs, po, id, l + 1)
  <2>1. Range(fn.succ[b]) \subseteq visited
    <3>1. DOMAIN fn.succ[b] = 1 .. Len(fn.succ[b]) /\ Len(fn.succ[b]) \in Nat
      BY <1>1, <1>4, FlowFacts
    <3>2. \A j \in 1 .. Len(fn.succ[b]) : j < calls[n].next
      BY <3>1, <1>1, <1>4
    <3>3. \A j \in DOMAIN fn.succ[b] : fn.succ[b][j] \in visited
      BY <3>1, <3>2, <1>8, <1>10 DEF ActiveCall
    <3> QED BY <3>3 DEF Range
  <2>2. ASSUME NEW a \in fn.blocks, Dominates(fn, a, b), a # b PROVE OnStack(cs, a)
    <3>1. PICK j \in 1 .. n : calls[j].bb = a
      BY <2>2, <1>8, <1>10 DEF ActiveCall
    <3>2. j \in 1 .. n - 1
      BY <3>1, <2>2, <1>5, <1>8
    <3> QED BY <3>1, <3>2, <1>5 DEF OnStack
  <2>3. b # Entry => \E x \in Range(fn.pre[b]) : OnStack(cs, x)
    <3>1. HAVE b # Entry
    <3>2. PICK j \in 1 .. n - 1 : calls[j].bb \in Range(fn.pre[b])
      BY <3>1, <1>8, <1>10 DEF ActiveCall
    <3> QED BY <3>2, <1>5 DEF OnStack
  <2>4. b \in visited /\ id[b] = (l + 1) - 1
    BY <1>6, <1>7, <1>8, <1>10 DEF ActiveCall
  <2> QED BY <2>1, <2>2, <2>3, <2>4, <1>6, <1>12 DEF FinishedBlock, FinishesAfter
<1>17. \A x \in visited : OnStack(cs, x) \/ \E i \in 1 .. l + 1 : po[i] = x
  <2>1. l + 1 \in 1 .. l + 1 /\ \A i \in 1 .. l : i \in 1 .. l + 1
    BY <1>6
  <2> QED BY <2>1, <1>6, <1>9, <1>11
<1>18. Searched(fn, visited, cs, po, id)
  <2>1. \A i \in 1 .. l + 1 : FinishedBlock(fn, visited, cs, po, id, i)
    BY <1>6, <1>15, <1>16
  <2> QED BY <2>1, <1>5, <1>6, <1>7, <1>9, <1>13, <1>17 DEF Searched, R
<1> QED BY <1>1, <1>18 DEF Inv, Phases

\* Once every call has returned, the visited blocks are the reachable ones.
LEMMA SearchEnds ==
  ASSUME NEW f, FlowGraph(f), NEW vis, NEW po, NEW id, Searched(f, vis, <<>>, po, id)
  PROVE  Numbered(f, po, id)
<1>1. /\ vis \subseteq Reachable(f) /\ Entry \in vis
      /\ po \in Seq(f.blocks) /\ id \in [f.blocks -> Nat]
  BY DEF Searched
<1>2. \A x : ~OnStack(<<>>, x)
  BY DEF OnStack
<1>3. \A b \in vis : \E i \in DOMAIN po : po[i] = b
  BY <1>2 DEF Searched
<1>4. \A i \in DOMAIN po : FinishedBlock(f, vis, <<>>, po, id, i)
  BY DEF Searched
<1>5. \A i \in DOMAIN po : po[i] \in vis /\ id[po[i]] = i - 1 /\ Range(f.succ[po[i]]) \subseteq vis
  BY <1>4 DEF FinishedBlock
<1>6. \A b \in vis : Range(f.succ[b]) \subseteq vis
  BY <1>3, <1>5
<1>7. vis = Reachable(f)
  <2>1. Reachable(f) \subseteq f.blocks
    BY ReachableFacts
  <2>2. vis \in SUBSET f.blocks
    BY <2>1, <1>1
  <2>3. Reachable(f) \subseteq vis
    BY <2>2, <1>1, <1>6, ReachableFacts
  <2> QED BY <2>3, <1>1
<1>8. DOMAIN po = 1 .. Len(po) /\ Len(po) \in Nat
  BY <1>1
<1>9. \A i \in DOMAIN po : \A x : FinishesAfter(<<>>, po, i, x) =>
        \E j \in DOMAIN po : j > i /\ po[j] = x
  BY <1>2 DEF FinishesAfter
<1>10. \A i \in DOMAIN po : \A x : FinishesAfter(<<>>, po, i, x) => x \in vis /\ id[x] > id[po[i]]
  <2> TAKE i \in DOMAIN po
  <2> TAKE x
  <2>1. HAVE FinishesAfter(<<>>, po, i, x)
  <2>2. PICK j \in DOMAIN po : j > i /\ po[j] = x
    BY <2>1, <1>9
  <2>3. id[po[i]] = i - 1 /\ id[x] = j - 1 /\ x \in vis
    BY <2>2, <1>5
  <2> QED BY <2>2, <2>3, <1>8
<1>11. \A a, b \in f.blocks : Dominates(f, a, b) /\ a # b => id[b] < id[a]
  <2> TAKE a, b \in f.blocks
  <2>1. HAVE Dominates(f, a, b) /\ a # b
  <2>2. b \in vis
    BY <2>1, <1>7 DEF Dominates
  <2>3. PICK i \in DOMAIN po : po[i] = b
    BY <2>2, <1>3
  <2>4. FinishesAfter(<<>>, po, i, a)
    BY <2>1, <2>3, <1>4 DEF FinishedBlock
  <2>5. id[a] > id[b] /\ id[a] \in Nat /\ id[b] \in Nat
    BY <2>3, <2>4, <1>1, <1>10
  <2> QED BY <2>5
<1>12. \A b \in Reachable(f) \ {Entry} :
         \E p \in Range(f.pre[b]) \cap Reachable(f) : id[b] < id[p]
  <2> TAKE b \in Reachable(f) \ {Entry}
  <2>1. PICK i \in DOMAIN po : po[i] = b
    BY <1>3, <1>7
  <2>2. PICK p \in Range(f.pre[b]) : FinishesAfter(<<>>, po, i, p)
    BY <2>1, <1>4 DEF FinishedBlock
  <2>3. p \in Reachable(f) /\ id[p] > id[b]
    BY <2>1, <2>2, <1>7, <1>10
  <2>4. p \in f.blocks /\ b \in f.blocks
    BY <2>3, ReachableFacts
  <2>5. id[b] < id[p]
    BY <2>3, <2>4, <1>1
  <2> QED BY <2>3, <2>5
<1>13. po \in Seq(Reachable(f))
  <2>1. \A i \in 1 .. Len(po) : po[i] \in Reachable(f)
    BY <1>5, <1>7, <1>8
  <2>2. po = [i \in 1 .. Len(po) |-> po[i]]
    BY <1>1
  <2> QED BY <2>1, <2>2, <1>8, SeqDef
<1> QED BY <1>1, <1>3, <1>5, <1>7, <1>11, <1>12, <1>13 DEF Numbered

-----------------------------------------------------------------------------
(* The tree of immediate dominators, while it is computed.                 *)

LEMMA AncestorsFacts ==
  ASSUME NEW f, FlowGraph(f), NEW up \in [f.blocks -> f.blocks \cup {Null}], NEW b \in f.blocks
  PROVE  LET A == Ancestors(f, up, b)
         IN  /\ A \subseteq f.blocks /\ b \in A
             /\ \A x \in A : up[x] # Null => up[x] \in A
             /\ \A C \in SUBSET f.blocks :
                  b \in C /\ (\A x \in C : up[x] # Null => up[x] \in C) => A \subseteq C
<1> DEFINE next == [x \in f.blocks |-> {up[x]} \ {Null}]
           A == ReachedFrom(next, {b})
<1>1. /\ IsFiniteSet(DOMAIN next) /\ DOMAIN next = f.blocks /\ {b} \subseteq f.blocks
      /\ \A x \in f.blocks : next[x] = {up[x]} \ {Null}
      /\ \A x \in f.blocks : next[x] \subseteq f.blocks
  BY FlowFacts
<1>2. A = Ancestors(f, up, b)
  BY DEF Ancestors
<1> HIDE DEF next
<1>3. A \subseteq f.blocks /\ \A x \in A : next[x] \subseteq A
  BY <1>1, ReachedIsClosed
<1>4. {b} \subseteq A
  BY <1>1, ReachedContains
<1>5. ASSUME NEW C \in SUBSET f.blocks, {b} \subseteq C, \A x \in C : next[x] \subseteq C
      PROVE  A \subseteq C
  BY <1>1, <1>5, ReachedIsLeast
<1> HIDE DEF A
<1> QED BY <1>1, <1>2, <1>3, <1>4, <1>5

LEMMA AncestorsTransitive ==
  ASSUME NEW f, FlowGraph(f), NEW up \in [f.blocks -> f.blocks \cup {Null}], NEW b \in f.blocks,
         NEW x \in Ancestors(f, up, b)
  PROVE  Ancestors(f, up, x) \subseteq Ancestors(f, up, b)
<1> DEFINE A == Ancestors(f, up, b)
<1>1. A \in SUBSET f.blocks /\ \A y \in A : up[y] # Null => up[y] \in A
  BY AncestorsFacts
<1>2. x \in f.blocks
  BY <1>1
<1> HIDE DEF A
<1>3. x \in A
  BY DEF A
<1> QED BY <1>1, <1>2, <1>3, AncestorsFacts DEF A

\* Whatever is above a block is itself, or above its immediate dominator.
LEMMA AncestorsSplit ==
  ASSUME NEW f, FlowGraph(f), NEW up \in [f.blocks -> f.blocks \cup {Null}], NEW b \in f.blocks,
         up[b] # Null, NEW x \in Ancestors(f, up, b)
  PROVE  x = b \/ x \in Ancestors(f, up, up[b])
<1> DEFINE A == Ancestors(f, up, up[b])
           C == {b} \cup A
<1>1. /\ up[b] \in f.blocks /\ up[b] \in A /\ A \subseteq f.blocks
      /\ \A y \in A : up[y] # Null => up[y] \in A
  BY AncestorsFacts
<1> HIDE DEF A
<1>2. C \in SUBSET f.blocks /\ b \in C /\ \A y \in C : up[y] # Null => up[y] \in C
  BY <1>1
<1> HIDE DEF C
<1>3. x \in C
  BY <1>2, AncestorsFacts
<1> QED BY <1>3 DEF C, A

LEMMA TreeFacts ==
  ASSUME NEW f, FlowGraph(f), NEW po, NEW id, Numbered(f, po, id), NEW up, Tree(f, id, up),
         NEW b \in f.blocks, up[b] # Null
  PROVE  /\ up \in [f.blocks -> f.blocks \cup {Null}]
         /\ b \in Reachable(f) /\ up[b] \in f.blocks /\ up[up[b]] # Null
         /\ b # Entry => id[b] < id[up[b]] /\ Covers(f, up[b], b)
         /\ \A x \in Ancestors(f, up, b) : x \in f.blocks /\ up[x] # Null /\ id[b] <= id[x]
<1>1. /\ up \in [f.blocks -> f.blocks \cup {Null}] /\ up[b] \in f.blocks
      /\ b \in Reachable(f) /\ up[up[b]] # Null
      /\ b # Entry => id[b] < id[up[b]] /\ Covers(f, up[b], b)
  BY DEF Tree
<1>2. id \in [f.blocks -> Nat]
  BY DEF Numbered
<1> DEFINE C == {x \in f.blocks : up[x] # Null /\ id[b] <= id[x]}
<1>3. ASSUME NEW x \in C PROVE up[x] \in C
  <2>1. x \in f.blocks /\ up[x] # Null /\ up[x] \in f.blocks /\ up[up[x]] # Null /\ id[b] <= id[x]
    BY DEF Tree
  <2>2. CASE x = Entry
    BY <2>1, <2>2 DEF Tree
  <2>3. CASE x # Entry
    <3>1. id[x] < id[up[x]]
      BY <2>1, <2>3 DEF Tree
    <3>2. id[b] <= id[up[x]]
      BY <1>2, <2>1, <3>1
    <3> QED BY <2>1, <3>2
  <2> QED BY <2>2, <2>3
<1>4. C \in SUBSET f.blocks /\ b \in C
  BY <1>2
<1>5. Ancestors(f, up, b) \subseteq C
  <2> HIDE DEF C
  <2> QED BY <1>1, <1>3, <1>4, AncestorsFacts
<1> QED BY <1>1, <1>5

\* A finger of intersect that moves up does not pass a dominator of b: the other
\* finger has a greater number than it.
LEMMA FingerCovers ==
  ASSUME NEW f, FlowGraph(f), NEW po, NEW id, Numbered(f, po, id), NEW up, Tree(f, id, up),
         NEW b, NEW x \in f.blocks, NEW y \in f.blocks, up[x] # Null, id[x] < id[y],
         Covers(f, x, b), Covers(f, y, b)
  PROVE  Covers(f, up[x], b)
<1> SUFFICES ASSUME NEW a \in f.blocks, Dominates(f, a, b), a # b
             PROVE  Dominates(f, a, up[x])
  BY DEF Covers
<1>1. Dominates(f, a, x) /\ Dominates(f, a, y)
  BY DEF Covers
<1>2. id[x] \in Nat /\ id[y] \in Nat
  BY DEF Numbered
<1>3. a # x
  <2>1. SUFFICES ASSUME a = x PROVE FALSE
    OBVIOUS
  <2>2. x # y
    BY <1>2
  <2>3. id[y] < id[x]
    BY <1>1, <2>1, <2>2 DEF Numbered
  <2> QED BY <1>2, <2>3
<1>4. x # Entry
  BY <1>1, <1>3, EntryDominator
<1>5. Covers(f, up[x], x)
  BY <1>4, TreeFacts
<1> QED BY <1>1, <1>3, <1>5 DEF Covers

LEMMA PredecessorCovers ==
  ASSUME NEW f, FlowGraph(f), NEW b \in f.blocks, NEW p \in Range(f.pre[b]), p \in Reachable(f)
  PROVE  p \in f.blocks /\ Covers(f, p, b)
<1>1. p \in f.blocks /\ b \in Range(f.succ[p])
  BY FlowFacts
<1> QED BY <1>1, DominatesBefore DEF Covers

-----------------------------------------------------------------------------
(* create_idom.                                                            *)

Passes == {"sweep", "scan", "intersect"}

LEMMA SweepFacts ==
  ASSUME Inv, phase \in Passes
  PROVE  /\ FlowGraph(fn) /\ fn.blocks \subseteq Nat \ {0}
         /\ Numbered(fn, post_order, post_order_id)
         /\ Tree(fn, post_order_id, idom)
         /\ Swept(fn, post_order, idom, at, ~changed) /\ changed \in BOOLEAN
         /\ at \in 0 .. Len(post_order) /\ Len(post_order) \in Nat
         /\ DOMAIN post_order = 1 .. Len(post_order)
         /\ idom \in [fn.blocks -> fn.blocks \cup {Null}]
         /\ post_order_id \in [fn.blocks -> Nat]
         /\ dom_frontier = [b \in Keys |-> {}]
         /\ at > 0 => /\ at \in DOMAIN post_order /\ bb \in Reachable(fn) /\ bb \in fn.blocks
                      /\ post_order_id[bb] = at - 1
<1>1. /\ FlowGraph(fn) /\ Numbered(fn, post_order, post_order_id)
      /\ Tree(fn, post_order_id, idom)
      /\ Swept(fn, post_order, idom, at, ~changed) /\ changed \in BOOLEAN
      /\ dom_frontier = [b \in Keys |-> {}]
  BY DEF Inv, Passes
<1>2. /\ at \in 0 .. Len(post_order) /\ post_order \in Seq(Reachable(fn))
      /\ post_order_id \in [fn.blocks -> Nat]
      /\ idom \in [fn.blocks -> fn.blocks \cup {Null}]
  BY <1>1 DEF Swept, Numbered, Tree
<1>3. Len(post_order) \in Nat /\ DOMAIN post_order = 1 .. Len(post_order)
  BY <1>2
<1>4. ASSUME at > 0
      PROVE  /\ at \in DOMAIN post_order /\ bb \in Reachable(fn) /\ bb \in fn.blocks
             /\ post_order_id[bb] = at - 1
  <2>1. at \in DOMAIN post_order
    BY <1>2, <1>3, <1>4
  <2>2. bb \in Reachable(fn)
    BY <1>2, <2>1 DEF bb
  <2>3. bb \in fn.blocks
    BY <1>1, <2>2, ReachableFacts
  <2>4. post_order_id[bb] = at - 1
    BY <1>1, <2>1 DEF Numbered, bb
  <2> QED BY <2>1, <2>2, <2>3, <2>4
<1>5. fn.blocks \subseteq Nat \ {0}
  BY <1>1, FlowFacts
<1> QED BY <1>1, <1>2, <1>3, <1>4, <1>5

\* The block that post_order_visit came from has been passed by the sweep.
LEMMA ParentPassed ==
  ASSUME Inv, phase \in Passes, at > 0, bb # Entry
  PROVE  \E p \in Range(fn.pre[bb]) :
           /\ p \in fn.blocks /\ p \in Reachable(fn) /\ idom[p] # Null
           /\ post_order_id[bb] < post_order_id[p]
<1>1. PICK p \in Range(fn.pre[bb]) \cap Reachable(fn) : post_order_id[bb] < post_order_id[p]
  BY SweepFacts DEF Numbered
<1>2. p \in fn.blocks
  BY SweepFacts, ReachableFacts
<1>3. PICK i \in DOMAIN post_order : post_order[i] = p
  BY SweepFacts DEF Numbered
<1>4. post_order_id[p] = i - 1
  BY <1>3, SweepFacts DEF Numbered
<1>5. i > at
  BY <1>1, <1>4, SweepFacts
<1>6. idom[p] # Null
  BY <1>3, <1>5, SweepFacts DEF Swept
<1> QED BY <1>1, <1>2, <1>6

LEMMA InitIdomInv == Inv /\ InitIdom => Inv'
<1> SUFFICES ASSUME Inv, InitIdom PROVE Inv'
  OBVIOUS
<1> DEFINE up == [b \in fn.blocks |-> IF b = Entry THEN Entry ELSE Null]
           l == Len(post_order)
<1>1. /\ FlowGraph(fn) /\ fn' = fn /\ phase' = "sweep" /\ calls = <<>>
      /\ Searched(fn, visited, calls, post_order, post_order_id)
      /\ post_order' = post_order /\ post_order_id' = post_order_id
      /\ idom' = up /\ changed' = FALSE /\ at' = l
      /\ dom_frontier' = [b \in Keys |-> {}] /\ Keys' = Keys
  BY DEF Inv, InitIdom, orderVars, frontierVars, Keys
<1>2. Numbered(fn, post_order, post_order_id)
  BY <1>1, SearchEnds
<1>3. Entry \in fn.blocks /\ Entry \in Reachable(fn) /\ Entry # Null
  BY <1>1, FlowFacts, ReachableFacts DEF Entry, Null
<1>4. Tree(fn, post_order_id, up)
  BY <1>3 DEF Tree
<1>5. post_order \in Seq(Reachable(fn))
  BY <1>2 DEF Numbered
<1>6. Swept(fn, post_order, up, l, TRUE)
  <2>1. l \in Nat /\ DOMAIN post_order = 1 .. l
    BY <1>5
  <2>2. \A i \in DOMAIN post_order : ~(i > l)
    BY <2>1
  <2> HIDE DEF l, up
  <2> QED BY <2>1, <2>2 DEF Swept, l
<1> HIDE DEF up, l
<1> QED BY <1>1, <1>2, <1>4, <1>6 DEF Inv, Phases

LEMMA SkipRootInv == Inv /\ SkipRoot => Inv'
<1> SUFFICES ASSUME Inv, SkipRoot PROVE Inv'
  OBVIOUS
<1>1. /\ fn' = fn /\ phase' = "sweep" /\ phase = "sweep" /\ at > 0 /\ bb = Entry
      /\ post_order' = post_order /\ post_order_id' = post_order_id
      /\ idom' = idom /\ changed' = changed /\ at' = at - 1
      /\ dom_frontier' = dom_frontier /\ Keys' = Keys
  BY DEF SkipRoot, orderVars, idomVars, frontierVars, Keys
<1>2. phase \in Passes
  BY <1>1 DEF Passes
<1>3. Swept(fn, post_order, idom, at - 1, ~changed)
  <2>1. idom[Entry] # Null
    BY <1>2, SweepFacts DEF Tree, Entry, Null
  <2>2. post_order[at] = Entry
    BY <1>1 DEF bb
  <2>3. \A i \in DOMAIN post_order : i > at - 1 => i > at \/ i = at
    BY <1>2, SweepFacts
  <2>4. at - 1 \in 0 .. Len(post_order)
    BY <1>1, <1>2, SweepFacts
  <2>5. Swept(fn, post_order, idom, at, ~changed)
    BY <1>2, SweepFacts
  <2> QED BY <2>1, <2>2, <2>3, <2>4, <2>5 DEF Swept
<1> QED BY <1>1, <1>2, <1>3, SweepFacts DEF Inv, Phases

\* The predecessor create_idom begins with.
LEMMA FirstFacts ==
  ASSUME Inv, phase \in Passes, at > 0, bb # Entry
  PROVE  /\ FirstProcessed(bb) # Null /\ FirstProcessed(bb) \in Range(fn.pre[bb])
         /\ FirstProcessed(bb) \in fn.blocks /\ idom[FirstProcessed(bb)] # Null
<1> DEFINE found == {i \in 1 .. Len(fn.pre[bb]) : idom[fn.pre[bb][i]] # Null}
           i0 == CHOOSE i \in found : \A j \in found : i <= j
<1>1. bb \in fn.blocks /\ FlowGraph(fn) /\ fn.blocks \subseteq Nat \ {0}
  BY SweepFacts
<1>2. /\ Len(fn.pre[bb]) \in Nat /\ DOMAIN fn.pre[bb] = 1 .. Len(fn.pre[bb])
      /\ \A i \in 1 .. Len(fn.pre[bb]) : fn.pre[bb][i] \in Range(fn.pre[bb])
      /\ Range(fn.pre[bb]) \subseteq fn.blocks
  BY <1>1, FlowFacts
<1>3. PICK p \in Range(fn.pre[bb]) : idom[p] # Null
  BY ParentPassed
<1>4. PICK j \in 1 .. Len(fn.pre[bb]) : fn.pre[bb][j] = p
  BY <1>2 DEF Range
<1>5. found \in SUBSET Nat /\ found # {}
  BY <1>2, <1>3, <1>4
<1>6. i0 \in found
  <2> HIDE DEF found
  <2> QED BY <1>5, LeastNumber
<1>7. FirstProcessed(bb) = fn.pre[bb][i0]
  BY <1>5 DEF FirstProcessed
<1>8. i0 \in 1 .. Len(fn.pre[bb]) /\ idom[fn.pre[bb][i0]] # Null
  BY <1>6
<1> HIDE DEF found, i0
<1>9. fn.pre[bb][i0] \in Range(fn.pre[bb]) /\ fn.pre[bb][i0] \in fn.blocks
  BY <1>2, <1>8
<1> QED BY <1>1, <1>7, <1>8, <1>9 DEF Null

\* A processed predecessor of the block at hand.
LEMMA PredecessorFacts ==
  ASSUME Inv, phase \in Passes, at > 0, NEW p \in Range(fn.pre[bb]), idom[p] # Null
  PROVE  /\ p \in fn.blocks /\ p \in Reachable(fn) /\ Covers(fn, p, bb)
         /\ p \in Ancestors(fn, idom, p)
<1>1. FlowGraph(fn) /\ bb \in fn.blocks /\ idom \in [fn.blocks -> fn.blocks \cup {Null}]
  BY SweepFacts
<1>2. p \in fn.blocks
  BY <1>1, FlowFacts
<1>3. p \in Reachable(fn)
  BY <1>2, SweepFacts DEF Tree
<1> QED BY <1>1, <1>2, <1>3, PredecessorCovers, AncestorsFacts

LEMMA StartBlockInv == Inv /\ StartBlock => Inv'
<1> SUFFICES ASSUME Inv, StartBlock PROVE Inv'
  OBVIOUS
<1>1. /\ fn' = fn /\ phase = "sweep" /\ at > 0 /\ bb # Entry
      /\ post_order' = post_order /\ post_order_id' = post_order_id
      /\ idom' = idom /\ changed' = changed /\ at' = at /\ bb' = bb
      /\ dom_frontier' = dom_frontier /\ Keys' = Keys
      /\ first' = FirstProcessed(bb) /\ new_idom' = FirstProcessed(bb) /\ k' = 1
      /\ phase' = IF first' = Null THEN "aborted" ELSE "scan"
  BY DEF StartBlock, orderVars, frontierVars, Keys, bb
<1>2. phase \in Passes
  BY <1>1 DEF Passes
<1> DEFINE p == FirstProcessed(bb)
<1>3. /\ p # Null /\ p \in Range(fn.pre[bb]) /\ p \in fn.blocks /\ idom[p] # Null
      /\ Covers(fn, p, bb) /\ p \in Ancestors(fn, idom, p)
  BY <1>1, <1>2, FirstFacts, PredecessorFacts
<1> HIDE DEF p
<1>4. phase' = "scan"
  BY <1>1, <1>3 DEF p
<1>5. Joined(fn, idom, bb, p, 0)
  BY <1>3 DEF Joined
<1>6. Scanning'
  BY <1>1, <1>3, <1>5 DEF Scanning, p
<1> QED BY <1>1, <1>2, <1>4, <1>6, SweepFacts DEF Inv, Phases

LEMMA ScanFacts ==
  ASSUME Inv, phase \in {"scan", "intersect"}
  PROVE  /\ phase \in Passes
         /\ at > 0 /\ bb # Entry /\ k \in Nat \ {0}
         /\ first \in Range(fn.pre[bb]) /\ idom[first] # Null
         /\ new_idom \in fn.blocks /\ idom[new_idom] # Null /\ Covers(fn, new_idom, bb)
         /\ \A j \in 1 .. k - 1 :
              j <= Len(fn.pre[bb]) /\ idom[fn.pre[bb][j]] # Null
                => new_idom \in Ancestors(fn, idom, fn.pre[bb][j])
         /\ new_idom \in Ancestors(fn, idom, first)
         /\ Len(fn.pre[bb]) \in Nat /\ DOMAIN fn.pre[bb] = 1 .. Len(fn.pre[bb])
         /\ \A j \in 1 .. Len(fn.pre[bb]) : fn.pre[bb][j] \in Range(fn.pre[bb])
<1>1. phase \in Passes
  BY DEF Passes
<1>2. Scanning
  BY DEF Inv
<1>3. FlowGraph(fn) /\ bb \in fn.blocks
  BY <1>1, <1>2, SweepFacts DEF Scanning
<1> QED BY <1>1, <1>2, <1>3, FlowFacts DEF Scanning, Joined

LEMMA SkipPredecessorInv == Inv /\ SkipPredecessor => Inv'
<1> SUFFICES ASSUME Inv, SkipPredecessor PROVE Inv'
  OBVIOUS
<1>1. /\ fn' = fn /\ phase = "scan" /\ phase' = "scan" /\ k <= Len(fn.pre[bb])
      /\ fn.pre[bb][k] = first \/ idom[fn.pre[bb][k]] = Null
      /\ post_order' = post_order /\ post_order_id' = post_order_id
      /\ idom' = idom /\ changed' = changed /\ at' = at /\ bb' = bb
      /\ dom_frontier' = dom_frontier /\ Keys' = Keys
      /\ first' = first /\ new_idom' = new_idom /\ k' = k + 1
  BY DEF SkipPredecessor, orderVars, idomVars, frontierVars, Keys, bb
<1>2. phase \in {"scan", "intersect"}
  BY <1>1
<1>3. \A j \in 1 .. k : j = k \/ j \in 1 .. k - 1
  BY <1>2, ScanFacts
<1>4. Joined(fn, idom, bb, new_idom, k)
  BY <1>1, <1>2, <1>3, ScanFacts DEF Joined
<1>5. Scanning'
  <2>1. (k + 1) - 1 = k /\ k + 1 \in Nat \ {0}
    BY <1>2, ScanFacts
  <2> QED BY <2>1, <1>1, <1>2, <1>4, ScanFacts DEF Scanning
<1> QED BY <1>1, <1>2, <1>5, ScanFacts, SweepFacts DEF Inv, Phases

LEMMA CallIntersectInv == Inv /\ CallIntersect => Inv'
<1> SUFFICES ASSUME Inv, CallIntersect PROVE Inv'
  OBVIOUS
<1>1. /\ fn' = fn /\ phase = "scan" /\ phase' = "intersect" /\ k <= Len(fn.pre[bb])
      /\ idom[fn.pre[bb][k]] # Null
      /\ post_order' = post_order /\ post_order_id' = post_order_id
      /\ idom' = idom /\ changed' = changed /\ at' = at /\ bb' = bb
      /\ dom_frontier' = dom_frontier /\ Keys' = Keys
      /\ first' = first /\ new_idom' = new_idom /\ k' = k
      /\ b1' = fn.pre[bb][k] /\ b2' = new_idom
  BY DEF CallIntersect, orderVars, frontierVars, Keys, bb
<1>2. phase \in {"scan", "intersect"} /\ phase \in Passes
  BY <1>1 DEF Passes
<1>3. Scanning /\ Scanning'
  BY <1>1, <1>2 DEF Inv, Scanning
<1>4. k \in 1 .. Len(fn.pre[bb]) /\ fn.pre[bb][k] \in Range(fn.pre[bb])
  BY <1>1, <1>2, ScanFacts
<1>5. fn.pre[bb][k] \in Ancestors(fn, idom, fn.pre[bb][k]) /\ Covers(fn, fn.pre[bb][k], bb)
  BY <1>1, <1>2, <1>4, ScanFacts, PredecessorFacts
<1>6. new_idom \in Ancestors(fn, idom, new_idom) /\ Covers(fn, new_idom, bb)
  BY <1>2, ScanFacts, SweepFacts, AncestorsFacts
<1>7. Intersecting'
  BY <1>1, <1>5, <1>6 DEF Intersecting
<1> QED BY <1>1, <1>2, <1>3, <1>7, SweepFacts DEF Inv, Phases

LEMMA IntersectFacts ==
  ASSUME Inv, phase = "intersect"
  PROVE  LET p == fn.pre[bb][k]
         IN  /\ phase \in Passes /\ phase \in {"scan", "intersect"}
             /\ k \in 1 .. Len(fn.pre[bb]) /\ p \in fn.blocks /\ idom[p] # Null
             /\ b1 \in Ancestors(fn, idom, p) /\ b1 \in fn.blocks /\ idom[b1] # Null
             /\ b2 \in Ancestors(fn, idom, new_idom) /\ b2 \in fn.blocks /\ idom[b2] # Null
             /\ idom[b1] \in Ancestors(fn, idom, p)
             /\ idom[b2] \in Ancestors(fn, idom, new_idom)
             /\ Covers(fn, b1, bb) /\ Covers(fn, b2, bb)
<1> DEFINE p == fn.pre[bb][k]
<1>1. phase \in Passes /\ phase \in {"scan", "intersect"}
  BY DEF Passes
<1>2. Intersecting
  BY DEF Inv
<1>3. k \in 1 .. Len(fn.pre[bb]) /\ p \in Range(fn.pre[bb]) /\ idom[p] # Null
  BY <1>1, <1>2, ScanFacts DEF Intersecting
<1>4. p \in fn.blocks
  BY <1>1, <1>3, ScanFacts, PredecessorFacts
<1>5. b1 \in Ancestors(fn, idom, p) /\ b2 \in Ancestors(fn, idom, new_idom)
  BY <1>2 DEF Intersecting
<1> HIDE DEF p
<1>6. b1 \in fn.blocks /\ idom[b1] # Null
  BY <1>1, <1>3, <1>4, <1>5, SweepFacts, TreeFacts
<1>7. b2 \in fn.blocks /\ idom[b2] # Null
  BY <1>1, <1>5, ScanFacts, SweepFacts, TreeFacts
<1>8. idom[b1] \in Ancestors(fn, idom, p)
  BY <1>1, <1>4, <1>5, <1>6, SweepFacts, AncestorsFacts
<1>9. idom[b2] \in Ancestors(fn, idom, new_idom)
  BY <1>1, <1>5, <1>7, ScanFacts, SweepFacts, AncestorsFacts
<1> QED BY <1>1, <1>2, <1>3, <1>4, <1>5, <1>6, <1>7, <1>8, <1>9 DEF Intersecting, p

LEMMA MoveFinger1Inv == Inv /\ MoveFinger1 => Inv'
<1> SUFFICES ASSUME Inv, MoveFinger1 PROVE Inv'
  OBVIOUS
<1>1. phase = "intersect" /\ post_order_id[b1] < post_order_id[b2]
  BY DEF MoveFinger1, Below
<1>2. idom[b1] # Null /\ phase \in Passes /\ phase \in {"scan", "intersect"}
  BY <1>1, IntersectFacts
<1>3. /\ fn' = fn /\ phase' = "intersect"
      /\ post_order' = post_order /\ post_order_id' = post_order_id
      /\ idom' = idom /\ changed' = changed /\ at' = at /\ bb' = bb
      /\ dom_frontier' = dom_frontier /\ Keys' = Keys
      /\ first' = first /\ new_idom' = new_idom /\ k' = k
      /\ b1' = idom[b1] /\ b2' = b2
  BY <1>1, <1>2 DEF MoveFinger1, orderVars, frontierVars, Keys, bb
<1>4. Covers(fn, idom[b1], bb)
  BY <1>1, <1>2, IntersectFacts, SweepFacts, FingerCovers
<1>5. Scanning' /\ Intersecting'
  BY <1>1, <1>3, <1>4, IntersectFacts DEF Inv, Scanning, Intersecting
<1> QED BY <1>2, <1>3, <1>5, SweepFacts DEF Inv, Phases

LEMMA MoveFinger2Inv == Inv /\ MoveFinger2 => Inv'
<1> SUFFICES ASSUME Inv, MoveFinger2 PROVE Inv'
  OBVIOUS
<1>1. phase = "intersect" /\ post_order_id[b2] < post_order_id[b1]
  BY DEF MoveFinger2, Below
<1>2. idom[b2] # Null /\ phase \in Passes /\ phase \in {"scan", "intersect"}
  BY <1>1, IntersectFacts
<1>3. /\ fn' = fn /\ phase' = "intersect"
      /\ post_order' = post_order /\ post_order_id' = post_order_id
      /\ idom' = idom /\ changed' = changed /\ at' = at /\ bb' = bb
      /\ dom_frontier' = dom_frontier /\ Keys' = Keys
      /\ first' = first /\ new_idom' = new_idom /\ k' = k
      /\ b1' = b1 /\ b2' = idom[b2]
  BY <1>1, <1>2 DEF MoveFinger2, orderVars, frontierVars, Keys, bb
<1>4. Covers(fn, idom[b2], bb)
  BY <1>1, <1>2, IntersectFacts, SweepFacts, FingerCovers
<1>5. Scanning' /\ Intersecting'
  BY <1>1, <1>3, <1>4, IntersectFacts DEF Inv, Scanning, Intersecting
<1> QED BY <1>2, <1>3, <1>5, SweepFacts DEF Inv, Phases

\* Where the fingers meet is above all the predecessors seen so far.
LEMMA ReturnIntersectInv == Inv /\ ReturnIntersect => Inv'
<1> SUFFICES ASSUME Inv, ReturnIntersect PROVE Inv'
  OBVIOUS
<1>1. /\ phase = "intersect" /\ b1 = b2
      /\ fn' = fn /\ phase' = "scan"
      /\ post_order' = post_order /\ post_order_id' = post_order_id
      /\ idom' = idom /\ changed' = changed /\ at' = at /\ bb' = bb
      /\ dom_frontier' = dom_frontier /\ Keys' = Keys
      /\ first' = first /\ new_idom' = b1 /\ k' = k + 1
  BY DEF ReturnIntersect, orderVars, frontierVars, Keys, bb
<1>2. phase \in Passes /\ phase \in {"scan", "intersect"}
  BY <1>1 DEF Passes
<1>3. /\ FlowGraph(fn) /\ idom \in [fn.blocks -> fn.blocks \cup {Null}]
      /\ at > 0 /\ bb \in fn.blocks
  BY <1>2, SweepFacts, ScanFacts
<1>4. ASSUME NEW x \in fn.blocks, new_idom \in Ancestors(fn, idom, x)
      PROVE  b1 \in Ancestors(fn, idom, x)
  BY <1>1, <1>3, <1>4, IntersectFacts, AncestorsTransitive
<1>5. b1 \in Ancestors(fn, idom, first)
  BY <1>2, <1>3, <1>4, ScanFacts, PredecessorFacts
<1>6. ASSUME NEW j \in 1 .. k, j <= Len(fn.pre[bb]), idom[fn.pre[bb][j]] # Null
      PROVE  b1 \in Ancestors(fn, idom, fn.pre[bb][j])
  <2>1. CASE j = k
    BY <2>1, <1>1, IntersectFacts
  <2>2. CASE j # k
    <3>1. j \in 1 .. k - 1 /\ j \in 1 .. Len(fn.pre[bb])
      BY <2>2, <1>2, <1>6, ScanFacts
    <3>2. fn.pre[bb][j] \in fn.blocks
      BY <3>1, <1>2, <1>3, <1>6, ScanFacts, PredecessorFacts
    <3>3. new_idom \in Ancestors(fn, idom, fn.pre[bb][j])
      BY <3>1, <1>2, <1>6, ScanFacts
    <3> QED BY <3>2, <3>3, <1>4
  <2> QED BY <2>1, <2>2
<1>7. Joined(fn, idom, bb, b1, k)
  BY <1>1, <1>6, IntersectFacts DEF Joined
<1>8. Scanning'
  <2>1. (k + 1) - 1 = k /\ k + 1 \in Nat \ {0}
    BY <1>2, ScanFacts
  <2> QED BY <2>1, <1>1, <1>2, <1>5, <1>7, ScanFacts DEF Scanning
<1> QED BY <1>1, <1>2, <1>8, SweepFacts DEF Inv, Phases

\* What the scan of the predecessors of bb has found, at its end.
LEMMA ScannedFacts ==
  ASSUME Inv, phase = "scan", k > Len(fn.pre[bb])
  PROVE  /\ \A p \in Range(fn.pre[bb]) : idom[p] # Null => new_idom \in Ancestors(fn, idom, p)
         /\ post_order_id[bb] < post_order_id[new_idom]
<1>1. phase \in {"scan", "intersect"} /\ phase \in Passes
  BY DEF Passes
<1>2. ASSUME NEW p \in Range(fn.pre[bb]), idom[p] # Null
      PROVE  new_idom \in Ancestors(fn, idom, p)
  <2>1. PICK j \in 1 .. Len(fn.pre[bb]) : fn.pre[bb][j] = p
    BY <1>1, ScanFacts DEF Range
  <2>2. j \in 1 .. k - 1 /\ j <= Len(fn.pre[bb])
    BY <1>1, <2>1, ScanFacts
  <2> QED BY <1>1, <1>2, <2>1, <2>2, ScanFacts
<1>3. PICK p \in Range(fn.pre[bb]) :
        p \in fn.blocks /\ idom[p] # Null /\ post_order_id[bb] < post_order_id[p]
  BY <1>1, ScanFacts, ParentPassed
<1>4. new_idom \in Ancestors(fn, idom, p)
  BY <1>2, <1>3
<1>5. post_order_id[p] <= post_order_id[new_idom]
  BY <1>1, <1>3, <1>4, SweepFacts, TreeFacts
<1>6. /\ post_order_id[bb] \in Nat /\ post_order_id[p] \in Nat
      /\ post_order_id[new_idom] \in Nat
  BY <1>1, <1>3, ScanFacts, SweepFacts
<1>7. post_order_id[bb] < post_order_id[new_idom]
  BY <1>3, <1>5, <1>6
<1> QED BY <1>2, <1>7

LEMMA SetIdomInv == Inv /\ SetIdom => Inv'
<1> SUFFICES ASSUME Inv, SetIdom PROVE Inv'
  OBVIOUS
<1> DEFINE up == [idom EXCEPT ![bb] = new_idom]
<1>1. /\ phase = "scan" /\ k > Len(fn.pre[bb])
      /\ fn' = fn /\ phase' = "sweep"
      /\ post_order' = post_order /\ post_order_id' = post_order_id
      /\ idom' = up /\ changed' = (changed \/ idom[bb] # new_idom) /\ at' = at - 1
      /\ dom_frontier' = dom_frontier /\ Keys' = Keys
  BY DEF SetIdom, orderVars, frontierVars, Keys, Changed
<1>2. phase \in Passes /\ phase \in {"scan", "intersect"}
  BY <1>1 DEF Passes
<1>3. /\ FlowGraph(fn) /\ idom \in [fn.blocks -> fn.blocks \cup {Null}]
      /\ at > 0 /\ bb \in fn.blocks /\ bb \in Reachable(fn) /\ bb # Entry
      /\ new_idom \in fn.blocks /\ new_idom # Null /\ idom[new_idom] # Null
      /\ Covers(fn, new_idom, bb) /\ post_order_id[bb] < post_order_id[new_idom]
  BY <1>1, <1>2, SweepFacts, ScanFacts, ScannedFacts DEF Null
<1>4. /\ up \in [fn.blocks -> fn.blocks \cup {Null}] /\ up[bb] = new_idom
      /\ \A x \in fn.blocks : x # bb => up[x] = idom[x]
  BY <1>3
<1> HIDE DEF up
<1>5. Tree(fn, post_order_id, up)
  <2>1. Tree(fn, post_order_id, idom)
    BY <1>2, SweepFacts
  <2>2. Entry \in fn.blocks
    BY <1>3, FlowFacts
  <2>3. up[Entry] = Entry
    BY <1>3, <1>4, <2>1, <2>2 DEF Tree
  <2>4. \A x \in fn.blocks : idom[x] # Null => up[x] # Null
    BY <1>3, <1>4
  <2>5. \A b \in fn.blocks : up[b] # Null => b \in Reachable(fn) /\ up[up[b]] # Null
    <3> TAKE b \in fn.blocks
    <3>2. HAVE up[b] # Null
    <3>3. CASE b = bb
      BY <3>3, <1>3, <1>4, <2>4
    <3>4. CASE b # bb
      <4>1. up[b] = idom[b] /\ idom[b] \in fn.blocks
        BY <3>2, <3>4, <1>3, <1>4
      <4>2. b \in Reachable(fn) /\ idom[idom[b]] # Null
        BY <4>1, <3>2, <2>1 DEF Tree
      <4> QED BY <4>1, <4>2, <2>4
    <3> QED BY <3>3, <3>4
  <2>6. \A b \in fn.blocks \ {Entry} :
          up[b] # Null => post_order_id[b] < post_order_id[up[b]] /\ Covers(fn, up[b], b)
    BY <1>3, <1>4, <2>1 DEF Tree
  <2> QED BY <1>4, <2>3, <2>5, <2>6 DEF Tree
<1>6. Swept(fn, post_order, up, at - 1, ~(changed \/ idom[bb] # new_idom))
  <2>1. Swept(fn, post_order, idom, at, ~changed) /\ post_order \in Seq(Reachable(fn))
    BY <1>2, SweepFacts DEF Numbered
  <2>2. \A i \in DOMAIN post_order : post_order[i] \in fn.blocks
    <3>1. \A i \in DOMAIN post_order : post_order[i] \in Reachable(fn)
      BY <2>1
    <3> QED BY <3>1, <1>3, ReachableFacts
  <2>3. \A i \in DOMAIN post_order : i > at - 1 => i > at \/ i = at
    BY <1>2, SweepFacts
  <2>4. at - 1 \in 0 .. Len(post_order) /\ post_order[at] = bb
    BY <1>3, <1>2, SweepFacts DEF bb
  <2>5. \A i \in DOMAIN post_order : i > at - 1 => up[post_order[i]] # Null
    BY <1>3, <1>4, <2>1, <2>2, <2>3, <2>4 DEF Swept
  <2>6. ASSUME ~(changed \/ idom[bb] # new_idom)
        PROVE  \A i \in DOMAIN post_order : i > at - 1 /\ post_order[i] # Entry =>
                 \A p \in Range(fn.pre[post_order[i]]) :
                   up[p] # Null => up[post_order[i]] \in Ancestors(fn, up, p)
    <3>1. up = idom
      BY <2>6, <1>3, <1>4
    <3>2. \A p \in Range(fn.pre[bb]) : idom[p] # Null => idom[bb] \in Ancestors(fn, idom, p)
      BY <1>1, <2>6, ScannedFacts
    <3> QED BY <2>1, <2>3, <2>4, <2>6, <3>1, <3>2 DEF Swept
  <2> QED BY <2>4, <2>5, <2>6 DEF Swept
<1>7. (changed \/ idom[bb] # new_idom) \in BOOLEAN
  OBVIOUS
<1> QED BY <1>1, <1>2, <1>3, <1>5, <1>6, <1>7, SweepFacts DEF Inv, Phases

LEMMA NextSweepInv == Inv /\ NextSweep => Inv'
<1> SUFFICES ASSUME Inv, NextSweep PROVE Inv'
  OBVIOUS
<1> DEFINE l == Len(post_order)
<1>1. /\ phase = "sweep" /\ fn' = fn /\ phase' = "sweep"
      /\ post_order' = post_order /\ post_order_id' = post_order_id
      /\ idom' = idom /\ changed' = FALSE /\ at' = l
      /\ dom_frontier' = dom_frontier /\ Keys' = Keys
  BY DEF NextSweep, orderVars, frontierVars, Keys
<1>2. phase \in Passes
  BY <1>1 DEF Passes
<1>3. l \in Nat /\ DOMAIN post_order = 1 .. l
  BY <1>2, SweepFacts
<1>4. \A i \in DOMAIN post_order : ~(i > l)
  BY <1>3
<1> HIDE DEF l
<1>5. Swept(fn, post_order, idom, l, TRUE)
  BY <1>3, <1>4 DEF Swept, l
<1> QED BY <1>1, <1>2, <1>5, SweepFacts DEF Inv, Phases

\* Without a change in a whole sweep, idom solves the dominance equations.
LEMMA SweptSolves ==
  ASSUME Inv, phase = "sweep", at = 0, ~changed
  PROVE  Solved(fn, idom)
<1>1. phase \in Passes
  BY DEF Passes
<1>2. /\ FlowGraph(fn) /\ idom \in [fn.blocks -> fn.blocks \cup {Null}]
      /\ Numbered(fn, post_order, post_order_id) /\ Tree(fn, post_order_id, idom)
      /\ Swept(fn, post_order, idom, 0, TRUE)
      /\ DOMAIN post_order = 1 .. Len(post_order) /\ Len(post_order) \in Nat
  BY <1>1, SweepFacts
<1>3. \A i \in DOMAIN post_order : i > 0
  BY <1>2
<1>4. ASSUME NEW b \in Reachable(fn)
      PROVE  /\ b \in fn.blocks /\ idom[b] # Null
             /\ b # Entry => \A p \in Range(fn.pre[b]) :
                               idom[p] # Null => idom[b] \in Ancestors(fn, idom, p)
  <2>1. PICK i \in DOMAIN post_order : post_order[i] = b
    BY <1>2 DEF Numbered
  <2>2. b \in fn.blocks
    BY <1>2, ReachableFacts
  <2> QED BY <1>2, <1>3, <2>1, <2>2 DEF Swept
<1>5. ASSUME NEW b \in Reachable(fn) \ {Entry}
      PROVE  Dominates(fn, idom[b], b) /\ idom[b] # b
  <2> DEFINE a == idom[b]
             C == {x \in Reachable(fn) : a \notin Ancestors(fn, idom, x)}
  <2>1. /\ b \in fn.blocks /\ a # Null /\ a \in fn.blocks
        /\ post_order_id[b] < post_order_id[a] /\ post_order_id[b] \in Nat
    BY <1>2, <1>4 DEF Tree, Numbered
  <2>2. a # b
    BY <2>1
  <2>3. a \in Ancestors(fn, idom, b)
    BY <1>2, <2>1, AncestorsFacts
  <2>4. C \in SUBSET fn.blocks /\ b \notin C
    BY <1>2, <2>3, ReachableFacts
  <2>5. {Entry} \ {a} \subseteq C
    <3>0. Entry \in fn.blocks /\ Entry \in Reachable(fn)
      BY <1>2, FlowFacts, ReachableFacts
    <3>1. /\ Entry \in fn.blocks /\ Entry \in Reachable(fn)
          /\ {Entry} \in SUBSET fn.blocks /\ idom[Entry] = Entry
      BY <1>2, <3>0 DEF Tree
    <3> DEFINE E == {Entry}
    <3>2. E \in SUBSET fn.blocks /\ Entry \in E /\ \A x \in E : idom[x] # Null => idom[x] \in E
      BY <3>1
    <3> HIDE DEF E
    <3>3. Ancestors(fn, idom, Entry) \subseteq E
      BY <1>2, <3>0, <3>2, AncestorsFacts
    <3> QED BY <3>0, <3>3 DEF E
  <2>6. ASSUME NEW x \in C, NEW y \in Range(fn.succ[x]) \ {a}
        PROVE  y \in C
    <3>1. x \in Reachable(fn) /\ x \in fn.blocks /\ idom[x] # Null
      BY <1>4
    <3>2. y \in Reachable(fn) /\ y \in fn.blocks /\ idom[y] # Null /\ x \in Range(fn.pre[y])
      BY <3>1, <1>2, <1>4, ReachableFacts, FlowFacts
    <3>3. y # Entry
      <4>1. Range(fn.pre[Entry]) = {}
        BY <1>2 DEF FlowGraph, Range
      <4> QED BY <3>2, <4>1
    <3>4. idom[y] \in Ancestors(fn, idom, x)
      BY <3>1, <3>2, <3>3, <1>4
    <3>5. SUFFICES ASSUME a \in Ancestors(fn, idom, y) PROVE FALSE
      BY <3>2
    <3>6. a \in Ancestors(fn, idom, idom[y])
      BY <3>2, <3>5, <1>2, AncestorsSplit
    <3>7. a \in Ancestors(fn, idom, x)
      BY <3>1, <3>4, <3>6, <1>2, AncestorsTransitive
    <3> QED BY <3>7
  <2> HIDE DEF C, a
  <2>7. Dominates(fn, a, b)
    BY <1>2, <2>1, <2>4, <2>5, <2>6, DominatesBySeparation
  <2> QED BY <2>2, <2>7 DEF a
<1> QED BY <1>4, <1>5 DEF Solved

LEMMA EndIdomInv == Inv /\ EndIdom => Inv'
<1> SUFFICES ASSUME Inv, EndIdom PROVE Inv'
  OBVIOUS
<1>1. /\ phase = "sweep" /\ at = 0 /\ ~changed /\ fn' = fn /\ phase' = "frontier"
      /\ post_order' = post_order /\ post_order_id' = post_order_id /\ idom' = idom
      /\ at' = 1 /\ k' = 1 /\ dom_frontier' = dom_frontier /\ Keys' = Keys
  BY DEF EndIdom, orderVars, idomVars, frontierVars, Keys
<1>2. phase \in Passes
  BY <1>1 DEF Passes
<1> DEFINE df == [b \in Keys |-> {}]
<1>3. /\ df \in [fn.blocks \cup {Null} -> SUBSET fn.blocks]
      /\ \A a \in fn.blocks : df[a] = {}
  BY DEF Keys
<1> HIDE DEF df
<1>4. FlowGraph(fn) /\ fn.blocks \subseteq Nat \ {0} /\ dom_frontier = df
  BY <1>2, SweepFacts DEF df
<1>5. \A b \in fn.blocks : \A j \in 1 .. Len(fn.pre[b]) : ~(b < 1 \/ (b = 1 /\ j < 1))
  <2>1. \A b \in fn.blocks : Len(fn.pre[b]) \in Nat
    BY <1>4, FlowFacts
  <2> QED BY <2>1, <1>4
<1>6. Frontiers(fn, df, 1, 1)
  BY <1>3, <1>5 DEF Frontiers, FrontierSound
<1>7. Solved(fn, idom)
  BY <1>1, SweptSolves
<1> QED BY <1>1, <1>2, <1>4, <1>6, <1>7, SweepFacts DEF Inv, Phases

-----------------------------------------------------------------------------
(* create_dominance_frontier and create_dom_tree_succ.                     *)

LEMMA FrontierFacts ==
  ASSUME Inv, phase \in {"frontier", "climb", "tree", "done"}
  PROVE  /\ FlowGraph(fn) /\ fn.blocks \subseteq Nat \ {0}
         /\ Numbered(fn, post_order, post_order_id) /\ Tree(fn, post_order_id, idom)
         /\ idom \in [fn.blocks -> fn.blocks \cup {Null}]
         /\ Solved(fn, idom) /\ Frontiers(fn, dom_frontier, at, k)
         /\ FrontierSound(fn, dom_frontier)
         /\ dom_frontier \in [fn.blocks \cup {Null} -> SUBSET fn.blocks]
         /\ at \in Nat /\ k \in Nat \ {0}
<1>1. /\ FlowGraph(fn) /\ Numbered(fn, post_order, post_order_id)
      /\ Tree(fn, post_order_id, idom)
      /\ Solved(fn, idom) /\ Frontiers(fn, dom_frontier, at, k)
  BY DEF Inv
<1>2. fn.blocks \subseteq Nat \ {0}
  BY <1>1, FlowFacts
<1> QED BY <1>1, <1>2 DEF Tree, Frontiers

\* The immediate dominator of a reachable block.
LEMMA SolvedFacts ==
  ASSUME NEW f, FlowGraph(f), NEW po, NEW id, Numbered(f, po, id), NEW up, Tree(f, id, up),
         Solved(f, up), NEW b \in Reachable(f), b # Entry
  PROVE  /\ b \in f.blocks /\ up[b] \in f.blocks /\ up[b] # b
         /\ Dominates(f, up[b], b) /\ Covers(f, up[b], b)
         /\ \A a \in f.blocks : Dominates(f, a, b) /\ a # b => Dominates(f, a, up[b])
<1>1. b \in f.blocks /\ up[b] # Null /\ Dominates(f, up[b], b) /\ up[b] # b
  BY ReachableFacts DEF Solved
<1>2. Covers(f, up[b], b) /\ up[b] \in f.blocks
  BY <1>1 DEF Tree
<1> QED BY <1>1, <1>2 DEF Covers

LEMMA NextBlockInv == Inv /\ NextBlock => Inv'
<1> SUFFICES ASSUME Inv, NextBlock PROVE Inv'
  OBVIOUS
<1>1. /\ phase = "frontier" /\ (~IsJoin(at) \/ k > Len(fn.pre[at]))
      /\ fn' = fn /\ phase' = "frontier" /\ at' = at + 1 /\ k' = 1
      /\ post_order' = post_order /\ post_order_id' = post_order_id /\ idom' = idom
      /\ dom_frontier' = dom_frontier
  BY DEF NextBlock, orderVars, idomVars, frontierVars
<1>2. phase \in {"frontier", "climb", "tree", "done"}
  BY <1>1
<1>3. \A b \in fn.blocks : b \in Nat /\ Len(fn.pre[b]) \in Nat
  BY <1>2, FrontierFacts, FlowFacts
<1>4. ASSUME NEW b \in fn.blocks, Len(fn.pre[b]) >= 2, NEW j \in 1 .. Len(fn.pre[b]),
             b < at + 1 \/ (b = at + 1 /\ j < 1)
      PROVE  FrontierHas(fn, dom_frontier, b, fn.pre[b][j])
  <2>1. b < at \/ b = at
    <3>1. b \in Nat /\ at \in Nat /\ j \in Nat \ {0}
      BY <1>2, <1>3, FrontierFacts
    <3> QED BY <3>1, <1>4
  <2>2. b = at => j < k
    BY <1>1, <1>2, <1>3, <1>4, FrontierFacts DEF IsJoin
  <2> QED BY <2>1, <2>2, <1>2, <1>4, FrontierFacts DEF Frontiers
<1>5. Frontiers(fn, dom_frontier, at + 1, 1)
  BY <1>2, <1>4, FrontierFacts DEF Frontiers
<1> QED BY <1>1, <1>2, <1>5, FrontierFacts DEF Inv, Phases

\* The join at hand and its k-th predecessor.
LEMMA JoinFacts ==
  ASSUME Inv, phase \in {"frontier", "climb", "tree", "done"},
         at \in fn.blocks, Len(fn.pre[at]) >= 2, k <= Len(fn.pre[at])
  PROVE  LET p == fn.pre[at][k]
         IN  /\ k \in 1 .. Len(fn.pre[at]) /\ p \in fn.blocks /\ p \in Range(fn.pre[at])
             /\ at \in Range(fn.succ[p]) /\ at # Entry
             /\ p \in Reachable(fn) => at \in Reachable(fn)
<1> DEFINE p == fn.pre[at][k]
<1>1. FlowGraph(fn) /\ k \in Nat \ {0}
  BY FrontierFacts
<1>2. k \in 1 .. Len(fn.pre[at])
  BY <1>1, FlowFacts
<1>3. p \in Range(fn.pre[at])
  BY <1>1, <1>2, FlowFacts
<1> HIDE DEF p
<1>4. p \in fn.blocks /\ at \in Range(fn.succ[p])
  BY <1>1, <1>3, FlowFacts
<1>5. at # Entry
  <2>1. Len(<<>>) = 0
    OBVIOUS
  <2> QED BY <1>1, <2>1 DEF FlowGraph
<1>6. p \in Reachable(fn) => at \in Reachable(fn)
  BY <1>1, <1>4, ReachableFacts
<1> QED BY <1>2, <1>3, <1>4, <1>5, <1>6 DEF p

LEMMA StartRunnerInv == Inv /\ StartRunner => Inv'
<1> SUFFICES ASSUME Inv, StartRunner PROVE Inv'
  OBVIOUS
<1> DEFINE p == fn.pre[at][k]
<1>1. /\ phase = "frontier" /\ at \in fn.blocks /\ Len(fn.pre[at]) >= 2 /\ k <= Len(fn.pre[at])
      /\ fn' = fn /\ phase' = "climb" /\ at' = at /\ k' = k /\ runner' = p
      /\ post_order' = post_order /\ post_order_id' = post_order_id /\ idom' = idom
      /\ dom_frontier' = dom_frontier
  BY DEF StartRunner, IsJoin, orderVars, idomVars
<1>2. phase \in {"frontier", "climb", "tree", "done"}
  BY <1>1
<1>3. /\ p \in fn.blocks /\ at \in Range(fn.succ[p]) /\ at # Entry
      /\ p \in Reachable(fn) => at \in Reachable(fn)
  BY <1>1, <1>2, JoinFacts
<1> HIDE DEF p
<1>4. ASSUME p \in Reachable(fn)
      PROVE  Dominates(fn, p, p) /\ Dominates(fn, idom[at], p)
  <2>1. Dominates(fn, idom[at], at) /\ idom[at] # at
    BY <1>2, <1>3, <1>4, FrontierFacts, SolvedFacts
  <2> QED BY <1>2, <1>3, <1>4, <2>1, FrontierFacts, DominatesItself, DominatesBefore
<1>5. Climbing'
  BY <1>1, <1>4 DEF Climbing, p
<1> QED BY <1>1, <1>2, <1>5, FrontierFacts DEF Inv, Phases

LEMMA ClimbFacts ==
  ASSUME Inv, phase = "climb"
  PROVE  LET p == fn.pre[at][k]
         IN  /\ phase \in {"frontier", "climb", "tree", "done"}
             /\ at \in fn.blocks /\ Len(fn.pre[at]) >= 2 /\ k <= Len(fn.pre[at])
             /\ k \in 1 .. Len(fn.pre[at])
             /\ p \in fn.blocks /\ p \in Range(fn.pre[at]) /\ at \in Range(fn.succ[p])
             /\ p \in Reachable(fn) =>
                  /\ at \in Reachable(fn) /\ at # Entry
                  /\ runner \in Reachable(fn) /\ runner \in fn.blocks
                  /\ Dominates(fn, runner, p) /\ Dominates(fn, idom[at], runner)
                  /\ Dominates(fn, idom[at], at) /\ idom[at] # at
                  /\ idom[at] \in fn.blocks
                  /\ \A a \in fn.blocks : Dominates(fn, a, at) /\ a # at =>
                                            Dominates(fn, a, idom[at])
                  /\ \A a \in fn.blocks :
                       Dominates(fn, a, p) /\ ~StrictlyDominates(fn, a, at)
                         => at \in dom_frontier[a] \/ Dominates(fn, a, runner)
             /\ p \notin Reachable(fn) =>
                  /\ idom[p] = Null
                  /\ runner = p \/ (runner = Null /\ at \in dom_frontier[p])
<1>1. phase \in {"frontier", "climb", "tree", "done"} /\ Climbing
  BY DEF Inv
<1>2. at \in fn.blocks /\ Len(fn.pre[at]) >= 2 /\ k <= Len(fn.pre[at])
  BY <1>1 DEF Climbing
<1>3. /\ k \in 1 .. Len(fn.pre[at]) /\ fn.pre[at][k] \in fn.blocks
      /\ fn.pre[at][k] \in Range(fn.pre[at]) /\ at \in Range(fn.succ[fn.pre[at][k]])
      /\ at # Entry
      /\ fn.pre[at][k] \in Reachable(fn) => at \in Reachable(fn)
  BY <1>1, <1>2, JoinFacts
<1>4. fn.pre[at][k] \notin Reachable(fn) => idom[fn.pre[at][k]] = Null
  BY <1>1, <1>3, FrontierFacts DEF Tree
<1>5. at \in Reachable(fn) =>
        /\ Dominates(fn, idom[at], at) /\ idom[at] # at /\ idom[at] \in fn.blocks
        /\ \A a \in fn.blocks : Dominates(fn, a, at) /\ a # at => Dominates(fn, a, idom[at])
  BY <1>1, <1>3, FrontierFacts, SolvedFacts
<1>6. fn.pre[at][k] \in Reachable(fn) =>
        /\ Dominates(fn, runner, fn.pre[at][k]) /\ Dominates(fn, idom[at], runner)
        /\ runner \in Reachable(fn) /\ runner \in fn.blocks
  BY <1>1 DEF Climbing, Dominates
<1> QED BY <1>1, <1>2, <1>3, <1>4, <1>5, <1>6 DEF Climbing

\* A larger frontier has what a smaller one had.
LEMMA FrontiersGrow ==
  ASSUME NEW f, NEW df, NEW n, NEW m, Frontiers(f, df, n, m),
         NEW df2 \in [f.blocks \cup {Null} -> SUBSET f.blocks],
         \A a \in f.blocks : df[a] \subseteq df2[a], FrontierSound(f, df2),
         \A b \in f.blocks : \A j \in 1 .. Len(f.pre[b]) : f.pre[b][j] \in f.blocks
  PROVE  Frontiers(f, df2, n, m)
<1>1. ASSUME NEW b \in f.blocks, NEW p \in f.blocks, FrontierHas(f, df, b, p)
      PROVE  FrontierHas(f, df2, b, p)
  BY <1>1 DEF FrontierHas
<1> QED BY <1>1 DEF Frontiers

LEMMA ClimbInv == Inv /\ Climb => Inv'
<1> SUFFICES ASSUME Inv, Climb PROVE Inv'
  OBVIOUS
<1> DEFINE p == fn.pre[at][k]
           df == [dom_frontier EXCEPT ![runner] = @ \cup {at}]
           next == IF runner = Null THEN Null ELSE idom[runner]
<1>1. /\ phase = "climb" /\ runner # idom[at]
      /\ fn' = fn /\ phase' = "climb" /\ at' = at /\ k' = k /\ runner' = next
      /\ post_order' = post_order /\ post_order_id' = post_order_id /\ idom' = idom
      /\ dom_frontier' = df
  BY DEF Climb, orderVars, idomVars
<1>2. phase \in {"frontier", "climb", "tree", "done"}
  BY <1>1
<1>3. /\ at \in fn.blocks /\ p \in fn.blocks /\ runner \in fn.blocks \cup {Null}
      /\ Null \notin fn.blocks /\ Len(fn.pre[at]) >= 2 /\ p \in Range(fn.pre[at])
  BY <1>1, <1>2, ClimbFacts, FrontierFacts DEF Null
<1>4. /\ df \in [fn.blocks \cup {Null} -> SUBSET fn.blocks]
      /\ \A a \in fn.blocks : dom_frontier[a] \subseteq df[a]
      /\ at \in df[runner]
      /\ \A a \in fn.blocks \cup {Null} : a # runner => df[a] = dom_frontier[a]
      /\ \A a \in fn.blocks \cup {Null} : \A b \in df[a] :
           b \in dom_frontier[a] \/ (a = runner /\ b = at)
  BY <1>2, <1>3, FrontierFacts
<1> HIDE DEF df
<1>0. ASSUME FrontierSound(fn, df) PROVE Frontiers(fn, df, at, k)
  <2>1. Frontiers(fn, dom_frontier, at, k) /\ FlowGraph(fn)
    BY <1>2, FrontierFacts
  <2>2. \A b \in fn.blocks : \A j \in 1 .. Len(fn.pre[b]) : fn.pre[b][j] \in fn.blocks
    BY <2>1, FlowFacts
  <2> QED BY <1>0, <1>4, <2>1, <2>2, FrontiersGrow
<1>5. CASE p \in Reachable(fn)
  <2>1. /\ runner \in Reachable(fn) /\ runner \in fn.blocks /\ runner # Null
        /\ at \in Reachable(fn) /\ idom[at] \in fn.blocks
        /\ Dominates(fn, runner, p) /\ Dominates(fn, idom[at], runner)
    BY <1>1, <1>3, <1>5, ClimbFacts
  <2>2. runner # Entry
    BY <1>1, <1>2, <2>1, FrontierFacts, EntryDominator
  <2>3. /\ next \in fn.blocks /\ next # runner /\ Dominates(fn, next, runner)
        /\ \A a \in fn.blocks : Dominates(fn, a, runner) /\ a # runner => Dominates(fn, a, next)
    BY <1>2, <2>1, <2>2, FrontierFacts, SolvedFacts
  <2> HIDE DEF next
  <2>4. ~StrictlyDominates(fn, runner, at)
    <3>1. SUFFICES ASSUME Dominates(fn, runner, at), runner # at PROVE FALSE
      BY DEF StrictlyDominates
    <3>2. Dominates(fn, runner, idom[at])
      BY <3>1, <1>1, <1>5, <2>1, ClimbFacts
    <3>3. runner = idom[at]
      BY <3>2, <2>1, <1>2, FrontierFacts, DominatesAntisymmetric
    <3> QED BY <3>3, <1>1
  <2>5. FrontierSound(fn, df)
    <3>1. ASSUME NEW a \in fn.blocks, NEW b \in df[a]
          PROVE  IF a \in Reachable(fn)
                 THEN /\ b \in Reachable(fn) /\ ~StrictlyDominates(fn, a, b)
                      /\ \E q \in Reachable(fn) : b \in Range(fn.succ[q]) /\ Dominates(fn, a, q)
                 ELSE b \in JoinsBehind(fn, a)
      <4>1. CASE b \in dom_frontier[a]
        BY <4>1, <1>2, FrontierFacts DEF FrontierSound
      <4>2. CASE a = runner /\ b = at
        BY <4>2, <1>1, <1>5, <2>1, <2>4, ClimbFacts
      <4> QED BY <4>1, <4>2, <1>4
    <3> QED BY <3>1 DEF FrontierSound
  <2>6. Dominates(fn, next, p)
    BY <1>2, <2>1, <2>3, FrontierFacts, DominatesTransitive
  <2>7. Dominates(fn, idom[at], next)
    BY <1>1, <2>1, <2>3
  <2>8. ASSUME NEW a \in fn.blocks, Dominates(fn, a, p), ~StrictlyDominates(fn, a, at)
        PROVE  at \in df[a] \/ Dominates(fn, a, next)
    <3>1. at \in dom_frontier[a] \/ Dominates(fn, a, runner)
      BY <1>1, <1>5, <2>8, ClimbFacts
    <3> QED BY <3>1, <1>4, <2>3
  <2>9. Climbing'
    BY <1>1, <1>5, <2>6, <2>7, <2>8, ClimbFacts DEF Climbing
  <2>10. Frontiers(fn, df, at, k)
    BY <1>0, <2>5
  <2> QED BY <1>1, <1>2, <2>9, <2>10, FrontierFacts DEF Inv, Phases
<1>6. CASE p \notin Reachable(fn)
  <2>1. idom[p] = Null /\ (runner = p \/ (runner = Null /\ at \in dom_frontier[p]))
    BY <1>1, <1>6, ClimbFacts
  <2>2. next = Null /\ at \in df[p]
    BY <2>1, <1>3, <1>4
  <2> HIDE DEF next
  <2>3. FrontierSound(fn, df)
    <3>1. ASSUME NEW a \in fn.blocks, NEW b \in df[a]
          PROVE  IF a \in Reachable(fn)
                 THEN /\ b \in Reachable(fn) /\ ~StrictlyDominates(fn, a, b)
                      /\ \E q \in Reachable(fn) : b \in Range(fn.succ[q]) /\ Dominates(fn, a, q)
                 ELSE b \in JoinsBehind(fn, a)
      <4>1. CASE b \in dom_frontier[a]
        BY <4>1, <1>2, FrontierFacts DEF FrontierSound
      <4>2. CASE a = runner /\ b = at
        BY <4>2, <1>3, <1>6, <2>1 DEF JoinsBehind
      <4> QED BY <4>1, <4>2, <1>4
    <3> QED BY <3>1 DEF FrontierSound
  <2>4. Climbing'
    BY <1>1, <1>6, <2>2, ClimbFacts DEF Climbing
  <2>5. Frontiers(fn, df, at, k)
    BY <1>0, <2>3
  <2> QED BY <1>1, <1>2, <2>4, <2>5, FrontierFacts DEF Inv, Phases
<1> QED BY <1>5, <1>6

LEMMA StopRunnerInv == Inv /\ StopRunner => Inv'
<1> SUFFICES ASSUME Inv, StopRunner PROVE Inv'
  OBVIOUS
<1> DEFINE p == fn.pre[at][k]
<1>1. /\ phase = "climb" /\ runner = idom[at]
      /\ fn' = fn /\ phase' = "frontier" /\ at' = at /\ k' = k + 1
      /\ post_order' = post_order /\ post_order_id' = post_order_id /\ idom' = idom
      /\ dom_frontier' = dom_frontier
  BY DEF StopRunner, orderVars, idomVars, frontierVars
<1>2. /\ phase \in {"frontier", "climb", "tree", "done"} /\ p \in fn.blocks
      /\ at \in fn.blocks
  BY <1>1, ClimbFacts
<1>3. ASSUME p \in Reachable(fn)
      PROVE  FrontierHas(fn, dom_frontier, at, p)
  <2>1. SUFFICES ASSUME NEW a \in fn.blocks, Dominates(fn, a, p), ~StrictlyDominates(fn, a, at),
                        at \notin dom_frontier[a]
                 PROVE  FALSE
    BY <1>3 DEF FrontierHas
  <2>2. Dominates(fn, a, idom[at]) /\ Dominates(fn, idom[at], at) /\ idom[at] # at
    BY <1>1, <1>3, <2>1, ClimbFacts
  <2>3. Dominates(fn, a, at)
    BY <1>2, <2>2, FrontierFacts, DominatesTransitive
  <2>4. a = at
    BY <2>1, <2>3 DEF StrictlyDominates
  <2>5. at = idom[at]
    BY <1>2, <2>2, <2>4, FrontierFacts, DominatesAntisymmetric
  <2> QED BY <2>2, <2>5
<1>4. ASSUME p \notin Reachable(fn)
      PROVE  FrontierHas(fn, dom_frontier, at, p)
  <2>1. idom[p] = Null /\ (runner = p \/ (runner = Null /\ at \in dom_frontier[p]))
    BY <1>1, <1>4, ClimbFacts
  <2>2. p # Null
    BY <1>2, FrontierFacts DEF Null
  <2>3. runner # p
    BY <1>1, <1>2, <2>1, <2>2, FrontierFacts DEF Tree
  <2>4. at \notin Reachable(fn)
    BY <1>1, <1>2, <2>1, <2>3, FrontierFacts DEF Solved
  <2> QED BY <1>4, <2>1, <2>3, <2>4 DEF FrontierHas
<1>5. FrontierHas(fn, dom_frontier, at, p)
  BY <1>3, <1>4
<1>6. Frontiers(fn, dom_frontier, at, k + 1)
  <2>1. ASSUME NEW b \in fn.blocks, Len(fn.pre[b]) >= 2, NEW j \in 1 .. Len(fn.pre[b]),
               b < at \/ (b = at /\ j < k + 1)
        PROVE  FrontierHas(fn, dom_frontier, b, fn.pre[b][j])
    <3>1. b < at \/ (b = at /\ j < k) \/ (b = at /\ j = k)
      BY <1>2, <2>1, FrontierFacts
    <3> QED BY <1>2, <1>5, <2>1, <3>1, FrontierFacts DEF Frontiers
  <2>2. k + 1 \in Nat \ {0}
    BY <1>2, FrontierFacts
  <2> QED BY <1>2, <2>1, <2>2, FrontierFacts DEF Frontiers
<1> QED BY <1>1, <1>2, <1>6, FrontierFacts DEF Inv, Phases

LEMMA EndFrontierInv == Inv /\ EndFrontier => Inv'
BY DEF Inv, EndFrontier, orderVars, idomVars, frontierVars, Phases

LEMMA CreateTreeInv == Inv /\ CreateTree => Inv'
<1> SUFFICES ASSUME Inv, CreateTree PROVE Inv'
  OBVIOUS
<1>1. /\ phase = "tree" /\ fn' = fn /\ phase' = "done" /\ at' = at /\ k' = k
      /\ post_order' = post_order /\ post_order_id' = post_order_id /\ idom' = idom
      /\ dom_frontier' = dom_frontier /\ Keys' = Keys
      /\ dom_tree_succ' = [d \in Keys |-> {b \in fn.blocks : idom[b] = d /\ b # d}]
  BY DEF CreateTree, orderVars, idomVars, Keys
<1> QED BY <1>1 DEF Inv, Phases

-----------------------------------------------------------------------------
(* The invariant is inductive.                                             *)

LEMMA IdleInv == IdleDominators /\ FlowGraph(fn) => Inv
BY DEF IdleDominators, Inv, Phases

LEMMA InductiveInv == Inv /\ DominatorsStep => Inv'
BY StartInv, VisitSuccessorInv, FinishBlockInv, InitIdomInv, SkipRootInv, StartBlockInv,
   SkipPredecessorInv, CallIntersectInv, MoveFinger1Inv, MoveFinger2Inv, ReturnIntersectInv,
   SetIdomInv, NextSweepInv, EndIdomInv, NextBlockInv, StartRunnerInv, ClimbInv,
   StopRunnerInv, EndFrontierInv, CreateTreeInv
   DEF DominatorsStep

-----------------------------------------------------------------------------
(* What it implies.                                                        *)

LEMMA InvAsserts == Inv => AssertsHold
BY DEF Inv, AssertsHold

LEMMA InvIdom == Inv => IdomCorrect
<1> SUFFICES ASSUME Inv, phase = "done",
                    NEW b \in fn.blocks
             PROVE  idom[b] = IF b = Entry THEN Entry
                              ELSE IF b \in DOMAIN DominatorsOf(fn)
                                   THEN ImmediateDominator(fn, DominatorsOf(fn), b)
                                   ELSE Null
  BY DEF IdomCorrect
<1>1. phase \in {"frontier", "climb", "tree", "done"}
  OBVIOUS
<1> DEFINE dom == DominatorsOf(fn)
<1>2. /\ DOMAIN dom = Reachable(fn)
      /\ \A x \in Reachable(fn) : dom[x] = {a \in fn.blocks : Dominates(fn, a, x)}
  BY DominatorsOfFacts
<1> HIDE DEF dom
<1>3. CASE b = Entry
  BY <1>1, <1>3, FrontierFacts DEF Tree
<1>4. CASE b # Entry /\ b \in Reachable(fn)
  <2> DEFINE d == idom[b]
             strict == dom[b] \ {b}
  <2>1. /\ d \in fn.blocks /\ d # b /\ Dominates(fn, d, b)
        /\ \A a \in fn.blocks : Dominates(fn, a, b) /\ a # b => Dominates(fn, a, d)
    BY <1>1, <1>4, FrontierFacts, SolvedFacts
  <2>2. \A a : Dominates(fn, a, b) => a \in Reachable(fn)
    BY <1>1, FrontierFacts, DominatorReachable
  <2> HIDE DEF d
  <2>3. \A a : a \in strict <=> Dominates(fn, a, b) /\ a # b
    BY <1>2, <1>4 DEF Dominates
  <2>4. d \in strict /\ strict \subseteq dom[d]
    BY <1>2, <2>1, <2>2, <2>3 DEF Dominates
  <2>5. ASSUME NEW a \in strict, strict \subseteq dom[a] PROVE a = d
    <3>1. Dominates(fn, a, b) /\ a # b /\ a \in Reachable(fn) /\ a \in fn.blocks
      BY <2>2, <2>3 DEF Dominates
    <3>2. Dominates(fn, d, a)
      BY <1>2, <2>4, <2>5, <3>1
    <3>3. Dominates(fn, a, d)
      BY <2>1, <3>1
    <3> QED BY <1>1, <3>2, <3>3, FrontierFacts, DominatesAntisymmetric
  <2> HIDE DEF strict
  <2>6. d = CHOOSE a \in strict : strict \subseteq dom[a]
    BY <2>4, <2>5
  <2> QED BY <1>2, <1>4, <2>6 DEF ImmediateDominator, d, strict, dom
<1>5. CASE b # Entry /\ b \notin Reachable(fn)
  BY <1>1, <1>2, <1>5, FrontierFacts DEF Tree, dom
<1> QED BY <1>3, <1>4, <1>5

\* A block with one predecessor is not the frontier of any block: who dominates
\* the predecessor dominates the block strictly.
LEMMA OnePredecessor ==
  ASSUME NEW f, FlowGraph(f), NEW po, NEW id, Numbered(f, po, id),
         NEW c \in Reachable(f), NEW p \in Reachable(f), Range(f.pre[c]) = {p},
         NEW a \in f.blocks, Dominates(f, a, p)
  PROVE  StrictlyDominates(f, a, c)
<1>1. c \in f.blocks /\ p \in f.blocks /\ c \in Range(f.succ[p])
  BY ReachableFacts, FlowFacts
<1>2. c # Entry
  <2>1. Range(<<>>) = {}
    BY DEF Range
  <2> QED BY <2>1 DEF FlowGraph
<1>3. id[c] < id[p] /\ id[c] \in Nat /\ id[p] \in Nat
  BY <1>1, <1>2 DEF Numbered
<1>4. a # c
  <2>1. SUFFICES ASSUME a = c PROVE FALSE
    OBVIOUS
  <2>2. c # p
    BY <1>3
  <2>3. id[p] < id[c]
    BY <1>1, <2>1, <2>2 DEF Numbered
  <2> QED BY <1>3, <2>3
<1> DEFINE P == PathsFrom(f, Entry, {a})
           C == P \ {c}
<1>5. p \notin P
  BY DEF Dominates
<1>6. C \in SUBSET f.blocks /\ {Entry} \ {a} \subseteq C
  BY <1>2, PathFacts
<1>7. \A x \in C : Range(f.succ[x]) \ {a} \subseteq C
  <2> TAKE x \in C
  <2>1. x \in f.blocks /\ Range(f.succ[x]) \ {a} \subseteq P /\ x # p
    BY <1>5, PathFacts
  <2>2. c \notin Range(f.succ[x])
    BY <1>1, <2>1, FlowFacts
  <2> QED BY <2>1, <2>2
<1>8. Dominates(f, a, c)
  <2> HIDE DEF C
  <2>1. c \notin C
    BY DEF C
  <2> QED BY <1>6, <1>7, <2>1, DominatesBySeparation
<1> QED BY <1>4, <1>8 DEF StrictlyDominates

LEMMA InvFrontier == Inv => FrontierCorrect
<1> SUFFICES ASSUME Inv, phase = "done"
             PROVE  LET dom == DominatorsOf(fn)
                    IN  /\ \A b \in DOMAIN dom :
                             dom_frontier[b] = DominanceFrontier(fn, dom, b)
                        /\ \A b \in fn.blocks \ DOMAIN dom :
                             dom_frontier[b] = JoinsBehind(fn, b)
                        /\ UNION {dom_tree_succ[b] : b \in DOMAIN dom}
                             = DOMAIN dom \ {Entry}
  BY DEF FrontierCorrect
<1> DEFINE dom == DominatorsOf(fn)
<1>1. phase \in {"frontier", "climb", "tree", "done"}
  OBVIOUS
<1>2. /\ DOMAIN dom = Reachable(fn)
      /\ \A x \in Reachable(fn) : dom[x] = {a \in fn.blocks : Dominates(fn, a, x)}
  BY DominatorsOfFacts
<1> HIDE DEF dom
<1>3. /\ Reachable(fn) \subseteq fn.blocks /\ FlowGraph(fn)
      /\ dom_frontier \in [fn.blocks \cup {Null} -> SUBSET fn.blocks]
  BY <1>1, FrontierFacts, ReachableFacts
<1>4. \A c \in fn.blocks : Len(fn.pre[c]) >= 2 =>
        \A j \in 1 .. Len(fn.pre[c]) : FrontierHas(fn, dom_frontier, c, fn.pre[c][j])
  <2>1. at > fn.made /\ at \in Nat
    BY <1>1, FrontierFacts DEF Inv
  <2>2. \A c \in fn.blocks : c < at
    <3>1. fn.made \in Nat /\ fn.blocks \subseteq 1 .. fn.made
      BY <1>3 DEF FlowGraph
    <3> QED BY <2>1, <3>1
  <2> QED BY <1>1, <2>2, FrontierFacts DEF Frontiers
<1>5. ASSUME NEW b \in Reachable(fn)
      PROVE  dom_frontier[b] = DominanceFrontier(fn, dom, b)
  <2>1. b \in fn.blocks
    BY <1>3
  <2>2. \A c \in Reachable(fn) : b \in dom[c] \ {c} <=> StrictlyDominates(fn, b, c)
    BY <1>2, <2>1 DEF StrictlyDominates
  <2>3. ASSUME NEW c \in dom_frontier[b] PROVE c \in DominanceFrontier(fn, dom, b)
    <3>1. /\ c \in Reachable(fn) /\ ~StrictlyDominates(fn, b, c)
          /\ \E p \in Reachable(fn) : c \in Range(fn.succ[p]) /\ Dominates(fn, b, p)
      BY <1>1, <2>1, <2>3, FrontierFacts DEF FrontierSound
    <3> QED BY <1>2, <2>1, <2>2, <3>1 DEF DominanceFrontier
  <2>4. ASSUME NEW c \in DominanceFrontier(fn, dom, b) PROVE c \in dom_frontier[b]
    <3>1. c \in Reachable(fn) /\ c \in fn.blocks /\ ~StrictlyDominates(fn, b, c)
      BY <1>3, <2>2 DEF DominanceFrontier
    <3>2. PICK p \in Reachable(fn) : c \in Range(fn.succ[p]) /\ Dominates(fn, b, p)
      BY <1>2 DEF DominanceFrontier
    <3>3. p \in fn.blocks /\ p \in Range(fn.pre[c])
      BY <1>3, <3>1, <3>2, FlowFacts
    <3>4. Len(fn.pre[c]) \in Nat /\ DOMAIN fn.pre[c] = 1 .. Len(fn.pre[c])
      BY <1>3, <3>1, FlowFacts
    <3>5. PICK j \in 1 .. Len(fn.pre[c]) : fn.pre[c][j] = p
      BY <3>3, <3>4 DEF Range
    <3>6. CASE Len(fn.pre[c]) >= 2
      <4>1. FrontierHas(fn, dom_frontier, c, p)
        BY <1>4, <3>1, <3>5, <3>6
      <4> QED BY <2>1, <3>1, <3>2, <4>1 DEF FrontierHas
    <3>7. CASE ~(Len(fn.pre[c]) >= 2)
      <4> DEFINE l == Len(fn.pre[c])
      <4>0. l \in Nat /\ j \in 1 .. l /\ ~(l >= 2)
        BY <3>4, <3>5, <3>7
      <4>1. j = 1 /\ l = 1
        <5> HIDE DEF l
        <5> QED BY <4>0
      <4>2. DOMAIN fn.pre[c] = {1}
        BY <3>4, <4>1
      <4>3. Range(fn.pre[c]) = {p}
        BY <3>5, <4>1, <4>2 DEF Range
      <4>4. StrictlyDominates(fn, b, c)
        BY <1>1, <2>1, <3>1, <3>2, <4>3, FrontierFacts, OnePredecessor
      <4> QED BY <3>1, <4>4
    <3> QED BY <3>6, <3>7
  <2> QED BY <2>3, <2>4
<1>6. ASSUME NEW b \in fn.blocks \ Reachable(fn)
      PROVE  dom_frontier[b] = JoinsBehind(fn, b)
  <2>1. ASSUME NEW c \in dom_frontier[b] PROVE c \in JoinsBehind(fn, b)
    BY <1>1, <2>1, FrontierFacts DEF FrontierSound
  <2>2. ASSUME NEW c \in JoinsBehind(fn, b) PROVE c \in dom_frontier[b]
    <3>1. c \in fn.blocks /\ Len(fn.pre[c]) >= 2 /\ b \in Range(fn.pre[c])
      BY DEF JoinsBehind
    <3>2. DOMAIN fn.pre[c] = 1 .. Len(fn.pre[c])
      BY <1>3, <3>1, FlowFacts
    <3>3. PICK j \in 1 .. Len(fn.pre[c]) : fn.pre[c][j] = b
      BY <3>1, <3>2 DEF Range
    <3>4. FrontierHas(fn, dom_frontier, c, b)
      BY <1>4, <3>1, <3>3
    <3> QED BY <3>4 DEF FrontierHas
  <2> QED BY <2>1, <2>2
<1>7. UNION {dom_tree_succ[b] : b \in Reachable(fn)} = Reachable(fn) \ {Entry}
  <2>1. /\ dom_tree_succ = [d \in Keys |-> {b \in fn.blocks : idom[b] = d /\ b # d}]
        /\ Reachable(fn) \subseteq Keys
    BY <1>3 DEF Inv, Keys
  <2>2. ASSUME NEW d \in Reachable(fn), NEW x \in dom_tree_succ[d]
        PROVE  x \in Reachable(fn) \ {Entry}
    <3>1. x \in fn.blocks /\ idom[x] = d /\ x # d
      BY <2>1, <2>2
    <3>2. d # Null
      BY <1>1, <1>3, FrontierFacts DEF Null
    <3> QED BY <1>1, <3>1, <3>2, FrontierFacts DEF Tree
  <2>3. ASSUME NEW x \in Reachable(fn) \ {Entry}
        PROVE  \E d \in Reachable(fn) : x \in dom_tree_succ[d]
    <3>1. x \in fn.blocks /\ Dominates(fn, idom[x], x) /\ idom[x] # x
      BY <1>1, <1>3, FrontierFacts, SolvedFacts
    <3>2. idom[x] \in Reachable(fn)
      BY <1>3, <3>1, DominatorReachable
    <3> QED BY <2>1, <3>1, <3>2
  <2> QED BY <2>2, <2>3
<1> QED BY <1>2, <1>5, <1>6, <1>7 DEF dom

=============================================================================
