---------------------------- MODULE BuilderProofs ----------------------------
(***************************************************************************)
(* Proofs about Builder, for functions of any size: every function the     *)
(* visitor builds is well formed after every step, no block is forgotten,  *)
(* and a block once closed stays as it is.                                 *)
(*                                                                         *)
(* None of these is inductive alone.  What an enclosing visit function     *)
(* still has to fill lies on the stack for as long as its children run, so *)
(* the invariant says of the whole stack: the pending blocks are open,     *)
(* different from each other, from the insert block and from every loop    *)
(* head, and a falseBB that will be erased has no predecessor.             *)
(*                                                                         *)
(* That the loops are structured rests on a second invariant, about the    *)
(* shape of the graph: with each block goes a set of blocks every path to  *)
(* it passes, with the blocks a visit remembers, the sets nest as the      *)
(* visits do, and an edge goes either forward in the order of the source   *)
(* or back to a block of that set.                                         *)
(***************************************************************************)
EXTENDS Builder, CfgProofs

-----------------------------------------------------------------------------
(* The operations of ControlFlow: on a well-formed function each of them,  *)
(* used on an open block, yields a well-formed function, and changes       *)
(* nothing but what is stated.                                             *)

FunctionType(f) ==
  /\ f \in [blocks : SUBSET Nat, made : Nat, code : Seq(Seq(Instr)),
            pre : Seq(Seq(Nat)), succ : Seq(Seq(Nat))]
  /\ f.blocks \subseteq 1 .. f.made
  /\ Len(f.code) = f.made
  /\ Len(f.pre) = f.made  /\ f.pre \in Seq(Seq(1 .. f.made))
  /\ Len(f.succ) = f.made /\ f.succ \in Seq(Seq(1 .. f.made))

WellFormed(f) ==
  /\ FunctionType(f)
  /\ \A b \in f.blocks : OneTerminator(f, b)
  /\ EdgesAgree(f)

\* The blocks that still lack a terminator.
Open(f) == {b \in f.blocks : ~HasTerminator(f, b)}

\* What the blocks outside B do, and who branches to the blocks outside B.
SameCode(f, g, B) ==
  \A b \in (1 .. f.made) \ B : g.code[b] = f.code[b] /\ g.succ[b] = f.succ[b]
SamePre(f, g, B) ==
  \A b \in (1 .. f.made) \ B : g.pre[b] = f.pre[b]

-----------------------------------------------------------------------------
\* On sequences.
LEMMA EmptyRange ==
  ASSUME NEW S, NEW s \in Seq(S)
  PROVE  Range(s) = {} <=> s = <<>>
<1>1. DOMAIN s = 1 .. Len(s) /\ Len(s) \in Nat
  OBVIOUS
<1>2. CASE s = <<>>
  BY <1>1, <1>2 DEF Range
<1>3. CASE s # <<>>
  <2>1. 1 \in DOMAIN s
    BY <1>1, <1>3
  <2> QED
    BY <1>3, <2>1 DEF Range
<1> QED
  BY <1>2, <1>3

LEMMA Appended ==
  ASSUME NEW S, NEW s \in Seq(S), NEW e \in S
  PROVE  /\ Append(s, e) \in Seq(S) /\ Append(s, e) # <<>>
         /\ Len(s) \in Nat /\ Len(Append(s, e)) = Len(s) + 1
         /\ \A i \in 1 .. Len(s) : Append(s, e)[i] = s[i]
         /\ Append(s, e)[Len(Append(s, e))] = e
         /\ Range(Append(s, e)) = Range(s) \cup {e}
<1>1. /\ Append(s, e) \in Seq(S) /\ Append(s, e) # <<>>
      /\ Len(s) \in Nat /\ Len(Append(s, e)) = Len(s) + 1
      /\ DOMAIN s = 1 .. Len(s)
      /\ DOMAIN Append(s, e) = 1 .. Len(s) + 1
      /\ \A i \in 1 .. Len(s) : Append(s, e)[i] = s[i]
      /\ Append(s, e)[Len(s) + 1] = e
  OBVIOUS
<1>2. 1 .. Len(s) + 1 = (1 .. Len(s)) \cup {Len(s) + 1}
  BY <1>1
<1> QED
  BY <1>1, <1>2 DEF Range

LEMMA EmptyFunction == WellFormed(NoFunction) /\ Open(NoFunction) = {}
<1>1. NoFunction = [blocks |-> {}, made |-> 0, code |-> <<>>, pre |-> <<>>, succ |-> <<>>]
  BY DEF NoFunction
<1> QED
  BY <1>1 DEF WellFormed, FunctionType, EdgesAgree, Open

\* What HasTerminator and OneTerminator look at.
LEMMA SameCodeSameTerminator ==
  ASSUME NEW f, NEW g, NEW b, g.code[b] = f.code[b]
  PROVE  /\ HasTerminator(g, b) <=> HasTerminator(f, b)
         /\ OneTerminator(g, b) <=> OneTerminator(f, b)
         /\ TargetsOf(g, b) = TargetsOf(f, b)
BY DEF HasTerminator, OneTerminator, TargetsOf

\* An open block contains no terminator at all, and has no successors.
LEMMA OpenBlock ==
  ASSUME NEW f, WellFormed(f), NEW b \in Open(f)
  PROVE  /\ b \in f.blocks /\ b \in 1 .. f.made
         /\ f.code[b] \in Seq(Instr)
         /\ \A i \in 1 .. Len(f.code[b]) : ~IsTerminator(f.code[b][i])
         /\ TargetsOf(f, b) = <<>>
         /\ f.succ[b] = <<>>
         /\ \A c \in f.blocks : b \notin Range(f.pre[c])
<1>1. b \in f.blocks /\ b \in 1 .. f.made /\ f.code[b] \in Seq(Instr)
  BY DEF WellFormed, FunctionType, Open
<1>2. \A i \in 1 .. Len(f.code[b]) : ~IsTerminator(f.code[b][i])
  BY <1>1 DEF WellFormed, Open, OneTerminator, HasTerminator
<1>3. TargetsOf(f, b) = <<>>
  BY DEF Open, TargetsOf
<1>4. Range(f.succ[b]) = {}
  <2>1. <<>> \in Seq(Nat)
    OBVIOUS
  <2>2. Range(TargetsOf(f, b)) = {}
    BY <1>3, <2>1, EmptyRange
  <2> QED
    BY <1>1, <2>2 DEF WellFormed, EdgesAgree
<1>5. f.succ[b] \in Seq(Nat)
  BY <1>1 DEF WellFormed, FunctionType
<1>6. f.succ[b] = <<>>
  BY <1>4, <1>5, EmptyRange
<1>7. \A c \in f.blocks : b \notin Range(f.pre[c])
  BY <1>1, <1>4 DEF WellFormed, EdgesAgree
<1> QED
  BY <1>1, <1>2, <1>3, <1>6, <1>7

LEMMA NoTerminator ==
  ASSUME NEW f, NEW b, f.code[b] \in Seq(Instr),
         \A i \in 1 .. Len(f.code[b]) : ~IsTerminator(f.code[b][i])
  PROVE  OneTerminator(f, b) /\ ~HasTerminator(f, b) /\ TargetsOf(f, b) = <<>>
<1>1. f.code[b] # <<>> => Len(f.code[b]) \in 1 .. Len(f.code[b])
  OBVIOUS
<1>2. ~HasTerminator(f, b)
  BY <1>1 DEF HasTerminator
<1> QED
  BY <1>2 DEF OneTerminator, TargetsOf

\* The lists of a function grow by an empty one.
LEMMA FreshElement ==
  ASSUME NEW S, NEW s \in Seq(S), NEW m, Len(s) = m, NEW e,
         NEW r, r = Append(s, e)
  PROVE  r[m + 1] = e /\ \A i \in 1 .. m : r[i] = s[i]
OBVIOUS

LEMMA ListsGrow ==
  ASSUME NEW S, NEW T, S \subseteq T, NEW s \in Seq(Seq(S)),
         NEW m, Len(s) = m, NEW r, r = Append(s, <<>>)
  PROVE  r \in Seq(Seq(T)) /\ Len(r) = m + 1
<1>1. Seq(S) \subseteq Seq(T)
  BY SeqMonotonic
<1>2. s \in Seq(Seq(T))
  BY <1>1, SeqMonotonic, Zenon
<1> QED
  BY <1>2

LEMMA CreateBlockFacts ==
  ASSUME NEW f, WellFormed(f)
  PROVE  LET g == CreateBlock(f)
             n == f.made + 1
         IN  /\ WellFormed(g)
             /\ g.made = n
             /\ g.blocks = f.blocks \cup {n}
             /\ Open(g) = Open(f) \cup {n}
             /\ n \notin f.blocks
             /\ g.pre[n] = <<>>
             /\ SameCode(f, g, {}) /\ SamePre(f, g, {})
<1> DEFINE g == CreateBlock(f)
           n == f.made + 1
<1>1. /\ f.made \in Nat /\ f.blocks \subseteq 1 .. f.made
      /\ f.code \in Seq(Seq(Instr)) /\ Len(f.code) = f.made
      /\ f.pre \in Seq(Seq(1 .. f.made)) /\ Len(f.pre) = f.made
      /\ f.succ \in Seq(Seq(1 .. f.made)) /\ Len(f.succ) = f.made
      /\ f.pre \in Seq(Seq(Nat)) /\ f.succ \in Seq(Seq(Nat))
  BY DEF WellFormed, FunctionType
<1>2. /\ g.made = n /\ g.blocks = f.blocks \cup {n}
      /\ g.code = Append(f.code, <<>>)
      /\ g.pre = Append(f.pre, <<>>)
      /\ g.succ = Append(f.succ, <<>>)
      /\ n \notin f.blocks /\ n \in Nat
  BY <1>1 DEF CreateBlock
<1>3. /\ g.code[n] = <<>> /\ g.pre[n] = <<>> /\ g.succ[n] = <<>>
      /\ \A b \in 1 .. f.made : /\ g.code[b] = f.code[b]
                                /\ g.pre[b] = f.pre[b]
                                /\ g.succ[b] = f.succ[b]
  <2> HIDE DEF g
  <2>1. g.code[n] = <<>> /\ \A b \in 1 .. f.made : g.code[b] = f.code[b]
    BY <1>1, <1>2, FreshElement
  <2>2. g.pre[n] = <<>> /\ \A b \in 1 .. f.made : g.pre[b] = f.pre[b]
    BY <1>1, <1>2, FreshElement
  <2>3. g.succ[n] = <<>> /\ \A b \in 1 .. f.made : g.succ[b] = f.succ[b]
    BY <1>1, <1>2, FreshElement
  <2> QED
    BY <2>1, <2>2, <2>3, Zenon
<1>4a. g = [blocks |-> g.blocks, made |-> g.made, code |-> g.code,
            pre |-> g.pre, succ |-> g.succ]
  BY DEF CreateBlock
<1>4. FunctionType(g)
  <2>1. 1 .. f.made \subseteq 1 .. n
    BY <1>1
  <2> HIDE DEF g
  <2>3. g.code \in Seq(Seq(Instr)) /\ Len(g.code) = n
    BY <1>1, <1>2, ListsGrow
  <2>4. g.pre \in Seq(Seq(1 .. n)) /\ g.pre \in Seq(Seq(Nat)) /\ Len(g.pre) = n
    <3>1. /\ f.pre \in Seq(Seq(1 .. f.made)) /\ Len(f.pre) = f.made
          /\ g.pre = Append(f.pre, <<>>)
      BY <1>1, <1>2
    <3>2. f.pre \in Seq(Seq(Nat)) /\ Nat \subseteq Nat
      BY <1>1
    <3>3. g.pre \in Seq(Seq(1 .. n)) /\ Len(g.pre) = n
      BY <2>1, <3>1, ListsGrow
    <3>4. g.pre \in Seq(Seq(Nat))
      BY <3>1, <3>2, ListsGrow, Zenon
    <3> QED
      BY <3>3, <3>4
  <2>5. g.succ \in Seq(Seq(1 .. n)) /\ g.succ \in Seq(Seq(Nat)) /\ Len(g.succ) = n
    <3>1. /\ f.succ \in Seq(Seq(1 .. f.made)) /\ Len(f.succ) = f.made
          /\ g.succ = Append(f.succ, <<>>)
      BY <1>1, <1>2
    <3>2. f.succ \in Seq(Seq(Nat)) /\ Nat \subseteq Nat
      BY <1>1
    <3>3. g.succ \in Seq(Seq(1 .. n)) /\ Len(g.succ) = n
      BY <2>1, <3>1, ListsGrow
    <3>4. g.succ \in Seq(Seq(Nat))
      BY <3>1, <3>2, ListsGrow, Zenon
    <3> QED
      BY <3>3, <3>4
  <2>6. g.blocks \subseteq 1 .. n
    BY <1>1, <1>2
  <2> QED
    <3>1. /\ n \in Nat /\ g.blocks \in SUBSET Nat /\ g.made = n
          /\ g.code \in Seq(Seq(Instr))
      BY <1>1, <1>2, <2>3, <2>6
    <3>2. g \in [blocks : SUBSET Nat, made : Nat, code : Seq(Seq(Instr)),
                 pre : Seq(Seq(Nat)), succ : Seq(Seq(Nat))]
      BY <3>1, <1>4a, <2>4, <2>5
    <3> QED
      BY <3>1, <3>2, <2>3, <2>4, <2>5, <2>6 DEF FunctionType
<1>5. ~HasTerminator(g, n) /\ OneTerminator(g, n) /\ TargetsOf(g, n) = <<>>
  BY <1>3 DEF HasTerminator, OneTerminator, TargetsOf
<1>6. \A b \in f.blocks : /\ HasTerminator(g, b) <=> HasTerminator(f, b)
                          /\ OneTerminator(g, b) <=> OneTerminator(f, b)
                          /\ TargetsOf(g, b) = TargetsOf(f, b)
  BY <1>1, <1>3, SameCodeSameTerminator
<1>7. \A b \in g.blocks : OneTerminator(g, b)
  BY <1>2, <1>5, <1>6 DEF WellFormed
<1>8. EdgesAgree(g)
  <2>1. Range(g.pre[n]) = {} /\ Range(g.succ[n]) = {} /\ Range(TargetsOf(g, n)) = {}
    BY <1>3, <1>5 DEF Range
  <2>2. \A b \in f.blocks : /\ g.pre[b] = f.pre[b] /\ g.succ[b] = f.succ[b]
                            /\ Range(f.succ[b]) \subseteq f.blocks
                            /\ Range(f.pre[b]) \subseteq f.blocks
    BY <1>1, <1>3 DEF WellFormed, EdgesAgree
  <2> QED
    BY <1>2, <1>6, <2>1, <2>2 DEF WellFormed, EdgesAgree
<1>9. Open(g) = Open(f) \cup {n}
  BY <1>2, <1>5, <1>6 DEF Open
<1> QED
  BY <1>2, <1>3, <1>4, <1>7, <1>8, <1>9 DEF WellFormed, SameCode, SamePre


Straight == {i \in Instr : ~IsTerminator(i)}

LEMMA AddInstrsFacts ==
  ASSUME NEW f, WellFormed(f), NEW b \in Open(f), NEW instrs \in Seq(Straight)
  PROVE  LET g == AddInstrs(f, b, instrs)
         IN  /\ WellFormed(g)
             /\ g.made = f.made
             /\ g.blocks = f.blocks
             /\ Open(g) = Open(f)
             /\ SameCode(f, g, {b}) /\ SamePre(f, g, {})
<1> DEFINE g == AddInstrs(f, b, instrs)
           old == f.code[b]
           new == old \o instrs
<1>1. /\ b \in f.blocks /\ b \in 1 .. f.made /\ f.code[b] \in Seq(Instr)
      /\ \A i \in 1 .. Len(old) : ~IsTerminator(old[i])
      /\ TargetsOf(f, b) = <<>>
  BY OpenBlock
<1>2. FunctionType(f)
  BY DEF WellFormed
<1>3. new \in Seq(Instr) /\ \A i \in 1 .. Len(new) : ~IsTerminator(new[i])
  <2>1. instrs \in Seq(Instr) /\ \A i \in 1 .. Len(instrs) : ~IsTerminator(instrs[i])
    BY SeqMonotonic DEF Straight
  <2>2. /\ Len(new) = Len(old) + Len(instrs) /\ new \in Seq(Instr)
        /\ \A i \in 1 .. Len(new) :
             new[i] = IF i <= Len(old) THEN old[i] ELSE instrs[i - Len(old)]
    BY <1>1, <2>1
  <2>3. ASSUME NEW i \in 1 .. Len(new) PROVE ~IsTerminator(new[i])
    <3>1. CASE i <= Len(old)
      BY <3>1, <1>1, <2>2
    <3>2. CASE ~(i <= Len(old))
      <4>1. new[i] = instrs[i - Len(old)] /\ i - Len(old) \in 1 .. Len(instrs)
        BY <3>2, <1>1, <2>1, <2>2
      <4> QED
        BY <4>1, <2>1
    <3> QED
      BY <3>1, <3>2, <1>1
  <2> QED
    BY <2>2, <2>3
<1>4. /\ g.made = f.made /\ g.blocks = f.blocks
      /\ g.pre = f.pre /\ g.succ = f.succ
      /\ g.code = [f.code EXCEPT ![b] = new]
  BY <1>2 DEF FunctionType, AddInstrs
<1>5. g.code[b] = new /\ \A c \in (1 .. f.made) \ {b} : g.code[c] = f.code[c]
  <2>1. DOMAIN f.code = 1 .. f.made
    BY <1>2 DEF FunctionType
  <2> HIDE DEF g, new, old
  <2> QED
    BY <2>1, <1>1, <1>4
<1>6. FunctionType(g)
  <2>1. g.code \in Seq(Seq(Instr)) /\ Len(g.code) = f.made
    BY <1>1, <1>2, <1>3, <1>4, ExceptSeq DEF FunctionType
  <2> QED
    BY <1>2, <1>4, <2>1 DEF FunctionType, AddInstrs
<1>7. OneTerminator(g, b) /\ ~HasTerminator(g, b) /\ TargetsOf(g, b) = <<>>
  BY <1>3, <1>5, NoTerminator
<1>8. \A c \in f.blocks \ {b} : /\ HasTerminator(g, c) <=> HasTerminator(f, c)
                                /\ OneTerminator(g, c) <=> OneTerminator(f, c)
                                /\ TargetsOf(g, c) = TargetsOf(f, c)
  BY <1>2, <1>5, SameCodeSameTerminator DEF FunctionType
<1>9. \A c \in f.blocks : TargetsOf(g, c) = TargetsOf(f, c)
  BY <1>1, <1>7, <1>8
<1>10. WellFormed(g)
  BY <1>4, <1>6, <1>7, <1>8, <1>9 DEF WellFormed, EdgesAgree
<1>11. Open(g) = Open(f)
  BY <1>4, <1>7, <1>8 DEF Open
<1> QED
  BY <1>4, <1>5, <1>10, <1>11 DEF SameCode, SamePre

\* One instruction at a time is a special case.
LEMMA AddInstrIsAddInstrs ==
  ASSUME NEW f, WellFormed(f), NEW b \in f.blocks, NEW instr \in Instr
  PROVE  AddInstr(f, b, instr) = AddInstrs(f, b, <<instr>>)
<1>1. f.code[b] \in Seq(Instr) /\ <<instr>> \in Seq(Instr)
  BY DEF WellFormed, FunctionType
<1>2. Append(f.code[b], instr) = f.code[b] \o <<instr>>
  BY <1>1, AppendIsConcat
<1>3. b \in DOMAIN f.code /\ "code" \in DOMAIN f
  BY DEF WellFormed, FunctionType
<1> QED
  BY <1>2, <1>3 DEF AddInstr, AddInstrs


-----------------------------------------------------------------------------
\* The terminators are instructions.
LEMMA TerminatorInstr ==
  /\ Ret \in Instr /\ IsTerminator(Ret) /\ Ret.to = <<>>
  /\ \A to \in Seq(Nat) : /\ Br(to) \in Instr /\ IsTerminator(Br(to))
                           /\ Br(to).to = to
<1>1. <<>> \in Seq(Nat) /\ 0 \in Nat /\ "ret" \in Ops /\ "br" \in Ops
  BY DEF Ops
<1>2. Ret = [op |-> "ret", to |-> <<>>, var |-> 0, src |-> 0]
  BY DEF Ret, Plain
<1>3. Ret \in Instr /\ IsTerminator(Ret) /\ Ret.to = <<>>
  BY <1>1, <1>2 DEF Instr, IsTerminator
<1>4. ASSUME NEW to \in Seq(Nat)
      PROVE  Br(to) \in Instr /\ IsTerminator(Br(to)) /\ Br(to).to = to
  BY <1>1 DEF Br, Instr, IsTerminator
<1> QED
  BY <1>3, <1>4

\* Other lists for the same blocks.
LEMMA ListsChanged ==
  ASSUME NEW f, FunctionType(f),
         NEW code \in Seq(Seq(Instr)), Len(code) = f.made,
         NEW pre \in Seq(Seq(Nat)), Len(pre) = f.made,
         pre \in Seq(Seq(1 .. f.made)),
         NEW succ \in Seq(Seq(Nat)), Len(succ) = f.made,
         succ \in Seq(Seq(1 .. f.made))
  PROVE  FunctionType([f EXCEPT !.code = code, !.pre = pre, !.succ = succ])
BY DEF FunctionType

\* Appending one instruction to one block.
LEMMA CodeAppended ==
  ASSUME NEW f, FunctionType(f), NEW b \in f.blocks, NEW t \in Instr
  PROVE  LET code == [f.code EXCEPT ![b] = Append(f.code[b], t)]
         IN  /\ code \in Seq(Seq(Instr)) /\ Len(code) = f.made
             /\ code[b] = Append(f.code[b], t)
             /\ \A c \in (1 .. f.made) \ {b} : code[c] = f.code[c]
<1>1. /\ f.code \in Seq(Seq(Instr)) /\ Len(f.code) = f.made /\ b \in 1 .. f.made
      /\ DOMAIN f.code = 1 .. f.made
  BY DEF FunctionType
<1>2. f.code[b] \in Seq(Instr)
  BY <1>1
<1>3. Append(f.code[b], t) \in Seq(Instr)
  BY <1>2
<1> QED
  BY <1>1, <1>3, ExceptSeq

\* What every kind of terminator does to the block it closes.
LEMMA TerminatorAdded ==
  ASSUME NEW f, WellFormed(f), NEW b \in Open(f),
         NEW t \in Instr, IsTerminator(t),
         NEW g, g.blocks = f.blocks,
         g.code[b] = Append(f.code[b], t),
         \A c \in (1 .. f.made) \ {b} : g.code[c] = f.code[c]
  PROVE  /\ \A c \in g.blocks : OneTerminator(g, c)
         /\ Open(g) = Open(f) \ {b}
         /\ TargetsOf(g, b) = t.to
         /\ \A c \in f.blocks \ {b} : TargetsOf(g, c) = TargetsOf(f, c)
<1> DEFINE old == f.code[b]
           new == Append(old, t)
<1>1. /\ b \in f.blocks /\ b \in 1 .. f.made /\ old \in Seq(Instr)
      /\ \A i \in 1 .. Len(old) : ~IsTerminator(old[i])
      /\ f.code \in Seq(Seq(Instr)) /\ Len(f.code) = f.made
      /\ f.blocks \subseteq 1 .. f.made
  BY OpenBlock DEF WellFormed, FunctionType
<1>2. /\ new \in Seq(Instr) /\ new # <<>>
      /\ Len(new) = Len(old) + 1 /\ Len(old) \in Nat
      /\ \A i \in 1 .. Len(old) : new[i] = old[i]
      /\ new[Len(new)] = t
  <2>1. old \in Seq(Instr)
    BY <1>1
  <2> QED
    BY <2>1, Appended
<1>3. g.code[b] = new
  OBVIOUS
<1>4. HasTerminator(g, b) /\ TargetsOf(g, b) = t.to
  BY <1>2, <1>3 DEF HasTerminator, TargetsOf
<1>5. OneTerminator(g, b)
  <2> SUFFICES ASSUME NEW i \in 1 .. Len(new), IsTerminator(new[i])
               PROVE  i = Len(new)
    BY <1>3 DEF OneTerminator
  <2> QED
    BY <1>1, <1>2
<1>6. \A c \in f.blocks \ {b} : /\ HasTerminator(g, c) <=> HasTerminator(f, c)
                                /\ OneTerminator(g, c) <=> OneTerminator(f, c)
                                /\ TargetsOf(g, c) = TargetsOf(f, c)
  BY <1>1, SameCodeSameTerminator
<1>7. \A c \in g.blocks : OneTerminator(g, c)
  BY <1>5, <1>6 DEF WellFormed
<1>8. Open(g) = Open(f) \ {b}
  BY <1>4, <1>6 DEF Open
<1> QED
  BY <1>4, <1>6, <1>7, <1>8

LEMMA CreateRetFacts ==
  ASSUME NEW f, WellFormed(f), NEW b \in Open(f)
  PROVE  LET g == CreateRet(f, b)
         IN  /\ WellFormed(g)
             /\ g.made = f.made
             /\ g.blocks = f.blocks
             /\ Open(g) = Open(f) \ {b} /\ TargetsOf(g, b) = <<>>
             /\ SameCode(f, g, {b}) /\ SamePre(f, g, {})
<1> DEFINE g == CreateRet(f, b)
<1>1. Ret \in Instr /\ IsTerminator(Ret) /\ Ret.to = <<>>
  BY TerminatorInstr
<1>2. FunctionType(f) /\ b \in f.blocks /\ b \in 1 .. f.made /\ TargetsOf(f, b) = <<>>
  BY OpenBlock DEF WellFormed
<1>3. /\ g.made = f.made /\ g.blocks = f.blocks
      /\ g.pre = f.pre /\ g.succ = f.succ
      /\ g.code \in Seq(Seq(Instr)) /\ Len(g.code) = f.made
      /\ g.code[b] = Append(f.code[b], Ret)
      /\ \A c \in (1 .. f.made) \ {b} : g.code[c] = f.code[c]
  <2>1. /\ g.made = f.made /\ g.blocks = f.blocks
        /\ g.pre = f.pre /\ g.succ = f.succ
        /\ g.code = [f.code EXCEPT ![b] = Append(f.code[b], Ret)]
    BY <1>2 DEF FunctionType, CreateRet, AddInstr
  <2> QED
    BY <2>1, <1>1, <1>2, CodeAppended
<1>4. /\ \A c \in g.blocks : OneTerminator(g, c)
      /\ Open(g) = Open(f) \ {b}
      /\ TargetsOf(g, b) = Ret.to
      /\ \A c \in f.blocks \ {b} : TargetsOf(g, c) = TargetsOf(f, c)
  <2> HIDE DEF g
  <2>1. /\ g.blocks = f.blocks /\ g.code[b] = Append(f.code[b], Ret)
        /\ \A c \in (1 .. f.made) \ {b} : g.code[c] = f.code[c]
    BY <1>3
  <2> QED
    BY <2>1, <1>1, TerminatorAdded
<1>5. FunctionType(g)
  BY <1>2, <1>3, <1>4 DEF FunctionType, CreateRet, AddInstr
<1>6. \A c \in f.blocks : TargetsOf(g, c) = TargetsOf(f, c)
  BY <1>1, <1>2, <1>4
<1>7. EdgesAgree(g)
  BY <1>3, <1>6 DEF WellFormed, EdgesAgree
<1> QED
  BY <1>1, <1>3, <1>4, <1>5, <1>7 DEF WellFormed, SameCode, SamePre

\* The edges out of a block that is closed by a branch to the blocks in T.
LEMMA EdgesAdded ==
  ASSUME NEW f, WellFormed(f), NEW b \in Open(f), NEW T, T \subseteq f.blocks,
         NEW g, g.blocks = f.blocks,
         Range(g.succ[b]) = T, Range(TargetsOf(g, b)) = T,
         \A c \in f.blocks \ {b} : /\ g.succ[c] = f.succ[c]
                                   /\ TargetsOf(g, c) = TargetsOf(f, c),
         \A c \in f.blocks \ T : g.pre[c] = f.pre[c],
         \A c \in T : Range(g.pre[c]) = Range(f.pre[c]) \cup {b}
  PROVE  EdgesAgree(g)
<1>1. b \in f.blocks /\ Range(f.succ[b]) = {}
  <2>1. b \in f.blocks /\ f.succ[b] = <<>> /\ <<>> \in Seq(Nat)
    BY OpenBlock
  <2> QED
    BY <2>1, EmptyRange
<1>2. \A c \in f.blocks :
        /\ Range(f.succ[c]) = Range(TargetsOf(f, c))
        /\ Range(f.succ[c]) \subseteq f.blocks
        /\ Range(f.pre[c]) \subseteq f.blocks
        /\ \A d \in f.blocks : c \in Range(f.pre[d]) <=> d \in Range(f.succ[c])
  BY DEF WellFormed, EdgesAgree
<1> SUFFICES ASSUME NEW c \in f.blocks
             PROVE  /\ Range(g.succ[c]) = Range(TargetsOf(g, c))
                    /\ Range(g.succ[c]) \subseteq f.blocks
                    /\ Range(g.pre[c]) \subseteq f.blocks
                    /\ \A d \in f.blocks : c \in Range(g.pre[d]) <=> d \in Range(g.succ[c])
  BY DEF EdgesAgree
<1>3. /\ Range(g.succ[c]) = Range(TargetsOf(g, c))
      /\ Range(g.succ[c]) \subseteq f.blocks
  BY <1>2
<1>4. Range(g.pre[c]) \subseteq f.blocks
  BY <1>1, <1>2
<1>5. ASSUME NEW d \in f.blocks
      PROVE  c \in Range(g.pre[d]) <=> d \in Range(g.succ[c])
  <2>1. c \in Range(g.pre[d]) <=> c \in Range(f.pre[d]) \/ (c = b /\ d \in T)
    OBVIOUS
  <2>2. d \in Range(g.succ[c]) <=> d \in Range(f.succ[c]) \/ (c = b /\ d \in T)
    BY <1>1
  <2> QED
    BY <2>1, <2>2, <1>2
<1> QED
  BY <1>3, <1>4, <1>5

LEMMA CreateBrFacts ==
  ASSUME NEW f, WellFormed(f), NEW b \in Open(f), NEW t \in f.blocks
  PROVE  LET g == CreateBr(f, b, t)
         IN  /\ WellFormed(g)
             /\ g.made = f.made
             /\ g.blocks = f.blocks
             /\ Open(g) = Open(f) \ {b} /\ TargetsOf(g, b) = <<t>>
             /\ g.pre[t] = Append(f.pre[t], b)
             /\ SameCode(f, g, {b}) /\ SamePre(f, g, {t})
<1> DEFINE g == CreateBr(f, b, t)
<1>1. FunctionType(f) /\ b \in f.blocks /\ b \in 1 .. f.made /\ t \in 1 .. f.made
      /\ f.succ[b] = <<>>
  BY OpenBlock DEF WellFormed, FunctionType
<1>2. Br(<<t>>) \in Instr /\ IsTerminator(Br(<<t>>)) /\ Br(<<t>>).to = <<t>>
  <2>1. t \in Nat
    BY <1>1 DEF FunctionType
  <2>2. <<t>> \in Seq(Nat)
    BY <2>1
  <2> QED
    BY <2>2, TerminatorInstr, Zenon
<1>3. /\ g.made = f.made /\ g.blocks = f.blocks
      /\ g.pre = [f.pre EXCEPT ![t] = Append(f.pre[t], b)]
      /\ g.succ = [f.succ EXCEPT ![b] = Append(f.succ[b], t)]
      /\ g.code \in Seq(Seq(Instr)) /\ Len(g.code) = f.made
      /\ g.code[b] = Append(f.code[b], Br(<<t>>))
      /\ \A c \in (1 .. f.made) \ {b} : g.code[c] = f.code[c]
  <2>1. /\ g.made = f.made /\ g.blocks = f.blocks
        /\ g.pre = [f.pre EXCEPT ![t] = Append(f.pre[t], b)]
        /\ g.succ = [f.succ EXCEPT ![b] = Append(f.succ[b], t)]
        /\ g.code = [f.code EXCEPT ![b] = Append(f.code[b], Br(<<t>>))]
    BY <1>1 DEF FunctionType, CreateBr
  <2> QED
    BY <2>1, <1>1, <1>2, CodeAppended
<1>4. /\ \A c \in g.blocks : OneTerminator(g, c)
      /\ Open(g) = Open(f) \ {b}
      /\ TargetsOf(g, b) = Br(<<t>>).to
      /\ \A c \in f.blocks \ {b} : TargetsOf(g, c) = TargetsOf(f, c)
  <2> HIDE DEF g
  <2> QED
    BY <1>2, <1>3, TerminatorAdded
<1>5. /\ g.pre[t] = Append(f.pre[t], b)
      /\ \A c \in (1 .. f.made) \ {t} : g.pre[c] = f.pre[c]
      /\ g.succ[b] = <<t>>
      /\ \A c \in (1 .. f.made) \ {b} : g.succ[c] = f.succ[c]
  <2>1. DOMAIN f.pre = 1 .. f.made /\ DOMAIN f.succ = 1 .. f.made
    BY <1>1 DEF FunctionType
  <2>2. g.succ[b] = <<t>>
    <3>1. Append(f.succ[b], t) = <<t>>
      BY <1>1
    <3> HIDE DEF g
    <3> QED
      BY <3>1, <2>1, <1>1, <1>3
  <2> HIDE DEF g
  <2> QED
    BY <2>1, <2>2, <1>1, <1>3
<1>6. FunctionType(g)
  <2>1. f.pre[t] \in Seq(1 .. f.made) /\ f.pre[t] \in Seq(Nat)
    <3>1. /\ f.pre \in Seq(Seq(1 .. f.made)) /\ f.pre \in Seq(Seq(Nat))
          /\ t \in 1 .. Len(f.pre)
      BY <1>1 DEF FunctionType
    <3> QED
      BY <3>1
  <2>2. /\ Append(f.pre[t], b) \in Seq(1 .. f.made)
        /\ Append(f.pre[t], b) \in Seq(Nat)
    BY <1>1, <2>1
  <2>3. /\ g.pre \in Seq(Seq(1 .. f.made)) /\ Len(g.pre) = f.made
        /\ g.pre \in Seq(Seq(Nat))
    BY <1>1, <1>3, <2>2, ExceptSeq DEF FunctionType
  <2>4. Append(f.succ[b], t) \in Seq(1 .. f.made) /\ Append(f.succ[b], t) \in Seq(Nat)
    BY <1>1
  <2>5. /\ g.succ \in Seq(Seq(1 .. f.made)) /\ Len(g.succ) = f.made
        /\ g.succ \in Seq(Seq(Nat))
    BY <1>1, <1>3, <2>4, ExceptSeq DEF FunctionType
  <2> QED
    BY <1>1, <1>3, <1>4, <2>3, <2>5 DEF FunctionType, CreateBr
<1>7. EdgesAgree(g)
  <2>1. Range(g.pre[t]) = Range(f.pre[t]) \cup {b}
    <3>1. /\ f.pre \in Seq(Seq(Nat)) /\ t \in 1 .. Len(f.pre)
          /\ f.made \in Nat /\ b \in 1 .. f.made
      BY <1>1 DEF FunctionType
    <3>2. f.pre[t] \in Seq(Nat) /\ b \in Nat
      BY <3>1
    <3>3. Range(Append(f.pre[t], b)) = Range(f.pre[t]) \cup {b}
      BY <3>2, Appended
    <3> QED
      BY <3>3, <1>5
  <2>2. g.succ[b] = TargetsOf(g, b) /\ Range(<<t>>) = {t}
    BY <1>2, <1>4, <1>5 DEF Range
  <2>3. f.blocks \subseteq 1 .. f.made /\ {t} \subseteq f.blocks
    BY <1>1 DEF FunctionType
  <2>4. \A c \in f.blocks \ {b} : g.succ[c] = f.succ[c] /\ TargetsOf(g, c) = TargetsOf(f, c)
    BY <2>3, <1>4, <1>5
  <2>5. \A c \in f.blocks \ {t} : g.pre[c] = f.pre[c]
    BY <2>3, <1>5
  <2>6. \A c \in {t} : Range(g.pre[c]) = Range(f.pre[c]) \cup {b}
    BY <2>1
  <2>7. g.blocks = f.blocks /\ Range(g.succ[b]) = {t} /\ Range(TargetsOf(g, b)) = {t}
    BY <2>2, <1>2, <1>3, <1>4
  <2> HIDE DEF g
  <2> QED
    BY <2>3, <2>4, <2>5, <2>6, <2>7, EdgesAdded
<1> QED
  BY <1>2, <1>3, <1>4, <1>5, <1>6, <1>7 DEF WellFormed, SameCode, SamePre

\* What a branch to two different blocks leaves behind.
Branched(f, b, t, e, g) ==
  /\ WellFormed(g)
  /\ g.made = f.made
  /\ g.blocks = f.blocks
  /\ Open(g) = Open(f) \ {b} /\ TargetsOf(g, b) = <<t, e>>
  /\ g.pre[t] = Append(f.pre[t], b)
  /\ g.pre[e] = Append(f.pre[e], b)
  /\ SameCode(f, g, {b}) /\ SamePre(f, g, {t, e})

LEMMA CreateCondBrFacts ==
  ASSUME NEW f, WellFormed(f), NEW b \in Open(f),
         NEW t \in f.blocks, NEW e \in f.blocks, t # e
  PROVE  Branched(f, b, t, e, CreateCondBr(f, b, t, e))
<1> DEFINE g == CreateCondBr(f, b, t, e)
<1> PICK i : i = Br(<<t, e>>)
  OBVIOUS
<1>1. /\ FunctionType(f) /\ b \in f.blocks /\ b \in 1 .. f.made
      /\ t \in 1 .. f.made /\ e \in 1 .. f.made
      /\ f.succ[b] = <<>>
  BY OpenBlock DEF WellFormed, FunctionType
<1>2. i \in Instr /\ IsTerminator(i) /\ i.to = <<t, e>>
  <2>1. t \in Nat /\ e \in Nat
    BY <1>1 DEF FunctionType
  <2>2. <<t, e>> \in Seq(Nat)
    BY <2>1
  <2> QED
    BY <2>2, TerminatorInstr, Zenon
<1>3. /\ g.made = f.made /\ g.blocks = f.blocks
      /\ g.pre = [[f.pre EXCEPT ![t] = Append(f.pre[t], b)] EXCEPT ![e] = Append(f.pre[e], b)]
      /\ g.succ = [f.succ EXCEPT ![b] = f.succ[b] \o <<e, t>>]
      /\ g.code \in Seq(Seq(Instr)) /\ Len(g.code) = f.made
      /\ g.code[b] = Append(f.code[b], i)
      /\ \A c \in (1 .. f.made) \ {b} : g.code[c] = f.code[c]
  <2>1. /\ g.made = f.made /\ g.blocks = f.blocks
        /\ g.pre = [[f.pre EXCEPT ![t] = Append(f.pre[t], b)] EXCEPT ![e] = Append(f.pre[e], b)]
        /\ g.succ = [f.succ EXCEPT ![b] = f.succ[b] \o <<e, t>>]
        /\ g.code = [f.code EXCEPT ![b] = Append(f.code[b], i)]
    BY <1>1 DEF FunctionType, CreateCondBr
  <2> HIDE DEF g
  <2> QED
    BY <2>1, <1>1, <1>2, CodeAppended, SMTT(30)
<1>4. /\ \A c \in g.blocks : OneTerminator(g, c)
      /\ Open(g) = Open(f) \ {b}
      /\ TargetsOf(g, b) = i.to
      /\ \A c \in f.blocks \ {b} : TargetsOf(g, c) = TargetsOf(f, c)
  <2>1. g.blocks = f.blocks /\ g.code[b] = Append(f.code[b], i)
        /\ \A c \in (1 .. f.made) \ {b} : g.code[c] = f.code[c]
    BY <1>3
  <2> HIDE DEF g
  <2> QED
    BY <2>1, <1>2, TerminatorAdded
<1>5. f.pre[t] \in Seq(1 .. f.made) /\ f.pre[t] \in Seq(Nat)
      /\ f.pre[e] \in Seq(1 .. f.made) /\ f.pre[e] \in Seq(Nat)
      /\ DOMAIN f.pre = 1 .. f.made /\ DOMAIN f.succ = 1 .. f.made
      /\ b \in Nat /\ t \in Nat /\ e \in Nat
  <2>1. /\ f.pre \in Seq(Seq(1 .. f.made)) /\ f.pre \in Seq(Seq(Nat))
        /\ t \in 1 .. Len(f.pre) /\ e \in 1 .. Len(f.pre)
        /\ DOMAIN f.pre = 1 .. f.made /\ DOMAIN f.succ = 1 .. f.made
        /\ b \in Nat /\ t \in Nat /\ e \in Nat
    BY <1>1 DEF FunctionType
  <2> QED
    BY <2>1
<1>6. /\ g.pre[t] = Append(f.pre[t], b)
      /\ g.pre[e] = Append(f.pre[e], b)
      /\ \A c \in (1 .. f.made) \ {t, e} : g.pre[c] = f.pre[c]
      /\ g.succ[b] = <<e, t>>
      /\ \A c \in (1 .. f.made) \ {b} : g.succ[c] = f.succ[c]
  <2>1. f.succ[b] \o <<e, t>> = <<e, t>>
    BY <1>1
  <2> HIDE DEF g
  <2> QED
    BY <2>1, <1>1, <1>3, <1>5
<1>7. FunctionType(g)
  <2>1. /\ Append(f.pre[t], b) \in Seq(1 .. f.made) /\ Append(f.pre[t], b) \in Seq(Nat)
        /\ Append(f.pre[e], b) \in Seq(1 .. f.made) /\ Append(f.pre[e], b) \in Seq(Nat)
    BY <1>1, <1>5
  <2> DEFINE p == [f.pre EXCEPT ![t] = Append(f.pre[t], b)]
  <2>2. /\ p \in Seq(Seq(1 .. f.made)) /\ Len(p) = f.made
        /\ p \in Seq(Seq(Nat))
    BY <1>1, <2>1, ExceptSeq DEF FunctionType
  <2>3. g.pre = [p EXCEPT ![e] = Append(f.pre[e], b)]
    BY <1>3
  <2>4. /\ g.pre \in Seq(Seq(1 .. f.made)) /\ Len(g.pre) = f.made
        /\ g.pre \in Seq(Seq(Nat))
    <3> HIDE DEF p, g
    <3> QED
      BY <1>1, <2>1, <2>2, <2>3, ExceptSeq
  <2>5. f.succ[b] \o <<e, t>> \in Seq(1 .. f.made) /\ f.succ[b] \o <<e, t>> \in Seq(Nat)
    BY <1>1, <1>5
  <2>6. /\ g.succ \in Seq(Seq(1 .. f.made)) /\ Len(g.succ) = f.made
        /\ g.succ \in Seq(Seq(Nat))
    <3>1. g.succ = [f.succ EXCEPT ![b] = f.succ[b] \o <<e, t>>]
      BY <1>3
    <3>2. /\ f.succ \in Seq(Seq(1 .. f.made)) /\ f.succ \in Seq(Seq(Nat))
          /\ Len(f.succ) = f.made
      BY <1>1 DEF FunctionType
    <3> HIDE DEF g, p
    <3> QED
      BY <1>1, <2>5, <3>1, <3>2, ExceptSeq
  <2> QED
    <3>1. g = [f EXCEPT !.code = g.code, !.pre = g.pre, !.succ = g.succ]
      BY DEF CreateCondBr
    <3> HIDE DEF g
    <3>2. g.code \in Seq(Seq(Instr)) /\ Len(g.code) = f.made
      BY <1>3
    <3>3. FunctionType(f)
      BY <1>1
    <3> PICK c, q, s : c = g.code /\ q = g.pre /\ s = g.succ
      OBVIOUS
    <3>4. FunctionType([f EXCEPT !.code = c, !.pre = q, !.succ = s])
      BY <3>2, <3>3, <2>4, <2>6, ListsChanged
    <3>5. g = [f EXCEPT !.code = c, !.pre = q, !.succ = s]
      BY <3>1
    <3> QED
      BY <3>4, <3>5, Zenon
<1>8. EdgesAgree(g)
  <2>1. /\ Range(Append(f.pre[t], b)) = Range(f.pre[t]) \cup {b}
        /\ Range(Append(f.pre[e], b)) = Range(f.pre[e]) \cup {b}
    <3>1. /\ f.pre[t] \in Seq(Nat) /\ f.pre[e] \in Seq(Nat) /\ b \in Nat
      BY <1>5
    <3>2. Range(Append(f.pre[t], b)) = Range(f.pre[t]) \cup {b}
      BY <3>1, Appended
    <3>3. Range(Append(f.pre[e], b)) = Range(f.pre[e]) \cup {b}
      BY <3>1, Appended
    <3> QED
      BY <3>2, <3>3
  <2>2. Range(<<t, e>>) = {t, e} /\ Range(<<e, t>>) = {t, e}
    BY DEF Range
  <2>3. f.blocks \subseteq 1 .. f.made /\ {t, e} \subseteq f.blocks
    <3>0. FunctionType(f)
      BY <1>1
    <3>1. f.blocks \subseteq 1 .. f.made
      BY <3>0 DEF FunctionType
    <3>2. {t, e} \subseteq f.blocks
      OBVIOUS
    <3> QED
      BY <3>1, <3>2, Zenon
  <2> HIDE DEF g
  <2>4. \A c \in f.blocks \ {b} : g.succ[c] = f.succ[c] /\ TargetsOf(g, c) = TargetsOf(f, c)
    BY <2>3, <1>4, <1>6
  <2> PICK T : T = {t, e}
    OBVIOUS
  <2>5. \A c \in f.blocks \ T : g.pre[c] = f.pre[c]
    BY <2>3, <1>6
  <2>6. \A c \in T : Range(g.pre[c]) = Range(f.pre[c]) \cup {b}
    BY <2>1, <1>6
  <2>7. /\ T \subseteq f.blocks /\ g.blocks = f.blocks
        /\ Range(g.succ[b]) = T /\ Range(TargetsOf(g, b)) = T
    BY <2>2, <1>2, <1>3, <1>4, <1>6
  <2> QED
    BY <2>4, <2>5, <2>6, <2>7, EdgesAdded
<1> QED
  BY <1>2, <1>3, <1>4, <1>6, <1>7, <1>8 DEF WellFormed, SameCode, SamePre, Branched

\* A block nobody branches to can go without a trace.
LEMMA EraseBlockFacts ==
  ASSUME NEW f, WellFormed(f), NEW b \in Open(f), f.pre[b] = <<>>
  PROVE  LET g == EraseBlock(f, b)
         IN  /\ WellFormed(g)
             /\ g.made = f.made
             /\ g.blocks = f.blocks \ {b}
             /\ Open(g) = Open(f) \ {b}
             /\ SameCode(f, g, {}) /\ SamePre(f, g, {})
<1> DEFINE g == EraseBlock(f, b)
<1>1. FunctionType(f) /\ b \in f.blocks /\ f.succ[b] = <<>>
      /\ \A c \in f.blocks : b \notin Range(f.pre[c])
  BY OpenBlock DEF WellFormed
<1>2. Range(f.succ[b]) = {} /\ Range(f.pre[b]) = {}
  <2>1. <<>> \in Seq(Nat)
    OBVIOUS
  <2> QED
    BY <1>1, <2>1, EmptyRange
<1>3. g.made = f.made /\ g.blocks = f.blocks \ {b} /\ g.code = f.code
  BY <1>1 DEF FunctionType, EraseBlock
<1>4. f.pre = [s \in DOMAIN f.pre |-> f.pre[s]] /\ f.succ = [p \in DOMAIN f.succ |-> f.succ[p]]
  BY <1>1 DEF FunctionType
<1>5. g.pre = f.pre /\ g.succ = f.succ
  <2>1. g.succ = [p \in DOMAIN f.succ |-> f.succ[p]]
    BY <1>1, <1>2 DEF FunctionType, EraseBlock
  <2>2. g.pre = [s \in DOMAIN f.pre |-> f.pre[s]]
    BY <1>1, <1>2 DEF FunctionType, EraseBlock
  <2> HIDE DEF g
  <2> QED
    BY <2>1, <2>2, <1>4
<1>6. FunctionType(g)
  BY <1>1, <1>3, <1>5 DEF FunctionType, EraseBlock
<1> HIDE DEF g
<1>7. \A c \in f.blocks : /\ HasTerminator(g, c) <=> HasTerminator(f, c)
                          /\ OneTerminator(g, c) <=> OneTerminator(f, c)
                          /\ TargetsOf(g, c) = TargetsOf(f, c)
  BY <1>3, SameCodeSameTerminator
<1>8. \A c \in f.blocks : b \notin Range(f.succ[c])
  BY <1>1, <1>2 DEF WellFormed, EdgesAgree
<1>9. EdgesAgree(g)
  BY <1>1, <1>3, <1>5, <1>7, <1>8 DEF WellFormed, EdgesAgree
<1>10. Open(g) = Open(f) \ {b}
  BY <1>3, <1>7 DEF Open
<1>11. WellFormed(g)
  BY <1>3, <1>6, <1>7, <1>9 DEF WellFormed
<1> QED
  BY <1>3, <1>5, <1>10, <1>11 DEF SameCode, SamePre, g

-----------------------------------------------------------------------------
(* The stack of visit functions.                                           *)

\* The block an iteration jumps back to.
HeadOf(frame) == IF frame.visit \in {"iteration", "while"} THEN {frame.other} ELSE {}

HeadsIn(frames) == UNION {HeadOf(frames[i]) : i \in DOMAIN frames}

\* The two blocks of an if branch differ; a falseBB without else is unused.
ThenFrame(frame, f) ==
  frame.visit = "then" =>
    frame.other # frame.cont /\ (~frame.flag => f.pre[frame.other] = <<>>)

\* The frames agree with the function and with each other.
FramesOK(frames, ins, f) ==
  /\ frames \in Seq(Frame)
  /\ PendingIn(frames) \subseteq Open(f) \ {ins}
  /\ \A i, j \in DOMAIN frames :
       i # j => PendingOf(frames[i]) \cap PendingOf(frames[j]) = {}
  /\ \A i \in DOMAIN frames : ThenFrame(frames[i], f)
  /\ HeadsIn(frames) \subseteq f.blocks \ PendingIn(frames)

\* Visits that wait for a child, and those whose child is an expression.
AwaitExpression == {"selection", "iteration", "return"}
Await == {"function", "statements", "then", "else", "while"} \cup AwaitExpression

ShapeOK(frames) ==
  \A i \in DOMAIN frames :
    /\ frames[i].visit = "function" <=> i = 1
    /\ i < Len(frames) =>
         /\ frames[i].visit \in Await
         /\ frames[i].visit \in AwaitExpression => frames[i + 1].visit = "expression"

LEMMA LeaveFacts ==
  ASSUME NEW s \in Seq(Frame), s # <<>>
  PROVE  LET r == SubSeq(s, 1, Len(s) - 1)
         IN  /\ r \in Seq(Frame)
             /\ Len(s) \in Nat \ {0} /\ DOMAIN s = 1 .. Len(s)
             /\ Len(r) = Len(s) - 1 /\ DOMAIN r = 1 .. Len(s) - 1
             /\ \A i \in 1 .. Len(s) - 1 : r[i] = s[i]
             /\ s[Len(s)] \in Frame
<1> DEFINE r == SubSeq(s, 1, Len(s) - 1)
<1>1. Len(s) \in Nat \ {0} /\ DOMAIN s = 1 .. Len(s) /\ s[Len(s)] \in Frame
  OBVIOUS
<1>2. /\ r \in Seq(Frame) /\ Len(r) = Len(s) - 1
      /\ \A i \in 1 .. Len(s) - 1 : r[i] = s[i]
  BY <1>1, SubSeqProperties
<1> QED
  BY <1>1, <1>2

LEMMA PushFacts ==
  ASSUME NEW r \in Seq(Frame), NEW frame \in Frame
  PROVE  LET s == Append(r, frame)
         IN  /\ s \in Seq(Frame) /\ s # <<>>
             /\ Len(r) \in Nat /\ DOMAIN r = 1 .. Len(r)
             /\ Len(s) = Len(r) + 1 /\ DOMAIN s = 1 .. Len(r) + 1
             /\ \A i \in 1 .. Len(r) : s[i] = r[i]
             /\ s[Len(r) + 1] = frame
OBVIOUS

\* Changing the top frame is leaving it and entering the new one.
LEMMA BecomeIsPush ==
  ASSUME NEW s \in Seq(Frame), s # <<>>, NEW frame \in Frame
  PROVE  [s EXCEPT ![Len(s)] = frame] = Append(SubSeq(s, 1, Len(s) - 1), frame)
<1> DEFINE r == SubSeq(s, 1, Len(s) - 1)
           t == [s EXCEPT ![Len(s)] = frame]
<1>1. /\ r \in Seq(Frame) /\ Len(s) \in Nat \ {0} /\ Len(r) = Len(s) - 1
      /\ \A i \in 1 .. Len(s) - 1 : r[i] = s[i]
  BY LeaveFacts
<1>2. /\ t \in Seq(Frame) /\ Len(t) = Len(s)
      /\ \A i \in 1 .. Len(s) : t[i] = IF i = Len(s) THEN frame ELSE s[i]
  BY <1>1
<1>3. /\ Append(r, frame) \in Seq(Frame) /\ Len(Append(r, frame)) = Len(s)
      /\ \A i \in 1 .. Len(s) - 1 : Append(r, frame)[i] = r[i]
      /\ Append(r, frame)[Len(s)] = frame
  <2> HIDE DEF r
  <2> QED
    BY <1>1
<1>4. \A i \in 1 .. Len(s) : t[i] = Append(r, frame)[i]
  <2> HIDE DEF r, t
  <2> QED
    BY <1>1, <1>2, <1>3
<1> HIDE DEF r, t
<1>5. t = Append(r, frame)
  BY <1>2, <1>3, <1>4, SeqEqual
<1> QED
  BY <1>5 DEF r, t

-----------------------------------------------------------------------------
(* The frame invariants under leaving, entering and changing the function. *)

LEMMA PopFrames ==
  ASSUME NEW s, NEW ins, NEW f, FramesOK(s, ins, f), s # <<>>
  PROVE  LET r == SubSeq(s, 1, Len(s) - 1)
             top == s[Len(s)]
         IN  /\ FramesOK(r, ins, f)
             /\ top \in Frame
             /\ PendingIn(s) = PendingIn(r) \cup PendingOf(top)
             /\ PendingOf(top) \cap PendingIn(r) = {}
             /\ PendingOf(top) \subseteq Open(f) \ {ins}
             /\ PendingOf(top) \cap HeadsIn(r) = {}
             /\ HeadOf(top) \subseteq f.blocks \ PendingIn(s)
             /\ ThenFrame(top, f)
<1> DEFINE r == SubSeq(s, 1, Len(s) - 1)
           n == Len(s)
           top == s[n]
<1>1. /\ r \in Seq(Frame) /\ n \in Nat \ {0} /\ DOMAIN s = 1 .. n
      /\ Len(r) = n - 1 /\ DOMAIN r = 1 .. n - 1
      /\ \A i \in 1 .. n - 1 : r[i] = s[i]
      /\ top \in Frame
  BY LeaveFacts DEF FramesOK
<1> HIDE DEF r, n
<1>2. /\ DOMAIN s = DOMAIN r \cup {n} /\ n \notin DOMAIN r
      /\ \A i \in DOMAIN r : r[i] = s[i]
  BY <1>1
<1>3. PendingIn(s) = PendingIn(r) \cup PendingOf(top)
  BY <1>2 DEF PendingIn
<1>4. HeadsIn(s) = HeadsIn(r) \cup HeadOf(top)
  BY <1>2 DEF HeadsIn
<1>5. /\ \A i, j \in DOMAIN s : i # j => PendingOf(s[i]) \cap PendingOf(s[j]) = {}
      /\ \A i \in DOMAIN s : ThenFrame(s[i], f)
      /\ HeadsIn(s) \subseteq f.blocks \ PendingIn(s)
      /\ PendingIn(s) \subseteq Open(f) \ {ins}
  BY DEF FramesOK
<1>6. PendingOf(top) \cap PendingIn(r) = {}
  BY <1>2, <1>5 DEF PendingIn
<1>7. FramesOK(r, ins, f)
  <2>1. \A i, j \in DOMAIN r : i # j => PendingOf(r[i]) \cap PendingOf(r[j]) = {}
    BY <1>2, <1>5
  <2>2. \A i \in DOMAIN r : ThenFrame(r[i], f)
    BY <1>2, <1>5
  <2> QED
    BY <1>1, <1>3, <1>4, <1>5, <2>1, <2>2 DEF FramesOK
<1>8. ThenFrame(top, f)
  BY <1>2, <1>5
<1> QED
  BY <1>1, <1>3, <1>4, <1>5, <1>6, <1>7, <1>8 DEF r, n

LEMMA PushFrame ==
  ASSUME NEW r, NEW ins, NEW f, FramesOK(r, ins, f), NEW frame \in Frame,
         PendingOf(frame) \subseteq Open(f) \ {ins},
         PendingOf(frame) \cap (PendingIn(r) \cup HeadsIn(r) \cup HeadOf(frame)) = {},
         HeadOf(frame) \subseteq f.blocks \ PendingIn(r),
         ThenFrame(frame, f)
  PROVE  LET s == Append(r, frame)
         IN  /\ FramesOK(s, ins, f)
             /\ PendingIn(s) = PendingIn(r) \cup PendingOf(frame)
<1> DEFINE s == Append(r, frame)
           n == Len(r) + 1
<1>1. /\ s \in Seq(Frame) /\ Len(r) \in Nat
      /\ DOMAIN s = 1 .. Len(r) + 1 /\ DOMAIN r = 1 .. Len(r)
      /\ \A i \in 1 .. Len(r) : s[i] = r[i]
      /\ s[n] = frame
  BY PushFacts DEF FramesOK
<1>2. /\ s \in Seq(Frame)
      /\ DOMAIN s = DOMAIN r \cup {n} /\ n \notin DOMAIN r
      /\ \A i \in DOMAIN r : s[i] = r[i]
      /\ s[n] = frame
  <2> HIDE DEF s
  <2>1. 1 .. Len(r) + 1 = 1 .. Len(r) \cup {Len(r) + 1} /\ Len(r) + 1 \notin 1 .. Len(r)
    BY <1>1
  <2> QED
    BY <1>1, <2>1
<1> HIDE DEF s, n
<1>3. PendingIn(s) = PendingIn(r) \cup PendingOf(frame)
  BY <1>2 DEF PendingIn
<1>4. HeadsIn(s) = HeadsIn(r) \cup HeadOf(frame)
  BY <1>2 DEF HeadsIn
<1>5. /\ \A i, j \in DOMAIN r : i # j => PendingOf(r[i]) \cap PendingOf(r[j]) = {}
      /\ \A i \in DOMAIN r : ThenFrame(r[i], f)
      /\ HeadsIn(r) \subseteq f.blocks \ PendingIn(r)
      /\ PendingIn(r) \subseteq Open(f) \ {ins}
  BY DEF FramesOK
<1>6. \A i \in DOMAIN r : PendingOf(r[i]) \cap PendingOf(frame) = {}
  BY DEF PendingIn
<1>7. \A i, j \in DOMAIN s : i # j => PendingOf(s[i]) \cap PendingOf(s[j]) = {}
  BY <1>2, <1>5, <1>6
<1>8. \A i \in DOMAIN s : ThenFrame(s[i], f)
  BY <1>2, <1>5
<1>9. HeadsIn(s) \subseteq f.blocks \ PendingIn(s)
  BY <1>3, <1>4, <1>5
<1>10. FramesOK(s, ins, f)
  BY <1>2, <1>3, <1>5, <1>7, <1>8, <1>9 DEF FramesOK
<1> QED
  BY <1>3, <1>10 DEF s

\* A visit that neither keeps a block pending nor jumps back to one.
LEMMA PushPlainFrame ==
  ASSUME NEW r, NEW ins, NEW f, FramesOK(r, ins, f), NEW frame \in Frame,
         frame.visit \notin {"then", "else", "iteration", "while"}
  PROVE  LET s == Append(r, frame)
         IN  FramesOK(s, ins, f) /\ PendingIn(s) = PendingIn(r)
<1>1. PendingOf(frame) = {} /\ HeadOf(frame) = {} /\ ThenFrame(frame, f)
  BY DEF PendingOf, HeadOf, ThenFrame
<1> QED
  BY <1>1, PushFrame

\* The function changes where no frame looks.
LEMMA FramesElsewhere ==
  ASSUME NEW r, NEW ins, NEW f, FramesOK(r, ins, f), NEW into, NEW g,
         f.blocks \subseteq 1 .. f.made,
         PendingIn(r) \subseteq Open(g) \ {into},
         HeadsIn(r) \subseteq g.blocks,
         \A b \in PendingIn(r) : g.pre[b] = f.pre[b]
  PROVE  FramesOK(r, into, g)
<1>1. \A i \in DOMAIN r : ThenFrame(r[i], g)
  <2> SUFFICES ASSUME NEW i \in DOMAIN r, r[i].visit = "then"
               PROVE  /\ r[i].other # r[i].cont
                      /\ ~r[i].flag => g.pre[r[i].other] = <<>>
    BY DEF ThenFrame
  <2>1. r[i].other \in PendingIn(r)
    BY DEF PendingIn, PendingOf
  <2>2. /\ r[i].other # r[i].cont
        /\ ~r[i].flag => f.pre[r[i].other] = <<>>
    BY DEF FramesOK, ThenFrame
  <2> QED
    BY <2>1, <2>2
<1> QED
  BY <1>1 DEF FramesOK

LEMMA PopShape ==
  ASSUME NEW s \in Seq(Frame), s # <<>>, ShapeOK(s)
  PROVE  LET r == SubSeq(s, 1, Len(s) - 1)
             top == s[Len(s)]
         IN  /\ ShapeOK(r)
             /\ r = <<>> <=> top.visit = "function"
             /\ r # <<>> => /\ r[Len(r)].visit \in Await
                            /\ r[Len(r)].visit \in AwaitExpression => top.visit = "expression"
<1> DEFINE r == SubSeq(s, 1, Len(s) - 1)
           n == Len(s)
<1>1. /\ r \in Seq(Frame) /\ n \in Nat \ {0} /\ DOMAIN s = 1 .. n
      /\ Len(r) = n - 1 /\ DOMAIN r = 1 .. n - 1
      /\ \A i \in 1 .. n - 1 : r[i] = s[i]
  BY LeaveFacts
<1> HIDE DEF r, n
<1>2. \A i \in 1 .. n :
        /\ s[i].visit = "function" <=> i = 1
        /\ i < n => /\ s[i].visit \in Await
                    /\ s[i].visit \in AwaitExpression => s[i + 1].visit = "expression"
  BY <1>1 DEF ShapeOK, n
<1>3. ShapeOK(r)
  <2> SUFFICES ASSUME NEW i \in 1 .. n - 1
               PROVE  /\ r[i].visit = "function" <=> i = 1
                      /\ i < n - 1 =>
                           /\ r[i].visit \in Await
                           /\ r[i].visit \in AwaitExpression => r[i + 1].visit = "expression"
    BY <1>1 DEF ShapeOK
  <2>1. i < n - 1 => i + 1 \in 1 .. n - 1
    BY <1>1
  <2> QED
    BY <1>1, <1>2, <2>1
<1>4. r = <<>> <=> n = 1
  BY <1>1
<1>5. r # <<>> => r[n - 1] = s[n - 1] /\ n - 1 \in 1 .. n /\ n - 1 < n /\ (n - 1) + 1 = n
  BY <1>1, <1>4
<1> QED
  BY <1>1, <1>2, <1>3, <1>4, <1>5 DEF r, n

LEMMA PushShape ==
  ASSUME NEW r \in Seq(Frame), ShapeOK(r), NEW frame \in Frame,
         r = <<>> <=> frame.visit = "function",
         r # <<>> => /\ r[Len(r)].visit \in Await
                     /\ r[Len(r)].visit \in AwaitExpression => frame.visit = "expression"
  PROVE  ShapeOK(Append(r, frame))
<1> DEFINE s == Append(r, frame)
           n == Len(r) + 1
<1>1. /\ s \in Seq(Frame) /\ n \in Nat \ {0} /\ Len(r) = n - 1
      /\ DOMAIN s = 1 .. n /\ DOMAIN r = 1 .. n - 1 /\ Len(s) = n
      /\ \A i \in 1 .. n - 1 : s[i] = r[i]
      /\ s[n] = frame
  BY PushFacts
<1> HIDE DEF s, n
<1>2. \A i \in 1 .. n - 1 :
        /\ r[i].visit = "function" <=> i = 1
        /\ i < n - 1 => /\ r[i].visit \in Await
                        /\ r[i].visit \in AwaitExpression => r[i + 1].visit = "expression"
  BY <1>1 DEF ShapeOK
<1>3. r = <<>> <=> n = 1
  BY <1>1
<1> SUFFICES ASSUME NEW i \in 1 .. n
             PROVE  /\ s[i].visit = "function" <=> i = 1
                    /\ i < n =>
                         /\ s[i].visit \in Await
                         /\ s[i].visit \in AwaitExpression => s[i + 1].visit = "expression"
  BY <1>1 DEF ShapeOK, s
<1>4. CASE i = n
  BY <1>1, <1>3, <1>4
<1>5. CASE i = n - 1
  <2>1. r # <<>> /\ s[i] = r[Len(r)] /\ s[i + 1] = frame /\ i \in 1 .. n - 1
    BY <1>1, <1>3, <1>5
  <2> QED
    BY <1>2, <2>1, <1>1
<1>6. CASE i < n - 1
  <2>1. i \in 1 .. n - 1 /\ i + 1 \in 1 .. n - 1
    BY <1>1, <1>6
  <2> QED
    BY <1>1, <1>2, <2>1, <1>6
<1> QED
  BY <1>1, <1>4, <1>5, <1>6

-----------------------------------------------------------------------------
(* The graph the visitor builds.                                           *)

\* Closed blocks stay, and stay as they are.
Keeps(f, g) ==
  \A b \in f.blocks :
     HasTerminator(f, b) =>
       b \in g.blocks /\ g.code[b] = f.code[b] /\ g.succ[b] = f.succ[b]

LEMMA KeepsTransitive ==
  ASSUME NEW f, NEW g, NEW h, Keeps(f, g), Keeps(g, h)
  PROVE  Keeps(f, h)
BY SameCodeSameTerminator DEF Keeps

LEMMA ClosedTargets ==
  ASSUME NEW f, NEW g, Keeps(f, g), NEW b \in f.blocks \ Open(f)
  PROVE  TargetsOf(g, b) = TargetsOf(f, b)
BY SameCodeSameTerminator DEF Keeps, Open

LEMMA KeepsOutside ==
  ASSUME NEW f, WellFormed(f), NEW g, NEW B, SameCode(f, g, B),
         \A b \in B : b \in Open(f), f.blocks \ Open(f) \subseteq g.blocks
  PROVE  Keeps(f, g)
<1>1. f.blocks \subseteq 1 .. f.made
  BY DEF WellFormed, FunctionType
<1> QED
  BY <1>1 DEF Keeps, SameCode, Open

\* The straight-line instructions the visitor emits itself.
LEMMA StraightOps ==
  \A op \in {"alloca", "icmp", "gep", "call"} :
     Plain(op) \in Instr /\ <<Plain(op)>> \in Seq(Straight)
<1> SUFFICES ASSUME NEW op \in {"alloca", "icmp", "gep", "call"}
             PROVE  Plain(op) \in Instr /\ <<Plain(op)>> \in Seq(Straight)
  OBVIOUS
<1>1. <<>> \in Seq(Nat) /\ 0 \in Nat /\ op \in Ops
  BY DEF Ops
<1>2. Plain(op) \in Instr /\ Plain(op).op = op
  BY <1>1 DEF Plain, Instr
<1>3. Plain(op) \in Straight
  BY <1>2 DEF Straight, IsTerminator
<1> QED
  BY <1>2, <1>3

LEMMA EmitFacts ==
  ASSUME NEW f, WellFormed(f), NEW b \in Open(f), NEW instrs \in Seq(Straight)
  PROVE  LET g == AddInstrs(f, b, instrs)
         IN  /\ WellFormed(g) /\ Keeps(f, g)
             /\ g.made = f.made /\ g.blocks = f.blocks
             /\ Open(g) = Open(f) /\ SamePre(f, g, {})
<1> DEFINE g == AddInstrs(f, b, instrs)
<1>1. /\ WellFormed(g) /\ g.made = f.made /\ g.blocks = f.blocks
      /\ Open(g) = Open(f) /\ SamePre(f, g, {}) /\ SameCode(f, g, {b})
  BY AddInstrsFacts
<1> HIDE DEF g
<1>2. Keeps(f, g)
  BY <1>1, KeepsOutside
<1> QED
  BY <1>1, <1>2 DEF g

LEMMA EmitOneFacts ==
  ASSUME NEW f, WellFormed(f), NEW b \in Open(f),
         NEW op \in {"alloca", "icmp", "gep", "call"}
  PROVE  LET g == AddInstr(f, b, Plain(op))
         IN  /\ WellFormed(g) /\ Keeps(f, g)
             /\ g.made = f.made /\ g.blocks = f.blocks
             /\ Open(g) = Open(f) /\ SamePre(f, g, {})
<1>1. Plain(op) \in Instr /\ <<Plain(op)>> \in Seq(Straight)
  BY StraightOps
<1>2. AddInstr(f, b, Plain(op)) = AddInstrs(f, b, <<Plain(op)>>)
  BY <1>1, AddInstrIsAddInstrs DEF Open
<1> QED
  BY <1>1, <1>2, EmitFacts

LEMMA RetFacts ==
  ASSUME NEW f, WellFormed(f), NEW b \in Open(f)
  PROVE  LET g == CreateRet(f, b)
         IN  /\ WellFormed(g) /\ Keeps(f, g)
             /\ g.made = f.made /\ g.blocks = f.blocks
             /\ Open(g) = Open(f) \ {b} /\ SamePre(f, g, {})
             /\ TargetsOf(g, b) = <<>>
<1> DEFINE g == CreateRet(f, b)
<1>1. /\ WellFormed(g) /\ g.made = f.made /\ g.blocks = f.blocks
      /\ Open(g) = Open(f) \ {b} /\ SamePre(f, g, {}) /\ SameCode(f, g, {b})
      /\ TargetsOf(g, b) = <<>>
  BY CreateRetFacts
<1> HIDE DEF g
<1>2. Keeps(f, g)
  BY <1>1, KeepsOutside
<1> QED
  BY <1>1, <1>2 DEF g

LEMMA KeepsItself ==
  ASSUME NEW f, WellFormed(f)
  PROVE  Keeps(f, f) /\ \A B : SamePre(f, f, B)
BY DEF Keeps, SamePre

LEMMA DefaultRetFacts ==
  ASSUME NEW f, WellFormed(f), NEW b \in f.blocks
  PROVE  LET g == DefaultRet(f, b)
         IN  /\ WellFormed(g) /\ Keeps(f, g)
             /\ g.made = f.made /\ g.blocks = f.blocks
             /\ Open(g) = Open(f) \ {b} /\ SamePre(f, g, {})
             /\ b \in Open(f) => TargetsOf(g, b) = <<>>
<1>1. CASE Unfinished(f, b)
  BY <1>1, RetFacts DEF DefaultRet, Unfinished, Open
<1>2. CASE ~Unfinished(f, b)
  BY <1>2, KeepsItself DEF DefaultRet, Unfinished, Open
<1> QED
  BY <1>1, <1>2

LEMMA BrIfOpenFacts ==
  ASSUME NEW f, WellFormed(f), NEW b \in f.blocks, NEW t \in f.blocks
  PROVE  LET g == BrIfOpen(f, b, t)
         IN  /\ WellFormed(g) /\ Keeps(f, g)
             /\ g.made = f.made /\ g.blocks = f.blocks
             /\ Open(g) = Open(f) \ {b} /\ SamePre(f, g, {t})
             /\ b \in Open(f) => TargetsOf(g, b) = <<t>>
<1>1. CASE Unfinished(f, b)
  <2> DEFINE g == CreateBr(f, b, t)
  <2>1. BrIfOpen(f, b, t) = g /\ b \in Open(f)
    BY <1>1 DEF BrIfOpen, Unfinished, Open
  <2>2. /\ WellFormed(g) /\ g.made = f.made /\ g.blocks = f.blocks
        /\ Open(g) = Open(f) \ {b} /\ SamePre(f, g, {t}) /\ SameCode(f, g, {b})
        /\ TargetsOf(g, b) = <<t>>
    BY <2>1, CreateBrFacts
  <2> HIDE DEF g
  <2>3. Keeps(f, g)
    BY <2>1, <2>2, KeepsOutside
  <2> QED
    BY <2>1, <2>2, <2>3
<1>2. CASE ~Unfinished(f, b)
  BY <1>2, KeepsItself DEF BrIfOpen, Unfinished, Open
<1> QED
  BY <1>1, <1>2

LEMMA NewBlockFacts ==
  ASSUME NEW f, WellFormed(f)
  PROVE  LET g == CreateBlock(f)
             n == f.made + 1
         IN  /\ WellFormed(g) /\ Keeps(f, g) /\ f.made \in Nat
             /\ g.made = n /\ g.blocks = f.blocks \cup {n}
             /\ Open(g) = Open(f) \cup {n} /\ n \notin f.blocks
             /\ g.pre[n] = <<>> /\ SamePre(f, g, {})
<1> DEFINE g == CreateBlock(f)
           n == f.made + 1
<1>1. /\ WellFormed(g) /\ g.made = n /\ g.blocks = f.blocks \cup {n}
      /\ Open(g) = Open(f) \cup {n} /\ n \notin f.blocks
      /\ g.pre[n] = <<>> /\ SamePre(f, g, {}) /\ SameCode(f, g, {})
  BY CreateBlockFacts
<1> HIDE DEF g
<1>2. Keeps(f, g)
  BY <1>1, KeepsOutside
<1>3. f.made \in Nat
  BY DEF WellFormed, FunctionType
<1> QED
  BY <1>1, <1>2, <1>3 DEF g

\* Two fresh blocks.
LEMMA TwoBlocksFacts ==
  ASSUME NEW f, WellFormed(f)
  PROVE  LET g == CreateBlock(CreateBlock(f))
             m == f.made
         IN  /\ WellFormed(g) /\ Keeps(f, g) /\ m \in Nat
             /\ g.made = m + 2 /\ g.blocks = f.blocks \cup {m + 1, m + 2}
             /\ Open(g) = Open(f) \cup {m + 1, m + 2}
             /\ \A n \in {m + 1, m + 2} : n \notin f.blocks /\ g.pre[n] = <<>>
             /\ SamePre(f, g, {})
<1> PICK h : h = CreateBlock(f)
  OBVIOUS
<1> PICK g : g = CreateBlock(h)
  OBVIOUS
<1> DEFINE m == f.made
<1>1. /\ WellFormed(h) /\ Keeps(f, h) /\ m \in Nat
      /\ h.made = m + 1 /\ h.blocks = f.blocks \cup {m + 1}
      /\ Open(h) = Open(f) \cup {m + 1} /\ m + 1 \notin f.blocks
      /\ h.pre[m + 1] = <<>> /\ SamePre(f, h, {})
  BY NewBlockFacts
<1>2. /\ WellFormed(g) /\ Keeps(h, g)
      /\ g.made = h.made + 1 /\ g.blocks = h.blocks \cup {h.made + 1}
      /\ Open(g) = Open(h) \cup {h.made + 1} /\ h.made + 1 \notin h.blocks
      /\ g.pre[h.made + 1] = <<>> /\ SamePre(h, g, {})
  BY <1>1, NewBlockFacts
<1>3. Keeps(f, g)
  BY <1>1, <1>2, KeepsTransitive
<1>4. h.made + 1 = m + 2 /\ m + 1 \in 1 .. h.made /\ 1 .. m \subseteq 1 .. h.made
  BY <1>1
<1>5. SamePre(f, g, {}) /\ g.pre[m + 1] = <<>>
  BY <1>1, <1>2, <1>4 DEF SamePre
<1>6. /\ g.made = m + 2 /\ g.blocks = f.blocks \cup {m + 1, m + 2}
      /\ Open(g) = Open(f) \cup {m + 1, m + 2}
      /\ \A n \in {m + 1, m + 2} : n \notin f.blocks /\ g.pre[n] = <<>>
  BY <1>1, <1>2, <1>4, <1>5
<1> QED
  BY <1>1, <1>2, <1>3, <1>5, <1>6

LEMMA CondBrFacts ==
  ASSUME NEW h, WellFormed(h), NEW b \in Open(h),
         NEW t \in h.blocks, NEW e \in h.blocks, t # e
  PROVE  LET g == CreateCondBr(h, b, t, e)
         IN  /\ WellFormed(g) /\ Keeps(h, g)
             /\ g.made = h.made /\ g.blocks = h.blocks
             /\ Open(g) = Open(h) \ {b} /\ SamePre(h, g, {t, e})
             /\ TargetsOf(g, b) = <<t, e>>
<1> DEFINE g == CreateCondBr(h, b, t, e)
<1>0. Branched(h, b, t, e, g)
  BY CreateCondBrFacts
<1> HIDE DEF g
<1>1. /\ WellFormed(g) /\ g.made = h.made /\ g.blocks = h.blocks
      /\ Open(g) = Open(h) \ {b} /\ SameCode(h, g, {b}) /\ SamePre(h, g, {t, e})
      /\ TargetsOf(g, b) = <<t, e>>
  BY <1>0 DEF Branched
<1>2. Keeps(h, g)
  BY <1>1, KeepsOutside
<1> QED
  BY <1>1, <1>2 DEF g

\* What a comparison and a branch to two different blocks leave behind.
Forked(f, b, t, e, g) ==
  /\ WellFormed(g) /\ Keeps(f, g)
  /\ g.made = f.made /\ g.blocks = f.blocks
  /\ Open(g) = Open(f) \ {b} /\ SamePre(f, g, {t, e})
  /\ TargetsOf(g, b) = <<t, e>>

LEMMA ForkFacts ==
  ASSUME NEW f, WellFormed(f), NEW b \in Open(f),
         NEW t \in f.blocks, NEW e \in f.blocks, t # e
  PROVE  Forked(f, b, t, e, CreateCondBr(AddInstr(f, b, Plain("icmp")), b, t, e))
<1> DEFINE h == AddInstr(f, b, Plain("icmp"))
           g == CreateCondBr(h, b, t, e)
<1>1. /\ WellFormed(h) /\ Keeps(f, h)
      /\ h.made = f.made /\ h.blocks = f.blocks
      /\ Open(h) = Open(f) /\ SamePre(f, h, {})
  BY EmitOneFacts
<1> HIDE DEF h
<1>2. WellFormed(h) /\ b \in Open(h) /\ t \in h.blocks /\ e \in h.blocks
  BY <1>1
<1>3. /\ WellFormed(g) /\ Keeps(h, g)
      /\ g.made = h.made /\ g.blocks = h.blocks
      /\ Open(g) = Open(h) \ {b} /\ SamePre(h, g, {t, e})
      /\ TargetsOf(g, b) = <<t, e>>
  BY <1>2, CondBrFacts
<1> HIDE DEF g
<1>5. Keeps(f, g)
  BY <1>1, <1>3, KeepsTransitive
<1>6. SamePre(f, g, {t, e})
  BY <1>1, <1>3 DEF SamePre
<1> QED
  BY <1>1, <1>3, <1>5, <1>6 DEF g, h, Forked

\* The check of an array index: x is exceptBB, c is contBB.
Checked(f, b, x, c, g) ==
  /\ WellFormed(g) /\ Keeps(f, g)
  /\ g.made = f.made /\ g.blocks = f.blocks
  /\ Open(g) = Open(f) \ {b, x} /\ SamePre(f, g, {x, c})
  /\ TargetsOf(g, b) = <<x, c>> /\ TargetsOf(g, x) = <<>>

LEMMA CheckFacts ==
  ASSUME NEW f, WellFormed(f), NEW b \in Open(f), NEW x \in Open(f), NEW c \in Open(f),
         b # x, b # c, x # c
  PROVE  LET f2 == CreateCondBr(AddInstr(f, b, Plain("icmp")), b, x, c)
             f3 == CreateRet(AddInstr(f2, x, Plain("call")), x)
             g  == AddInstr(f3, c, Plain("gep"))
         IN  Checked(f, b, x, c, g)
<1> DEFINE f2 == CreateCondBr(AddInstr(f, b, Plain("icmp")), b, x, c)
           f3 == AddInstr(f2, x, Plain("call"))
           f4 == CreateRet(f3, x)
           g  == AddInstr(f4, c, Plain("gep"))
<1>1. /\ WellFormed(f2) /\ Keeps(f, f2)
      /\ f2.made = f.made /\ f2.blocks = f.blocks
      /\ Open(f2) = Open(f) \ {b} /\ SamePre(f, f2, {x, c})
      /\ TargetsOf(f2, b) = <<x, c>>
  <2>1. x \in f.blocks /\ c \in f.blocks
    BY DEF Open
  <2>2. Forked(f, b, x, c, f2)
    BY <2>1, ForkFacts
  <2> HIDE DEF f2
  <2> QED
    BY <2>2 DEF Forked
<1> HIDE DEF f2
<1>2. /\ WellFormed(f3) /\ Keeps(f2, f3)
      /\ f3.made = f2.made /\ f3.blocks = f2.blocks
      /\ Open(f3) = Open(f2) /\ SamePre(f2, f3, {})
  <2>1. x \in Open(f2)
    BY <1>1
  <2> QED
    BY <2>1, <1>1, EmitOneFacts
<1> HIDE DEF f3
<1>3. /\ WellFormed(f4) /\ Keeps(f3, f4)
      /\ f4.made = f3.made /\ f4.blocks = f3.blocks
      /\ Open(f4) = Open(f3) \ {x} /\ SamePre(f3, f4, {})
      /\ TargetsOf(f4, x) = <<>>
  <2>1. x \in Open(f3)
    BY <1>1, <1>2
  <2> QED
    BY <2>1, <1>2, RetFacts
<1> HIDE DEF f4
<1>4. /\ WellFormed(g) /\ Keeps(f4, g)
      /\ g.made = f4.made /\ g.blocks = f4.blocks
      /\ Open(g) = Open(f4) /\ SamePre(f4, g, {})
  <2>1. c \in Open(f4)
    BY <1>1, <1>2, <1>3
  <2> QED
    BY <2>1, <1>3, EmitOneFacts
<1> HIDE DEF g
<1>5. Keeps(f, g)
  BY <1>1, <1>2, <1>3, <1>4, KeepsTransitive
<1>6. SamePre(f, g, {x, c})
  BY <1>1, <1>2, <1>3, <1>4 DEF SamePre
<1>7. Open(g) = Open(f) \ {b, x}
  BY <1>1, <1>2, <1>3, <1>4
<1>8. TargetsOf(g, b) = <<x, c>>
  <2>1. b \in f2.blocks \ Open(f2) /\ Keeps(f2, g)
    BY <1>1, <1>2, <1>3, <1>4, KeepsTransitive DEF Open
  <2> QED BY <2>1, <1>1, ClosedTargets
<1>9. TargetsOf(g, x) = <<>>
  <2>1. x \in f4.blocks \ Open(f4)
    BY <1>1, <1>2, <1>3 DEF Open
  <2> QED BY <2>1, <1>3, <1>4, ClosedTargets
<1> QED
  BY <1>1, <1>2, <1>3, <1>4, <1>5, <1>6, <1>7, <1>8, <1>9 DEF f2, f3, f4, g, Checked

LEMMA IndexFacts ==
  ASSUME NEW f, WellFormed(f), NEW b \in Open(f)
  PROVE  LET x == f.made + 1
             c == f.made + 2
             f1 == AddInstr(CreateBlock(CreateBlock(f)), b, Plain("icmp"))
             f2 == CreateCondBr(f1, b, x, c)
             f3 == CreateRet(AddInstr(f2, x, Plain("call")), x)
             g  == AddInstr(f3, c, Plain("gep"))
         IN  /\ WellFormed(g) /\ Keeps(f, g) /\ g.blocks = f.blocks \cup {x, c}
             /\ Open(g) = (Open(f) \ {b}) \cup {c}
             /\ x \notin f.blocks /\ c \notin f.blocks /\ SamePre(f, g, {})
             /\ TargetsOf(g, b) = <<x, c>> /\ TargetsOf(g, x) = <<>>
<1> DEFINE x == f.made + 1
           c == f.made + 2
           f0 == CreateBlock(CreateBlock(f))
           f2 == CreateCondBr(AddInstr(f0, b, Plain("icmp")), b, x, c)
           f3 == CreateRet(AddInstr(f2, x, Plain("call")), x)
           g  == AddInstr(f3, c, Plain("gep"))
<1>1. /\ WellFormed(f0) /\ Keeps(f, f0) /\ f.made \in Nat
      /\ f0.made = f.made + 2 /\ f0.blocks = f.blocks \cup {x, c}
      /\ Open(f0) = Open(f) \cup {x, c}
      /\ x \notin f.blocks /\ c \notin f.blocks /\ SamePre(f, f0, {})
  BY TwoBlocksFacts
<1> HIDE DEF f0
<1>2. x # c /\ b # x /\ b # c /\ b \in Open(f0) /\ x \in Open(f0) /\ c \in Open(f0)
  BY <1>1 DEF Open
<1>3. 1 .. f.made \subseteq (1 .. f0.made) \ {x, c}
  BY <1>1
<1> HIDE DEF x, c
<1>4. /\ WellFormed(g) /\ Keeps(f0, g)
      /\ g.made = f0.made /\ g.blocks = f0.blocks
      /\ Open(g) = Open(f0) \ {b, x} /\ SamePre(f0, g, {x, c})
      /\ TargetsOf(g, b) = <<x, c>> /\ TargetsOf(g, x) = <<>>
  <2>1. Checked(f0, b, x, c, g)
    BY <1>1, <1>2, CheckFacts
  <2> HIDE DEF g
  <2> QED BY <2>1 DEF Checked
<1> HIDE DEF g
<1>5. Keeps(f, g)
  BY <1>1, <1>4, KeepsTransitive
<1>6. Open(g) = (Open(f) \ {b}) \cup {c}
  <2>1. x \notin Open(f)
    BY <1>1 DEF Open
  <2> QED
    BY <2>1, <1>1, <1>2, <1>4
<1>7. SamePre(f, g, {})
  BY <1>1, <1>3, <1>4 DEF SamePre
<1> QED
  BY <1>1, <1>4, <1>5, <1>6, <1>7 DEF g, f3, f2, f0, x, c

-----------------------------------------------------------------------------
(* The invariant.  What the visitor holds about the function f when it     *)
(* inserts into the block ins and the visits s are active.                 *)

Flow(f, ins, s) ==
  /\ WellFormed(f) /\ ins \in f.blocks
  /\ FramesOK(s, ins, f)
  /\ Open(f) \subseteq PendingIn(s) \cup {ins}

\* The visits that emit without looking whether the block is open.
Emitting == {"body", "declarations", "statement", "expression", "selection",
             "iteration", "return"}

InvOf(f, ins, s) ==
  /\ s \in Seq(Frame) /\ ShapeOK(s)
  /\ s = <<>> => WellFormed(f) /\ Open(f) = {} /\ (ins \in f.blocks \/ f = NoFunction)
  /\ s # <<>> => /\ Flow(f, ins, s)
                 /\ s[Len(s)].visit \in Emitting => ins \in Open(f)

Inv == InvOf(fn, insert, stack)

\* What is below the top frame.
LEMMA Below ==
  ASSUME NEW f, NEW ins, NEW s, InvOf(f, ins, s), s # <<>>
  PROVE  LET r == SubSeq(s, 1, Len(s) - 1)
             top == s[Len(s)]
         IN  /\ WellFormed(f) /\ ins \in f.blocks
             /\ r \in Seq(Frame) /\ ShapeOK(r) /\ top \in Frame
             /\ FramesOK(r, ins, f)
             /\ PendingOf(top) \cap PendingIn(r) = {}
             /\ PendingOf(top) \subseteq Open(f) \ {ins}
             /\ PendingOf(top) \cap HeadsIn(r) = {}
             /\ HeadOf(top) \subseteq f.blocks \ (PendingIn(r) \cup PendingOf(top))
             /\ ThenFrame(top, f)
             /\ Open(f) \subseteq PendingIn(r) \cup PendingOf(top) \cup {ins}
             /\ top.visit \in Emitting => ins \in Open(f)
             /\ PendingOf(top) = {} => Flow(f, ins, r)
             /\ r = <<>> <=> top.visit = "function"
             /\ r # <<>> => /\ r[Len(r)].visit \in Await
                            /\ r[Len(r)].visit \in AwaitExpression => top.visit = "expression"
<1> PICK r : r = SubSeq(s, 1, Len(s) - 1)
  OBVIOUS
<1> PICK top : top = s[Len(s)]
  OBVIOUS
<1>1. /\ s \in Seq(Frame) /\ ShapeOK(s) /\ Flow(f, ins, s)
      /\ top.visit \in Emitting => ins \in Open(f)
  BY DEF InvOf
<1>2. /\ ShapeOK(r)
      /\ r = <<>> <=> top.visit = "function"
      /\ r # <<>> => /\ r[Len(r)].visit \in Await
                     /\ r[Len(r)].visit \in AwaitExpression => top.visit = "expression"
  BY <1>1, PopShape
<1>3. /\ FramesOK(r, ins, f)
      /\ top \in Frame
      /\ PendingIn(s) = PendingIn(r) \cup PendingOf(top)
      /\ PendingOf(top) \cap PendingIn(r) = {}
      /\ PendingOf(top) \subseteq Open(f) \ {ins}
      /\ PendingOf(top) \cap HeadsIn(r) = {}
      /\ HeadOf(top) \subseteq f.blocks \ PendingIn(s)
      /\ ThenFrame(top, f)
  BY <1>1, PopFrames DEF Flow
<1>4. r \in Seq(Frame)
  BY <1>3 DEF FramesOK
<1> QED
  BY <1>1, <1>2, <1>3, <1>4 DEF Flow

LEMMA Established ==
  ASSUME NEW f, NEW ins, NEW s \in Seq(Frame), s # <<>>, ShapeOK(s),
         Flow(f, ins, s), s[Len(s)].visit \in Emitting => ins \in Open(f)
  PROVE  InvOf(f, ins, s)
BY DEF InvOf

\* A visit function returns: whatever waits for it goes on.
LEMMA Returned ==
  ASSUME NEW f, NEW ins, NEW s, InvOf(f, ins, s), s # <<>>,
         s[Len(s)].visit # "function",
         NEW g, NEW into,
         Flow(g, into, SubSeq(s, 1, Len(s) - 1)),
         s[Len(s)].visit = "expression" => into \in Open(g)
  PROVE  InvOf(g, into, SubSeq(s, 1, Len(s) - 1))
<1> PICK r : r = SubSeq(s, 1, Len(s) - 1)
  OBVIOUS
<1>1. /\ r \in Seq(Frame) /\ ShapeOK(r) /\ r # <<>>
      /\ r[Len(r)].visit \in Await
      /\ r[Len(r)].visit \in AwaitExpression => s[Len(s)].visit = "expression"
  BY Below
<1>2. r[Len(r)].visit \in Emitting => r[Len(r)].visit \in AwaitExpression
  BY <1>1 DEF Await, AwaitExpression, Emitting
<1> QED
  BY <1>1, <1>2, Established

\* A visit function goes on to its next stage ...
LEMMA WentOn ==
  ASSUME NEW f, NEW ins, NEW s, InvOf(f, ins, s), s # <<>>,
         s[Len(s)].visit \notin {"function", "expression"},
         NEW g, NEW into, NEW frame \in Frame, frame.visit # "function",
         Flow(g, into, Append(SubSeq(s, 1, Len(s) - 1), frame)),
         frame.visit \in Emitting => into \in Open(g)
  PROVE  InvOf(g, into, [s EXCEPT ![Len(s)] = frame])
<1> PICK r : r = SubSeq(s, 1, Len(s) - 1)
  OBVIOUS
<1> PICK q : q = Append(r, frame)
  OBVIOUS
<1>1. /\ r \in Seq(Frame) /\ ShapeOK(r) /\ r # <<>>
      /\ r[Len(r)].visit \in Await /\ r[Len(r)].visit \notin AwaitExpression
  BY Below
<1>2. q \in Seq(Frame) /\ q # <<>> /\ q[Len(q)] = frame
  BY <1>1
<1>3. ShapeOK(q)
  BY <1>1, PushShape
<1>4. [s EXCEPT ![Len(s)] = frame] = q
  <2>1. s \in Seq(Frame)
    BY DEF InvOf
  <2> QED
    BY <2>1, BecomeIsPush
<1>5. Flow(g, into, q)
  OBVIOUS
<1> QED
  BY <1>2, <1>3, <1>4, <1>5, Established

\* ... and calls another one.
LEMMA Called ==
  ASSUME NEW g, NEW into, NEW s, InvOf(g, into, s), s # <<>>,
         NEW child \in Frame, child.visit \in {"statement", "expression", "body"},
         s[Len(s)].visit \in Await,
         s[Len(s)].visit \in AwaitExpression => child.visit = "expression",
         into \in Open(g)
  PROVE  InvOf(g, into, Append(s, child))
<1> PICK q : q = Append(s, child)
  OBVIOUS
<1>1. s \in Seq(Frame) /\ ShapeOK(s) /\ Flow(g, into, s)
  BY DEF InvOf
<1>2. q \in Seq(Frame) /\ q # <<>>
  BY <1>1
<1>3. ShapeOK(q)
  BY <1>1, PushShape
<1>4. Flow(g, into, q)
  <2>1. FramesOK(q, into, g) /\ PendingIn(q) = PendingIn(s)
    BY <1>1, PushPlainFrame DEF Flow
  <2> QED
    BY <1>1, <2>1 DEF Flow
<1> QED
  BY <1>2, <1>3, <1>4, Established

\* Moving the insert point and the graph under frames that do not notice.
LEMMA FlowMoved ==
  ASSUME NEW f, NEW ins, NEW r, WellFormed(f), FramesOK(r, ins, f),
         NEW g, WellFormed(g), NEW into \in g.blocks,
         PendingIn(r) \subseteq Open(g) \ {into},
         HeadsIn(r) \subseteq g.blocks,
         \A b \in PendingIn(r) : g.pre[b] = f.pre[b],
         Open(g) \subseteq PendingIn(r) \cup {into}
  PROVE  Flow(g, into, r)
<1>1. f.blocks \subseteq 1 .. f.made
  BY DEF WellFormed, FunctionType
<1>2. FramesOK(r, into, g)
  BY <1>1, FramesElsewhere
<1> QED
  BY <1>2 DEF Flow

\* What the frames refer to lies in the function.
LEMMA FramesInside ==
  ASSUME NEW f, WellFormed(f), NEW ins, NEW r, FramesOK(r, ins, f)
  PROVE  /\ PendingIn(r) \subseteq Open(f) \ {ins}
         /\ PendingIn(r) \subseteq f.blocks /\ f.blocks \subseteq 1 .. f.made
         /\ HeadsIn(r) \subseteq f.blocks \ PendingIn(r)
BY DEF FramesOK, Open, WellFormed, FunctionType

\* Emitting into the insert block, possibly closing it.
LEMMA FlowEmitted ==
  ASSUME NEW f, NEW ins, NEW s, Flow(f, ins, s), NEW g, WellFormed(g),
         g.blocks = f.blocks, SamePre(f, g, {}),
         Open(g) = Open(f) \/ Open(g) = Open(f) \ {ins}
  PROVE  Flow(g, ins, s)
<1>1. /\ PendingIn(s) \subseteq Open(f) \ {ins}
      /\ PendingIn(s) \subseteq f.blocks /\ f.blocks \subseteq 1 .. f.made
      /\ HeadsIn(s) \subseteq f.blocks \ PendingIn(s)
  BY FramesInside DEF Flow
<1>2. \A b \in PendingIn(s) : g.pre[b] = f.pre[b]
  BY <1>1 DEF SamePre
<1>3. /\ WellFormed(f) /\ FramesOK(s, ins, f) /\ ins \in g.blocks
      /\ Open(f) \subseteq PendingIn(s) \cup {ins}
  BY DEF Flow
<1> QED
  BY <1>1, <1>2, <1>3, FlowMoved

LEMMA FlowPushed ==
  ASSUME NEW f, NEW ins, NEW r, Flow(f, ins, r), NEW frame \in Frame,
         frame.visit \notin {"then", "else", "iteration", "while"}
  PROVE  Flow(f, ins, Append(r, frame))
<1>1. FramesOK(Append(r, frame), ins, f) /\ PendingIn(Append(r, frame)) = PendingIn(r)
  BY PushPlainFrame DEF Flow
<1> QED
  BY <1>1 DEF Flow

-----------------------------------------------------------------------------
(* Every step keeps the invariant, and every closed block.                 *)

LEMMA VisitFacts ==
  \A v \in Visits : /\ Visit(v) \in Frame /\ Visit(v).visit = v
                     /\ ~Visit(v).flag
BY DEF Visit, Frame

LEMMA PlainTop ==
  ASSUME NEW frame, frame.visit \notin {"then", "else", "while"}
  PROVE  PendingOf(frame) = {}
BY DEF PendingOf

\* A step that leaves the frames alone.
LEMMA EmittedInv ==
  ASSUME Inv, stack # <<>>, stack' = stack, Flow(fn', insert', stack),
         insert' \in Open(fn')
  PROVE  Inv'
<1>1. InvOf(fn', insert', stack)
  BY Established DEF Inv, InvOf
<1> QED
  BY <1>1 DEF Inv

LEMMA FunDeclarationInv ==
  ASSUME BuilderAssumption, Inv, FunDeclaration
  PROVE  Inv' /\ Keeps(fn, fn')
<1> PICK prologue \in Prologues : fn' = AddInstrs(CreateBlock(NoFunction), Entry, prologue)
  BY DEF FunDeclaration
<1> DEFINE h == CreateBlock(NoFunction)
           g == AddInstrs(h, 1, prologue)
<1>1. /\ WellFormed(h) /\ h.blocks = {1} /\ Open(h) = {1}
  <2>1. NoFunction.made = 0 /\ NoFunction.blocks = {} /\ 0 + 1 = 1
    BY DEF NoFunction
  <2> QED
    BY <2>1, EmptyFunction, NewBlockFacts
<1>2. prologue \in Seq(Straight)
  BY DEF BuilderAssumption, Straight
<1> HIDE DEF h
<1>3. WellFormed(g) /\ g.blocks = {1} /\ Open(g) = {1}
  BY <1>1, <1>2, EmitFacts
<1> HIDE DEF g
<1>4. Flow(g, 1, <<>>)
  BY <1>3 DEF Flow, FramesOK, PendingIn, HeadsIn
<1> DEFINE a == Visit("function")
           b == Visit("body")
<1>5. a \in Frame /\ a.visit = "function" /\ b \in Frame /\ b.visit = "body"
  BY VisitFacts DEF Visits
<1> HIDE DEF a, b
<1>6. /\ Flow(g, 1, Append(<<>>, a)) /\ ShapeOK(Append(<<>>, a))
      /\ Append(<<>>, a) \in Seq(Frame) /\ Append(<<>>, a) # <<>>
      /\ Append(<<>>, a)[Len(Append(<<>>, a))] = a
  <2>1. <<>> \in Seq(Frame) /\ ShapeOK(<<>>)
    BY DEF ShapeOK
  <2>2. ShapeOK(Append(<<>>, a))
    BY <2>1, <1>5, PushShape
  <2>3. Flow(g, 1, Append(<<>>, a))
    BY <1>4, <1>5, FlowPushed
  <2> QED
    BY <1>5, <2>1, <2>2, <2>3
<1>7. InvOf(g, 1, Append(<<>>, a))
  BY <1>5, <1>6, Established DEF Emitting
<1>8. InvOf(g, 1, Append(Append(<<>>, a), b))
  BY <1>3, <1>5, <1>6, <1>7, Called DEF Await, AwaitExpression
<1>9. Append(Append(<<>>, a), b) = <<a, b>>
  <2> PICK p : p = <<a, b>>
    OBVIOUS
  <2> PICK o : o = Append(<<>>, a)
    OBVIOUS
  <2> PICK q : q = Append(o, b)
    OBVIOUS
  <2>1. p \in Seq(Frame) /\ Len(p) = 2 /\ p[1] = a /\ p[2] = b
    BY <1>5
  <2>2. o \in Seq(Frame) /\ Len(o) = 1 /\ o[1] = a
    BY <1>5
  <2>3. q \in Seq(Frame) /\ Len(q) = 2 /\ q[1] = a /\ q[2] = b
    BY <1>5, <2>2
  <2>4. \A i \in 1 .. Len(p) : p[i] = q[i]
    BY <2>1, <2>3
  <2>5. p = q
    BY <2>1, <2>3, <2>4, SeqEqual
  <2> QED
    BY <2>5
<1>10. fn' = g /\ insert' = 1 /\ stack' = <<a, b>>
  BY DEF FunDeclaration, Entry, g, h, a, b
<1>11. Keeps(fn, g)
  BY DEF FunDeclaration, Keeps, NoFunction
<1> QED
  BY <1>8, <1>9, <1>10, <1>11 DEF Inv

LEMMA EndFunDeclarationInv ==
  ASSUME Inv, EndFunDeclaration
  PROVE  Inv' /\ Keeps(fn, fn')
<1> DEFINE r == SubSeq(stack, 1, Len(stack) - 1)
<1>1. stack # <<>> /\ stack[Len(stack)].visit = "function"
  BY DEF EndFunDeclaration, InVisit, Top
<1>2. /\ WellFormed(fn) /\ insert \in fn.blocks /\ r = <<>>
      /\ Open(fn) \subseteq PendingIn(r) \cup PendingOf(stack[Len(stack)]) \cup {insert}
  BY <1>1, Below DEF Inv
<1>3. PendingIn(r) = {} /\ PendingOf(stack[Len(stack)]) = {}
  BY <1>1, <1>2, PlainTop DEF PendingIn
<1>4. /\ WellFormed(fn') /\ Keeps(fn, fn') /\ fn'.blocks = fn.blocks
      /\ Open(fn') = Open(fn) \ {insert}
  BY <1>2, DefaultRetFacts DEF EndFunDeclaration
<1>5. stack' = <<>> /\ insert' = insert
  BY <1>2 DEF EndFunDeclaration, Leave
<1>6. InvOf(fn', insert, <<>>)
  BY <1>2, <1>3, <1>4 DEF InvOf, ShapeOK
<1> QED
  BY <1>4, <1>5, <1>6 DEF Inv

LEMMA LocalDeclarationInv ==
  ASSUME Inv, LocalDeclaration
  PROVE  Inv' /\ Keeps(fn, fn')
<1>1. /\ stack # <<>> /\ stack[Len(stack)].visit = "declarations"
      /\ stack' = stack /\ insert' = insert
      /\ fn' = AddInstr(fn, insert, Plain("alloca"))
  BY DEF LocalDeclaration, InVisit, Top
<1>2. Flow(fn, insert, stack) /\ insert \in Open(fn)
  BY <1>1 DEF Inv, InvOf, Emitting
<1>3. /\ WellFormed(fn') /\ Keeps(fn, fn') /\ fn'.blocks = fn.blocks
      /\ Open(fn') = Open(fn) /\ SamePre(fn, fn', {})
  BY <1>1, <1>2, EmitOneFacts DEF Flow
<1>4. Flow(fn', insert, stack)
  BY <1>2, <1>3, FlowEmitted
<1> QED
  BY <1>1, <1>2, <1>3, <1>4, EmittedInv

LEMMA EmitSegmentInv ==
  ASSUME BuilderAssumption, Inv, EmitSegment
  PROVE  Inv' /\ Keeps(fn, fn')
<1> PICK segment \in Segments : fn' = AddInstrs(fn, insert, segment)
  BY DEF EmitSegment
<1>1. /\ stack # <<>> /\ stack[Len(stack)].visit = "expression"
      /\ stack' = stack /\ insert' = insert
      /\ segment \in Seq(Straight)
  BY DEF EmitSegment, InVisit, Top, BuilderAssumption, Straight
<1>2. Flow(fn, insert, stack) /\ insert \in Open(fn)
  BY <1>1 DEF Inv, InvOf, Emitting
<1>3. /\ WellFormed(fn') /\ Keeps(fn, fn') /\ fn'.blocks = fn.blocks
      /\ Open(fn') = Open(fn) /\ SamePre(fn, fn', {})
  BY <1>1, <1>2, EmitFacts DEF Flow
<1>4. Flow(fn', insert, stack)
  BY <1>2, <1>3, FlowEmitted
<1> QED
  BY <1>1, <1>2, <1>3, <1>4, EmittedInv

LEMMA IndexedVarInv ==
  ASSUME Inv, IndexedVar
  PROVE  Inv' /\ Keeps(fn, fn')
<1> DEFINE x == fn.made + 1
           c == fn.made + 2
           f1 == AddInstr(CreateBlock(CreateBlock(fn)), insert, Plain("icmp"))
           f2 == CreateCondBr(f1, insert, x, c)
           f3 == CreateRet(AddInstr(f2, x, Plain("call")), x)
           g  == AddInstr(f3, c, Plain("gep"))
<1>1. /\ stack # <<>> /\ stack[Len(stack)].visit = "expression"
      /\ stack' = stack /\ insert' = c /\ fn' = g
  BY DEF IndexedVar, InVisit, Top
<1>2. Flow(fn, insert, stack) /\ insert \in Open(fn) /\ WellFormed(fn)
  BY <1>1 DEF Inv, InvOf, Emitting, Flow
<1>3. /\ WellFormed(g) /\ Keeps(fn, g) /\ g.blocks = fn.blocks \cup {x, c}
      /\ Open(g) = (Open(fn) \ {insert}) \cup {c}
      /\ c \notin fn.blocks /\ SamePre(fn, g, {})
  BY <1>2, IndexFacts
<1> HIDE DEF g, x, c
<1>4. Flow(g, c, stack)
  <2>1. FramesOK(stack, insert, fn) /\ Open(fn) \subseteq PendingIn(stack) \cup {insert}
    BY <1>2 DEF Flow
  <2>2. /\ PendingIn(stack) \subseteq Open(fn) \ {insert}
        /\ PendingIn(stack) \subseteq fn.blocks /\ fn.blocks \subseteq 1 .. fn.made
        /\ HeadsIn(stack) \subseteq fn.blocks \ PendingIn(stack)
    BY <1>2, <2>1, FramesInside
  <2>3. \A b \in PendingIn(stack) : g.pre[b] = fn.pre[b]
    BY <1>3, <2>2 DEF SamePre
  <2>4. c \in g.blocks /\ PendingIn(stack) \subseteq Open(g) \ {c}
        /\ HeadsIn(stack) \subseteq g.blocks /\ Open(g) \subseteq PendingIn(stack) \cup {c}
    BY <1>3, <2>1, <2>2
  <2> QED
    BY <1>2, <1>3, <2>1, <2>3, <2>4, FlowMoved
<1>5. c \in Open(g)
  BY <1>3
<1> QED
  BY <1>1, <1>3, <1>4, <1>5, EmittedInv

\* What every step on a stack with frames starts from.
LEMMA TopFacts ==
  ASSUME Inv, stack # <<>>
  PROVE  /\ InvOf(fn, insert, stack) /\ WellFormed(fn)
         /\ insert \in fn.blocks /\ Top \in Frame
         /\ stack \in Seq(Frame)
         /\ Top.visit \in Emitting => insert \in Open(fn)
         /\ Top.visit \notin {"then", "else", "while"} => Flow(fn, insert, Leave)
<1>1. InvOf(fn, insert, stack) /\ stack \in Seq(Frame)
  BY DEF Inv, InvOf
<1>2. /\ WellFormed(fn) /\ insert \in fn.blocks /\ Top \in Frame
      /\ Top.visit \in Emitting => insert \in Open(fn)
      /\ PendingOf(Top) = {} => Flow(fn, insert, Leave)
  BY <1>1, Below DEF Top, Leave
<1> QED
  BY <1>1, <1>2, PlainTop

\* Returning and going on, for the variables.
LEMMA ReturnedInv ==
  ASSUME Inv, stack # <<>>, Top.visit # "function", stack' = Leave,
         Flow(fn', insert', Leave), Top.visit = "expression" => insert' \in Open(fn')
  PROVE  Inv'
<1>1. InvOf(fn', insert', Leave)
  BY Returned DEF Inv, Top, Leave
<1> QED
  BY <1>1 DEF Inv

LEMMA WentOnInv ==
  ASSUME Inv, stack # <<>>, Top.visit \notin {"function", "expression"},
         NEW frame \in Frame, frame.visit # "function", stack' = Become(frame),
         Flow(fn', insert', Append(Leave, frame)),
         frame.visit \in Emitting => insert' \in Open(fn')
  PROVE  Inv'
<1>1. InvOf(fn', insert', Become(frame))
  BY WentOn DEF Inv, Top, Leave, Become
<1> QED
  BY <1>1 DEF Inv

LEMMA CalledInv ==
  ASSUME Inv, stack # <<>>, Top.visit \notin {"function", "expression"},
         NEW frame \in Frame, NEW child \in Frame,
         frame.visit \in Await \ {"function"}, child.visit \in {"statement", "expression"},
         frame.visit \in AwaitExpression => child.visit = "expression",
         stack' = Append(Become(frame), child),
         Flow(fn', insert', Append(Leave, frame)),
         insert' \in Open(fn')
  PROVE  Inv'
<1>1. InvOf(fn', insert', Become(frame))
  BY WentOn DEF Inv, Top, Leave, Become, Await
<1>2. Become(frame) \in Seq(Frame) /\ Become(frame) # <<>> /\ Become(frame)[Len(Become(frame))] = frame
  <2>1. stack \in Seq(Frame)
    BY DEF Inv, InvOf
  <2> QED
    BY <2>1 DEF Become
<1> HIDE DEF Become
<1>3. InvOf(fn', insert', Append(Become(frame), child))
  BY <1>1, <1>2, Called
<1> QED
  BY <1>3 DEF Inv

LEMMA EnterCompoundStmtInv ==
  ASSUME Inv, pre_enter_scope \in BOOLEAN, EnterCompoundStmt
  PROVE  Inv' /\ Keeps(fn, fn')
<1> DEFINE frame == [Visit("declarations") EXCEPT !.flag = ~pre_enter_scope]
<1>1. /\ stack # <<>> /\ Top.visit \in {"body", "statement"}
      /\ stack' = Become(frame) /\ insert' = insert /\ fn' = fn
  BY DEF EnterCompoundStmt, InVisit
<1>2. frame \in Frame /\ frame.visit = "declarations"
  <2>1. (~pre_enter_scope) \in BOOLEAN
    OBVIOUS
  <2>2. Visit("declarations") \in Frame /\ Visit("declarations").visit = "declarations"
    BY VisitFacts DEF Visits
  <2> QED
    BY <2>1, <2>2 DEF Frame
<1>3. /\ WellFormed(fn) /\ insert \in Open(fn) /\ Flow(fn, insert, Leave)
  BY <1>1, TopFacts DEF Emitting
<1> HIDE DEF frame
<1>4. Flow(fn, insert, Append(Leave, frame))
  BY <1>2, <1>3, FlowPushed
<1>5. Inv'
  BY <1>1, <1>2, <1>3, <1>4, WentOnInv
<1> QED
  BY <1>1, <1>3, <1>5, KeepsItself

LEMMA NextStatementInv ==
  ASSUME Inv, NextStatement
  PROVE  Inv' /\ Keeps(fn, fn')
<1> DEFINE frame == [Top EXCEPT !.visit = "statements"]
           child == Visit("statement")
<1>1. /\ stack # <<>> /\ Top.visit \in {"declarations", "statements"}
      /\ Top.visit = "statements" => Unfinished(fn, insert)
      /\ stack' = Append(Become(frame), child) /\ insert' = insert /\ fn' = fn
  BY DEF NextStatement, InVisit, MoreStatements
<1>2. /\ WellFormed(fn) /\ insert \in fn.blocks /\ Flow(fn, insert, Leave)
      /\ Top \in Frame
      /\ Top.visit = "declarations" => insert \in Open(fn)
  BY <1>1, TopFacts DEF Emitting
<1>3. insert \in Open(fn)
  BY <1>1, <1>2 DEF Unfinished, Open
<1>4. frame \in Frame /\ frame.visit = "statements"
  BY <1>2 DEF Frame, Visits
<1>5. child \in Frame /\ child.visit = "statement"
  BY VisitFacts DEF Visits
<1> HIDE DEF frame, child
<1>6. Flow(fn, insert, Append(Leave, frame))
  BY <1>2, <1>4, FlowPushed
<1>7. Inv'
  BY <1>1, <1>3, <1>4, <1>5, <1>6, CalledInv DEF Await, AwaitExpression
<1> QED
  BY <1>1, <1>2, <1>7, KeepsItself

LEMMA LeaveCompoundStmtInv ==
  ASSUME Inv, LeaveCompoundStmt
  PROVE  Inv' /\ Keeps(fn, fn')
<1>1. /\ stack # <<>> /\ Top.visit \in {"declarations", "statements"}
      /\ stack' = Leave /\ insert' = insert /\ fn' = fn
  BY DEF LeaveCompoundStmt, InVisit
<1>2. WellFormed(fn) /\ Flow(fn, insert, Leave)
  BY <1>1, TopFacts
<1> QED
  BY <1>1, <1>2, ReturnedInv, KeepsItself

LEMMA ExpressionStmtInv ==
  ASSUME Inv, ExpressionStmt
  PROVE  Inv' /\ Keeps(fn, fn')
<1> DEFINE frame == Visit("expression")
<1>1. /\ stack # <<>> /\ Top.visit = "statement"
      /\ stack' = Leave \/ stack' = Become(frame)
      /\ insert' = insert /\ fn' = fn
  BY DEF ExpressionStmt, InVisit
<1>2. WellFormed(fn) /\ Flow(fn, insert, Leave) /\ insert \in Open(fn)
  BY <1>1, TopFacts DEF Emitting
<1>3. frame \in Frame /\ frame.visit = "expression"
  BY VisitFacts DEF Visits
<1> HIDE DEF frame
<1>4. CASE stack' = Leave
  BY <1>1, <1>2, <1>4, ReturnedInv, KeepsItself
<1>5. CASE stack' = Become(frame)
  <2>1. Flow(fn, insert, Append(Leave, frame))
    BY <1>2, <1>3, FlowPushed
  <2>2. Inv'
    BY <1>1, <1>2, <1>3, <1>5, <2>1, WentOnInv
  <2> QED
    BY <1>1, <1>2, <2>2, KeepsItself
<1> QED
  BY <1>1, <1>4, <1>5

LEMMA EndExpressionInv ==
  ASSUME Inv, EndExpression
  PROVE  Inv' /\ Keeps(fn, fn')
<1>1. /\ stack # <<>> /\ Top.visit = "expression"
      /\ stack' = Leave /\ insert' = insert /\ fn' = fn
  BY DEF EndExpression, InVisit
<1>2. WellFormed(fn) /\ Flow(fn, insert, Leave) /\ insert \in Open(fn)
  BY <1>1, TopFacts DEF Emitting
<1> QED
  BY <1>1, <1>2, ReturnedInv, KeepsItself

LEMMA ReturnStmtInv ==
  ASSUME Inv, ReturnStmt
  PROVE  Inv' /\ Keeps(fn, fn')
<1> DEFINE frame == Visit("return")
           child == Visit("expression")
<1>1. /\ stack # <<>> /\ Top.visit = "statement" /\ insert' = insert
      /\ \/ fn' = CreateRet(fn, insert) /\ stack' = Leave
         \/ fn' = fn /\ stack' = Append(Become(frame), child)
  BY DEF ReturnStmt, InVisit
<1>2. WellFormed(fn) /\ Flow(fn, insert, Leave) /\ insert \in Open(fn)
  BY <1>1, TopFacts DEF Emitting
<1>3. /\ frame \in Frame /\ frame.visit = "return"
      /\ child \in Frame /\ child.visit = "expression"
  BY VisitFacts DEF Visits
<1> HIDE DEF frame, child
<1>4. CASE fn' = CreateRet(fn, insert) /\ stack' = Leave
  <2>1. /\ WellFormed(fn') /\ Keeps(fn, fn') /\ fn'.blocks = fn.blocks
        /\ Open(fn') = Open(fn) \ {insert} /\ SamePre(fn, fn', {})
    BY <1>2, <1>4, RetFacts
  <2>2. Flow(fn', insert, Leave)
    BY <1>2, <2>1, FlowEmitted
  <2> QED
    BY <1>1, <1>4, <2>1, <2>2, ReturnedInv
<1>5. CASE fn' = fn /\ stack' = Append(Become(frame), child)
  <2>1. Flow(fn, insert, Append(Leave, frame))
    BY <1>2, <1>3, FlowPushed
  <2>2. Inv'
    BY <1>1, <1>2, <1>3, <1>5, <2>1, CalledInv DEF Await, AwaitExpression
  <2> QED
    BY <1>2, <1>5, <2>2, KeepsItself
<1> QED
  BY <1>1, <1>4, <1>5

LEMMA EndReturnStmtInv ==
  ASSUME Inv, EndReturnStmt
  PROVE  Inv' /\ Keeps(fn, fn')
<1>1. /\ stack # <<>> /\ Top.visit = "return" /\ insert' = insert
      /\ fn' = CreateRet(fn, insert) /\ stack' = Leave
  BY DEF EndReturnStmt, InVisit
<1>2. WellFormed(fn) /\ Flow(fn, insert, Leave) /\ insert \in Open(fn)
  BY <1>1, TopFacts DEF Emitting
<1>3. /\ WellFormed(fn') /\ Keeps(fn, fn') /\ fn'.blocks = fn.blocks
      /\ Open(fn') = Open(fn) \ {insert} /\ SamePre(fn, fn', {})
  BY <1>1, <1>2, RetFacts
<1>4. Flow(fn', insert, Leave)
  BY <1>2, <1>3, FlowEmitted
<1> QED
  BY <1>1, <1>3, <1>4, ReturnedInv

LEMMA SelectionStmtInv ==
  ASSUME Inv, SelectionStmt
  PROVE  Inv' /\ Keeps(fn, fn')
<1> PICK hasElse \in BOOLEAN :
      stack' = Append(Become([Visit("selection") EXCEPT !.flag = hasElse]), Visit("expression"))
  BY DEF SelectionStmt
<1> DEFINE frame == [Visit("selection") EXCEPT !.flag = hasElse]
           child == Visit("expression")
<1>1. /\ stack # <<>> /\ Top.visit = "statement"
      /\ stack' = Append(Become(frame), child) /\ insert' = insert /\ fn' = fn
  BY DEF SelectionStmt, InVisit
<1>2. WellFormed(fn) /\ Flow(fn, insert, Leave) /\ insert \in Open(fn)
  BY <1>1, TopFacts DEF Emitting
<1>3. frame \in Frame /\ frame.visit = "selection"
  <2>1. Visit("selection") \in Frame /\ Visit("selection").visit = "selection"
    BY VisitFacts DEF Visits
  <2> QED
    BY <2>1 DEF Frame
<1>4. child \in Frame /\ child.visit = "expression"
  BY VisitFacts DEF Visits
<1> HIDE DEF frame, child
<1>5. Flow(fn, insert, Append(Leave, frame))
  BY <1>2, <1>3, FlowPushed
<1>6. Inv'
  BY <1>1, <1>2, <1>3, <1>4, <1>5, CalledInv DEF Await, AwaitExpression
<1> QED
  BY <1>1, <1>2, <1>6, KeepsItself

\* Going on with other pending blocks.
LEMMA FlowPushedOn ==
  ASSUME NEW f, NEW ins, NEW r, WellFormed(f), FramesOK(r, ins, f),
         NEW g, WellFormed(g), NEW into \in g.blocks,
         PendingIn(r) \subseteq Open(g) \ {into},
         HeadsIn(r) \subseteq g.blocks,
         \A b \in PendingIn(r) : g.pre[b] = f.pre[b],
         NEW frame \in Frame,
         PendingOf(frame) \subseteq Open(g) \ {into},
         PendingOf(frame) \cap (PendingIn(r) \cup HeadsIn(r) \cup HeadOf(frame)) = {},
         HeadOf(frame) \subseteq g.blocks \ PendingIn(r),
         ThenFrame(frame, g),
         Open(g) \subseteq PendingIn(r) \cup PendingOf(frame) \cup {into}
  PROVE  Flow(g, into, Append(r, frame))
<1>1. f.blocks \subseteq 1 .. f.made
  BY DEF WellFormed, FunctionType
<1>2. FramesOK(r, into, g)
  BY <1>1, FramesElsewhere
<1>3. /\ FramesOK(Append(r, frame), into, g)
      /\ PendingIn(Append(r, frame)) = PendingIn(r) \cup PendingOf(frame)
  BY <1>2, PushFrame
<1> QED
  BY <1>3 DEF Flow

\* ... that are all new.
LEMMA FlowOpened ==
  ASSUME NEW f, NEW ins, NEW r, Flow(f, ins, r),
         NEW g, WellFormed(g), SamePre(f, g, {}),
         NEW new, new \cap f.blocks = {}, g.blocks = f.blocks \cup new,
         Open(g) = (Open(f) \ {ins}) \cup new,
         NEW into \in new, NEW frame \in Frame,
         PendingOf(frame) = new \ {into},
         HeadOf(frame) \subseteq g.blocks \ (PendingIn(r) \cup PendingOf(frame)),
         ThenFrame(frame, g)
  PROVE  Flow(g, into, Append(r, frame))
<1>1. /\ WellFormed(f) /\ FramesOK(r, ins, f)
      /\ Open(f) \subseteq PendingIn(r) \cup {ins}
  BY DEF Flow
<1>2. /\ PendingIn(r) \subseteq Open(f) \ {ins}
      /\ PendingIn(r) \subseteq f.blocks /\ f.blocks \subseteq 1 .. f.made
      /\ HeadsIn(r) \subseteq f.blocks \ PendingIn(r)
  BY <1>1, FramesInside
<1>3. \A b \in PendingIn(r) : g.pre[b] = f.pre[b]
  BY <1>2 DEF SamePre
<1>4. /\ into \in g.blocks /\ PendingIn(r) \subseteq Open(g) \ {into}
      /\ HeadsIn(r) \subseteq g.blocks
  BY <1>2
<1>5. /\ PendingOf(frame) \subseteq Open(g) \ {into}
      /\ PendingOf(frame) \cap (PendingIn(r) \cup HeadsIn(r) \cup HeadOf(frame)) = {}
      /\ HeadOf(frame) \subseteq g.blocks \ PendingIn(r)
      /\ Open(g) \subseteq PendingIn(r) \cup PendingOf(frame) \cup {into}
  BY <1>1, <1>2
<1> QED
  BY <1>1, <1>3, <1>4, <1>5, FlowPushedOn

\* The blocks of a selection: m + 2 is falseBB, m + 3 contBB.
LEMMA SelectFacts ==
  ASSUME NEW f, WellFormed(f), NEW b \in Open(f),
         NEW e \in {f.made + 2, f.made + 3}
  PROVE  LET m  == f.made
             f1 == CreateBlock(CreateBlock(CreateBlock(f)))
             g  == CreateCondBr(AddInstr(f1, b, Plain("icmp")), b, m + 1, e)
             new == {m + 1, m + 2, m + 3}
         IN  /\ WellFormed(g) /\ Keeps(f, g) /\ m \in Nat
             /\ new \cap f.blocks = {} /\ g.blocks = f.blocks \cup new
             /\ Open(g) = (Open(f) \ {b}) \cup new
             /\ SamePre(f, g, {})
             /\ e = m + 3 => g.pre[m + 2] = <<>>
             /\ TargetsOf(g, b) = <<m + 1, e>>
<1> DEFINE m  == f.made
           f0 == CreateBlock(CreateBlock(f))
           f1 == CreateBlock(f0)
           g  == CreateCondBr(AddInstr(f1, b, Plain("icmp")), b, m + 1, e)
<1>1. /\ WellFormed(f0) /\ Keeps(f, f0) /\ m \in Nat
      /\ f0.made = m + 2 /\ f0.blocks = f.blocks \cup {m + 1, m + 2}
      /\ Open(f0) = Open(f) \cup {m + 1, m + 2}
      /\ m + 1 \notin f.blocks /\ m + 2 \notin f.blocks
      /\ f0.pre[m + 2] = <<>> /\ SamePre(f, f0, {})
  BY TwoBlocksFacts
<1> HIDE DEF f0
<1>2. /\ WellFormed(f1) /\ Keeps(f0, f1)
      /\ f1.made = f0.made + 1 /\ f1.blocks = f0.blocks \cup {f0.made + 1}
      /\ Open(f1) = Open(f0) \cup {f0.made + 1} /\ f0.made + 1 \notin f0.blocks
      /\ SamePre(f0, f1, {})
  BY <1>1, NewBlockFacts
<1> HIDE DEF f1
<1>3. /\ f0.made + 1 = m + 3 /\ f1.made = m + 3
      /\ m + 3 \notin f.blocks
      /\ f1.blocks = f.blocks \cup {m + 1, m + 2, m + 3}
      /\ Open(f1) = Open(f) \cup {m + 1, m + 2, m + 3}
      /\ f1.pre[m + 2] = <<>> /\ SamePre(f, f1, {})
  BY <1>1, <1>2 DEF SamePre
<1>4. /\ b \in Open(f1) /\ m + 1 \in f1.blocks /\ e \in f1.blocks /\ m + 1 # e
      /\ b \notin {m + 1, m + 2, m + 3}
  BY <1>1, <1>3 DEF Open
<1>5. /\ WellFormed(g) /\ Keeps(f1, g)
      /\ g.made = f1.made /\ g.blocks = f1.blocks
      /\ Open(g) = Open(f1) \ {b} /\ SamePre(f1, g, {m + 1, e})
      /\ TargetsOf(g, b) = <<m + 1, e>>
  <2> PICK t : t = m + 1
    OBVIOUS
  <2> DEFINE h == CreateCondBr(AddInstr(f1, b, Plain("icmp")), b, t, e)
  <2>1. t \in f1.blocks /\ t # e
    BY <1>4
  <2>2. Forked(f1, b, t, e, h)
    BY <1>2, <1>4, <2>1, ForkFacts
  <2>3. g = h
    OBVIOUS
  <2> HIDE DEF g, h
  <2> QED BY <2>2, <2>3 DEF Forked
<1> HIDE DEF g
<1>6. Keeps(f, g)
  BY <1>1, <1>2, <1>5, KeepsTransitive
<1>7. /\ 1 .. m \subseteq (1 .. f1.made) \ {m + 1, e}
      /\ e = m + 3 => m + 2 \in (1 .. f1.made) \ {m + 1, e}
  BY <1>1, <1>3
<1>8. SamePre(f, g, {}) /\ (e = m + 3 => g.pre[m + 2] = <<>>)
  BY <1>3, <1>5, <1>7 DEF SamePre
<1>9. Open(g) = (Open(f) \ {b}) \cup {m + 1, m + 2, m + 3}
  BY <1>3, <1>4, <1>5
<1> QED
  BY <1>1, <1>3, <1>5, <1>6, <1>8, <1>9 DEF g, f1, f0

LEMMA BranchSelectionInv ==
  ASSUME Inv, BranchSelection
  PROVE  Inv' /\ Keeps(fn, fn')
<1> DEFINE m == fn.made
           new == {m + 1, m + 2, m + 3}
           e == IF Top.flag THEN m + 2 ELSE m + 3
           f1 == CreateBlock(CreateBlock(CreateBlock(fn)))
           g == CreateCondBr(AddInstr(f1, insert, Plain("icmp")), insert, m + 1, e)
           frame == [Top EXCEPT !.visit = "then", !.other = m + 2, !.cont = m + 3]
           child == Visit("statement")
<1>1. /\ stack # <<>> /\ Top.visit = "selection"
      /\ stack' = Append(Become(frame), child) /\ insert' = m + 1 /\ fn' = g
  BY DEF BranchSelection, InVisit
<1>2. WellFormed(fn) /\ Flow(fn, insert, Leave) /\ insert \in Open(fn) /\ Top \in Frame
  BY <1>1, TopFacts DEF Emitting
<1>3. e \in {m + 2, m + 3} /\ (~Top.flag => e = m + 3)
  OBVIOUS
<1> HIDE DEF e
<1>4. /\ WellFormed(g) /\ Keeps(fn, g) /\ m \in Nat
      /\ new \cap fn.blocks = {} /\ g.blocks = fn.blocks \cup new
      /\ Open(g) = (Open(fn) \ {insert}) \cup new
      /\ SamePre(fn, g, {})
      /\ e = m + 3 => g.pre[m + 2] = <<>>
  BY <1>2, <1>3, SelectFacts
<1> HIDE DEF g
<1>5. /\ frame \in Frame /\ frame.visit = "then"
      /\ frame.other = m + 2 /\ frame.cont = m + 3 /\ frame.flag = Top.flag
  <2>1. m + 2 \in Nat /\ m + 3 \in Nat
    BY <1>4
  <2> HIDE DEF m
  <2> QED
    BY <1>2, <2>1 DEF Frame, Visits
<1>6. child \in Frame /\ child.visit = "statement"
  BY VisitFacts DEF Visits
<1> HIDE DEF frame, child
<1>7. /\ PendingOf(frame) = new \ {m + 1} /\ HeadOf(frame) = {}
      /\ ThenFrame(frame, g)
  BY <1>3, <1>4, <1>5 DEF PendingOf, HeadOf, ThenFrame
<1>8. Flow(g, m + 1, Append(Leave, frame))
  <2> PICK t : t = m + 1
    OBVIOUS
  <2>1. t \in new /\ PendingOf(frame) = new \ {t}
        /\ HeadOf(frame) \subseteq g.blocks \ (PendingIn(Leave) \cup PendingOf(frame))
    BY <1>7
  <2> HIDE DEF new
  <2>2. Flow(g, t, Append(Leave, frame))
    BY <2>1, <1>2, <1>4, <1>5, <1>7, FlowOpened
  <2> QED
    BY <2>2
<1>9. m + 1 \in Open(g)
  BY <1>4
<1>10. Inv'
  BY <1>1, <1>5, <1>6, <1>8, <1>9, CalledInv DEF Await, AwaitExpression
<1> QED
  BY <1>1, <1>4, <1>10

LEMMA IterationStmtInv ==
  ASSUME Inv, IterationStmt
  PROVE  Inv' /\ Keeps(fn, fn')
<1> DEFINE x == fn.made + 1
           f1 == CreateBlock(fn)
           g == BrIfOpen(f1, insert, x)
           frame == [Visit("iteration") EXCEPT !.other = x]
           child == Visit("expression")
<1>1. /\ stack # <<>> /\ Top.visit = "statement"
      /\ stack' = Append(Become(frame), child) /\ insert' = x /\ fn' = g
  BY DEF IterationStmt, InVisit
<1>2. /\ WellFormed(fn) /\ Flow(fn, insert, Leave) /\ insert \in Open(fn)
      /\ insert \in fn.blocks
  BY <1>1, TopFacts DEF Emitting
<1>3. /\ WellFormed(f1) /\ Keeps(fn, f1) /\ fn.made \in Nat
      /\ f1.made = x /\ f1.blocks = fn.blocks \cup {x}
      /\ Open(f1) = Open(fn) \cup {x} /\ x \notin fn.blocks
      /\ SamePre(fn, f1, {})
  BY <1>2, NewBlockFacts
<1> HIDE DEF f1
<1>4. 1 .. fn.made \subseteq (1 .. f1.made) \ {x} /\ x \in Nat
  BY <1>3
<1> HIDE DEF x
<1>5. /\ WellFormed(g) /\ Keeps(f1, g)
      /\ g.made = f1.made /\ g.blocks = f1.blocks
      /\ Open(g) = Open(f1) \ {insert} /\ SamePre(f1, g, {x})
  <2>1. insert \in f1.blocks /\ x \in f1.blocks /\ WellFormed(f1)
    BY <1>2, <1>3
  <2> QED
    BY <2>1, BrIfOpenFacts
<1> HIDE DEF g
<1>6. Keeps(fn, g) /\ SamePre(fn, g, {})
  BY <1>3, <1>4, <1>5, KeepsTransitive DEF SamePre
<1>7. g.blocks = fn.blocks \cup {x} /\ Open(g) = (Open(fn) \ {insert}) \cup {x}
  BY <1>2, <1>3, <1>5
<1>8. frame \in Frame /\ frame.visit = "iteration" /\ frame.other = x
  <2>1. Visit("iteration") \in Frame /\ Visit("iteration").visit = "iteration"
    BY VisitFacts DEF Visits
  <2> QED
    BY <1>4, <2>1 DEF Frame
<1>9. child \in Frame /\ child.visit = "expression"
  BY VisitFacts DEF Visits
<1> HIDE DEF frame, child
<1>10. PendingOf(frame) = {} /\ HeadOf(frame) = {x} /\ ThenFrame(frame, g)
  BY <1>8 DEF PendingOf, HeadOf, ThenFrame
<1>11. Flow(g, x, Append(Leave, frame))
  <2>1. PendingIn(Leave) \subseteq fn.blocks
    BY <1>2, FramesInside DEF Flow
  <2> PICK new : new = {x}
    OBVIOUS
  <2>2. /\ new \cap fn.blocks = {} /\ g.blocks = fn.blocks \cup new
        /\ Open(g) = (Open(fn) \ {insert}) \cup new /\ x \in new
        /\ PendingOf(frame) = new \ {x}
        /\ HeadOf(frame) \subseteq g.blocks \ (PendingIn(Leave) \cup PendingOf(frame))
    BY <2>1, <1>3, <1>7, <1>10
  <2> QED
    BY <2>2, <1>2, <1>5, <1>6, <1>8, <1>10, FlowOpened
<1>12. Inv'
  BY <1>1, <1>7, <1>8, <1>9, <1>11, CalledInv DEF Await, AwaitExpression
<1> QED
  BY <1>1, <1>6, <1>12

\* The blocks of an iteration: m + 1 is trueBB, m + 2 contBB.
LEMMA LoopFacts ==
  ASSUME NEW f, WellFormed(f), NEW b \in Open(f)
  PROVE  LET m  == f.made
             f1 == AddInstr(CreateBlock(CreateBlock(f)), b, Plain("icmp"))
             g  == CreateCondBr(f1, b, m + 1, m + 2)
             new == {m + 1, m + 2}
         IN  /\ WellFormed(g) /\ Keeps(f, g) /\ m \in Nat
             /\ new \cap f.blocks = {} /\ g.blocks = f.blocks \cup new
             /\ Open(g) = (Open(f) \ {b}) \cup new
             /\ SamePre(f, g, {})
             /\ TargetsOf(g, b) = <<m + 1, m + 2>>
<1> DEFINE t == f.made + 1
           c == f.made + 2
           f0 == CreateBlock(CreateBlock(f))
           g  == CreateCondBr(AddInstr(f0, b, Plain("icmp")), b, t, c)
<1>1. /\ WellFormed(f0) /\ Keeps(f, f0) /\ f.made \in Nat
      /\ f0.made = f.made + 2 /\ f0.blocks = f.blocks \cup {t, c}
      /\ Open(f0) = Open(f) \cup {t, c}
      /\ t \notin f.blocks /\ c \notin f.blocks /\ SamePre(f, f0, {})
  BY TwoBlocksFacts
<1> HIDE DEF f0
<1>2. /\ t # c /\ b \notin {t, c} /\ b \in Open(f0)
      /\ t \in f0.blocks /\ c \in f0.blocks
      /\ 1 .. f.made \subseteq (1 .. f0.made) \ {t, c}
  BY <1>1 DEF Open
<1> HIDE DEF t, c
<1>3. /\ WellFormed(g) /\ Keeps(f0, g)
      /\ g.made = f0.made /\ g.blocks = f0.blocks
      /\ Open(g) = Open(f0) \ {b} /\ SamePre(f0, g, {t, c})
      /\ TargetsOf(g, b) = <<t, c>>
  <2>1. Forked(f0, b, t, c, g)
    BY <1>1, <1>2, ForkFacts
  <2> HIDE DEF g
  <2> QED BY <2>1 DEF Forked
<1> HIDE DEF g
<1>4. Keeps(f, g)
  BY <1>1, <1>3, KeepsTransitive
<1>5. SamePre(f, g, {})
  BY <1>1, <1>2, <1>3 DEF SamePre
<1>6. Open(g) = (Open(f) \ {b}) \cup {t, c}
  BY <1>1, <1>2, <1>3
<1> QED
  BY <1>1, <1>3, <1>4, <1>5, <1>6 DEF g, f0, t, c

LEMMA BranchIterationInv ==
  ASSUME Inv, BranchIteration
  PROVE  Inv' /\ Keeps(fn, fn')
<1> DEFINE m == fn.made
           new == {m + 1, m + 2}
           f1 == AddInstr(CreateBlock(CreateBlock(fn)), insert, Plain("icmp"))
           g == CreateCondBr(f1, insert, m + 1, m + 2)
           frame == [Top EXCEPT !.visit = "while", !.cont = m + 2]
           child == Visit("statement")
<1>1. /\ stack # <<>> /\ Top.visit = "iteration"
      /\ stack' = Append(Become(frame), child) /\ insert' = m + 1 /\ fn' = g
  BY DEF BranchIteration, InVisit
<1>2. WellFormed(fn) /\ Flow(fn, insert, Leave) /\ insert \in Open(fn) /\ Top \in Frame
  BY <1>1, TopFacts DEF Emitting
<1>3. {Top.other} \subseteq fn.blocks \ PendingIn(Leave)
  <2>1. HeadOf(Top) \subseteq fn.blocks \ (PendingIn(Leave) \cup PendingOf(Top))
    BY <1>1, Below DEF Inv, Top, Leave
  <2> QED
    BY <1>1, <2>1 DEF HeadOf
<1>4. /\ WellFormed(g) /\ Keeps(fn, g) /\ m \in Nat
      /\ new \cap fn.blocks = {} /\ g.blocks = fn.blocks \cup new
      /\ Open(g) = (Open(fn) \ {insert}) \cup new
      /\ SamePre(fn, g, {})
  BY <1>2, LoopFacts
<1> HIDE DEF g
<1>5. /\ frame \in Frame /\ frame.visit = "while"
      /\ frame.other = Top.other /\ frame.cont = m + 2
  <2>1. m + 2 \in Nat
    BY <1>4
  <2> HIDE DEF m
  <2> QED
    BY <1>2, <2>1 DEF Frame, Visits
<1>6. child \in Frame /\ child.visit = "statement"
  BY VisitFacts DEF Visits
<1> HIDE DEF frame, child
<1>7. /\ PendingOf(frame) = new \ {m + 1} /\ HeadOf(frame) = {Top.other}
      /\ ThenFrame(frame, g)
  BY <1>4, <1>5 DEF PendingOf, HeadOf, ThenFrame
<1>8. Flow(g, m + 1, Append(Leave, frame))
  <2> PICK t : t = m + 1
    OBVIOUS
  <2>1. t \in new /\ PendingOf(frame) = new \ {t}
    BY <1>7
  <2> HIDE DEF new
  <2>2. HeadOf(frame) \subseteq g.blocks \ (PendingIn(Leave) \cup PendingOf(frame))
    BY <1>3, <1>4, <1>7, <2>1
  <2>3. Flow(g, t, Append(Leave, frame))
    BY <2>1, <2>2, <1>2, <1>4, <1>5, <1>7, FlowOpened
  <2> QED
    BY <2>3
<1>9. m + 1 \in Open(g)
  BY <1>4
<1>10. Inv'
  BY <1>1, <1>5, <1>6, <1>8, <1>9, CalledInv DEF Await, AwaitExpression
<1> QED
  BY <1>1, <1>4, <1>10

\* What a then, else or while frame keeps for itself.
LEMMA PendingTop ==
  ASSUME Inv, stack # <<>>
  PROVE  /\ FramesOK(Leave, insert, fn)
         /\ PendingIn(Leave) \subseteq Open(fn) \ {insert}
         /\ PendingIn(Leave) \subseteq fn.blocks
         /\ fn.blocks \subseteq 1 .. fn.made
         /\ HeadsIn(Leave) \subseteq fn.blocks \ PendingIn(Leave)
         /\ PendingOf(Top) \cap (PendingIn(Leave) \cup HeadsIn(Leave)) = {}
         /\ PendingOf(Top) \subseteq Open(fn) \ {insert}
         /\ PendingOf(Top) \subseteq fn.blocks
         /\ HeadOf(Top) \subseteq fn.blocks \ (PendingIn(Leave) \cup PendingOf(Top))
         /\ ThenFrame(Top, fn)
         /\ Open(fn) \subseteq PendingIn(Leave) \cup PendingOf(Top) \cup {insert}
<1>1. /\ FramesOK(Leave, insert, fn) /\ WellFormed(fn)
      /\ PendingOf(Top) \cap PendingIn(Leave) = {}
      /\ PendingOf(Top) \subseteq Open(fn) \ {insert}
      /\ PendingOf(Top) \cap HeadsIn(Leave) = {}
      /\ HeadOf(Top) \subseteq fn.blocks \ (PendingIn(Leave) \cup PendingOf(Top))
      /\ ThenFrame(Top, fn)
      /\ Open(fn) \subseteq PendingIn(Leave) \cup PendingOf(Top) \cup {insert}
  BY Below DEF Inv, Top, Leave
<1>2. /\ PendingIn(Leave) \subseteq Open(fn) \ {insert}
      /\ PendingIn(Leave) \subseteq fn.blocks
      /\ fn.blocks \subseteq 1 .. fn.made
      /\ HeadsIn(Leave) \subseteq fn.blocks \ PendingIn(Leave)
  BY <1>1, FramesInside
<1> QED
  BY <1>1, <1>2 DEF Open

\* The block a finished branch jumps to becomes the insert block.
LEMMA JoinedInv ==
  ASSUME Inv, stack # <<>>, Top.visit \in {"then", "else", "while"},
         PendingOf(Top) = {Top.cont}, NEW target \in fn.blocks \ PendingIn(Leave),
         fn' = BrIfOpen(fn, insert, target), insert' = Top.cont, stack' = Leave
  PROVE  Inv' /\ Keeps(fn, fn')
<1>1. WellFormed(fn) /\ insert \in fn.blocks
  BY TopFacts
<1>2. /\ FramesOK(Leave, insert, fn)
      /\ PendingIn(Leave) \subseteq Open(fn) \ {insert}
      /\ PendingIn(Leave) \subseteq fn.blocks
      /\ fn.blocks \subseteq 1 .. fn.made
      /\ HeadsIn(Leave) \subseteq fn.blocks
      /\ Top.cont \notin PendingIn(Leave)
      /\ Top.cont \in fn.blocks /\ Top.cont \in Open(fn) \ {insert}
      /\ Open(fn) \subseteq PendingIn(Leave) \cup {Top.cont} \cup {insert}
  BY PendingTop
<1>3. /\ WellFormed(fn') /\ Keeps(fn, fn') /\ fn'.blocks = fn.blocks
      /\ Open(fn') = Open(fn) \ {insert} /\ SamePre(fn, fn', {target})
  BY <1>1, BrIfOpenFacts
<1>4. \A b \in PendingIn(Leave) : fn'.pre[b] = fn.pre[b]
  BY <1>2, <1>3 DEF SamePre
<1>5. Flow(fn', Top.cont, Leave)
  <2>1. /\ Top.cont \in fn'.blocks /\ HeadsIn(Leave) \subseteq fn'.blocks
        /\ PendingIn(Leave) \subseteq Open(fn') \ {Top.cont}
        /\ Open(fn') \subseteq PendingIn(Leave) \cup {Top.cont}
    BY <1>2, <1>3
  <2> QED
    BY <2>1, <1>1, <1>2, <1>3, <1>4, FlowMoved
<1>6. Inv'
  BY <1>5, ReturnedInv
<1> QED
  BY <1>3, <1>6

LEMMA EndElseInv ==
  ASSUME Inv, EndElse
  PROVE  Inv' /\ Keeps(fn, fn')
<1>1. /\ stack # <<>> /\ Top.visit = "else" /\ stack' = Leave
      /\ insert' = Top.cont /\ fn' = BrIfOpen(fn, insert, Top.cont)
  BY DEF EndElse, InVisit
<1>2. PendingOf(Top) = {Top.cont}
  BY <1>1 DEF PendingOf
<1>3. Top.cont \in fn.blocks \ PendingIn(Leave)
  BY <1>1, <1>2, PendingTop
<1> QED
  BY <1>1, <1>2, <1>3, JoinedInv

LEMMA EndWhileInv ==
  ASSUME Inv, EndWhile
  PROVE  Inv' /\ Keeps(fn, fn')
<1>1. /\ stack # <<>> /\ Top.visit = "while" /\ stack' = Leave
      /\ insert' = Top.cont /\ fn' = BrIfOpen(fn, insert, Top.other)
  BY DEF EndWhile, InVisit, LoopHead
<1>2. PendingOf(Top) = {Top.cont} /\ HeadOf(Top) = {Top.other}
  BY <1>1 DEF PendingOf, HeadOf
<1>3. Top.other \in fn.blocks \ PendingIn(Leave)
  BY <1>1, <1>2, PendingTop
<1> QED
  BY <1>1, <1>2, <1>3, JoinedInv

LEMMA EndThenInv ==
  ASSUME Inv, EndThen
  PROVE  Inv' /\ Keeps(fn, fn')
<1> DEFINE x == Top.other
           c == Top.cont
           f1 == BrIfOpen(fn, insert, c)
           frame == [Top EXCEPT !.visit = "else"]
           child == Visit("statement")
           g == EraseBlock(f1, x)
<1>1. /\ stack # <<>> /\ Top.visit = "then"
      /\ Top.flag => fn' = f1 /\ insert' = x /\ stack' = Append(Become(frame), child)
      /\ ~Top.flag => fn' = g /\ insert' = c /\ stack' = Leave
  BY DEF EndThen, InVisit, DropFalseBB
<1>2. WellFormed(fn) /\ insert \in fn.blocks /\ Top \in Frame
  BY <1>1, TopFacts
<1>3. PendingOf(Top) = {x, c}
  BY <1>1 DEF PendingOf
<1>4. /\ FramesOK(Leave, insert, fn)
      /\ PendingIn(Leave) \subseteq Open(fn) \ {insert}
      /\ PendingIn(Leave) \subseteq fn.blocks
      /\ fn.blocks \subseteq 1 .. fn.made
      /\ HeadsIn(Leave) \subseteq fn.blocks
      /\ x \notin PendingIn(Leave) \cup HeadsIn(Leave)
      /\ c \notin PendingIn(Leave) \cup HeadsIn(Leave)
      /\ x \in fn.blocks /\ x \in Open(fn) \ {insert}
      /\ c \in fn.blocks /\ c \in Open(fn) \ {insert}
      /\ Open(fn) \subseteq PendingIn(Leave) \cup {x, c} \cup {insert}
      /\ ThenFrame(Top, fn)
  BY <1>1, <1>3, PendingTop
<1>5. x # c /\ (~Top.flag => fn.pre[x] = <<>>)
  BY <1>1, <1>4 DEF ThenFrame
<1> HIDE DEF x, c
<1>6. /\ WellFormed(f1) /\ Keeps(fn, f1) /\ f1.made = fn.made /\ f1.blocks = fn.blocks
      /\ Open(f1) = Open(fn) \ {insert} /\ SamePre(fn, f1, {c})
  BY <1>2, <1>4, BrIfOpenFacts
<1> HIDE DEF f1
<1>7. \A b \in PendingIn(Leave) \cup {x} : f1.pre[b] = fn.pre[b]
  BY <1>4, <1>5, <1>6 DEF SamePre
<1>8. CASE Top.flag
  <2>1. frame \in Frame /\ frame.visit = "else" /\ frame.cont = c
    BY <1>2 DEF Frame, Visits, c
  <2>2. child \in Frame /\ child.visit = "statement"
    BY VisitFacts DEF Visits
  <2> HIDE DEF frame, child
  <2>3. PendingOf(frame) = {c} /\ HeadOf(frame) = {} /\ ThenFrame(frame, f1)
    BY <2>1 DEF PendingOf, HeadOf, ThenFrame
  <2>4. Flow(f1, x, Append(Leave, frame))
    <3>1. /\ x \in f1.blocks /\ HeadsIn(Leave) \subseteq f1.blocks
          /\ PendingIn(Leave) \subseteq Open(f1) \ {x}
          /\ PendingOf(frame) \subseteq Open(f1) \ {x}
          /\ PendingOf(frame) \cap (PendingIn(Leave) \cup HeadsIn(Leave) \cup HeadOf(frame)) = {}
          /\ HeadOf(frame) \subseteq f1.blocks \ PendingIn(Leave)
          /\ Open(f1) \subseteq PendingIn(Leave) \cup PendingOf(frame) \cup {x}
      BY <1>4, <1>5, <1>6, <2>3
    <3> QED
      BY <3>1, <1>2, <1>4, <1>6, <1>7, <2>1, <2>3, FlowPushedOn
  <2>5. x \in Open(f1)
    BY <1>4, <1>6
  <2>6. Inv'
    BY <1>1, <1>8, <2>1, <2>2, <2>4, <2>5, CalledInv DEF Await, AwaitExpression
  <2> QED
    BY <1>1, <1>6, <1>8, <2>6
<1>9. CASE ~Top.flag
  <2>1. x \in Open(f1) /\ f1.pre[x] = <<>>
    BY <1>4, <1>5, <1>6, <1>7, <1>9
  <2>2. /\ WellFormed(g) /\ g.blocks = f1.blocks \ {x}
        /\ Open(g) = Open(f1) \ {x}
        /\ SameCode(f1, g, {}) /\ SamePre(f1, g, {})
    BY <1>6, <2>1, EraseBlockFacts
  <2> HIDE DEF g
  <2>3. Keeps(f1, g)
    BY <1>6, <2>1, <2>2, KeepsOutside
  <2>4. Keeps(fn, g)
    BY <1>6, <2>3, KeepsTransitive
  <2>5. \A b \in PendingIn(Leave) : g.pre[b] = fn.pre[b]
    BY <1>4, <1>6, <1>7, <2>2 DEF SamePre
  <2>6. Flow(g, c, Leave)
    <3>1. /\ c \in g.blocks /\ HeadsIn(Leave) \subseteq g.blocks
          /\ PendingIn(Leave) \subseteq Open(g) \ {c}
          /\ Open(g) \subseteq PendingIn(Leave) \cup {c}
      BY <1>4, <1>5, <1>6, <2>2
    <3> QED
      BY <3>1, <1>2, <1>4, <2>2, <2>5, FlowMoved
  <2>7. Inv'
    BY <1>1, <1>9, <2>6, ReturnedInv
  <2> QED
    BY <1>1, <1>9, <2>4, <2>7
<1> QED
  BY <1>8, <1>9

-----------------------------------------------------------------------------
(* The scopes.                                                             *)

ScopesAt(s) == {i \in DOMAIN s : OpensScope(s[i])}

LEMMA ScopesFinite ==
  ASSUME NEW s \in Seq(Frame)
  PROVE  IsFiniteSet(ScopesAt(s)) /\ Scopes(s) = Cardinality(ScopesAt(s)) /\ Scopes(s) \in Nat
<1>1. DOMAIN s = 1 .. Len(s) /\ Len(s) \in Nat
  OBVIOUS
<1>2. IsFiniteSet(1 .. Len(s))
  BY <1>1, FS_Interval
<1>3. ScopesAt(s) \subseteq 1 .. Len(s)
  BY <1>1 DEF ScopesAt
<1>4. IsFiniteSet(ScopesAt(s))
  BY <1>2, <1>3, FS_Subset
<1> QED
  BY <1>4, FS_CardinalityType DEF Scopes, ScopesAt

\* A frame counts if and only if it opened a scope.
LEMMA ScopesPushed ==
  ASSUME NEW r \in Seq(Frame), NEW frame \in Frame
  PROVE  /\ Scopes(r) \in Nat
         /\ OpensScope(frame) => Scopes(Append(r, frame)) = Scopes(r) + 1
         /\ ~OpensScope(frame) => Scopes(Append(r, frame)) = Scopes(r)
<1> DEFINE s == Append(r, frame)
           n == Len(r) + 1
<1>1. /\ s \in Seq(Frame) /\ Len(r) \in Nat
      /\ DOMAIN s = 1 .. Len(r) + 1 /\ DOMAIN r = 1 .. Len(r)
      /\ \A i \in 1 .. Len(r) : s[i] = r[i]
      /\ s[n] = frame
  BY PushFacts
<1> HIDE DEF s
<1>2. DOMAIN s = DOMAIN r \cup {n} /\ n \notin DOMAIN r
  BY <1>1
<1>3. \A i \in DOMAIN r : s[i] = r[i]
  BY <1>1
<1> HIDE DEF n
<1>4. n \notin ScopesAt(r)
  BY <1>2 DEF ScopesAt
<1>5. OpensScope(frame) => ScopesAt(s) = ScopesAt(r) \cup {n}
  BY <1>1, <1>2, <1>3 DEF ScopesAt
<1>6. ~OpensScope(frame) => ScopesAt(s) = ScopesAt(r)
  BY <1>1, <1>2, <1>3 DEF ScopesAt
<1>7. /\ IsFiniteSet(ScopesAt(r)) /\ Scopes(r) = Cardinality(ScopesAt(r))
      /\ Scopes(r) \in Nat /\ Scopes(s) = Cardinality(ScopesAt(s))
  BY <1>1, ScopesFinite
<1>8. Cardinality(ScopesAt(r) \cup {n}) = Cardinality(ScopesAt(r)) + 1
  BY <1>4, <1>7, FS_AddElement
<1> QED
  BY <1>5, <1>6, <1>7, <1>8 DEF s

LEMMA ScopesPopped ==
  ASSUME NEW s \in Seq(Frame), s # <<>>
  PROVE  LET r == SubSeq(s, 1, Len(s) - 1)
             top == s[Len(s)]
         IN  /\ Scopes(r) \in Nat
             /\ OpensScope(top) => Scopes(s) = Scopes(r) + 1
             /\ ~OpensScope(top) => Scopes(s) = Scopes(r)
<1> DEFINE r == SubSeq(s, 1, Len(s) - 1)
           top == s[Len(s)]
<1>1. r \in Seq(Frame) /\ top \in Frame
  BY LeaveFacts
<1>2. [s EXCEPT ![Len(s)] = top] = Append(r, top)
  BY <1>1, BecomeIsPush
<1>3. [s EXCEPT ![Len(s)] = top] = s
  OBVIOUS
<1>4. s = Append(r, top)
  BY <1>2, <1>3
<1> HIDE DEF r, top
<1>5. /\ Scopes(r) \in Nat
      /\ OpensScope(top) => Scopes(Append(r, top)) = Scopes(r) + 1
      /\ ~OpensScope(top) => Scopes(Append(r, top)) = Scopes(r)
  BY <1>1, ScopesPushed
<1>6. Scopes(Append(r, top)) = Scopes(s)
  BY <1>4
<1> QED
  BY <1>5, <1>6 DEF r, top

\* The invariant of the scopes.
Scoping ==
  /\ ScopesBalanced
  /\ pre_enter_scope \in BOOLEAN /\ nodes \in Nat

\* The scopes of the stacks a step can lead to.
LEMMA ScopesFacts ==
  ASSUME Inv, stack # <<>>
  PROVE  /\ Scopes(Leave) \in Nat
         /\ Leave = <<>> <=> Top.visit = "function"
         /\ OpensScope(Top) => Scopes(stack) = Scopes(Leave) + 1
         /\ ~OpensScope(Top) => Scopes(stack) = Scopes(Leave)
         /\ \A frame \in Frame :
              /\ Become(frame) # <<>>
              /\ OpensScope(frame) => Scopes(Become(frame)) = Scopes(Leave) + 1
              /\ ~OpensScope(frame) => Scopes(Become(frame)) = Scopes(Leave)
              /\ \A child \in Frame : ~OpensScope(child) =>
                   /\ Append(Become(frame), child) # <<>>
                   /\ Scopes(Append(Become(frame), child)) = Scopes(Become(frame))
<1>1. stack \in Seq(Frame)
  BY DEF Inv, InvOf
<1>2. Leave = <<>> <=> Top.visit = "function"
  BY Below DEF Inv, Leave, Top
<1>3. /\ Scopes(Leave) \in Nat /\ Leave \in Seq(Frame)
      /\ OpensScope(Top) => Scopes(stack) = Scopes(Leave) + 1
      /\ ~OpensScope(Top) => Scopes(stack) = Scopes(Leave)
  BY <1>1, ScopesPopped, LeaveFacts DEF Leave, Top
<1>4. ASSUME NEW frame \in Frame
      PROVE  /\ Become(frame) # <<>> /\ Become(frame) \in Seq(Frame)
             /\ OpensScope(frame) => Scopes(Become(frame)) = Scopes(Leave) + 1
             /\ ~OpensScope(frame) => Scopes(Become(frame)) = Scopes(Leave)
  <2>1. Become(frame) = Append(Leave, frame)
    BY <1>1, BecomeIsPush DEF Become, Leave
  <2> HIDE DEF Leave
  <2>2. Append(Leave, frame) \in Seq(Frame) /\ Append(Leave, frame) # <<>>
    BY <1>3
  <2> QED
    BY <1>3, <2>1, <2>2, ScopesPushed
<1>5. ASSUME NEW frame \in Frame, NEW child \in Frame, ~OpensScope(child)
      PROVE  /\ Append(Become(frame), child) # <<>>
             /\ Scopes(Append(Become(frame), child)) = Scopes(Become(frame))
  <2>1. Become(frame) \in Seq(Frame)
    BY <1>4
  <2> QED
    BY <2>1, <1>5, ScopesPushed
<1> QED
  BY <1>2, <1>3, <1>4, <1>5

\* A visit that opened no scope returns, goes on or calls another.
LEMMA SameScopes ==
  ASSUME Inv, stack # <<>>, Scoping, depth' = depth,
         pre_enter_scope' = pre_enter_scope, nodes' \in Nat, Top.visit # "function",
         ~OpensScope(Top),
         \/ stack' = Leave
         \/ \E frame \in Frame : ~OpensScope(frame) /\ stack' = Become(frame)
         \/ \E frame, child \in Frame :
              /\ ~OpensScope(frame) /\ ~OpensScope(child)
              /\ stack' = Append(Become(frame), child)
  PROVE  Scoping'
<1>1. stack' # <<>> /\ Scopes(stack') = Scopes(stack)
  BY ScopesFacts
<1> QED
  BY <1>1 DEF Scoping, ScopesBalanced, Scopes

LEMMA NoScopeFacts ==
  ASSUME NEW frame, frame.visit \notin {"declarations", "statements"}
  PROVE  ~OpensScope(frame)
BY DEF OpensScope

LEMMA FunDeclarationScoping ==
  ASSUME Inv, Scoping, FunDeclaration
  PROVE  Scoping'
<1> DEFINE a == Visit("function")
           b == Visit("body")
<1>1. /\ fn = NoFunction /\ stack' = <<a, b>> /\ depth' = depth + 1
      /\ pre_enter_scope' = TRUE /\ nodes' = nodes
  BY DEF FunDeclaration
<1>2. stack = <<>>
  BY <1>1 DEF Inv, InvOf, Flow, NoFunction
<1>3. a \in Frame /\ b \in Frame /\ ~OpensScope(a) /\ ~OpensScope(b)
  BY VisitFacts DEF Visits, OpensScope
<1> HIDE DEF a, b
<1>4. Scopes(<<>>) = 0 /\ Scopes(<<a, b>>) = 0
  <2>1. ScopesAt(<<>>) = {} /\ ScopesAt(<<a, b>>) = {}
    BY <1>3 DEF ScopesAt
  <2> QED
    BY <2>1, FS_EmptySet DEF Scopes, ScopesAt
<1>5. stack' # <<>> /\ Scopes(stack') = 0
  BY <1>1, <1>4
<1>6. depth = 1
  BY <1>2, <1>4 DEF Scoping, ScopesBalanced
<1> QED
  BY <1>1, <1>5, <1>6 DEF Scoping, ScopesBalanced, Scopes

LEMMA EndFunDeclarationScoping ==
  ASSUME Inv, Scoping, EndFunDeclaration
  PROVE  Scoping'
<1>1. /\ stack # <<>> /\ Top.visit = "function" /\ stack' = Leave
      /\ depth' = depth - 1
      /\ pre_enter_scope' = pre_enter_scope /\ nodes' = nodes
  BY DEF EndFunDeclaration, InVisit
<1>2. ~OpensScope(Top)
  BY <1>1, NoScopeFacts
<1>3. stack' = <<>> /\ Scopes(stack') = Scopes(stack) /\ Scopes(stack) \in Nat
  BY <1>1, <1>2, ScopesFacts
<1>4. depth = 2 + Scopes(stack)
  BY <1>1, <1>3 DEF Scoping, ScopesBalanced
<1>5. depth' = 1 + Scopes(stack')
  BY <1>1, <1>3, <1>4
<1> QED
  BY <1>1, <1>3, <1>5 DEF Scoping, ScopesBalanced, Scopes

LEMMA EnterCompoundStmtScoping ==
  ASSUME Inv, Scoping, EnterCompoundStmt
  PROVE  Scoping'
<1> DEFINE frame == [Visit("declarations") EXCEPT !.flag = ~pre_enter_scope]
<1>1. /\ stack # <<>> /\ Top.visit \in {"body", "statement"}
      /\ stack' = Become(frame)
      /\ pre_enter_scope \in BOOLEAN /\ pre_enter_scope' = FALSE
      /\ depth' = IF pre_enter_scope THEN depth ELSE depth + 1
  BY DEF EnterCompoundStmt, InVisit, Scoping
<1>2. nodes' \in Nat
  BY DEF EnterCompoundStmt, TakeNode, Scoping
<1>3. ~OpensScope(Top) /\ Top.visit # "function"
  BY <1>1, NoScopeFacts
<1>4. /\ frame \in Frame /\ frame.visit = "declarations"
      /\ frame.flag = ~pre_enter_scope
  <2>1. (~pre_enter_scope) \in BOOLEAN
    OBVIOUS
  <2>2. Visit("declarations") \in Frame /\ Visit("declarations").visit = "declarations"
    BY VisitFacts DEF Visits
  <2> QED
    BY <2>1, <2>2 DEF Frame
<1>5. OpensScope(frame) <=> ~pre_enter_scope
  BY <1>1, <1>4 DEF OpensScope
<1> HIDE DEF frame
<1>6. /\ stack' # <<>> /\ Scopes(stack) \in Nat
      /\ OpensScope(frame) => Scopes(stack') = Scopes(stack) + 1
      /\ ~OpensScope(frame) => Scopes(stack') = Scopes(stack)
  BY <1>1, <1>3, <1>4, ScopesFacts
<1>7. depth = 2 + Scopes(stack)
  BY <1>1, <1>6 DEF Scoping, ScopesBalanced
<1>8. depth' = 2 + Scopes(stack')
  BY <1>1, <1>5, <1>6, <1>7
<1>9. pre_enter_scope' \in BOOLEAN
  BY <1>1
<1>10. ScopesBalanced'
  BY <1>6, <1>8 DEF ScopesBalanced, Scopes
<1> QED
  BY <1>2, <1>9, <1>10 DEF Scoping

LEMMA LeaveCompoundStmtScoping ==
  ASSUME Inv, Scoping, LeaveCompoundStmt
  PROVE  Scoping'
<1>1. /\ stack # <<>> /\ Top.visit \in {"declarations", "statements"}
      /\ stack' = Leave
      /\ depth' = IF Top.flag THEN depth - 1 ELSE depth
      /\ pre_enter_scope' = pre_enter_scope /\ nodes' = nodes
  BY DEF LeaveCompoundStmt, InVisit, ExitScope
<1>2. OpensScope(Top) <=> Top.flag
  BY <1>1 DEF OpensScope
<1>3. /\ stack' # <<>> /\ Scopes(stack') \in Nat
      /\ OpensScope(Top) => Scopes(stack) = Scopes(stack') + 1
      /\ ~OpensScope(Top) => Scopes(stack) = Scopes(stack')
  BY <1>1, ScopesFacts
<1>4. depth = 2 + Scopes(stack)
  BY <1>1, <1>3 DEF Scoping, ScopesBalanced
<1>5. depth' = 2 + Scopes(stack')
  BY <1>1, <1>2, <1>3, <1>4
<1> QED
  BY <1>1, <1>3, <1>5 DEF Scoping, ScopesBalanced, Scopes

LEMMA NextStatementScoping ==
  ASSUME Inv, Scoping, NextStatement
  PROVE  Scoping'
<1> DEFINE frame == [Top EXCEPT !.visit = "statements"]
           child == Visit("statement")
<1>1. /\ stack # <<>> /\ Top.visit \in {"declarations", "statements"}
      /\ stack' = Append(Become(frame), child) /\ depth' = depth
      /\ pre_enter_scope' = pre_enter_scope /\ nodes' = nodes
  BY DEF NextStatement, InVisit
<1>2. frame \in Frame /\ (OpensScope(frame) <=> OpensScope(Top))
  <2>1. Top \in Frame
    BY <1>1, TopFacts
  <2> QED
    BY <1>1, <2>1 DEF Frame, Visits, OpensScope
<1>3. child \in Frame /\ ~OpensScope(child)
  BY VisitFacts DEF Visits, OpensScope
<1> HIDE DEF frame, child
<1>4. stack' # <<>> /\ Scopes(stack') = Scopes(stack)
  BY <1>1, <1>2, <1>3, ScopesFacts
<1> QED
  BY <1>1, <1>4 DEF Scoping, ScopesBalanced, Scopes

\* The visits that have nothing to do with scopes.
LEMMA OtherScoping ==
  ASSUME Inv, Scoping,
         \/ ExpressionStmt \/ EndExpression \/ SelectionStmt \/ BranchSelection
         \/ EndThen \/ EndElse \/ IterationStmt \/ BranchIteration \/ EndWhile
         \/ ReturnStmt \/ EndReturnStmt
  PROVE  Scoping'
<1> DEFINE Quiet == {"statement", "expression", "selection", "then", "else",
                     "iteration", "while", "return"}
<1>1. /\ stack # <<>> /\ Top.visit \in Quiet
      /\ depth' = depth /\ pre_enter_scope' = pre_enter_scope
      /\ nodes' = nodes \/ nodes' = nodes + 1
  BY DEF ExpressionStmt, EndExpression, SelectionStmt, BranchSelection, EndThen,
         EndElse, IterationStmt, BranchIteration, EndWhile, ReturnStmt,
         EndReturnStmt, InVisit, TakeNode
<1>2. /\ Top \in Frame /\ ~OpensScope(Top) /\ Top.visit # "function"
      /\ nodes' \in Nat
  BY <1>1, TopFacts, NoScopeFacts DEF Scoping
<1> DEFINE Plainly == {frame \in Frame : frame.visit \in Quiet}
<1>3. \A v \in Quiet : Visit(v) \in Plainly
  BY VisitFacts DEF Visits
<1>4. \A frame \in Plainly : frame \in Frame /\ ~OpensScope(frame)
  BY NoScopeFacts
<1> SUFFICES \/ stack' = Leave
             \/ \E frame \in Plainly : stack' = Become(frame)
             \/ \E frame, child \in Plainly : stack' = Append(Become(frame), child)
  <2> HIDE DEF Plainly, Quiet
  <2> QED
    BY <1>1, <1>2, <1>4, SameScopes
<1>5. CASE EndExpression \/ EndElse \/ EndWhile \/ EndReturnStmt
  BY <1>5 DEF EndExpression, EndElse, EndWhile, EndReturnStmt
<1>6. CASE ExpressionStmt
  BY <1>6, <1>3 DEF ExpressionStmt
<1>7. CASE ReturnStmt
  <2> HIDE DEF Plainly
  <2>1. Visit("return") \in Plainly /\ Visit("expression") \in Plainly
    BY <1>3
  <2> QED
    BY <1>7, <2>1 DEF ReturnStmt
<1>8. CASE SelectionStmt
  <2> PICK hasElse \in BOOLEAN :
        stack' = Append(Become([Visit("selection") EXCEPT !.flag = hasElse]), Visit("expression"))
    BY <1>8 DEF SelectionStmt
  <2>1. [Visit("selection") EXCEPT !.flag = hasElse] \in Plainly
    BY <1>3 DEF Frame
  <2> QED
    BY <1>3, <2>1
<1>9. CASE BranchSelection
  <2> DEFINE frame == [Top EXCEPT !.visit = "then", !.other = fn.made + 2, !.cont = fn.made + 3]
  <2>1. stack' = Append(Become(frame), Visit("statement"))
    BY <1>9 DEF BranchSelection
  <2>2. frame \in Plainly
    <3>1. fn.made \in Nat
      BY <1>1, TopFacts DEF WellFormed, FunctionType
    <3>2. fn.made + 2 \in Nat /\ fn.made + 3 \in Nat
      BY <3>1
    <3> QED
      BY <1>2, <3>2 DEF Frame, Visits
  <2> QED
    BY <1>3, <2>1, <2>2
<1>10. CASE EndThen
  <2>1. [Top EXCEPT !.visit = "else"] \in Plainly
    BY <1>2 DEF Frame, Visits
  <2> QED
    BY <1>3, <1>10, <2>1 DEF EndThen
<1>11. CASE IterationStmt
  <2> DEFINE frame == [Visit("iteration") EXCEPT !.other = fn.made + 1]
  <2>1. stack' = Append(Become(frame), Visit("expression"))
    BY <1>11 DEF IterationStmt
  <2>2. frame \in Plainly
    <3>1. fn.made \in Nat
      BY <1>1, TopFacts DEF WellFormed, FunctionType
    <3>2. fn.made + 1 \in Nat
      BY <3>1
    <3> QED
      BY <1>3, <3>2 DEF Frame
  <2> QED
    BY <1>3, <2>1, <2>2
<1>12. CASE BranchIteration
  <2> DEFINE frame == [Top EXCEPT !.visit = "while", !.cont = fn.made + 2]
  <2>1. stack' = Append(Become(frame), Visit("statement"))
    BY <1>12 DEF BranchIteration
  <2>2. frame \in Plainly
    <3>1. fn.made \in Nat
      BY <1>1, TopFacts DEF WellFormed, FunctionType
    <3>2. fn.made + 2 \in Nat
      BY <3>1
    <3> QED
      BY <1>2, <3>2 DEF Frame, Visits
  <2> QED
    BY <1>3, <2>1, <2>2
<1> QED
  BY <1>5, <1>6, <1>7, <1>8, <1>9, <1>10, <1>11, <1>12

LEMMA SameStackScoping ==
  ASSUME Scoping, LocalDeclaration \/ EmitSegment \/ IndexedVar
  PROVE  Scoping'
<1>1. /\ stack' = stack /\ depth' = depth /\ pre_enter_scope' = pre_enter_scope
      /\ nodes' = nodes + 1
  BY DEF LocalDeclaration, EmitSegment, IndexedVar, TakeNode
<1> QED
  BY <1>1 DEF Scoping, ScopesBalanced, Scopes

-----------------------------------------------------------------------------
(* The entry block.                                                        *)

PastEntry(frame) == frame.other # Entry /\ frame.cont # Entry

EntryFirst(f) == Entry \in f.blocks /\ f.pre[Entry] = <<>>

EntryInv ==
  /\ fn # NoFunction => EntryFirst(fn)
  /\ \A i \in DOMAIN stack : PastEntry(stack[i])

\* The stack after a visit function returned, went on or called another.
LEMMA FramesPast ==
  ASSUME NEW s \in Seq(Frame), s # <<>>, \A i \in DOMAIN s : PastEntry(s[i]),
         NEW frame \in Frame, PastEntry(frame), NEW child \in Frame, PastEntry(child)
  PROVE  LET leave == SubSeq(s, 1, Len(s) - 1)
             become == [s EXCEPT ![Len(s)] = frame]
             call == Append(become, child)
         IN  /\ \A i \in DOMAIN leave : PastEntry(leave[i])
             /\ \A i \in DOMAIN become : PastEntry(become[i])
             /\ \A i \in DOMAIN call : PastEntry(call[i])
<1> DEFINE leave == SubSeq(s, 1, Len(s) - 1)
           become == [s EXCEPT ![Len(s)] = frame]
           call == Append(become, child)
<1>1. /\ leave \in Seq(Frame) /\ Len(s) \in Nat \ {0} /\ DOMAIN s = 1 .. Len(s)
      /\ Len(leave) = Len(s) - 1 /\ DOMAIN leave = 1 .. Len(s) - 1
      /\ \A i \in 1 .. Len(s) - 1 : leave[i] = s[i]
  BY LeaveFacts
<1>2. become = Append(leave, frame)
  BY BecomeIsPush
<1> HIDE DEF leave, become
<1>3. \A i \in DOMAIN leave : i \in DOMAIN s /\ leave[i] = s[i]
  BY <1>1
<1>4. \A i \in DOMAIN leave : PastEntry(leave[i])
  BY <1>3
<1>5. ASSUME NEW r \in Seq(Frame), NEW x \in Frame, PastEntry(x),
             \A i \in DOMAIN r : PastEntry(r[i])
      PROVE  /\ Append(r, x) \in Seq(Frame)
             /\ \A i \in DOMAIN Append(r, x) : PastEntry(Append(r, x)[i])
  <2> DEFINE t == Append(r, x)
  <2>1. /\ t \in Seq(Frame) /\ DOMAIN t = 1 .. Len(r) + 1 /\ DOMAIN r = 1 .. Len(r)
        /\ Len(r) \in Nat /\ \A i \in 1 .. Len(r) : t[i] = r[i]
        /\ t[Len(r) + 1] = x
    BY PushFacts
  <2> HIDE DEF t
  <2>2. \A i \in DOMAIN t : i = Len(r) + 1 \/ i \in 1 .. Len(r)
    BY <2>1
  <2>3. \A i \in DOMAIN t : PastEntry(t[i])
    BY <1>5, <2>1, <2>2
  <2> QED BY <2>1, <2>3 DEF t
<1>6. become \in Seq(Frame) /\ \A i \in DOMAIN become : PastEntry(become[i])
  BY <1>1, <1>2, <1>4, <1>5
<1>7. \A i \in DOMAIN call : PastEntry(call[i])
  BY <1>5, <1>6
<1> QED BY <1>4, <1>6, <1>7 DEF leave, become

LEMMA VisitPastEntry == \A v : PastEntry(Visit(v))
BY DEF PastEntry, Visit, Entry

\* A step of the visitor changes its stack in one of four ways.
LEMMA StackPast ==
  ASSUME Inv, EntryInv, stack # <<>>,
         \/ stack' = stack
         \/ stack' = Leave
         \/ \E frame \in Frame : PastEntry(frame) /\ stack' = Become(frame)
         \/ \E frame, child \in Frame :
              PastEntry(frame) /\ PastEntry(child) /\ stack' = Append(Become(frame), child)
  PROVE  \A i \in DOMAIN stack' : PastEntry(stack'[i])
<1>1. stack \in Seq(Frame) /\ \A i \in DOMAIN stack : PastEntry(stack[i])
  BY TopFacts DEF EntryInv
<1>2. Visit("body") \in Frame /\ PastEntry(Visit("body"))
  BY VisitFacts, VisitPastEntry DEF Visits
<1>3. CASE stack' = stack
  BY <1>1, <1>3
<1>4. CASE stack' = Leave
  BY <1>1, <1>2, <1>4, FramesPast DEF Leave
<1>5. CASE \E frame \in Frame : PastEntry(frame) /\ stack' = Become(frame)
  BY <1>1, <1>2, <1>5, FramesPast DEF Become
<1>6. CASE \E frame, child \in Frame :
             PastEntry(frame) /\ PastEntry(child) /\ stack' = Append(Become(frame), child)
  BY <1>1, <1>6, FramesPast DEF Become
<1> QED BY <1>3, <1>4, <1>5, <1>6

\* The entry stays first while nothing gives it a predecessor.
LEMMA EntryStays ==
  ASSUME NEW f, WellFormed(f), EntryFirst(f), NEW g, NEW B, SamePre(f, g, B),
         Entry \notin B, Entry \in g.blocks
  PROVE  EntryFirst(g)
<1>1. Entry \in 1 .. f.made
  BY DEF EntryFirst, WellFormed, FunctionType
<1> QED BY <1>1 DEF EntryFirst, SamePre

\* What holds of the entry and the top frame inside a visit.
LEMMA EntryFacts ==
  ASSUME Inv, EntryInv, stack # <<>>
  PROVE  /\ WellFormed(fn) /\ EntryFirst(fn) /\ Entry \in fn.blocks /\ insert \in fn.blocks
         /\ Top \in Frame /\ PastEntry(Top) /\ stack \in Seq(Frame)
         /\ fn.made \in Nat /\ fn.made >= 1
         /\ Top.visit \in Emitting => insert \in Open(fn)
<1>1. /\ WellFormed(fn) /\ insert \in fn.blocks /\ Top \in Frame /\ stack \in Seq(Frame)
      /\ Top.visit \in Emitting => insert \in Open(fn)
  BY TopFacts
<1>2. fn # NoFunction
  BY <1>1 DEF NoFunction
<1>3. EntryFirst(fn) /\ Entry \in fn.blocks
  BY <1>2 DEF EntryInv, EntryFirst
<1>4. fn.made \in Nat /\ fn.blocks \subseteq 1 .. fn.made
  BY <1>1 DEF WellFormed, FunctionType
<1>5. fn.made >= 1
  BY <1>3, <1>4 DEF Entry
<1>6. Len(stack) \in DOMAIN stack
  BY <1>1
<1>7. PastEntry(Top)
  BY <1>6 DEF EntryInv, Top
<1> QED BY <1>1, <1>3, <1>4, <1>5, <1>7

LEMMA FunDeclarationEntry ==
  ASSUME BuilderAssumption, FunDeclaration
  PROVE  EntryInv'
<1> PICK prologue \in Prologues : fn' = AddInstrs(CreateBlock(NoFunction), Entry, prologue)
  BY DEF FunDeclaration
<1> DEFINE h == CreateBlock(NoFunction)
           g == AddInstrs(h, 1, prologue)
<1>1. WellFormed(h) /\ h.blocks = {1} /\ Open(h) = {1} /\ h.pre[1] = <<>>
  <2>1. NoFunction.made = 0 /\ NoFunction.blocks = {} /\ 0 + 1 = 1
    BY DEF NoFunction
  <2> QED BY <2>1, EmptyFunction, NewBlockFacts
<1>2. prologue \in Seq(Straight)
  BY DEF BuilderAssumption, Straight
<1>3. EntryFirst(h) /\ fn' = g
  BY <1>1 DEF EntryFirst, Entry
<1> HIDE DEF h
<1>4. g.blocks = {1} /\ SamePre(h, g, {})
  BY <1>1, <1>2, EmitFacts
<1> HIDE DEF g
<1>5. EntryFirst(fn')
  BY <1>1, <1>3, <1>4, EntryStays DEF Entry
<1>6. stack' = <<Visit("function"), Visit("body")>>
  BY DEF FunDeclaration
<1>7. \A i \in DOMAIN stack' : PastEntry(stack'[i])
  BY <1>6, VisitPastEntry
<1> QED BY <1>5, <1>7 DEF EntryInv

\* The steps that leave the graph alone.
LEMMA QuietEntry ==
  ASSUME Inv, EntryInv, pre_enter_scope \in BOOLEAN,
         \/ EnterCompoundStmt \/ NextStatement \/ LeaveCompoundStmt \/ ExpressionStmt
         \/ EndExpression \/ SelectionStmt
  PROVE  EntryInv'
<1>1. stack # <<>> /\ fn' = fn
  BY DEF EnterCompoundStmt, NextStatement, LeaveCompoundStmt, ExpressionStmt, EndExpression,
         SelectionStmt, InVisit
<1>2. \A v \in Visits : Visit(v) \in Frame /\ PastEntry(Visit(v))
  BY VisitFacts, VisitPastEntry
<1>3. \A v \in Visits : \A flag \in BOOLEAN :
        [Visit(v) EXCEPT !.flag = flag] \in Frame /\ PastEntry([Visit(v) EXCEPT !.flag = flag])
  BY <1>2 DEF Frame, PastEntry
<1>4. [Top EXCEPT !.visit = "statements"] \in Frame /\ PastEntry([Top EXCEPT !.visit = "statements"])
  <2>1. Top \in Frame /\ PastEntry(Top)
    BY <1>1, EntryFacts
  <2> QED BY <2>1 DEF Frame, Visits, PastEntry
<1>5. /\ "declarations" \in Visits /\ "statement" \in Visits /\ "expression" \in Visits
      /\ "selection" \in Visits /\ (~pre_enter_scope) \in BOOLEAN
  BY DEF Visits
<1>6. \A i \in DOMAIN stack' : PastEntry(stack'[i])
  <2>1. CASE EnterCompoundStmt
    BY <2>1, <1>1, <1>3, <1>5, StackPast DEF EnterCompoundStmt
  <2>2. CASE NextStatement
    BY <2>2, <1>1, <1>2, <1>4, <1>5, StackPast DEF NextStatement
  <2>3. CASE LeaveCompoundStmt \/ EndExpression
    BY <2>3, <1>1, StackPast DEF LeaveCompoundStmt, EndExpression
  <2>4. CASE ExpressionStmt
    BY <2>4, <1>1, <1>2, <1>5, StackPast DEF ExpressionStmt
  <2>5. CASE SelectionStmt
    <3> PICK hasElse \in BOOLEAN :
          stack' = Append(Become([Visit("selection") EXCEPT !.flag = hasElse]), Visit("expression"))
      BY <2>5 DEF SelectionStmt
    <3> QED BY <1>1, <1>2, <1>3, <1>5, StackPast
  <2> QED BY <2>1, <2>2, <2>3, <2>4, <2>5
<1> QED BY <1>1, <1>6 DEF EntryInv

\* The steps that append to blocks without a jump to an old block.
LEMMA EmittingEntry ==
  ASSUME BuilderAssumption, Inv, EntryInv,
         \/ EndFunDeclaration \/ LocalDeclaration \/ EmitSegment \/ IndexedVar
         \/ ReturnStmt \/ EndReturnStmt
  PROVE  EntryInv'
<1>1. /\ stack # <<>>
      /\ EndFunDeclaration \/ Top.visit \in Emitting
  BY DEF EndFunDeclaration, LocalDeclaration, EmitSegment, IndexedVar, ReturnStmt,
         EndReturnStmt, InVisit, Emitting
<1>2. /\ WellFormed(fn) /\ EntryFirst(fn) /\ Entry \in fn.blocks /\ insert \in fn.blocks
      /\ EndFunDeclaration \/ insert \in Open(fn)
  BY <1>1, EntryFacts
<1>3. SamePre(fn, fn', {}) /\ Entry \in fn'.blocks
  <2>1. CASE EndFunDeclaration
    BY <2>1, <1>2, DefaultRetFacts DEF EndFunDeclaration
  <2>2. CASE ~EndFunDeclaration /\ LocalDeclaration
    BY <2>2, <1>2, EmitOneFacts DEF LocalDeclaration
  <2>3. CASE ~EndFunDeclaration /\ EmitSegment
    <3> PICK segment \in Segments : fn' = AddInstrs(fn, insert, segment)
      BY <2>3 DEF EmitSegment
    <3>1. segment \in Seq(Straight)
      BY DEF BuilderAssumption, Straight
    <3> QED BY <3>1, <2>3, <1>2, EmitFacts
  <2>4. CASE ~EndFunDeclaration /\ IndexedVar
    BY <2>4, <1>2, IndexFacts DEF IndexedVar
  <2>5. CASE ~EndFunDeclaration /\ ReturnStmt
    BY <2>5, <1>2, RetFacts, KeepsItself DEF ReturnStmt
  <2>6. CASE ~EndFunDeclaration /\ EndReturnStmt
    BY <2>6, <1>2, RetFacts DEF EndReturnStmt
  <2> QED BY <2>1, <2>2, <2>3, <2>4, <2>5, <2>6
<1>4. EntryFirst(fn')
  BY <1>2, <1>3, EntryStays
<1>5. \A i \in DOMAIN stack' : PastEntry(stack'[i])
  <2>1. /\ Visit("return") \in Frame /\ PastEntry(Visit("return"))
        /\ Visit("expression") \in Frame /\ PastEntry(Visit("expression"))
    BY VisitFacts, VisitPastEntry DEF Visits
  <2>2. CASE LocalDeclaration \/ EmitSegment \/ IndexedVar
    BY <2>2, <1>1, StackPast DEF LocalDeclaration, EmitSegment, IndexedVar
  <2>3. CASE EndFunDeclaration \/ EndReturnStmt
    BY <2>3, <1>1, StackPast DEF EndFunDeclaration, EndReturnStmt
  <2>4. CASE ReturnStmt
    BY <2>4, <2>1, <1>1, StackPast DEF ReturnStmt
  <2> QED BY <2>2, <2>3, <2>4
<1> QED BY <1>4, <1>5 DEF EntryInv

\* The steps that make new blocks and branch to them.
LEMMA BranchingEntry ==
  ASSUME Inv, EntryInv, BranchSelection \/ IterationStmt \/ BranchIteration
  PROVE  EntryInv'
<1> DEFINE m == fn.made
<1>1. stack # <<>> /\ Top.visit \in Emitting
  BY DEF BranchSelection, IterationStmt, BranchIteration, InVisit, Emitting
<1>2. /\ WellFormed(fn) /\ EntryFirst(fn) /\ Entry \in fn.blocks /\ insert \in fn.blocks
      /\ insert \in Open(fn) /\ Top \in Frame /\ PastEntry(Top)
      /\ m \in Nat /\ m >= 1
  BY <1>1, EntryFacts
<1>3. m + 1 # Entry /\ m + 2 # Entry /\ m + 3 # Entry /\ 0 # Entry
      /\ m + 1 \in Nat /\ m + 2 \in Nat /\ m + 3 \in Nat
  BY <1>2 DEF Entry
<1>4. /\ Visit("statement") \in Frame /\ PastEntry(Visit("statement"))
      /\ Visit("expression") \in Frame /\ PastEntry(Visit("expression"))
      /\ Visit("iteration") \in Frame /\ PastEntry(Visit("iteration"))
  BY VisitFacts, VisitPastEntry DEF Visits
<1>5. CASE BranchSelection
  <2> DEFINE e == IF Top.flag THEN m + 2 ELSE m + 3
             frame == [Top EXCEPT !.visit = "then", !.other = m + 2, !.cont = m + 3]
             f1 == CreateBlock(CreateBlock(CreateBlock(fn)))
             g == CreateCondBr(AddInstr(f1, insert, Plain("icmp")), insert, m + 1, e)
  <2>1. fn' = g /\ stack' = Append(Become(frame), Visit("statement"))
    BY <1>5 DEF BranchSelection
  <2>2. e \in {m + 2, m + 3}
    OBVIOUS
  <2> HIDE DEF e
  <2>3. SamePre(fn, g, {}) /\ Entry \in g.blocks
    BY <1>2, <2>2, SelectFacts
  <2>4. frame \in Frame /\ PastEntry(frame)
    BY <1>2, <1>3 DEF Frame, Visits, PastEntry
  <2> HIDE DEF g, frame
  <2>5. EntryFirst(fn')
    BY <1>2, <2>1, <2>3, EntryStays
  <2>6. \A i \in DOMAIN stack' : PastEntry(stack'[i])
    BY <1>1, <1>4, <2>1, <2>4, StackPast
  <2> QED BY <2>5, <2>6 DEF EntryInv
<1>6. CASE IterationStmt
  <2> DEFINE x == m + 1
             f1 == CreateBlock(fn)
             g == BrIfOpen(f1, insert, x)
             frame == [Visit("iteration") EXCEPT !.other = x]
  <2>1. fn' = g /\ stack' = Append(Become(frame), Visit("expression"))
    BY <1>6 DEF IterationStmt
  <2>2. WellFormed(f1) /\ f1.blocks = fn.blocks \cup {x} /\ SamePre(fn, f1, {})
    BY <1>2, NewBlockFacts
  <2> HIDE DEF f1
  <2>3. EntryFirst(f1)
    BY <1>2, <2>2, EntryStays
  <2>4. g.blocks = f1.blocks /\ SamePre(f1, g, {x})
    <3>1. insert \in f1.blocks /\ x \in f1.blocks
      BY <1>2, <2>2
    <3> HIDE DEF x
    <3> QED BY <2>2, <3>1, BrIfOpenFacts
  <2>5. frame \in Frame /\ PastEntry(frame)
    BY <1>3, <1>4 DEF Frame, Visits, PastEntry
  <2> HIDE DEF g, frame
  <2>6. EntryFirst(fn')
    BY <1>2, <1>3, <2>1, <2>2, <2>3, <2>4, EntryStays
  <2>7. \A i \in DOMAIN stack' : PastEntry(stack'[i])
    BY <1>1, <1>4, <2>1, <2>5, StackPast
  <2> QED BY <2>6, <2>7 DEF EntryInv
<1>7. CASE BranchIteration
  <2> DEFINE f1 == AddInstr(CreateBlock(CreateBlock(fn)), insert, Plain("icmp"))
             g == CreateCondBr(f1, insert, m + 1, m + 2)
             frame == [Top EXCEPT !.visit = "while", !.cont = m + 2]
  <2>1. fn' = g /\ stack' = Append(Become(frame), Visit("statement"))
    BY <1>7 DEF BranchIteration
  <2>2. SamePre(fn, g, {}) /\ Entry \in g.blocks
    BY <1>2, LoopFacts
  <2>3. frame \in Frame /\ PastEntry(frame)
    BY <1>2, <1>3 DEF Frame, Visits, PastEntry
  <2> HIDE DEF g, frame
  <2>4. EntryFirst(fn')
    BY <1>2, <2>1, <2>2, EntryStays
  <2>5. \A i \in DOMAIN stack' : PastEntry(stack'[i])
    BY <1>1, <1>4, <2>1, <2>3, StackPast
  <2> QED BY <2>4, <2>5 DEF EntryInv
<1> QED BY <1>5, <1>6, <1>7

\* The steps that jump to a block a visit remembers.
LEMMA JoiningEntry ==
  ASSUME Inv, EntryInv, EndThen \/ EndElse \/ EndWhile
  PROVE  EntryInv'
<1> DEFINE x == Top.other
           c == Top.cont
<1>1. stack # <<>> /\ Top.visit \in {"then", "else", "while"}
  BY DEF EndThen, EndElse, EndWhile, InVisit
<1>2. /\ WellFormed(fn) /\ EntryFirst(fn) /\ Entry \in fn.blocks /\ insert \in fn.blocks
      /\ Top \in Frame /\ x # Entry /\ c # Entry
  BY <1>1, EntryFacts DEF PastEntry
<1>3. /\ Visit("statement") \in Frame /\ PastEntry(Visit("statement"))
      /\ [Top EXCEPT !.visit = "else"] \in Frame /\ PastEntry([Top EXCEPT !.visit = "else"])
  <2>1. Visit("statement") \in Frame /\ PastEntry(Visit("statement"))
    BY VisitFacts, VisitPastEntry DEF Visits
  <2>2. Top \in Frame /\ PastEntry(Top)
    BY <1>1, EntryFacts
  <2> QED BY <2>1, <2>2 DEF Frame, Visits, PastEntry
<1>4. \A i \in DOMAIN stack' : PastEntry(stack'[i])
  BY <1>1, <1>3, StackPast DEF EndThen, EndElse, EndWhile
<1>5. c \in PendingOf(Top) /\ (Top.visit = "then" => x \in PendingOf(Top))
      /\ (Top.visit = "while" => x \in HeadOf(Top))
  BY <1>1 DEF PendingOf, HeadOf
<1>6. /\ c \in fn.blocks /\ c \in Open(fn) \ {insert}
      /\ Top.visit = "then" => x \in Open(fn) \ {insert} /\ x \in fn.blocks
      /\ Top.visit = "while" => x \in fn.blocks
      /\ ThenFrame(Top, fn) /\ fn.blocks \subseteq 1 .. fn.made
  BY <1>1, <1>5, PendingTop
<1> HIDE DEF x, c
<1>7. ASSUME NEW t \in fn.blocks, t # Entry
      PROVE  LET g == BrIfOpen(fn, insert, t)
             IN  /\ EntryFirst(g) /\ WellFormed(g) /\ SamePre(fn, g, {t})
                 /\ Open(g) = Open(fn) \ {insert} /\ g.blocks = fn.blocks
  <2> DEFINE g == BrIfOpen(fn, insert, t)
  <2>1. /\ WellFormed(g) /\ SamePre(fn, g, {t}) /\ g.blocks = fn.blocks
        /\ Open(g) = Open(fn) \ {insert}
    BY <1>2, <1>7, BrIfOpenFacts
  <2> HIDE DEF g
  <2>2. EntryFirst(g)
    BY <1>2, <1>7, <2>1, EntryStays
  <2> QED BY <2>1, <2>2 DEF g
<1>8. EntryFirst(fn')
  <2>1. CASE EndElse
    BY <2>1, <1>2, <1>6, <1>7 DEF EndElse, c
  <2>2. CASE EndWhile
    <3>1. fn' = BrIfOpen(fn, insert, x) /\ Top.visit = "while"
      BY <2>2 DEF EndWhile, InVisit, LoopHead, x
    <3> QED BY <3>1, <1>2, <1>6, <1>7
  <2>3. CASE EndThen
    <3> DEFINE f1 == BrIfOpen(fn, insert, c)
               g == EraseBlock(f1, x)
    <3>1. /\ Top.visit = "then"
          /\ Top.flag => fn' = f1
          /\ ~Top.flag => fn' = g
      BY <2>3 DEF EndThen, InVisit, DropFalseBB, x, c
    <3>2. /\ EntryFirst(f1) /\ WellFormed(f1) /\ SamePre(fn, f1, {c})
          /\ Open(f1) = Open(fn) \ {insert} /\ f1.blocks = fn.blocks
      BY <1>2, <1>6, <1>7
    <3> HIDE DEF f1
    <3>3. ASSUME ~Top.flag PROVE EntryFirst(g)
      <4>1. x # c /\ fn.pre[x] = <<>>
        BY <1>6, <3>1, <3>3 DEF ThenFrame, x, c
      <4>2. x \in Open(f1) /\ f1.pre[x] = <<>>
        BY <1>6, <3>1, <3>2, <4>1 DEF SamePre
      <4>3. g.blocks = f1.blocks \ {x} /\ SamePre(f1, g, {})
        BY <3>2, <4>2, EraseBlockFacts
      <4>4. Entry \in g.blocks
        BY <1>2, <3>2, <4>3
      <4> HIDE DEF g
      <4> QED BY <3>2, <4>3, <4>4, EntryStays
    <3> QED BY <1>2, <3>1, <3>2, <3>3 DEF Frame
  <2> QED BY <2>1, <2>2, <2>3
<1> QED BY <1>4, <1>8 DEF EntryInv

LEMMA BuilderStepEntry ==
  ASSUME BuilderAssumption, Inv, Scoping, EntryInv, BuilderStep
  PROVE  EntryInv'
<1>1. pre_enter_scope \in BOOLEAN
  BY DEF Scoping
<1> QED
  BY <1>1, FunDeclarationEntry, QuietEntry, EmittingEntry, BranchingEntry, JoiningEntry
     DEF BuilderStep

-----------------------------------------------------------------------------
(* The loops are structured.  Two witnesses say how the blocks lie: D[b]   *)
(* is a set of blocks that every path to b passes, and rank numbers the    *)
(* blocks in the order in which the visitor goes through them.             *)

\* An if with two equal branches does not occur.
Forks(list) ==
  \/ list = <<>>
  \/ \E t \in Nat : list = <<t>>
  \/ \E t, e \in Nat : t # e /\ list = <<t, e>>

\* An edge from b to c leaves every block that c requires behind it: c lies
\* ahead, or b is inside the loop of c.
EdgeLaid(D, rank, b, c) ==
  /\ c # b /\ D[c] \ {c} \subseteq D[b]
  /\ rank[b] < rank[c] \/ c \in D[b]

\* c is one of two targets of a jump.
BranchedTo(f, c) ==
  \E b \in f.blocks \ Open(f) : c \in Range(TargetsOf(f, b)) /\ TargetsOf(f, b) # <<c>>

\* A block that is jumped back to is no branch of a condition.
GraphLaid(f, ins, D, rank) ==
  /\ D \in [Nat -> SUBSET Nat] /\ rank \in [Nat -> Nat]
  /\ D[Entry] = {Entry}
  /\ \A b \in f.blocks : b \in D[b]
  /\ \A b \in f.blocks \ Open(f) :
        /\ rank[b] <= rank[ins]
        /\ Forks(TargetsOf(f, b))
        /\ \A c \in Range(TargetsOf(f, b)) :
              EdgeLaid(D, rank, b, c) /\ (rank[b] < rank[c] \/ ~BranchedTo(f, c))

\* The blocks a visit remembers lie around a block whose set is k.
Around(frame, D, k) ==
  /\ \A p \in PendingOf(frame) : D[p] \ {p} \subseteq k
  /\ \A h \in HeadOf(frame) : D[h] \subseteq k

FrameLaid(frame, D, k, f) ==
  /\ Around(frame, D, k)
  /\ frame.visit = "then" => D[frame.cont] \ {frame.cont} \subseteq D[frame.other]
  /\ frame.visit = "while" => frame.other \notin Open(f) /\ D[frame.other] \subseteq D[frame.cont]
  /\ \A h \in HeadOf(frame) : ~BranchedTo(f, h)

StackLaid(s, D, k, f) ==
  /\ \A i \in DOMAIN s : FrameLaid(s[i], D, k, f)
  /\ \A i, j \in DOMAIN s : \A q \in PendingOf(s[j]) : i < j => Around(s[i], D, D[q])

LaidOf(f, ins, s) ==
  \E D, rank : GraphLaid(f, ins, D, rank) /\ StackLaid(s, D, D[ins], f)

Laid == fn # NoFunction => LaidOf(fn, insert, stack)

\* New blocks come under the insert block, and everything still open comes after it.
Under(f, ins, D) == [n \in Nat |-> IF n \in f.blocks THEN D[n] ELSE D[ins] \cup {n}]
Later(f, ins, rank) ==
  [n \in Nat |-> IF n = ins \/ n \in f.blocks \ Open(f) THEN rank[n] ELSE rank[ins] + 1]

LEMMA ForksFacts ==
  /\ Forks(<<>>) /\ Range(<<>>) = {}
  /\ \A t \in Nat : Forks(<<t>>) /\ Range(<<t>>) = {t}
  /\ \A t, e \in Nat : (t # e => Forks(<<t, e>>)) /\ Range(<<t, e>>) = {t, e}
<1>1. Range(<<>>) = {}
  BY DEF Range
<1>2. ASSUME NEW t \in Nat PROVE Forks(<<t>>) /\ Range(<<t>>) = {t}
  BY DEF Forks, Range
<1>3. ASSUME NEW t \in Nat, NEW e \in Nat
      PROVE (t # e => Forks(<<t, e>>)) /\ Range(<<t, e>>) = {t, e}
  <2>1. DOMAIN <<t, e>> = {1, 2} /\ <<t, e>>[1] = t /\ <<t, e>>[2] = e
    OBVIOUS
  <2>2. Range(<<t, e>>) = {t, e}
    BY <2>1 DEF Range
  <2> QED BY <2>2 DEF Forks
<1> QED BY <1>1, <1>2, <1>3 DEF Forks

\* A jump to an old block is no branch.
LEMMA BranchesKept ==
  ASSUME NEW f, WellFormed(f), NEW ins \in f.blocks,
         NEW g, Keeps(f, g),
         \A b \in g.blocks \ Open(g) :
            \/ b = ins
            \/ b \in f.blocks \ Open(f)
            \/ TargetsOf(g, b) = <<>>,
         ins \in Open(f) /\ ins \notin Open(g) =>
            \A c \in Range(TargetsOf(g, ins)) :
               c \in Nat \ f.blocks \/ TargetsOf(g, ins) = <<c>>
  PROVE  \A n \in f.blocks : BranchedTo(g, n) => BranchedTo(f, n)
<1> SUFFICES ASSUME NEW n \in f.blocks, BranchedTo(g, n) PROVE BranchedTo(f, n)
  OBVIOUS
<1>1. PICK b \in g.blocks \ Open(g) : n \in Range(TargetsOf(g, b)) /\ TargetsOf(g, b) # <<n>>
  BY DEF BranchedTo
<1>2. b \in f.blocks \ Open(f)
  BY <1>1, ForksFacts
<1>3. TargetsOf(g, b) = TargetsOf(f, b)
  BY <1>2, ClosedTargets
<1> QED BY <1>1, <1>2, <1>3 DEF BranchedTo

\* One step on the graph.
LEMMA GraphGrows ==
  ASSUME NEW f, WellFormed(f), NEW ins \in f.blocks, Entry \in f.blocks,
         NEW D, NEW rank, GraphLaid(f, ins, D, rank),
         NEW g, WellFormed(g), Keeps(f, g), NEW into \in g.blocks,
         into = ins \/ into \in Open(f) \/ into \notin f.blocks,
         \A b \in g.blocks \ Open(g) :
            \/ b = ins
            \/ b \in f.blocks \ Open(f)
            \/ into # ins /\ TargetsOf(g, b) = <<>>,
         ins \in Open(f) /\ ins \notin Open(g) =>
            /\ Forks(TargetsOf(g, ins))
            /\ \A c \in Range(TargetsOf(g, ins)) :
                 \/ c \in Nat \ f.blocks
                 \/ /\ c \in f.blocks /\ c # ins /\ D[c] \ {c} \subseteq D[ins]
                    /\ TargetsOf(g, ins) = <<c>>
                    /\ (c \in D[ins] /\ ~BranchedTo(f, c)) \/ c \in Open(f)
  PROVE  /\ GraphLaid(g, into, Under(f, ins, D), Later(f, ins, rank))
         /\ \A n \in f.blocks : BranchedTo(g, n) => BranchedTo(f, n)
<1> DEFINE D2 == Under(f, ins, D)
           r2 == Later(f, ins, rank)
<1>1. /\ f.blocks \subseteq Nat /\ g.blocks \subseteq Nat /\ Open(f) \subseteq f.blocks
      /\ ins \in Nat /\ into \in Nat /\ Entry \in Nat
  BY DEF WellFormed, FunctionType, Open
<1>2. /\ D \in [Nat -> SUBSET Nat] /\ rank \in [Nat -> Nat]
      /\ D[Entry] = {Entry} /\ \A b \in f.blocks : b \in D[b]
  BY DEF GraphLaid
<1>0. \A b \in f.blocks \ Open(f) : rank[b] <= rank[ins]
  BY DEF GraphLaid
<1>9. \A b \in f.blocks \ Open(f) :
        /\ Forks(TargetsOf(f, b))
        /\ \A c \in Range(TargetsOf(f, b)) :
              EdgeLaid(D, rank, b, c) /\ (rank[b] < rank[c] \/ ~BranchedTo(f, c))
  BY DEF GraphLaid
<1>11. \A n \in f.blocks : BranchedTo(g, n) => BranchedTo(f, n)
  BY BranchesKept
<1>3. /\ D2 \in [Nat -> SUBSET Nat] /\ r2 \in [Nat -> Nat]
      /\ \A n \in f.blocks : D2[n] = D[n]
      /\ \A n \in Nat \ f.blocks : D2[n] = D[ins] \cup {n}
      /\ \A n \in Nat : n = ins \/ n \in f.blocks \ Open(f) => r2[n] = rank[n]
      /\ \A n \in Nat : n # ins /\ n \notin f.blocks \ Open(f) => r2[n] = rank[ins] + 1
  <2>1. \A n \in Nat : D[n] \in SUBSET Nat /\ rank[n] \in Nat
    BY <1>2
  <2>a. ins \in Nat
    BY <1>1
  <2>b. D[ins] \in SUBSET Nat
    BY <2>1, <2>a
  <2>c. rank[ins] \in Nat
    BY <2>1, <2>a
  <2>0. D[ins] \in SUBSET Nat /\ rank[ins] \in Nat /\ rank[ins] + 1 \in Nat
    BY <2>b, <2>c
  <2>2. \A n \in Nat : D[ins] \cup {n} \in SUBSET Nat
    BY <2>0
  <2>3. D2 \in [Nat -> SUBSET Nat] /\ r2 \in [Nat -> Nat]
    BY <2>0, <2>1, <2>2 DEF Under, Later
  <2>4. /\ \A n \in Nat : D2[n] = IF n \in f.blocks THEN D[n] ELSE D[ins] \cup {n}
        /\ \A n \in Nat : r2[n] = IF n = ins \/ n \in f.blocks \ Open(f) THEN rank[n] ELSE rank[ins] + 1
    BY DEF Under, Later
  <2> HIDE DEF D2, r2
  <2> QED BY <1>1, <2>3, <2>4
<1>4. /\ rank[ins] \in Nat
      /\ \A n \in f.blocks \cup g.blocks : n \in Nat /\ rank[n] \in Nat /\ r2[n] \in Nat
  <2> HIDE DEF D2, r2
  <2> QED BY <1>1, <1>2, <1>3
<1> HIDE DEF D2, r2
<1>10. \A n \in f.blocks \cup g.blocks :
         /\ n = ins \/ n \in f.blocks \ Open(f) => r2[n] = rank[n]
         /\ n # ins /\ n \notin f.blocks \ Open(f) => r2[n] = rank[ins] + 1
  BY <1>3, <1>4
<1>5. D2[Entry] = {Entry} /\ \A b \in g.blocks : b \in D2[b]
  BY <1>1, <1>2, <1>3
<1>6. ASSUME NEW b \in g.blocks \ Open(g) PROVE r2[b] <= r2[into]
  <2>1. CASE b = ins \/ b \in f.blocks \ Open(f)
    <3>1. r2[b] = rank[b] /\ rank[b] <= rank[ins]
      BY <2>1, <1>0, <1>4, <1>10
    <3>2. rank[ins] <= r2[into]
      BY <1>4, <1>10
    <3> QED BY <3>1, <3>2, <1>1, <1>4
  <2>2. CASE b # ins /\ b \notin f.blocks \ Open(f)
    <3>1. into # ins
      BY <2>2
    <3>2. r2[b] = rank[ins] + 1 /\ r2[into] = rank[ins] + 1
      BY <3>1, <2>2, <1>1, <1>3
    <3> QED BY <3>2, <1>4
  <2> QED BY <2>1, <2>2
<1>7. ASSUME NEW b \in g.blocks \ Open(g)
      PROVE  /\ Forks(TargetsOf(g, b))
             /\ \A c \in Range(TargetsOf(g, b)) :
                  EdgeLaid(D2, r2, b, c) /\ (r2[b] < r2[c] \/ ~BranchedTo(g, c))
  <2>1. CASE b \in f.blocks \ Open(f)
    <3>1. TargetsOf(g, b) = TargetsOf(f, b)
      BY <2>1, ClosedTargets
    <3>2. ASSUME NEW c \in Range(TargetsOf(f, b))
          PROVE  EdgeLaid(D2, r2, b, c) /\ (r2[b] < r2[c] \/ ~BranchedTo(g, c))
      <4>1. EdgeLaid(D, rank, b, c) /\ (rank[b] < rank[c] \/ ~BranchedTo(f, c))
        BY <2>1, <1>9
      <4>2. c \in f.blocks
        BY <2>1 DEF WellFormed, EdgesAgree
      <4>3. D2[b] = D[b] /\ D2[c] = D[c] /\ r2[b] = rank[b] /\ rank[b] <= rank[ins]
        BY <2>1, <4>2, <1>0, <1>1, <1>3
      <4>4. rank[b] < rank[c] => r2[b] < r2[c]
        BY <4>2, <4>3, <2>1, <1>4, <1>10
      <4>5. EdgeLaid(D2, r2, b, c)
        BY <4>1, <4>3, <4>4 DEF EdgeLaid
      <4> QED BY <4>1, <4>2, <4>4, <4>5, <1>11
    <3> QED BY <3>1, <3>2, <2>1, <1>9
  <2>2. CASE b = ins /\ ins \in Open(f)
    <3>1. ASSUME NEW c \in Range(TargetsOf(g, b))
          PROVE  EdgeLaid(D2, r2, b, c) /\ (r2[b] < r2[c] \/ ~BranchedTo(g, c))
      <4>1. D2[b] = D[ins] /\ r2[b] = rank[ins]
        BY <2>2, <1>1, <1>3
      <4>2. CASE c \in Nat \ f.blocks
        <5>1. D2[c] = D[ins] \cup {c} /\ r2[c] = rank[ins] + 1 /\ c # b
          BY <4>2, <2>2, <1>3
        <5>2. r2[b] < r2[c]
          BY <4>1, <5>1, <1>4
        <5> QED BY <4>1, <5>1, <5>2 DEF EdgeLaid
      <4>3. CASE /\ c \in f.blocks /\ c # ins /\ D[c] \ {c} \subseteq D[ins]
                 /\ (c \in D[ins] /\ ~BranchedTo(f, c)) \/ c \in Open(f)
        <5>1. c \in Open(f) => r2[c] = rank[ins] + 1
          BY <4>3, <1>1, <1>3
        <5>3. D2[c] = D[c]
          BY <4>3, <1>3
        <5>2. D2[c] = D[c] /\ (c \in Open(f) => r2[b] < r2[c])
          <6>1. rank[ins] < rank[ins] + 1
            BY <1>4
          <6> QED BY <4>1, <5>1, <5>3, <6>1
        <5>4. EdgeLaid(D2, r2, b, c)
          BY <4>1, <4>3, <5>2, <2>2 DEF EdgeLaid
        <5> QED BY <4>3, <5>2, <5>4, <1>11
      <4> QED BY <4>2, <4>3, <2>2
    <3> QED BY <3>1, <2>2
  <2>3. CASE TargetsOf(g, b) = <<>>
    BY <2>3, ForksFacts
  <2> QED BY <2>1, <2>2, <2>3
<1>12. GraphLaid(g, into, D2, r2)
  BY <1>1, <1>3, <1>5, <1>6, <1>7 DEF GraphLaid
<1> QED BY <1>11, <1>12 DEF D2, r2

-----------------------------------------------------------------------------
\* The stack under a step that keeps what is closed and moves inwards.
LEMMA FrameKept ==
  ASSUME NEW f, NEW g, NEW D, NEW D2, NEW k, NEW k2, NEW frame, FrameLaid(frame, D, k, f),
         PendingOf(frame) \subseteq f.blocks, HeadOf(frame) \subseteq f.blocks,
         \A n \in f.blocks : D2[n] = D[n], k \subseteq k2,
         Open(g) \cap f.blocks \subseteq Open(f),
         \A n \in f.blocks : BranchedTo(g, n) => BranchedTo(f, n)
  PROVE  FrameLaid(frame, D2, k2, g)
<1>1. Around(frame, D2, k2)
  BY DEF FrameLaid, Around
<1>2. frame.visit = "then" => D2[frame.cont] \ {frame.cont} \subseteq D2[frame.other]
  BY DEF FrameLaid, PendingOf
<1>3. frame.visit = "while" => frame.other \notin Open(g) /\ D2[frame.other] \subseteq D2[frame.cont]
  BY DEF FrameLaid, PendingOf, HeadOf
<1>4. \A h \in HeadOf(frame) : ~BranchedTo(g, h)
  BY DEF FrameLaid
<1> QED BY <1>1, <1>2, <1>3, <1>4 DEF FrameLaid

LEMMA StackKept ==
  ASSUME NEW f, NEW g, NEW D, NEW D2, NEW k, NEW k2, NEW s, StackLaid(s, D, k, f),
         PendingIn(s) \subseteq f.blocks, HeadsIn(s) \subseteq f.blocks,
         \A n \in f.blocks : D2[n] = D[n], k \subseteq k2,
         Open(g) \cap f.blocks \subseteq Open(f),
         \A n \in f.blocks : BranchedTo(g, n) => BranchedTo(f, n)
  PROVE  StackLaid(s, D2, k2, g)
<1>1. \A i \in DOMAIN s : PendingOf(s[i]) \subseteq f.blocks /\ HeadOf(s[i]) \subseteq f.blocks
  BY DEF PendingIn, HeadsIn
<1>2. ASSUME NEW i \in DOMAIN s PROVE FrameLaid(s[i], D2, k2, g)
  BY <1>1, FrameKept DEF StackLaid
<1>3. ASSUME NEW i \in DOMAIN s, NEW j \in DOMAIN s, NEW q \in PendingOf(s[j]), i < j
      PROVE  Around(s[i], D2, D2[q])
  <2>1. Around(s[i], D, D[q]) /\ D2[q] = D[q]
    BY <1>1, <1>3 DEF StackLaid
  <2> QED BY <2>1, <1>1 DEF Around
<1> QED BY <1>2, <1>3 DEF StackLaid

LEMMA StackPopped ==
  ASSUME NEW s \in Seq(Frame), s # <<>>, NEW D, NEW k, NEW f, StackLaid(s, D, k, f)
  PROVE  LET r == SubSeq(s, 1, Len(s) - 1)
         IN  /\ StackLaid(r, D, k, f) /\ FrameLaid(s[Len(s)], D, k, f)
             /\ \A q \in PendingOf(s[Len(s)]) : StackLaid(r, D, D[q], f)
<1> DEFINE r == SubSeq(s, 1, Len(s) - 1)
<1>1. /\ Len(s) \in Nat \ {0} /\ DOMAIN s = 1 .. Len(s)
      /\ DOMAIN r = 1 .. Len(s) - 1
      /\ \A i \in 1 .. Len(s) - 1 : r[i] = s[i]
  BY LeaveFacts
<1> HIDE DEF r
<1>2. \A i \in DOMAIN r : i \in DOMAIN s /\ r[i] = s[i] /\ i < Len(s)
  BY <1>1
<1>3. Len(s) \in DOMAIN s
  BY <1>1
<1>4. StackLaid(r, D, k, f) /\ FrameLaid(s[Len(s)], D, k, f)
  BY <1>2, <1>3 DEF StackLaid
<1>5. ASSUME NEW q \in PendingOf(s[Len(s)]) PROVE StackLaid(r, D, D[q], f)
  <2>1. \A i \in DOMAIN r : FrameLaid(r[i], D, k, f) /\ Around(r[i], D, D[q])
    BY <1>2, <1>3 DEF StackLaid
  <2> QED BY <2>1, <1>4 DEF StackLaid, FrameLaid
<1> QED BY <1>4, <1>5 DEF r

LEMMA StackPushed ==
  ASSUME NEW s \in Seq(Frame), NEW frame \in Frame, NEW D, NEW k, NEW f, StackLaid(s, D, k, f),
         FrameLaid(frame, D, k, f), \A q \in PendingOf(frame) : StackLaid(s, D, D[q], f)
  PROVE  StackLaid(Append(s, frame), D, k, f)
<1> DEFINE t == Append(s, frame)
<1>1. /\ DOMAIN t = 1 .. Len(s) + 1 /\ DOMAIN s = 1 .. Len(s)
      /\ Len(s) \in Nat /\ \A i \in 1 .. Len(s) : t[i] = s[i]
      /\ t[Len(s) + 1] = frame
  BY PushFacts
<1> HIDE DEF t
<1>2. \A i \in DOMAIN t : \/ i = Len(s) + 1 /\ t[i] = frame
                          \/ i \in DOMAIN s /\ t[i] = s[i]
  BY <1>1
<1>3. \A i, j \in DOMAIN t : i < j => i \in DOMAIN s /\ t[i] = s[i]
  BY <1>1
<1>4. \A i \in DOMAIN t : FrameLaid(t[i], D, k, f)
  BY <1>2 DEF StackLaid
<1>5. ASSUME NEW i \in DOMAIN t, NEW j \in DOMAIN t, NEW q \in PendingOf(t[j]), i < j
      PROVE  Around(t[i], D, D[q])
  <2>1. i \in DOMAIN s /\ t[i] = s[i]
    BY <1>3, <1>5
  <2>2. CASE t[j] = frame
    BY <2>1, <2>2 DEF StackLaid, FrameLaid
  <2>3. CASE j \in DOMAIN s /\ t[j] = s[j]
    BY <2>1, <2>3, <1>5 DEF StackLaid
  <2> QED BY <2>2, <2>3, <1>2
<1>6. StackLaid(t, D, k, f)
  BY <1>4, <1>5 DEF StackLaid
<1> QED BY <1>6 DEF t

LEMMA PlainLaid ==
  ASSUME NEW frame, frame.visit \notin {"then", "else", "iteration", "while"}, NEW D, NEW k, NEW f
  PROVE  FrameLaid(frame, D, k, f) /\ PendingOf(frame) = {}
BY DEF FrameLaid, Around, PendingOf, HeadOf

\* A step of the visitor that returns, goes on or calls, from the old stack to the new one.
LEMMA StackMoved ==
  ASSUME Inv, stack # <<>>, NEW D, NEW k, StackLaid(stack, D, k, fn),
         NEW g, NEW D2, NEW k2, \A n \in fn.blocks : D2[n] = D[n],
         Open(g) \cap fn.blocks \subseteq Open(fn),
         \A n \in fn.blocks : BranchedTo(g, n) => BranchedTo(fn, n),
         k \subseteq k2 \/ \E q \in PendingOf(Top) : D[q] \subseteq k2,
         NEW frame \in Frame, FrameLaid(frame, D2, k2, g),
         \A q \in PendingOf(frame) : k \subseteq D2[q] \/ q \in PendingOf(Top),
         NEW child \in Frame, child.visit \in {"statement", "expression"}
  PROVE  /\ StackLaid(Leave, D2, k2, g)
         /\ StackLaid(Become(frame), D2, k2, g)
         /\ StackLaid(Append(Become(frame), child), D2, k2, g)
<1>1. stack \in Seq(Frame) /\ Flow(fn, insert, stack)
  BY DEF Inv, InvOf
<1>2. /\ PendingIn(Leave) \subseteq fn.blocks /\ HeadsIn(Leave) \subseteq fn.blocks
      /\ PendingOf(Top) \subseteq fn.blocks
  BY PendingTop
<1>3. /\ StackLaid(Leave, D, k, fn)
      /\ \A q \in PendingOf(Top) : StackLaid(Leave, D, D[q], fn)
  BY <1>1, StackPopped DEF Top, Leave
<1>4. StackLaid(Leave, D2, k2, g)
  BY <1>2, <1>3, StackKept
<1>5. ASSUME NEW q \in PendingOf(frame) PROVE StackLaid(Leave, D2, D2[q], g)
  <2>1. CASE k \subseteq D2[q]
    BY <2>1, <1>2, <1>3, StackKept
  <2>2. CASE q \in PendingOf(Top)
    <3>1. D2[q] = D[q]
      BY <2>2, <1>2
    <3> QED BY <3>1, <2>2, <1>2, <1>3, StackKept
  <2> QED BY <2>1, <2>2
<1>6. Leave \in Seq(Frame) /\ Become(frame) = Append(Leave, frame)
  BY <1>1, LeaveFacts, BecomeIsPush DEF Leave, Become
<1>7. Become(frame) \in Seq(Frame)
  BY <1>6
<1>8. StackLaid(Become(frame), D2, k2, g)
  BY <1>4, <1>5, <1>6, StackPushed
<1>9. FrameLaid(child, D2, k2, g) /\ PendingOf(child) = {}
  BY PlainLaid
<1>10. StackLaid(Append(Become(frame), child), D2, k2, g)
  BY <1>7, <1>8, <1>9, StackPushed
<1> QED BY <1>4, <1>8, <1>10

\* One step of the visitor on the graph, between the witnesses of two states.
LaidNext(D, D2, r2) ==
  /\ GraphLaid(fn', insert', D2, r2)
  /\ \A n \in fn.blocks : D2[n] = D[n]
  /\ \A n \in Nat \ fn.blocks : D2[n] = D[insert] \cup {n}
  /\ Open(fn') \cap fn.blocks \subseteq Open(fn)
  /\ \A n \in fn.blocks : BranchedTo(fn', n) => BranchedTo(fn, n)

LEMMA LaidGrows ==
  ASSUME Inv, EntryInv, stack # <<>>,
         NEW D, NEW rank, GraphLaid(fn, insert, D, rank),
         WellFormed(fn'), Keeps(fn, fn'), insert' \in fn'.blocks,
         insert' = insert \/ insert' \in Open(fn) \/ insert' \notin fn.blocks,
         \A b \in fn'.blocks \ Open(fn') :
            \/ b = insert
            \/ b \in fn.blocks \ Open(fn)
            \/ insert' # insert /\ TargetsOf(fn', b) = <<>>,
         insert \in Open(fn) /\ insert \notin Open(fn') =>
            /\ Forks(TargetsOf(fn', insert))
            /\ \A c \in Range(TargetsOf(fn', insert)) :
                 \/ c \in Nat \ fn.blocks
                 \/ /\ c \in fn.blocks /\ c # insert /\ D[c] \ {c} \subseteq D[insert]
                    /\ TargetsOf(fn', insert) = <<c>>
                    /\ (c \in D[insert] /\ ~BranchedTo(fn, c)) \/ c \in Open(fn)
  PROVE  \E D2, r2 : LaidNext(D, D2, r2)
<1> DEFINE D2 == Under(fn, insert, D)
           r2 == Later(fn, insert, rank)
<1>1. WellFormed(fn) /\ insert \in fn.blocks /\ Entry \in fn.blocks
  BY EntryFacts
<1>2. /\ GraphLaid(fn', insert', D2, r2)
      /\ \A n \in fn.blocks : BranchedTo(fn', n) => BranchedTo(fn, n)
  BY <1>1, GraphGrows
<1>3. fn.blocks \subseteq Nat
  BY <1>1 DEF WellFormed, FunctionType
<1>4. /\ \A n \in fn.blocks : D2[n] = D[n]
      /\ \A n \in Nat \ fn.blocks : D2[n] = D[insert] \cup {n}
  BY <1>3 DEF Under
<1>5. Open(fn') \cap fn.blocks \subseteq Open(fn)
  BY SameCodeSameTerminator DEF Keeps, Open
<1> QED BY <1>2, <1>4, <1>5 DEF LaidNext

LEMMA LaidIntro ==
  ASSUME NEW D2, NEW r2, GraphLaid(fn', insert', D2, r2), StackLaid(stack', D2, D2[insert'], fn')
  PROVE  Laid'
BY DEF Laid, LaidOf

LEMMA FunDeclarationLaid ==
  ASSUME BuilderAssumption, FunDeclaration
  PROVE  Laid'
<1> PICK prologue \in Prologues : fn' = AddInstrs(CreateBlock(NoFunction), Entry, prologue)
  BY DEF FunDeclaration
<1> DEFINE h == CreateBlock(NoFunction)
           g == AddInstrs(h, 1, prologue)
           D == [n \in Nat |-> {n}]
           rank == [n \in Nat |-> 0]
<1>1. WellFormed(h) /\ h.blocks = {1} /\ Open(h) = {1}
  <2>1. NoFunction.made = 0 /\ NoFunction.blocks = {} /\ 0 + 1 = 1
    BY DEF NoFunction
  <2> QED BY <2>1, EmptyFunction, NewBlockFacts
<1>2. prologue \in Seq(Straight)
  BY DEF BuilderAssumption, Straight
<1>3. fn' = g /\ insert' = 1
  BY DEF Entry, FunDeclaration
<1> HIDE DEF h
<1>4. g.blocks = {1} /\ Open(g) = {1}
  BY <1>1, <1>2, EmitFacts
<1> HIDE DEF g
<1>5. GraphLaid(fn', insert', D, rank)
  <2>1. D \in [Nat -> SUBSET Nat] /\ rank \in [Nat -> Nat] /\ D[1] = {1}
    OBVIOUS
  <2> HIDE DEF D, rank
  <2> QED BY <2>1, <1>3, <1>4 DEF GraphLaid, Entry
<1>6. StackLaid(stack', D, D[insert'], fn')
  <2>1. stack' = <<Visit("function"), Visit("body")>>
    BY DEF FunDeclaration
  <2>2. DOMAIN stack' = {1, 2} /\ stack'[1].visit = "function" /\ stack'[2].visit = "body"
    BY <2>1 DEF Visit
  <2>3. \A i \in DOMAIN stack' : stack'[i].visit \in {"function", "body"}
    BY <2>2
  <2> HIDE DEF D
  <2>4. \A i \in DOMAIN stack' : /\ FrameLaid(stack'[i], D, D[insert'], fn')
                                 /\ PendingOf(stack'[i]) = {}
    BY <2>3, PlainLaid
  <2> QED BY <2>4 DEF StackLaid
<1> QED BY <1>5, <1>6, LaidIntro

\* The steps that leave the graph alone.
LEMMA QuietLaid ==
  ASSUME Inv, Laid, pre_enter_scope \in BOOLEAN,
         \/ EnterCompoundStmt \/ NextStatement \/ LeaveCompoundStmt \/ ExpressionStmt
         \/ EndExpression \/ SelectionStmt
  PROVE  Laid'
<1>1. stack # <<>> /\ fn' = fn /\ insert' = insert
  BY DEF EnterCompoundStmt, NextStatement, LeaveCompoundStmt, ExpressionStmt, EndExpression,
         SelectionStmt, InVisit
<1>2. Top \in Frame /\ fn # NoFunction
  <2>1. insert \in fn.blocks
    BY <1>1, TopFacts
  <2> QED BY <2>1, <1>1, TopFacts DEF NoFunction
<1>3. PICK D, rank : GraphLaid(fn, insert, D, rank) /\ StackLaid(stack, D, D[insert], fn)
  BY <1>2 DEF Laid, LaidOf
<1>4. ASSUME NEW frame \in Frame, frame.visit \notin {"then", "else", "iteration", "while"},
             NEW child \in Frame, child.visit \in {"statement", "expression"},
             \/ stack' = Leave
             \/ stack' = Become(frame)
             \/ stack' = Append(Become(frame), child)
      PROVE  Laid'
  <2>1. FrameLaid(frame, D, D[insert], fn) /\ PendingOf(frame) = {}
    BY <1>4, PlainLaid
  <2>2. /\ StackLaid(Leave, D, D[insert], fn)
        /\ StackLaid(Become(frame), D, D[insert], fn)
        /\ StackLaid(Append(Become(frame), child), D, D[insert], fn)
    BY <2>1, <1>1, <1>3, <1>4, StackMoved
  <2> QED BY <2>2, <1>1, <1>3, <1>4, LaidIntro
<1>5. \A v \in {"statement", "expression", "declarations", "selection"} :
        /\ Visit(v) \in Frame /\ Visit(v).visit = v
        /\ \A flag \in BOOLEAN : /\ [Visit(v) EXCEPT !.flag = flag] \in Frame
                                 /\ [Visit(v) EXCEPT !.flag = flag].visit = v
  BY VisitFacts DEF Visits, Frame, Visit
<1>6. /\ [Top EXCEPT !.visit = "statements"] \in Frame
      /\ [Top EXCEPT !.visit = "statements"].visit = "statements"
  BY <1>2 DEF Frame, Visits
<1>7. CASE EnterCompoundStmt
  BY <1>7, <1>4, <1>5 DEF EnterCompoundStmt
<1>8. CASE NextStatement
  BY <1>8, <1>4, <1>5, <1>6 DEF NextStatement
<1>9. CASE LeaveCompoundStmt \/ EndExpression
  BY <1>9, <1>4, <1>5 DEF LeaveCompoundStmt, EndExpression
<1>10. CASE ExpressionStmt
  BY <1>10, <1>4, <1>5 DEF ExpressionStmt
<1>11. CASE SelectionStmt
  <2> PICK hasElse \in BOOLEAN :
        stack' = Append(Become([Visit("selection") EXCEPT !.flag = hasElse]), Visit("expression"))
    BY <1>11 DEF SelectionStmt
  <2> QED BY <1>4, <1>5
<1> QED BY <1>7, <1>8, <1>9, <1>10, <1>11

\* A step that stays in the insert block or moves to a new one.
LEMMA LaidInside ==
  ASSUME Inv, stack # <<>>, NEW D, StackLaid(stack, D, D[insert], fn),
         NEW D2, NEW r2, LaidNext(D, D2, r2),
         insert' \in Nat, insert' = insert \/ insert' \notin fn.blocks,
         NEW frame \in Frame, frame.visit \notin {"then", "else", "iteration", "while"},
         NEW child \in Frame, child.visit \in {"statement", "expression"},
         \/ stack' = stack
         \/ stack' = Leave
         \/ stack' = Append(Become(frame), child)
  PROVE  Laid'
<1>1. /\ insert \in fn.blocks /\ Flow(fn, insert, stack) /\ WellFormed(fn)
  BY TopFacts DEF Inv, InvOf
<1>2. /\ GraphLaid(fn', insert', D2, r2)
      /\ \A n \in fn.blocks : D2[n] = D[n]
      /\ \A n \in Nat \ fn.blocks : D2[n] = D[insert] \cup {n}
      /\ Open(fn') \cap fn.blocks \subseteq Open(fn)
      /\ \A n \in fn.blocks : BranchedTo(fn', n) => BranchedTo(fn, n)
  BY DEF LaidNext
<1>3. D[insert] \subseteq D2[insert']
  BY <1>1, <1>2
<1>4. FrameLaid(frame, D2, D2[insert'], fn') /\ PendingOf(frame) = {}
  BY PlainLaid
<1>5. StackLaid(stack, D2, D2[insert'], fn')
  <2>1. PendingIn(stack) \subseteq fn.blocks /\ HeadsIn(stack) \subseteq fn.blocks
    BY <1>1, FramesInside DEF Flow
  <2> QED BY <2>1, <1>2, <1>3, StackKept
<1>6. /\ StackLaid(Leave, D2, D2[insert'], fn')
      /\ StackLaid(Append(Become(frame), child), D2, D2[insert'], fn')
  BY <1>2, <1>3, <1>4, StackMoved
<1>7. StackLaid(stack', D2, D2[insert'], fn')
  BY <1>5, <1>6
<1> QED BY <1>2, <1>7, LaidIntro

\* The steps that append to blocks without a jump to an old block.
LEMMA EmittingLaid ==
  ASSUME BuilderAssumption, Inv, EntryInv, Laid,
         \/ EndFunDeclaration \/ LocalDeclaration \/ EmitSegment \/ IndexedVar
         \/ ReturnStmt \/ EndReturnStmt
  PROVE  Laid'
<1>1. /\ stack # <<>>
      /\ EndFunDeclaration \/ Top.visit \in Emitting
  BY DEF EndFunDeclaration, LocalDeclaration, EmitSegment, IndexedVar, ReturnStmt,
         EndReturnStmt, InVisit, Emitting
<1>2. /\ WellFormed(fn) /\ Entry \in fn.blocks /\ insert \in fn.blocks
      /\ EndFunDeclaration \/ insert \in Open(fn)
      /\ fn # NoFunction /\ fn.made \in Nat
  BY <1>1, EntryFacts DEF NoFunction
<1>3. PICK D, rank : GraphLaid(fn, insert, D, rank) /\ StackLaid(stack, D, D[insert], fn)
  BY <1>2 DEF Laid, LaidOf
<1>4. /\ Visit("return") \in Frame /\ Visit("return").visit = "return"
      /\ Visit("expression") \in Frame /\ Visit("expression").visit = "expression"
  BY VisitFacts DEF Visits
<1>5. /\ \/ stack' = stack
         \/ stack' = Leave
         \/ stack' = Append(Become(Visit("return")), Visit("expression"))
      /\ insert' = insert \/ insert' = fn.made + 2
  BY DEF EndFunDeclaration, LocalDeclaration, EmitSegment, IndexedVar, ReturnStmt,
         EndReturnStmt
<1>6. CASE IndexedVar
  <2> DEFINE x == fn.made + 1
             c == fn.made + 2
             f1 == AddInstr(CreateBlock(CreateBlock(fn)), insert, Plain("icmp"))
             f2 == CreateCondBr(f1, insert, x, c)
             f3 == CreateRet(AddInstr(f2, x, Plain("call")), x)
             g  == AddInstr(f3, c, Plain("gep"))
  <2>1. insert \in Open(fn) /\ fn' = g /\ insert' = c
    <3>1. Top.visit \in Emitting
      BY <1>6 DEF IndexedVar, InVisit, Emitting
    <3> QED BY <3>1, <1>1, <1>6, EntryFacts DEF IndexedVar
  <2>2. x \in Nat /\ c \in Nat /\ x # c
    BY <1>2
  <2>3. /\ WellFormed(g) /\ Keeps(fn, g) /\ g.blocks = fn.blocks \cup {x, c}
        /\ Open(g) = (Open(fn) \ {insert}) \cup {c}
        /\ x \notin fn.blocks /\ c \notin fn.blocks
        /\ TargetsOf(g, insert) = <<x, c>> /\ TargetsOf(g, x) = <<>>
    BY <1>2, <2>1, IndexFacts
  <2> HIDE DEF g, x, c
  <2>4. Forks(TargetsOf(g, insert)) /\ Range(TargetsOf(g, insert)) = {x, c}
    BY <2>2, <2>3, ForksFacts
  <2>5. \A b \in g.blocks \ Open(g) : b = insert \/ b \in fn.blocks \ Open(fn) \/ b = x
    BY <2>3
  <2>6. PICK D2, r2 : LaidNext(D, D2, r2)
    <3>1. /\ insert' \in fn'.blocks /\ insert' \notin fn.blocks /\ insert' # insert
          /\ WellFormed(fn') /\ Keeps(fn, fn')
          /\ \A b \in fn'.blocks \ Open(fn') :
               \/ b = insert \/ b \in fn.blocks \ Open(fn)
               \/ insert' # insert /\ TargetsOf(fn', b) = <<>>
      BY <2>1, <2>3, <2>5, <1>2
    <3>2. /\ Forks(TargetsOf(fn', insert))
          /\ \A d \in Range(TargetsOf(fn', insert)) : d \in Nat \ fn.blocks
      BY <2>1, <2>2, <2>3, <2>4
    <3> QED BY <3>1, <3>2, <1>1, <1>3, LaidGrows
  <2>7. insert' \in Nat /\ insert' \notin fn.blocks
    BY <2>1, <2>2, <2>3
  <2> QED BY <2>6, <2>7, <1>1, <1>3, <1>4, <1>5, LaidInside
<1>7. CASE ~IndexedVar
  <2>1. /\ WellFormed(fn') /\ Keeps(fn, fn') /\ fn'.blocks = fn.blocks
        /\ \/ Open(fn') = Open(fn)
           \/ /\ Open(fn') = Open(fn) \ {insert}
              /\ insert \in Open(fn) => TargetsOf(fn', insert) = <<>>
    <3>1. CASE EndFunDeclaration
      BY <3>1, <1>2, DefaultRetFacts DEF EndFunDeclaration
    <3>2. CASE ~EndFunDeclaration /\ LocalDeclaration
      BY <3>2, <1>2, EmitOneFacts DEF LocalDeclaration
    <3>3. CASE ~EndFunDeclaration /\ EmitSegment
      <4> PICK segment \in Segments : fn' = AddInstrs(fn, insert, segment)
        BY <3>3 DEF EmitSegment
      <4>1. segment \in Seq(Straight)
        BY DEF BuilderAssumption, Straight
      <4> QED BY <4>1, <3>3, <1>2, EmitFacts
    <3>5. CASE ~EndFunDeclaration /\ ReturnStmt
      BY <3>5, <1>2, RetFacts, KeepsItself DEF ReturnStmt
    <3>6. CASE ~EndFunDeclaration /\ EndReturnStmt
      BY <3>6, <1>2, RetFacts DEF EndReturnStmt
    <3> QED BY <1>7, <3>1, <3>2, <3>3, <3>5, <3>6
  <2>2. insert' = insert
    BY <1>7 DEF EndFunDeclaration, LocalDeclaration, EmitSegment, ReturnStmt, EndReturnStmt
  <2>3. PICK D2, r2 : LaidNext(D, D2, r2)
    <3>1. \A b \in fn'.blocks \ Open(fn') : b = insert \/ b \in fn.blocks \ Open(fn)
      BY <2>1
    <3>2. insert \in Open(fn) /\ insert \notin Open(fn') => TargetsOf(fn', insert) = <<>>
      BY <2>1
    <3>3. insert \in Open(fn) /\ insert \notin Open(fn') =>
            Forks(TargetsOf(fn', insert)) /\ Range(TargetsOf(fn', insert)) = {}
      BY <3>2, ForksFacts
    <3>4. insert' \in fn'.blocks
      BY <2>1, <2>2, <1>2
    <3> QED BY <3>1, <3>3, <3>4, <2>1, <2>2, <1>1, <1>3, LaidGrows
  <2>4. insert' \in Nat
    BY <2>2, <1>2 DEF WellFormed, FunctionType
  <2> QED BY <2>2, <2>3, <2>4, <1>1, <1>3, <1>4, <1>5, LaidInside
<1> QED BY <1>6, <1>7

\* A step that makes new blocks, branches to them and goes on in one.
LEMMA LaidOpened ==
  ASSUME Inv, EntryInv, Laid, stack # <<>>, insert \in Open(fn),
         WellFormed(fn'), Keeps(fn, fn'),
         NEW new \in SUBSET Nat, new \cap fn.blocks = {}, fn'.blocks = fn.blocks \cup new,
         Open(fn') = (Open(fn) \ {insert}) \cup new, insert' \in new,
         Forks(TargetsOf(fn', insert)), Range(TargetsOf(fn', insert)) \subseteq new,
         NEW frame \in Frame, frame.visit \in {"then", "iteration", "while"},
         PendingOf(frame) \subseteq new,
         frame.visit = "iteration" =>
            frame.other = insert' /\ TargetsOf(fn', insert) = <<insert'>>,
         frame.visit = "while" => Top.visit = "iteration" /\ frame.other = Top.other,
         NEW child \in Frame, child.visit \in {"statement", "expression"},
         stack' = Append(Become(frame), child)
  PROVE  Laid'
<1>1. /\ WellFormed(fn) /\ insert \in fn.blocks /\ Entry \in fn.blocks /\ Top \in Frame
      /\ fn # NoFunction
  BY EntryFacts DEF NoFunction
<1>2. PICK D, rank : GraphLaid(fn, insert, D, rank) /\ StackLaid(stack, D, D[insert], fn)
  BY <1>1 DEF Laid, LaidOf
<1>3. PICK D2, r2 : LaidNext(D, D2, r2)
  <2>1. /\ insert' \in fn'.blocks /\ insert' \notin fn.blocks
        /\ \A b \in fn'.blocks \ Open(fn') : b = insert \/ b \in fn.blocks \ Open(fn)
        /\ \A c \in Range(TargetsOf(fn', insert)) : c \in Nat \ fn.blocks
    OBVIOUS
  <2> QED BY <2>1, <1>2, LaidGrows
<1>4. /\ GraphLaid(fn', insert', D2, r2)
      /\ \A n \in fn.blocks : D2[n] = D[n]
      /\ \A n \in Nat \ fn.blocks : D2[n] = D[insert] \cup {n}
      /\ Open(fn') \cap fn.blocks \subseteq Open(fn)
      /\ \A n \in fn.blocks : BranchedTo(fn', n) => BranchedTo(fn, n)
  BY <1>3 DEF LaidNext
<1>5. \A n \in new : D2[n] = D[insert] \cup {n}
  BY <1>4
<1>6. FrameLaid(frame, D2, D2[insert'], fn')
  <2>1. \A p \in PendingOf(frame) : D2[p] \ {p} \subseteq D2[insert']
    BY <1>5
  <2>2. CASE frame.visit = "then"
    <3>1. PendingOf(frame) = {frame.other, frame.cont} /\ HeadOf(frame) = {}
      BY <2>2 DEF PendingOf, HeadOf
    <3>2. D2[frame.cont] \ {frame.cont} \subseteq D2[frame.other]
      BY <3>1, <1>5
    <3> QED BY <2>1, <2>2, <3>1, <3>2 DEF FrameLaid, Around
  <2>3. CASE frame.visit = "iteration"
    <3>1. ASSUME BranchedTo(fn', insert') PROVE FALSE
      <4>1. PICK b \in fn'.blocks \ Open(fn') :
              insert' \in Range(TargetsOf(fn', b)) /\ TargetsOf(fn', b) # <<insert'>>
        BY <3>1 DEF BranchedTo
      <4>2. b \in fn.blocks \ Open(fn)
        BY <4>1, <2>3
      <4>3. TargetsOf(fn', b) = TargetsOf(fn, b)
        BY <4>2, ClosedTargets
      <4>4. Range(TargetsOf(fn, b)) \subseteq fn.blocks
        BY <4>2, <1>1 DEF WellFormed, EdgesAgree
      <4> QED BY <4>1, <4>3, <4>4
    <3> QED BY <3>1, <2>1, <2>3 DEF FrameLaid, Around, HeadOf
  <2>4. CASE frame.visit = "while"
    <3>1. /\ HeadOf(frame) = {Top.other} /\ HeadOf(Top) = {Top.other}
          /\ PendingOf(frame) = {frame.cont} /\ PendingOf(Top) = {}
      BY <2>4 DEF PendingOf, HeadOf
    <3>2. FrameLaid(Top, D, D[insert], fn)
      <4>1. stack \in Seq(Frame)
        BY TopFacts
      <4> QED BY <4>1, <1>2, StackPopped DEF Top
    <3>3. D[Top.other] \subseteq D[insert] /\ ~BranchedTo(fn, Top.other)
      BY <3>1, <3>2 DEF FrameLaid, Around
    <3>4. Top.other \in fn.blocks /\ Top.other \notin PendingIn(Leave)
          /\ Open(fn) \subseteq PendingIn(Leave) \cup {insert}
      BY <3>1, PendingTop
    <3>5. Top.other \notin Open(fn')
      BY <3>4
    <3>6. D2[Top.other] \subseteq D2[insert'] /\ D2[Top.other] \subseteq D2[frame.cont]
      <4>1. frame.cont \in new /\ D2[Top.other] = D[Top.other]
        BY <3>1, <3>4, <1>4
      <4>2. D[insert] \subseteq D2[insert'] /\ D[insert] \subseteq D2[frame.cont]
        BY <4>1, <1>5
      <4> QED BY <3>3, <4>1, <4>2
    <3>7. ~BranchedTo(fn', Top.other)
      BY <1>4, <3>3, <3>4
    <3> QED BY <2>1, <2>4, <3>1, <3>5, <3>6, <3>7 DEF FrameLaid, Around
  <2> QED BY <2>2, <2>3, <2>4
<1>7. D[insert] \subseteq D2[insert'] /\ \A q \in PendingOf(frame) : D[insert] \subseteq D2[q]
  BY <1>5
<1>8. StackLaid(Append(Become(frame), child), D2, D2[insert'], fn')
  <2> DEFINE g == fn'
             k2 == D2[insert']
  <2>1. /\ \A n \in fn.blocks : D2[n] = D[n]
        /\ Open(g) \cap fn.blocks \subseteq Open(fn)
        /\ \A n \in fn.blocks : BranchedTo(g, n) => BranchedTo(fn, n)
        /\ D[insert] \subseteq k2 /\ FrameLaid(frame, D2, k2, g)
        /\ \A q \in PendingOf(frame) : D[insert] \subseteq D2[q] \/ q \in PendingOf(Top)
    BY <1>4, <1>6, <1>7
  <2> HIDE DEF g, k2
  <2>2. StackLaid(Append(Become(frame), child), D2, k2, g)
    BY <2>1, <1>2, StackMoved
  <2> QED BY <2>2 DEF g, k2
<1> QED BY <1>4, <1>8, LaidIntro

LEMMA BranchingLaid ==
  ASSUME Inv, EntryInv, Laid, BranchSelection \/ IterationStmt \/ BranchIteration
  PROVE  Laid'
<1> DEFINE m == fn.made
<1>1. stack # <<>> /\ Top.visit \in Emitting
  BY DEF BranchSelection, IterationStmt, BranchIteration, InVisit, Emitting
<1>2. /\ WellFormed(fn) /\ insert \in fn.blocks
      /\ insert \in Open(fn) /\ Top \in Frame /\ m \in Nat
  BY <1>1, EntryFacts
<1>3. m + 1 \in Nat /\ m + 2 \in Nat /\ m + 3 \in Nat /\ m + 1 # m + 2 /\ m + 1 # m + 3
  BY <1>2
<1>4. /\ Visit("statement") \in Frame /\ Visit("statement").visit = "statement"
      /\ Visit("expression") \in Frame /\ Visit("expression").visit = "expression"
      /\ Visit("iteration") \in Frame /\ Visit("iteration").visit = "iteration"
  BY VisitFacts DEF Visits
<1>5. CASE BranchSelection
  <2> DEFINE e == IF Top.flag THEN m + 2 ELSE m + 3
             frame == [Top EXCEPT !.visit = "then", !.other = m + 2, !.cont = m + 3]
             f1 == CreateBlock(CreateBlock(CreateBlock(fn)))
             g == CreateCondBr(AddInstr(f1, insert, Plain("icmp")), insert, m + 1, e)
             new == {m + 1, m + 2, m + 3}
  <2>1. fn' = g /\ stack' = Append(Become(frame), Visit("statement")) /\ insert' = m + 1
    BY <1>5 DEF BranchSelection
  <2>2. e \in {m + 2, m + 3}
    OBVIOUS
  <2> HIDE DEF e
  <2>3. /\ WellFormed(g) /\ Keeps(fn, g)
        /\ new \cap fn.blocks = {} /\ g.blocks = fn.blocks \cup new
        /\ Open(g) = (Open(fn) \ {insert}) \cup new
        /\ TargetsOf(g, insert) = <<m + 1, e>>
    BY <1>2, <2>2, SelectFacts
  <2>4. frame \in Frame /\ frame.visit = "then" /\ frame.other = m + 2 /\ frame.cont = m + 3
    BY <1>2, <1>3 DEF Frame, Visits
  <2> HIDE DEF g, frame
  <2>5. e \in Nat /\ m + 1 # e
    BY <2>2, <1>3
  <2>6. Forks(TargetsOf(g, insert)) /\ Range(TargetsOf(g, insert)) = {m + 1, e}
    BY <2>3, <2>5, <1>3, ForksFacts
  <2>7. PendingOf(frame) = {m + 2, m + 3}
    BY <2>4 DEF PendingOf
  <2>8. new \in SUBSET Nat /\ insert' \in new /\ {m + 1, e} \subseteq new /\ PendingOf(frame) \subseteq new
    BY <2>1, <2>2, <2>7, <1>3
  <2> HIDE DEF new, m
  <2> QED BY <2>1, <2>3, <2>4, <2>6, <2>8, <1>1, <1>2, <1>4, LaidOpened
<1>6. CASE IterationStmt
  <2> DEFINE x == m + 1
             f1 == CreateBlock(fn)
             g == BrIfOpen(f1, insert, x)
             frame == [Visit("iteration") EXCEPT !.other = x]
             new == {x}
  <2>1. fn' = g /\ stack' = Append(Become(frame), Visit("expression")) /\ insert' = x
    BY <1>6 DEF IterationStmt
  <2>2. /\ WellFormed(f1) /\ f1.blocks = fn.blocks \cup {x} /\ Keeps(fn, f1)
        /\ Open(f1) = Open(fn) \cup {x} /\ x \notin fn.blocks
    BY <1>2, NewBlockFacts
  <2> HIDE DEF f1
  <2>3. x \in Nat
    BY <1>3
  <2> HIDE DEF x
  <2>4. /\ WellFormed(g) /\ Keeps(f1, g) /\ g.blocks = f1.blocks
        /\ Open(g) = Open(f1) \ {insert}
        /\ TargetsOf(g, insert) = <<x>>
    <3>1. /\ insert \in f1.blocks /\ x \in f1.blocks /\ insert \in Open(f1)
          /\ WellFormed(f1)
      BY <1>2, <2>2
    <3> QED BY <3>1, BrIfOpenFacts
  <2>5. frame \in Frame /\ frame.visit = "iteration" /\ frame.other = x
    BY <2>3, <1>4 DEF Frame
  <2> HIDE DEF g, frame
  <2>6. Keeps(fn, g)
    BY <2>2, <2>4, KeepsTransitive
  <2>7. Forks(TargetsOf(g, insert)) /\ Range(TargetsOf(g, insert)) = {x}
    BY <2>3, <2>4, ForksFacts
  <2>8. PendingOf(frame) = {}
    BY <2>5 DEF PendingOf
  <2>9. /\ new \in SUBSET Nat /\ new \cap fn.blocks = {} /\ g.blocks = fn.blocks \cup new
        /\ Open(g) = (Open(fn) \ {insert}) \cup new /\ insert' \in new
        /\ {x} \subseteq new /\ PendingOf(frame) \subseteq new
    BY <2>1, <2>2, <2>3, <2>4, <2>8, <1>2
  <2> HIDE DEF new
  <2> QED BY <2>1, <2>4, <2>5, <2>6, <2>7, <2>9, <1>1, <1>2, <1>4, LaidOpened
<1>7. CASE BranchIteration
  <2> DEFINE f1 == AddInstr(CreateBlock(CreateBlock(fn)), insert, Plain("icmp"))
             g == CreateCondBr(f1, insert, m + 1, m + 2)
             frame == [Top EXCEPT !.visit = "while", !.cont = m + 2]
             new == {m + 1, m + 2}
  <2>1. /\ fn' = g /\ stack' = Append(Become(frame), Visit("statement")) /\ insert' = m + 1
        /\ Top.visit = "iteration"
    BY <1>7 DEF BranchIteration, InVisit
  <2>2. /\ WellFormed(g) /\ Keeps(fn, g)
        /\ new \cap fn.blocks = {} /\ g.blocks = fn.blocks \cup new
        /\ Open(g) = (Open(fn) \ {insert}) \cup new
        /\ TargetsOf(g, insert) = <<m + 1, m + 2>>
    BY <1>2, LoopFacts
  <2>3. /\ frame \in Frame /\ frame.visit = "while" /\ frame.other = Top.other
        /\ frame.cont = m + 2
    BY <1>2, <1>3 DEF Frame, Visits
  <2> HIDE DEF g, frame
  <2>4. Forks(TargetsOf(g, insert)) /\ Range(TargetsOf(g, insert)) = {m + 1, m + 2}
    BY <2>2, <1>3, ForksFacts
  <2>5. PendingOf(frame) = {m + 2}
    BY <2>3 DEF PendingOf
  <2>6. new \in SUBSET Nat /\ insert' \in new /\ PendingOf(frame) \subseteq new
        /\ Range(TargetsOf(g, insert)) \subseteq new
    BY <2>1, <2>4, <2>5, <1>3
  <2> HIDE DEF new, m
  <2> QED BY <2>1, <2>2, <2>3, <2>4, <2>6, <1>1, <1>2, <1>4, LaidOpened
<1> QED BY <1>5, <1>6, <1>7

LEMMA StackJoined ==
  ASSUME Inv, stack # <<>>, NEW D, NEW k, StackLaid(stack, D, k, fn),
         NEW g, NEW D2, NEW k2, \A n \in fn.blocks : D2[n] = D[n],
         Open(g) \cap fn.blocks \subseteq Open(fn),
         \A n \in fn.blocks : BranchedTo(g, n) => BranchedTo(fn, n),
         NEW q \in PendingOf(Top), D[q] \subseteq k2,
         NEW frame \in Frame, FrameLaid(frame, D2, k2, g),
         PendingOf(frame) \subseteq PendingOf(Top),
         NEW child \in Frame, child.visit = "statement"
  PROVE  /\ StackLaid(Leave, D2, k2, g)
         /\ StackLaid(Append(Become(frame), child), D2, k2, g)
<1>1. /\ child.visit \in {"statement", "expression"}
      /\ \E p \in PendingOf(Top) : D[p] \subseteq k2
      /\ \A p \in PendingOf(frame) : k \subseteq D2[p] \/ p \in PendingOf(Top)
  OBVIOUS
<1> QED BY <1>1, StackMoved

\* A step that jumps to a block a visit remembers and goes on in one.
LEMMA LaidJoined ==
  ASSUME Inv, EntryInv, Laid, stack # <<>>, Top.visit \in {"then", "else", "while"},
         WellFormed(fn'), Keeps(fn, fn'), insert' \in fn'.blocks,
         \A b \in fn'.blocks \ Open(fn') : b = insert \/ b \in fn.blocks \ Open(fn),
         NEW target \in Nat,
         target = Top.cont \/ (Top.visit = "while" /\ target = Top.other),
         insert \in Open(fn) => TargetsOf(fn', insert) = <<target>>,
         insert' \in PendingOf(Top), NEW child \in Frame, child.visit = "statement",
         \/ stack' = Leave
         \/ \E frame \in Frame :
              /\ Top.visit = "then" /\ insert' = Top.other
              /\ frame.visit = "else" /\ frame.cont = Top.cont
              /\ stack' = Append(Become(frame), child)
  PROVE  Laid'
<1>1. /\ WellFormed(fn) /\ insert \in fn.blocks /\ fn # NoFunction /\ stack \in Seq(Frame)
  BY EntryFacts DEF NoFunction
<1>2. PICK D, rank : GraphLaid(fn, insert, D, rank) /\ StackLaid(stack, D, D[insert], fn)
  BY <1>1 DEF Laid, LaidOf
<1>3. FrameLaid(Top, D, D[insert], fn)
  BY <1>1, <1>2, StackPopped DEF Top
<1>4. /\ Top.cont \in PendingOf(Top)
      /\ Top.visit = "while" => Top.other \in HeadOf(Top)
      /\ Top.visit = "then" => Top.other \in PendingOf(Top)
  BY DEF PendingOf, HeadOf
<1>5. /\ PendingOf(Top) \subseteq Open(fn) \ {insert} /\ PendingOf(Top) \subseteq fn.blocks
      /\ HeadOf(Top) \subseteq fn.blocks
  BY PendingTop
<1>6. ASSUME insert \in Open(fn)
      PROVE  /\ target \in fn.blocks /\ target # insert /\ D[target] \ {target} \subseteq D[insert]
             /\ (target \in D[insert] /\ ~BranchedTo(fn, target)) \/ target \in Open(fn)
  <2>1. CASE target = Top.cont
    BY <2>1, <1>3, <1>4, <1>5 DEF FrameLaid, Around
  <2>2. CASE Top.visit = "while" /\ target = Top.other
    <3>1. /\ target \in fn.blocks /\ target \notin Open(fn) /\ D[target] \subseteq D[insert]
          /\ ~BranchedTo(fn, target)
      BY <2>2, <1>3, <1>4, <1>5 DEF FrameLaid, Around
    <3>2. target \in D[target]
      BY <3>1, <1>2 DEF GraphLaid
    <3> QED BY <3>1, <3>2, <1>6
  <2> QED BY <2>1, <2>2
<1>7. PICK D2, r2 : LaidNext(D, D2, r2)
  <2>1. insert \in Open(fn) =>
          Forks(TargetsOf(fn', insert)) /\ Range(TargetsOf(fn', insert)) = {target}
    BY ForksFacts
  <2> QED BY <2>1, <1>2, <1>5, <1>6, LaidGrows
<1>8. /\ GraphLaid(fn', insert', D2, r2)
      /\ \A n \in fn.blocks : D2[n] = D[n]
      /\ Open(fn') \cap fn.blocks \subseteq Open(fn)
      /\ \A n \in fn.blocks : BranchedTo(fn', n) => BranchedTo(fn, n)
  BY <1>7 DEF LaidNext
<1>9. D[insert'] \subseteq D2[insert']
  BY <1>5, <1>8
<1>10. StackLaid(stack', D2, D2[insert'], fn')
  <2> DEFINE g == fn'
             k2 == D2[insert']
  <2>1. /\ Open(g) \cap fn.blocks \subseteq Open(fn)
        /\ \A n \in fn.blocks : BranchedTo(g, n) => BranchedTo(fn, n)
        /\ \E q \in PendingOf(Top) : D[q] \subseteq k2
    BY <1>8, <1>9
  <2>2. CASE stack' = Leave
    <3> HIDE DEF g, k2
    <3>1. FrameLaid(child, D2, k2, g) /\ PendingOf(child) = {}
      BY PlainLaid
    <3>2. StackLaid(Leave, D2, k2, g)
      BY <2>1, <3>1, <1>2, <1>8, StackMoved
    <3> QED BY <2>2, <3>2 DEF g, k2
  <2>3. CASE stack' # Leave
    <3>1. PICK frame \in Frame :
              /\ Top.visit = "then" /\ insert' = Top.other
              /\ frame.visit = "else" /\ frame.cont = Top.cont
              /\ stack' = Append(Become(frame), child)
      BY <2>3
    <3>2. PendingOf(frame) = {Top.cont} /\ HeadOf(frame) = {}
      BY <3>1 DEF PendingOf, HeadOf
    <3>3. D2[Top.cont] \ {Top.cont} \subseteq k2
      <4>1. D[Top.cont] \ {Top.cont} \subseteq D[insert']
        BY <3>1, <1>3 DEF FrameLaid
      <4> QED BY <4>1, <1>4, <1>5, <1>8, <1>9
    <3>4. FrameLaid(frame, D2, k2, g)
      BY <3>1, <3>2, <3>3 DEF FrameLaid, Around
    <3> HIDE DEF g, k2
    <3>6. /\ PendingOf(frame) \subseteq PendingOf(Top)
          /\ insert' \in PendingOf(Top) /\ D[insert'] \subseteq k2
      BY <3>2, <1>4, <1>9 DEF k2
    <3>5. StackLaid(Append(Become(frame), child), D2, k2, g)
      BY <2>1, <3>4, <3>6, <1>2, <1>8, StackJoined
    <3> QED BY <3>1, <3>5 DEF g, k2
  <2> QED BY <2>2, <2>3
<1> QED BY <1>8, <1>10, LaidIntro

LEMMA JoiningLaid ==
  ASSUME Inv, EntryInv, Laid, EndThen \/ EndElse \/ EndWhile
  PROVE  Laid'
<1> DEFINE x == Top.other
           c == Top.cont
           child == Visit("statement")
<1>1. stack # <<>> /\ Top.visit \in {"then", "else", "while"}
  BY DEF EndThen, EndElse, EndWhile, InVisit
<1>2. /\ WellFormed(fn) /\ insert \in fn.blocks /\ Top \in Frame /\ fn.blocks \subseteq Nat
  BY <1>1, EntryFacts DEF WellFormed, FunctionType
<1>3. child \in Frame /\ child.visit = "statement"
  BY VisitFacts DEF Visits
<1>4. /\ c \in PendingOf(Top)
      /\ Top.visit = "while" => x \in HeadOf(Top)
      /\ Top.visit = "then" => x \in PendingOf(Top)
  BY <1>1 DEF PendingOf, HeadOf
<1>5. /\ c \in fn.blocks /\ c \in Open(fn) \ {insert}
      /\ Top.visit = "while" => x \in fn.blocks
      /\ Top.visit = "then" => x \in Open(fn) \ {insert} /\ x \in fn.blocks
      /\ ThenFrame(Top, fn) /\ fn.blocks \subseteq 1 .. fn.made
  BY <1>1, <1>4, PendingTop
<1> HIDE DEF child
<1>6. ASSUME NEW t \in fn.blocks, fn' = BrIfOpen(fn, insert, t)
      PROVE  /\ WellFormed(fn') /\ Keeps(fn, fn') /\ fn'.blocks = fn.blocks
             /\ Open(fn') = Open(fn) \ {insert}
             /\ insert \in Open(fn) => TargetsOf(fn', insert) = <<t>>
  BY <1>2, <1>6, BrIfOpenFacts
<1>7. CASE EndElse
  <2>1. /\ stack' = Leave /\ insert' = c /\ fn' = BrIfOpen(fn, insert, c)
    BY <1>7 DEF EndElse
  <2>2. /\ WellFormed(fn') /\ Keeps(fn, fn') /\ fn'.blocks = fn.blocks
        /\ Open(fn') = Open(fn) \ {insert}
        /\ insert \in Open(fn) => TargetsOf(fn', insert) = <<c>>
    BY <2>1, <1>5, <1>6
  <2>3. \A b \in fn'.blocks \ Open(fn') : b = insert \/ b \in fn.blocks \ Open(fn)
    BY <2>2
  <2>4. insert' \in fn'.blocks /\ insert' \in PendingOf(Top) /\ c \in Nat /\ c = Top.cont
    BY <2>1, <2>2, <1>2, <1>4, <1>5
  <2> HIDE DEF c, x
  <2> QED BY <2>1, <2>2, <2>3, <2>4, <1>1, <1>3, LaidJoined
<1>8. CASE EndWhile
  <2>1. /\ stack' = Leave /\ insert' = c /\ fn' = BrIfOpen(fn, insert, x) /\ Top.visit = "while"
    BY <1>8 DEF EndWhile, InVisit, LoopHead
  <2>2. /\ WellFormed(fn') /\ Keeps(fn, fn') /\ fn'.blocks = fn.blocks
        /\ Open(fn') = Open(fn) \ {insert}
        /\ insert \in Open(fn) => TargetsOf(fn', insert) = <<x>>
    BY <2>1, <1>5, <1>6
  <2>3. \A b \in fn'.blocks \ Open(fn') : b = insert \/ b \in fn.blocks \ Open(fn)
    BY <2>2
  <2> QED BY <2>1, <2>2, <2>3, <1>1, <1>2, <1>3, <1>4, <1>5, LaidJoined
<1>9. CASE EndThen
  <2> DEFINE f1 == BrIfOpen(fn, insert, c)
             g == EraseBlock(f1, x)
             frame == [Top EXCEPT !.visit = "else"]
  <2>1. /\ Top.visit = "then"
        /\ Top.flag => fn' = f1 /\ insert' = x /\ stack' = Append(Become(frame), child)
        /\ ~Top.flag => fn' = g /\ insert' = c /\ stack' = Leave
    BY <1>9 DEF EndThen, InVisit, DropFalseBB, child
  <2>2. frame \in Frame /\ frame.visit = "else" /\ frame.cont = c
    BY <1>2 DEF Frame, Visits
  <2>3. /\ WellFormed(f1) /\ Keeps(fn, f1) /\ f1.blocks = fn.blocks
        /\ Open(f1) = Open(fn) \ {insert} /\ SamePre(fn, f1, {c})
        /\ insert \in Open(fn) => TargetsOf(f1, insert) = <<c>>
    BY <1>2, <1>5, BrIfOpenFacts
  <2> HIDE DEF f1, frame
  <2>4. CASE Top.flag
    <3>1. \A b \in f1.blocks \ Open(f1) : b = insert \/ b \in fn.blocks \ Open(fn)
      BY <2>3
    <3>2. fn' = f1 /\ insert' \in fn'.blocks
      BY <2>1, <2>3, <2>4, <1>5
    <3>3. /\ WellFormed(fn') /\ Keeps(fn, fn')
          /\ \A b \in fn'.blocks \ Open(fn') : b = insert \/ b \in fn.blocks \ Open(fn)
          /\ insert \in Open(fn) => TargetsOf(fn', insert) = <<c>>
      BY <2>3, <3>1, <3>2
    <3>4. insert' \in PendingOf(Top) /\ c \in Nat /\ insert' = x
      BY <2>1, <2>4, <1>2, <1>4, <1>5
    <3> QED BY <2>1, <2>2, <2>4, <3>2, <3>3, <3>4, <1>1, <1>3, LaidJoined
  <2>5. CASE ~Top.flag
    <3>1. x # c /\ fn.pre[x] = <<>>
      BY <1>5, <2>1, <2>5 DEF ThenFrame
    <3>2. x \in Open(f1) /\ f1.pre[x] = <<>>
      BY <1>5, <2>1, <2>3, <3>1 DEF SamePre
    <3>3. /\ WellFormed(g) /\ g.blocks = f1.blocks \ {x}
          /\ Open(g) = Open(f1) \ {x} /\ SameCode(f1, g, {})
      BY <2>3, <3>2, EraseBlockFacts
    <3> HIDE DEF g
    <3>4. Keeps(f1, g)
      BY <2>3, <3>2, <3>3, KeepsOutside
    <3>5. Keeps(fn, g)
      BY <2>3, <3>4, KeepsTransitive
    <3>6. \A b \in g.blocks \ Open(g) : b = insert \/ b \in fn.blocks \ Open(fn)
      BY <2>3, <3>3
    <3>7. insert \in Open(fn) => TargetsOf(g, insert) = <<c>>
      <4>1. insert \in f1.blocks \ Open(f1)
        BY <2>3, <1>2
      <4> QED BY <4>1, <2>3, <3>4, ClosedTargets
    <3>8. /\ fn' = g /\ insert' = c /\ stack' = Leave /\ c \in g.blocks
      BY <2>1, <2>3, <2>5, <3>1, <3>3, <1>5
    <3>9. /\ WellFormed(fn') /\ Keeps(fn, fn') /\ insert' \in fn'.blocks
          /\ \A b \in fn'.blocks \ Open(fn') : b = insert \/ b \in fn.blocks \ Open(fn)
          /\ insert \in Open(fn) => TargetsOf(fn', insert) = <<c>>
      BY <3>3, <3>5, <3>6, <3>7, <3>8
    <3> QED BY <3>8, <3>9, <1>1, <1>2, <1>3, <1>4, <1>5, LaidJoined
  <2> QED BY <2>4, <2>5, <1>2 DEF Frame
<1> QED BY <1>7, <1>8, <1>9

LEMMA BuilderStepLaid ==
  ASSUME BuilderAssumption, Inv, Scoping, EntryInv, Laid, BuilderStep
  PROVE  Laid'
<1>1. pre_enter_scope \in BOOLEAN
  BY DEF Scoping
<1> QED
  BY <1>1, FunDeclarationLaid, QuietLaid, EmittingLaid, BranchingLaid, JoiningLaid
     DEF BuilderStep

\* A finished function: every block is closed.
LEMMA BuiltLaid ==
  ASSUME Inv, EntryInv, Laid, Built
  PROVE  \E D, rank :
           /\ D \in [Nat -> SUBSET Nat] /\ rank \in [Nat -> Nat]
           /\ D[Entry] = {Entry}
           /\ \A b \in fn.blocks : /\ b \in D[b] /\ Forks(TargetsOf(fn, b))
                                   /\ Range(fn.succ[b]) = Range(TargetsOf(fn, b))
                                   /\ Range(fn.succ[b]) \subseteq fn.blocks
                                   /\ \A c \in Range(fn.succ[b]) :
                                        /\ EdgeLaid(D, rank, b, c)
                                        /\ rank[b] < rank[c] \/ ~BranchedTo(fn, c)
<1>1. WellFormed(fn) /\ Open(fn) = {} /\ fn # NoFunction
  BY DEF Inv, InvOf, Built
<1>2. PICK D, rank : GraphLaid(fn, insert, D, rank)
  BY <1>1 DEF Laid, LaidOf
<1>3. \A b \in fn.blocks : /\ Range(fn.succ[b]) = Range(TargetsOf(fn, b))
                           /\ Range(fn.succ[b]) \subseteq fn.blocks
  BY <1>1 DEF WellFormed, EdgesAgree
<1> QED BY <1>1, <1>2, <1>3 DEF GraphLaid

\* A list given by its length and its elements.
LEMMA ListOf ==
  ASSUME NEW S, NEW n \in Nat, NEW s \in [1 .. n -> S]
  PROVE  s \in Seq(S) /\ Len(s) = n
<1>1. s \in Seq(S)
  BY SeqDef
<1>2. DOMAIN s = 1 .. n /\ DOMAIN s = 1 .. Len(s) /\ Len(s) \in Nat
  BY <1>1
<1> QED BY <1>1, <1>2

LEMMA BlockLists ==
  ASSUME NEW f, FunctionType(f)
  PROVE  /\ f.made \in Nat /\ f.blocks \subseteq 1 .. f.made
         /\ DOMAIN f.pre = 1 .. f.made /\ DOMAIN f.succ = 1 .. f.made /\ DOMAIN f.code = 1 .. f.made
         /\ \A s \in 1 .. f.made : /\ f.pre[s] \in Seq(1 .. f.made) /\ f.succ[s] \in Seq(1 .. f.made)
                                  /\ f.code[s] \in Seq(Instr)
<1>1. /\ f.made \in Nat /\ f.blocks \subseteq 1 .. f.made
      /\ DOMAIN f.pre = 1 .. f.made /\ DOMAIN f.succ = 1 .. f.made /\ DOMAIN f.code = 1 .. f.made
  BY DEF FunctionType
<1>2. \A s \in 1 .. f.made : f.pre[s] \in Seq(1 .. f.made)
  BY DEF FunctionType
<1>3. \A s \in 1 .. f.made : f.succ[s] \in Seq(1 .. f.made)
  BY DEF FunctionType
<1>4. \A s \in 1 .. f.made : f.code[s] \in Seq(Instr)
  BY DEF FunctionType
<1> QED BY <1>1, <1>2, <1>3, <1>4

LEMMA BlocksReached ==
  ASSUME NEW f, WellFormed(f), Entry \in f.blocks
  PROVE  /\ IsFiniteSet(f.blocks) /\ f.blocks \subseteq Nat
         /\ Reachable(f) \subseteq f.blocks /\ Entry \in Reachable(f)
         /\ \A b \in Reachable(f) : Range(f.succ[b]) \subseteq Reachable(f)
<1> DEFINE next == [b \in f.blocks |-> Range(f.succ[b]) \ {}]
           start == {Entry} \ {}
<1>1. f.blocks \subseteq 1 .. f.made /\ f.made \in Nat
  BY DEF WellFormed, FunctionType
<1>2. IsFiniteSet(f.blocks)
  <2> PICK n \in Nat : n = f.made
    BY <1>1
  <2>1. IsFiniteSet(1 .. n)
    BY FS_Interval
  <2> QED BY <1>1, <2>1, FS_Subset
<1>3. DOMAIN next = f.blocks /\ \A b \in f.blocks : next[b] = Range(f.succ[b])
  OBVIOUS
<1>4. \A b \in f.blocks : next[b] \subseteq f.blocks
  BY <1>3 DEF WellFormed, EdgesAgree
<1>5. Reachable(f) = ReachedFrom(next, start)
  BY DEF Reachable, PathsFrom
<1>6. start = {Entry}
  OBVIOUS
<1> HIDE DEF next, start
<1>7. /\ ReachedFrom(next, start) \subseteq f.blocks
      /\ \A b \in ReachedFrom(next, start) : next[b] \subseteq ReachedFrom(next, start)
      /\ start \subseteq ReachedFrom(next, start)
  BY <1>2, <1>3, <1>4, <1>6, ReachedIsClosed, ReachedContains
<1>8. f.blocks \subseteq Nat
  BY <1>1
<1>9. \A b \in Reachable(f) : b \in f.blocks /\ Range(f.succ[b]) \subseteq Reachable(f)
  BY <1>3, <1>5, <1>7
<1> QED BY <1>2, <1>5, <1>6, <1>7, <1>8, <1>9

LEMMA DominatorsMeaning ==
  ASSUME NEW f
  PROVE  /\ DOMAIN DominatorsOf(f) = Reachable(f)
         /\ \A b \in Reachable(f) :
              DominatorsOf(f)[b] = {a \in f.blocks : b \notin PathsFrom(f, Entry, {a})}
<1> DEFINE without == [a \in f.blocks |-> PathsFrom(f, Entry, {a})]
           dom == [b \in Reachable(f) |-> {a \in f.blocks : b \notin without[a]}]
<1>1. \A g : Table(g) = g
  BY DEF Table
<1>2. DominatorsOf(f) = dom
  BY <1>1 DEF DominatorsOf
<1> HIDE DEF without
<1>3. \A b \in Reachable(f) : dom[b] = {a \in f.blocks : b \notin without[a]}
  OBVIOUS
<1>4. \A a \in f.blocks : without[a] = PathsFrom(f, Entry, {a})
  BY DEF without
<1>5. \A b \in Reachable(f) :
        {a \in f.blocks : b \notin without[a]} = {a \in f.blocks : b \notin PathsFrom(f, Entry, {a})}
  BY <1>4
<1>6. DOMAIN dom = Reachable(f)
  OBVIOUS
<1> HIDE DEF dom
<1> QED BY <1>2, <1>3, <1>5, <1>6

LEMMA LaidReducible ==
  ASSUME Inv, EntryInv, Laid, Built
  PROVE  Reducible(fn)
<1>1. WellFormed(fn) /\ Entry \in fn.blocks
  BY DEF Inv, InvOf, Built, EntryInv, EntryFirst
<1>2. PICK D, rank :
           /\ D \in [Nat -> SUBSET Nat] /\ rank \in [Nat -> Nat]
           /\ D[Entry] = {Entry}
           /\ \A b \in fn.blocks : /\ b \in D[b] /\ Forks(TargetsOf(fn, b))
                                   /\ Range(fn.succ[b]) = Range(TargetsOf(fn, b))
                                   /\ Range(fn.succ[b]) \subseteq fn.blocks
                                   /\ \A c \in Range(fn.succ[b]) : EdgeLaid(D, rank, b, c)
  BY BuiltLaid
<1>3. /\ IsFiniteSet(fn.blocks) /\ fn.blocks \subseteq Nat
      /\ Reachable(fn) \subseteq fn.blocks
      /\ \A b \in Reachable(fn) : Range(fn.succ[b]) \subseteq Reachable(fn)
  BY <1>1, BlocksReached
<1>4. ASSUME NEW a \in fn.blocks
      PROVE  PathsFrom(fn, Entry, {a}) \subseteq {x \in fn.blocks : a \notin D[x]}
  <2> DEFINE next == [b \in fn.blocks |-> Range(fn.succ[b]) \ {a}]
             start == {Entry} \ {a}
             X == {x \in fn.blocks : a \notin D[x]}
  <2>1. start \subseteq X
    BY <1>1, <1>2
  <2>2. ASSUME NEW b \in X PROVE next[b] \subseteq X
    <3>1. next[b] = Range(fn.succ[b]) \ {a} /\ b \in fn.blocks /\ a \notin D[b]
      OBVIOUS
    <3>2. ASSUME NEW c \in Range(fn.succ[b]), c # a PROVE c \in X
      BY <3>1, <3>2, <1>2 DEF EdgeLaid
    <3> HIDE DEF next, X
    <3> QED BY <3>1, <3>2
  <2>3. DOMAIN next = fn.blocks /\ PathsFrom(fn, Entry, {a}) = ReachedFrom(next, start)
    BY DEF PathsFrom
  <2> HIDE DEF next, start, X
  <2>4. ReachedFrom(next, start) \subseteq X
    BY <2>1, <2>2, <2>3, <1>3, ReachedIsLeast
  <2> QED BY <2>3, <2>4 DEF X
<1>5. ASSUME NEW b \in Reachable(fn), NEW a \in fn.blocks, a \in D[b]
      PROVE  a \in DominatorsOf(fn)[b]
  BY <1>4, <1>5, DominatorsMeaning
<1> DEFINE dom == DominatorsOf(fn)
           forward == [b \in Reachable(fn) |-> Range(fn.succ[b]) \ dom[b]]
<1>6. ASSUME NEW b \in Reachable(fn), NEW c \in forward[b]
      PROVE  c \in Reachable(fn) /\ rank[b] < rank[c]
  <2>1. c \in Range(fn.succ[b]) /\ c \notin dom[b] /\ b \in fn.blocks /\ c \in fn.blocks
        /\ c \in Reachable(fn)
    BY <1>2, <1>3
  <2>2. EdgeLaid(D, rank, b, c)
    BY <2>1, <1>2
  <2> QED BY <2>1, <2>2, <1>5 DEF EdgeLaid
<1>7. DOMAIN forward = Reachable(fn) /\ IsFiniteSet(DOMAIN forward)
  BY <1>3, FS_Subset
<1>8. Reducible(fn) <=> \A b \in Reachable(fn) : \A c \in forward[b] :
                           b \notin ReachedFrom(forward, {c})
  BY DEF Reducible, Table
<1> HIDE DEF forward, dom
<1>9. ASSUME NEW b \in Reachable(fn), NEW c \in forward[b]
      PROVE  b \notin ReachedFrom(forward, {c})
  <2> DEFINE X == {x \in Reachable(fn) : rank[c] <= rank[x]}
  <2>1. \A x \in Reachable(fn) : rank[x] \in Nat
    BY <1>2, <1>3
  <2>2. c \in X
    BY <1>6, <2>1
  <2>3. ASSUME NEW x \in X PROVE forward[x] \subseteq X
    <3>1. ASSUME NEW y \in forward[x] PROVE y \in X
      <4>1. y \in Reachable(fn) /\ rank[x] < rank[y] /\ rank[c] <= rank[x]
        BY <1>6
      <4>2. c \in Reachable(fn)
        BY <2>2
      <4> QED BY <4>1, <4>2, <2>1
    <3> HIDE DEF X
    <3> QED BY <3>1
  <2>4. b \notin X
    <3>1. rank[b] < rank[c] /\ c \in Reachable(fn)
      BY <1>6
    <3> QED BY <3>1, <2>1
  <2> HIDE DEF X
  <2>5. {c} \subseteq X
    BY <2>2
  <2>6. ReachedFrom(forward, {c}) \subseteq X
    BY <2>3, <2>5, <1>7, ReachedIsLeast
  <2> QED BY <2>4, <2>6
<1> QED BY <1>8, <1>9

-----------------------------------------------------------------------------
(* The invariants hold at the start and are kept by every step.            *)

LEMMA Initially ==
  ASSUME BuilderInit
  PROVE  Inv /\ Scoping
<1>1. /\ fn = NoFunction /\ insert = 0 /\ stack = <<>> /\ depth = 1
      /\ pre_enter_scope = FALSE /\ nodes = 0
  BY DEF BuilderInit
<1>2. Inv
  BY <1>1, EmptyFunction DEF Inv, InvOf, ShapeOK
<1>3. Scopes(stack) = 0
  <2>1. ScopesAt(stack) = {}
    BY <1>1 DEF ScopesAt
  <2> QED
    BY <2>1, FS_EmptySet DEF Scopes, ScopesAt
<1>4. pre_enter_scope \in BOOLEAN /\ nodes \in Nat
  BY <1>1
<1>5. depth = 1 /\ stack = <<>>
  BY <1>1
<1>6. ScopesBalanced
  BY <1>3, <1>5 DEF ScopesBalanced
<1> QED
  BY <1>2, <1>4, <1>6 DEF Scoping

LEMMA Inductive ==
  ASSUME BuilderAssumption, Inv, Scoping, [BuilderNext]_builderVars
  PROVE  Inv' /\ Scoping' /\ Keeps(fn, fn')
<1>1. pre_enter_scope \in BOOLEAN
  BY DEF Scoping
<1>2. CASE FunDeclaration
  BY <1>2, FunDeclarationInv, FunDeclarationScoping
<1>3. CASE EndFunDeclaration
  BY <1>3, EndFunDeclarationInv, EndFunDeclarationScoping
<1>4. CASE EnterCompoundStmt
  BY <1>1, <1>4, EnterCompoundStmtInv, EnterCompoundStmtScoping
<1>5. CASE LocalDeclaration
  BY <1>5, LocalDeclarationInv, SameStackScoping
<1>6. CASE NextStatement
  BY <1>6, NextStatementInv, NextStatementScoping
<1>7. CASE LeaveCompoundStmt
  BY <1>7, LeaveCompoundStmtInv, LeaveCompoundStmtScoping
<1>8. CASE ExpressionStmt
  BY <1>8, ExpressionStmtInv, OtherScoping
<1>9. CASE EmitSegment
  BY <1>9, EmitSegmentInv, SameStackScoping
<1>10. CASE IndexedVar
  BY <1>10, IndexedVarInv, SameStackScoping
<1>11. CASE EndExpression
  BY <1>11, EndExpressionInv, OtherScoping
<1>12. CASE SelectionStmt
  BY <1>12, SelectionStmtInv, OtherScoping
<1>13. CASE BranchSelection
  BY <1>13, BranchSelectionInv, OtherScoping
<1>14. CASE EndThen
  BY <1>14, EndThenInv, OtherScoping
<1>15. CASE EndElse
  BY <1>15, EndElseInv, OtherScoping
<1>16. CASE IterationStmt
  BY <1>16, IterationStmtInv, OtherScoping
<1>17. CASE BranchIteration
  BY <1>17, BranchIterationInv, OtherScoping
<1>18. CASE EndWhile
  BY <1>18, EndWhileInv, OtherScoping
<1>19. CASE ReturnStmt
  BY <1>19, ReturnStmtInv, OtherScoping
<1>20. CASE EndReturnStmt
  BY <1>20, EndReturnStmtInv, OtherScoping
<1>21. CASE UNCHANGED builderVars
  <2>1. WellFormed(fn)
    BY DEF Inv, InvOf, Flow
  <2>2. Keeps(fn, fn')
    BY <1>21, <2>1, KeepsItself DEF builderVars
  <2> QED
    BY <1>21, <2>2 DEF builderVars, Inv, Scoping, ScopesBalanced, Scopes
<1> QED
  BY <1>2, <1>3, <1>4, <1>5, <1>6, <1>7, <1>8, <1>9, <1>10, <1>11, <1>12,
     <1>13, <1>14, <1>15, <1>16, <1>17, <1>18, <1>19, <1>20, <1>21
     DEF BuilderNext, BuilderStep, Finished

\* The visitor is still at work when it takes a step.
LEMMA BuildingUnbuilt ==
  ASSUME BuilderStep
  PROVE  ~Built
BY DEF BuilderStep, Built, FunDeclaration, EndFunDeclaration, EnterCompoundStmt,
     LocalDeclaration, NextStatement, LeaveCompoundStmt, ExpressionStmt, EmitSegment,
     IndexedVar, EndExpression, SelectionStmt, BranchSelection, EndThen, EndElse,
     IterationStmt, BranchIteration, EndWhile, ReturnStmt, EndReturnStmt, InVisit

LEMMA Implied ==
  ASSUME Inv, Scoping
  PROVE  /\ TypeOK /\ OpenInsertBlock /\ WellTerminated /\ EdgesConsistent
         /\ NoBlockForgotten /\ ScopesBalanced
<1>1. WellFormed(fn) /\ stack \in Seq(Frame) /\ (insert \in fn.blocks \/ fn = NoFunction)
  BY DEF Inv, InvOf, Flow
<1>2. TypeOK
  <2>1. Scopes(stack) \in Nat
    BY <1>1, ScopesFinite
  <2>2. depth \in Nat
    BY <2>1 DEF Scoping, ScopesBalanced
  <2> QED
    BY <1>1, <2>2 DEF TypeOK, WellFormed, FunctionType, Scoping
<1>3. OpenInsertBlock
  BY DEF OpenInsertBlock, Inv, InvOf, Emitting, Top, Unfinished, Open
<1>4. WellTerminated /\ EdgesConsistent
  BY <1>1 DEF WellTerminated, EdgesConsistent, WellFormed
<1>5. NoBlockForgotten
  BY DEF NoBlockForgotten, Inv, InvOf, Flow, Open, Built
<1> QED
  BY <1>2, <1>3, <1>4, <1>5 DEF Scoping

\* The graph also stays laid out as the visitor nests its visits.
Nested == EntryInv /\ Laid

LEMMA InitiallyNested ==
  ASSUME BuilderInit
  PROVE  Nested
BY DEF BuilderInit, Nested, EntryInv, Laid

LEMMA NestedInductive ==
  ASSUME BuilderAssumption, Inv, Scoping, Nested, [BuilderNext]_builderVars
  PROVE  Nested'
<1>1. CASE BuilderStep
  BY <1>1, BuilderStepEntry, BuilderStepLaid DEF Nested
<1>2. CASE UNCHANGED builderVars
  BY <1>2 DEF builderVars, Nested, EntryInv, Laid, LaidOf
<1> QED
  BY <1>1, <1>2 DEF BuilderNext, Finished

\* Every behaviour of the visitor satisfies the invariants.
THEOREM BuilderInvariant == BuilderSpec => [](Inv /\ Scoping /\ Nested)
<1>1. BuilderInit => Inv /\ Scoping /\ Nested
  BY Initially, InitiallyNested
<1>2. (Inv /\ Scoping /\ Nested) /\ [BuilderNext]_builderVars => (Inv /\ Scoping /\ Nested)'
  BY BuilderAssumption, Inductive, NestedInductive
<1> QED
  BY <1>1, <1>2, PTL DEF BuilderSpec

(* Type correctness: the per-block lists of a function under construction  *)
(* cover exactly the blocks made so far, for functions of any size.        *)
THEOREM BuilderTypeCorrect == BuilderSpec => []TypeOK
<1>1. Inv /\ Scoping => TypeOK
  BY Implied
<1> QED
  BY <1>1, BuilderInvariant, PTL

(* The visit functions that emit without asking get_terminator are right   *)
(* not to ask: the insert block is open whenever one of them runs.         *)
THEOREM InsertBlockIsOpen == BuilderSpec => []OpenInsertBlock
<1>1. Inv /\ Scoping => OpenInsertBlock
  BY Implied
<1> QED
  BY <1>1, BuilderInvariant, PTL

(* No block ever has two terminators, or a terminator before its end.      *)
THEOREM BlocksWellTerminated == BuilderSpec => []WellTerminated
<1>1. Inv /\ Scoping => WellTerminated
  BY Implied
<1> QED
  BY <1>1, BuilderInvariant, PTL

(* The edge lists of BasicBlock agree with the terminators and with each   *)
(* other after every step of the visitor.                                  *)
THEOREM EdgesAlwaysConsistent == BuilderSpec => []EdgesConsistent
<1>1. Inv /\ Scoping => EdgesConsistent
  BY Implied
<1> QED
  BY <1>1, BuilderInvariant, PTL

(* When the visitor returns every block ends in a terminator, and before   *)
(* that every open block is the insert block or still to be filled.        *)
THEOREM EveryBlockFinished == BuilderSpec => []NoBlockForgotten
<1>1. Inv /\ Scoping => NoBlockForgotten
  BY Implied
<1> QED
  BY <1>1, BuilderInvariant, PTL

(* Every scope entered is left by the visit that entered it.               *)
THEOREM ScopesAlwaysBalanced == BuilderSpec => []ScopesBalanced
<1>1. Inv /\ Scoping => ScopesBalanced
  BY Implied
<1> QED
  BY <1>1, BuilderInvariant, PTL

(* A block that has its terminator is never touched again.                 *)
THEOREM ClosedStaysClosed == BuilderSpec => ClosedBlocksStayClosed
<1>1. (Inv /\ Scoping) /\ [BuilderNext]_builderVars
      => [\A b \in fn.blocks :
            HasTerminator(fn, b) => /\ b \in fn'.blocks
                                    /\ fn'.code[b] = fn.code[b]
                                    /\ fn'.succ[b] = fn.succ[b]]_builderVars
  BY BuilderAssumption, Inductive DEF Keeps
<1> QED
  BY <1>1, BuilderInvariant, PTL DEF BuilderSpec, ClosedBlocksStayClosed

(* Every function the visitor builds is reducible: each of its loops is    *)
(* entered through the block of its condition alone.                       *)
THEOREM LoopsAreStructured == BuilderSpec => []StructuredLoops
<1>1. Inv /\ Nested => StructuredLoops
  BY LaidReducible DEF Nested, StructuredLoops
<1> QED
  BY <1>1, BuilderInvariant, PTL

=============================================================================
