----------------------------- MODULE ActiveVars -----------------------------
(***************************************************************************)
(* ActiveVars on the function Mem2Reg leaves: what each block uses and     *)
(* defines, and the backward sweeps that make live_in and live_out of it.  *)
(*                                                                         *)
(* Only values with a name count: results of instructions, arguments and   *)
(* global variables, not constants.  A value a store brings along is the   *)
(* result of an instruction before it, and after an alloca an argument; a  *)
(* condition compares what its block has assigned last.                    *)
(***************************************************************************)
EXTENDS CfgTheory, SequencesExt

CONSTANTS Locals, Globals

VARIABLES
  fn, stage, phis, pairs, operand, deleted,   \* read only, see Mem2Reg
  dom_frontier, dom_tree_succ, var_val_stack, calls,
  analysis,           \* "off", "sweeps" or "done"
  DFSList,
  tables,             \* def, use, phi_in and phi_var, by block
  live_in, live_out

M == INSTANCE Mem2Reg

activeVars == <<analysis, DFSList, tables, live_in, live_out>>

IdleActiveVars ==
  /\ analysis = "off"
  /\ DFSList = <<>> /\ tables = <<>> /\ live_in = <<>> /\ live_out = <<>>

-----------------------------------------------------------------------------
(* buildDFSList: blocks and successors in the order of their lists.  A     *)
(* call of DFSVisit is an entry of `calling'.                              *)
Visit(s) ==
  LET bb == Head(s.calling)
  IN  IF s.calling = <<>> THEN s
      ELSE IF bb \in Range(s.list) THEN [s EXCEPT !.calling = Tail(@)]
      ELSE [list |-> Append(s.list, bb), calling |-> fn.succ[bb] \o Tail(s.calling)]

BuildDFSList ==
  FoldLeft(LAMBDA s, i : Visit(s),
           [list |-> <<>>, calling |-> SelectSeq([b \in 1 .. fn.made |-> b], LAMBDA b : b \in fn.blocks)],
           [i \in 1 .. 3 * Cardinality(fn.blocks) |-> i]).list

-----------------------------------------------------------------------------
(* What an instruction reads, for a phi with the block it is read for      *)
(* (0 otherwise), and what it defines.                                     *)
Reading(values) == {0} \X values
Address(v) == [kind |-> "variable", block |-> 0, at |-> 0, var |-> v]

PhiInstr(b, v) ==
  [phi |-> TRUE, defines |-> {M!PhiValue(<<b, v>>)},
   reads |-> {<<p.from, p.val>> : p \in {q \in pairs : q.at = <<b, v>>}}]

IsArgument(b, i) == i > 1 /\ fn.code[b][i - 1].op = "alloca"

StoresBefore(b, i) == {j \in 1 .. i - 1 : fn.code[b][j].op = "store"}

LastAssigned(b, i) ==
  {operand[<<b, j>>] : j \in {k \in StoresBefore(b, i) : \A l \in StoresBefore(b, i) : l <= k}}

\* The instructions position i of the builder's code stands for.
InstrsAt(b, i) ==
  LET at == fn.code[b][i]
      brought == IF at.op = "store" /\ at.src = 0 /\ ~IsArgument(b, i)
                 THEN <<[phi |-> FALSE, reads |-> {}, defines |-> {M!Value("own", b, i)}]>>
                 ELSE <<>>
      access ==
        CASE <<b, i>> \in deleted -> <<>>
          [] at.op = "load" ->
               <<[phi |-> FALSE, reads |-> Reading({Address(at.var)}),
                  defines |-> {M!Value("load", b, i)}]>>
          [] at.op = "store" ->
               <<[phi |-> FALSE, defines |-> {},
                  reads |-> Reading({Address(at.var), operand[<<b, i>>]})]>>
          [] at.op = "icmp" ->
               <<[phi |-> FALSE, defines |-> {}, reads |-> Reading(LastAssigned(b, i))]>>
          [] OTHER -> <<>>
  IN  brought \o access

\* generate_phi puts the phis of one variable after the other at the front.
InstrsIn(b, order) ==
  FlattenSeq([k \in DOMAIN order |->
                IF <<b, order[k]>> \in phis THEN <<PhiInstr(b, order[k])>> ELSE <<>>])
  \o FlattenSeq([i \in DOMAIN fn.code[b] |-> InstrsAt(b, i)])

-----------------------------------------------------------------------------
(* One block: `used' and `defined' so far, and the block's tables.         *)
NothingScanned == [used |-> {}, defined |-> {}, def |-> {}, use |-> {}, phi |-> {}]

Values(reads) == {r[2] : r \in reads}

Define(s, values) ==
  [s EXCEPT !.defined = @ \cup values, !.def = @ \cup (values \ s.used)]

\* A phi notes the operands that are not defined yet, and for which block.
ScanPhi(s, i) ==
  LET fresh == {r \in i.reads : r[2] \notin s.defined}
  IN  Define([s EXCEPT !.used = @ \cup Values(fresh), !.phi = @ \cup fresh], i.defines)

ScanInstr(s, i) ==
  Define([s EXCEPT !.used = @ \cup Values(i.reads),
                   !.use = @ \cup (Values(i.reads) \ s.defined)], i.defines)

PhisAsOthers(s, i) == ScanInstr(s, i)                             \* mutant
Scan(s, i) == IF i.phi THEN ScanPhi(s, i) ELSE ScanInstr(s, i)

Scanned(instrs) == FoldLeft(Scan, NothingScanned, instrs)

StartAnalysis ==
  /\ stage = "promoted" /\ analysis = "off"
  /\ analysis' = "sweeps"
  /\ DFSList' = BuildDFSList
  /\ \E order \in SetToSeqs(Locals) :
       \E scanned \in {Table([b \in fn.blocks |-> Scanned(InstrsIn(b, order))])} :
         tables' = [b \in fn.blocks |->
                      [def |-> scanned[b].def, use |-> scanned[b].use,
                       phi_in |-> Values(scanned[b].phi),
                       phi_var |-> Values({r \in UNION {scanned[c].phi : c \in fn.blocks} :
                                             r[1] = b})]]
  /\ live_in' = [b \in fn.blocks |-> {}]
  /\ live_out' = [b \in fn.blocks |-> {}]

-----------------------------------------------------------------------------
\* One block of a sweep.
Update(live, bb) ==
  LET out == live.out[bb] \cup UNION {live.in[sbb] \cup tables[bb].phi_var :
                                        sbb \in Range(fn.succ[bb])}
  IN  [in  |-> [live.in EXCEPT ![bb] = (out \ tables[bb].def) \cup tables[bb].use],
       out |-> [live.out EXCEPT ![bb] = out]]

Swept == FoldLeft(Update, [in |-> live_in, out |-> live_out], Reverse(DFSList))

\* do ... while (!fixed), from the last block of DFSList to the first.
Sweep ==
  /\ analysis = "sweeps"
  /\ \E live \in {Swept} :
       /\ live_out' = live.out
       /\ IF live.in # live_in
          THEN live_in' = live.in /\ UNCHANGED analysis
          ELSE /\ live_in' = [b \in fn.blocks |-> live.in[b] \cup tables[b].phi_in]
               /\ analysis' = "done"
  /\ UNCHANGED <<DFSList, tables>>

ActiveVarsStep == StartAnalysis \/ Sweep

-----------------------------------------------------------------------------
(* Liveness by paths: a value is live at the end of a block if some path   *)
(* from there reads it before it defines it, a phi reading its operand at  *)
(* the end of the block it comes from.                                     *)
AllIn(b) == Range(InstrsIn(b, SetToSeq(Locals)))
DefinedIn(b) == UNION {i.defines : i \in AllIn(b)}
ExposedIn(b) ==
  UNION {Values(i.reads) : i \in {j \in AllIn(b) : ~j.phi}} \ DefinedIn(b)
EdgeReads(b) ==
  Values({r \in UNION {i.reads : i \in UNION {AllIn(c) : c \in Range(fn.succ[b])}} : r[1] = b})

\* The blocks at whose end v is live.
LiveAtEnd(v) ==
  ReachedFrom([b \in fn.blocks |-> IF v \in DefinedIn(b) THEN {} ELSE Range(fn.pre[b])],
              {b \in fn.blocks : \/ v \in EdgeReads(b)
                                 \/ \E c \in Range(fn.succ[b]) : v \in ExposedIn(c)})

PhiOperands(b) == UNION {Values(i.reads) : i \in {j \in AllIn(b) : j.phi}}

\* A value a phi of its own block reads, over a back edge.
ReadBackwards(v) == \E b \in fn.blocks : v \in DefinedIn(b) \cap PhiOperands(b)

(* When the sweeps end the sets are liveness along paths, with the phi     *)
(* operands of a block added to its live_in; except for values that a phi  *)
(* of their own block reads over a back edge.  What such a value misses is *)
(* less: one that is no phi itself is never left out.                      *)
LivenessExact ==
  analysis = "done" =>
    \A v \in UNION {DefinedIn(b) \cup ExposedIn(b) \cup PhiOperands(b) : b \in fn.blocks} :
      LET after == LiveAtEnd(v)
          before == {b \in fn.blocks : \/ v \in ExposedIn(b)
                                       \/ b \in after /\ v \notin DefinedIn(b)
                                       \/ v \in PhiOperands(b)}
          listedAfter == {b \in fn.blocks : v \in live_out[b]}
          listedBefore == {b \in fn.blocks : v \in live_in[b]}
      IN  /\ ReadBackwards(v) \/ (listedAfter = after /\ listedBefore = before)
          /\ v.kind = "phi" \/ (after \subseteq listedAfter /\ before \subseteq listedBefore)

=============================================================================
