------------------------------- MODULE Mem2Reg -------------------------------
(***************************************************************************)
(* The Mem2Reg pass on one function: phi placement on iterated dominance   *)
(* frontiers, renaming along the dominator tree with one global stack of   *)
(* values per variable, and the removal of the allocas.                    *)
(*                                                                         *)
(* The instructions of the function stay where the builder put them and    *)
(* are named by block and position; the pass's effect is kept beside them: *)
(* which blocks have a phi for which variable, the pairs of each phi, the  *)
(* operand every use now names (replace_all_use_with), and the             *)
(* instructions deleted.                                                   *)
(***************************************************************************)
EXTENDS CfgTheory

CONSTANTS Locals,   \* scalar variables with an alloca of their own
          Globals   \* GlobalVariables, which the pass leaves alone

VARIABLES
  fn, dom_frontier, dom_tree_succ,   \* read only: the function, Dominators
  stage,          \* what the pass is doing
  phis,           \* the phi instructions, as pairs <<block, variable>>
  pairs,          \* their operands: {[at : phi, from : pred, val : value]}
  operand,        \* the value each load's users and each store now name
  var_val_stack,  \* variable |-> its values, latest last; keys come and go
                  \* with operator[]
  calls,          \* active calls of re_name
  deleted         \* instructions put on wait_delete, and so deleted when
                  \* re_name leaves their block, or by remove_alloca

promotion == <<stage, phis, pairs, operand, var_val_stack, calls, deleted>>
given == <<fn, dom_frontier, dom_tree_succ>>
mem2regVars == <<given, promotion>>

Stages == {"off", "place", "rename", "remove", "promoted", "aborted", "undefined"}

(***************************************************************************)
(* Values: the result of a load, a value a store brings along (`own'), the *)
(* result of a phi.                                                        *)
(***************************************************************************)
Value(kind, b, i) == [kind |-> kind, block |-> b, at |-> i, var |-> 0]
PhiValue(phi)     == [kind |-> "phi", block |-> phi[1], at |-> 0, var |-> phi[2]]

At(id) == fn.code[id[1]][id[2]]

InstrsOf(op, vars) ==
  {id \in UNION {{b} \X DOMAIN fn.code[b] : b \in fn.blocks} :
     At(id).op = op /\ At(id).var \in vars}

\* What a load's users, and a store, name before the pass.
InitialOperand(id) ==
  IF At(id).op = "store" /\ At(id).src = 0 THEN Value("own", id[1], id[2])
  ELSE Value("load", id[1], id[2] - At(id).src)

Mem2RegOff ==
  /\ stage = "off" /\ phis = {} /\ pairs = {} /\ operand = <<>>
  /\ var_val_stack = <<>> /\ calls = <<>> /\ deleted = {}

-----------------------------------------------------------------------------
(* generate_phi                                                            *)

StoreBlocks(v) == {id[1] : id \in InstrsOf("store", {v})}

ProperFrontier(B) == UNION {dom_frontier[b] \ {b} : b \in B}        \* mutant
Frontier(B) == UNION {dom_frontier[b] : b \in B}

PhiBlocksOnce(v) == Frontier(StoreBlocks(v))                      \* mutant

\* The work list: a block that gets a phi passes its own frontier on.
PhiBlocks(v) ==
  LET grown[n \in 0 .. Cardinality(fn.blocks)] ==
        IF n = 0 THEN Frontier(StoreBlocks(v))
        ELSE LET near == grown[n - 1] IN near \cup Frontier(near)
  IN  grown[Cardinality(fn.blocks)]

Rename(b) == [bb |-> b, pc |-> "phis", pos |-> 1, todo |-> {}]

GeneratePhi ==
  /\ stage = "place"
  /\ phis' = UNION {PhiBlocks(v) \X {v} : v \in Locals}
  /\ operand' = [id \in InstrsOf("load", Locals \cup Globals)
                        \cup InstrsOf("store", Locals \cup Globals)
                  |-> InitialOperand(id)]
  /\ calls' = <<Rename(Entry)>>
  /\ stage' = "rename"
  /\ UNCHANGED <<given, pairs, var_val_stack, deleted>>

-----------------------------------------------------------------------------
(* re_name, one instruction or one successor at a time.                    *)

TopRename == calls[Len(calls)]
GoOn(pc, pos, todo) ==
  calls' = [calls EXCEPT ![Len(calls)] =
              [@ EXCEPT !.pc = pc, !.pos = pos, !.todo = todo]]

Renaming(pc) == stage = "rename" /\ calls # <<>> /\ TopRename.pc = pc

\* var_val_stack[v].push_back(vals[v]), creating the key if it is missing.
Push(stacks, vals) ==
  [v \in DOMAIN stacks \cup DOMAIN vals |->
     LET old == IF v \in DOMAIN stacks THEN stacks[v] ELSE <<>>
     IN  IF v \in DOMAIN vals THEN Append(old, vals[v]) ELSE old]

Newest(v) == var_val_stack[v][Len(var_val_stack[v])]

\* Step 3: the phis of the block, one per variable, are its newest values.
RenamePhis ==
  LET here == {phi \in phis : phi[1] = TopRename.bb}
  IN  /\ Renaming("phis")
      /\ var_val_stack' = Push(var_val_stack, [v \in {phi[2] : phi \in here} |->
                                                PhiValue(<<TopRename.bb, v>>)])
      /\ GoOn("instrs", 1, {})
      /\ UNCHANGED <<given, stage, phis, pairs,
                     operand, deleted>>

Current == fn.code[TopRename.bb][TopRename.pos]
CurrentId == <<TopRename.bb, TopRename.pos>>
HasInstr == Renaming("instrs") /\ TopRename.pos <= Len(fn.code[TopRename.bb])

SkipInstr ==
  /\ HasInstr
  /\ Current.op \notin {"load", "store"} \/ Current.var \notin Locals
  /\ GoOn("instrs", TopRename.pos + 1, {})
  /\ UNCHANGED <<given, stage, phis, pairs, operand,
                 var_val_stack, deleted>>

\* Step 4: a load of a variable with a key is replaced by the newest value
\* everywhere; back() of an empty vector is undefined behaviour, and a
\* variable without a key leaves the load alone.
ReplaceUses(load, val) ==
  /\ operand' = [id \in DOMAIN operand |->
                   IF operand[id] = load THEN val ELSE operand[id]]
  /\ pairs' = {[p EXCEPT !.val = IF @ = load THEN val ELSE @] : p \in pairs}

RenameLoad ==
  LET v == Current.var
  IN  /\ HasInstr /\ Current.op = "load" /\ v \in Locals
      /\ IF v \notin DOMAIN var_val_stack
         THEN UNCHANGED <<stage, operand, pairs>>
         ELSE IF var_val_stack[v] = <<>>
         THEN stage' = "undefined" /\ UNCHANGED <<operand, pairs>>
         ELSE /\ ReplaceUses(Value("load", TopRename.bb, TopRename.pos), Newest(v))
              /\ UNCHANGED stage
      /\ GoOn("instrs", TopRename.pos + 1, {})
      /\ deleted' = IF v \in DOMAIN var_val_stack THEN deleted \cup {CurrentId}
                                                  ELSE deleted
      /\ UNCHANGED <<given, phis, var_val_stack>>

\* Step 5: a store makes its operand the newest value.
RenameStore ==
  /\ HasInstr /\ Current.op = "store" /\ Current.var \in Locals
  /\ var_val_stack' = Push(var_val_stack, [v \in {Current.var} |-> operand[CurrentId]])
  /\ deleted' = deleted \cup {CurrentId}
  /\ GoOn("instrs", TopRename.pos + 1, {})
  /\ UNCHANGED <<given, stage, phis, pairs, operand>>

EndInstrs ==
  /\ Renaming("instrs") /\ TopRename.pos > Len(fn.code[TopRename.bb])
  /\ GoOn("successors", 1, {})
  /\ UNCHANGED <<given, stage, phis, pairs, operand,
                 var_val_stack, deleted>>

\* Step 6: every phi of a successor whose variable has a key gets the newest
\* value for this block, under assert(size != 0); without a key no pair is
\* added, and the phi prints [ undef, bb ].
FillSuccessor ==
  LET succ == fn.succ[TopRename.bb][TopRename.pos]
      keyed == {phi \in phis : phi[1] = succ /\ phi[2] \in DOMAIN var_val_stack}
  IN  /\ Renaming("successors")
      /\ TopRename.pos <= Len(fn.succ[TopRename.bb])
      /\ IF \E phi \in keyed : var_val_stack[phi[2]] = <<>>
         THEN stage' = "aborted" /\ UNCHANGED <<pairs, calls>>
         ELSE /\ pairs' = pairs \cup {[at |-> phi, from |-> TopRename.bb,
                                       val |-> Newest(phi[2])] : phi \in keyed}
              /\ GoOn("successors", TopRename.pos + 1, {})
              /\ UNCHANGED stage
      /\ UNCHANGED <<given, phis, operand,
                     var_val_stack, deleted>>

SuccessorsOnly(b) == dom_tree_succ[b] \cap Range(fn.succ[b])       \* mutant
Children(b) == dom_tree_succ[b]

EndSuccessors ==
  /\ Renaming("successors")
  /\ TopRename.pos > Len(fn.succ[TopRename.bb])
  /\ GoOn("children", 1, Children(TopRename.bb))
  /\ UNCHANGED <<given, stage, phis, pairs, operand,
                 var_val_stack, deleted>>

\* The children are a std::set of pointers: any order.
RenameChild ==
  /\ Renaming("children")
  /\ \E b \in TopRename.todo :
       calls' = Append([calls EXCEPT ![Len(calls)].todo = @ \ {b}], Rename(b))
  /\ UNCHANGED <<given, stage, phis, pairs, operand,
                 var_val_stack, deleted>>

\* Step 7: one value per store and per phi of the block is popped; then the
\* marked loads and stores are deleted.
Stored(v, b) == Cardinality({id \in InstrsOf("store", {v}) : id[1] = b})
HasPhi(v, b) == IF <<b, v>> \in phis THEN 1 ELSE 0

PoppedStores(v, b)  == Stored(v, b)                               \* mutant
PoppedOneMore(v, b) == Stored(v, b) + HasPhi(v, b) + 1            \* mutant
Popped(v, b) == Stored(v, b) + HasPhi(v, b)

LeaveBlock ==
  /\ Renaming("children") /\ TopRename.todo = {}
  /\ var_val_stack' =
       [v \in DOMAIN var_val_stack |->
          SubSeq(var_val_stack[v], 1,
                 Len(var_val_stack[v]) - Popped(v, TopRename.bb))]
  /\ calls' = SubSeq(calls, 1, Len(calls) - 1)
  /\ UNCHANGED <<given, stage, phis, pairs, operand,
                 deleted>>

EndRename ==
  /\ stage = "rename" /\ calls = <<>>
  /\ stage' = "remove"
  /\ UNCHANGED <<given, phis, pairs, operand,
                 var_val_stack, calls, deleted>>

\* remove_alloca: the allocas of all scalars go, in every block.
RemoveAlloca ==
  /\ stage = "remove"
  /\ deleted' = deleted \cup InstrsOf("alloca", Locals)
  /\ stage' = "promoted"
  /\ UNCHANGED <<given, phis, pairs, operand,
                 var_val_stack, calls>>

Mem2RegStep ==
  \/ GeneratePhi
  \/ RenamePhis \/ SkipInstr \/ RenameLoad \/ RenameStore \/ EndInstrs
  \/ FillSuccessor \/ EndSuccessors \/ RenameChild \/ LeaveBlock
  \/ EndRename \/ RemoveAlloca

-----------------------------------------------------------------------------
(* The renaming stacks are balanced: whenever re_name is inside a block,   *)
(* the stack of v holds exactly the values of the blocks on the path from  *)
(* the entry down the dominator tree, and nothing a sibling left behind.   *)
Done(frame, v) ==
  CASE frame.pc = "phis"   -> 0
    [] frame.pc = "instrs" ->
         Cardinality({i \in 1 .. frame.pos - 1 :
                        /\ fn.code[frame.bb][i].op = "store"
                        /\ fn.code[frame.bb][i].var = v})
         + HasPhi(v, frame.bb)
    [] OTHER -> Stored(v, frame.bb) + HasPhi(v, frame.bb)

StacksBalanced ==
  stage \in {"rename", "remove", "promoted"} =>
    \A v \in DOMAIN var_val_stack :
      LET sum[n \in 0 .. Len(calls)] ==
            IF n = 0 THEN 0 ELSE sum[n - 1] + Done(calls[n], v)
      IN  Len(var_val_stack[v]) = sum[Len(calls)]

\* The entry block stores to v before it loads v: parameters, for one.
StoredFirst(v) ==
  \E id \in InstrsOf("store", {v}) :
    /\ id[1] = Entry
    /\ \A i \in 1 .. id[2] : <<Entry, i>> \notin InstrsOf("load", {v})

(* The assert in re_name and the read of an empty vector are only reached  *)
(* for a variable that some path uses before any store to it.              *)
FailsOnlyOnUnstored ==
  stage \in {"aborted", "undefined"} =>
    \E v \in Locals : StoreBlocks(v) # {} /\ ~StoredFirst(v)

(* When the allocas are gone no instruction names them any more, except in *)
(* blocks no path reaches and for variables that may be read unset.        *)
Accesses == InstrsOf("load", Locals) \cup InstrsOf("store", Locals)

AccessesRemoved ==
  stage = "promoted" =>
    \A id \in Accesses \ deleted :
      id[1] \notin Reachable(fn) \/ ~StoredFirst(At(id).var)

(* Every phi in a block some path reaches has operands, each for a         *)
(* predecessor of the block and one at most for each, and for a variable   *)
(* that is set before it is read, one for every predecessor: however often *)
(* and in whatever order re_name comes past.                               *)
PhisFilled ==
  stage = "promoted" =>
    \A phi \in phis :
      LET filled == {p \in pairs : p.at = phi}
          sources == {p.from : p \in filled}
          preds == Range(fn.pre[phi[1]])
      IN  phi[1] \in Reachable(fn) =>
            /\ filled # {} /\ sources \subseteq preds
            /\ Cardinality(filled) = Cardinality(sources)
            /\ StoredFirst(phi[2]) => sources = preds

=============================================================================
