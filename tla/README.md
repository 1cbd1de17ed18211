# A verification project for the CminusF compiler

The compiler translates CminusF, a small C-like language, to LLVM IR text. A
parser builds a syntax tree, `CminusfBuilder` visits it and emits LightIR (an
in-memory IR of functions, basic blocks and instructions), passes transform the
IR, and a printer writes it out for `clang`. Everything runs in one thread; what
is hard here is not concurrency but long sequences of small updates to shared,
redundant tables (instruction lists, predecessor and successor lists, operand
vectors and use lists, renaming stacks) on programs of any shape, by code that
iterates over sets of pointers in any order. The tests compile a few dozen fixed
programs; this project looks at *all* small programs, and at all programs where
there is a proof.

## Inventory

| component | state | operations | what makes it correct |
|---|---|---|---|
| `CminusfBuilder` (`src/cminusfc/cminusf_builder.cpp`) | insert block, current function, visit stack, `pre_enter_scope`, `tmp_val`, `require_lvalue` | one visit function per syntax node | never emits into a closed block; every block gets one terminator, at its end; scopes balance; graphs are structured; code is well typed and computed before it is used |
| `Scope` (`cminusf_builder.hpp`) | list of name tables | `enter`, `exit`, `push`, `find` | it is a lexical environment |
| LightIR control flow (`BasicBlock`, `Function`, `BranchInst`, `ReturnInst`) | block list, instruction lists, `pre_bbs_`, `succ_bbs_` | create block, append instruction, `create_br`, `create_cond_br`, `remove` | edge lists agree with the terminators and with each other |
| LightIR types and constructors (`Type`, `Instruction`, `IRBuilder`) | interned types | pointer, element and result types | each instruction has the type its operands give it |
| LightIR def-use (`Value`, `User`) | `operands_`, `use_list_` | `set_operand`, `add_operand`, `replace_all_use_with`, `remove_use_of_ops`, `remove_operands` | each table tells the truth about the other |
| naming (`Function::set_instr_name`) | names, `seq_cnt_` | number the unnamed values | an operand's name is its own |
| `Dominators` | post-order numbers, `idom_`, frontiers, tree | four passes over the graph | asserts hold; result is dominance; it ends |
| `Mem2Reg` | phis, global `var_val_stack`, deletions | `generate_phi`, `re_name`, `remove_alloca` | the program computes the same values; no access to a removed alloca is left |
| `ConstPropagation` | the IR, `global_value` | fold constants, forward stores, fold branches, remove blocks | the program does the same; edge lists follow the folded branches |
| `LoopSearch` | CFG copy, Tarjan stack, loop tables | components, base, removal, repeat | finds the natural loops; tells the inner from the outer |
| `LoopInvHoist` | the IR, `rightnoassign`, `rmlist` | move invariant instructions before the loop | one terminator per block; instructions stay behind their operands |
| `ActiveVars` | `use`, `def`, `live_in`, `live_out`, `phi_*`, `DFSList` | backward fixed point | the sets are liveness along paths |
| driver, `PassManager` (`cminusfc.cpp`) | pass list | build, run the passes in order, print | each pass gets what it assumes |
| lexer, parser, AST, printer, `io.c`, logging | – | – | not modelled, see the end |

The components interact by calls on the shared IR: the builder and the passes
change it through `BasicBlock`, `Function`, `BranchInst`, `Value` and `User`;
the builder finds names in `Scope`; `Mem2Reg` runs `Dominators` and reads its
tables; `LoopInvHoist` runs `LoopSearch`. The driver always runs `Mem2Reg`, then
the passes asked for; it, `ActiveVars`, `LoopInvHoist` and the printer number
values in between.

## Modules

    Reachability, ControlFlow ── CfgTheory (reference definitions) ──┬── Builder ──┬── MCBuilder
                                                                     ├── Dominators, Mem2Reg, ActiveVars,
                                                                     │   LoopSearch, ConstPropagation,
                                                                     │   LoopInvHoist, ComponentSearch
    Builder ──┬── Pipeline  (Builder + Dominators) ── MCPipeline
              ├── Promotion (Builder + Mem2Reg, then Execution or ActiveVars) ── MCPromotion
              └── Passes    (Builder + LoopSearch + ConstPropagation + LoopInvHoist) ── MCPasses
    Scope, Types, Reachability ── Expressions ──┬── MCExpressions
                                                └── Folding (the folder + runs) ── MCFolding
    DefUse ── Naming ── MCDefUse
    Environment     ◁── Scope                       (Scope implements Environment)
    ComponentSearch ◁── Tarjan ── MCTarjan          (Tarjan implements ComponentSearch)

    CfgProofs ──┬── DominatorsProofs ──────────────── PipelineProofs
      (of       ├── BuilderProofs ──┬── PipelineProofs
      CfgTheory)│                   ├── PassesProofs
                │                   └── PromotionProofs
                ├── HelperProofs      (of Tarjan, DefUse and Naming)
                └┄┄ ExpressionsProofs (of Scope, Expressions, Folding)

* **ControlFlow** – a `Function` as a record: the blocks (named by order of
  creation), their instructions, and the `pre` and `succ` lists as sequences,
  because their order and repetitions matter to the passes. `create_cond_br`
  really appends the false target first.
* **Builder** – the visitor's control flow for one function. The C++ call stack of
  visit functions is the variable `stack`, each frame holding what the function
  still needs (`need_exit_scope`, `falseBB`/`exprBB`, `contBB`); an action is the
  stretch of a visit function between two visits of children. The program is not
  fixed: where the visitor asks for a child, any child may come, so the behaviours
  are the visits of all functions of at most `MaxNodes` nodes. An expression is a
  sequence of straight-line segments from `Segments` and of index checks
  (`IndexedVar`), the only expressions that make blocks.
* **Scope** – the list of maps, with `insert` that does not replace a binding.
  **Environment** is what it promises: the bindings in force are a function, a
  block saves and restores it, a declaration binds its name unless the block did.
  `LexicalScoping` is the refinement, under `env <- what find says of each name`,
  `own <- the innermost map's names`, `saved <- what find would say in each
  enclosing block`.
* **Types** – the types, kinds of values and result types of the constructors.
* **Expressions** – the visitor on declarations, parameters and every expression
  form, with the instructions it emits: `promote`, the conversions of `=`,
  arguments, subscripts and `return`, `require_lvalue` and `tmp_val`. Here too the
  program is chosen while it is visited. A body has declarations, blocks,
  expressions, `return` and `if` without `else`; the other statements are
  Builder's.
* **Folding** – ConstPropagation on the values of such a function: one step per
  instruction it looks at, and the four `compute` functions at `Width` bits. The
  constants are folded, a load becomes what the block last stored, a branch on a
  constant becomes a jump. `Outcome` (external) runs the code before and after:
  calls with their arguments, result, and globals at the end. The host's division
  may trap (`TrapFolding`), which stops the compiler. The last `else` of the chain
  is entered for every other instruction of a block that ends in a branch, and it
  is the *instruction at hand* that is deleted, not the branch.
* **Dominators** – `Dominators::run` on one function, a step per turn of each
  loop and per return of `post_order_visit` and `intersect`. A failing assert
  leads to phase `aborted`; `nullptr` is `Null`, and it is a key of the frontier
  map, as `std::map::operator[]` makes it one.
* **Reachability**, **CfgTheory** – what the results are compared with: the nodes
  reached from a set, dominance, immediate dominators, frontiers and reducibility
  by their path definitions. Nothing in them is translated from the code.
* **Pipeline** – Builder, then Dominators on what it built.
* **Mem2Reg** – phi placement and renaming. Instructions keep their place and
  name; the effects are kept beside them (`phis`, `pairs`, `operand`, `deleted`).
  `re_name` is a stack of calls, a step per instruction and per successor. The
  children in the dominator tree are a `std::set` of pointers, so any order is
  possible. Reading `back()` of an empty vector leads to stage `undefined`, the
  failing assert to `aborted`.
* **Execution** – external: what the emitted IR does when it runs. The original
  and the promoted program are executed side by side along one path. Values are
  (store site, tick), so that values of different turns of a loop differ; a
  predecessor without a phi pair gives undef, as `PhiInst::print` writes it.
* **ActiveVars** – `buildDFSList`, the `use`/`def` scan of each block with its
  special treatment of phis, and the sweeps, on the function Mem2Reg leaves.
  `DFSList` keeps the blocks of earlier functions; they have no successors and no
  values of this function, so a sweep does nothing to them, and the model starts
  it empty.
* **Promotion** – Builder, then Mem2Reg, then Execution or ActiveVars. Dominators
  enters as the reference definitions, which `IdomCorrect`, `FrontierCorrect` and
  `DominatorsTerminate` show it computes on the graphs where it ends; on the
  others Mem2Reg never starts.
* **Tarjan** – `strongly_connected_components` and `traverse` of LoopSearch on one
  graph: a stack of calls, a step per call, per successor and per return. Roots
  and successors are `unordered_set`s of pointers, so they come in any order.
  **ComponentSearch** is what it promises (components of two nodes or more are
  collected whole, in some order, and the search returns with all of them);
  `FindsComponents` is the refinement, under the mapping
  `graph <- succs, found <- result, done <- returned`.
* **LoopSearch** – `run` on one function and the queries on its tables. The
  components of a round are those of the reference definition, which Tarjan was
  shown to find; a step takes one component: its base, the entries of `bb2base`,
  the removal of the base's edges. A successor that is no block of the function
  any more has the null node `operator[]` gives it, and `traverse` crashes on it.
* **ConstPropagation** – what the pass does to the control flow of any graph: fold
  the branch of a block whose condition came out constant (any condition may),
  then erase blocks without predecessors round by round.
* **LoopInvHoist** – on the loops found, a step per round of a loop: mark
  (`RightNoAssign`), move to the block before the loop with its terminator made
  again for every instruction (`MoveInstr`, `RetMovFinal`), delete (`Deleted`).
  Three instructions that use each other in a chain stand for the code; they start
  anywhere in and around the loops. Loops and blocks are sets of pointers, so they
  come in any order. A moved instruction is a new object of the old name (`src` 1).
* **Passes** – Builder, LoopSearch, ConstPropagation, and LoopInvHoist. When
  `-loop-inv-hoist` follows `-const-propagation` only the new LoopSearch that
  `LoopInvHoist::run` begins with is followed; without it, the moving. Graphs with
  a reachable join that has an unreachable predecessor do not get here: `Mem2Reg`
  hangs on them.
* **DefUse** – operand vectors and use lists, with the operations passes perform
  on them in any order. The use list is a set: all code treats equal entries
  alike. A pass replaces an instruction, and deletes what it
  replaced or what nothing uses; `remove_operands`, which nothing calls, is left
  out.
* **Naming** – `set_instr_name` at any moment between those operations.
* **MC\*** – TLC instances. **\*Proofs** – theorems.

`PROJECT.json` maps each definition to the lines it models.

## What the runs show

| run | bounds | shows |
|---|---|---|
| `MCBuilder` | 5 nodes, all node forms | `TypeOK`, `OpenInsertBlock`, `WellTerminated`, `EdgesConsistent`, `ScopesBalanced`, `NoBlockForgotten`, `StructuredLoops`, `ClosedBlocksStayClosed` |
| `MCExpressions` | 5 nodes, 2 names, `int`, `float` and `int[]`, a function of an `int` and an array that returns a `float` | `WellTyped`, `DefinitionsDominate`, `TruncatedWhereStated`, `LexicalScoping` |
| `MCFolding` | 6 nodes, 1 name, `+`, `/`, `<`, 3 bits, globals that start with 0 or 1 | `FoldingPreserves`, `FoldedWellTyped` |
| `MCPipeline` | 5 control nodes | `AssertsHold`, `IdomCorrect`, `FrontierCorrect`, `DominatorsTerminate` |
| `MCPromotion` | 6 nodes, loops only, initialised variables, 2 ticks | `StacksBalanced`, `ProgramsAgree`, `LivenessExact` |
| `MCPromotionBranches` | 5 nodes, branches, loops and returns, a parameter and an uninitialised local | `FailsOnlyOnUnstored`, `PhisFilled`, `AccessesRemoved`, `ProgramsAgree` |
| `MCTarjan` | all graphs of 4 blocks of out-degree at most 2, up to renaming | `LowlinkWitnessed`, `FindsComponents` |
| `MCPasses` | 4 control nodes, chains of 3 instructions | `LoopsNatural`, `LoopQueriesCorrect`, `PredecessorsCurrent`, `NothingExecutableErased`, `OnlyLoopsLeft`, `HoistKeepsShape`, `OperandsPrecede`, `InvariantsHoisted`, `PassesEnd` |
| `MCDefUse` | 3 instructions, 1 leaf, 2 operands | `NamesResolve`, `UsesComplete`, `NoDanglingOperand`, `ReplacesEveryUse` |

*Bounds.* Four control nodes are enough for a loop in a loop, a branch in a loop
with returns in both arms, and code behind a return; five give sequences of
these and branches in branches, which is where the frontiers iterate and the
runner meets unreachable predecessors. The closing empty statement is free
(`ExpressionStmt`), so every visit can be completed. `Ticks` bounds the values
told apart (modulo): two distinguish this turn of a loop from the last. For `DefUse` the replaced, the replacing and the using
instruction are three; two operands allow one user to name a value twice.
In `MCPromotion*` the programs are built from assignments of constants and
copies between `x`, `y` and the global `g`, in conditions and in bodies: the
lost-copy and chained-copy shapes that renaming gets wrong, and phis that read
each other over a back edge. Six nodes are what
it takes for the frontiers to iterate visibly (a mutant that places phis once
only survives four). A LightIR block has at most two successors, which is the
out-degree of `MCTarjan`; four blocks hold two components, a component in which
a lowlink travels over two calls, and a successor that is visited but no longer
on the stack. Roots come in any order, so one graph of each class under renaming
is enough. The graphs of `MCPasses` have up to a dozen blocks; with four control
nodes there are loops in loops, sequences of loops and loops cut off by a folded
branch; a chain of three holds an operand that is hoisted in an earlier round
and one that never is. In `MCExpressions` five nodes hold an assignment to an
element whose subscript is an assignment, a call with a subscript as argument, a
mixed operator under a condition, and a local that hides a global or a parameter.
In `MCFolding` six nodes hold a store, a call and a load of one global in a
block, and a condition computed from constants with a statement under it; three
bits let sums wrap and quotients truncate in both directions.
`MCDefUse`, `MCExpressions` and `MCFolding` switch deadlock checking off: when
every instruction is created and deleted, or the function is finished, nothing
can happen.

*Fairness.* `DominatorsTerminate` and `DominatorsGenerated` need weak fairness of
`RunDominators`, `FindsComponents` that of `TarjanStep` (the abstract search
returns), `PassesEnd` and `HoistSearchEnds` that of `PassesStep`: each time the
steps of one sequential pass, which simply executes its next statement. The
builder's own choices carry no fairness.

### Disagreements found

| run | violated | what happens |
|---|---|---|
| `MCPipelineHang` | `DominatorsGenerated` | A reachable join with an unreachable predecessor, as in `while (a) { if (b) return; else return; }`: the loop head is joined from the dead block behind the `if`, and the runner of `create_dominance_frontier` climbs on `nullptr` for ever. The compiler hangs, since `Mem2Reg` always runs. |
| `MCPassesHoist` | `HoistSearchEnds` | `CodeReading.md` says the search builds the graph of the function and finds its loops. Folding a branch does not update the successor list; after the target is erased, `build_cfg` gives the block a null successor, and `-const-propagation -loop-inv-hoist` crashes. |
| `MCPassesOrder` | `OrderKept` | The report says the order of hoisting need not be considered. An operand hoisted out of the inner loop only is a new object, to which its user does not point; the outer loop hoists the user as if nothing in it computed the operand. |

Elsewhere the positive properties say exactly how far the code is right, and the
exceptions they name are disagreements too:

* `FailsOnlyOnUnstored` – `int y; if (c) y = 1; else ; ...` can fail the assert of
  `Mem2Reg.cpp:134`, where the comment in line 138 promises an undef operand, or
  read `back()` of an empty vector; but only for variables that may be unset.
* `AccessesRemoved` and `PhisFilled` – unreachable blocks keep their loads and
  stores although their alloca is deleted.
* `OnlyLoopsLeft` – the lab's text (`lab5/README.md:66`) asks that all blocks that
  become unreachable are deleted; a loop whose entry is folded away keeps itself
  and what follows it.
* `FoldingPreserves` – a load is replaced by the block's last store even behind a
  call that changes the global.
* `FoldedWellTyped` – a folded comparison of floats is a float constant where an
  `i1` is needed, so the printed code is ill-typed (`lab5/README.md:56` asks for
  integers and floats to be considered).
* `LivenessExact` – a phi that an earlier phi of its own block reads over the back
  edge is missing from `live_out`, and a value defined in a block and read by its
  phis is reported live up to the entry (`lab5/README.md:98` has phi operands
  live out of the block they come from).
* `DominatorsTerminate` – no reachable join has an unreachable predecessor;
  `PredecessorsCurrent` – the predecessor lists, on which the erasure works, stay
  right; `OperandsPrecede` – but for operands that leave an inner loop.

## What is proved

All theorems hold for every value of the constants: any program, any expression
code, any number of instructions, operands, names and values. Their assumptions
are `TarjanAssumption` (finitely many blocks, successors among them),
`BuilderAssumption` (the bound is a number; expression and parameter code has
no terminator), `DefUseAssumption` (leaves are not instructions),
`NamingAssumption` (finitely many arguments and blocks), `PromotionAssumption`
(variables are numbers, none is local and global), `CopyAssumption` (a store to
a variable brings its own value or takes over that of a load before it in the
code of the same expression), `ScopeAssumption` (no value
means "unbound"), `ExpressionsAssumption` (the declared types, literals,
operators and signatures are the language's; the program's functions come after
the built-in ones, `neg_idx_except` among them, and no variable has its name).

**CfgProofs.** `ReachedFrom` takes as many steps as there are nodes, and
`ReachedIsLeast` says what that computes: the smallest set that holds the start
and that no edge leaves. The induction is over a set of numbers, by its least
element (`LeastNumber`), which needs no induction theorem: a step that adds
nothing stays what it is, one that adds something makes the set larger, and a set
of n nodes cannot grow more than n times. Everything below about paths rests on
it, by *separation*: a set that holds the start and that no edge leaves holds all
that is reached.

**BuilderProofs.** `OpenInsertBlock` is not inductive: that the block is open
when the visitor returns to a selection after its first arm depends on `falseBB`
having been left alone meanwhile, and `EdgesConsistent` depends on the erased
`falseBB` having no edges. The inductive invariant `Inv` says

* `WellFormed` – the function record is typed, every block has at most one
  terminator and at its end, the edge lists agree with it, no block that exists
  was given an edge beyond the blocks made;
* `FramesOK` – the blocks the active visits still have to fill (`falseBB`,
  `contBB`) are open, pairwise different, different from the insert block and
  from the loop heads, and a `falseBB` nobody branches to has no predecessor;
* `ShapeOK` – the stack has the shape the visit functions give it;
* the insert block is open in a visit that emits; and the open blocks are the
  insert block and the pending ones, no others.

`Inductive` has one lemma per action, with the effects of `CreateBlock`,
`CreateBr`, `CreateCondBr`, `CreateRet` and `EraseBlock` on the edge lists taken
from the lemmas about ControlFlow the module begins with. From it follow `BuilderTypeCorrect`,
`InsertBlockIsOpen`, `BlocksWellTerminated`, `EdgesAlwaysConsistent`,
`EveryBlockFinished`, `ScopesAlwaysBalanced` (with the invariant `Scoping` on the
visits that opened a scope) and the action property `ClosedStaysClosed`.

`LoopsAreStructured` (`StructuredLoops`: every cycle is entered at one block only)
needs two witnesses that the code does not keep, and that the invariant `Nested`
says exist: a set D(b) for each block, of blocks that every path to b passes, and
a rank in the order of the source. An edge goes up in rank, or back to a block of
D of where it starts; what it adds to D is the target alone. For the blocks still
to be filled, and for the head of a loop being visited, the sets nest as the
visits on the stack do, so that the jump a visit makes at its end keeps the rule.
The rule also says that a block that is jumped back to is no target of a
conditional branch (`BranchedTo`), since branches go to new blocks only; the loop
queries below need it.

**DominatorsProofs**, **PipelineProofs.** `DominatorAssertsHold` (`AssertsHold`),
`ImmediateDominatorsCorrect` (`IdomCorrect`) and `DominanceFrontiersCorrect`
(`FrontierCorrect`). For any function whose two edge lists agree and whose entry
has no predecessor, phase by phase:

* *the post order*: blocks on the call stack of `post_order_visit` lead one to
  the next; a block with a number that is not on it has numbered successors only.
  So every block reached is numbered, and each but the entry has a predecessor
  with a greater number;
* *`create_idom`*: `idom_` of a block is numbered higher than the block, so the
  climbs of `intersect` go up and meet, at the latest in the entry, and never
  read a null entry: this is the assert. Whatever dominates a block is among its
  ancestors in the table, in every sweep (`Covers`). A sweep that changes nothing
  leaves a table in which each block's entry is an ancestor of all its
  predecessors (`Swept`); then an ancestor separates the block from the entry
  (`Solved`), so ancestors and dominators are the same;
* *the frontiers*: a runner stands on an ancestor of a predecessor that is no
  strict ancestor of the join, and passes each of them, so that a frontier misses
  nothing and holds nothing else.

That the visitor's functions have no edge to the entry is `EntryInv`, by the
Builder's invariant: no loop head and no pending block is the entry.

**PassesProofs.** `PredecessorsStayCurrent` (`PredecessorsCurrent`),
`ExecutableBlocksStay` (`NothingExecutableErased`) and `LoopsAloneAreLeft`
(`OnlyLoopsLeft`). What the visitor hands over is `Current`: no block jumps to
itself or twice to one block, and the predecessor lists say who jumps where. A
folded branch and an erased block keep that, although the successor lists then
name blocks nothing jumps to any more; an erasure round removes the blocks one by
one from the lists, by induction over the subset already removed. A block with
no predecessor that is not the entry is not executable, by separation. When every
block but the entry has a predecessor, the blocks from which something that is
not executable can be reached, taken minimal, contain a cycle.

`LoopsFoundAreNatural` (`LoopsNatural`): in whatever order the components of a round
come. The invariant `LoopInv` is about the copy of the graph (`CopyInv`): the nodes
taken out have no edges from those that are left, the other edges are those of the
function, what is still to be looked at in this round are components of the copy,
and of a loop the header goes first. A component of reachable blocks has a block
that dominates the others and is jumped back to, the first in an order in which
only back edges lead backwards: the function is reducible (`LaidReducible`,
BuilderProofs). The natural loop of that block has lost no block, so it is strongly
connected in the copy, hence the component; and its header alone can be entered, so
that `find_loop_base` finds it. A header that is left is one of a component, so the
search does not end before all are taken. This needs that no reachable join has an
unreachable predecessor, on which the driver never gets past Mem2Reg (see
Pipeline).

`LoopQueriesAreCorrect` (`LoopQueriesCorrect`): two natural loops with different
headers are disjoint or one is in the other, and then the header of the inner one
is too (`Laminar`). So the loop recorded last around a block is the innermost of
those recorded (`Recorded`): a component holds no header that went before. For
`get_parent_loop`, the predecessor of the header that lies outside the loop is in
every loop around the loop; the other way round, the innermost loop around that
predecessor holds the header because a block before the header of a loop has no
other successor (`JumpedTo`, from the rule on branches) and from a block of a loop
some edge stays in it (`LoopStays`). If a loop could be left straight into the
header of the next one, the query would ask for the loop just left and miss the
parent of both.

**HelperProofs.** First Tarjan's search. `LowlinksAreWitnessed` (`LowlinkWitnessed`) and
`OnlyComponentsAreFound`, the refinement of ComponentSearch but for its fairness:
every step of the search adds one whole component or nothing, and the search
returns only with all of them, on every finite graph and in every order of the
pointers. The inductive invariant, `TarjanInvariant`, is about the stack: a node
on it leads to every node above it (`LaterReached`) and to each active call below
the next call (`CallReached`), and its lowlink is the index of a node on the stack
it leads to (`LowlinkReached`). So what stands above a call whose lowlink is its
index lies in one component. That it is all of it needs the edges that leave it:
none goes to a node that was not visited (`AllSeen`: the call would still wait for
it), none to a node below the call (`LowlinkLowest`: the lowlink of a call is no
higher than any node an edge of its calls has come to), and what was popped before
leads back to nothing on the stack (`PoppedClosed`). At the end everything was
popped, so all components were collected (`Collected`). No fact about the order
of the calls on the stack needs induction: the invariant states it for all pairs.

Then the def-use tables and the names, also in HelperProofs. For DefUse the
invariant `Tables` joins typing, `UsesComplete` and `NoDanglingOperand`: a deletion may drop uses only because nothing live names
a replaced instruction, and a replacement reaches everything only because the use
lists are complete. It gives `DefUseTypeCorrect`, `UseListsComplete`,
`NothingDangles` and `ReplacementReachesAll`. `PrintedNamesResolve` needs besides
that all names lie below the count and differ (`NamesOK`), which a call keeps
because it numbers a finite set of values from the count on.

**PromotionProofs.** `StacksAlwaysBalanced` (`StacksBalanced`),
`PassFailsOnlyOnUnstored` (`FailsOnlyOnUnstored`), `AllAccessesRemoved`
(`AccessesRemoved`) and `AllPhisFilled` (`PhisFilled`), from one inductive
invariant (`PromotionInvariant`); and `PromotionPreservesRuns`
(`ProgramsAgree`), from a second one (`AgreeInv`). None of the first four is
inductive, because each
speaks of what `re_name` has come past, and the pass keeps no record of that. The
invariant says where it is from the calls alone:

* what is left hangs below the active calls (`Awaits`): the subtrees of the
  dominator tree under the children that are not called yet. `CallsNested`: no
  block of an active call is awaited, a block has one call, and only the last is
  not at its children. So a block leaves `Awaits` once, when it is called, and by
  then every block that dominates it is at its children or done
  (`DominatorsFirst`, `CallMade`, `CallReturns`);
* `Balanced`: there are partial sums of what the calls have pushed (`Sums`; the
  function that StacksBalanced computes is unique), and the last is the height of
  the stack, so that what `LeaveBlock` pops is what its block pushed;
* `KeysMade`: a variable that a renamed store or phi has set has a key in
  `var_val_stack`. A variable stored first in the entry keeps that value at the
  bottom of its stack, so the stack is never empty when it is read: hence the
  assert and the read of an empty vector need a variable that is not;
* `LoadsGone`, `PairsMade`, `PairsFresh`: what has been renamed is deleted, an edge
  that was come past has its pair for each phi with a key, and one that was not has
  none – so that no phi gets two pairs for one predecessor (an edge taken twice
  would bring the same pair: the stacks do not change in between);
* `PhisPlaced`: phis stand only where edges meet, in or beyond a frontier, by the
  recursion of `PhiBlocks`, so that each has a predecessor the renaming comes to.

The results of Dominators enter as `Given`, which `DominatorsGiven` derives from
the definitions DominatorsProofs proves the code to compute.

That the promoted program does what the original one does needs to know *which*
values these are. `Reaching` says it by the dominator tree alone: the value a
variable has at a point is what the last store before the point in its block
names, or the phi of the block, or what the closest block above leaves. `NamesInv`
says that the pass computes just this:

* `StacksNamed`: for each active call the stack holds, at the height its partial
  sum gives, the value its variable has where the call is at work. A child
  inherits what reaches the end of its parent (`InheritedFromParent`), and
  because the children of a block are called in any order, that value must not
  depend on what a sibling did (`ReachingSettled`: it depends on stores in
  blocks above only, and those are renamed);
* `LoadsNamed`, `PairsNamed`: a renamed load is replaced by the value that reaches
  it, a phi is given the one that reaches the end of the predecessor. Replacing
  the uses of a load must not touch what was given before: `OperandsDefined` –
  a value is defined before the point that names it – shows that nothing behind
  the renaming names the load at hand (`RenamedOther`, `PairsOther`);
* `StoresNamed`: a copy names what the load it copies is replaced by
  (`CopyAssumption`, `BuilderCopies`);
* `PhisClosed`: where a block that sets a variable has its frontier, a phi stands:
  `PhiBlocks` is a fixpoint after as many rounds as there are blocks.

`RunInv` then says of a run, at every instruction, that the value a variable has in
memory is in the register `Reaching` names. In a block that is a matter of the
instruction; over an edge, either a phi takes the value over, or the frontier is
full (`DominatorsGiveFrontiers`), so that the setter that reaches the end of the
predecessor is above the successor too and no other has come in between
(`InheritedAlongEdge`), and the name is none of the phis evaluated there
(`ValueGoesThrough`: the lost-copy and swap problems do not arise). Registers
written again, round a loop, are not named by anything still to be read:
`DefinedBefore` again (`NotYet`).

**ExpressionsProofs.** First the symbol table. `ScopeIsLexical` is a refinement
proof: `Enter`, `Exit` and `Push` map to `EnterBlock`, `LeaveBlock` and `Bind` of
Environment under the mapping above, given `ScopeTypeCorrect`. The work is in the
last binder: after a push of a name the innermost map has, `find` is unchanged;
after any other it is the new value for that name and what it was for the others;
and dropping a map leaves what `find` said before it was added.

`CodeIsWellTyped` (`WellTyped`) and `VisitorIsLexical` (`LexicalScoping`) rest on
one inductive invariant, `Inv`, since well-typed code follows from no property of
the code alone: a visit function emits an instruction on whatever its callees
left in `tmp_val`. `Inv` says

* the code consists of instructions whose operands fit them;
* each frame `Yields` a set of types to its caller (an expression wanted as a
  number an `int` or a `float`, a target an address, a call what its function
  returns), each frame `Needs` one of its callee, and along the stack of visits
  what a frame yields is within what the frame below it needs (`Linked`), as is
  what `tmp_val` holds now. `require_lvalue` is set exactly while the visit on
  top is a target's, so that it is consumed by the variable it was set for and
  by no other;
* `Nested`: what the active visits have opened is on the list of scopes, to be
  closed, with the global scope under it;
* `Tables`: names stand for functions that exist and for addresses, and once
  `neg_idx_except` is declared it stands for its function in every scope, since
  the global scope binds it and no other declaration may.

Each of the actions of `ExpressionsStep` has a lemma, over the lemmas on what
leaving, changing and calling a visit must bring (`Returned`, `Became`,
`Called`). `VisitorIsLexical` maps every step to a step of the symbol table or a
stutter and then uses `ScopeIsLexical`; it assumes that `Values` holds the
functions and the addresses, as `MCValues` does.

`DefinitionsComeFirst` (`DefinitionsDominate`) has a witness again: a set D(b) of
blocks with each block b (`Solid`): every operand of an instruction in b was made
before it in b or in a block of D(b), and a jump goes only where D without the
target is already in D of where it starts. A new block gets what the block it is
made in has, and itself. What is hard is what the visitor still holds: the value
in `tmp_val`, the operands and arguments on the stack, and every address in the
scopes, must have been made in a block of D of the insert block (`Known`), also
after a subscript has moved the insert block on (its successor knows all that it
knew), and after an `if` has been left for `contBB`, which knows only what was
known before the branch. The second holds because below a branch on the stack no
frame holds a value, and because the scopes that were open when the branch was
taken, and are open again when it is left, bind only what was known then: the
invariant gives each frame the height of the scopes at its call (`Sites`). The
sets D are dominators by separation.

`TruncatedForItsUser` (`TruncatedWhereStated`): each `fptosi` has its user at once,
or is among the arguments a call on the stack has collected (`Settled`);
`promote` makes none.

`FoldingKeepsTypes` (`FoldedWellTyped`) goes on from there: when the visitor is
finished, `Inv` gives the folder a function of instructions that fit their
operands, each number made once, over all blocks. `FoldInv` then has two parts.
As long as no comparison of floats has been folded, the code stays `Typed`: a
folded constant has the type of the result it replaces, which for loads needs
`StoresTyped`, that what is remembered for an address is of the type stored
there, although `global_value` is keyed by address alone; and
`replace_all_use_with` changes operands in every block, so that fitting must be
kept whatever the user is. Once one has been folded nothing is claimed of types,
but that the property names it rightly must survive the rest of the pass
(`Outgoing`): whatever still has its number is in the block at hand and waits to
be deleted there, and `delete_instr` at the end of the block (`Without`) leaves
none. That it is a comparison of the visitor's is `Originals`.

Model-checked only, because their definitions are recursive or fold over
sequences, so that they would need induction over data, or use operators the
provers have no definition of (`SelectSeq`, `:>`): `FoldingPreserves`, which
compares two executions of the code; `LivenessExact` of `ActiveVars`; and
`HoistKeepsShape`, `OperandsPrecede` and `InvariantsHoisted` of `LoopInvHoist`.
Liveness under fairness (`DominatorsTerminate`; the end of Tarjan, hence the
fairness in `FindsComponents`, and of the other passes) is out of the prover's
reach.

## Not modelled

* Loops and `else` in `Expressions` and `Folding`: the first adds nothing to what
  is typed where, since statements leave no value behind; the second would need
  the folder on phis.
* The phi pairs of edges `ConstPropagation` removes: `PhiInst` prints a predecessor
  without a pair as undef, but nothing removes a pair whose predecessor is gone.
* `LoopInvHoist` after `ConstPropagation` beyond its search, and the values its
  instructions compute: a division hoisted out of the loop that guards it is not
  told from any other.
* A program variable called `neg_idx_except` or like another built-in function:
  the visitor casts whatever it finds to a `Function`.
* Several functions in one module: the builder and the passes treat functions
  one after the other, and `var_val_stack` is keyed by alloca.
* Lexer, parser and AST (the models range over all syntax trees), the tables that
  intern types and constants, printing (but for names and the undef operands of
  phis), logging, the runtime library, option parsing and the call of `clang`.
* `Dominators::create_doms` (never called) and the debug printers.

## What could come next

1. **Mem2Reg as a client of DefUse** – refinement of the `operand` table by
   `replace_all_use_with` and `delete_instr`.
2. **Folding with phis** – after Mem2Reg, with the phi pairs of folded edges.
3. Proofs: `HoistKeepsShape`, with the lists of `LoopInvHoist` as functions.
