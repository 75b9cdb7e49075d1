# A TLA+ model of the SysY compiler

This directory models the compiler of this repository: C++ that translates
SysY, a subset of C, to 32-bit ARM assembly.  The compiler is sequential.  What
makes it hard is not concurrency but *long-lived state shared by distant
passes*: symbol entries written by the parser and read by code generation, sets
left in blocks by an earlier analysis, a condition code kept in a builder, a
pool of registers, globals that outlive the function they were set for; and the
*orders* in which recursive methods visit and patch things.  A test sees one
program; the models run the algorithms over every program of a bounded size.

- [1 The system](#1-the-system)
- [2 The modules](#2-the-modules)
- [3 The runs](#3-the-runs)
- [4 Bounds](#4-bounds)
- [5 Fairness](#5-fairness)
- [6 What is proved](#6-what-is-proved)
- [7 Where the code disagrees with its documents](#7-where-the-code-disagrees-with-its-documents)
- [8 What is not modelled](#8-what-is-not-modelled)
- [9 Plan](#9-plan)

To check a run: `tlc -config <cfg> <module>`; to check proofs: `tlapm <module>.tla`.

## 1 The system

`main` (`src/src/main.cpp`) calls the passes one after another:

    yyparse -> Ast::typeCheck -> Ast::genCode -> Unit::genMachineCode
            -> LinearScan::allocateRegisters -> MachineUnit::output

| Component | State it keeps | Operations | Talks to others by |
|---|---|---|---|
| Lexer, grammar (`lexer.l`, `parser.y`) | text position, parser stack | tokens, reductions | the semantic actions below |
| Symbol tables (`SymbolTable.*`, actions of `parser.y`) | chain of tables under `identifiers`, symbol entries with level and const mark | push, drop, install, lookup | the entries, which every later pass reads and writes |
| Type checking (`Ast.cpp`, `Type.*`) | globals `returnType`, `funcReturned`; `cbcai` and its value in each expression | `typeCheck` of each node | `exit` on an error |
| IR generation (`Ast.cpp`) | insert block of `IRBuilder`, `true_list`, `false_list`, `addr` in symbol entries | `genCode` of each node, `backPatch`, the linking pass of `FunctionDef::genCode` | basic blocks, instructions, edges |
| IR data (`BasicBlock.*`, `Instruction.*`, `Function.*`, `Operand.*`) | rings of instructions, edges, lists of users | insert, remove, constructors and destructors, `replaceUse` | shared pointers |
| Instruction selection (`Instruction.cpp`, `AsmBuilder.h`) | current function and block, `cmpOpcode` | `genMachineCode` of each instruction | machine code |
| Live variables (`LiveVariableAnalysis.*`) | `live_in`, `live_out` in the blocks, `all_uses`, `def`, `use` | `computeUsePos`, `computeDefUse`, `iterate` | sets left in the blocks |
| Linear scan (`LinearScan.*`) | `du_chains`, `intervals`, `actives`, `regs`; `rreg` and `spill` in intervals | `makeDuChains`, `computeLiveIntervals`, `linearScanRegisterAllocation`, `modifyCode`, `genSpillCode` | rewritten operands, new instructions, `stack_size`, `saved_regs` |
| Optimisers (`Unit.cpp`, `IRComSubExprElim.*`, `IRBlockMerge.*`) | containers of pointers, local to a pass | `samebboptimize`, `removeUnusedAlloca`; the other two are unfinished; `main` calls none | the IR data |
| Output (`MachineCode.cpp`, `output` methods) | `stack_size`, `saved_regs`, `global_list` as earlier passes left them | prologue, epilogue, data sections | what the compiled program does |
| Runtime library (`sysyruntimelibrary`) | - | input and output for compiled programs | linked to the result |

Which behaviours are hard, and what makes the component correct there:

- **Allocation loop.**  Scan, spill, analyse again, until a scan succeeds.
  Correct if registers of interfering intervals differ, no register gets lost,
  the code computes what it did before allocation, and the loop ends.
- **Intervals.**  A live range over a graph is flattened to one span of
  instruction numbers, and intervals that share a use are merged while an old
  copy of the vector is walked.  Correct if a span covers every place where a
  definition may still be read, and every use belongs to one interval.
- **Liveness.**  A round-robin iteration on sets that survive from one pass to
  the next.  Correct if it ends with exactly the uses a path can reach.
- **Back-patching.**  Branches are emitted to placeholders, remembered in lists
  and patched by whoever knows the target.  Correct if the code asks its
  conditions, assigns and returns as the source does.
- **Scopes.**  Tables are pushed and dropped at different places of a grammar
  rule; the level a symbol gets decides much later where its value lives.
- **Selection.**  Flags, condition code and scratch registers are used across
  instructions.  Correct if every value, branch and parameter is the tree's.
- **Checks.**  Correct if exactly the wrong programs are rejected.
- **Initial values.**  One field of a symbol entry is written by sign rules and
  constructors while the text is parsed and by code generation afterwards, and
  printed at the end.  Correct if a global starts as its initialiser says.
- **Frames.**  Prologue, calls and returns are made at three moments, each with
  the frame size and the registers known by then.  Correct if every activation
  finds its registers and words again after any call.
- **Shared pointers.**  Instructions are taken out twice, operands are freed by
  whoever used them last, users are registered in one list and kept in two
  fields.  Correct if rings stay lists, nothing deleted is touched, and a pass
  leaves the meaning of the code.

All hazards are listed with their lines in `PROJECT.json`.

## 2 The modules

`X` EXTENDS what stands to its left; an `MC` module gives an instance to TLC.

    RegisterAssignment
        | (implemented by)
    LinearScan -- RegAlloc                       LiveVariableAnalysis -- LiveIntervals
        \-------- MCLinearScan                                              \-- MCLiveIntervals
    GenCode ----- ControlFlow -- MCControlFlow   InstructionSelection -- MCInstructionSelection
    Scopes ------ Storage ------ MCStorage       TypeCheck ------------- MCTypeCheck
    Activations                                  GlobalData ------------ MCGlobalData
        | (implemented by)                       BlockContents
    CallFrames -- MCCallFrames                       | (implemented by)
                                                 IRObjects -- UnitPasses -- MCUnitPasses

Proofs are in modules of their own; six of them share **Stepwise**, induction over
numbers and facts on sequences:

    Stepwise -- RegAllocProofs (and RegAlloc)         Storage, TypeCheck -- FrontEndProofs
        |------ LiveIntervalsProofs (and LiveIntervals)
        |------ UnitPassesProofs (and UnitPasses)
        |------ GenCodeProofs (and ControlFlow, InstructionSelection)
        |------ GlobalDataProofs (and GlobalData)
        \------ CallFramesProofs (and CallFrames)

**RegisterAssignment** is the abstract allocator: a register once given is kept,
conflicts never share one, giving up needs pressure, and after that nothing is
promised.  It knows no pool, no order and no expiry.

**LinearScan** is one call of `linearScanRegisterAllocation`.  Each turn of the
loop of `expireOldIntervals` is an action (`ExpireOldInterval`), and so is each
visit: `Allocate`, and the two ways of `spillAtInterval` (`SpillActive`,
`SpillCurrent`).  Vectors that are sorted before every access are sets or
multisets; `std::sort` leaves equal keys in any order, hence the quantifiers.
As in the code, a spilled interval stays in `actives`.  The refinement mapping of
`ImplementsAssignment` takes `rreg` for the assignment, `flag` for "has not given
up", interference of ranges for conflict and the count of live intervals for
pressure; an expiry is a stutter.

**LiveVariableAnalysis** is `pass` on one function: one action for
`computeUsePos`, `computeDefUse`, the clearing, each visit of a block, and the
end of a round.  Its sets hold use operands, as in the code, not registers.
It starts from fresh blocks or from the sets a previous round left.

**LiveIntervals** goes on with `computeLiveIntervals`: `MakeDuChains`,
`BuildIntervals`, `AdjustIntervals` for the stretching over blocks, and a merge
loop that compares pairs of the copied vector in order, absorbing intervals
that were already erased just as the code does.  An interval starts at `getParent()`
of the operand defined (`LinearScan.cpp:87`), which is the instruction constructed
with that operand last: instruction selection hands some operands on, to a later
instruction that uses them (the quotient and the product of a remainder, the address
of a global store) or to the second of two conditional moves.  `parent` chooses any
instructions of which this can be so (`Parents`).  **MCLiveIntervals** picks the
functions: three short blocks, or two longer ones.

**RegAlloc** is `allocateRegisters` on straight-line code.  `Select` puts the code
together from pieces that instruction selection makes: an instruction with one
definition (`Plain`), a `GlobalStore`, the two conditional moves of a comparison
or negation (`Condition`), the three instructions of a `Remainder` with three
definitions of one register.  `Parent` says which instruction an operand belongs to
in the end.  `ComputeLiveIntervals` starts a round, `Scan` is a step of LinearScan's Next, then
`ModifyCode` rewrites operands, or `GenSpillCode` inserts loads and stores and
enlarges the frame.  Finished code is *executed* by the recursive function `Values(T)`,
for every set `T` of conditional moves that execute.
Only the guard of `GenSpillCode` that leaves names for new instructions is a bound.

**GenCode** is `genCode` of statements and conditions.  Recursion is an explicit
`agenda` of calls in progress; what a method does after a recursive call is a
task of its own, so that every change of the insert block happens in the code's
order.  `LinkBlock` is the pass at the end of `FunctionDef::genCode` with its
removal of branches and of everything behind a return.
**ControlFlow** runs the finished graph beside `rest`, the unfolding of the
source; both must offer the same event.

**Scopes** is the parser's chain of tables, one action for each semantic action
that touches it (`FuncDefOpen`, `FuncDefClose`, blocks, declarators, uses,
assignments).  The body's copies of the parameters are all entered under
`BaseName`, the empty name that `SymbolEntry::getName` returns for every identifier
(`SymbolTable.h:46`; the member that holds the name hides the one it reads), so that
uses in the body find the entries of the parameters' own table, and a body may
declare a parameter again.  Beside it, `lexical` keeps the scopes the text
has, and `answers` compares every lookup.  **Storage** generates code for the
parsed program and follows the addresses in the entries; `Copies` is the one
entry that all parameters of a function are stored to.

**InstructionSelection** builds expressions in postfix order.  Each node emits
its IR, selects machine instructions (`Select...`), and executes them on small
words: registers, flags, memory.  The value of the syntax tree (`ast`) is kept
beside.

**TypeCheck** is `typeCheck` in postfix order, with the two void checks of the
parser.  A subtree keeps what the compiler knows of it and whether its own check
would stop the compiler, since some statements never call it; beside that stand
the errors and the constant value that the source has.

**GlobalData** follows the words of globals.  Expressions are token sequences in
postfix order, the order in which the parser reduces them.  The three writers of
`ConstantValue` are the sign rules (`Signed`, `Negated`), the constructor of an
assignment (`Assigned`) and `GenDeclStmt`; `LeafValue`, `UnaryValue` and
`BinaryValue` are the `getValue` methods, with the compiler's own word; a division
looks at its divisor first, and does not evaluate the dividend of a 0.
`DataSection` and `RodataSection` are what `PrintGlobalDecl` prints.  `text` and
`run` keep the source and what running it would assign.  Memory nobody
initialised holds any word of `Garbage`.

**Activations** is what calls promise: a stack of activations, each with
registers and words of its own that wait unchanged for a return.
**CallFrames** is the machine: `Prologue` pushes what `SavedRegs` has, each register
at its `PlaceOf` in ascending order, then fp and lr, and takes `FinalSize` words, `Call` is `FuncCallInstruction::genMachineCode`, `Ret` gives
back `SizeAtSelection` words, and `Bx` pops before it branches.  Bodies write
the registers and words allocation gave them, and call and return anywhere.  The
refinement mapping unwinds the stack as a debugger would (`Unwound`).
The promise ends when a function with spilled registers returns, since the two
sizes then differ (`trusted`).

**BlockContents** is a list of instructions for each block, where something is
put at an end, once, or taken out.  **IRObjects** has the pointers: `prev` and
`next` of instructions and heads, the users of operands, what was freed.  It
holds the constructors and destructors, `genCode` of the statements that make
instructions, and the linking pass of `FunctionDef::genCode`, one instruction at
a time.  `touched` records every access to something that was deleted.
**UnitPasses** adds the passes of `Unit.cpp` on linked code and the destruction of
unit, function and blocks.  `Collect`, `Replace`, `DeleteStore`, `DeleteLoad` and
`DeleteAlloca` are the phases of `samebboptimize`; walks over unordered containers
take their elements in any order.  `Meaning` reads the code, in the order of its
blocks, for what calls, branches and returns are given.

Every definition that models code is mapped to its lines in `PROJECT.json`.
Definitions marked *Mutant* are wrong variants of the definition below them, as a
plausible mistake would make them: used in its place, they make the named
property fail, which shows the property has teeth.

## 3 The runs

Runs that pass:

| Run | Properties | What it shows |
|---|---|---|
| `LinearScan.cfg` (MCLinearScan) | TypeOK, NoSharing, NoRegisterLost, SpillOnlyUnderPressure, ImplementsAssignment | Whatever the ranges and the order of ties: while nothing was spilled no register is shared, the pool loses none, a spill happens only when more intervals are live at a point than there are registers; the scan implements RegisterAssignment |
| `LiveIntervals.cfg` (MCLiveIntervals) | ExactAtEnd, SolutionAtEnd, OnlyGrows, CoversLiveRange, UsesPartitioned, IntervalsReady | The sets are exactly the uses that paths reach, also from left-over sets; intervals cover, from the instruction their operand belongs to on, all that is live over loops and joins, uses are partitioned, and iteration and merging end |
| `RegAlloc.cfg` | ValuesPreserved, SpilledOnlyOnce, WrittenRegsAreSaved, AllocationEnds | Spilling under three registers, of code with remainders, conditions and global stores, keeps every value as long as slots are near, saves what is written, and comes to an end |
| `ControlFlow.cfg` (MCControlFlow) | EdgesMatchCode, ListsNamePlaceholders, InStep, NeverStalls | Nested conditions and statements do what the source says; the graph is that of the code; lists name branches nobody else has |
| `Storage.cfg` (MCStorage) | OnlyParamsLeak, RejectsOnlyErrors, LocalsAreLocal, AccessesWork, OnlyFirstParamsArrive | Lookups differ from the text's only through the table of the parameters: a body may declare one again unnoticed, and behind their function they answer for names no body declares; loads and stores name usable addresses but for four named cases |
| `InstructionSelection.cfg` (MCInstructionSelection) | ValuesRight, EffectsRight, UndefinedOnlyAfterConversion | Selected code computes the tree, or something undefined, and that only after a conversion |
| `TypeCheck.cfg` (MCTypeCheck) | TypeOK, FoldingIsRight, RejectsOnlyWrong, AcceptedErrorsAreKnown | Only wrong programs are rejected; the wrong ones that are accepted have errors of seven named kinds |
| `GlobalData.cfg` (MCGlobalData) | InitialisersArrive, FoldsStraightLineText, StopsOnlyForReasons | Literal initialisers reach IR and data section whatever the functions assign; values folded while parsing are those of straight-line execution, signs in front of names apart; the compiler dies only where its own division traps, or on the insert block nobody set |
| `CallFrames.cfg` (MCCallFrames) | FramesAdjoin, ImplementsActivations, RuntimeUntouched | Calls to a depth of three, recursion included: frames adjoin, activations keep what is theirs, the C runtime gets its registers back, until a function with spilled registers returns |
| `UnitPasses.cfg` (MCUnitPasses) | OnlyWalkTouchesDeleted, PassesKeepValues, ImplementsContents | The rings implement lists through linking, two passes and destruction; only the walk of removeUnusedAlloca touches what was deleted; passes keep what calls, branches and returns read, but in named cases |

The runs that TLC must find violated are listed in section 7.

`ValuesPreserved`, `OnlyParamsLeak`, `AccessesWork`, `OnlyFirstParamsArrive`,
`UndefinedOnlyAfterConversion`, `AcceptedErrorsAreKnown`, `StopsOnlyForReasons`,
`ImplementsActivations`, `OnlyWalkTouchesDeleted` and `PassesKeepValues` describe what the
code does, exceptions included: outside the exceptions it keeps the promise, and
section 7 says what each exception is.

CHECK_DEADLOCK is FALSE everywhere: a pass of a compiler ends, and so do the
behaviours of its model.

## 4 Bounds

| Constant | Value | Why it is enough |
|---|---|---|
| intervals, registers, numbers (LinearScan) | 4, 2, 5 | two more intervals than registers, so that a spill is followed by a second spill and by an allocation; the proofs cover all sizes |
| NBlocks, MaxInsts, VReg (MCLiveIntervals) | 3, 2, 1 | three blocks of one instruction: loops, joins, a loop in a loop; two blocks of two: a loop with a definition on either side of a use, several definitions of one register that share uses, unreachable cycles.  Registers do not influence each other's sets; the proofs cover all sizes of the analysis |
| Length, MaxPieces, MaxUses, registers (RegAlloc) | 6, 5, 2, 3 | enough pressure for several rounds of spilling, and a remainder with two operands and one instruction behind it; MaxNo = 24 names leave room for all reloads and stores |
| NearSlots, MaxLocals (RegAlloc) | 2, 1 | 63 slots are near in the code; with 2, far slots are reached as well, by the third slot of a frame |
| programs (MCControlFlow) | two levels of statements, three leaves | every production under every other; a statement behind tells early exits apart |
| names, functions, parameters, statements, depth (Scopes, Storage) | 2, 2, 2, 6, 2 | shadowing, a parameter declared again, two copies under one name, a second function, blocks two deep |
| Width, ArgRegs, CmpImmediate (InstructionSelection) | 3, 2, 2 | words so small that overflow and the smallest number occur; the limits 4 and 255 are parameters |
| Half, MaxGlobals, MaxTokens, Garbage (GlobalData) | 4, 2, 4, two words | words of three bits: the smallest word and -1 are reachable; a global assigned in terms of another one; memory that holds a number that traps |
| functions, StackTop, MaxDepth (CallFrames) | 4, 11, 3 | a callee that saves more than its caller, one that saves nothing and has locals, one that spills, recursion; a third frame shows that the second is found again.  `StackAssumption` asks for room for `Main` and MaxDepth - 1 of the largest frames, no more; the proofs cover all sizes |
| programs, NumBlocks, MaxInsts, MaxPasses (UnitPasses) | four statements, 3, 16, 2 | a copy of a copy, a variable used in two blocks, a branch that is removed, a block of its own successor; a pass on what another one left |
| MaxNodes, MaxChecked, MaxFuncs (TypeCheck) | 4, 2, 2 | an error under an operator under a call; a function behind another |

Names and intervals are symmetric and symmetry is used only in runs without
liveness properties.

## 5 Fairness

Weak fairness of the whole next-state relation: the compiler is one thread and
does not stop before its work is done.  It is used for
`IntervalsReady`, `AllocationEnds` and `NeverStalls`; for the last it also says
that the compiled program goes on running.  No choice is assumed fair: a
condition may come out the same way for ever.

## 6 What is proved

TLAPS proves these for every value of the constants that the named ASSUMEs of
the modules allow; TLC evaluates them in the runs:

- LinearScan: the set of intervals is finite; there is at least one register and
  one instruction number.
- RegAlloc: intervals are named by numbers, the names suffice for the code, the
  limits are natural numbers, and an instruction has fewer operands than there are
  registers (`OperandsFit`; in the code at most three, a store to an address and an
  offset, and seven registers).
- LiveVariableAnalysis: at least one block and one instruction.
- CallFrames: callee-saved registers are r4 to r10, sizes are natural numbers, a
  function is not the C runtime (`FrameAssumption`); `MaxDepth` activations fit on
  the stack (`StackAssumption`).
- GenCode: the parts of the trees of `Program` are trees as well, so that a step can
  be reasoned about without induction over trees (`SyntaxAssumption`).
- InstructionSelection: a word has at least one bit, the bounds are natural numbers
  and the locals can be counted (`SizesAssumption`); literals and what memory holds at the
  start are numbers, and the value that nobody wrote is no number, no truth value and
  no condition (`ValuesAssumption`).
- GlobalData: words reach from -Half to Half - 1, literals and the words of the memory
  nobody initialised are words, and operators are the five of the grammar
  (`WordAssumption`).
- Scopes: parameters can be counted, and no identifier is empty
  (`NamesAssumption`).  TypeCheck: literals are integers and
  signatures have a return type of the language.
- IRObjects: there is a block and instructions can be counted (`SizeAssumption`); a
  branch has two targets, which are different blocks, since genCode makes them for it
  (`BranchesAssumption`); a program makes no more instructions and goes on to no more
  blocks than there are names for, and branches only where it has targets
  (`ProgramsAssumption`).

`RegAllocProofs`, first of one scan, for all ranges and any number of intervals and registers:

- `TypeCorrect`: `Spec => []TypeOK`.
- `NeverShares`: `Spec => []NoSharing`.  NoSharing speaks of visited intervals
  and is not inductive: that a free register is not in use follows from facts on
  who has been expired.  The invariant `ScanInv` adds: ends come after starts
  (`WellFormed`), intervals are visited by start (`VisitOrder`), a visited
  interval that is no longer active ended before all that are still to come
  (`ExpiredIsOver`), and active intervals and pool are disjoint (`PoolDisjoint`),
  the last two only while `flag` holds, since a spill breaks both.  The
  heart is `AllocateIsFresh`: an interval given register `r` interferes with
  nobody who holds `r`.
- `PoolComplete`: `Spec => []NoRegisterLost`, with spills too, where registers
  may be pushed twice but never lost; so `actives.back()` always exists.
- `FailureMeansSpill`: `Spec => []FailureSpills`.
- `SpillsOnlyUnderPressure`: `Spec => []SpillOnlyUnderPressure`.  At the first
  spill (`FirstSpillPressure`) the registers' holders are all live at the start
  of the visited interval, the map from holders to registers is onto, and the
  visited interval is one more: a counting argument with the library's facts on
  cardinalities.

- `ScanKeepsPromise`: `Spec => ImplementsAssignment`, the step simulation.
  `Allocate` is an abstract `Assign` because what is not yet visited holds nothing
  (`TodoUnassigned`) and by `AllocateIsFresh`; the first spill is `GiveUp` by
  `FirstSpillPressure`; everything after it is `GivenUp`.  `AlwaysProper`
  says what the promise of `RegisterAssignment` is worth by itself: conflicts
  never share a register.

`LiveIntervalsProofs`, first of the iteration, for every control-flow graph and code:

- `TypeCorrect`: `Spec => []TypeOK`.
- `EndsSolved`: when the loop stops, the sets solve the equations.  The
  invariant `IterateInv` says that in a round without change the blocks already
  visited are solved (`RoundSolved`); a visit that changes nothing keeps it, one
  that does sets `change`.
- `IterationGrows`: from `Justified`, live_in is never above the right-hand side
  of its equation, so that recomputing cannot shrink it, although live_out of an
  earlier pass is never cleared.
- `StaysLeast`: the sets are below every solution.  With `EndsSolved`: the
  result is the least solution.
- `EndsExact`: `Spec => []ExactAtEnd`, the least solution is what paths say.
  `SolutionHasTruth`: every solution has the uses that a path reaches, along
  the path (`AroundIs` says that the recursive function `Around` holds what a path
  passes; `PassesOn` that the equations hand a use one block on).
  `TruthIsClosed`: what paths reach is a solution itself, so the least one is not
  above it.  That the recursion of `Around` may stop after as many steps as there are
  blocks is `GrowthStops` of Stepwise: a growing set of blocks that once
  stands still stands still for ever, and it cannot grow more often than that.

and then of the intervals, for every vector of them:

- `IntervalsCover`: `IvSpec => []CoversLiveRange`, for every choice of parents that
  `Parents` allows.  Between a definition whose operand was handed on and the
  instruction it was handed to, nothing is promised (`HandedOn`), since the code starts
  the interval there.  The chain of a definition is exact
  because the sets are (`ChainHas`).  An instruction where the definition may
  still be read is in the block of the definition, in that of the use, or in
  one where the value is live in and out, and `Stretched` reaches all three
  (`AloneCovers`).  `RightInterval` keeps this while intervals absorb each other:
  an interval stretches over all that each of its definitions alone would.
- `UsesGoTogether`: `IvSpec => []UsesPartitioned`.  That a round without a merge leaves
  disjoint intervals is not obvious, since the loops run over a copy in which
  erased intervals still absorb others.  `RoundOk` holds the reason: the pairs to
  come are what two nested loops leave (`Triangle`), and what an erased interval can
  still meet was erased before it or will be, since the one that absorbed it has all
  its uses and comes first (`ErasedClosed`).  That every use is in an interval at all
  is `ChainsKept`: no chain leaves the vector.

`RegAllocProofs`, of the allocation loop, for all straight-line code that `Select` can
put together, registers with several definitions included, any number of registers and of
rounds.  All rest on `SpillInv` (`Spilling`), whose parts are:

- `RAInv`: types, the scan's `ScanInv` with the ranges of the code as it is in this
  round, and what a finished round leaves;
- `CodeRight`: every operand has a definition before it, and a reload reads a slot
  that was stored before;
- `SpillShape`: who a register serves.  A register that was spilled is used directly behind its
  reload or its handed-on definition, or stored directly behind its definition, with only other
  loads between, and an address serves only the store behind it (`Sourced`,
  `Close`).  An operand handed on serves the next selected instruction and no other
  (`HandedOn`), two conditional moves stay neighbours (`BothMoves`), the plain
  definition of a register is its last selected one (`IsLast`), spill code for it
  comes later still (`SpillLast`), and every reload is used (`ReloadUsed`);
- `SpillsFresh`: a scan has spilled only plain definitions of registers that were
  not spilled before; `Selecting`: how registers are numbered while code is selected.

The theorems:

- `RoundsNeverShare`: in every round, and in the code it leaves, `NoSharing` of the scan holds;
  `RoundsSpill`: a round that ends in `GenSpillCode` has something to spill.
- `WritesAreSaved`: `RASpec => []WrittenRegsAreSaved`.
- `SpilledOnce`: `RASpec => []SpilledOnlyOnce`, far slots included, and with it
  `RoundsAreFew`: every failed round leaves fewer registers that can still be
  spilled, so there are at most as many as the selected code has.  That an operand handed
  on is never spilled matters as well: its store would come behind the parent, too late.
  Both hold because the scan spills the interval that ends last
  (`PickedIsFresh`): were that a short range (`ShortRange`), every active interval
  would end within it, hence at its use or its definition, where there are no more
  operands than registers less one (`Crowd`), while the active ones hold all
  registers (`HoldersEnough`).  `ShapeKept` shows `SpillShape` of the new code from where
  everything in it comes from (`Placed`), and from the fact that the registers for
  addresses are new (`AddressFacts`); `SelectShape`, of the pieces selected.
- `OperandsKeepTheirValues`: `RASpec => []ValuesPreserved`.  That `GenSpillCode`
  keeps `CodeRight` needs to know where the old instructions are in the new code
  (`FlattenPlaces`, `ExpandFacts`).  In a finished round, a definition that reaches a
  use has its range up to it (`ReachesUse`), and from the definition to the use nobody
  else writes its register, although its interval may start later (`HoldsUntilUse`,
  from NoSharing and `HandedOn`).  So the last write a use sees is its own definition, or,
  of two conditional moves, the one that executed, and their values are the same
  (`ReadsItsDefinition`).  Reloads bring the value of the selected definition back
  (`ReadsOrigin`).  Counting up the code then shows that `Values(T)` gives every
  definition its own result (`ValueIs`), whatever `T` is.

`GenCodeProofs`, for every set of statements and conditions, nested to any depth:

- `ListsStayUndecided`: `CFSpec => []ListsNamePlaceholders`.  The property says that a
  list names branches to a placeholder; to keep it, a branch in a list must be the only
  one that goes to its placeholder, that block must be empty and not the insert block, and no
  call in progress may know it (`Undecided`): otherwise a later `backPatch` or
  the body of a loop could reach it.  Which lists there are when the turn of a task comes is
  as important: a task takes the lists of the conditions before it and leaves its
  own, and `Balanced` says that the agenda as a whole uses up all of them; for an operator,
  the two on top are those of its own operands.
- `GraphIsTheCode`: `CFSpec => []EdgesMatchCode`.  Of the pass that links: `Clean` leaves nothing
  behind the first branch or return (`EndsOnce`), and the edges of the linked
  blocks are the targets of what their last instruction is (`Linking`).

`GenCodeProofs` goes on with selection, for expressions of any shape, words of any width and any
number of registers for parameters:

- `OperandsRight`: `SelSpec => []ValuesRight`, `EffectsAreRight`: `SelSpec => []EffectsRight`, and
  `ConversionsToBlame`: `SelSpec => []UndefinedOnlyAfterConversion`.  First, what each piece of
  selected code does when it is run: `RunStates` unfolds the fold of `Run` into a
  sequence of machine states, `RunJoined` says that code one behind the other runs one behind
  the other, and one lemma per instruction of the IR (`BinaryRun`, `CmpRun`,
  `LoadRun`, `StoreRun`, `CallRun` and so on) says what it computes and which operands it may
  change at all (`ChangesOnly`).  `Apart` is what they need: the registers that
  genMachineCode makes up are nobody's operands.  Then one lemma per node and statement
  (`OneBinary` to `OneCondition`).  A temporary is new because its number is above all that
  wait (`TempsAreNew`), so no node touches what another one left (`Growing`); a store
  touches one variable, since addresses differ (`AddressesDiffer`).  What is not obvious is
  `FlagsRight`: when the subtree on top is a bool, the flags and the remembered condition
  still decide it, and behind a negation that condition is "not equal".  Neither a branch nor a
  negation looks at its operand, so `EffectsRight` alone is not inductive.

`GlobalDataProofs`, for words of any width, and any number of globals, assignments and
tokens.  All three rest on `GlobalDataInvariant`:

- `FoldingFollowsTheText`: `Spec => []FoldsStraightLineText`.  An expression is parsed token
  by token while values are assigned, so the invariant relates the tokens of the tree to
  those of the text before anybody asks for their value (`Folds`): for all values of
  the variables, both stacks have one height, and word for word they agree where
  the variables do, unless a sign was lost.  That `getValue` of a finished
  tree reads the top of its own stack and nothing below is what `Related` keeps.
- `LiteralsArrive`: `Spec => []InitialisersArrive`.  A global is declared once or
  generated once, never both (`EachOnce`), and from the step that generates it
  its literal is in the entry and in the IR (`LiteralsReached`); that nothing writes
  the entry after that step is a matter of `phase`.
- `StopsForReasons`: `Spec => StopsOnlyForReasons`, an action property.  The value that makes
  the compiler divide and die is, in the text, one that traps or one that the text does not determine.
  That exception has to be made for the text's value as a whole, not for its variables:
  the compiler folds a division by 0 to 0, and a later division of the same expression may
  trap on what that 0 became, although every variable in it has a value.

`CallFramesProofs`, for every set of functions, whatever they save and allocate,
and every depth of calls that the stack has room for:

- `FramesLieAdjoining`: `Spec => []FramesAdjoin`, and `RuntimeIsUntouched`:
  `Spec => RuntimeUntouched`.  The invariant `CFInv` says that unwinding finds `depth` frames
  and then the C runtime (`Nested`), each of which ends where the next begins (`Floor`,
  `Ceiling`), holds a return address, and has room below it for the calls that may
  still come.  The room is what keeps a push from wrapping below the stack, and
  it has to count levels, since FramesAdjoin alone does not say how deep a frame lies.
  `FramesKept` is the heart: two memories that agree above a frame unwind alike from there;
  every step is then a matter of what it writes and where (`BodyStep`,
  `PrologueStep`, `BxStep`).
- `FramesImplementActivations`: `Spec => ImplementsActivations`, the step simulation.
  Bodies, the bl itself and the first half of a return are `Compute` or a stutter
  (`QuietIsCompute`), the prologue is `Call`, for only then the callee has words
  (`PrologueIsCall`), and the bx is `Return` (`BxIsReturn`), by which the caller gets back all
  that `ActivationKept` says the frames kept for it.  Behind the return of a function that
  spilled, `trusted` is false, the mapping shows an empty stack, and nothing is promised.

`Stepwise` has what these proofs share: induction over numbers up to a bound, from
the well-founded order of the subsets of a finite set, with a set in the place
of a predicate (`CountingUp`); that recursive functions with a step from n - 1 to n exist
(`IterationExists`, `IterationGoesOn`); that finite sets of numbers have a greatest
and a least element; `GrowthStops`; and where an element of a flattened or filtered sequence comes
from (`FlattenPlaces`, `ChosenFrom`).  This way the recursive
functions of the models (`Offset`, `Around`, `Values`, `Unwound`) can be reasoned
about without an induction rule that takes an operator.

`FrontEndProofs`, of tables and addresses, for any number of functions and any depth of
blocks:

- `TablesCorrect`: `Spec => []ScopesInv`, the invariant the others rest on.  It
  splits the chain of tables at `Base`: above it are the open blocks, table for
  table those of the source text (`BodiesSame`); below are the globals and what
  functions left behind, where the uppermost entry of a name is its global or a
  parameter (`OuterRight`).  Two parts are less obvious.  `Outermost` says that the outermost
  block of the text is two tables of the code, that of the parameters under that of the
  body, apart from the empty name of the copies.  `NoEnd => Clean` says that
  nothing has leaked until a function has ended.
- `LeaksAreParams`: `Spec => []OnlyParamsLeak`.  `LookupRight` and `InTopRight`
  compare the two answers in one state; that a name has an uppermost table at all
  (`UppermostExists`) comes from the well-founded order of finite sets.
- `RejectionsAreErrors`: `Spec => []RejectsOnlyErrors`, since an undefined name
  is undefined in the text as well (`UndefinedIsUndefined`).
- `BodiesAreLocal`: `Spec => []LocalsAreLocal`.  A body is never less than two
  tables above `globals`, although every function drops one table too few.
- `AddressesWork`: `StorageSpec => []AccessesWork`, and `FirstParamsArrive`:
  `StorageSpec => []OnlyFirstParamsArrive`.  The invariant `ParsedInv` says of the parsed
  program that an entry's place among the entries tells its function: a function's own
  entry is older than all that its body declares and younger than all before it
  (`InOrder`), and what the tables of an open body hold is younger than every
  function's entry (`BodiesYoung`), so a statement names a local of the last function only
  (`Reachable`).  That every function leaves a table behind (`TablesLeft`) makes the
  parameters of the first, and of no other, level 1.  `StorageInv` adds that each address was
  set at its entry's statement by the function around it (`Home`) and that
  every statement that is done has set its own; then a local that a
  statement names has the address of the function that generates it (`ReachableUsable`).

  Both assume `NamesDiffer`: no variable has the name of a function.  It holds in the run and
  in every program of the tests; without it `AccessesWork` is false, since the
  parser lets a statement name a function where it needs a variable, and a function's entry
  never gets an address.

`FrontEndProofs` goes on with the checks of types: `TypeCorrect`, `FoldsRight`,
`RejectsWrong` and `AcceptsKnown` are the four invariants of the run.  The invariant `CheckInv` relates every
waiting subtree to its source (`OkTrees`: one that stops has an error, one that
does not has at most a hidden zero divisor, and folding is right in trees
without errors) and the globals of `Ast.cpp` to the function around
(`FunctionsOk`, `ReturnsOk`: while no int function has ended, `funcReturned` still
means what it says).  Lemmas such as `BinaryOk` and `CallOk` say that each kind of
node makes a good tree of good subtrees.

`UnitPassesProofs`, for every function, whatever its blocks, branches and statements are, and
any number of passes in any order:

- `ListsImplemented`: `Spec => ImplementsContents`, the step simulation from pointers to
  lists.  A ring is related to a sequence by `IsRing`, and `RingsRight` says that the
  sequences read from all heads are rings, and no instruction is in two places.
  `InsertRing` and `RemoveRing` show what inserting and taking out do to all rings at
  once; `RingIs`, that walking finds the sequence, for which it must not be longer than the
  walk, a counting argument (`RingsAreShort`).
  The code takes an instruction out twice, by `remove` and again in its destructor:
  the second time its pointers still name its two neighbours, which are linked to each
  other by then, so that nothing changes.  It matters that nothing else happens in
  between.  Then the stores of an unused variable go, from whatever block they are in.
  `TakeAll` shows of all this that every list loses exactly what was taken out
  and keeps its order, and where the pointers of what was taken out lead (`Taken`).
  What is left is that only linked instructions are deleted (`OneTakenOut`).  The rest of
  the invariant `ListsInv` is there for this: `CursorRight` says where the walks are.  The walk of
  removeUnusedAlloca may stand on an instruction that is out of its ring; from there the
  pointers lead over stores back to the block (`WayOn`).  `PlanRight` says that what
  samebboptimize still has to delete is in the block and of one kind each, so that no phase takes
  what another one has deleted; `Generated`, that the names suffice.

Proved but in no run: `TypeOK` of LiveVariableAnalysis, `FailureSpills`, `ScopesInv`,
`GenInv`, `SelInv`, `GlobalDataInv`, and `Proper` of RegisterAssignment.

Only model-checked remain:

- `InStep`.  It is not an invariant of the code: `&&` and `||` in the condition of a loop
  break it (section 7).  The run restricts the programs; a theorem would need that
  restriction as a hypothesis on nested data, and relates two executions.
- `OnlyWalkTouchesDeleted` and `PassesKeepValues` of the passes: they need who uses whom
  besides what is linked, and the second compares two readings of the code.
- All liveness: `IntervalsReady`, `AllocationEnds`, `NeverStalls`; the prover has no
  rules for fairness and ENABLED.  Of `AllocationEnds` the bound on the rounds is
  proved.

## 7 Where the code disagrees with its documents

Each of these runs checks one property that restates a comment or a test of the
repository, and TLC finds a counterexample.

| Run | Property | What happens |
|---|---|---|
| `ControlFlowWhileAnd.cfg` | InStep | a loop over `a && b` jumps back behind the test of `a` |
| `InstructionSelectionTest.cfg` | IntConditionsTested | `if (x)` branches on stale flags |

The other deviations met while modelling are exceptions of the properties that
pass, or left out of the inputs:

| Where | What the code does | How the models treat it |
|---|---|---|
| `LinearScan.cpp:345` | the pseudo code takes a spilled interval out of `active`, the code does not; harmless, since a failed scan is thrown away | modelled as coded; NoRegisterLost holds all the same |
| `LinearScan.cpp:87` | an interval starts at the instruction its definition's operand was passed to last, which may use it | modelled (`parent`, `Parent`); CoversLiveRange excepts what lies between (`HandedOn`), ValuesPreserved excepts nothing |
| `LinearScan.cpp:277` | for a slot more than 255 bytes away the reload is inserted before the load of its address | modelled; ValuesPreserved excepts frames with far slots |
| `Ast.cpp:766` | `break` and `continue` emit nothing | modelled (`GenJumpStmt`); the programs have only a `continue` that ends its body |
| `parser.y:505` | the copies of all parameters are entered under the name of `SymbolEntry` (`SymbolTable.h:46`), which is empty | modelled (`BaseName`); OnlyParamsLeak excepts a parameter declared again; the declarations in front of a body fill the last copy only (`Copies`), so no use reads an argument, against `088_hanoi.sy:2`: no property asks that one does |
| `parser.y:548` | a function drops one of the two tables it pushed, so its parameters stay visible and a later global has the level of a parameter or a local | modelled; the exceptions of OnlyParamsLeak, AccessesWork and OnlyFirstParamsArrive |
| `parser.y:99` | the const mark of an identifier is not what an assignment tests | modelled (`IsConstant`); no property asks for more |
| `parser.y:534` | a local of the name of its function replaces its symbol | modelled; the names of variables and of functions differ in the run |
| `Ast.cpp:646` | declarators are generated from right to left, so an initialiser that names an earlier one finds no address | modelled; an exception of AccessesWork |
| `Instruction.cpp:1116` | a bool used as a number is in a register nobody writes | modelled; the exception of UndefinedOnlyAfterConversion |
| `Instruction.cpp:1043` | with more than four arguments, none is passed | modelled; EffectsRight speaks of calls that fit |
| `parser.y:308` | `-x` is compiled as `x`, and the value kept for `x` changes its sign | modelled; the tree of `-x` is that of `x`; FoldsStraightLineText and StopsOnlyForReasons except programs with such a sign |
| `Instruction.cpp:962` | "the space the function allocated on the stack" is read when a return is selected; spilling enlarges the frame later, and the prologue (`MachineCode.cpp:467`) takes the enlarged one, so the pop restores other words | modelled; nothing is promised behind the return of a function that spilled (`trusted`) |
| `parser.y:501` | the parameters of every function but the first are LOCAL, so they get slots like locals instead of values; `088_hanoi.sy:8` has one and expects its arguments | modelled; OnlyFirstParamsArrive states it |
| `Instruction.cpp:1048` | arguments are moved to r0 to r3, but a callee never takes its parameters from there | CallFrames hands over no arguments |
| `SymbolTable.h:160` | a global without initialiser is printed with the word the memory held, while the IR says 0 | modelled; InitialisersArrive speaks of literal initialisers |
| `Ast.cpp:670` | any initialiser of a global is cast to a literal's symbol | modelled as garbage; the same exception |
| `Ast.cpp:141` | the compiler divides the smallest number by -1 while parsing, and dies | modelled; StopsOnlyForReasons |
| `IRBuilder.h:17` | the first global is generated before any insert block is set | modelled; StopsOnlyForReasons |
| `Unit.cpp:264` | a variable that is a copy of another one may be replaced by an operand that is deleted, depending on the order of a hash table | modelled; an exception of PassesKeepValues |
| `Unit.cpp:254` | a variable read before it is set is replaced by a null operand | modelled; PassesKeepValues allows the crash only there |
| `Unit.cpp:115` | the walk of removeUnusedAlloca goes on from what it deleted | modelled; the exception of OnlyWalkTouchesDeleted |
| `Instruction.cpp:544` | the parameters of a call and the operand of a conversion to bool are kept in fields that replacement misses | modelled; an exception of PassesKeepValues |
| `Instruction.cpp:18` | the destructor of a conversion adds a use | conversions are left out of IRObjects |
| `Ast.cpp:846`, `865`, `1159`, `1306` | functions behind the first need no return, a return behind a function is taken for its own, a zero divisor made of const identifiers is not seen, a void call may be assigned | modelled; among the seven kinds of AcceptedErrorsAreKnown |

## 8 What is not modelled

- **Lexer and LALR automaton**: generated code over text.  The programs the
  grammar allows are the inputs of the models.
- **Floats, the bool keyword, arrays**: the grammar has the first two as
  extensions, the code treats them like ints in most places, and there is no
  array code.
- **Encodings of immediates and the assembly text**: printing.
- **Folding in the semantic checks** beyond what the divisor check needs, and its
  overflow in 32 bits (GlobalData has that of `getValue`).
- **Nested function definitions**, which the grammar happens to allow.
- **Arithmetic, comparisons and conversions in IRObjects**: they register with
  their operands as a store does; their code is in InstructionSelection.
- **Types in IRObjects**: a copy of an int to a bool needs a conversion.
- **The order of blocks in the printed IR** (`Function.cpp:78`): the order of
  addresses, which the allocator of the host chooses.
- **IRComSubExprElim and IRBlockMerge**: unfinished.  `operator==` of expressions
  returns false, so nothing is found equal, and removing is a TODO; the
  condition for merging is the constant 0.  `main` calls neither.
- **Text of machine instructions** other than what enters and leaves functions.
- **Runtime library**: wrappers of stdio.

## 9 Plan

Order of work, most important behaviour first; the parts marked done are in place.

1. Linear scan with proofs and its abstract specification (done), liveness with proofs (done), intervals and
   the allocation loop (done).
2. Control flow against the source (done), scopes and storage (done),
   expressions and selection (done), semantic checks (done).
3. Initial values of globals (done), frames and calls as an implementation of
   activations (done), rings as an implementation of lists, the passes of
   `Unit.cpp` and destruction (done).
4. Conversions in IRObjects, with the use their destructor adds; arguments in
   CallFrames once a callee reads them.
5. Proofs: the scan and its refinement, the allocation loop with the bound on its rounds, the
   analysis and its intervals, scopes and addresses, semantic checks, the generated
   graph, selected code, global data, frames and activations, the rings as a refinement of
   lists (done).
