# A verification project for the ToyC compiler

ToyC is a compiler from a small subset of C to RISC-V32 assembly (`src/src`):
one `int` type, functions, `if`/`while`, short-circuit operators, global
variables. What it promises is in `src/CONTEXT.md`: the assembly's *execution
result matches the equivalent C program*. The models here ask exactly that, one
stage at a time and in composition: semantic analysis and lowering (`sema`,
`ir/ir_builder.cpp`), the optimiser (`ir/optim.cpp`, `ir/cfg.cpp`), and the code
generator (`backend/riscv.cpp`) with its tables, its register cache and its
arithmetic on constants.

## Contents

| module | models | theorems |
|---|---|---|
| `ToyIR` | the IR: instructions, what each reads, defines and does, a run of a program | |
| `Lowering` | `IrBuilder`: syntax tree to IR | |
| `SourceMeaning` | what a ToyC program means, from the syntax tree (the reference) | |
| `Semantic` | `class Analyzer`: which programs go on to lowering | |
| `FrontEnd` | composition: analysis, then lowering, one declaration or function at a time | |
| `MCFrontEnd` | families of programs, right and wrong | |
| `LocalPasses` | the passes over a basic block or the flat list | |
| `GlobalPasses` | `buildCFG` and the three data-flow passes | |
| `LoopPasses` | `licmPass`, `loopSumElimPass` | |
| `CallPasses` | tail calls, purity, recursion by its result, inlining, dead functions | |
| `CycleSearch` | abstract: what `findRecursive` promises | |
| `CallGraph` | `findRecursive`, step by step; implements `CycleSearch` | |
| `CallGraph_proofs` | its invariant and the refinement, for any number of functions | 3, and their lemmas |
| `Translation` | abstract: what the optimiser promises | |
| `PassManager` | `optimizeProgram`, `inlineProgram`, `optimizeFunction` as a process, one pass at a time | |
| `Passes_proofs` | what every pass makes of any function fits a frame it has asked for | 4, and their lemmas |
| `PassManager_proofs` | well-formedness and the analyses through every behaviour of the pass manager | 2, and their lemmas |
| `Meaning_proofs` | passes that keep what a program returns, for every program, input and word width | 11, and their lemmas |
| `Optimizer` | composition: lowering, then `PassManager`, with the meaning of the source beside it; implements `Translation` | |
| `MCOptimizer` | families of source programs for TLC | |
| `RegCache` | `cache_`, `sRegHeld_`, the machine registers and stack homes, and every method that changes them | |
| `FunctionEmitter` | `emitInst`, `emitUnary`, `emitBinary`, `emitDivByConst`, `emitCall` on any function | |
| `MCFunctionEmitter` | small functions for TLC | |
| `FunctionEmitter_proofs` | the five invariants of `FunctionEmitter` for every size | 5, and their lemmas |
| `EmitterTables` | `allocateRegisters`, `computeConstSlots`, `collectBranchTargets`, the frame layout | |
| `BinaryShape` | which sequence `emitBinary` picks for a constant operand | |
| `ConstantOperand` | those sequences as arithmetic, and `computeDivMagic` round by round | |
| `NumberFacts` | least numbers, powers of two, quotients: facts without a model | lemmas |
| `ConstantOperand_proofs` | the search and every sequence, for every word width | 3, and their lemmas |
| `CodeGen` | composition: `PassManager`, then `FunctionEmitter` with computed tables on what it delivers | |
| `CodeGen_proofs` | the tables of every function, and of what is emitted, from the program lowering hands over | 5, and their lemmas |
| `Backend` | composition: lowering, then `CodeGen` | |
| `MCBackend` | families of programs whose functions are emitted | |

To repeat a run: `tlc -workers 2 -config OptLoops.cfg MCOptimizer.tla`; to check
the proofs: `tlapm M.tla` for the seven modules `M_proofs` and `NumberFacts` (about
25 minutes in all). `PROJECT.json` lists every run,
the source lines behind every definition, a plausible bug for every property that
the property catches, the hazards and the findings.

## Inventory of the system

The compiler is one sequential process: read a source from stdin, parse, check,
lower, optimise, emit. There are no threads, no messages, no retries and nothing
is persisted; a failure is `fatal()` and the process ends. What is hard here is
*ordering and staleness*: dozens of passes and emission helpers keep tables of
facts ("this slot is 3", "this register holds that slot") and each must drop a
fact at the moment it stops being true. A unit test sees one program; the failures
need three or four instructions in an unlucky order.

| component | state | operations | hard behaviour | what makes it correct |
|---|---|---|---|---|
| parser, AST (`frontend`, `ast`) | none beyond the parse | flex/bison rules | none | (not modelled) |
| semantic analysis (`sema`) | scope stack, function table, loop depth, current function | declare, resolve, return check | a name declared in its own initialiser, missing return on one path | a program accepted has every name bound and every path returning |
| lowering (`ir/ir_builder.cpp`) | scope stack, slot and label counters, loop stack, instruction list | `emitStmt`, `emitExpr`, `evalConst` | order of evaluation, short circuits, shadowing | the IR runs to what the source means |
| IR (`ir/ir.hpp`) | program: globals, functions, instructions over slots and labels | none of its own | | |
| CFG (`ir/cfg.cpp`) | blocks, successors, predecessors | `buildCFG`, `reachableBlocks`, `hasBackEdge` | code behind a jump, branches with an empty side | every jump finds its label |
| local passes | `known`, `alias`, `seen`, use counts, chain tips | nine passes | a fact outliving a redefinition | meaning preserved |
| global passes | `in`/`out` per block, at most 20 rounds | three passes | joins, back edges, stopping early | meaning preserved, capped or not |
| loop passes | loops found by label names | `licmPass`, `loopSumElimPass` | loops run zero times, effects in the body, patterns too wide | meaning preserved |
| call passes | purity, call cycles, inline site counter | `tailCallPass`, inlining, dead functions | facts computed once and used after the program has changed; copies of copies | meaning preserved, labels unique |
| pass manager | position in the pass list, rounds, outer rounds | `optimizeFunction`, `inlineProgram`, `optimizeProgram` | passes undoing each other; caps | settles before its cap; inlining complete |
| emission tables (`riscv.cpp`) | `slotToReg_`, `constSlots_`, `skipStore_`, `branchTargets_`, frame offsets | computed once before emission | a store left out, a slot taken for a constant | a store is left out only where its one reader comes next; homes are disjoint |
| emitter (`riscv.cpp`) | `cache_`, `sRegHeld_` | one handler per IR instruction | registers overwritten behind the cache's back, eviction, joins, argument order | every operand is read correctly |
| constant operands (`riscv.cpp`) | the unsigned variables of `computeDivMagic` | choice of a sequence, search for a multiplier | ends of the word, wrap-around, multipliers wider than a word | the sequence equals `/` and `%` |
| driver (`main.cpp`) | none | the stages in order | a stage trusting what an earlier one checked | (its order is in `FrontEnd` and `Backend`) |
| diagnostics, simulator, scripts | none | I/O | none | (not modelled) |

How they interact: each stage hands a finished data structure to the next.
`optimizeProgram` calls every pass on every function in turn; a pass sees only the
function it is given, except that inlining reads the other functions' current
bodies and `licmPass` the purity computed before the first pass. The emitter reads
the IR and the tables and keeps its two caches in step with the code it writes.

## The front end

`Semantic` has the members of `class Analyzer` in one record, its methods as operators, and
`ok` for "`fatal()` was not called". `FrontEnd` is the process around it: `CollectUnit`,
`RequireMain`, `AnalyzeNext`, then `BuildGlobal` and `BuildNext` of `IrBuilder`, each one
declaration or function long. `Lowering` records why the builder stopped: its own `fatal()`,
or a division in a constant initialiser that its machine traps on. The builder does not ask
the analyser anything: it resolves names again with scopes of its own, evaluates the
initialisers again, and where a check is missing it writes an instruction without a slot.
That two separately written walks over the tree agree is what the run is for.

- `LoweringTotal`: what was accepted is lowered without an error, every definition has a slot.
- `AlwaysReturns`: `mustReturn` is a syntactic check; the emitter writes no return of its own
  at the end of a function. In the IR of an accepted program control never gets there.
- `VoidResultUnread`: the slot reserved for the result of a `void` call is not read.
- `LoweringCorrect`: the IR means what the source means, for programs in which scopes,
  shadowing, constants and short circuits interact.

`front_end` takes three families. `Scoping` is every pair of statements of `main` out of 69
(uses of undeclared names, assignments to constants, `break` outside loops, void calls as
values, shadowing declarations, constant initialisers that divide by zero behind a short
circuit); `Returning` is every pair of a body's first and last statement; `Declaring` every
order of three declarations out of ten, with twice the same name, missing functions and four
versions of `main`. Most are rejected; the rest is lowered. 80119 states. `Fuel` and
`Allowance` are enough for every loop that ends; one that does not has the meaning `Undef`.

## The emitter

### The model

`RegCache` has the record `Emitter`: the rows of `cache_` (register, slot, age),
`sRegHeld_`, and beside them what these tables talk about: the contents of the registers
and of the stack homes *when the emitted code runs*. Its operators are the methods:
`AddCache`, `KillReg`, `Promote`, `LoadSlot`, `StoreSlot`, and so on. Each does both
halves at once: it changes the table as the code does and the machine as the emitted
instruction will.

`FunctionEmitter` has one action per IR instruction. The function being compiled is left
open: any instruction may come next whose operands have values, so one behaviour is one
path through some function with the given tables. Arithmetic is not interpreted: an
operation yields any word of `Val`, the same in the IR (`val`) and in the register.
`misread` collects the slots whose operand register did not hold the slot's value. At a
label that is a jump target, the work registers hold anything (the code that ran last is
another path), and only s-registers and stack homes survive. A call is a step per
argument, because loads of later arguments can disturb registers that earlier ones still
need.

The tables computed before emission are constants: which slots live in
s-registers (`Home`), which are constants (`ConstOf`), which stores are left out
(`Skip`). `Shapes` says which branches of `emitBinary` the function goes through,
`GapLabels` which labels may stand between a deferred definition and its reader.

### Runs

| run | shows |
|---|---|
| `emit_general` | all shapes but the division: types, operands, `cache_`, `sRegHeld_`, deferred values |
| `emit_division` | all shapes but the general one; calls with more arguments than argument registers |

`EmitScratchReuse.cfg`, `EmitLabelGap.cfg` and `EmitConstParam.cfg` are not among the listed
runs. Each drops one of the three conditions the theorems assume and ends in a counterexample:
division and general shape together (`t0` written behind the cache's back), a jump target between
a deferred definition and its reader, a parameter in the constant table. The first two are
listed as `codegen_dividend` and `codegen_two_returns`, where a whole program shows them.

Bounds: two words besides *undefined*; one slot of every kind (s-register
parameter, constant, deferred, stack parameter, stack local); two argument
registers and a scratch register; a cache of two rows, where the code has
`kCacheCap`, so that rows are evicted (with room for all of them `emit_general` has a
tenth more states); two or three arguments per
call. The machine's words carry no arithmetic, so two of them are enough to tell right
from wrong. The state space is finite without any further bound.

### What is proved

`FunctionEmitter_proofs` proves the five invariants `TypeOK`, `OperandsCorrect`,
`CacheTruthful`, `HeldTruthful` and `NoLostValue` for **every** set of slots, values,
tables, register file, cache capacity and number of arguments. `TypeCorrect` and the
others assume the named assumptions on the constants (`RegisterAssumption`,
`TableAssumption` and `FunctionAssumption`, evaluated by TLC in every run) and `Benign`:
not both the division and the general shape in one function, no jump target in a
deferred gap, no parameter in the constant table. Without `Benign` the properties are
false, as the three configurations above show.

The argument. None of the five is inductive. `CacheTruthful` alone is not:
`storeSlot` makes a row from a register whose content must be known to equal the
IR value, and a load from a stack home is right only if the home is. The inductive
invariant `IInv` is

- `Good`: types; every row of the cache tells the truth, is the only one of its slot and
  is of a slot without s-register or constant (`Rows`); held registers equal the
  s-register they name (`Held`); s-registers, constants and stack homes hold the slot's
  value (`Homes`);
- while no call is being emitted, only `a0` may be listed in `sRegHeld_`. This is why
  `storeSlot`, which writes an s-register without looking there, does no harm: it always
  stores from `a0`;
- a pending deferred value is in `a0` (stronger than "somewhere in the cache": the next
  instruction may load its other operand first);
- in a function with the general shape no row is of `t0`, which that shape writes
  without looking;
- in the middle of a call nothing is pending, every argument has a value and is no
  deferred slot, and the arguments already loaded are in their registers or on the
  stack.

Each emitter method has a lemma saying it keeps `Good` and what it returns
(`LoadSlotGood`, `StoreSlotGood`, ...), each action a lemma that it keeps `IInv`
and reads right (`BranchStep`, `BinaryGenericStep`, `CallRegArgStep`, ...), and
`NextInvariant` puts them together.

## Tables, constant operands, and code generation as a whole

`EmitterTables` is what `FunctionEmitter::emit` computes before it writes the first
instruction, as functions of the IR of one function. The maps by slot number become functions
on slots, the scan for the next emitted reader the set `NextEmitted`. The model keeps
what the code asks and does not ask: `ReadOnce` counts reads and not definitions, `SkipStore`
is by slot, and labels of every kind are `Silent`.

`ConstantOperand` runs the sequences of `emitBinary` and `emitDivByConst` on words of
`WordBits`, with an immediate of `ImmBits` that the assembler would truncate. The variables
are those of `computeDivMagic`, whose loop is the action `Round`. `const_arith` takes
**every** constant and **every** other operand of a 9-bit word, with 5-bit immediates: the
algorithm's cases (power of two, multiplier that fits or overflows, both signs, both ends of
the word) depend on where a value lies between 0, the powers of two and the end of the word, and
in nine bits all of them occur. `DividesThePower` says the unsigned variables never wrap,
`SequencesExact` that each sequence leaves what `ToyIR` says of the instruction, and
`Terminates` that the search ends with a shift the machine has. 3306 states.

`CodeGen` composes: `Compile` is a step of `PassManager`; when that is done `BeginFunction` takes
any function of the program, computes its tables and starts a `FunctionEmitter` on it
(`E(t, v)`, an INSTANCE for the tables `t` and the word `v` the instruction yields). The emitter's
actions then follow the code instruction by instruction; `pc` takes either side of a branch. A
result that is no constant is a mark of the place that computed it, another one each time it
comes by, so that any two values can be told apart. `FunctionEmitter` alone takes any
sequence that meets its guards; here the guards are obligations. If an instruction of a compiled
function did not meet one, no action would be enabled and TLC would report a deadlock.
`Backend` adds where the program comes from: its `EmitInit` is the `Init` of `Optimizer`, which
lowers a source program. They are two modules because `SourceMeaning` is recursive, and theorems
can only be stated where nothing is.

- `DeferralSound`: a slot whose store was left out is read by the instruction whose definition
  of it ran last, with nothing in between, on every path.
- `CodeCorrect`: every instruction finds the values of its operands in the registers it names.
- `NothingLost`: every slot's value can be found again, wherever control has come.
- `HomesApart`: no two slots share an s-register, the frame's parts do not overlap.

| run | shows |
|---|---|
| `const_arith` | the arithmetic above |
| `codegen` | 216 programs (`Kept`: a function that calls itself, not inlined; `Inlined`: twice into `main`) from source to register contents |
| `codegen_two_returns` | violation: a deferred slot assigned on two paths |
| `codegen_dividend` | violation: the dividend is left in `t0` and the cache says so |

Bounds of `codegen`: two s-registers, two argument registers and two cache rows, where the
functions have three parameters and two or more named locals; so there are slots in registers
and on the stack, arguments in registers and on the stack, evictions, and every shape of a binary
instruction. 39446 states. The shapes `zero` and `copy` seldom survive the passes before; the open
environment of `emit_general` covers them in every context.

### What is proved

`CodeGen_proofs`, for every function (its IR as `Listed` has it: a list of instructions over slots
`0 .. slotCount-1`) and any number of s-registers:

- `FrameLayout`: `ra`, `s0`, any number of saved registers and any number of slots have words
  of their own inside the frame, whose size is a multiple of 16.
- `TablesFit`: no two slots get one register, whatever ties the sorting has to break; constants are
  words; no parameter's store is left out. This is what `FunctionEmitter`'s theorems assume
  of the tables, apart from `Benign`.
- `ReaderFollows`: a definition whose store may be left out has a reader; it is the next
  instruction that emits code, and no other instruction of the function reads the slot.

The arguments are direct. `Ahead` is a strict total order on slots, so two slots of equal place
would each be ahead of the other (`RankOrdered`, by the cardinality of what is ahead of each);
a slot read once has one read site (`ReadSitesFinite` makes the count a cardinality), so
whoever reads it is that site's instruction. `ReaderFollows` does *not* say that the definition
is the only one, because the code does not ask: that is the finding `codegen_two_returns`.

And for every program, every cap on rounds and any number of s-registers:

- `HomesStayApart`: `HomesApart` holds of whatever function is emitted in the end.
- `TablesStayFit`: so do the parts of `TableAssumption` and `FunctionAssumption` that are about the
  tables; the rest of what `FunctionEmitter`'s theorems assume is the register file, which is fixed,
  and `Benign`, which compiled code does not always meet (the findings).

The argument joins the optimiser's invariant `IInv` (below) to the tables: when `stage` is `done`
every function is one of a well-formed program and holds no constant that stands for a division
the compiler did not survive (`FunctionListed`), so its tables are those of `TablesFit`
(`TablesApart`). `TInv` says that and that `tables` are the tables of such a function; only
`BeginFunction` changes them (`EmittingKeeps`).

`ConstantOperand_proofs`, for every word of more than two bits (`WidthAssumption`; the code has
32) and every width of an immediate within it:

- `SearchExact`: `DividesThePower` for every constant. The invariant adds to it that, as long as the search runs,
  both quotients are below half a word and the second remainder is 0 if its quotient is the last
  of these; otherwise doubling could wrap. What has been found when it ends is in the last conjunct:
  the power is large enough for every dividend.
- `CodeExact`: `SequencesExact`, that is, every sequence `emitBinary` may choose for a constant
  operand leaves exactly what the IR says, for every constant and every other operand. For the
  multiplier `m` of a divisor `d` the error `m*d - 2^p` times any dividend stays below `2^p`
  (`ErrorSmall`; `ErrorLeastWord` for the smallest word, which is larger than the others), so the high
  word of the product is the quotient rounded down (`ProductDivided`); a multiplier that does not fit is
  taken a word lower and the dividend added back (`Corrected`), and the sign bit turns rounding
  down into rounding towards zero (`MagicQuotient`). Powers of two need the bias instead (`Bias`,
  `PowerQuotient`).

`NumberFacts` has the arithmetic both rest on. `2^n` is opaque to the provers but for its recursive
definition, and induction with a predicate as a parameter cannot be used; so `Induction` is stated
for sets of numbers, and proved from the least number that is missing (`LeastExists`).

## The optimiser

### The model

`ToyIR` gives an instruction as a record with the fields of `ir.hpp` that matter, and
the outcome of a program as `Outcome(prog, globals)`: step by step, with frames for
calls. A run not finished after `Fuel * Fuel` steps has the outcome `Undef`, and so has
one that a value without meaning (a slot never written, a division by zero) steers or
that returns such a value. `Lowering` follows `IrBuilder` closely, the numbering of
slots and labels included, because the passes look at both. `SourceMeaning` is *not*
derived from the compiler: it evaluates the syntax tree as C does. Signed overflow of
`+`, `-` and `*` wraps here (as the processor does), a choice that makes the comparison
stricter than C. The one division that overflows, the smallest word by -1, has no
meaning; on the target it wraps, and the compiler that folds it is stopped by its own
processor: the stage `stopped`, which only `OptFoldOverflow.cfg` reaches. `branchFoldPass` works out what is
known with the same division and can stop in the same way (`StopsAt`); the attempt to prove that it keeps the
meaning showed that the model had it take such a branch instead.

A pass is an operator from instruction list to instruction list. `PassManager` is
the state machine around them: one action per pass and per step of `inlineProgram`.
`Optimizer` gives it a program: its `Init` chooses a source, computes its meaning for
every input and lowers it. `stage`, `at`, `pass`, `iter`, `any`, `outer` and `site` are the
loop variables of the code; `pure`, `recursive` and `inlinable` its sets.

Every pass of the code was also compared with its operator step by step: a
random generator of ToyC programs, the compiler's own `TOYCC_DUMP_PASS` output after
every repeated pass, and the models' lists agreed instruction by instruction on
more than a thousand programs.

### Properties

- `MeaningPreserved`: for every input, a program that has a meaning returns exactly
  that after lowering and *after every single pass*. A violation names the pass.
- `LabelsUnique`: no label is defined twice in the assembly text.
- `JumpsResolved`: jumps find their label in their own function.
- `WellFormed`: instructions have the operands their operation asks for, slots are inside the
  frame, called functions exist and get as many arguments as they have parameters, no two
  functions have one name, and there is a `main`.
- `AnalysesHold`: purity and recursion, computed once, remain true of what the
  passes have made of the program; inlined functions are leaves.
- `Settled`: the repeated passes never stop only because of their cap of 16.
- `InlinedOut`: no inlinable call is left at the end.
- `Translated`: folding a division never stops the compiler itself, in the families of
  `optimize_code`. It can, see below.
- `PropagationKept`: no step of `constFoldPass`, `copyPropPass`, `globalConstPropPass` or `globalCopyPropPass`
  changes a defined result, whatever the other passes have made of the program by then. It is the part of "every pass keeps the meaning" that holds of every
  program (below), where `MeaningPreserved` holds of the families.
- `RemovalKept`: nor does a step of `branchFoldPass`, `deadBlockPass`, `gotoCleanupPass` or `dcePass`, as long as no
  label of the function is defined twice (`OptTailAgain` below shows that one can be, and then a jump need not go
  where these passes think it does), nor `deadFunctionElimination`.
- `TranslationKept`: the optimiser implements `Translation`. That abstract machine knows
  nothing of passes: it keeps what the program returns for each input (`does`), may improve it
  only where nothing defined was returned, and delivers in the end. The refinement maps
  `does` to the outcomes of the current program and `delivered` to `stage = "done"`; every pass
  is a stutter or an `Improve`, and `Deliver` has to happen.
- `FindsCycles`: `CallGraph`, Tarjan's search with its recursion unrolled, implements
  `CycleSearch`, which adds components in any order and answers with exactly the functions that
  can call themselves. `StackOpen` says why it can: what is on the stack still reaches the node
  at work. `CallPasses` uses the result. `FindsCycles` is the safety of `CycleSearch`, that nothing
  else is reported and the answer comes when nothing is missing; `Answers` is its fairness, that
  it does come.

### Runs and bounds

Words have 16 bits (`WordBits`): TLC's integers have 32 and the closed forms need room
for products. The largest and the smallest word are among the inputs. The key masks of
the code keep their 20 and 22 bits. `RoundCap`, `IterCap` and `OuterCap` have the values
of the code, 20, 16 and 6. `Fuel` and `Allowance` bound the run of the program and of
its meaning; each family needs less, and a program beyond its allowance has meaning
`Undef`, which is what the endless loops of the families get.

| run | families | why these programs |
|---|---|---|
| `optimize_code` | `Arithmetic`, 100: pairs of 10 expressions in an inlined function | shared values, swapped operands of `+` and of `-`, constants that merge, multiply by 0 and 1, both ends of the word |
| | `Branching`, 135: two joins, short circuits with effects | facts known on one side only, early returns, shadowing |
| | `Calling`, 25: pairs of 5 calls | tail recursion, other recursion, calls of calls, a callee that assigns its parameter |
| | `Untaken`, 6: divisions by a variable known to be zero | folding meets a division nobody runs |
| `optimize_loops` | `Summation`, 180: 5 comparisons, 2 starts, 3 steps, 3 bounds, 2 addends | loops run zero, one and several rounds, bounds not met exactly, endless loops |
| | `Looping`, 48: pairs of 8 loop bodies | break, continue, return, nested loops, calls, loads and stores of globals, names read behind the loop |
| `optimize_capped` | `Looping` with the caps at 1, 2 and 1 | every early stop happens |
| `call_graph` | every graph of three functions, 14874 states | components of one, two and three functions, self-calls, callees looked at in every order |

The programs semantic analysis accepts today call earlier functions and themselves only, so that
their call graphs have no cycle of two functions. `findRecursive` does not rely on that, and
`CallGraph` takes any graph.

A family stays away from what a pass is known to get wrong; each such case has a
program and a configuration of its own. So constants in the families are larger than
any slot number (else the key of a constant meets the key of a slot), variables are
not reassigned in the block where they held a common subexpression, and a tail call
does not permute its parameters. What is left is no thin remainder: every pass and
each of its rewrites happens.

### What is proved: the search for cycles

`CallGraph_proofs` proves `StackOpen` and the refinement `FindsCycles` for **any** number of functions
and any calls between them. The invariant `IInv`, checked by TLC on `call_graph` first, has twelve
parts. Four say what the tables are (`TypeOK`, `IndicesInTurn`, `StackInOrder`, `WorkIsPath`: indices
are given in turn, the stack is ordered by them, the work list is a path of calls). `StartPassed`
and `SeenVisited` say what has been visited, `ClosedStays` that calls do not leave what is closed.
The heart is about reachability: `OpenReaches` (every node on the stack reaches a node of the work list that is
no younger than it), `GrayReaches`, and the two readings of `low`: it is the index of an open node that
is reached (`LowReached`), and no open callee looked at so far is older (`LowLeast`). From these, what a root
pops is exactly its component: `RootStays` and `RootComponent`. `AnswerSoFar`: what is reported is the union of the
closed components that are cycles. `Reach` is defined by closed sets, so none of this needs induction
over paths; each step of a path is an instance of the definition (`ReachEdge`, `ReachTransitive`).

### What is proved: the pass manager

`PassManager_proofs` proves `WellFormed` and `AnalysesHold` for every program, every number of rounds and every word
width: `Started /\ [][Next]_vars => []WellFormed`. `Started` is what `optimizeProgram` is called with: a
well-formed program without a constant that is no number, no pass run yet. Lowering meets it in every
program of the runs (`WellFormed` is an invariant there, of the first state too); that it always does
cannot be proved here, as `Lowering` and `SourceMeaning` recurse over syntax trees.

Every pass is a walk over the instruction list that carries tables along, and every table may end up
in an operand. What the passes keep is therefore stated of tables and lists alike, relative to a
`Context`: the labels, names, constants, calls, loads and stores an instruction may have. `Code(c, m)` are the
instructions that fit `c` and a frame of `m` slots, and `Versions(c, fn)` the functions that could
stand for `fn`: same name and parameters, a frame at least as large, a body of such code.
`Passes_proofs` shows of each of the fifteen passes that a version goes to a version: of each entry
of a table that it is among `m` slots (or among constants) whatever instruction comes next, of each
walk that its state stays in such a set (`WalkExists`, `WalkStays`), of `Dataflow` that it
may be stopped after any round. `GlobalPassesStay`, `LoopSumElimStays`, `TailCallStays` and `InlineCallsStay` are the
ones that reach across blocks, make new slots, or write instructions no pass has seen.

The invariant `IInv` then is

- `IsProgram(prog)`, which is `WellFormed`;
- `AtWork`: the position is one of a function;
- `NoneStopped`: unless the compiler has died, no constant stands for a division that would kill it
  (without it `Code` would have to allow such constants everywhere);
- `PureKept`: the functions found pure store no global and call pure functions only. This is more than
  `pure` being right: it survives because a pass only ever drops calls and stores, and an inlined
  callee is as pure as the call it replaces. That it makes the functions pure for `PureFunctions`, a
  fixed point computed in rounds, is `PureIs`: the rounds are counted against the
  finitely many functions (`Saturated`);
- `Recursive(prog) \subseteq recursive`: passes remove cycles and never make one (`RecursiveShrinks`);
- `LeavesInlined`: while a round of inlining runs, what it inlines calls nothing. So a copied body brings
  no call into the caller, and no later copy of it is stale.

TLC checked `IInv` on the optimiser's runs before it was proved. For the proof `ToyIR`'s walks are
recursive *functions* and not operators; a walk is the function CHOSEN by its recursive equation, so each
use first has to show that there is one (`WalkExists`, by the set-based induction of `NumberFacts`).

### What is proved: passes keep the meaning

`Meaning_proofs` proves of a pass that it keeps `Outcome`: for every program, every function of it the
pass is applied to, every value the globals may start with, every word width and every `Fuel`, a program
that returns something defined returns just that behind the pass.

- `ConstFoldKeeps`: `constFoldPass`, unless a folded division has stopped the compiler (`OptFoldOverflow.cfg`
  shows that it can).
- `CopyPropKeeps`: `copyPropPass`.
- `GlobalConstPropKeeps`: `globalConstPropPass`, unless a folded division has stopped the compiler, and wherever
  the bound on its rounds (`RoundCap`) stops the iteration.
- `GlobalCopyPropKeeps`: `globalCopyPropPass`, wherever its iteration stops.
- `BranchFoldKeeps`: `branchFoldPass`, unless a division has stopped the compiler.
- `DeadBlockKeeps`, `GotoCleanupKeeps`: `deadBlockPass`, `gotoCleanupPass`.
- `DceKeeps`: `dcePass` with all its rounds, wherever they stop.
- `LiveFunctionsKeep`: `deadFunctionElimination`.

Of `branchFoldPass`, `deadBlockPass`, `gotoCleanupPass` and `dcePass` this is said of functions that define no
label twice (`LabelsDistinct`). What is asked of the program is `Comparable`: it is well formed (`IsProgram`), `main` takes no parameters,
it reads only globals that are there, and the function holds no constant for which the compiler has already died.
`WellFormed` is kept by every pass (above), and what lowering makes of an accepted program has the rest.

The two programs run side by side. `Outcome` is a run of `Fuel * Fuel` machine steps (`OutcomeIs`), and a
relation `Simulates` the second program by the first if related machines stay related while the second takes at most
as many steps, and one that has returned is related only to one that has returned the same (`Simulation`). The
relation is `Companions`: as many frames in both, each pair at work on one function, at positions and with
slots that belong together, and every value the first has the second has too. It may have more: folding
makes `0 * x` defined where `x` is not (`AllBelow`). What a pair of functions must meet for that is
`Follows`: instruction by instruction, jumps go to related places, definitions leave related slots, calls pass related
arguments to one callee, and stores and returns agree. `Followed` takes that from functions to programs, through calls
and returns.

A pass that rewrites instructions where they stand has less to show (`InPlace`): a set of slot
assignments for every position that covers whatever control brings there (`Covers`), under which the new instruction
does what the old one does (`Mimics`). For the two passes inside a block the sets are what their tables say: `Holds`, every
slot in `known` has the constant found for it, and `Agrees`, every slot in `alias` is equal to the
slot it is an alias of. That tables are emptied where control comes together and that a redefinition drops
what it falsifies is `LearnHolds` and `AfterMoveAgrees`; that a rewrite under a true table has the same
effect is `SimplifyMimics` and `RenamedMimics` (a slot that holds the same may be read instead: `AlikeMimics`).

For the two passes across blocks the sets cannot be what the tables say: the tables are the result of
an iteration, and a table is right at a place only if that of every predecessor is. So the sets are
`Arriving`: what no cover can leave out, the least of them. `ArrivingCovers` says that it is one, and control comes
to a place in it only along the block, from the instruction before (`ArrivingAlong`), or from the end of a block
that is a predecessor (`ArrivingAcross`). The iteration begins with tables that say nothing, and
`TrueStates` are its states whose tables are true on `Arriving`, at the start and at the end of
every block. One visit of a block keeps that (`VisitBlockTrue`): the join of its predecessors keeps only what all of
them say (`MeetAllTrue`), and the walk through the block learns and forgets as an instruction does
(`ThroughBlockTrue`). So every state of the iteration is true, the last one too, whether it has settled or not
(`DataflowTrue`), and nothing of the proof is about a fixed point. Rewriting follows a chain of aliases as far as it
goes (`FollowAgrees`) and has a true table at each instruction (`RewriteTrue`).

The passes that leave instructions out make the second function shorter, and the relation between positions is a
function `r`: where in the new list an instruction has gone, or the next one that is left (`Left`; that a list put
together piece by piece has such an `r` is `LeavingIs`, and `KeepAtLeaves` for `KeepAt`). `Shortens` asks, given sets of
slot assignments that cover the function, that an instruction that stays is the same or the jump to the side a branch
takes (`Decides`), and that one that goes is `Idle`: control never gets there, or it sets a slot that nothing reads, or
it jumps to where the next one left is anyway. The slots read anywhere are all that the two runs have to agree on
(`ShortensFollows`). A label that is defined once and may be reached has gone where its instruction has
(`TargetMoves`); of a label defined twice the first counts for a run, so that leaving one out could change where jumps
go. The four passes are four instances. For `deadBlockPass` the cover is everything at what it found reachable and nothing
elsewhere, and it is one because that is closed under the steps of a run (`ReachableIs`). For `gotoCleanupPass` and a
round of `dcePass` it is everything everywhere (`AnythingCovers`); the rounds follow each other because what one leaves
can be looked at again (`DceRoundServes`). For `branchFoldPass` it is what `known` says, as for
`constFoldPass`. A program without the functions `main` does not get to is followed by itself, in the sense of
`Follows`, on the functions it has (`LiveIs`, `FollowsSelf`).

`PropagationIsKept` takes the first four passes to where `optimizeProgram` calls them, whatever the passes before them have
done. For that `IInv` goes along, and `Watched`: a program of no other loads (`NothingNew`: each pass keeps
a function's loads among those of the program, `Context`, so that none reads a global that does not exist), `does`
the results of the program as it is now. The last needs that a pass that reports no change
made none; `InlineCalls` reports sites, and a copy without a site is its caller (`SameSite`). Asked of the start is
`Started` and `Watched`: what `Optimizer`'s initial states hand over when the globals are those the program loads.
`RemovalIsKept` does the same for the others.

`IsInstruction`, a part of `WellFormed`, says that constants are words for this: folding an operation on constants
of more bits would wrap where reading them does not.

### Divergences

The listed violation runs are each a finding in `PROJECT.json` with the comment they
contradict: `tail_swap`, `codegen_two_returns` and `codegen_dividend`. Each was also confirmed
by running the compiler on the program.

Further divergences, found the same way and confirmed the same way, that have a
configuration and no listed run. `tlc -config X.cfg` with the module named ends in a
counterexample to the property named; for `Opt...` the module is `MCOptimizer.tla` and the
property `MeaningPreserved` unless the row says otherwise. Line numbers are those of
`src/src/ir/optim.cpp` unless another file is named. `SumCondition`, `SumScaled`, `SumCopied` and `SumComputed` are
families of `MCOptimizer` to put in the place of `SumStart` in `OptSumStart.cfg`.

| configuration | line | what happens |
|---|---|---|
| `OptCseOldConstant` | 569 | `csePass` takes a slot for a constant "when the slot is known to hold a constant in this block" (504), but no redefinition other than by a `Const` removes it from `known`: after `x = 2; x = a+b;` the product `x*y` is taken for `2*y` |
| `OptKeyClash` | 2078 | a key marks a constant by bit 30 (2065) and `encodeExpr` then keeps 20 bits: `a+1` has the key of `a+b` when `b` is slot 1 |
| `OptLoadBeforeCall` | 803 | only what comes "after an IMPURE call" stays in the loop (706): a load in front of the call that changes the global is moved out |
| `OptSumStart` | 887 | the start of the induction variable is the last definition in the list, whatever branch decides whether it runs |
| `SumCondition` | 996 | of `while (i < 4 && s < 3)` only the first comparison is looked at |
| `SumScaled` | 1140 | `s = s*2+1` passes for an accumulator, though `s` "must not be read in the body except as its own update lhs" (874) |
| `SumCopied` | 1092 | `x = i` in the body of a summed loop disappears with the loop although `x` is read behind it |
| `SumComputed` | 1092 | `x = i + 1` likewise: the check of the loop's other definitions lets it pass |
| `OptCseOverwritten` | 518 | the slot that first held an expression is reused for it although it was assigned since |
| `OptTailAgain` | 1563 | a tail call found in a later sweep defines the function's entry label again (`LabelsUnique`) |
| `OptCombineParameter` | 1450 | "single-def Consts have a fixed value across the whole function" (1446), but a parameter holds the argument first: of `x = a+b+5; b = 3;` `instCombinePass` makes one addition of 8, with `b = 8` in the place of `b = 3`, and `x = a+b` |
| `OptFoldOverflow` | 117 | the smallest word by -1 is folded with the machine's own division, which traps (`Translated`) |
| `FrontConstTrap` | `src/src/ir/ir_builder.cpp`:190 | an unused constant initialised with a division by zero stops the compiler (`MCFrontEnd`, `LoweringCorrect`) |
| `CodegenSetParameter` | `src/src/backend/riscv.cpp`:339 | the constant table holds slots defined once, by a `Const`; a parameter was defined before, by its argument (`MCBackend`, `CodeCorrect`) |
| `EmitConstParam` | the same | the same in the open environment (`MCFunctionEmitter`, `OperandsCorrect`) |
| `EmitScratchReuse`, `EmitLabelGap` | | the listed findings in the open environment (`MCFunctionEmitter`, `CacheTruthful` and `OperandsCorrect`) |

### Fairness and termination

The compiler is one thread that is never suspended for good: if it can take a step it takes
one. That is the fairness assumed, and only in the specifications of runs that check a liveness
property: `WF_vars(Round)` in `ConstantOperand`, `WF_vars(Next)` in `CallGraph`, and `Running`
in `Optimizer`, which is `WF_vars(Next)` with its ENABLED written out ("not over yet"), because TLC
would have to compute every pass twice to evaluate ENABLED. `Terminates`, the fairness of
`CycleSearch` in `FindsCycles` and `Deliver` in `TranslationKept` follow from it. `Emitted`,
`Returned` and `Finished` are the steps of a process that is over, so that TLC checks for
deadlock in every run.

## What is checked and not proved

- Liveness: `Terminates`, `Answers` and the `Deliver` of `TranslationKept`. Fairness and ENABLED are out
  of the prover's reach.
- `MeaningPreserved`, `LoweringCorrect`, `TranslationKept` and the front end's other properties:
  `Lowering`, `SourceMeaning` and `Semantic` recurse over syntax trees, and
  theorems about recursive operators, or by induction over data, cannot be proved here. What can be is a
  pass at a time, between one IR and the next (`Meaning_proofs`). The first
  two are false without the restrictions of their families in any case (the divergences above), and so
  are `Translated` (`OptFoldOverflow`) and `LabelsUnique` (`OptTailAgain`).
- `JumpsResolved` depends on the shape of what lowering writes: `loopSumElimPass` removes everything
  between the labels of a loop, so that of any list of instructions it would not hold. An invariant
  would have to describe nested loops in a flat list.
- `Settled` and `InlinedOut` are about how many rounds are enough, for the programs of the families.
- `DeferralSound`, `CodeCorrect` and `NothingLost` on compiled code are false in general (the findings).
  `FunctionEmitter_proofs` has the theorem about the emitter that remains, under `Benign`.

## What is not modelled, and why

- `loopSumElimPass`: its checks for 64-bit overflow and its limit of 3e9 rounds; numbers
  in a 16-bit world never reach them. The order in which several accumulators are
  rewritten is a hash table's in the code and by slot here; the rewritten instructions
  do not depend on each other.
- Parser and AST: generated by flex and bison, with no state beyond the parse; the models start
  from the tree (`Lowering` has its node types as constructors).
- The text of the assembly: an offset or immediate too large for one instruction is split
  through `t6` (`emitAddiReg`, `emitSwReg`, `emitLwReg`), which nothing else uses; such a
  sequence stands for one step.
- Reading stdin and the wording of diagnostics. The simulator and the scripts under `tools`
  are test tooling.

## Plan

Done: the modules above, in the order lowering and optimiser, emitter and its proofs, emission
tables, composition of the back end, front end, constant operands, cycle search, the two
abstract specifications; then the proofs about cycle search, constant operands, the passes, the pass
manager, code generation, and eight passes and the removal of functions keeping the meaning. Left, in this order:

1. That the other passes keep the meaning where they do (`csePass`, `licmPass`, `loopSumElimPass` and
   `instCombinePass` do not in general, see the divergences): `copyCoalescePass` in a block, and tail calls and inlining,
   for which frames of the one run go with several or none of the other, so that `Together` has to be
   generalised.
2. `loopSumElimPass` with its 64-bit checks, at a word width that leaves room for them.
