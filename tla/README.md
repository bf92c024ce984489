# TLA+ models of the ISA minimizer

The repository takes the netlist of a CPU and a program, searches for a restriction of the instruction
set that lets gates of the CPU be removed, and rewrites the program for what is left. This directory
holds TLA+ modules of its parts, the TLC configurations that check them on small instances, and proofs
that the TLA+ proof system checks for every value of the constants. `PROJECT.json` lists the runs, the
lines each definition stands for, the findings, and the hazards with the properties that cover them.

    tlc -config MCLiveliness.cfg MCLiveliness      # one run
    tlapm LivelinessProofs.tla                     # one module of proofs

A definition whose name begins with `Bad` is never part of a model. It is the definition below it with a
mistake one could make in the code (a dropped guard, a missing reset, an off-by-one). Put in its place, it
makes a property fail; `PROJECT.json` ("mutants") says which, and this is how we know that the
property is able to fail.

## 1. The system

    program.s --read_elf--> decoded program --ProgramAnalysis--> blocks, live registers
                                  |                                   |
                    ISACandidateManager (genetic search)               v
        FieldUses, forms  <---mutation, crossover              rewrite_program
                |                                               |          |
      fields_to_encodings                             replacement hooks  GreenThumb
                |                                               ^          ^
        Simulator: netlist, removed gates        SuperoptimizationCtx   restrictions of
                |                                  (stochastic search)   the candidate
        fitness, commented netlist                      |
                                            Z3EquivalenceManager, MachineState

| component | state | operations | what is hard about it | correct when |
|---|---|---|---|---|
| program analysis (`program_analysis.rs`) | blocks with read, consumed, live-in and live-out sets | cut into blocks, `compute_liveliness` | a fixpoint over loops, in place and in block order, that detects change by set sizes; conditional writes; unknown branches | the live-out sets are exactly the registers some path reads |
| bit patterns (`bit.rs`) | none | covering, merging, `cube_subtract` | recursion over positions | the result is the exact set difference |
| field uses (`isa_specification.rs`, `mutate_field`) | the patterns of a field | `merge`, mutation | a loop that changes what it scans, a mutation that must move one value | values are kept, the loop ends, mutations move one value |
| instruction encodings (`isa_specification.rs`, `greenthumb_restrictions.rs`, drawing in `superoptimization.rs`) | field uses and active forms; the partial word being drawn | decode, check predicates, legality, `fields_to_encodings`, `from_program`, draw, change one field, restrict GreenThumb | one predicate interpreted three ways; retry until it fits | all three agree on which words are legal |
| genetic search (`isa_optimization.rs`) | candidates and fitnesses, two parallel vectors | seed, repair, restore, cross over, mutate, validate, select | the vectors must agree over filters; requirements must survive every reproduction | fitness is the candidate's own, requirements hold in each generation, the best is kept |
| gates (`simulator.rs`, `bit.rs`) | a workspace of stamped wire values and static flags, reused; the result | simulate all encodings, find static and unobservable gates, write the netlist, validate | stale values, order under aliases, removing many gates at once over unknown flops | the reduced core behaves as the original |
| program rewriting (`program_rewrite.rs`) | the assembly file, the decoded program, lines | replacement passes, block rewriting by GreenThumb | line numbers while lines are inserted; scratch registers chosen on an old analysis; a loop that need not end | the program computes the same and runs on the candidate |
| semantic matching (`semantic_matching.rs`) | machine states | run, compare, ask the solver, cut its model to a counterexample | two different notions of difference have to agree; scratch memory | equal programs are at no distance, a model is a real counterexample |
| superoptimization (`superoptimization.rs`) | current program and cost, counterexamples, matches | mutate, cost, accept, ask, record | costs that go stale when counterexamples are added; infinite costs; random cases | cost is its own, no correct program is shut out, the search returns |
| expressions (`instruction_semantics.rs`, `semantic_matching.rs`) | a term on its way to an equivalence check | `collapse`, `canonicalize`, evaluate, lower to circuits and to formulas | some thirty operators, each implemented four times; rewriting by dozens of rules, which later looks up terms by comparing them | rewriting keeps the value, all implementations give one value, and the canonical form is one |
| effects of sequences (`semantic_matching.rs`, `superoptimization.rs`) | one list of guarded writes, in terms of the first state | `instruction_seq_to_effects`, `execute_test`, what a generated program may write | words are written and read by bytes, reads see earlier conditional writes, writes to one place are combined | the list does what running the instructions does |
| BDD equivalence (`semantic_matching.rs`) | for each effect two expressions, tables of memory reads, a pool of variables that is used again | `from_left_instruction`, `replace_right_instruction`, `compare_instructions` | one pool for one right program after the other; reads are equal when their addresses may be | the answer is that of running both programs |
| equivalence by solver (`semantic_matching.rs`) | arrays of the solver | execute, observe, compare | the same question asked in other terms | it agrees with the BDDs and the execution |

The components call one another in one process; candidates are scored by worker threads that have a
workspace each. The hard behaviours here are therefore not messages but long sequences of steps over
state that is cached, stale or kept in two forms, loops that have to end, and callbacks into hooks and
external tools (GreenThumb, Z3) that may answer anything.

Components that are not modelled, and why, are in section 8.

## 2. Modules

| module | models | uses |
|---|---|---|
| `BasicBlocks` | reads and writes of an instruction, boundaries, block construction | |
| `Liveliness` | the loop of `compute_liveliness`, one step for each visited block | `ChaoticLiveness` (abstract) |
| `ChaoticLiveness` | what any liveness analysis promises: sets grow by the equations, and it stops when all hold | |
| `ProgramAnalysis` | both constructors followed by `compute_liveliness` | `BasicBlocks`, `Liveliness` |
| `BitPatterns` | cubes, the difference of two, one round of `merge` | |
| `CubeSubtraction` | the cubes of one width: the complement of a set of them, the recursion of `cube_subtract` with its calls as steps | `BitPatterns` |
| `FieldUses` | a field through merging and mutation | `CubeSubtraction` |
| `FieldEncodings` | decoding, predicates, legality, encodings, `from_program`, the drawing loop, allowed patterns | `BitPatterns` |
| `IsaOptimization` | a run of the genetic search | |
| `Netlists`, `GateUsage` | compiled netlists and their simulation; the optimization over one workspace, validation, the core before and after | |
| `ProgramRewrite` | `rewrite_program` with its hooks | `ProgramAnalysis` |
| `MachineStates` | execution of programs, `MachineState::compare`, what the solver looks for | |
| `SolverEquivalence` | `Z3EquivalenceManager`, the partial state made of a model | `MachineStates` |
| `IllegalReads` | `generated_program_illegal_read_count` | `MachineStates` |
| `Superoptimization` | `generate_candidates` | the three above |
| `WordOperations`, `Expressions` | the operators on numbers; terms, their widths and `evaluate_expr` | |
| `Collapsing`, `Canonicalization` | `Expr::collapse` with constant folding; `Expr::canonicalize` | `Expressions` |
| `ExpressionCircuits` | circuits of `BddManager`, and the lowering of a term to them | `Expressions` |
| `ExpressionFormulas` | `lower_expr` of `Z3State` | `Expressions` |
| `ExpressionBackends` | an expression collapsed, canonicalized and valued in the three ways | the above |
| `EffectSequences` | programs run one instruction after the other and as one list of effects; what a generated program may write | `Canonicalization` |
| `BddManagers` | `BddManager`: pool, read tables, replacement, constraint, counterexample | `ExpressionCircuits` |
| `SolverExecution` | the execution and the observations of `Z3EquivalenceManager` | `ExpressionFormulas`, `EffectSequences` |
| `SequenceEquivalence` | `EquivalenceManager` over one right program after the other | the three above |
| `Recursion` | lemmas: least counterexamples, sequences of steps, recursive functions, changes that settle | |
| `LivelinessProofs`, `ProgramRewriteProofs`, `FieldUsesProofs`, `FieldEncodingsProofs`, `IsaOptimizationProofs`, `GateUsageProofs`, `SuperoptimizationProofs` | theorems (section 6) | `Recursion` |
| `MC...` | instances for TLC: programs, graphs, instruction sets, netlists | |

State and actions keep the names of the code where TLA+ allows it. An action is a whole handler, or one
iteration of a loop whose intermediate states matter:

- `Liveliness!VisitBlock` is the body of the loop over blocks: it reads the successors' live-in sets,
  extends `live_in` from the old `live_out`, then `live_out`, and sets `changed`. `NextPass` and `Return`
  are the two ends of a pass.
- `CubeSubtraction!Split` is one level of the recursion, `ReturnWhole` and `ReturnNothing` its base cases.
- `FieldUses!Subsume`, the merging of a round, and the mutations are actions; a mutation runs `merge`
  before the next one starts.
- `IsaOptimization` has an action for each seed, `FinishSeeding`, `SelectElites` and `Breed`. The field
  uses of a candidate are the values they cover: `FieldUses` shows that merging keeps these.
- `ProgramRewrite` has an action for every call of a hook and every change of the file. It extends `ProgramAnalysis`, whose
  `FromProgram` and `ComputeLiveliness` are parts of its actions; `AnalysisSpec` is the analysis of one program by itself.
- `GateUsage!SimulateGate` evaluates one gate, `FinishEncoding` does the bookkeeping of one pattern,
  `Optimize` makes the result and the file, `Validate` is the separate check, and `PowerUp` and `Clock`
  run both cores.
- `Superoptimization` proposes, judges on one counterexample after the other, asks the solver and records.
- `FieldEncodings` draws a word field by field (`SelectForm`, `DrawField`, `RetryField`, `CheckDrawn`). `ChangeField`
  redraws one field of a legal word, as a mutation does, and keeps the old word where the new one is not legal.
- `ExpressionBackends!CollapseStep` and `CanonicalizeStep` are the two calls every effect goes through.
- `SequenceEquivalence!AppendInstruction` grows the left program and its list of effects. `FromLeftInstruction` makes a
  `BddManager` for each effect, `ReplaceRightInstruction` puts in a right program and releases what the old one had
  allocated, and `CompareInstructions` asks the managers in turn and stops at the first difference.

## 3. What the runs show

Passing runs:

| run | properties | what they say |
|---|---|---|
| `liveliness` | `LoopInvariant`, `ReturnsSolution`, `BelowEverySolution`, `ImplementsChaotic`, `Terminates` | the passes return the least solution of the equations, implement the abstract analysis and end |
| `program_analysis` | `AnalysisInvariant`, `LiveOutIsExact` | from the program alone, by paths and not by equations: a register is in a live-out set exactly if some path reads it before surely overwriting it |
| `field_uses` | `FieldInvariant`, `CubeInvariant`, `ExactDifference`, `CubesAreExact`, `CoveragePreserved`, `MutationsMoveOneValue`, `MergeReturnsEventually` | the recursion of `cube_subtract` is exact and its cubes do not overlap; merging keeps the values and ends; a mutation moves one value |
| `field_encodings` | `EncodingInvariant`, `PatternsAreExact`, `SelectedCanFinish` | encodings, the legality check, drawing, changing and GreenThumb's patterns agree; with a wildcard in a predicate the final check of a draw still keeps illegal words out |
| `isa_optimization` | `GenerationInvariant`, `PromisesKept`, `TopCandidatesKept` | each fitness is its candidate's, requirements survive reproduction and the best is kept; one of the two programs does not use the mandatory instruction, so that the minimal ISA has to be repaired |
| `gate_usage` | `WorkspaceInvariant`, `StaticsAreOfThisRun`, `RunsAlike`, `ValidationMatches` | the reduced core has the outputs and the flops of the original in every cycle, from every state of the flops; a workspace that was used before, over a generation counter that wraps, finds what a fresh plain simulation finds |
| `program_rewrite` | `RewriteInvariant`, `BehaviourKept`, `Ends` | for replacements as the templates make them, with loops, branches, predicated lines and fresh labels, the file computes what the source did after each replacement, its labels resolve and what is returned is supported; and the loops end |
| `solver_and_comparison` | `ModelRefutes`, `EqualIsNoDistance`, `LegalReadsSuffice` | what the solver finds the comparison sees, what it proves is at no distance, and legal reads suffice |
| `search` | `SearchInvariant`, `EqualProgramsPass`, `NoSteepClimb`, `SearchReturns` | no stale cost, no correct program shut out, no illegal instruction, and an end |
| `expression_backends` | `ValueKept`, `BackendsAgree`, `OneForm` | rewriting keeps the value, the implementations of every operator agree on it, and the form does not depend on how operands were written |
| `sequence_equivalence` | `EffectsTellTheRun`, `VariablesAreOwned`, `AnswersAreThatOfRunning` | a program, its one list of effects and its execution over the solver's arrays do the same; no variable of the pool is shared or kept by mistake; both managers answer as running the programs does |

Four properties are conjunctions of two named ones: `CubesAreExact` is `ReturnsClosedForm` (other modules use the
closed form of the recursion) and `UncoveredIsComplement`, `PatternsAreExact` is `EncodingsAreLegalWords` and
`AllowedIsSupported`, `PromisesKept` is `SeedsBreakNothing` and `RequirementsKept`, and `AnswersAreThatOfRunning` is
`AnswerIsThatOfRunning` and `ManagersAgree`.

A module with a state has one invariant that is a conjunction of named parts, the first of which is its type invariant (`TypeOK`; `SubtractionTypeOK` of `CubeSubtraction`, which `FieldUses` extends):

| invariant | its parts, without types |
|---|---|
| `LoopInvariant` | `SeedsKept`, `QuietPrefix`, `ReturnedQuiet`: the sets hold what they began with, every block passed without a change satisfies its equations, and a return comes after a quiet pass |
| `AnalysisInvariant` | `BlocksAreStraightLine`: what `compute_liveliness` is given are blocks of straight-line code |
| `CubeInvariant` | `Accounted`, `PairwiseDisjoint`: what is collected and what is left of the current cube make up the difference, and nothing is collected twice |
| `FieldInvariant` | `NoneSubsumed`, `NothingLeftToMerge`: inside the loop no cube lies within another, and none that is returned can be merged |
| `EncodingInvariant` | `ProgramSupported`, `DrawnIsLegal`: an ISA made from a program supports it, and drawn instructions are legal |
| `GenerationInvariant` | `FitnessIsOwn`: the n-th fitness is that of the n-th candidate |
| `WorkspaceInvariant` | `InputsAreSimulated`, `NothingStaleIsRead`: a gate is simulated after what it reads, and sees no value of an earlier encoding |
| `RewriteInvariant` | `LabelsKept`, `PassLinesCurrent`, `ReturnedIsSupported`: labels are defined once and branches find theirs, however often lines are expanded; a replacement pass uses line numbers of the file as it is; and the program returned is supported |
| `SearchInvariant` | `CostIsOwn`, `OnlyLegal`: the cost kept is that of the program kept, on all counterexamples there are, and programs are of legal instructions |

### Where the code and its documentation disagree

The run `returned_optimization_validated` ends in a counterexample: `validate_optimization` asserts that each
replaced output had the replacing constant in the original (`simulator.rs:696`), which is not so for a gate that was
removed because nobody observes it; the driver calls it on every result when run with `--validate`. The removal
itself is sound (`RunsAlike`).

The modules also state what the following comments and tests say. None of these is an invariant of the code: to
see the counterexample, put the property in place of those of the configuration, with the constants named.
Paths are under `src/src/`.

| the code | what is said | property, configuration |
|---|---|---|
| `program_analysis.rs:194`: `read_regs` leaves out what the block wrote first (the analysis needs it so) | `program_analysis.rs:23`: "all registers which are read by this basic block" | `ReadRegsAreAllReads`, `MCProgramAnalysis` |
| `program_analysis.rs:331`: `consumed_registers` leaves out conditional writes (likewise needed) | `program_analysis.rs:27`: "all registers which have their contents changed" | `ConsumedAreAllChanged`, `MCProgramAnalysis` |
| `isa_optimization.rs:1122`: a mutation takes one value out of a pattern and keeps all others | `isa_optimization.rs:1075`: "a random variable bit is chosen to switch to a non-variable bit" | `MutationSwitchesOneBit`, `MCFieldUses` |
| `superoptimization.rs:263`: overlapping merged patterns count a word twice, and the form is drawn too often | `superoptimization.rs:254`: "Generate the legal count per instruction in the ISA" | `CountIsLegalCount`, `MCFieldEncodings` |
| `isa_specification.rs:615`: variable bits in a `FieldEq` value are wildcards when constraining; `check` at line 887 compares for equality. A form with one can be drawn for ever | `isa_specification.rs:461`: "otherwise we would generate an encoding that doesn't satisfy the form's predicate" | `EncodingsAreLegalWords` without `Definite`, `MCFieldEncodings` |
| `isa_optimization.rs:205`: the seeds are kept whether or not they have the fixed field uses | `isa_optimization.rs:44`: "Field uses which candidates must preserve exactly." | `FixedFieldUsesPreserved`, `MCIsaOptimization` with `FixedUses <- ImmFixed` |
| `isa_optimization.rs:202`: the fitness of an invalid seed is dropped, those behind it move up, and elites are taken by another candidate's fitness | `isa_optimization.rs:235`: "Take the top self.elite_candidate_count candidates" | `TopCandidatesKept`, `MCIsaOptimization` with `FixedUses <- ImmFixed` |
| `program_rewrite.rs:230`: blocks are rewritten from the first to the last with line numbers decoded before | `isa_specification.rs:229`: "The line number in the assembly file which corresponds with this instruction" | `AssemblyLinesCurrent`, `MCProgramRewrite` |
| `program_rewrite.rs:121`: a static instruction that the candidate does not support is offered to the hook | `isa_specification.rs:224`: "Instruction must not be included in any rewrites" | `StaticNeverRewritten`, `MCProgramRewrite` with `StaticExpansions = TRUE` |
| `semantic_matching.rs:600`: a counterexample holds the scratch bytes of the program it was made for, and the comparison charges for them | `tests/arm32_machine_state_compare.rs:289`: `..._ignore_stack_region_scratch_writes` | `ScratchIsIgnored`, `MCSolverEquivalence` with `Originals = {"MOV"}` and `Generated = {"MOV", "PUSHB", "POPB", "MOV1"}` |
| `semantic_matching.rs:469`: a store at the top of the scratch that is wider than a byte overwrites the bytes above the stack pointer unseen | `semantic_matching.rs:5223`, a test: a store outside of the scratch is `Unequal` | `EqualWritesNoMemory`, `MCSolverEquivalence` with `Originals = {"MOV"}` and `Generated = {"MOV", "PUSHB", "SPILL", "MOV1"}` |
| `superoptimization.rs:1285`: an effect's write makes a read of the old value in a later effect of the same instruction legal | `superoptimization.rs:1203`: "state the generated program has already written earlier in the sequence" | `LegalOnlyIfKnown`, `MCSolverEquivalence` with `Originals = {"MOV"}` and `Generated = {"MOV", "SWP", "MOV1"}` |
| `superoptimization.rs:1413`: a stored word is one access and a load is split into bytes, so no byte of it is found written | `constants.rs:42`: the penalty is for a location "not written by the new program so far" | `WrittenIsLegal`, `MCSolverEquivalence` with `Originals = {"MOV"}` and `Generated = {"MOV", "SPILL", "FILL"}` |
| `superoptimization.rs:311`: random cases redraw the registers and keep the addresses of the first case, so a load finds no memory and a correct program fails them | `superoptimization.rs:303`: "use that machinestate template to add some more randomized test cases" | `EqualProgramsPass`, `MCSuperoptimization` with `Legal = {"LDRB1", "MOV"}` and the four `Load...` definitions |
| `instruction_semantics.rs:1428`: one is added to a shift amount in a word of its width, which may wrap: for four bits `(x << 15) * 2` becomes `x` | `instruction_semantics.rs:1426`: "we can just add one to its shift value" | `ShiftedProductIsShiftsAndAdds`, `MCExpressionBackends` |
| `instruction_semantics.rs:1140`: two terms that absorb each other are both dropped: `And(And(Or(x, x), Or(x, x)), y)` becomes `y`, and without `y` no term is left and the code panics | `instruction_semantics.rs:1124`: "Removes terms made redundant by Boolean absorption" | `OnlyRedundantRemoved`, `MCExpressionBackends` |
| `semantic_matching.rs:3272`: a write is combined with an earlier one at its place, past the writes between them. For `STRB [X]; STRSP [Y]; STRB [X]` with X = Y the value of the second is kept | `semantic_matching.rs:3222`: "a single state update u where s(t0+k) = u(s(t0))" | `EffectsAreOneUpdate`, `MCSequenceEquivalence` |
| `semantic_matching.rs:128`: places are told apart by how their addresses are written; stores at X and at Y in the other order are `Equal`, also for X = Y, and so is a store to scratch that meets X | `semantic_matching.rs:128`: "Checks the equivalence between two instruction sequences" | `EqualSequencesAgree`, `MCSequenceEquivalence` |
| `simulator.rs:457`: gates that only removed gates read are removed | `simulator.rs:320`: "Gates that are merely unobservable or constant only while observable are retained" | `UnobservableIsRetained`, `MCGateUsage` |

## 4. Bounds

Every bound is a constant of a configuration or a definition of an `MC` module.

- **Graphs and programs.** Three blocks with every branch and fall-through give self-loops, nested loops and
  unreachable blocks; a fact needs at most two blocks to travel and a pass to go against. Programs have up to
  four instructions over two registers, with addresses that wrap in three bits.
- **Cubes.** Width 3 has every relation of two cubes and merges that enable merges; the proofs are for every
  width. `MCGivenUses` starts from at most three patterns and mutation reaches all others.
- **Encodings.** Words of four and five bits. `MCGivenForms` bounds the sets of active forms. As in the ARM
  example, two instructions share constant bits and differ in their predicate. Named fields have all-variable
  patterns of their own, and no word is ambiguous. The last form has a wildcard in its predicate, which no ISA of
  the repository has; the properties that fail for such a form say `Definite`. An ISA without any legal word makes
  the draw panic, which is why deadlock is not checked there.
- **Genetic search.** Four candidates, two elites, two generations (the second is bred from bred ones);
  fields of one bit, so a set of values is its own merged form; two of the three fields are of the merge mode
  `VariableBits`, the register is of mode `Uses`. No field use is fixed. `GivenPrograms` has a
  program with the mandatory instruction and one without.
- **Netlists.** 486 netlists of three gates (`AND2`, `XOR2`, `OR2`, half adder) over two instruction bits and
  a flop, connected in every way that lets the last gate drive the output, and three with assign chains,
  constants, a multiplexer, unconnected outputs and another input. All orders that respect dependencies, of the netlist
  and of the one written.
  Encodings are every word of two bits, two pairs of words, a pair of cubes and three words. `MaxRuns` gives the three
  netlists of assign chains a second run over the workspace of the first. `Generations = 3` stands for 2^32: the counter wraps
  at every second reset. Cells are of a Liberty library and therefore external. The core's fetch bus is
  defined apart from `PatternToSimInputs`, so that a swapped bit order would show.
- **Rewriting.** 18 loops that count down, with multiplications and predicated lines in them, with a long multiplication
  (two results) before the program leaves, and three short programs: a register branch that is unsupported, a
  literal pool, a branch behind the end. An operation may have several results, such as a value and flags, and is predicated on flags.
  The hook offers what the templates of `examples/arm32` do: a multiply-accumulate becomes a multiplication and an
  addition, a multiplication becomes a loop with a label and a predicated line, a predicated multiplication becomes one that a branch goes around. These
  enable one another, so that passes follow passes. Every choice of scratch registers is offered, and any instruction may be
  declined. Words have five bits, which bounds the loop of a multiplication; runs from two starts are followed for 240
  steps, by which all are over (`RunsAreOver`). TLC also evaluates, as assumptions of the instance, that the replacements
  meet the conditions of the theorems (`LabelsAssumption`, `MeaningAssumption`, the latter for the two starts). What is compared is what is seen from outside: the
  labels of the source that were jumped to, in order, and the registers when control leaves through a register. A
  block as GreenThumb rewrote it is one `best` line, which means the body it stands for, on the registers it
  was asked to keep, and loses the others. A block that ends in a branch is left to the scratch loop.
- **Machine states.** Bytes of one bit, words of two bytes, so an address has two bits; three registers with a
  stack pointer; expressions are a register plus a constant, possibly loaded. The solver is a search over
  a set of total states. The original is one instruction, as the callers pass it, and generated programs have
  up to two.
- **Search.** Two slots, three iterations (`max_iters` is passed by one), one random case where the code
  draws a hundred. `Allowances` are the values of -ln(random) * MCMC_TEMP that matter: none, and enough to
  climb one step. `Infinity` is a model value: no cost exceeds the maximum made of it, as with the NaN of
  the code.
- **Expressions.** Some 8700 terms: every operator over two registers, a memory read and the constants zero, one and
  all ones at the widths 1 to 3, each also at width 4 over variables, and operators over operators at width 2. Width 3
  is not a power of two, where rotations and shift amounts differ. Every term of an `Xor` doubles its
  canonical form several times, so these are bounded apart. States have all values of both registers and the flag and one
  memory whose bytes differ. Terms are ordered by another total order than that of their `Debug` text; no property
  depends on which. What the code does wrong with terms that absorb each other and with shifted factors (section 3) is
  left out by `AbsorbersStay` and `ShiftsFit`.
- **Sequences.** Bytes of one bit, so that a word is two bytes and addresses have two bits; a flag that lives on, a register
  and the stack pointer, with one byte of scratch below it. All programs of up to three of eleven instructions (two where one of them reads a word), with
  conditional and unconditional stores of a byte and a word, at two registers and with immediates. Managers are made for
  seven left programs. Each is compared with 23 right programs in every order, over a pool of up to ten variables. Two
  memories tell every two bytes apart. The assignment picked from a diagram is the least one. States where two addresses that are written
  differently are the same are left out of the answers (`PlacesApart`, `Overtakes`): there the code is wrong (section 3).

`CHECK_DEADLOCK FALSE` is set where a behaviour ends because a function returns or the program panics.

## 5. Fairness

`FairSpec` is `Spec /\ WF_vars(Next)` for `Liveliness`, `ProgramRewrite` and `Superoptimization`: each is sequential code of one thread, with no lock and no await, that
takes its next step as long as there is one. GreenThumb runs under a timeout, and a solver query that times out
ends the search in a panic, so calls return too. `FieldUses` needs less: `WF_vars(Merge)` says that a merge
that was started goes on; nobody has to mutate a field. No strong fairness is used. `SearchReturns` rests on the
iteration limit alone. `Ends` needs that no instruction expands to itself, which the loop of replacement passes does
not exclude by itself; `MCExpansions` has no such cycle, and the hazard is listed. The other modules are checked for
safety only: their loops run over a fixed list, but for the drawing of candidates and encodings, which is repeated
until it fits and ends with probability one at best.

## 6. What is proved

Proofs are for every value of the constants, under the named assumptions of the modules.

**`LivelinessProofs`** (assumes `RegistersAssumption`: finitely many registers, and `GraphsAssumption`: edges stay
inside the graph, which `ProgramRewriteProofs` proves of what is built). `LoopInvariant` is inductive. Its parts:
the sets hold what they began with; while `changed` is false every block passed satisfies its equations; and a
return comes after a full quiet pass. The second is what makes one quiet pass a reason to stop. It needs that sets
of equal size are equal, hence growth and finiteness. From it follow `TypeCorrect` and `ReturnsSolutionHolds`.
`BelowEverySolutionHolds` is inductive by itself on top of typing (a visit adds only what every solution has), so
what is returned is the least solution. `Implementation` maps each visit to a `Grow` of `ChaoticLiveness` or a
stutter and the return to its `Stop`. `GrowthHolds` is the action property.

**`ProgramRewriteProofs`, on the analysis** (assumes a finite register set and that instructions read and write registers of it).
`BoundariesAreSorted` proves that sorting by the number of smaller members lists a finite set in ascending order.
`BlocksTile` and `BlocksDescribe` conclude what `from_program_with_boundaries` builds, for any boundaries that a
constructor makes (`IsCut`), and with `StraightThrough` and `OneBlockEach` this is `AnalysisInvariantHolds`.
`LiveOutIsExactHolds` composes it with the lemmas of `LivelinessProofs`, taken as an instance whose assumptions are
proved (`LoopAssumptions`). In one direction, the positions where a solution of the equations calls a register live form
a closed set (`SolutionIsClosed`), and needed positions are in every closed set. In the other, the needed registers
solve the equations (`NeededIsSolution`), and what is returned is below every solution. A program
whose branch does not resolve panics before there is a graph.

**`ProgramRewriteProofs`, on the rewriting** (assumes `OperationsAssumption`, that the operations of labels and branches are apart, and
`SourcesAssumption`, that a source is a list of lines whose labels are defined once and, where branched to, at all, and are none of the
allocator's). Both theorems are about any set `Lines` that is a `Language`: it has the lines of the sources and of what the hook
answers, and an answer is any code over these lines, of any length, with any number of labels, branches and predicated lines, each
line writing any number of registers. What is asked is only that its labels are the next ones of the `LabelAllocator`
and that it branches to these or to where the instruction did (`LabelsAreFresh`); code that does not would not assemble.

`RewriteInvariantHolds` asks nothing more; the inductive invariant is
`RewriteInv` with `Labelled`. While replacements are collected they are in ascending order of their lines (`InScratch`). While they are
applied, the file is a *spread* of the text the pass began with (`InApply`, `Spread`): every line of that text is kept or
stands expanded, in order, and what is before the line replaced last is untouched, which is why
the lines still to come are where they were. In the block loop the file is that text with a set of blocks
rewritten (`InBlocks`, `Rewritten`). The lines found by their labels are exactly those of the block (`LinesOfBlock`,
`BlockReplaced`), and a block passed is rewritten or needs no rewrite, from which follows that what is returned is supported.
That labels resolve is not inductive by itself: `LabelsApart` adds that the labels of the replacements still to come are in neither
the file nor one another and below the number the allocator gives next, and that what they branch to is there
(`LabelsOfApplied`, `LabelsStep`).

`BehaviourKeptHolds` asks besides that registers hold values (`Computes`), that the hook does what its documentation says
(`HookKeepsMeaning`), and that the program stays within the address space (`FitsIn`), since a branch offset is masked to
`OffsetWidth` bits. The promise of the hook is about a run of its code on its own, from any values of the registers: after some number of steps it
comes to where the instruction goes (behind it, to its label, or out through a register) and has left in every register but the scratch
ones what the instruction leaves there (`Replicates`). The conclusion is about `StepCounts = Nat`, that is every moment of every
run, also of runs that never end, where the run of TLC looks at one moment.
The core is a simulation. Two files are *alike* at a line (`Alike`) when they have seen the same and agree on the registers that are
needed from there on (`Needs`, the exact sets of the analysis). They *meet* at a set of lines (`Meets`) when from each of these both
go on, in their own numbers of steps, to another one where they are alike again. Then they show the same (`SameSights`): there are
endlessly many meetings (`EndlessExists` of `Recursion`), and nothing is seen between them. A kept line leads both to where they
are alike (`KeptFollows`). An expanded line does because its code in the file goes step by step as it does on its own
(`MirrorGoes`, which is where labels have to be unique), so it does what it promised (`ExpansionGoes`), and what it did to scratch registers is not
needed behind (`ExpansionFollows`). A rewritten block is carried over all its lines at once (`BlockCarries`,
`BodiesAgree`); the two meet before and behind it. A branch goes in both files to what stands for the same label, for which the targets of the
decoded program must be the labels of the text (`TargetsAreLabels`). For the instance of `MCProgramRewrite`, `FitsIn(program)` is an
invariant. What is not covered: a hook that looks at the rest of the file, and control that enters code other than from the first line.

**`Recursion`**. The induction theorems of the library take an operator as a parameter, which the provers cannot
instantiate. What is proved here needs none: `LeastNatural` gives every non-empty set of numbers a least element,
and `Counting` concludes from it that a set which contains 0 and with each number below a bound the next one
contains all up to the bound. `RecursionExists` builds from this the function that a recursive definition names,
for steps of any kind (`Follows`). With it the theorems below speak of what `LET f[k \in 0 .. n] == ...` computes.
`SettlingExists` does it for a change that is repeated until nothing changes, as in `merge`: where every change lowers a
rank there is such a function, and `SettlingKeeps` says that what a change keeps it ends with. `EndlessExists` does it for
steps that are always possible, as the meetings of two runs, and `Covered` that what changes at
some of the steps only is, at every step, what it was at one of these.

**`FieldUsesProofs`** (assumes a width in `Nat` and that given uses are sets of patterns). `CubeInvariant` is inductive:
at each call of `cube_subtract` what was collected and what is left of the current cube partition the difference.
`Accounted` names the part of the minuend not yet collected, so `StillDisjoint` has only to show that the cube a level
adds lies in that part. `Halves` splits a cube at a position, `OutsideMisses` says that the half outside shares nothing
with the other cube. `ExactDifferenceHolds` follows at the return, where nothing is left. `FieldInvariantHolds` proves
that the pattern set is well typed, that no cube lies within another inside the loop, and that what is returned has no
mergeable pair; a mutation breaks the last two, and only because `merge` begins by removing subsumed patterns do they
hold again. `RemoveSubsumedKeeps` chooses, over `LeastNatural`, a covering pattern of greatest freedom, for removing
all subsumed patterns at once must leave one that is not subsumed itself. `MergeWithExact` says that a merged pair covers
the two and nothing else. With these `CoverageHolds` shows that no round gains or loses a value. `SubtractExact` proves
the closed form of the recursion exact; by counting over the patterns taken away `UncoveredExact` shows that the
complement is one, whatever their order, and from these come `CubesAreExactHolds` and `MutationsHold`.
Two theorems say why the loops end. Each round of `merge` that is a change makes more cubes lie within the field
(`MergeRoundsAreBounded`): a merged pair lay within no cube, as none lies within another, and nothing that lay within
one is lost (`KeptCovers`). The number of patterns is no measure, since eight can merge into twelve. `SubtractionEnds` shows that the
panic behind the loop of `cube_subtract` is unreachable and that each recursive call has fewer variable bits.

**`FieldEncodingsProofs`** (for every instruction set with `InstructionsAssumption`: a form has fields; `FieldsAssumption`: a
named field is variable, and of one width and one merge mode wherever it occurs; `PredicatesAssumption`: a predicate tests a
bit inside the form, or a field that the form has once). The argument is one of meanings. A set of patterns stands
for the words they match, and each operation is shown to do to the words what it should: a round of merging keeps
them (`MergeOfMeans`; that `merge` ends is proved too, since each round that is a change enlarges the set of cubes inside the
patterns), a constraint keeps those that meet its predicate (`ApplyConstraintMeans`), also across several
predicates (`ConstrainedMeans`), and the concatenation over the fields matches a word exactly if each field matches its
part (`EncodingsMean`, by `TwoParts`). With `CheckMeans`, which says that a predicate holds of a word if it holds of every
field by itself, `EncodingsAreExact` follows: the encodings of a form match the words that its check accepts.
`PatternsAreExactHolds` carries this over to GreenThumb's restrictions under two conditions on the tables, which TLC evaluates
for the instance. `Unambiguous`: no word is of two forms. Without it `find_match` leaves a word undecoded or another instruction
takes it, while the patterns allow it. `AllowedAreDefinite`: what is allowed has no wildcard in a `FieldEq`, as the patterns and the
check read it differently (section 3); no ISA of the repository has one. `EncodingInvariantHolds` needs neither condition. Its inductive invariant adds to
`EncodingInvariant` that the bits drawn so far meet the uses of their fields (`DrawingFits`), for what
passes the last check must be legal in every field, and that what was observed has a decoding (`ProgramDecodes`), so that
later uses, which only grow, still support it (`WidenedMeans`, `ValidStays`). `SelectedCanFinishHolds` says that a form with a count
above 0 has a legal word (`NothingToCount`).

**`IsaOptimizationProofs`** (assumes what the code asserts of its parameters, and that the forms of the program are forms
of the ISA). `TypeCorrect` and `PromisesAreKept` hold for every ISA, program and population. The proof of the second
goes through the repair of a seed, a recursive function over the instructions of the program. `FitnessesAreOwn` and
`TopIsKept` are under `FixedUsesAreWhole`: a fixed field has all its values. Without it they are false, as the code drops
the fitness of an invalid seed and the vectors shift (section 3, `isa_optimization.rs:202`); with it no seed is invalid.

**`GateUsageProofs`** (assumes of the netlists what synthesis gives: `WellFormed` says that names of wires are not
constants and that pins are listed, `ValidInstances` is checked by the code, and `WellDriven` says that a wire has one
driver, counting the wires that assign statements copy it to, and that what counts as an output has one). The inductive invariants are `ValuesInvariant` and
`StaticsInvariant`. The first adds to `WorkspaceInvariant` that stamps are not of the future (`StampsPast`) and that
exactly the wires with a driver that was simulated have a value (`ValuesAreDriven`); a counter that wraps cannot then
make an old stamp current. The second says that the values stamped so far are those of the plain simulation after the
same number of gates, and that the flags tell about the encodings finished. `WorkspaceIsOfThisEncoding` and
`StaticsAreFresh` follow. For `ValidationAgrees` two plain simulations run side by side, gate by gate: where each
replacement is what the gate writes anyway, the wires are the same after every gate (`ReplacedAlike`), and a static gate
is replaced by just that (`StaticsAreProven`).
`ReducedCoreRunsAlike` goes over unknown flops and removed gates at once. The netlist written has the wires of the
original, and its constants are copied to what is tied to them (`ReducedWires`, `ReducedAliases`). In both netlists a wire
has at most one driver and none drives what was read before, so a simulation, in any order that respects dependencies,
settles: every wire is what was given or what its gate makes of the final inputs (`GatesDriveAlone`, `WiresSettle`). A
simulation that knows less of the inputs says less and nothing else (`CellsSharpen`, `SimulationSharpens`), so an
output found static under unknown flops has its constant in every state of them. A gate that drives a wire marked as
needed is static or it is kept and its inputs are needed (`NeededIsClosed`, from the marking going backwards through a
sorted order). By induction over the order both settle on the same for every needed wire (`NeededAgree`), and what the
outputs and flops see is needed. `CoresInvariant` carries that over the clock cycles. It needs more of the
netlist than the other theorems: that outputs and flops read wires which are driven, which a `debug_assert` of the
simulation states (simulator.rs:585), and that no instruction input is another input too.

**`SuperoptimizationProofs`, on the solver and the comparison** (for every set of registers, every stack pointer, live set, size of bytes and stack and
every weight; the programs are those of `MCSolverEquivalence`). Execution and comparison come first: effects keep states well
typed, and cutting the memory of a total state to what two programs touch commutes with an effect, a step and a run, as
long as what is left holds every place the program reads or writes (`ApplyCut`, `StepCut`, `RunCut`). `BitsTell` says
that different numbers differ in a bit, so a differing live register or stack byte costs more than nothing
(`CompareCounts`). Hence `ModelRefutesHolds`: the solver answers with total states, the search executes partial
ones, and a difference survives the cut. `EqualIsNoDistanceHolds` needs that nothing is stored where only the
execution looks. `LegalReadsSufficeHolds` is an argument of non-interference: two runs from states that agree on
memory and on the registers the original reads stay alike there and on the registers written since (`RunAlike`). That
the count is 0 excludes an illegal read at any place, because it adds up finitely many (`IllegalReadsAreCounted`).

**`SuperoptimizationProofs`, on the search** (assumes `SearchAssumption`, and `SameCostPenalty = 0` as in constants.rs:50). `SearchState`
is inductive: programs are made of legal instructions, the list of counterexamples holds tests, and the cost of a
proposal under way and that of the current program are their own on the tests seen so far (`ProposalCost`, `CostIsOwn`).
The cost is a sum over the list, so a new test adds its cost to both sides (`AddedTestsCost`), which is what the code does
instead of counting again. With a penalty the kept cost would be above the program's own, and `SearchInvariant`
would be false. From it follow `SearchInvariantHolds`, `NoSteepClimbHolds` and, with the lemmas on the
solver's answers, `AnswersAreNewsHolds`: no program is refuted twice.
`EqualProgramsPassHolds` says that a correct program is never shut out, neither by a counterexample of another
program nor by one drawn at random. A test holds only the memory that the programs it was made for touch, so this is under
two conditions. `AddressesFixed`: the original touches the same memory wherever it starts, as a random case has new
registers and the addresses of the first case. `Confined`: an equal program does from every state what the original does,
touches no more memory and stores nothing in the scratch. The inductive invariant `WholeTests` says that every test has all the
memory the original touches from any state and the original's own result on it (`RandomTestsAreWhole`,
`AnswersAreWhole`); on such a test a confined program runs as on a total state (`ConfinedPasses`). Both conditions hold in the
instance of the run. Without the first the statement is false (section 3, `superoptimization.rs:311`).

## 7. What is only model-checked

- Everything under fairness (`Terminates`, `MergeReturnsEventually`, `Ends`, `SearchReturns`): the prover
  does not handle ENABLED. What makes the loops end is proved for `Liveliness` (`GrowthHolds`) and `FieldUses`
  (`MergeRoundsAreBounded`, `SubtractionEnds`).
- All invariants of `ExpressionBackends` and `SequenceEquivalence`. They are
  about recursive definitions over terms and lists of effects, which stay with TLC: a RECURSIVE operator has no
  meaning for the prover.
- `EqualProgramsPass` for originals that compute an address: it is proved for fixed addresses only, and false in general.
- `ReturnedIsValid`, which the code violates (section 3).

## 8. Not modelled

- **Texts**: the Verilog parser, the Liberty reader, the restriction file and command line of GreenThumb, the commenting
  of netlist lines, assembling and ELF files. They keep no state.
- **ARM32** (`examples/arm32`): a constant of forms and effects, and a driver whose hooks are mostly `todo!()`.
- **OxiDD and Z3**: a diagram is kept as the term it was lowered from, the solver is a search over states.
- `Simulator::simulate` and `Bit::Test`, `passes_test`, `clear_counterexamples` and write keys: called
  by tests and benches only, or not at all.
- One-sided registers in `MachineState::compare`: all registers are present in the states of the models.
- Deny patterns of the restriction set, and instruction words with variable bits.
- Z3, GreenThumb and the core are external; they are modelled by how the code calls them.

## 9. Plan

Order of work, most important first; the first twelve are done.

1. `Liveliness`, `ChaoticLiveness`, `ProgramAnalysis` with proofs: every rewrite relies on live registers.
2. `BitPatterns`, `CubeSubtraction`, `FieldUses` with proofs: what a candidate is.
3. `IsaOptimization`, `FieldEncodings` with proofs: the search and what a candidate allows.
4. `ProgramRewrite`, composed with the analysis.
5. `MachineStates`, `SolverEquivalence`, `IllegalReads`, `Superoptimization`.
6. `ExpressionBackends`.
7. `Netlists`, `GateUsage`.
8. `Collapsing`, `Canonicalization`: rewriting of expressions.
9. `EffectSequences`: a sequence of instructions as one set of effects (the equivalence checks are given
   these, the costs the execution).
10. `BddManagers`, `SolverExecution`, `SequenceEquivalence`: the two equivalence managers against the execution.
11. The proof that rewriting keeps the behaviour of the source, on top of that of the analysis.
12. Why the loops of `merge` and `cube_subtract` end, and that correct programs pass every test.
13. Not done: abstract specifications of the genetic search (a population whose best never falls) and of the
    superoptimizer (it records equal, legal programs only), with refinements.
