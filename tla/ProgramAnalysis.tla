---------------------------- MODULE ProgramAnalysis ----------------------------
(***************************************************************************)
(* ProgramAnalysis as its two callers use it: build the blocks of a        *)
(* decoded program, either between the boundaries that the branches and    *)
(* static instructions make (from_program) or one per instruction          *)
(* (from_program_split_every_instruction), then compute_liveliness.        *)
(*                                                                         *)
(* AnalysisSpec analyses one program; ProgramRewrite, which extends this   *)
(* module, analyses again and again what it has decoded.                   *)
(***************************************************************************)
EXTENDS BasicBlocks

CONSTANT Programs  \* the decoded programs that AnalysisSpec may begin with

ASSUME ProgramsAssumption == \A p \in Programs : IsProgram(p)

VARIABLES
  program,  \* the decoded instructions
  split,    \* whether every instruction is a block
  phase,    \* "entry", "liveliness" or "panicked"
  graph, liveIn, liveOut, idx, changed, done  \* the state of Liveliness

loopVars == <<graph, liveIn, liveOut, idx, changed, done>>
analysisVars == <<program, split, phase, loopVars>>

ChosenBoundaries(p, s) == IF s THEN SplitBoundaries(p) ELSE Boundaries(p)

\* Its Graphs are those the loop may begin with; here it begins with any.
Loop == INSTANCE Liveliness WITH Graphs <- {}

AnalysisInit ==
  /\ program \in Programs
  /\ split \in BOOLEAN
  /\ phase = "entry"
  /\ graph = <<>>
  /\ liveIn = <<>>
  /\ liveOut = <<>>
  /\ idx = 1
  /\ changed = FALSE
  /\ done = FALSE

\* Both constructors, which differ in the boundaries only.
FromProgram(s) ==
  /\ ~AnalysisPanics(program)
  /\ split' = s
  /\ phase' = "liveliness"
  /\ graph' = BlocksBetween(program, ChosenBoundaries(program, s))
  /\ liveIn' = [b \in DOMAIN graph' |-> graph'[b].read]
  /\ liveOut' = [b \in DOMAIN graph' |-> graph'[b].exit]
  /\ idx' = 1 /\ changed' = FALSE /\ done' = FALSE
  /\ UNCHANGED program

PanicInAnalysis ==
  /\ AnalysisPanics(program)
  /\ phase' = "panicked"
  /\ UNCHANGED <<program, split, loopVars>>

ComputeLiveliness ==
  /\ phase = "liveliness"
  /\ Loop!Next
  /\ UNCHANGED <<program, split, phase>>

AnalysisNext ==
  \/ phase = "entry" /\ FromProgram(split)
  \/ phase = "entry" /\ PanicInAnalysis
  \/ ComputeLiveliness

AnalysisSpec == AnalysisInit /\ [][AnalysisNext]_analysisVars

(***************************************************************************)
(* Liveness of a register, instruction by instruction.                     *)
(***************************************************************************)

\* Where execution can go from position i, apart from a branch to a register:
\* a branch is taken or not.
InstructionSuccessors(p, i) ==
  {j \in Positions(p) : j = i + 1}
    \cup (IF p[i].branch = "relative" THEN {TargetIndex(p, i)} ELSE {})

\* The value r has after i can reach a read, if set s holds the positions
\* before which it is needed.
ReachesFrom(p, r, i, s) ==
  p[i].branch = "register" \/ InstructionSuccessors(p, i) \cap s # {}

NeededClosed(p, r, s) ==
  \A i \in Positions(p) :
    \/ r \in InstructionReads(p[i])
    \/ r \notin InstructionWrites(p[i]) /\ ReachesFrom(p, r, i, s)
    => i \in s

\* The positions before which r is needed: the least closed set, that is those
\* from which some path reads r before any instruction surely overwrites it.
NeededBefore(p, r) ==
  {i \in Positions(p) :
     \A s \in SUBSET Positions(p) : NeededClosed(p, r, s) => i \in s}

NeededAfter(p, i) ==
  {r \in Registers : ReachesFrom(p, r, i, NeededBefore(p, r))}

------------------------------------------------------------------------------

\* Every state component stays in its domain.  The blocks handed to
\* compute_liveliness are what its proofs assume of a graph: numbered from 1,
\* with every edge inside, so that looking a branch target up among the block
\* starts never fails.
AnalysisTypeOK ==
  /\ program \in Programs
  /\ split \in BOOLEAN
  /\ phase \in {"entry", "liveliness", "panicked"}
  /\ Loop!WellFormed(graph)
  /\ phase = "liveliness" => /\ liveIn \in [DOMAIN graph -> SUBSET Registers]
                             /\ liveOut \in [DOMAIN graph -> SUBSET Registers]

\* The blocks tile the program in order, and control moves straight through
\* each: only the last instruction branches, every resolved target starts a
\* block, and a static instruction is alone in its block.
BlocksAreStraightLine ==
  phase = "liveliness" =>
    /\ \A i \in Positions(program) :
         Cardinality({b \in DOMAIN graph : i \in graph[b].start .. graph[b].finish - 1}) = 1
    /\ \A b \in DOMAIN graph : \A i \in graph[b].start .. graph[b].finish - 1 :
         /\ program[i].branch # "none" => i + 1 = graph[b].finish
         /\ program[i].branch = "relative" =>
              \E t \in graph[b].next : graph[t].start = TargetIndex(program, i)
         /\ program[i].static => graph[b].start = i /\ graph[b].finish = i + 1

\* What is handed to compute_liveliness: a well-formed graph of such blocks.
AnalysisInvariant == AnalysisTypeOK /\ BlocksAreStraightLine

\* What compute_liveliness returns is liveness of the program itself: a
\* register is in live_out of a block exactly if some path from the block's
\* last instruction reads it before surely overwriting it, or leaves through a
\* branch to a register.  It holds for both ways of cutting the program.
LiveOutIsExact ==
  done => \A b \in DOMAIN graph : liveOut[b] = NeededAfter(program, graph[b].finish - 1)

(***************************************************************************)
(* What the field comments of BasicBlock say of two of the sets.           *)
(***************************************************************************)

\* "All registers which are read by this basic block."
ReadRegsAreAllReads ==
  phase = "liveliness" =>
    \A b \in DOMAIN graph :
      graph[b].read =
        UNION {InstructionReads(program[i]) : i \in graph[b].start .. graph[b].finish - 1}

\* "All registers which have their contents changed during the course of this
\* basic block": every register that some effect with a guard that can hold
\* writes.
ConsumedAreAllChanged ==
  phase = "liveliness" =>
    \A b \in DOMAIN graph : \A i \in graph[b].start .. graph[b].finish - 1 :
      \A e \in program[i].effects : e.guard # "never" => e.dest \subseteq graph[b].consumed
==============================================================================
