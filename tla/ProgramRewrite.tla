----------------------------- MODULE ProgramRewrite -----------------------------
(***************************************************************************)
(* rewrite_program: make a program run on a smaller instruction set.       *)
(*                                                                         *)
(* The loop first replaces single instructions, pass after pass, by        *)
(* assembly that may use dead registers as scratch and that may need       *)
(* another pass itself; each pass ends by assembling and decoding again.   *)
(* What is left goes block by block to GreenThumb.                         *)
(*                                                                         *)
(* The assembly file is a sequence of lines:                               *)
(*   op      "label", "best" (a block as GreenThumb rewrote it) or an      *)
(*           operation of the instruction set                              *)
(*   dest    the registers written, a sequence: a result, flags            *)
(*   args    the registers read, a sequence: flags, operands               *)
(*   guard   "always", or "sometimes" for a predicated line and a          *)
(*           conditional branch                                            *)
(*   label   what a "label" line defines, or a branch goes to: <<name>>    *)
(*           in a source, <<name, number>> from the LabelAllocator         *)
(*   static  static_instruction, as read_elf decodes it                    *)
(*   tag     the label asm_preproc put on the line, which is its line      *)
(*           number at that time; 0 on a line inserted since               *)
(*   body, live   of a "best" line: the code it stands for, and the        *)
(*           registers it was asked to keep                                *)
(*                                                                         *)
(* Registers are all that instructions work on, flags and memory included. *)
(*                                                                         *)
(* The implementation of ProgramRewriteUtil is not part of the library.    *)
(* The operators that stand for it say what its documentation asks of it:  *)
(* a replacement is any code, with loops and branches of its own.          *)
(***************************************************************************)
EXTENDS ProgramAnalysis, SequencesExt

CONSTANTS
  Sources,        \* the assembly files that may be rewritten
  Supported,      \* the operations the candidate supports
  RegisterBranches, \* the operations that branch to a register
  LabelBranches,  \* the operations that branch to a label
  Expansions(_, _, _), \* the rewrites scratch_replacement may offer for an
                    \* instruction, given the registers it may use and the
                    \* number of the next label
  Meaning(_, _, _), \* the k-th result of an operation on its arguments
  Condition(_, _),  \* whether a predicated operation happens
  Starts,           \* the values the registers may start with
  StepCounts,       \* the moments of a run, by the number of its steps, at
                    \* which what has been seen is looked at
  Lost              \* a value no computation gives

\* LabelAllocator::fresh
BadFresh(hint, n) == <<hint, 0>>
Fresh(hint, n) == <<hint, n>>
OfSource(label) == Len(label) # 2
GivenBefore(n, label) == OfSource(label) \/ label[2] \in 0 .. n - 1

IsLine(line) ==
  /\ DOMAIN line = {"op", "dest", "args", "guard", "label", "static", "tag", "body", "live"}
  /\ line.op # "best"
  /\ line.dest \in Seq(Registers)
  /\ line.args \in Seq(Registers)
  /\ line.guard \in {"always", "sometimes"}
  /\ line.op \in {"label"} \cup LabelBranches \/ line.label = <<>>
  /\ line.tag \in Nat

LabelsIn(f) == {n \in DOMAIN f : f[n].op = "label"}

\* Every label is defined once, and a branch goes to one that is.
LabelsResolve(f) ==
  /\ \A m, n \in LabelsIn(f) : f[m].label = f[n].label => m = n
  /\ \A n \in DOMAIN f : f[n].op \in LabelBranches => \E m \in LabelsIn(f) : f[m].label = f[n].label

ASSUME OperationsAssumption ==
  /\ RegisterBranches \cap LabelBranches = {}
  /\ {"label", "best"} \cap (RegisterBranches \cup LabelBranches) = {}

ASSUME SourcesAssumption ==
  \A s \in Sources : /\ s \in Seq(ToSet(s))
                     /\ \A n \in DOMAIN s : IsLine(s[n]) /\ OfSource(s[n].label)
                     /\ LabelsResolve(s)

ASSUME StepCountsAssumption == StepCounts \subseteq Nat

VARIABLES
  source,        \* the file as compiled
  file,          \* the file now
  stage,         \* "decoded", "scratch", "apply", "blocks", "returned"
                 \* or "panicked"
  replacements,  \* those of the pass that are still to be applied
  block,         \* the block of the analysis that is looked at next
  assemblyLines, \* the file as read before the first block
  nextLabel      \* next of the LabelAllocator

\* program, and the analysis made of it, are those of ProgramAnalysis.
vars == <<source, file, stage, replacements, block, assemblyLines, nextLabel, analysisVars>>

(***************************************************************************)
(* asm_preproc, assemble_and_link, read_elf.                               *)
(***************************************************************************)

Preprocessed(f) == [n \in DOMAIN f |-> [f[n] EXCEPT !.tag = n]]

\* The lines that hold an instruction, in order.
InstructionLines(f) == SortedBoundaries({n \in DOMAIN f : f[n].op # "label"})

BranchOf(line) ==
  CASE line.op \in RegisterBranches -> "register"
    [] line.op \in LabelBranches -> "relative"
    [] OTHER -> "none"

LabelLine(f, l) == CHOOSE n \in LabelsIn(f) : f[n].label = l

\* A write for each register, and the reads of a line that writes none.
Effects(line) ==
  {[guard |-> line.guard, dest |-> d, reads |-> ToSet(line.args)] :
     d \in {{}} \cup {{r} : r \in ToSet(line.dest)}}

\* The position, in the program, of the first instruction after a label.
LabelTarget(f, l) ==
  1 + Cardinality({n \in 1 .. LabelLine(f, l) : f[n].op # "label"})

Decoded(f) ==
  LET lines == InstructionLines(f)
  IN  [i \in DOMAIN lines |->
        LET line == f[lines[i]]
        IN  [effects |-> Effects(line),
             branch  |-> BranchOf(line),
             offset  |-> IF line.op \in LabelBranches
                         THEN (LabelTarget(f, line.label) - i) * Stride ELSE 0,
             static  |-> line.static,
             line    |-> line,
             assemblyLine |-> lines[i]]]

SupportsInstruction(instruction) == instruction.line.op \in Supported

(***************************************************************************)
(* What the loops look at in a block.                                      *)
(***************************************************************************)

Instructions(b) == SubSeq(program, graph[b].start, graph[b].finish - 1)
First(b) == program[graph[b].start]

(***************************************************************************)
(* The scratch loop.                                                       *)
(***************************************************************************)

BadScratchable(b) == Registers \ graph[b].read
Scratchable(b) == Registers \ liveOut[b]

BadNeedsRewrite(b) ==
  \A i \in DOMAIN Instructions(b) : ~SupportsInstruction(Instructions(b)[i])
NeedsRewrite(b) ==
  \E i \in DOMAIN Instructions(b) : ~SupportsInstruction(Instructions(b)[i])

\* What the hook may answer for a block of one instruction that the candidate
\* does not support, if it answers.
Offers(b) == Expansions(First(b).line, Scratchable(b), nextLabel)

BadLastLineFirst(pass) ==
  [k \in 1 .. Cardinality(pass) |->
     CHOOSE r \in pass : Cardinality({q \in pass : q.line < r.line}) = k - 1]

\* The order the replacements of a pass are applied in.
LastLineFirst(pass) ==
  [k \in 1 .. Cardinality(pass) |->
     CHOOSE r \in pass : Cardinality({q \in pass : q.line > r.line}) = k - 1]

ReplaceAssemblyLine(f, n, lines) ==
  SubSeq(f, 1, n - 1) \o lines \o SubSeq(f, n + 1, Len(f))

(***************************************************************************)
(* The block loop.                                                         *)
(***************************************************************************)

HasStatic(b) == \E i \in DOMAIN Instructions(b) : Instructions(b)[i].static

\* The restrictions exclude every branch, so no rewrite of a block that ends
\* in one can be correct.
Rewritable(b) ==
  \A i \in DOMAIN Instructions(b) : Instructions(b)[i].branch = "none"

\* What run_greenthumb returns when it does: supported code that agrees, on
\* the live-out registers, with input.s, which holds the block's lines as they
\* were before the first block, and may leave anything in the others.
Best(b) ==
  [op |-> "best", dest |-> <<>>, args |-> <<>>, guard |-> "always", label |-> <<>>,
   static |-> FALSE, tag |-> 0,
   body |-> [i \in DOMAIN Instructions(b) |-> assemblyLines[Instructions(b)[i].assemblyLine]],
   live |-> liveOut[b]]

\* replace_assembly, which finds the lines by the labels asm_preproc left.
ReplaceAssembly(f, b, line) ==
  LET tags == {Instructions(b)[i].assemblyLine : i \in DOMAIN Instructions(b)}
  IN  FlattenSeq([n \in DOMAIN f |->
        IF f[n].tag = First(b).assemblyLine THEN <<line>>
        ELSE IF f[n].tag \in tags THEN <<>> ELSE <<f[n]>>])

------------------------------------------------------------------------------

Init ==
  /\ source \in Sources
  /\ file = Preprocessed(source)
  /\ program = Decoded(file)
  /\ stage = "decoded"
  /\ replacements = <<>>
  /\ block = 1
  /\ assemblyLines = <<>>
  /\ nextLabel = 0
  /\ split = TRUE
  /\ phase = "entry"
  /\ graph = <<>>
  /\ liveIn = <<>>
  /\ liveOut = <<>>
  /\ idx = 1
  /\ changed = FALSE
  /\ done = TRUE

\* The analysis at the start of a pass, one block for each instruction.
StartPass ==
  /\ stage = "decoded"
  /\ FromProgram(TRUE)
  /\ block' = 1
  /\ stage' = "scratch"
  /\ UNCHANGED <<source, file, replacements, assemblyLines, nextLabel>>

\* A branch has no target.
PanicAtStart ==
  /\ stage = "decoded"
  /\ PanicInAnalysis
  /\ stage' = "panicked"
  /\ UNCHANGED <<source, file, replacements, block, assemblyLines, nextLabel>>

RunAnalysis ==
  /\ ComputeLiveliness
  /\ UNCHANGED <<source, file, stage, replacements, block, assemblyLines, nextLabel>>

LookingAtBlock(s) == stage = s /\ done /\ block \in DOMAIN graph
LookedAtAll(s) == stage = s /\ done /\ block \notin DOMAIN graph

\* Both loops over the blocks skip the supported ones.
SkipBlock ==
  /\ LookingAtBlock("scratch") \/ LookingAtBlock("blocks")
  /\ ~NeedsRewrite(block)
  /\ block' = block + 1
  /\ UNCHANGED <<source, file, stage, replacements, assemblyLines, nextLabel, analysisVars>>

AskForReplacement ==
  /\ LookingAtBlock("scratch")
  /\ NeedsRewrite(block)
  /\ \/ UNCHANGED <<replacements, nextLabel>>
     \/ \E x \in Offers(block) :
          /\ replacements' = Append(replacements, [line |-> First(block).assemblyLine, rewrite |-> x])
          /\ nextLabel' = nextLabel + Cardinality(LabelsIn(x))
  /\ block' = block + 1
  /\ UNCHANGED <<source, file, stage, assemblyLines, analysisVars>>

BadPassFoundNothing ==
  \A i \in DOMAIN program : SupportsInstruction(program[i])
PassFoundNothing == replacements = <<>>

SortReplacements ==
  /\ LookedAtAll("scratch")
  /\ ~PassFoundNothing
  /\ replacements' = LastLineFirst(ToSet(replacements))
  /\ stage' = "apply"
  /\ UNCHANGED <<source, file, block, assemblyLines, nextLabel, analysisVars>>

ApplyReplacement ==
  /\ stage = "apply"
  /\ replacements # <<>>
  /\ file' = ReplaceAssemblyLine(file, Head(replacements).line, Head(replacements).rewrite)
  /\ replacements' = Tail(replacements)
  /\ UNCHANGED <<source, stage, block, assemblyLines, nextLabel, analysisVars>>

\* asm_preproc, assemble_and_link and read_elf at the end of a pass.
DecodeAgain ==
  /\ stage = "apply"
  /\ replacements = <<>>
  /\ file' = Preprocessed(file)
  /\ program' = Decoded(file')
  /\ phase' = "entry"
  /\ stage' = "decoded"
  /\ UNCHANGED <<source, replacements, block, assemblyLines, nextLabel, split, loopVars>>

\* The loop breaks; the program is analysed by basic blocks.
LeaveScratchLoop ==
  /\ LookedAtAll("scratch")
  /\ PassFoundNothing
  /\ FromProgram(FALSE)
  /\ block' = 1
  /\ assemblyLines' = file
  /\ stage' = "blocks"
  /\ UNCHANGED <<source, file, replacements, nextLabel>>

RewriteBlock ==
  /\ LookingAtBlock("blocks")
  /\ ~HasStatic(block)
  /\ NeedsRewrite(block)
  /\ Rewritable(block)
  /\ file' = ReplaceAssembly(file, block, Best(block))
  /\ block' = block + 1
  /\ UNCHANGED <<source, stage, replacements, assemblyLines, nextLabel, analysisVars>>

\* The assertion on static instructions, or any failure of run_greenthumb,
\* which must show best.info before its output is used.
Panic ==
  /\ LookingAtBlock("blocks")
  /\ NeedsRewrite(block)
  /\ stage' = "panicked"
  /\ UNCHANGED <<source, file, replacements, block, assemblyLines, nextLabel, analysisVars>>

Return ==
  /\ LookedAtAll("blocks")
  /\ stage' = "returned"
  /\ UNCHANGED <<source, file, replacements, block, assemblyLines, nextLabel, analysisVars>>

Next ==
  \/ StartPass \/ PanicAtStart \/ RunAnalysis \/ SkipBlock \/ AskForReplacement \/ SortReplacements
  \/ ApplyReplacement \/ DecodeAgain \/ LeaveScratchLoop
  \/ RewriteBlock \/ Panic \/ Return

Spec == Init /\ [][Next]_vars

\* Sequential code; GreenThumb runs under a timeout.
FairSpec == Spec /\ WF_vars(Next)

(***************************************************************************)
(* What a file computes, from the values that its registers start with.    *)
(***************************************************************************)

Arguments(regs, line) == [k \in DOMAIN line.args |-> regs[line.args[k]]]

Happens(regs, line) == line.guard = "always" \/ Condition(line.op, Arguments(regs, line))

Result(regs, line, r) ==
  Meaning(line.op, CHOOSE k \in DOMAIN line.dest : line.dest[k] = r, Arguments(regs, line))

Assign(regs, line) ==
  IF ~Happens(regs, line) THEN regs
  ELSE [r \in Registers |-> IF r \in ToSet(line.dest) THEN Result(regs, line, r) ELSE regs[r]]

AssignAll(regs, lines) ==
  LET after[n \in 0 .. Len(lines)] ==
        IF n = 0 THEN regs
        ELSE LET before == after[n - 1] IN Assign(before, lines[n])
  IN  after[Len(lines)]

\* A block rewritten by GreenThumb.
AssignBest(regs, line) ==
  LET kept == AssignAll(regs, line.body)
  IN  [r \in Registers |-> IF r \in line.live THEN kept[r] ELSE Lost]

\* A moment of a run: the line it is at, or 0 when control has left through a
\* register, the labels that were jumped to and the registers.
At(pc, seen, regs) == [pc |-> pc, seen |-> seen, regs |-> regs]

\* The labels of the source are seen from outside.
Jumped(seen, label) == IF OfSource(label) THEN Append(seen, label) ELSE seen

ExecuteLine(f, s) ==
  IF s.pc \notin DOMAIN f THEN s
  ELSE LET line == f[s.pc]
           happens == Happens(s.regs, line)
       IN CASE line.op = "label" -> At(s.pc + 1, s.seen, s.regs)
            [] line.op = "best" -> At(s.pc + 1, s.seen, AssignBest(s.regs, line))
            [] line.op \in RegisterBranches /\ happens -> At(0, s.seen, Assign(s.regs, line))
            [] line.op \in LabelBranches /\ happens ->
                 At(LabelLine(f, line.label), Jumped(s.seen, line.label), Assign(s.regs, line))
            [] OTHER -> At(s.pc + 1, s.seen, Assign(s.regs, line))

Stretch == 20

Walk(f, s) ==
  LET walk[k \in 0 .. Stretch] ==
        IF k = 0 THEN s
        ELSE LET before == walk[k - 1] IN ExecuteLine(f, before)
  IN  walk

\* The moments of a run, by the number of steps.  It goes by stretches because the
\* depth to which TLC can recurse is limited.
Run(f, regs) ==
  LET run[n \in Nat] ==
        IF n <= Stretch THEN Walk(f, At(1, <<>>, regs))[n]
        ELSE CHOOSE t \in {Walk(f, before)[Stretch] : before \in {run[n - Stretch]}} : TRUE
  IN  run

\* What is seen of a moment: the labels so far, and the registers if control has
\* left.
Sight(s) == [seen |-> s.seen, left |-> IF s.pc = 0 THEN {s.regs} ELSE {}]

Sights(f, regs) == LET run == Run(f, regs) IN {Sight(run[n]) : n \in StepCounts}

(***************************************************************************)
(* What scratch_replacement is asked for.                                  *)
(***************************************************************************)

\* The code followed by the two places that the line can go on to.
Standalone(line, x) == x \o <<line, [line EXCEPT !.op = "label"]>>

\* From these registers the code comes, after one of these numbers of steps, to
\* the place where the line goes on, and has left in every register but the
\* scratch ones what the line leaves there.
Replicates(line, x, scratch, regs, counts) ==
  LET s == ExecuteLine(Standalone(line, <<line>>), At(1, <<>>, regs))
      run == Run(Standalone(line, x), regs)
  IN  \E k \in counts :
        /\ \A j \in 0 .. k - 1 : run[j].pc \in DOMAIN x
        /\ run[k].pc = IF s.pc = 0 THEN 0 ELSE s.pc + Len(x) - 1
        /\ \A r \in Registers \ scratch : run[k].regs[r] = s.regs[r]

\* Its labels are the next ones of the allocator, and it branches to these or
\* where the line does.
LabelsAreFresh(line, x, n) ==
  /\ \A k \in LabelsIn(x) : \E m \in n .. n + Cardinality(LabelsIn(x)) - 1 :
       x[k].label = Fresh(x[k].label[1], m)
  /\ \A k, l \in LabelsIn(x) : x[k].label = x[l].label => k = l
  /\ \A k \in DOMAIN x : x[k].op \in LabelBranches =>
       \/ \E l \in LabelsIn(x) : x[l].label = x[k].label
       \/ line.op \in LabelBranches /\ x[k].label = line.label

------------------------------------------------------------------------------

\* Every state component stays in its domain, and the loop over the blocks
\* starts from a file that the analysis was made of.
TypeOK ==
  /\ source \in Sources
  /\ \A n \in DOMAIN file : /\ file[n].tag \in Nat
                            /\ file[n].dest \in Seq(Registers)
                            /\ file[n].args \in Seq(Registers)
  /\ stage \in {"decoded", "scratch", "apply", "blocks", "returned", "panicked"}
  /\ stage \notin {"scratch", "apply"} => replacements = <<>>
  /\ block \in 1 .. Len(graph) + 1
  /\ nextLabel \in Nat
  /\ Loop!WellFormed(graph)
  /\ liveIn \in [DOMAIN graph -> SUBSET Registers]
  /\ liveOut \in [DOMAIN graph -> SUBSET Registers]
  /\ stage \in {"decoded", "scratch"} => /\ program = Decoded(file)
                                       /\ \A n \in DOMAIN file : file[n].tag = n

\* At every moment of the rewriting, between the replacements of a pass and
\* between the blocks too, the file still computes what the source does: from
\* the same registers it jumps to the same labels of the source and leaves
\* with the same registers.  No replacement lands on another line, and no
\* scratch register or register left free in a block holds a value that is
\* read later.
BehaviourKept == \A regs \in Starts : Sights(file, regs) = Sights(source, regs)

\* The file assembles between any two replacements: however often an
\* instruction is expanded, in one pass or in the next, every label is defined
\* once, and those that branches go to are there.
LabelsKept == LabelsResolve(file)

\* While the replacements of a pass are applied, the line of each that is
\* still to come is the line its instruction was decoded from.
PassLinesCurrent ==
  \A k \in DOMAIN replacements : file[replacements[k].line].tag = replacements[k].line

\* A program that is returned runs on the candidate.
ReturnedIsSupported ==
  stage = "returned" =>
    \A n \in DOMAIN file : file[n].op \in Supported \cup {"label", "best"}

\* The invariant of the loops: the domains, and the three facts above.
RewriteInvariant == TypeOK /\ LabelsKept /\ PassLinesCurrent /\ ReturnedIsSupported

\* rewrite_program returns or panics, whatever the hooks answer, as long as
\* no instruction expands to itself.
Ends == <>(stage \in {"returned", "panicked"})

(***************************************************************************)
(* What the comments say.                                                  *)
(***************************************************************************)

\* assembly_line is "the line number in the assembly file which corresponds
\* with this instruction", and replacements are applied from the end upward
\* to keep it so: for the blocks still to be rewritten as well.
AssemblyLinesCurrent ==
  stage = "blocks" => \A b \in block .. Len(graph) : \A i \in DOMAIN Instructions(b) :
    LET n == Instructions(b)[i].assemblyLine
    IN  NeedsRewrite(b) => n \in DOMAIN file /\ file[n].tag = n

\* "Instruction must not be included in any rewrites": the static lines of the
\* source are all still there.
StaticNeverRewritten ==
  \A n \in DOMAIN source : source[n].static =>
    \E m \in DOMAIN file : [file[m] EXCEPT !.tag = 0] = source[n]
==============================================================================
