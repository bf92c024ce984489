--------------------------- MODULE Superoptimization ---------------------------
(***************************************************************************)
(* SuperoptimizationCtx::generate_candidates: the stochastic search for    *)
(* replacements of one instruction. Each iteration mutates the current     *)
(* program and accepts or rejects the result by its cost, which the        *)
(* program's length, its illegal reads and its results on the              *)
(* counterexamples found so far make up. A program that passes all of them *)
(* is shown to the solver, which proves it or finds one more.              *)
(***************************************************************************)
EXTENDS SolverEquivalence, IllegalReads

CONSTANTS
  Effects,             \* the effects of each instruction of the instruction set
  Legal,               \* the instructions that the field uses allow
  FieldVariants,       \* what changing one field makes of an instruction
  Original,            \* original_program
  Unused,              \* ProgramInstr::UNUSED
  Slots,               \* SUPEROPTIMIZATION_PROGRAM_LEN
  Target,              \* target_candidates
  MaxIterations,       \* max_iters
  RandomCases,         \* how many random counterexamples follow the first: 100
  WeightIllegalRead,   \* WEIGHT_ILLEGAL_READ
  SameCostPenalty,     \* SAME_COST_PENALTY
  Infinity,            \* f64::INFINITY
  SolverStates,        \* the total states that the solver finds models among
  RandomFiles,         \* the register values that are drawn for random counterexamples
  Allowances           \* the values of -ln(random) * MCMC_TEMP

ASSUME SearchAssumption ==
  /\ \A i \in DOMAIN Effects : Effects[i] \in Instructions
  /\ Original \in Seq(Instructions)
  /\ Legal \subseteq DOMAIN Effects /\ Legal # {} /\ Unused \notin DOMAIN Effects
  /\ FieldVariants \in [Legal -> SUBSET DOMAIN Effects]
  /\ {Slots, Target} \subseteq Nat \ {0}
  /\ {MaxIterations, RandomCases, WeightIllegalRead, SameCostPenalty} \subseteq Nat
  /\ Infinity \notin Nat
  /\ Allowances \subseteq Nat /\ Allowances # {} /\ IsFiniteSet(Allowances)
  /\ SolverStates \subseteq TotalState /\ RandomFiles \subseteq [Registers -> Word]

VARIABLES
  genProgram, genCost,   \* gen_program and gen_program_cost
  counterexamples,       \* a sequence of [state, desired]
  matches,               \* perfect_matches: a sequence of [cost, program]
  iterations,            \* num_iters
  proposal, cost,        \* the proposal, its base cost and its cost on all counterexamples
  stage                  \* where generate_candidates is: "top", "propose", "decide" or "returned"

vars == <<genProgram, genCost, counterexamples, matches, iterations, proposal, cost, stage>>

Program == [1 .. Slots -> Legal \cup {Unused}]
Empty == [i \in 1 .. Slots |-> Unused]

AnyProgram == [1 .. Slots -> DOMAIN Effects \cup {Unused}]

TypeOK ==
  /\ {genProgram, proposal} \subseteq AnyProgram
  /\ genCost \in Nat \cup {Infinity} /\ cost \in [base : Nat, tests : Nat]
  /\ \A n \in DOMAIN counterexamples : counterexamples[n].state \in MachineState
  /\ \A n \in DOMAIN matches : matches[n].cost \in Nat /\ matches[n].program \in AnyProgram
  /\ iterations \in 0 .. MaxIterations + 1
  /\ stage \in {"top", "propose", "decide", "returned"}

Init ==
  /\ genProgram = Empty /\ genCost = Infinity
  /\ counterexamples = <<>> /\ matches = <<>>
  /\ iterations = 0 /\ proposal = Empty /\ cost = [base |-> 0, tests |-> 0] /\ stage = "top"

(***************************************************************************)
(* Costs.                                                                  *)
(***************************************************************************)

Used(p) == {i \in DOMAIN p : p[i] # Unused}
Code(p) == [i \in DOMAIN p |-> IF p[i] = Unused THEN <<>> ELSE Effects[p[i]]]

Plus(a, b) == IF a = Infinity THEN Infinity ELSE a + b
Exceeds(c, maximum) == maximum # Infinity /\ c > maximum

PerformanceCost(p) == Cardinality(Used(p))

BaseCost ==
  [p \in AnyProgram |-> PerformanceCost(p) + WeightIllegalRead * IllegalReadCount(Code(p), Original)]

CostOn(p, test) == EqualityCost(Code(p), test.state, test.desired)
CostOnAll(p, tests) ==
  LET Upto[n \in 0 .. Len(tests)] == IF n = 0 THEN 0 ELSE Upto[n - 1] + CostOn(p, tests[n])
  IN  Upto[Len(tests)]

Test(s) == [state |-> s, desired |-> Execute(Original, s)]

\* The states in which the solver can show a program to differ from the original.
Models == [p \in AnyProgram |-> {s \in SolverStates : Differ(Original, Code(p), s)}]

\* Its answers, as the test cases they become.
Refutations ==
  [p \in AnyProgram |-> {Test(ModelState(Original, Code(p), s)) : s \in Models[p]}]

\* add_counterexample: the current program's cost grows with the list.
BadAddCounterexamples(tests) ==
  /\ counterexamples' = counterexamples \o tests
  /\ UNCHANGED genCost
AddCounterexamples(tests) ==
  /\ counterexamples' = counterexamples \o tests
  /\ genCost' = Plus(genCost, CostOnAll(genProgram, tests))

(***************************************************************************)
(* The top of an iteration.                                                *)
(***************************************************************************)

Enough == Len(matches) >= Target \/ iterations > MaxIterations

Return ==
  /\ stage = "top" /\ Enough
  /\ stage' = "returned"
  /\ UNCHANGED <<genProgram, genCost, counterexamples, matches, iterations, proposal, cost>>

\* Random counterexamples keep the addresses of the first one's memory and redraw
\* every register and every byte.
RandomStates ==
  LET first == counterexamples[1].state
  IN  [registers : RandomFiles, memory : [DOMAIN first.memory -> Byte]]

BadRandomTest(s) == [state |-> s, desired |-> counterexamples[1].desired]
RandomTest(s) == Test(s)

StartIteration ==
  /\ stage = "top" /\ ~Enough
  /\ stage' = "propose"
  /\ \/ /\ Len(counterexamples) = 1
        /\ \E drawn \in [1 .. RandomCases -> RandomStates] :
             AddCounterexamples([n \in 1 .. RandomCases |-> RandomTest(drawn[n])])
     \/ Len(counterexamples) # 1 /\ UNCHANGED <<counterexamples, genCost>>
  /\ UNCHANGED <<genProgram, matches, iterations, proposal, cost>>

(***************************************************************************)
(* generate_proposal: a mutation that is impossible is drawn again.        *)
(***************************************************************************)

\* instruction_valid_under_field_uses
BadValid(i) == TRUE
Valid(i) == i \in Legal

SetInstruction(p, i, instruction) == [p EXCEPT ![i] = instruction]
SetUnused(p, i) == [p EXCEPT ![i] = Unused]
SwapInstructions(p, i, j) == [p EXCEPT ![i] = p[j], ![j] = p[i]]
TwoInstructions(p) == {pair \in Used(p) \X Used(p) : pair[1] # pair[2]}

ChangesField(p) ==
  \E i \in Used(genProgram) : \E v \in FieldVariants[genProgram[i]] :
    Valid(v) /\ p = SetInstruction(genProgram, i, v)
InsertsUnused(p) == \E i \in Used(genProgram) : p = SetUnused(genProgram, i)
ChangesInstruction(p) ==
  \E i \in 1 .. Slots, v \in Legal : p = SetInstruction(genProgram, i, v)
SwapsLines(p) ==
  \E pair \in TwoInstructions(genProgram) : p = SwapInstructions(genProgram, pair[1], pair[2])

Propose ==
  /\ stage = "propose"
  /\ stage' = "decide"
  /\ proposal' \in AnyProgram
  /\ \/ ChangesField(proposal') \/ InsertsUnused(proposal')
     \/ ChangesInstruction(proposal') \/ SwapsLines(proposal')
  /\ cost' = [base |-> BaseCost[proposal'], tests |-> CostOnAll(proposal', counterexamples)]
  /\ UNCHANGED <<genProgram, genCost, counterexamples, matches, iterations>>

(***************************************************************************)
(* decide_proposal_acceptance. A random number, drawn for each proposal,   *)
(* sets how much more than the current program the proposal may cost.      *)
(***************************************************************************)

Cost == cost.base + cost.tests

Passes == Cost = cost.base

Reject(current) == genCost' = current /\ UNCHANGED genProgram

\* The same-cost penalty, and the new current program.
Accept(ofProposal, current, maximum) ==
  LET final == IF ofProposal = current THEN ofProposal + SameCostPenalty ELSE ofProposal
  IN  IF Exceeds(final, maximum) THEN Reject(current)
      ELSE genCost' = final /\ genProgram' = proposal

NextIteration == stage' = "top" /\ iterations' = iterations + 1 /\ UNCHANGED <<proposal, cost>>

BadRejectEmpty ==
  /\ stage = "decide" /\ Used(proposal) = {}
  /\ stage' = "top"
  /\ UNCHANGED <<genProgram, genCost, counterexamples, matches, iterations, proposal, cost>>
RejectEmpty ==
  /\ stage = "decide" /\ Used(proposal) = {}
  /\ UNCHANGED <<genProgram, genCost, counterexamples, matches>>
  /\ NextIteration

\* Costs only add up, so leaving the sum early rejects what the whole sum does.
RejectCostly ==
  /\ stage = "decide" /\ Used(proposal) # {}
  /\ \E allowance \in Allowances : Exceeds(Cost, Plus(genCost, allowance))
  /\ UNCHANGED <<genProgram, genCost, counterexamples, matches>>
  /\ NextIteration

\* A proposal whose cost is low enough.
Affordable(allowance) ==
  stage = "decide" /\ Used(proposal) # {} /\ ~Exceeds(Cost, Plus(genCost, allowance))

AcceptFailing ==
  \E allowance \in Allowances :
    /\ Affordable(allowance) /\ ~Passes
    /\ Accept(Cost, genCost, Plus(genCost, allowance))
    /\ UNCHANGED <<counterexamples, matches>>
    /\ NextIteration

RecordMatch ==
  \E allowance \in Allowances :
    /\ Affordable(allowance) /\ Passes /\ Models[proposal] = {}
    /\ matches' = Append(matches, [cost |-> Cost, program |-> proposal])
    /\ Accept(Cost, genCost, Plus(genCost, allowance))
    /\ UNCHANGED counterexamples
    /\ NextIteration

\* The solver's counterexample raises the cost of the current program and of the
\* proposal, and the comparison is made again. From an infinite cost the code
\* computes infinity - infinity, which no cost exceeds.
BadDecideAgain(ofProposal, current, allowance) == Accept(ofProposal, current, Infinity)
DecideAgain(ofProposal, current, allowance) ==
  LET maximum == Plus(current, allowance)
  IN  IF Exceeds(ofProposal, maximum) THEN Reject(current)
      ELSE Accept(ofProposal, current, maximum)

Refute ==
  \E allowance \in Allowances, test \in Refutations[proposal] :
    /\ Affordable(allowance) /\ Passes
    /\ counterexamples' = Append(counterexamples, test)
    /\ DecideAgain(Cost + CostOn(proposal, test), Plus(genCost, CostOn(genProgram, test)),
                   allowance)
    /\ UNCHANGED matches
    /\ NextIteration

Next ==
  \/ Return \/ StartIteration \/ Propose
  \/ RejectEmpty \/ RejectCostly \/ AcceptFailing \/ RecordMatch \/ Refute

Spec == Init /\ [][Next]_vars

\* The search is one loop of one thread: it goes on while it can.
FairSpec == Spec /\ WF_vars(Next)

(***************************************************************************)
(* Properties.                                                             *)
(***************************************************************************)

\* gen_program_cost is the cost of gen_program on the counterexamples of this
\* moment, those included that were added while another program was judged, and
\* infinite only before a program was accepted.
CostIsOwn ==
  IF genProgram = Empty THEN genCost = Infinity
  ELSE genCost = BaseCost[genProgram] + CostOnAll(genProgram, counterexamples)

\* Every program that the solver takes for the original's equal passes every
\* counterexample, those included that come after it: none of them stands in the
\* way of a replacement.
EqualProgramsPass ==
  \A p \in {q \in Program : Models[q] = {}} :
    CostOnAll(p, counterexamples) = 0

\* No mutation leaves the restricted instruction set: every program that is
\* judged, kept or recorded is made of legal instructions.
OnlyLegal ==
  \A p \in {genProgram, proposal} \cup {matches[n].program : n \in DOMAIN matches} :
    ToSet(p) \subseteq Legal \cup {Unused}

\* The invariant of the search: the domains, its own cost, and legal instructions.
SearchInvariant == TypeOK /\ CostIsOwn /\ OnlyLegal

\* What the random number allows is all that a search step can climb, and it is
\* measured on the counterexamples that the step itself adds as well.
NoSteepClimb ==
  [][stage = "decide" /\ genProgram # Empty
       => genCost' <= BaseCost[genProgram] + CostOnAll(genProgram, counterexamples')
                        + Max(Allowances)]_vars

\* generate_candidates returns.
SearchReturns == <>(stage = "returned")
=============================================================================
