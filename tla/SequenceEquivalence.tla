---------------------------- MODULE SequenceEquivalence ----------------------------
(***************************************************************************)
(* EquivalenceManager (semantic_matching.rs) over the effects of           *)
(* instruction sequences: a left program, for each of whose effects there  *)
(* is a BddManager, is compared with one right program after another.      *)
(***************************************************************************)
EXTENDS SolverExecution, BddManagers

CONSTANTS
  Instructions,     \* decoded instructions
  Grown(_),         \* bound: whether a left program is made
  Lefts,            \* bound: the left programs that managers are made for
  Rights            \* bound: the right programs

VARIABLES
  left, leftEffects,    \* the program, and the effects of it
  overtaken,            \* pairs of memory places: see Overtakes
  right, rightEffects,
  managers,             \* effect_managers
  answer

vars == <<left, leftEffects, overtaken, right, rightEffects, managers, answer>>

NoAnswer == [equal |-> FALSE, manager |-> 0]
Equal == [equal |-> TRUE, manager |-> 0]
Unequal(i, state) == [equal |-> FALSE, manager |-> i, state |-> state]

Init ==
  /\ left = <<>> /\ leftEffects = <<>> /\ overtaken = {}
  /\ right = <<>> /\ rightEffects = <<>>
  /\ managers = <<>> /\ answer = NoAnswer

(***************************************************************************)
(* Growing a left program.                                                 *)
(***************************************************************************)

\* A write that is combined with an earlier one at its place overtakes the writes
\* between them: where they are to the same address, the order is lost.
Overtakes(effects, b) ==
  LET places == Places(effects, b)
  IN  IF ~b.memory \/ places = {} THEN {}
      ELSE {<<b.destination, effects[j].destination>> :
              j \in {j \in DOMAIN effects : j > Min(places) /\ effects[j].memory}}

OvertakenBy(effects, lowered) ==
  LET Take(taken, b) == [effects |-> AddEffect(taken.effects, b),
                         pairs |-> taken.pairs \cup Overtakes(taken.effects, b)]
  IN  FoldLeft(Take, [effects |-> effects, pairs |-> {}], lowered).pairs

AppendInstruction ==
  /\ managers = <<>>
  /\ \E instruction \in Instructions :
       LET lowered == LoweredEffects(instruction, leftEffects)
       IN  /\ Grown(Append(left, instruction))
           /\ left' = Append(left, instruction)
           /\ leftEffects' = AddEffects(leftEffects, lowered)
           /\ overtaken' = overtaken \cup OvertakenBy(leftEffects, lowered)
  /\ UNCHANGED <<right, rightEffects, managers, answer>>

(***************************************************************************)
(* Managers.                                                               *)
(***************************************************************************)

\* What an effect leaves at its destination.
GuardedValueOrCurrent(effect) ==
  LET current == IF effect.memory THEN ReadMemory(effect.destination, effect.width)
                 ELSE ReadRegister(effect.destination, effect.width)
  IN  Canonicalize(SelectOf(effect.guard, effect.value, current))

Matching(effects, b) == {i \in DOMAIN effects : SamePlace(effects[i], b)}
MatchingEffectValue(effects, b) == GuardedValueOrCurrent(effects[Min(Matching(effects, b))])

FromLeftInstruction ==
  /\ managers = <<>> /\ left \in Lefts
  /\ right' = left
  /\ rightEffects' = CanonicalEffects(SequenceEffects(left))
  /\ managers' = [i \in DOMAIN rightEffects' |->
                    FromExprs(GuardedValueOrCurrent(rightEffects'[i]),
                              MatchingEffectValue(rightEffects', rightEffects'[i]))]
  /\ UNCHANGED <<left, leftEffects, overtaken, answer>>

\* The effects that the managers are parallel to.
CanonicalLeft == CanonicalEffects(leftEffects)

\* Only programs that write what the left one writes, and no state that lives on,
\* are compared.
ReplaceRightInstruction(program) ==
  /\ managers # <<>>
  /\ GeneratedEffectsMeetStateConstraints(SequenceEffects(program), leftEffects)
  /\ right' = program
  /\ rightEffects' = CanonicalEffects(SequenceEffects(program))
  /\ managers' = [i \in DOMAIN managers |->
                    ReplaceRightExpr(managers[i], MatchingEffectValue(rightEffects', CanonicalLeft[i]))]
  /\ answer' = NoAnswer
  /\ UNCHANGED <<left, leftEffects, overtaken>>

\* Managers after the first that finds a difference are not asked.
FirstDifference(lowered, found) ==
  LET unequal == {i \in DOMAIN found : found[i] # {}}
      first == Min(unequal)
  IN  IF unequal = {} THEN Equal ELSE Unequal(first, PickedState(lowered[first], found[first]))

Compare(lowered) ==
  FirstDifference(lowered, [i \in DOMAIN lowered |-> Counterexamples(lowered[i])])

CompareInstructions ==
  /\ managers # <<>> /\ answer = NoAnswer
  /\ answer' = Compare([i \in DOMAIN managers |-> LowerLeftAndRight(managers[i])])
  /\ managers' = [i \in DOMAIN managers |->
                    IF answer'.equal \/ i <= answer'.manager THEN LowerLeftAndRight(managers[i])
                    ELSE managers[i]]
  /\ UNCHANGED <<left, leftEffects, overtaken, right, rightEffects>>

Next ==
  \/ AppendInstruction \/ FromLeftInstruction
  \/ \E program \in Rights : ReplaceRightInstruction(program)
  \/ CompareInstructions

Spec == Init /\ [][Next]_vars

(***************************************************************************)
(* The states of the machine that programs are run in.                     *)
(***************************************************************************)

CONSTANTS
  Memories,     \* bound: the contents of memory
  AddressWidth  \* of every access to memory

RegisterFiles ==
  LET registers == ToSet(ArchitecturalRegisters)
      Holding(r) == {BitWord(v, r.width) : v \in 0 .. Mask(r.width)}
      Of(id) == CHOOSE r \in registers : r.identifier = id
      ids == {r.identifier : r \in registers}
  IN  {file \in [ids -> UNION {Holding(r) : r \in registers}] : \A id \in ids : file[id] \in Holding(Of(id))}

States == [registers : RegisterFiles, memory : Memories]

Apart(a, b, state) == EvaluateExpr(a, state) # EvaluateExpr(b, state)

MemoryPlaces(effects) == {effects[i].destination : i \in {i \in DOMAIN effects : effects[i].memory}}

AllPlaces == MemoryPlaces(leftEffects) \cup MemoryPlaces(rightEffects)

\* Places that are written differently are different places.
PlacesApart(places, state) == \A a, b \in places : a # b => Apart(a, b, state)

\* A state as the solver has it: register 0 where there is none, and byte 0 where
\* nothing is known.
SolverState(state) ==
  LET registers == ToSet(ArchitecturalRegisters)
      File(key) ==
        [id \in 0 .. Mask(key[1]) |->
           IF \E r \in registers : r.identifier = id /\ r.width = key[2] /\ id \in DOMAIN state.registers
           THEN state.registers[id].value ELSE 0]
      Bytes(w) == [a \in 0 .. Mask(w) |-> IF a \in DOMAIN state.memory THEN state.memory[a] ELSE 0]
  IN  [registers |-> [key \in {<<r.identifierWidth, r.width>> : r \in registers} |-> File(key)],
       memory |-> [w \in {AddressWidth} |-> Bytes(w)]]

------------------------------------------------------------------------------

\* Three tellings of one program.  The solver's arrays end as the registers and the
\* memory of the machine do.  And the one list of effects does what the instructions do one after the other:
\* reads see the writes before them, whatever registers hold the addresses,
\* conditional writes leave what was there, and the parts of a word are read and
\* written apart.  Left out are states where a write has overtaken another one to
\* the same address.
EffectsTellTheRun ==
  managers = <<>> =>
    LET concrete == ConcreteProgram(left)
        collapsed == SolverProgram(left)
    IN  \A state \in States :
          LET end == ExecuteConcrete(concrete, state)
          IN  /\ ExecuteProgramObserving(collapsed, SolverState(state), "left").state = SolverState(end)
              /\ (\A pair \in overtaken : Apart(pair[1], pair[2], state))
                   => ExecuteTest(leftEffects, state) = end

\* Whatever was compared before, a variable that a word is made of is allocated to
\* the read the word means, no two reads share one, and no word keeps a variable
\* that is released when the right expression is replaced.
VariablesAreOwned ==
  \A m \in ToSet(managers) :
    LET Owns(table, side) ==
          \A i \in DOMAIN table :
            /\ Len(table[i].variables) = table[i].width
            /\ \A b \in DOMAIN table[i].variables :
                 m.pool[table[i].variables[b]] = MemoryReadValueBit(ReadId(table, i), side, b - 1)
        Of(word, table) == word # NotLowered => word.reads = ReadsIn(table)
    IN  /\ Owns(m.leftReads, TRUE) /\ Owns(m.rightReads, FALSE)
        /\ Of(m.left, m.leftReads) /\ Of(m.right, m.rightReads)
        /\ \A i \in DOMAIN m.leftReads : Of(m.leftReads[i].lowered, m.leftReads)
        /\ \A i \in DOMAIN m.rightReads : Of(m.rightReads[i].lowered, m.rightReads)
        /\ MayRelease(m, m.rightExpr)

\* What the left program writes, and what outlives both programs.
Observed(state) ==
  LET Destinations(memory) ==
        {EvaluateExpr(e.destination, state).value : e \in {e \in ToSet(leftEffects) : e.memory = memory}}
      Below(i) ==
        LET pointer == state.registers[StackPointer]
        IN  ByteAddress(pointer, IF StackDirection = "upwards" THEN i ELSE 0 - i)
  IN  [registers |-> Destinations(FALSE) \cup LiveOutRegisters \cup {StackPointer},
       memory |-> Destinations(TRUE) \cup (DOMAIN state.memory \ {Below(i) : i \in 1 .. StackSize})]

Alike(observed, a, b) ==
  /\ \A r \in observed.registers : a.registers[r] = b.registers[r]
  /\ \A address \in observed.memory : a.memory[address] = b.memory[address]

\* The answer is that of running both programs.  Equal: from every state in which
\* differently written addresses differ, they leave the same at every destination
\* of the left program, in every register that lives on, and in all memory but
\* the scratch of the stack.  Unequal: in the counterexample's state the two
\* expressions can be evaluated and differ.
AnswerIsThatOfRunning ==
  /\ answer = Equal =>
       LET leftProgram == ConcreteProgram(left)
           rightProgram == ConcreteProgram(right)
       IN  \A state \in States : PlacesApart(AllPlaces, state) =>
             Alike(Observed(state), ExecuteConcrete(leftProgram, state), ExecuteConcrete(rightProgram, state))
  /\ ~answer.equal /\ answer # NoAnswer =>
       LET m == managers[answer.manager]
           l == EvaluateExpr(m.leftExpr, answer.state)
           r == EvaluateExpr(m.rightExpr, answer.state)
       IN  None \notin {l, r} /\ l # r

\* The two managers agree.  What the circuits find equal shows no difference to the
\* solver in any state in which differently written addresses differ, and their
\* counterexample is a difference to the solver too.
ManagersAgree ==
  answer # NoAnswer =>
    LET l == SolverProgram(left)
        r == SolverProgram(right)
        states == IF answer.equal THEN {s \in States : PlacesApart(AllPlaces, s)} ELSE {answer.state}
    IN  \A state \in states : DestinationsDiffer(l, r, SolverState(state)) <=> ~answer.equal

\* What the equivalence managers answer, in both ways they are made.
AnswersAreThatOfRunning == AnswerIsThatOfRunning /\ ManagersAgree

(***************************************************************************)
(* Comments that do not hold.                                              *)
(***************************************************************************)

\* "a single state update u where s(t0+k) = u(s(t0))" (instruction_seq_to_effects),
\* also where a write has overtaken another one to the same address.
EffectsAreOneUpdate ==
  managers = <<>> =>
    \A state \in States :
      ExecuteTest(leftEffects, state) = ExecuteConcrete(ConcreteProgram(left), state)

\* "Checks the equivalence between two instruction sequences" (EquivalenceManager),
\* also where addresses that are written differently are the same.
EqualSequencesAgree ==
  answer = Equal =>
    \A state \in States :
      Alike(Observed(state), ExecuteConcrete(ConcreteProgram(left), state),
            ExecuteConcrete(ConcreteProgram(right), state))
==================================================================================
