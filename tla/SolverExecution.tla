----------------------------- MODULE SolverExecution -----------------------------
(***************************************************************************)
(* Z3EquivalenceManager (semantic_matching.rs): a program is executed      *)
(* instruction by instruction over total arrays, and what it may write is  *)
(* observed.  Two programs differ in a first state when an observed place  *)
(* does at the end.  The solver is external: it looks for such a state.    *)
(***************************************************************************)
EXTENDS ExpressionFormulas, EffectSequences

RegisterFile(solver, key) == solver.registers[key]
MemoryArray(solver, addressWidth) == solver.memory[addressWidth]

WriteMemoryUnconditional(array, address, value, w) == BytesOf(address, value.value, w) @@ array

CollapseEffect(effect, instruction) ==
  [effect EXCEPT !.guard = CollapseAndCanonicalize(@, instruction),
                 !.destination = CollapseAndCanonicalize(@, instruction),
                 !.value = CollapseAndCanonicalize(@, instruction)]

\* The effects of one instruction all see the state before it.
BadApplyCollapsedEffect(after, effect, before) ==
  LET destination == LowerExpr(effect.destination, after)
      value == LowerExpr(effect.value, after)
      key == <<destination.width, value.width>>
  IN  CASE ~LowerGuard(LowerExpr(effect.guard, after)) -> after
        [] effect.memory ->
             [after EXCEPT !.memory[destination.width] =
                WriteMemoryUnconditional(MemoryArray(after, destination.width), destination, value,
                                         effect.width)]
        [] OTHER -> [after EXCEPT !.registers[key][destination.value] = value.value]

ApplyCollapsedEffect(after, effect, before) ==
  LET destination == LowerExpr(effect.destination, before)
      value == LowerExpr(effect.value, before)
      key == <<destination.width, value.width>>
  IN  CASE ~LowerGuard(LowerExpr(effect.guard, before)) -> after
        [] effect.memory ->
             [after EXCEPT !.memory[destination.width] =
                WriteMemoryUnconditional(MemoryArray(after, destination.width), destination, value,
                                         effect.width)]
        [] OTHER ->
             [after EXCEPT !.registers[key] =
                [RegisterFile(after, key) EXCEPT ![destination.value] = value.value]]

\* Memory that the original program writes, and memory that is not scratch.
EffectDestinationIsObservable(effect, side) ==
  effect.memory /\ (side = "left" \/ ~IsAllowedStackScratchAddress(effect.destination))

ObserveEffectDestination(effect, before) ==
  [memory |-> effect.memory, at |-> LowerExpr(effect.destination, before), width |-> effect.width]

SolverEffects(instruction) ==
  LET all == InstructionEffects(instruction)
  IN  [i \in DOMAIN all |-> CollapseEffect(all[i], instruction)]

SolverProgram(program) == [i \in DOMAIN program |-> SolverEffects(program[i])]

\* One instruction; what it writes is observed where it is before it.
Execute(run, effects, side) ==
  [state |-> FoldLeft(LAMBDA after, e : ApplyCollapsedEffect(after, e, run.state),
                      run.state, effects),
   observations |-> run.observations \cup
     {ObserveEffectDestination(e, run.state) :
        e \in {e \in ToSet(effects) : EffectDestinationIsObservable(e, side)}}]

\* Of a program whose effects are collapsed.
ExecuteProgramObserving(collapsed, initial, side) ==
  FoldLeft(LAMBDA run, effects : Execute(run, effects, side),
           [state |-> initial, observations |-> {}], collapsed)

RegisterObservation(effect) ==
  [memory |-> FALSE,
   at |-> BitWord(effect.destination.n[1], effect.destination.n[2]),
   width |-> ExprWidth(effect.value)]

BadRegisterWrites(effects) ==
  {e \in ToSet(effects) : ~e.memory /\ RegisterDestination(e.destination) = {}}
RegisterWrites(effects) ==
  {e \in ToSet(effects) : ~e.memory /\ RegisterDestination(e.destination) # {}}

\* The registers that the original writes live on, unless the caller says otherwise.
LeftRegisterDestinations(collapsed) ==
  UNION {{RegisterObservation(e) : e \in RegisterWrites(effects)} : effects \in ToSet(collapsed)}

ReadObserved(solver, observation) ==
  IF observation.memory THEN ReadMemoryArray(solver, observation.at, observation.width)
  ELSE ReadRegisterFile(solver, observation.at, observation.width)

\* A disjunct of destination_differences is true.
Differences(l, r, registers) ==
  {o \in l.observations \cup r.observations \cup registers :
     ReadObserved(l.state, o) # ReadObserved(r.state, o)}

DestinationsDiffer(left, right, initial) ==
  Differences(ExecuteProgramObserving(left, initial, "left"),
              ExecuteProgramObserving(right, initial, "right"),
              LeftRegisterDestinations(left)) # {}
==================================================================================
