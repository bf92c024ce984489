----------------------------- MODULE EffectSequences -----------------------------
(***************************************************************************)
(* What the instructions of a program do together, told twice: by running  *)
(* one after the other (ConcreteProgram), and as one list of effects in    *)
(* terms of the first state (instruction_seq_to_effects), which            *)
(* execute_test applies at once.                                           *)
(*                                                                         *)
(* An effect writes a register or memory if its guard is 1.  Its width is  *)
(* that of the value written.  A program is a sequence of decoded          *)
(* instructions, which have a name, fields and derived values.             *)
(***************************************************************************)
EXTENDS Canonicalization

CONSTANTS
  EffectsOf,         \* the effects of each instruction, as the ISA has them
  LiveOutRegisters,  \* identifiers
  StackPointer,      \* isa.sp
  StackSize,
  StackDirection     \* "upwards" or "downwards"

InstructionEffects(instruction) == EffectsOf[instruction.name]

WriteRegisterIf(guard, register, value, w) ==
  [memory |-> FALSE, guard |-> guard, destination |-> register, value |-> value, width |-> w]
WriteMemoryIf(guard, address, value, w) ==
  [memory |-> TRUE, guard |-> guard, destination |-> address, value |-> value, width |-> w]

CanonicalEffect(effect) ==
  [effect EXCEPT !.guard = Canonicalize(@), !.destination = Canonicalize(@), !.value = Canonicalize(@)]
CanonicalEffects(effects) == [i \in DOMAIN effects |-> CanonicalEffect(effects[i])]

(***************************************************************************)
(* An expression in terms of the first state.                              *)
(***************************************************************************)

ByteAddressExpr(address, i) ==
  IF i = 0 THEN address ELSE AddExpr(address, Constant(i, ExprWidth(address)))

\* The byte at the highest address comes first.
RECURSIVE LowerMemoryReads(_)
LowerMemoryReads(e) ==
  LET args == [i \in DOMAIN Children(e) |-> LowerMemoryReads(Children(e)[i])]
      count == e.n[1] \div ByteBits
  IN  IF e.op = "ReadMemory" /\ count # 1
      THEN Apply("Concat",
                 [i \in 1 .. count |-> ReadMemory(ByteAddressExpr(args[1], count - i), ByteBits)])
      ELSE WithChildren(e, args)

\* What a read finds after these effects: the latest write that happened there.
BadForwarded(read, effects) ==
  LET Writes(effect) == effect.memory = (read.op = "ReadMemory") /\ effect.width = read.n[1]
      Chosen(value, effect) ==
        SelectOf(EqualExpr(read.args[1], effect.destination), effect.value, value)
  IN  FoldLeft(Chosen, read, SelectSeq(effects, Writes))

Forwarded(read, effects) ==
  LET Writes(effect) == effect.memory = (read.op = "ReadMemory") /\ effect.width = read.n[1]
      Chosen(value, effect) ==
        SelectOf(AndExpr(effect.guard, EqualExpr(read.args[1], effect.destination)),
                 effect.value, value)
  IN  FoldLeft(Chosen, read, SelectSeq(effects, Writes))

RECURSIVE Substitute(_, _)
Substitute(e, effects) ==
  LET inner == WithChildren(e, [i \in DOMAIN Children(e) |-> Substitute(Children(e)[i], effects)])
  IN  IF e.op \in {"ReadRegister", "ReadMemory"} THEN Forwarded(inner, effects) ELSE inner

CollapseLowerSubstitute(e, instruction, previous) ==
  Substitute(LowerMemoryReads(Collapse(e, instruction)), previous)

WrittenByte(effect, i) ==
  WriteMemoryIf(effect.guard, ByteAddressExpr(effect.destination, i),
                ExtractOf(effect.value, ByteBits * (i + 1) - 1, ByteBits * i), ByteBits)

\* Memory is written byte by byte.
ByteWrites(effect) ==
  IF effect.memory /\ effect.width # ByteBits
  THEN [i \in 1 .. effect.width \div ByteBits |-> WrittenByte(effect, i - 1)]
  ELSE <<effect>>

LoweredEffect(effect, instruction, previous) ==
  LET Lower(e) == CollapseLowerSubstitute(e, instruction, previous)
  IN  ByteWrites([effect EXCEPT !.guard = Canonicalize(Lower(@)),
                                !.destination = Canonicalize(Lower(@)),
                                !.value = Lower(@)])

LoweredEffects(instruction, previous) ==
  LET effects == InstructionEffects(instruction)
  IN  FlattenSeq([i \in DOMAIN effects |-> LoweredEffect(effects[i], instruction, previous)])

(***************************************************************************)
(* The list of effects.  A write to a place that is in the list, written   *)
(* alike, is combined with the write there.                                *)
(***************************************************************************)

SamePlace(a, b) == a.memory = b.memory /\ a.destination = b.destination

BadCombineEffects(a, b) ==
  IF b.guard = BoolConst(FALSE) THEN a ELSE [b EXCEPT !.value = SelectOf(b.guard, b.value, a.value)]

\* b comes after a, at the same place.
CombineEffects(a, b) ==
  CASE b.guard = BoolConst(TRUE) -> b
    [] b.guard = BoolConst(FALSE) -> a
    [] a.guard = b.guard -> b
    [] OTHER -> [a EXCEPT !.guard = OrExpr(a.guard, b.guard),
                          !.value = SelectOf(b.guard, b.value, a.value)]

Places(effects, b) == {i \in DOMAIN effects : SamePlace(effects[i], b)}

AddEffect(effects, b) ==
  LET places == Places(effects, b)
      first == Min(places)
  IN  CASE places # {} -> [effects EXCEPT ![first] = CombineEffects(@, b)]
        [] places = {} /\ b.guard # BoolConst(FALSE) -> Append(effects, b)
        [] OTHER -> effects

AddEffects(effects, lowered) == FoldLeft(AddEffect, effects, lowered)

AddInstruction(effects, instruction) == AddEffects(effects, LoweredEffects(instruction, effects))

SequenceEffects(program) == FoldLeft(AddInstruction, <<>>, program)

(***************************************************************************)
(* Running.                                                                *)
(***************************************************************************)

\* A write that happens, with what it writes, where it can be evaluated.
Happens(effect, state) ==
  /\ EvaluateExpr(effect.guard, state).value # 0
  /\ EvaluateExpr(effect.destination, state) # None
  /\ EvaluateExpr(effect.value, state) # None

\* The write of an effect, seen in one state, put into another.
Written(effect, seen, state) ==
  LET destination == EvaluateExpr(effect.destination, seen)
      value == EvaluateExpr(effect.value, seen)
  IN  IF ~Happens(effect, seen) THEN state
      ELSE IF effect.memory
           THEN [state EXCEPT !.memory = BytesOf(destination, value.value, effect.width) @@ @]
           ELSE [state EXCEPT !.registers = (destination.value :> value) @@ @]

\* All effects see the state before.
ExecuteTest(effects, state) ==
  FoldLeft(LAMBDA next, effect : Written(effect, state, next), state, effects)

CollapsedEffects(instruction) ==
  LET effects == InstructionEffects(instruction)
  IN  [i \in DOMAIN effects |->
         [effects[i] EXCEPT !.guard = Collapse(@, instruction),
                            !.destination = Collapse(@, instruction),
                            !.value = Collapse(@, instruction)]]

\* What each instruction of a program does.
ConcreteProgram(program) == [i \in DOMAIN program |-> CollapsedEffects(program[i])]

ExecuteConcrete(concrete, state) ==
  FoldLeft(LAMBDA current, effects : ExecuteTest(effects, current), state, concrete)

(***************************************************************************)
(* generated_effects_meet_state_constraints (superoptimization.rs): which  *)
(* places a generated program may write, and which it has to.  It is       *)
(* judged by how destinations are written, in terms of the first state.    *)
(***************************************************************************)

\* The register that is named, or none.
RegisterDestination(register) ==
  IF register.op \in {"Const", "FixedRegister"} THEN {register.n[1]} ELSE {}

IsStackPointerValue(e) ==
  e.op = "ReadRegister" /\ RegisterDestination(e.args[1]) = {StackPointer}

TwosComplementOffset(v, w) ==
  IF Word(v, w) < 2 ^ (w - 1)
  THEN [direction |-> "upwards", offset |-> Word(v, w)]
  ELSE [direction |-> "downwards", offset |-> 2 ^ w - Word(v, w)]

\* The ways to write the stack pointer and a constant.
StackPointerRelativeOffset(address) ==
  LET Pointer(i) == IsStackPointerValue(address.args[i])
      Offset(i) == TwosComplementOffset(address.args[i].n[1], address.args[i].n[2])
  IN  CASE IsStackPointerValue(address) -> {[direction |-> "upwards", offset |-> 0]}
        [] address.op = "Add" ->
             {Offset(i) : i \in {i \in {1, 2} : Pointer(3 - i) /\ IsConst(address.args[i])}}
        [] address.op = "Sub" ->
             {[direction |-> "downwards", offset |-> address.args[2].n[1]] :
                i \in {i \in {2} : Pointer(1) /\ IsConst(address.args[2])}}
        [] OTHER -> {}

IsAllowedStackScratchAddress(address) ==
  \E relative \in StackPointerRelativeOffset(address) :
    relative.offset \in 1 .. StackSize /\ relative.direction = StackDirection

SameRegister(a, b) ==
  RegisterDestination(a.destination) \cap RegisterDestination(b.destination) # {}

EffectDestinationsMatch(a, b) ==
  /\ a.memory = b.memory
  /\ IF a.memory THEN a.destination = b.destination /\ a.width = b.width ELSE SameRegister(a, b)

BadEffectWriteDestinationIsLegal(effect, originals) ==
  IF effect.memory
  THEN \/ \E b \in ToSet(originals) : b.memory /\ b.destination = effect.destination
       \/ StackPointerRelativeOffset(effect.destination) # {}
  ELSE \/ \E b \in ToSet(originals) : ~b.memory /\ SameRegister(b, effect)
       \/ RegisterDestination(effect.destination) \notin {{}, {StackPointer}}

\* Registers that are dead afterwards may be written, the stack pointer never.
EffectWriteDestinationIsLegal(effect, originals) ==
  LET register == RegisterDestination(effect.destination)
      alike == {b \in ToSet(originals) : b.memory = effect.memory}
  IN  IF effect.memory
      THEN \/ \E b \in alike : b.destination = effect.destination
           \/ IsAllowedStackScratchAddress(effect.destination)
      ELSE \/ \E b \in alike : SameRegister(b, effect)
           \/ register # {} /\ register \cap ({StackPointer} \cup LiveOutRegisters) = {}

GeneratedEffectsMeetStateConstraints(generated, originals) ==
  /\ \A a \in ToSet(originals) : \E b \in ToSet(generated) : EffectDestinationsMatch(a, b)
  /\ \A b \in ToSet(generated) : EffectWriteDestinationIsLegal(b, originals)
================================================================================
