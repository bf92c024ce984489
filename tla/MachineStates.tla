---------------------------- MODULE MachineStates ----------------------------
(***************************************************************************)
(* What semantic_matching.rs says a program does: the concrete execution   *)
(* of a program on a machine state, the distance between two results, and  *)
(* the differences the solver looks for between two programs.              *)
(*                                                                         *)
(* A machine state is a value for every register and a partial function    *)
(* from addresses to bytes. The solver's states are those whose memory is  *)
(* total. A register holds two bytes, and an address is what a register    *)
(* holds.                                                                  *)
(*                                                                         *)
(* An expression [base, offset, bytes] is the value of a register (or 0    *)
(* for NoRegister) plus a constant; when bytes is not 0, it is the value   *)
(* of that many bytes of memory at that address. An effect has a guard, an *)
(* expression that must not be 0, and writes either a register or          *)
(* memory: [guard, register, value] or [guard, address, bytes, value]. An  *)
(* instruction is a sequence of effects that happen at once, and a program *)
(* a sequence of instructions: the slots in use.                           *)
(***************************************************************************)
EXTENDS Integers, Sequences, FiniteSetsExt, SequencesExt, Functions

CONSTANTS
  Registers,
  NoRegister,
  Sp,              \* isa.sp.register
  StackSize,       \* isa.sp.stack_size
  StackGrows,      \* isa.sp.direction: "downwards" or "upwards"
  LiveOut,         \* live_out_registers
  ByteBits,        \* 8 in the code
  ExtraWrite,      \* WEIGHT_EXTRA_WRITE
  Mismatch         \* WEIGHT_REGISTER_MISMATCH

ASSUME MachineAssumption ==
  /\ LiveOut \subseteq Registers /\ Sp \in Registers /\ NoRegister \notin Registers
  /\ StackGrows \in {"downwards", "upwards"}
  /\ IsFiniteSet(Registers)
  /\ {StackSize, ExtraWrite} \subseteq Nat /\ {Mismatch, ByteBits} \subseteq Nat \ {0}

Byte == 0 .. 2 ^ ByteBits - 1
Word == 0 .. 2 ^ (2 * ByteBits) - 1
Wrap(n) == n % 2 ^ (2 * ByteBits)

MachineState == [registers : [Registers -> Word], memory : UNION {[A -> Byte] : A \in SUBSET Word}]
TotalState == [registers : [Registers -> Word], memory : [Word -> Byte]]

Expression == [base : Registers \cup {NoRegister}, offset : Word, bytes : 0 .. 2]
RegisterEffect == [guard : Expression, register : Registers, value : Expression]
MemoryEffect ==
  [guard : Expression, address : {x \in Expression : x.bytes = 0}, bytes : 1 .. 2,
   value : Expression]
Effect == RegisterEffect \cup MemoryEffect
Instructions == Seq(Effect)

WritesRegister(e) == "register" \in DOMAIN e

(***************************************************************************)
(* Execution.                                                              *)
(***************************************************************************)

Address(e, s) == Wrap((IF e.base = NoRegister THEN 0 ELSE s.registers[e.base]) + e.offset)
Cells(a, bytes) == {Wrap(a + k) : k \in 0 .. bytes - 1}

\* The value of an expression, as a set of at most one value: none where a byte
\* that it reads is missing from the state. The first byte is the least
\* significant one.
Evaluate(e, s) ==
  LET a == Address(e, s)
      high == IF e.bytes = 2 THEN s.memory[Wrap(a + 1)] ELSE 0
  IN  CASE e.bytes = 0 -> {a}
        [] e.bytes > 0 /\ ~(Cells(a, e.bytes) \subseteq DOMAIN s.memory) -> {}
        [] OTHER -> {s.memory[a] + high * 2 ^ ByteBits}

\* Memory after a store of v at a.
Stored(memory, a, bytes, v) ==
  LET Part(c) ==
        LET k == CHOOSE k \in 0 .. bytes - 1 : Wrap(a + k) = c
        IN  (v \div 2 ^ (ByteBits * k)) % 2 ^ ByteBits
  IN  [c \in DOMAIN memory \cup Cells(a, bytes) |->
         IF c \in Cells(a, bytes) THEN Part(c) ELSE memory[c]]

\* An effect reads the state before its instruction and adds to the state after
\* it. An effect whose guard or value is missing does nothing.
Apply(e, before, after) ==
  LET happens == \E g \in Evaluate(e.guard, before) : g # 0
      values == Evaluate(e.value, before)
      v == CHOOSE v \in values : TRUE
  IN  CASE ~happens \/ values = {} -> after
        [] happens /\ values # {} /\ WritesRegister(e) ->
             [after EXCEPT !.registers[e.register] = v]
        [] OTHER ->
             [after EXCEPT !.memory = Stored(@, Address(e.address, before), e.bytes, v)]

\* The state after each effect of an instruction.
Effected(instruction, s) ==
  LET After[j \in 0 .. Len(instruction)] ==
        IF j = 0 THEN s ELSE Apply(instruction[j], s, After[j - 1])
  IN  After
Step(instruction, s) == Effected(instruction, s)[Len(instruction)]

\* The state after each instruction of a program.
Run(p, s) ==
  LET After[i \in 0 .. Len(p)] == IF i = 0 THEN s ELSE Step(p[i], After[i - 1])
  IN  After
Execute(p, s) == Run(p, s)[Len(p)]

(***************************************************************************)
(* MachineState::compare: the distance of another state from the desired   *)
(* one. Every register has a value in both, so a register that only one of *)
(* them has is left out.                                                   *)
(***************************************************************************)

\* The bits in which two values differ, and their number.
DifferentBits(v, w) == {k \in 0 .. 2 * ByteBits - 1 : (v \div 2 ^ k) % 2 # (w \div 2 ^ k) % 2}
Hamming(v, w) == Cardinality(DifferentBits(v, w))

\* The right value in the wrong register is better than a wrong value: a register
\* is compared with the nearest one. A sum is counted as a set of pairs.
RegisterCost(desired, other) ==
  LET Distance(r, q) == Hamming(desired.registers[r], other.registers[q])
      Lowest(r) == Min({Distance(r, q) : q \in LiveOut})
      wrong == UNION {{r} \X (1 .. Lowest(r)) : r \in LiveOut}
      misplaced == {r \in LiveOut : Distance(r, r) # Lowest(r)}
  IN  Cardinality(wrong) + Mismatch * Cardinality(misplaced)

\* memory_location_is_stack_scratch: the stack does not wrap around.
StackScratch(a, sp) ==
  CASE StackGrows = "downwards" -> sp >= StackSize /\ a \in sp - StackSize .. sp - 1
    [] StackGrows = "upwards"   -> a \in sp + 1 .. sp + StackSize

MemoryCost(desired, other, sp) ==
  LET both == DOMAIN desired.memory \cap DOMAIN other.memory
      missing == DOMAIN desired.memory \ DOMAIN other.memory
      extra == {a \in DOMAIN other.memory \ DOMAIN desired.memory : ~StackScratch(a, sp)}
      wrong == UNION {{a} \X DifferentBits(desired.memory[a], other.memory[a]) : a \in both}
  IN  Cardinality(wrong) + (ByteBits + ExtraWrite) * Cardinality(missing \cup extra)

Compare(desired, other, sp) == MemoryCost(desired, other, sp) + RegisterCost(desired, other)

\* equality_cost of a program on a test.
EqualityCost(p, state, desired) == Compare(desired, Execute(p, state), state.registers[Sp])
=============================================================================
