------------------------- MODULE MCSolverEquivalence -------------------------
(***************************************************************************)
(* Pairs of an original instruction and a generated program that grows one *)
(* instruction at a time, over a small instruction set.                    *)
(***************************************************************************)
EXTENDS SolverEquivalence, IllegalReads

CONSTANTS
  r0, r1, sp,
  MaxLength,
  Originals,     \* names of original instructions
  Generated      \* names of the instructions of generated programs

Reg(r, offset) == [base |-> r, offset |-> Wrap(offset), bytes |-> 0]
Const(n) == Reg(NoRegister, n)
Load(r, offset, bytes) == [base |-> r, offset |-> Wrap(offset), bytes |-> bytes]
SetWhen(guard, r, value) == [guard |-> guard, register |-> r, value |-> value]
Set(r, value) == SetWhen(Const(1), r, value)
StoreWhen(guard, address, bytes, value) ==
  [guard |-> guard, address |-> address, bytes |-> bytes, value |-> value]
Store(address, bytes, value) == StoreWhen(Const(1), address, bytes, value)

Instruction ==
  [MOV     |-> <<Set(r0, Reg(r1, 0))>>,
   MOV1    |-> <<Set(r1, Reg(r0, 0))>>,
   CONST   |-> <<Set(r0, Const(1))>>,
   NEVER   |-> <<SetWhen(Const(0), r0, Reg(r1, 0))>>,
   LDRB    |-> <<Set(r0, Load(r1, 0, 1))>>,
   LDR     |-> <<Set(r1, Load(r0, 0, 2))>>,
   STRB    |-> <<Store(Reg(r0, 0), 1, Reg(r1, 0))>>,
   STREQ   |-> <<StoreWhen(Reg(r0, 0), Reg(r0, 1), 1, Reg(r1, 0))>>,
   STR     |-> <<Store(Reg(r0, 0), 2, Reg(r1, 0))>>,
   PUSHB   |-> <<Store(Reg(Sp, -1), 1, Reg(r1, 0))>>,
   POPB    |-> <<Set(r0, Load(Sp, -1, 1))>>,
   SPILL   |-> <<Store(Reg(Sp, -1), 2, Reg(r1, 0))>>,
   FILL    |-> <<Set(r0, Load(Sp, -1, 2))>>,
   SUBSP   |-> <<Set(Sp, Reg(Sp, -1))>>,
   ADDSP   |-> <<Set(Sp, Reg(Sp, 1))>>,
   SWP     |-> <<Set(r0, Reg(r1, 0)), Set(r1, Reg(r0, 0))>>]

ASSUME PairsAssumption ==
  /\ {r0, r1} \subseteq Registers /\ MaxLength \in Nat
  /\ (Originals \cup Generated) \subseteq DOMAIN Instruction

\* Memories that tell addresses and the bytes of a word apart.
Memories == {[a \in Word |-> m[(a % 4) + 1]] : m \in {<<0, 0, 0, 0>>, <<1, 0, 1, 1>>, <<0, 1, 1, 0>>}}
States == {[registers |-> f, memory |-> m] : f \in [Registers -> Word], m \in Memories}

VARIABLES original, generated

PairInit == original \in {<<Instruction[n]>> : n \in Originals} /\ generated = <<>>

Grow ==
  /\ Len(generated) < MaxLength
  /\ \E n \in Generated : generated' = Append(generated, Instruction[n])
  /\ UNCHANGED original

PairSpec == PairInit /\ [][Grow]_<<original, generated>>

(***************************************************************************)
(* The solver and the comparison.                                          *)
(***************************************************************************)

CostOfModel(s) ==
  LET m == ModelState(original, generated, s)
  IN  EqualityCost(generated, m, Execute(original, m))

\* The counterexample that the solver's model is cut down to still tells the two
\* programs apart when it is executed and compared: the assertion of
\* decide_proposal_acceptance_timed cannot fail.
ModelRefutes == \A s \in States : Differ(original, generated, s) => CostOfModel(s) > 0

Equal == \A s \in States : ~Differ(original, generated, s)

\* Two programs that the solver finds equal are at no distance on any state cut
\* down like a counterexample, if the generated one stores nothing in the stack.
EffectsOf(p) == UNION {ToSet(p[i]) : i \in DOMAIN p}
ScratchStores(p) == {e \in EffectsOf(p) : ~WritesRegister(e) /\ ScratchAddress(e.address)}
MovesSp(p) == \E e \in EffectsOf(p) : WritesRegister(e) /\ e.register = Sp
EqualIsNoDistance ==
  ScratchStores(generated) = {} /\ Equal
    => \A s \in States : CostOfModel(s) = 0

\* What the test on counterexamples and scratch writes says: the comparison of
\* the results of a counterexample ignores the bytes that a program leaves in the
\* stack region. Here for a stack that does not wrap around.
ScratchIsIgnored ==
  /\ ~MovesSp(generated) /\ Equal
  /\ \A e \in ScratchStores(generated) : e.bytes = 1
  => \A s \in {t \in States : t.registers[Sp] >= StackSize} : CostOfModel(s) = 0

\* What the test of the stack scratch policy says: a generated program that
\* writes memory of its own outside of the stack is not equal to the original.
EqualWritesNoMemory ==
  Equal => \A s \in States : \A a \in Word \ Stores(original, s, "left") :
             s.registers[Sp] >= StackSize /\ ~StackScratch(a, s.registers[Sp])
               => Execute(generated, s).memory[a] = s.memory[a]

(***************************************************************************)
(* Illegal reads.                                                          *)
(***************************************************************************)

Unguarded(p) == \A e \in EffectsOf(p) : e.guard \in {Const(0), Const(1)}
ReadsWhatItWrites(instruction) ==
  \E m, n \in DOMAIN instruction :
    /\ m < n
    /\ RegisterWrites(instruction[m]) \cap RegisterReads(instruction[n]) # {}

Known == OriginalRegisters(original) \cup {Sp}
Written(p) == UNION {RegisterWrites(EffectAt(p, at)) : at \in Places(p)}

\* The registers that the original program does not read have no influence on
\* what the generated program writes.
Uninfluenced ==
  \A s \in States : \A r \in Registers \ Known : \A v \in Word :
    LET a == Execute(generated, s)
        b == Execute(generated, [s EXCEPT !.registers[r] = v])
    IN  /\ a.memory = b.memory
        /\ \A q \in Written(generated) : a.registers[q] = b.registers[q]

\* A program without conditional writes and without illegal reads computes from
\* what the original reads and from the stack pointer alone, if no instruction
\* of it reads what it writes.
LegalReadsSuffice ==
  /\ IllegalReadCount(generated, original) = 0
  /\ Unguarded(generated) /\ ~\E i \in DOMAIN generated : ReadsWhatItWrites(generated[i])
  => Uninfluenced

\* The comment of generated_sequence_meets_state_constraints: a read is legal
\* only if the original reads the same state, or an earlier write of the
\* generated program has given it its value.
LegalOnlyIfKnown ==
  IllegalReadCount(generated, original) = 0 /\ Unguarded(generated) => Uninfluenced

\* The comment of WEIGHT_ILLEGAL_READ: a location that the program has written so
\* far is not penalised. Here a load of the very word that was stored.
WrittenIsLegal ==
  \A i \in DOMAIN generated : i > 1 =>
    (generated[i] = Instruction.FILL /\ generated[i - 1] = Instruction.SPILL
       => IllegalReadCount(SubSeq(generated, 1, i), original)
            = IllegalReadCount(SubSeq(generated, 1, i - 1), original))
=============================================================================
