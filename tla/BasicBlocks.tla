----------------------------- MODULE BasicBlocks -----------------------------
(***************************************************************************)
(* How program_analysis.rs cuts a decoded program into basic blocks, and   *)
(* which registers it says an instruction reads and writes.                *)
(*                                                                         *)
(* A program is a sequence of instructions, so positions start at 1 where  *)
(* the code's start at 0, and the boundary at the end of the program is    *)
(* Len(p) + 1.  An instruction keeps what the analysis looks at:           *)
(*   effects   its lowered effects, a set of records                       *)
(*               guard  whether the guard is the constant 1, the constant  *)
(*                      0, or an expression                                *)
(*               dest   the fixed register written, as a set of at most    *)
(*                      one register; {} for a memory write                *)
(*               reads  the registers in the guard, the address or         *)
(*                      destination, and the value                         *)
(*   branch    "none", "relative" or "register" (BranchOffset)             *)
(*   offset    the collapsed offset of a relative branch                   *)
(*   static    static_instruction: never to be rewritten                   *)
(***************************************************************************)
EXTENDS Integers, Sequences, FiniteSets

CONSTANTS
  Registers,    \* isa.registers
  BaseAddress,  \* mem_addr of the first instruction
  Stride,       \* bytes from one instruction to the next
  OffsetWidth   \* width in bits of a branch offset

ASSUME AddressAssumption ==
  /\ BaseAddress \in Nat
  /\ Stride \in Nat \ {0}
  /\ OffsetWidth \in Nat

ASSUME FiniteRegistersAssumption == IsFiniteSet(Registers)

Guards == {"always", "never", "sometimes"}
Branches == {"none", "relative", "register"}

Positions(p) == 1 .. Len(p)

IsProgram(p) ==
  /\ Len(p) \in Nat /\ DOMAIN p = Positions(p)
  /\ \A i \in Positions(p) : \A e \in p[i].effects :
       e.dest \subseteq Registers /\ e.reads \subseteq Registers

(***************************************************************************)
(* Registers read and written by one instruction.                          *)
(***************************************************************************)

\* An effect whose guard is the constant 0 reads nothing at all.
InstructionReads(i) ==
  UNION {e.reads : e \in {f \in i.effects : f.guard # "never"}}

\* Only a write whose guard is the constant 1 counts as a write.
InstructionWrites(i) ==
  UNION {e.dest : e \in {f \in i.effects : f.guard = "always"}}

(***************************************************************************)
(* Branch targets.                                                         *)
(***************************************************************************)

MemAddr(i) == BaseAddress + (i - 1) * Stride

Masked(n) == n % 2^OffsetWidth

\* mem_addr and offset are masked to the width of the offset, added, and the
\* sum is masked again.
TargetAddress(p, i) == Masked(Masked(MemAddr(i)) + Masked(p[i].offset))

AtTarget(p, i) == {j \in Positions(p) : MemAddr(j) = TargetAddress(p, i)}

\* instruction_index_by_mem_addr panics when no instruction has that address.
Resolves(p, i) == AtTarget(p, i) # {}

AnalysisPanics(p) ==
  \E i \in Positions(p) : p[i].branch = "relative" /\ ~Resolves(p, i)

TargetIndex(p, i) ==
  CHOOSE j \in AtTarget(p, i) : \A k \in AtTarget(p, i) : j <= k

(***************************************************************************)
(* Block boundaries: from_program, and the split at every instruction.     *)
(***************************************************************************)

StaticBoundaries(p) ==
  UNION {{i, i + 1} : i \in {j \in Positions(p) : p[j].static}}

BadBranchBoundaries(p) == {i \in Positions(p) : p[i].branch # "none"}
BranchBoundaries(p) ==
  {i + 1 : i \in {j \in Positions(p) : p[j].branch # "none"}}

TargetBoundaries(p) ==
  {TargetIndex(p, i) : i \in {j \in Positions(p) : p[j].branch = "relative"}}

Boundaries(p) ==
  {1, Len(p) + 1} \cup StaticBoundaries(p) \cup BranchBoundaries(p)
    \cup TargetBoundaries(p)

SplitBoundaries(p) == 1 .. Len(p) + 1

(***************************************************************************)
(* from_program_with_boundaries: one block for each window of two          *)
(* neighbouring boundaries.  A block runs from start to finish - 1.        *)
(***************************************************************************)

BadUpwardExposed(p, s, e) == UNION {InstructionReads(p[i]) : i \in s .. e - 1}

\* Registers read in positions s .. e - 1 before the block itself wrote them.
UpwardExposed(p, s, e) ==
  UNION {InstructionReads(p[i])
           \ UNION {InstructionWrites(p[j]) : j \in s .. i - 1} : i \in s .. e - 1}

ConsumedIn(p, s, e) == UNION {InstructionWrites(p[i]) : i \in s .. e - 1}

\* A branch to a register makes every register live when the block is left.
ExitRegisters(p, s, e) ==
  IF \E i \in s .. e - 1 : p[i].branch = "register" THEN Registers ELSE {}

SuccessorPositions(p, s, e) ==
  (IF e = Len(p) + 1 THEN {} ELSE {e})
    \cup {TargetIndex(p, i) : i \in {j \in s .. e - 1 : p[j].branch = "relative"}}

\* The boundaries in ascending order: the k-th has k - 1 smaller ones.
SortedBoundaries(b) ==
  [k \in 1 .. Cardinality(b) |->
     CHOOSE i \in b : Cardinality({j \in b : j < i}) = k - 1]

\* next is first made of positions and turned into block indices at the end.
BlockIndex(cut, i) == CHOOSE b \in 1 .. Len(cut) - 1 : cut[b] = i

\* The blocks in program order.
BlocksBetween(p, boundaries) ==
  LET cut == SortedBoundaries(boundaries)
  IN  [b \in 1 .. Len(cut) - 1 |->
        LET s == cut[b]
            e == cut[b + 1]
        IN  [start    |-> s,
             finish   |-> e,
             read     |-> UpwardExposed(p, s, e),
             consumed |-> ConsumedIn(p, s, e),
             exit     |-> ExitRegisters(p, s, e),
             next     |-> {BlockIndex(cut, i) : i \in SuccessorPositions(p, s, e)}]]
==============================================================================
