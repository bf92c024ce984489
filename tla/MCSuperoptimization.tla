------------------------- MODULE MCSuperoptimization -------------------------
(***************************************************************************)
(* Searches for a replacement of a register move, and of a load, over a    *)
(* restricted instruction set.                                             *)
(***************************************************************************)
EXTENDS Superoptimization

CONSTANTS r0, r1, sp, unused

MCReg(r, offset) == [base |-> r, offset |-> Wrap(offset), bytes |-> 0]
MCConst(n) == MCReg(NoRegister, n)
MCSet(r, value) == <<[guard |-> MCConst(1), register |-> r, value |-> value]>>
MCLoad(r, address) ==
  MCSet(r, [base |-> address, offset |-> 0, bytes |-> 1])

MCStore(address, r) ==
  <<[guard |-> MCConst(1), address |-> address, bytes |-> 1, value |-> MCReg(r, 0)]>>

MCEffects ==
  [MOV    |-> MCSet(r0, MCReg(r1, 0)),
   ADD1   |-> MCSet(r0, MCReg(r1, 1)),
   SUB1   |-> MCSet(r0, MCReg(r0, -1)),
   READSP |-> MCSet(r0, MCReg(sp, 0)),
   STRB   |-> MCStore(MCReg(r1, 0), r0),
   LDRB   |-> MCLoad(r0, r1),
   LDRB1  |-> MCLoad(r1, r1)]

Memory(b) == [a \in Word |-> (a + b) % 2]
Files(r0s, r1s) == {f \in [Registers -> Word] : f[r0] \in r0s /\ f[r1] \in r1s /\ f[sp] = 1}

\* A register move that is to be replaced by additions.
MoveOriginal == <<MCEffects.MOV>>
MoveFieldVariants ==
  [ADD1 |-> {"MOV", "SUB1"}, SUB1 |-> {"ADD1"}, READSP |-> {"MOV"}, STRB |-> {}]
MoveStates == [registers : Files({0, 2}, {1, 3}), memory : {Memory(0)}]
MoveRandomFiles == Files({1}, {1, 2})

\* A load that is to be replaced by a load into another register, and a move.
LoadOriginal == <<MCEffects.LDRB>>
LoadFieldVariants == [LDRB1 |-> {"LDRB"}, MOV |-> {"MOV"}]
LoadStates == [registers : Files({0, 2}, {0, 1}), memory : {Memory(0), Memory(1)}]
LoadRandomFiles == Files({0, 1}, {2, 3})
=============================================================================
