-------------------------- MODULE MCSequenceEquivalence --------------------------
(***************************************************************************)
(* Programs over two registers and a flag, and a memory of four bytes of   *)
(* one bit.                                                                *)
(***************************************************************************)
EXTENDS SequenceEquivalence

Register(id, w) == Circuits!RegisterDescription(id, 2, w)
MCRegisters == <<Register(0, 1), Register(1, 2), Register(2, 2)>>

CReg == FixedRegister(0, 2)
XReg == FixedRegister(1, 2)
YReg == FixedRegister(2, 2)
C == ReadRegister(CReg, 1)
X == ReadRegister(XReg, 2)
Y == ReadRegister(YReg, 2)
Always == BoolConst(TRUE)

SetIf(guard, register, value) == WriteRegisterIf(guard, register, value, 2)
StoreIf(guard, address, value, w) == WriteMemoryIf(guard, address, value, w)
Low(e) == ExtractOf(e, 0, 0)

Byte(address) == Extended("ZeroExtend", ReadMemory(address, 1), 2)

\* Y is the stack pointer, which is left alone but for SUBSP.
MCEffectsOf ==
  [MOV   |-> <<SetIf(Always, XReg, Y)>>,
   ADDI  |-> <<SetIf(Always, RegisterField(1), AddExpr(ReadRegister(RegisterField(1), 2), ImmediateField(2)))>>,
   ADDS  |-> <<SetIf(Always, XReg, AddExpr(X, Y)),
               WriteRegisterIf(Always, CReg, FlagOf("AddCarryOut", X, Y, BoolConst(FALSE), 2), 1)>>,
   ADDV  |-> <<SetIf(Always, XReg, AddExpr(Y, X)),
               WriteRegisterIf(Always, CReg, FlagOf("AddOverflow", X, Y, BoolConst(FALSE), 2), 1)>>,
   SUBSP |-> <<SetIf(Always, YReg, AddExpr(Y, Constant(3, 2)))>>,
   MOVCS |-> <<SetIf(C, XReg, Y)>>,
   STRB  |-> <<StoreIf(Always, X, Low(Y), 1)>>,
   STRSP |-> <<StoreIf(Always, Y, NotExpr(Low(X)), 1)>>,
   PUSHB |-> <<StoreIf(Always, AddExpr(Y, Constant(3, 2)), Low(X), 1)>>,
   STRCS |-> <<StoreIf(C, X, Low(Y), 1)>>,
   STRCC |-> <<StoreIf(NotExpr(C), X, BoolConst(TRUE), 1)>>,
   CLRB  |-> <<StoreIf(Always, X, BoolConst(FALSE), 1)>>,
   STR   |-> <<StoreIf(Always, X, Y, 2)>>,
   LDRB  |-> <<SetIf(Always, XReg, Byte(X))>>,
   LDRSP |-> <<SetIf(Always, XReg, Byte(Y))>>,
   LDR   |-> <<SetIf(Always, XReg, ReadMemory(Y, 2))>>]

Plain(name) == [name |-> name, fields |-> <<>>, derived |-> <<>>]
AddI(r, v) == [name |-> "ADDI", fields |-> <<BitWord(r, 2), BitWord(v, 2)>>, derived |-> <<>>]

MCInstructions ==
  {Plain(n) : n \in {"ADDS", "MOVCS", "STRB", "STRSP", "STRCS", "STRCC", "STR", "LDRB", "LDR", "LDRSP"}}
  \cup {AddI(1, 1)}

\* Words are read by programs of two instructions, all others have three.
MCGrown(program) ==
  Len(program) <= IF \E i \in DOMAIN program : program[i].name = "LDR" THEN 2 ELSE 3

Programs(names) == {[i \in DOMAIN n |-> Plain(n[i])] : n \in names}

\* Left programs that read memory, write it, or leave it sometimes.
MCLefts ==
  Programs({<<"LDRSP">>, <<"LDR">>, <<"STRB">>, <<"STRCS">>, <<"STR">>, <<"STRB", "STRSP">>, <<"ADDS">>})

\* Right programs that do the same otherwise, or nearly, and some that write what
\* they may not.
MCRights ==
  Programs({<<"LDRSP">>, <<"LDR">>, <<"LDR", "LDRSP">>, <<"PUSHB", "LDRSP">>, <<"LDRSP", "LDRB">>,
            <<"LDRSP", "LDRB", "LDRB">>, <<"STRB", "LDRSP">>, <<"SUBSP", "LDRSP">>,
            <<"STRB">>, <<"STRCS">>, <<"STRCC", "STRCS">>, <<"CLRB", "STRB">>, <<"STR", "STRB">>,
            <<"STRCS", "STRCC", "STRCS">>, <<"STR">>, <<"STRSP", "STRB">>, <<"STRB", "STRSP">>,
            <<"STRB", "PUSHB">>, <<"STRB", "MOV", "LDRB">>,
            <<"ADDS">>, <<"MOV", "ADDS">>, <<"ADDV">>})
  \cup {<<Plain("STRB"), AddI(1, 1), AddI(1, 3)>>}

MCMemories ==
  {[a \in 0 .. 3 |-> m[a + 1]] : m \in {<<0, 1, 1, 0>>, <<0, 0, 1, 1>>}}
==================================================================================
