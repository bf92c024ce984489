--------------------------- MODULE ExpressionCircuits ---------------------------
(***************************************************************************)
(* The circuits BddManager makes of the operators of Expr                  *)
(* (semantic_matching.rs).  A bit is a Boolean, as a BDD is under one      *)
(* assignment of its variables, and a word is a sequence of bits whose     *)
(* first is the least significant one.                                     *)
(***************************************************************************)
EXTENDS Expressions

Zeros(w) == [i \in 1 .. w |-> FALSE]
LowerConstant(v, w) == [i \in 1 .. w |-> (v \div 2 ^ (i - 1)) % 2 = 1]

MuxBit(c, t, f) == IF c THEN t ELSE f
MuxWord(c, t, f) == [i \in DOMAIN t |-> MuxBit(c, t[i], f[i])]

\* Halves the vector of registers with every selector bit.
LowerRegisterRead(selector, registers) ==
  LET Layer[k \in 0 .. Len(selector)] ==
        IF k = 0 THEN registers
        ELSE [i \in 1 .. Len(registers) \div 2 ^ k |->
                MuxWord(selector[k], Layer[k - 1][2 * i], Layer[k - 1][2 * i - 1])]
  IN  Layer[Len(selector)][1]

FullAdder(a, b, c) == [sum |-> (a # b) # c, carry |-> (a /\ b) \/ ((a # b) /\ c)]

\* The carry into bit i + 1.
Carries(a, b, c, w) ==
  LET Carry[i \in 0 .. w] == IF i = 0 THEN c ELSE FullAdder(a[i], b[i], Carry[i - 1]).carry
  IN  Carry

BadAdder(a, b, c, w) ==
  [word |-> [i \in 1 .. w |-> FullAdder(a[i], b[i], c).sum], carry |-> c]

Adder(a, b, c, w) ==
  LET carry == Carries(a, b, c, w)
  IN  [word |-> [i \in 1 .. w |-> FullAdder(a[i], b[i], carry[i - 1]).sum], carry |-> carry[w]]

LowerAdd(a, b) == Adder(a, b, FALSE, Len(a)).word

ShiftLeftConst(v, n) == [i \in DOMAIN v |-> i > n /\ v[i - n]]

ShiftRightConst(v, n, fill) == [i \in DOMAIN v |-> IF i + n <= Len(v) THEN v[i + n] ELSE fill]
ShiftLogicalRightConst(v, n) == ShiftRightConst(v, n, FALSE)
ShiftArithRightConst(v, n) == ShiftRightConst(v, n, v[Len(v)])

RotateRightConst(v, n) == [i \in DOMAIN v |-> v[((i - 1 + n) % Len(v)) + 1]]

MaskWord(c, v) == [i \in DOMAIN v |-> v[i] /\ c]

LowerMul(a, b) ==
  LET Sum[i \in 0 .. Len(a)] ==
        IF i = 0 THEN Zeros(Len(a))
        ELSE LowerAdd(Sum[i - 1], MaskWord(b[i], ShiftLeftConst(a, i - 1)))
  IN  Sum[Len(a)]

LowerAnd(a, b) == [i \in DOMAIN a |-> a[i] /\ b[i]]
LowerNot(a) == [i \in DOMAIN a |-> ~a[i]]

ShiftConst(kind, v, n) ==
  CASE kind = "left" -> ShiftLeftConst(v, n)
    [] kind = "logical right" -> ShiftLogicalRightConst(v, n)
    [] kind = "arithmetic right" -> ShiftArithRightConst(v, n)

\* Bit k of the amount, from 0, shifts by 2^k or not; the stages of a rotation
\* take 2^k modulo the width and skip 0, which does nothing.
BarrelShifter(v, amount, kind) ==
  LET Stage[k \in 0 .. Len(amount)] ==
        IF k = 0 THEN v ELSE MuxWord(amount[k], ShiftConst(kind, Stage[k - 1], 2 ^ (k - 1)), Stage[k - 1])
  IN  Stage[Len(amount)]

LowerShiftLeft(v, amount) == BarrelShifter(v, amount, "left")
LowerLogicalShiftRight(v, amount) == BarrelShifter(v, amount, "logical right")
LowerArithmeticShiftRight(v, amount) == BarrelShifter(v, amount, "arithmetic right")

RotateRightShiftForBit(w, k) ==
  LET Shift[j \in 0 .. k] == IF j = 0 THEN 1 % w ELSE (Shift[j - 1] * 2) % w
  IN  Shift[k]

LowerRotateRight(v, amount) ==
  LET Stage[k \in 0 .. Len(amount)] ==
        IF k = 0 THEN v
        ELSE MuxWord(amount[k],
                     RotateRightConst(Stage[k - 1], RotateRightShiftForBit(Len(v), k - 1)),
                     Stage[k - 1])
  IN  Stage[Len(amount)]

LowerEqual(a, b) == <<\A i \in DOMAIN a : a[i] = b[i]>>

\* From the most significant bit down, whether both words agree so far, and
\* whether the first difference made a the smaller one.
Compared(a, b, equal, less, from) ==
  LET At[i \in 0 .. from] ==
        IF i = 0 THEN [equal |-> equal, less |-> less]
        ELSE LET k == from + 1 - i
             IN  [equal |-> At[i - 1].equal /\ a[k] = b[k],
                  less |-> At[i - 1].less \/ (~a[k] /\ b[k] /\ At[i - 1].equal)]
  IN  At[from]

LowerUnsignedLt(a, b) == <<Compared(a, b, TRUE, FALSE, Len(a)).less>>

\* A set sign bit makes a word the smaller one.
LowerSignedLt(a, b) ==
  LET w == Len(a)
  IN  <<Compared(a, b, a[w] = b[w], a[w] /\ ~b[w], w - 1).less>>

LowerExtract(v, high, low) == SubSeq(v, low + 1, high + 1)
LowerConcat(words) == FlattenSeq(Reverse(words))
LowerZeroExtend(v, to) == v \o Zeros(to - Len(v))
LowerSignExtend(v, to) == v \o [i \in 1 .. to - Len(v) |-> v[Len(v)]]

LowerCountOnes(v) ==
  LET Count[i \in 0 .. Len(v)] ==
        IF i = 0 THEN Zeros(Len(v))
        ELSE LowerAdd(Count[i - 1], LowerZeroExtend(<<v[i]>>, Len(v)))
  IN  Count[Len(v)]

LowerAddCout(a, b, c, w) == <<Adder(a, b, c[1], w).carry>>

LowerAddOverflow(a, b, c, w) ==
  LET result == Adder(a, b, c[1], w).word
  IN  <<a[w] = b[w] /\ a[w] # result[w]>>

(***************************************************************************)
(* try_lower_expression: the circuit of a canonical term.  variables has   *)
(* the bits of registers, by their description, and of memory reads, by    *)
(* address term and width.                                                 *)
(***************************************************************************)

RegisterDescription(r, identifierWidth, w) ==
  [identifier |-> r, identifierWidth |-> identifierWidth, width |-> w]

\* A register there are no variables for reads as zeros.
RegisterTable(identifierWidth, w, registers) ==
  [i \in 1 .. 2 ^ identifierWidth |->
     LET register == RegisterDescription(i - 1, identifierWidth, w)
     IN  IF register \in DOMAIN registers THEN registers[register] ELSE Zeros(w)]

RECURSIVE LowerExpression(_, _)
LowerExpression(e, variables) ==
  LET v == [i \in DOMAIN e.args |-> LowerExpression(e.args[i], variables)]
  IN  CASE e.op \in {"Const", "FixedRegister"} -> LowerConstant(e.n[1], e.n[2])
        [] e.op = "ReadRegister" ->
             LowerRegisterRead(v[1], RegisterTable(Len(v[1]), e.n[1], variables.registers))
        [] e.op = "ReadMemory" -> variables.reads[<<e.args[1], e.n[1]>>]
        [] e.op = "Add" -> LowerAdd(v[1], v[2])
        [] e.op = "Mul" -> LowerMul(v[1], v[2])
        [] e.op = "And" -> LowerAnd(v[1], v[2])
        [] e.op = "Not" -> LowerNot(v[1])
        [] e.op = "ShiftLeft" -> LowerShiftLeft(v[1], v[2])
        [] e.op = "LogicalShiftRight" -> LowerLogicalShiftRight(v[1], v[2])
        [] e.op = "ArithmeticShiftRight" -> LowerArithmeticShiftRight(v[1], v[2])
        [] e.op = "RotateRight" -> LowerRotateRight(v[1], v[2])
        [] e.op = "Equal" -> LowerEqual(v[1], v[2])
        [] e.op = "UnsignedLessThan" -> LowerUnsignedLt(v[1], v[2])
        [] e.op = "SignedLessThan" -> LowerSignedLt(v[1], v[2])
        [] e.op = "Extract" -> LowerExtract(v[1], e.n[1], e.n[2])
        [] e.op = "Concat" -> LowerConcat(v)
        [] e.op = "ZeroExtend" -> LowerZeroExtend(v[1], e.n[1])
        [] e.op = "SignExtend" -> LowerSignExtend(v[1], e.n[1])
        [] e.op = "CountOnes" -> LowerCountOnes(v[1])
        [] e.op = "AddCarryOut" -> LowerAddCout(v[1], v[2], v[3], e.n[1])
        [] e.op = "AddOverflow" -> LowerAddOverflow(v[1], v[2], v[3], e.n[1])

\* No other operator is left in a canonical term.
LoweredOperators ==
  {"Const", "FixedRegister", "ReadRegister", "ReadMemory", "Add", "Mul", "And", "Not", "Extract",
   "Concat", "CountOnes", "AddCarryOut", "AddOverflow"} \cup Shifts \cup Comparisons \cup Extensions

ValueOf(bits) ==
  LET Sum[i \in 0 .. Len(bits)] ==
        IF i = 0 THEN 0 ELSE Sum[i - 1] + (IF bits[i] THEN 2 ^ (i - 1) ELSE 0)
  IN  Sum[Len(bits)]
===============================================================================
