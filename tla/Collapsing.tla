------------------------------- MODULE Collapsing -------------------------------
(***************************************************************************)
(* Expr::collapse (instruction_semantics.rs): the fields and the derived   *)
(* values of a decoded instruction are put into an expression, and what    *)
(* becomes constant is folded.  Order and structure are kept otherwise.    *)
(*                                                                         *)
(* An instruction has the words of its fields and the expressions of its   *)
(* derived values.                                                         *)
(***************************************************************************)
EXTENDS Expressions

(***************************************************************************)
(* What folding computes.  It is written apart from evaluate_expr.         *)
(***************************************************************************)

ConstBits(v, w) == Constant(Word(v, w), w)
Negative(v, w) == Word(v, w) \div 2 ^ (w - 1) = 1
SignedConst(v, w) == IF Negative(v, w) THEN Word(v, w) - 2 ^ w ELSE Word(v, w)

ShiftLeftConst(v, n, w) == IF n >= w THEN 0 ELSE Word(v, w) * 2 ^ n
LogicalShiftRightConst(v, n, w) == IF n >= w THEN 0 ELSE Word(v, w) \div 2 ^ n
ArithmeticShiftRightConst(v, n, w) ==
  IF n < w THEN SignedConst(v, w) \div 2 ^ n
  ELSE IF Negative(v, w) THEN Mask(w)
  ELSE 0
RotateRightConst(v, n, w) ==
  LET shift == n % w
  IN  IF shift = 0 THEN v ELSE (v \div 2 ^ shift) | (v * 2 ^ (w - shift))

SignExtendConst(v, from, to) ==
  IF Negative(v, from) THEN Word(v, from) | (Mask(to) - Mask(from)) ELSE Word(v, from)

AddCarryOutConst(a, b, carry, w) == a + b + carry > Mask(w)
SubCarryOutConst(a, b, borrow, w) == ~(a < b \/ a - b < borrow)
AddOverflowConst(a, b, carry, w) ==
  Negative(a, w) = Negative(b, w) /\ Negative(a, w) # Negative(a + b + carry, w)
SubOverflowConst(a, b, borrow, w) ==
  Negative(a, w) # Negative(b, w) /\ Negative(a, w) # Negative(a - b - borrow, w)

FoldAssocCommConst(op, a, b) ==
  CASE op = "Add" -> a + b
    [] op = "Mul" -> a * b
    [] op = "And" -> a & b
    [] op = "Or" -> a | b
    [] op = "Xor" -> a ^^ b

IsIdentity(op, v, w) ==
  \/ op \in {"Add", "Or", "Xor"} /\ v = 0
  \/ op = "Mul" /\ v = 1
  \/ op = "And" /\ v = Mask(w)

IsAnnihilator(op, v, w) ==
  \/ op \in {"Mul", "And"} /\ v = 0
  \/ op = "Or" /\ v = Mask(w)

(***************************************************************************)
(* Terms of one associative and commutative operator.                      *)
(***************************************************************************)

RECURSIVE FlattenAssocComm(_, _)
FlattenAssocComm(op, e) ==
  IF e.op = op THEN FlattenAssocComm(op, e.args[1]) \o FlattenAssocComm(op, e.args[2]) ELSE <<e>>

FlattenAll(op, terms) == FlattenSeq([i \in DOMAIN terms |-> FlattenAssocComm(op, terms[i])])

\* Left-associated, in the order of the terms.
RebuildAssocComm(op, terms) ==
  FoldLeft(LAMBDA tree, term : Apply(op, <<tree, term>>), Head(terms), Tail(terms))

Constants(terms) == SelectSeq(terms, IsConst)
Variables(terms) == SelectSeq(terms, LAMBDA e : ~IsConst(e))

\* The constants of a nonempty sequence as one.
FoldConstants(op, constants) ==
  FoldLeft(LAMBDA acc, e : ConstBits(FoldAssocCommConst(op, acc.n[1], e.n[1]), e.n[2]),
           ConstBits(constants[1].n[1], constants[1].n[2]), Tail(constants))

\* The terms that are no constants together with the constant of the others.
WithConstant(op, terms, constant) ==
  LET v == constant.n[1]
      w == constant.n[2]
  IN  IF IsAnnihilator(op, v, w) THEN constant
      ELSE IF ~IsIdentity(op, v, w) \/ terms = <<>>
           THEN RebuildAssocComm(op, Append(terms, constant))
      ELSE RebuildAssocComm(op, terms)

CollapseAssocComm(op, args) ==
  LET terms == FlattenAll(op, args)
      constants == Constants(terms)
  IN  IF constants = <<>> THEN RebuildAssocComm(op, terms)
      ELSE WithConstant(op, Variables(terms), FoldConstants(op, constants))

(***************************************************************************)
(* The other operators.                                                    *)
(***************************************************************************)

\* Neighbouring constants become one; what comes first is above.
RebuildConcat(values) ==
  LET Merge(merged, e) ==
        LET last == merged[Len(merged)]
        IN  IF merged # <<>> /\ IsConst(last) /\ IsConst(e)
            THEN Append(Front(merged),
                        ConstBits(last.n[1] * 2 ^ e.n[2] + e.n[1], last.n[2] + e.n[2]))
            ELSE Append(merged, e)
      chunks == FoldLeft(Merge, <<>>, values)
  IN  IF Len(chunks) = 1 THEN chunks[1] ELSE Apply("Concat", chunks)

\* A unary or binary operator over constants v, the first of them w wide.
FoldConst(e, v, w) ==
  CASE e.op = "Sub" -> ConstBits(v[1] - v[2], w)
    [] e.op = "Not" -> ConstBits(Mask(w) - v[1], w)
    [] e.op = "ShiftLeft" -> ConstBits(ShiftLeftConst(v[1], v[2], w), w)
    [] e.op = "LogicalShiftRight" -> ConstBits(LogicalShiftRightConst(v[1], v[2], w), w)
    [] e.op = "ArithmeticShiftRight" -> ConstBits(ArithmeticShiftRightConst(v[1], v[2], w), w)
    [] e.op = "RotateRight" -> ConstBits(RotateRightConst(v[1], v[2], w), w)
    [] e.op = "Equal" -> BoolConst(v[1] = v[2])
    [] e.op = "UnsignedLessThan" -> BoolConst(v[1] < v[2])
    [] e.op = "SignedLessThan" -> BoolConst(SignedConst(v[1], w) < SignedConst(v[2], w))
    [] e.op = "Extract" -> ConstBits(v[1] \div 2 ^ e.n[2], e.n[1] - e.n[2] + 1)
    [] e.op = "CountOnes" -> ConstBits(CountOnes(v[1], w), w)

FoldFlag(op, a, b, flag, w) ==
  CASE op = "AddCarryOut" -> AddCarryOutConst(a, b, flag, w)
    [] op = "AddOverflow" -> AddOverflowConst(a, b, flag, w)
    [] op = "SubCarryOut" -> SubCarryOutConst(a, b, flag, w)
    [] op = "SubOverflow" -> SubOverflowConst(a, b, flag, w)

FoldExtension(op, v, from, to) ==
  IF op = "ZeroExtend" THEN Word(v, from) ELSE SignExtendConst(v, from, to)

\* Each folds a node when all of its children are constants.
AllConst(e) == \A i \in DOMAIN e.args : IsConst(e.args[i])
CollapseOperands(e) ==
  IF AllConst(e)
  THEN FoldConst(e, [i \in DOMAIN e.args |-> Word(e.args[i].n[1], e.args[i].n[2])], e.args[1].n[2])
  ELSE e
CollapseFlag(e) ==
  IF AllConst(e)
  THEN BoolConst(FoldFlag(e.op, e.args[1].n[1], e.args[2].n[1], e.args[3].n[1], e.n[1]))
  ELSE e
CollapseExtension(e) ==
  IF AllConst(e)
  THEN ConstBits(FoldExtension(e.op, e.args[1].n[1], e.args[1].n[2], e.n[1]), e.n[1])
  ELSE e

CollapseSelect(c, t, f) ==
  IF IsConst(c) THEN IF c.n[1] = 1 THEN t ELSE f ELSE SelectOf(c, t, f)

CollapseNode(e) ==
  CASE e.op \in AssocComm -> CollapseAssocComm(e.op, e.args)
    [] e.op = "Concat" -> RebuildConcat(e.args)
    [] e.op = "Select" -> CollapseSelect(e.args[1], e.args[2], e.args[3])
    [] e.op \in Flags -> CollapseFlag(e)
    [] e.op \in Extensions -> CollapseExtension(e)
    [] e.op \in {"Const", "FixedRegister", "ReadRegister", "ReadMemory"} -> e
    [] OTHER -> CollapseOperands(e)

RECURSIVE Collapse(_, _)
Collapse(e, instruction) ==
  CASE e.op = "ImmediateField" ->
         LET field == instruction.fields[e.n[1]] IN Constant(field.value, field.width)
    [] e.op = "RegisterField" ->
         LET field == instruction.fields[e.n[1]] IN FixedRegister(field.value, field.width)
    [] e.op = "DerivedValue" -> Collapse(instruction.derived[e.n[1]], instruction)
    [] OTHER ->
         CollapseNode(WithChildren(e, [i \in DOMAIN Children(e) |-> Collapse(Children(e)[i], instruction)]))
==============================================================================
