------------------------------ MODULE Expressions ------------------------------
(***************************************************************************)
(* Expr (instruction_semantics.rs) as terms, its widths, and evaluate_expr *)
(* (semantic_matching.rs).                                                 *)
(*                                                                         *)
(* A term has an operator, the numbers that belong to the node (a constant *)
(* and its width, the bounds of an extraction, the width of a read) and    *)
(* its children.  Fields of an instruction and derived values are numbered.*)
(***************************************************************************)
EXTENDS WordOperations, SequencesExt

Expr(op, n, args) == [op |-> op, n |-> n, args |-> args]

Children(e) == e.args
WithChildren(e, children) == [e EXCEPT !.args = children]

Constant(v, w) == Expr("Const", <<v, w>>, <<>>)
BoolConst(b) == Constant(Truth(b), 1)
ImmediateField(f) == Expr("ImmediateField", <<f>>, <<>>)
RegisterField(f) == Expr("RegisterField", <<f>>, <<>>)
DerivedValue(d) == Expr("DerivedValue", <<d>>, <<>>)
FixedRegister(r, w) == Expr("FixedRegister", <<r, w>>, <<>>)
ReadRegister(r, w) == Expr("ReadRegister", <<w>>, <<r>>)
ReadMemory(a, w) == Expr("ReadMemory", <<w>>, <<a>>)
Apply(op, args) == Expr(op, <<>>, args)
AddExpr(a, b) == Apply("Add", <<a, b>>)
AndExpr(a, b) == Apply("And", <<a, b>>)
OrExpr(a, b) == Apply("Or", <<a, b>>)
NotExpr(a) == Apply("Not", <<a>>)
EqualExpr(a, b) == Apply("Equal", <<a, b>>)
SelectOf(c, t, f) == Apply("Select", <<c, t, f>>)
ExtractOf(a, high, low) == Expr("Extract", <<high, low>>, <<a>>)
Extended(op, a, to) == Expr(op, <<to>>, <<a>>)
FlagOf(op, a, b, flag, w) == Expr(op, <<w>>, <<a, b, flag>>)

AssocComm == {"Add", "Mul", "And", "Or", "Xor"}
Shifts == {"ShiftLeft", "LogicalShiftRight", "ArithmeticShiftRight", "RotateRight"}
Comparisons == {"Equal", "UnsignedLessThan", "SignedLessThan"}
Flags == {"AddCarryOut", "AddOverflow", "SubCarryOut", "SubOverflow"}
Extensions == {"ZeroExtend", "SignExtend"}

IsConst(e) == e.op = "Const"

\* The code panics, for instance for want of an operand.
Panic == Expr("Panic", <<>>, <<>>)

(***************************************************************************)
(* Widths.  A width that is not known before fields are resolved, or that  *)
(* does not exist because operands disagree, is 0.                         *)
(***************************************************************************)

SumOf(numbers) == FoldLeft(LAMBDA a, b : a + b, 0, numbers)

RECURSIVE ExprWidth(_)
ExprWidth(e) ==
  LET widths == [i \in DOMAIN e.args |-> ExprWidth(e.args[i])]
      Agreed(i, j) == IF widths[i] = widths[j] THEN widths[i] ELSE 0
  IN  CASE e.op \in {"Const", "FixedRegister"} -> e.n[2]
        [] e.op \in {"ReadRegister", "ReadMemory"} \cup Extensions -> e.n[1]
        [] e.op \in AssocComm \cup Shifts \cup {"Sub"} -> Agreed(1, 2)
        [] e.op \in {"Not", "CountOnes"} -> widths[1]
        [] e.op \in Comparisons \cup Flags -> 1
        [] e.op = "Extract" -> e.n[1] - e.n[2] + 1
        [] e.op = "Concat" -> IF \E i \in DOMAIN widths : widths[i] = 0 THEN 0 ELSE SumOf(widths)
        [] e.op = "Select" -> Agreed(2, 3)
        [] OTHER -> 0

(***************************************************************************)
(* Values.  A state has the words of registers and the bytes of memory it  *)
(* knows; None is the value of what cannot be evaluated in it.             *)
(***************************************************************************)

BitWord(v, w) == [value |-> Word(v, w), width |-> w]
None == [value |-> 0, width |-> 0]

CONSTANT ByteBits  \* 8 in the code

\* Little-endian, at addresses that wrap at their width.
ByteAddress(address, i) == Word(address.value + i, address.width)

ReadConcreteMemory(state, address, w) ==
  LET count == w \div ByteBits
      Sum[i \in 0 .. count] ==
        IF i = 0 THEN 0
        ELSE Sum[i - 1] + state.memory[ByteAddress(address, i - 1)] * 2 ^ (ByteBits * (i - 1))
  IN  IF \E i \in 0 .. count - 1 : ByteAddress(address, i) \notin DOMAIN state.memory
      THEN None
      ELSE BitWord(Sum[count], w)

ReadConcreteRegister(state, r, w) ==
  IF r.value \in DOMAIN state.registers /\ state.registers[r.value].width = w
  THEN state.registers[r.value]
  ELSE None

\* The operator of e applied to words v of width w.
Operate(e, v, w) ==
  CASE e.op = "Add" -> AddWord(v[1], v[2], w)
    [] e.op = "Sub" -> SubWord(v[1], v[2], w)
    [] e.op = "Mul" -> MulWord(v[1], v[2], w)
    [] e.op = "And" -> AndWord(v[1], v[2], w)
    [] e.op = "Or" -> OrWord(v[1], v[2], w)
    [] e.op = "Xor" -> XorWord(v[1], v[2], w)
    [] e.op = "Not" -> NotWord(v[1], w)
    [] e.op = "ShiftLeft" -> ShiftLeft(v[1], v[2], w)
    [] e.op = "LogicalShiftRight" -> LogicalShiftRight(v[1], v[2], w)
    [] e.op = "ArithmeticShiftRight" -> ArithmeticShiftRight(v[1], v[2], w)
    [] e.op = "RotateRight" -> RotateRight(v[1], v[2], w)
    [] e.op = "Equal" -> EqualWord(v[1], v[2])
    [] e.op = "UnsignedLessThan" -> UnsignedLess(v[1], v[2])
    [] e.op = "SignedLessThan" -> SignedLess(v[1], v[2], w)
    [] e.op = "Extract" -> Extract(v[1], e.n[1], e.n[2])
    [] e.op = "ZeroExtend" -> v[1]
    [] e.op = "SignExtend" -> SignExtend(v[1], w, e.n[1])
    [] e.op = "CountOnes" -> CountOnes(v[1], w)
    [] e.op = "AddCarryOut" -> AddCarryOut(v[1], v[2], v[3], w)
    [] e.op = "AddOverflow" -> AddOverflow(v[1], v[2], v[3], w)
    [] e.op = "SubCarryOut" -> SubCarryOut(v[1], v[2], v[3], w)
    [] e.op = "SubOverflow" -> SubOverflow(v[1], v[2], v[3], w)

ConcatWords(words) ==
  FoldLeft(LAMBDA a, b : BitWord(Concat(a.value, b.value, b.width), a.width + b.width),
           [value |-> 0, width |-> 0], words)

\* The bytes that a word is written as.
BytesOf(address, v, w) ==
  [a \in {ByteAddress(address, i) : i \in 0 .. w \div ByteBits - 1} |->
     LET i == CHOOSE i \in 0 .. w \div ByteBits - 1 : ByteAddress(address, i) = a
     IN  Word(v \div 2 ^ (ByteBits * i), ByteBits)]

RECURSIVE EvaluateExpr(_, _)
EvaluateExpr(e, state) ==
  LET words == [i \in DOMAIN e.args |-> EvaluateExpr(e.args[i], state)]
      values == [i \in DOMAIN words |-> words[i].value]
  IN  CASE e.op \in {"Const", "FixedRegister"} -> BitWord(e.n[1], e.n[2])
        [] e.op \in {"ImmediateField", "RegisterField", "DerivedValue", "Panic"} -> None
        [] \E i \in DOMAIN words : words[i] = None -> None
        [] e.op = "ReadRegister" -> ReadConcreteRegister(state, words[1], e.n[1])
        [] e.op = "ReadMemory" -> ReadConcreteMemory(state, words[1], e.n[1])
        [] e.op = "Concat" -> ConcatWords(words)
        [] e.op = "Select" -> IF words[1].value = 1 THEN words[2] ELSE words[3]
        [] OTHER -> BitWord(Operate(e, values, words[1].width), ExprWidth(e))

(***************************************************************************)
(* The order of commutative terms.  The code compares what Debug prints of *)
(* a term; any total order on terms serves, and this one goes through the  *)
(* operators, the numbers and the children from left to right.             *)
(***************************************************************************)

OperatorOrder ==
  <<"Add", "AddCarryOut", "AddOverflow", "And", "ArithmeticShiftRight", "Concat", "Const",
    "CountOnes", "DerivedValue", "Equal", "Extract", "FixedRegister", "ImmediateField",
    "LogicalShiftRight", "Mul", "Not", "Or", "Panic", "ReadMemory", "ReadRegister",
    "RegisterField", "RotateRight", "Select", "ShiftLeft", "SignExtend", "SignedLessThan",
    "Sub", "SubCarryOut", "SubOverflow", "UnsignedLessThan", "Xor", "ZeroExtend">>

RECURSIVE CanonicalSortKey(_)
CanonicalSortKey(e) ==
  LET own == <<CHOOSE i \in DOMAIN OperatorOrder : OperatorOrder[i] = e.op>> \o e.n
  IN  FoldLeft(LAMBDA key, arg : key \o CanonicalSortKey(arg), Append(own, Len(e.args)), e.args)

Before(a, b) ==
  LET k == CanonicalSortKey(a)
      l == CanonicalSortKey(b)
      Same(i) == \A j \in 1 .. i - 1 : k[j] = l[j]
      Shorter == Len(k) < Len(l) /\ Same(Len(k) + 1)
  IN  \/ \E i \in DOMAIN k \cap DOMAIN l : k[i] < l[i] /\ Same(i)
      \/ Shorter
==============================================================================
