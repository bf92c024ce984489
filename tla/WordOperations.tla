----------------------------- MODULE WordOperations -----------------------------
(***************************************************************************)
(* What the operators of Expr do to words, as evaluate_expr computes it on *)
(* numbers (semantic_matching.rs).  A word of width w is a number below    *)
(* 2^w; the code holds it in a u128 and masks what it builds (BitWord::new).*)
(* Operands of one operator have one width, as same_width demands.         *)
(***************************************************************************)
EXTENDS Integers, Sequences, Bitwise

Mask(w) == 2 ^ w - 1
Word(v, w) == v % 2 ^ w
SignBit(v, w) == v \div 2 ^ (w - 1)
SignedValue(v, w) == IF SignBit(v, w) = 0 THEN v ELSE v - 2 ^ w
Truth(b) == IF b THEN 1 ELSE 0

AddWord(a, b, w) == Word(a + b, w)
SubWord(a, b, w) == Word(a - b, w)
MulWord(a, b, w) == Word(a * b, w)
AndWord(a, b, w) == a & b
OrWord(a, b, w) == a | b
XorWord(a, b, w) == a ^^ b
NotWord(a, w) == Mask(w) - a

ShiftLeft(a, n, w) == IF n >= w THEN 0 ELSE Word(a * 2 ^ n, w)
LogicalShiftRight(a, n, w) == IF n >= w THEN 0 ELSE a \div 2 ^ n
ArithmeticShiftRight(a, n, w) ==
  IF n >= w THEN (IF SignBit(a, w) = 0 THEN 0 ELSE Mask(w))
  ELSE Word(SignedValue(a, w) \div 2 ^ n, w)
RotateRight(a, n, w) ==
  LET s == n % w
  IN  IF s = 0 THEN a ELSE Word((a \div 2 ^ s) | (a * 2 ^ (w - s)), w)

EqualWord(a, b) == Truth(a = b)
UnsignedLess(a, b) == Truth(a < b)
SignedLess(a, b, w) == Truth(SignedValue(a, w) < SignedValue(b, w))

Extract(a, high, low) == Word(a \div 2 ^ low, high - low + 1)
Concat(a, b, w) == (a * 2 ^ w) | b
SignExtend(a, w, to) == Word(SignedValue(a, w), to)
CountOnes(a, w) == LET Ones[v \in Nat] == IF v = 0 THEN 0 ELSE (v % 2) + Ones[v \div 2]
                   IN  Ones[a]

AddCarryOut(a, b, carry, w) == Truth(a + b + carry > Mask(w))

AddOverflow(a, b, carry, w) ==
  LET result == Word(a + b + carry, w)
  IN  Truth(SignBit(a, w) = SignBit(b, w) /\ SignBit(a, w) # SignBit(result, w))

\* Two borrows, of a - b and of taking the borrow away from that.
SubCarryOut(a, b, borrow, w) == Truth(~(a < b \/ a - b < borrow))

SubOverflow(a, b, borrow, w) ==
  LET result == Word(a - b - borrow, w)
  IN  Truth(SignBit(a, w) # SignBit(b, w) /\ SignBit(a, w) # SignBit(result, w))

Select(c, a, b) == IF c = 1 THEN a ELSE b

(***************************************************************************)
(* The flags and the count as Z3State::lower_expr builds them from the     *)
(* solver's operators, on words one bit wider where it extends.            *)
(***************************************************************************)

SolverCountOnes(a, w) ==
  LET Sum[i \in 0 .. w] ==
        IF i = 0 THEN 0 ELSE AddWord(Sum[i - 1], Extract(a, i - 1, i - 1), w)
  IN  Sum[w]

SolverAddCarryOut(a, b, carry, w) ==
  Extract(AddWord(AddWord(a, b, w + 1), carry, w + 1), w, w)

\* signed_add_overflow and signed_sub_overflow test the sign bits.
SolverAddOverflow(a, b, carry, w) ==
  LET result == AddWord(AddWord(a, b, w), carry, w)
      Sign(v) == Extract(v, w - 1, w - 1)
  IN  Truth(Sign(a) = Sign(b) /\ Sign(a) # Sign(result))

BadSolverSubCarryOut(a, b, borrow, w) == Truth(AddWord(b, borrow, w) <= a)
SolverSubCarryOut(a, b, borrow, w) == Truth(AddWord(b, borrow, w + 1) <= a)

SolverSubOverflow(a, b, borrow, w) ==
  LET result == SubWord(SubWord(a, b, w), borrow, w)
      Sign(v) == Extract(v, w - 1, w - 1)
  IN  Truth(Sign(a) # Sign(b) /\ Sign(a) # Sign(result))
==============================================================================
