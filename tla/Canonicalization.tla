---------------------------- MODULE Canonicalization ----------------------------
(***************************************************************************)
(* Expr::canonicalize (instruction_semantics.rs): a form that does not     *)
(* depend on how commutative terms were written, over fewer operators.     *)
(* Sub becomes Add; Or, Xor and Select become And and Not; the flags of a  *)
(* subtraction become those of an addition; a product with a constant      *)
(* becomes shifts and additions.                                           *)
(***************************************************************************)
EXTENDS Collapsing

RECURSIVE Canonicalize(_)
CanonicalAll(terms) == [i \in DOMAIN terms |-> Canonicalize(terms[i])]

(***************************************************************************)
(* Associative and commutative operators.                                  *)
(***************************************************************************)

Sorted(terms) == SortSeq(terms, Before)

\* Of equal neighbours one is left,
Deduplicated(terms) ==
  FoldLeft(LAMBDA kept, e : IF kept # <<>> /\ Last(kept) = e THEN kept ELSE Append(kept, e),
           <<>>, terms)

\* and of equal terms of Xor none or one.
Cancelled(terms) ==
  FoldLeft(LAMBDA kept, e : IF kept # <<>> /\ Last(kept) = e /\ ExprWidth(e) # 0
                            THEN Front(kept)
                            ELSE Append(kept, e),
           <<>>, terms)

AssocCommContains(op, e, needle) ==
  \E leaf \in ToSet(FlattenAssocComm(op, e)) : Canonicalize(leaf) = needle

Opposite(op) == IF op = "And" THEN "Or" ELSE "And"

\* Term j makes term i redundant: x & (x | y) is x, and x | (x & y) is x.
Absorbs(op, terms, j, i) ==
  /\ op \in {"And", "Or"}
  /\ terms[i].op = Opposite(op)
  /\ AssocCommContains(Opposite(op), terms[i], Canonicalize(terms[j]))

Absorbed(op, terms) == {i \in DOMAIN terms : \E j \in DOMAIN terms \ {i} : Absorbs(op, terms, j, i)}

RemoveAbsorbedTerms(op, terms) ==
  LET absorbed == Absorbed(op, terms)
  IN  FoldLeftDomain(LAMBDA kept, i : IF i \in absorbed THEN kept ELSE Append(kept, terms[i]),
                     <<>>, terms)

Complementary(terms) ==
  \E i, j \in DOMAIN terms : terms[i] = NotExpr(terms[j])

FirstWidth(terms) ==
  FoldLeft(LAMBDA w, e : IF w = 0 THEN ExprWidth(e) ELSE w, 0, terms)

WithoutRepetitions(op, sorted) ==
  CASE op \in {"And", "Or"} -> Deduplicated(sorted)
    [] op = "Xor" -> Cancelled(sorted)
    [] OTHER -> sorted

Combine(op, sorted, terms, constants, width) ==
  CASE op \in {"And", "Or"} /\ Complementary(terms) /\ width # 0 ->
         Constant(IF op = "And" THEN 0 ELSE Mask(width), width)
    [] constants # <<>> -> WithConstant(op, terms, FoldConstants(op, constants))
    [] terms # <<>> -> RebuildAssocComm(op, terms)
    [] op = "Xor" /\ sorted # <<>> -> Constant(0, ExprWidth(Last(sorted)))
    [] OTHER -> Panic

CombineSorted(op, sorted, terms, constants) ==
  Combine(op, sorted, terms, constants, FirstWidth(terms \o constants))

CombineCanonical(op, variables, constants) ==
  CombineSorted(op, variables, WithoutRepetitions(op, variables), constants)

CombineFlat(op, canonical) ==
  CombineCanonical(op, Sorted(Variables(canonical)), Constants(canonical))

CanonicalizeAssocComm(op, args) ==
  CombineFlat(op, FlattenAll(op, CanonicalAll(RemoveAbsorbedTerms(op, FlattenAll(op, args)))))

(***************************************************************************)
(* Products with a constant.                                               *)
(***************************************************************************)

\* A term that is a shift already gets a greater amount.
Doubled(e, w) ==
  IF e.op = "ShiftLeft"
  THEN Apply("ShiftLeft", <<e.args[1], AddExpr(e.args[2], Constant(1, w))>>)
  ELSE Apply("ShiftLeft", <<e, Constant(1, w)>>)

RECURSIVE MulToShiftAdd(_, _, _, _)
MulToShiftAdd(e, k, sum, w) ==
  IF k = 0 THEN Canonicalize(sum)
  ELSE MulToShiftAdd(Doubled(e, w), k \div 2, IF k % 2 = 1 THEN AddExpr(sum, e) ELSE sum, w)

CanonicalizeMul(e) ==
  LET w == ExprWidth(e)
      a == e.args[1]
      b == e.args[2]
  IN  CASE e.op # "Mul" -> e
        [] IsConst(a) /\ IsConst(b) -> ConstBits(a.n[1] * b.n[1], w)
        [] IsConst(a) /\ ~IsConst(b) -> MulToShiftAdd(b, a.n[1], Constant(0, w), w)
        [] IsConst(b) /\ ~IsConst(a) -> MulToShiftAdd(a, b.n[1], Constant(0, w), w)
        [] OTHER -> e

(***************************************************************************)
(* Operators that are expressed by others.                                 *)
(***************************************************************************)

\* The condition is spread over the width of what it selects.
LoweredSelect(c, t, f) ==
  LET mask == Extended("SignExtend", c, ExprWidth(t))
  IN  NotExpr(AndExpr(NotExpr(AndExpr(NotExpr(mask), f)), NotExpr(AndExpr(mask, t))))

LowerOperators(e) ==
  LET a == e.args[1]
      b == e.args[2]
  IN  CASE e.op = "Or" -> Canonicalize(NotExpr(AndExpr(NotExpr(a), NotExpr(b))))
        [] e.op = "Xor" ->
             Canonicalize(OrExpr(AndExpr(a, NotExpr(b)), AndExpr(NotExpr(a), b)))
        [] e.op = "Select" -> Canonicalize(LoweredSelect(a, b, e.args[3]))
        [] OTHER -> e

\* a - b is a + !b + 1.
CanonicalSub(a, b) ==
  LET w == ExprWidth(a)
  IN  CASE IsConst(b) /\ b.n[1] = 0 -> a
        [] a = b -> Constant(0, w)
        [] OTHER -> Canonicalize(AddExpr(AddExpr(a, NotExpr(b)), Constant(1, w)))

CanonicalNot(a) ==
  CASE IsConst(a) -> ConstBits(Mask(a.n[2]) - a.n[1], a.n[2])
    [] a.op = "Not" -> a.args[1]
    [] OTHER -> NotExpr(a)

CanonicalShift(op, v, amount) ==
  CASE IsConst(amount) /\ amount.n[1] = 0 -> v
    [] IsConst(v) /\ v.n[1] = 0 -> Constant(0, v.n[2])
    [] OTHER -> Apply(op, <<v, amount>>)

BadCanonicalComparison(op, a, b) ==
  IF a = b THEN BoolConst(op = "Equal") ELSE Apply(op, <<a, b>>)

CanonicalComparison(op, a, b) ==
  CASE a = b -> BoolConst(op = "Equal")
    [] op = "Equal" /\ Before(b, a) -> EqualExpr(b, a)
    [] OTHER -> Apply(op, <<a, b>>)

CanonicalExtract(v, high, low) ==
  IF low = 0 /\ high + 1 = ExprWidth(v) THEN v ELSE ExtractOf(v, high, low)

StripNested(op, v) == IF v.op = op THEN v.args[1] ELSE v

CanonicalExtension(op, v, to) ==
  IF ExprWidth(v) = to THEN v ELSE Extended(op, StripNested(op, v), to)

\* A flag of an addition keeps its operator.
CanonicalFlag(e, c) == FlagOf(e.op, c[1], c[2], c[3], e.n[1])

CanonicalSelect(c, t, f) ==
  CASE IsConst(c) -> IF c.n[1] = 1 THEN t ELSE f
    [] t = f -> t
    [] OTHER -> LowerOperators(SelectOf(c, t, f))

BadCanonicalSubFlag(op, a, b, borrow, w) ==
  FlagOf(IF op = "SubCarryOut" THEN "AddCarryOut" ELSE "AddOverflow",
         Canonicalize(a), Canonicalize(NotExpr(b)), Canonicalize(borrow), w)

\* Without a borrow there is a carry.
CanonicalSubFlag(op, a, b, borrow, w) ==
  FlagOf(IF op = "SubCarryOut" THEN "AddCarryOut" ELSE "AddOverflow",
         Canonicalize(a), Canonicalize(NotExpr(b)), Canonicalize(NotExpr(borrow)), w)

Canonicalize(e) ==
  LET c == CanonicalAll(Children(e))
  IN  CASE e.op = "Const" -> ConstBits(e.n[1], e.n[2])
        [] e.op \in {"Add", "Mul"} -> CanonicalizeMul(CanonicalizeAssocComm(e.op, e.args))
        [] e.op = "And" -> CanonicalizeAssocComm(e.op, e.args)
        [] e.op \in {"Or", "Xor"} -> LowerOperators(CanonicalizeAssocComm(e.op, e.args))
        [] e.op = "Sub" -> CanonicalSub(c[1], c[2])
        [] e.op = "Not" -> CanonicalNot(c[1])
        [] e.op \in Shifts -> CanonicalShift(e.op, c[1], c[2])
        [] e.op \in Comparisons -> CanonicalComparison(e.op, c[1], c[2])
        [] e.op = "Extract" -> CanonicalExtract(c[1], e.n[1], e.n[2])
        [] e.op = "Concat" -> RebuildConcat(c)
        [] e.op \in Extensions -> CanonicalExtension(e.op, c[1], e.n[1])
        [] e.op \in {"AddCarryOut", "AddOverflow"} -> CanonicalFlag(e, c)
        [] e.op \in {"SubCarryOut", "SubOverflow"} ->
             CanonicalSubFlag(e.op, e.args[1], e.args[2], e.args[3], e.n[1])
        [] e.op = "Select" -> CanonicalSelect(c[1], c[2], c[3])
        [] OTHER -> WithChildren(e, c)

CollapseAndCanonicalize(e, instruction) == Canonicalize(Collapse(e, instruction))
==============================================================================
