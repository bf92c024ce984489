--------------------------- MODULE ExpressionBackends ---------------------------
(***************************************************************************)
(* An expression of an instruction on its way to an equivalence check: the *)
(* fields of the instruction are put in and constants folded (collapse),   *)
(* then it is brought into canonical form (canonicalize).  What it is then *)
(* worth is computed three ways: by evaluate_expr on numbers, by the       *)
(* circuits of BddManager, and by the formulas of Z3State.                 *)
(***************************************************************************)
EXTENDS Canonicalization

CONSTANTS
  Terms,       \* expressions of a form, each with the width of its registers
  Instruction  \* the decoded fields and the derived values

Circuits == INSTANCE ExpressionCircuits
Formulas == INSTANCE ExpressionFormulas

VARIABLES
  term, width,  \* the expression as written, and the width of registers
  form,         \* what became of it
  stage

vars == <<term, width, form, stage>>

Init ==
  /\ \E given \in Terms : term = given.term /\ width = given.width
  /\ form = term
  /\ stage = "written"

CollapseStep ==
  /\ stage = "written"
  /\ form' = Collapse(form, Instruction)
  /\ stage' = "collapsed"
  /\ UNCHANGED <<term, width>>

CanonicalizeStep ==
  /\ stage = "collapsed"
  /\ form' = Canonicalize(form)
  /\ stage' = "canonical"
  /\ UNCHANGED <<term, width>>

Next == CollapseStep \/ CanonicalizeStep

Spec == Init /\ [][Next]_vars

(***************************************************************************)
(* States of the machine: two registers of the width, a flag, and a memory *)
(* whose bytes differ.                                                     *)
(***************************************************************************)

IdentifierWidth == 2

States ==
  {[registers |-> <<BitWord(a, width), BitWord(b, width)>> @@ (0 :> BitWord(c, 1)),
    memory |-> [address \in 0 .. Mask(width) |-> Word(address \div 2 + address, ByteBits)]] :
   a, b \in 0 .. Mask(width), c \in {0, 1}}

\* The same state as arrays of the solver,
SolverState(state) ==
  [registers |-> [file \in {<<IdentifierWidth, width>>, <<IdentifierWidth, 1>>} |->
                    [r \in 0 .. Mask(IdentifierWidth) |->
                       IF r \in DOMAIN state.registers /\ state.registers[r].width = file[2]
                       THEN state.registers[r].value
                       ELSE 0]],
   memory |-> [w \in {width} |-> state.memory]]

\* and as bits of the circuits' variables.
RECURSIVE ReadsOf(_)
ReadsOf(e) ==
  (IF e.op = "ReadMemory" THEN {<<e.args[1], e.n[1]>>} ELSE {})
  \cup UNION {ReadsOf(child) : child \in ToSet(Children(e))}

CircuitVariables(e, state) ==
  LET Bits(word) == Circuits!LowerConstant(word.value, word.width)
      Description(r) ==
        Circuits!RegisterDescription(r, IdentifierWidth, state.registers[r].width)
  IN  [registers |-> [d \in {Description(r) : r \in DOMAIN state.registers} |->
                        Bits(state.registers[d.identifier])],
       reads |-> [read \in ReadsOf(e) |->
                    Bits(ReadConcreteMemory(state, EvaluateExpr(read[1], state), read[2]))]]

\* The expression with what its leaves stand for.
RECURSIVE Resolved(_)
Resolved(e) ==
  CASE e.op = "ImmediateField" ->
         Constant(Instruction.fields[e.n[1]].value, Instruction.fields[e.n[1]].width)
    [] e.op = "RegisterField" ->
         FixedRegister(Instruction.fields[e.n[1]].value, Instruction.fields[e.n[1]].width)
    [] e.op = "DerivedValue" -> Resolved(Instruction.derived[e.n[1]])
    [] OTHER -> WithChildren(e, [i \in DOMAIN Children(e) |-> Resolved(Children(e)[i])])

RECURSIVE Subterms(_)
Subterms(e) == {e} \cup UNION {Subterms(child) : child \in ToSet(Children(e))}

\* The expression with the operands of commutative operators swapped.
RECURSIVE Mirrored(_)
Mirrored(e) ==
  LET args == [i \in DOMAIN Children(e) |-> Mirrored(Children(e)[i])]
  IN  WithChildren(e, IF e.op \in AssocComm \cup {"Equal"} THEN Reverse(args) ELSE args)

(***************************************************************************)
(* What the code does wrong is left out by name.                           *)
(***************************************************************************)

\* A term is only dropped for one that stays.
AbsorbersStay(e) ==
  \A s \in Subterms(e) :
    s.op \in {"And", "Or"} =>
      LET terms == FlattenAll(s.op, s.args)
          absorbed == Absorbed(s.op, terms)
      IN  \A i \in absorbed : \E j \in DOMAIN terms \ absorbed : Absorbs(s.op, terms, j, i)

\* A factor that is a shift has a constant amount, to which width - 1 can be added.
ShiftsFit(e) ==
  \A s \in Subterms(e) :
    s.op = "Mul" =>
      \A factor \in ToSet(CanonicalAll(FlattenAll("Mul", s.args))) :
        factor.op = "ShiftLeft" =>
          IsConst(factor.args[2]) /\ factor.args[2].n[1] + width - 1 <= Mask(width)

Modelled == AbsorbersStay(Resolved(term)) /\ ShiftsFit(Resolved(term))

------------------------------------------------------------------------------

\* Through constant folding, sorting, absorption, cancellation, the rewriting of
\* operators and of constant products, and the merging of concatenations, an
\* expression keeps its value in every state: the solver and the circuits are
\* given the canonical form, counterexamples are run on the original.
ValueKept ==
  stage # "written" /\ Modelled =>
    \A state \in States : EvaluateExpr(form, state) = EvaluateExpr(Resolved(term), state)

\* evaluate_expr, the formulas and the circuits agree on it, also for amounts
\* beyond the width, widths that are no power of two, carries and borrows, and
\* reads of several bytes at addresses that wrap.
BackendsAgree ==
  stage # "written" /\ Modelled =>
    \A state \in States :
      LET value == EvaluateExpr(form, state)
      IN  /\ Formulas!LowerExpr(form, SolverState(state)) = value
          /\ stage = "canonical" =>
               Circuits!ValueOf(Circuits!LowerExpression(form, CircuitVariables(form, state)))
                 = value.value

\* Reads are found in the tables of BddManager by comparing canonical addresses:
\* the form has only operators that are lowered, is its own canonical form, and
\* is the same whichever way operands were written.
OneForm ==
  stage = "canonical" /\ Modelled =>
    /\ \A s \in Subterms(form) : s.op \in Circuits!LoweredOperators
    /\ Canonicalize(form) = form
    /\ Canonicalize(Mirrored(Collapse(term, Instruction))) = form

(***************************************************************************)
(* Comments that do not hold.                                              *)
(***************************************************************************)

\* "If the variable term is already a shift, however, we can just add one to its
\* shift value" (mul_to_shift_add), also where the amount wraps.
ShiftedProductIsShiftsAndAdds ==
  stage # "written" /\ AbsorbersStay(Resolved(term)) =>
    \A state \in States : EvaluateExpr(form, state) = EvaluateExpr(Resolved(term), state)

\* "Removes terms made redundant by Boolean absorption" (remove_absorbed_terms),
\* also where two terms absorb each other.
OnlyRedundantRemoved ==
  stage # "written" /\ ShiftsFit(Resolved(term)) =>
    \A state \in States : EvaluateExpr(form, state) = EvaluateExpr(Resolved(term), state)
===============================================================================
