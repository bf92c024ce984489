-------------------------- MODULE MCExpressionBackends --------------------------
EXTENDS ExpressionBackends

X(w) == ReadRegister(FixedRegister(1, 2), w)
Y(w) == ReadRegister(FixedRegister(2, 2), w)
Condition == ReadRegister(FixedRegister(0, 2), 1)
Memory(w) == ReadMemory(X(w), w)

MCInstruction ==
  [fields |-> <<BitWord(2, 2), BitWord(2, 2)>>,
   derived |-> <<AddExpr(ImmediateField(1), ReadRegister(RegisterField(2), 2))>>]

Binary(ops, lhs, rhs) == {Apply(op, <<a, b>>) : op \in ops, a \in lhs, b \in rhs}

\* Every operator over operands of width w.
Operators(w, lhs, rhs) ==
  Binary(AssocComm \cup Shifts \cup Comparisons \cup {"Sub", "Concat"}, lhs, rhs)
  \cup {Apply(op, <<a>>) : op \in {"Not", "CountOnes"}, a \in lhs}
  \cup {ExtractOf(bits[1], bits[2], bits[3]) :
          bits \in {b \in lhs \X (0 .. w - 1) \X (0 .. w - 1) : b[3] <= b[2]}}
  \cup {Extended(op, a, to) : op \in Extensions, a \in lhs, to \in w .. w + 2}
  \cup {FlagOf(op, a, b, Condition, w) : op \in Flags, a \in lhs, b \in rhs}
  \cup {SelectOf(Condition, a, b) : a \in lhs, b \in rhs}

Leaves(w) ==
  {X(w), Y(w), Memory(w), Constant(0, w), Constant(1, w), Constant(Mask(w), w)}

\* Operators over operators, at width 2.  Every term of Xor more doubles the form
\* several times, so there are at most three.
Inner ==
  Binary({"And", "Or", "Xor", "Add", "Mul"}, {X(2), Y(2)}, {Y(2), Constant(1, 2)})
  \cup Binary({"Sub", "ShiftLeft", "Mul"}, {X(2)}, {Y(2), Constant(1, 2), Constant(3, 2)})
  \cup {NotExpr(X(2)), NotExpr(Y(2)), SelectOf(Condition, X(2), Y(2))}

Few == {X(2), Constant(2, 2)}

Outer ==
  Binary(AssocComm \ {"Xor"}, Inner, Inner)
  \cup Binary({"Xor"}, Inner, {Y(2), AndExpr(X(2), Y(2))})
  \cup Operators(2, Inner, Few) \cup Operators(2, Few, Inner)

\* Fields and derived values among other leaves.
Undecoded == {X(2), ImmediateField(1), ReadRegister(RegisterField(2), 2), DerivedValue(1)}

MCTerms ==
  UNION {[term : Operators(w, Leaves(w), Leaves(w)), width : {w}] : w \in 1 .. 3}
  \cup [term : Operators(4, {X(4)}, {Y(4), Memory(4)}), width : {4}]
  \cup [term : Outer \cup Operators(2, Undecoded, Undecoded), width : {2}]
===============================================================================
