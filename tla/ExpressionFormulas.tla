--------------------------- MODULE ExpressionFormulas ---------------------------
(***************************************************************************)
(* lower_expr of Z3State (semantic_matching.rs): the formula of a term.    *)
(* It is written apart from evaluate_expr, over total arrays: a register   *)
(* file for each width of identifiers and registers, and a memory for each *)
(* width of addresses.                                                     *)
(***************************************************************************)
EXTENDS Expressions

ReadRegisterFile(solver, selector, w) ==
  BitWord(solver.registers[<<selector.width, w>>][selector.value], w)

\* The byte at the highest address comes first.
ReadMemoryArray(solver, address, w) ==
  LET count == w \div ByteBits
      Byte(i) == BitWord(solver.memory[address.width][Word(address.value + i, address.width)], ByteBits)
  IN  ConcatWords([i \in 1 .. count |-> Byte(count - i)])

\* What Z3 has no operator for is built from others.
SolverOperate(e, v, w) ==
  CASE e.op = "CountOnes" -> SolverCountOnes(v[1], w)
    [] e.op = "AddCarryOut" -> SolverAddCarryOut(v[1], v[2], v[3], e.n[1])
    [] e.op = "AddOverflow" -> SolverAddOverflow(v[1], v[2], v[3], e.n[1])
    [] e.op = "SubCarryOut" -> SolverSubCarryOut(v[1], v[2], v[3], e.n[1])
    [] e.op = "SubOverflow" -> SolverSubOverflow(v[1], v[2], v[3], e.n[1])
    [] OTHER -> Operate(e, v, w)

LowerGuard(word) == word.value = 1

RECURSIVE LowerExpr(_, _)
LowerExpr(e, solver) ==
  LET words == [i \in DOMAIN e.args |-> LowerExpr(e.args[i], solver)]
      values == [i \in DOMAIN words |-> words[i].value]
  IN  CASE e.op \in {"Const", "FixedRegister"} -> BitWord(e.n[1], e.n[2])
        [] e.op = "ReadRegister" -> ReadRegisterFile(solver, words[1], e.n[1])
        [] e.op = "ReadMemory" -> ReadMemoryArray(solver, words[1], e.n[1])
        [] e.op = "Concat" -> ConcatWords(words)
        [] e.op = "Select" -> IF LowerGuard(words[1]) THEN words[2] ELSE words[3]
        [] OTHER -> BitWord(SolverOperate(e, values, words[1].width), ExprWidth(e))
===============================================================================
