--------------------------- MODULE MCProgramAnalysis ---------------------------
(***************************************************************************)
(* Every program of 0 to MaxLength instructions  over a small repertoire:  *)
(* unconditional, guarded and dead writes, a store, branches forwards and  *)
(* backwards, a branch to a register, and a static instruction.            *)
(***************************************************************************)
EXTENDS ProgramAnalysis

CONSTANTS MaxLength, r0, r1

MCRegisters == {r0, r1}

Effect(guard, dest, reads) == [guard |-> guard, dest |-> dest, reads |-> reads]

Plain(effects) ==
  [effects |-> effects, branch |-> "none", offset |-> 0, static |-> FALSE]

Branch(kind, offset, effects) ==
  [effects |-> effects, branch |-> kind, offset |-> offset, static |-> TRUE]

Repertoire ==
  { Plain({Effect("always", {r0}, {r1})}),
    Plain({Effect("always", {r1}, {}), Effect("always", {}, {r0})}),
    Plain({Effect("sometimes", {r0}, {r1})}),
    Plain({Effect("never", {r1}, {r0})}),
    Plain({Effect("always", {r0, r1}, {})}),
    [Plain({}) EXCEPT !.static = TRUE],
    Branch("relative", 2, {}),
    Branch("relative", -1, {Effect("sometimes", {}, {r0})}),
    [Branch("relative", -2, {}) EXCEPT !.static = FALSE],
    Branch("register", 0, {Effect("always", {r1}, {})}) }

MCPrograms == UNION {[1 .. n -> Repertoire] : n \in 0 .. MaxLength}
==============================================================================
