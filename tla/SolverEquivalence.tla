-------------------------- MODULE SolverEquivalence --------------------------
(***************************************************************************)
(* Z3EquivalenceManager: which differences between two programs it looks   *)
(* for, and the machine state it makes of one. The solver itself is        *)
(* external: it decides whether some total state shows a difference.       *)
(***************************************************************************)
EXTENDS MachineStates

\* is_allowed_stack_scratch_address: an address written as the stack pointer
\* plus a constant, read as a two's complement, on the stack's side of it. The
\* value that the stack pointer has when the store runs does not matter, nor does
\* the width of the store.
ScratchAddress(address) ==
  LET up == address.offset
      down == Wrap(-address.offset)
      isUp == 2 * up < 2 ^ (2 * ByteBits)
  IN  /\ address.base = Sp /\ address.bytes = 0
      /\ \/ StackGrows = "upwards" /\ isUp /\ up \in 1 .. StackSize
         \/ StackGrows = "downwards" /\ ~isUp /\ down \in 1 .. StackSize

\* The states before each instruction of a program, with the effects that read
\* them.
Before(p, s) == [i \in DOMAIN p |-> Run(p, s)[i - 1]]

\* Observed memory: each byte that the original writes, and each that the
\* generated program writes at an address that is not scratch, whatever their
\* guards say.
Stores(p, s, side) ==
  UNION {UNION {Cells(Address(e.address, Before(p, s)[i]), e.bytes) :
                  e \in {f \in ToSet(p[i]) :
                         ~WritesRegister(f) /\ (side = "left" \/ ~ScratchAddress(f.address))}} :
           i \in DOMAIN p}
BadObserved(left, right, s) == Stores(left, s, "left")
Observed(left, right, s) == Stores(left, s, "left") \cup Stores(right, s, "right")

\* destination_differences has a true disjunct.
Differ(left, right, s) ==
  LET l == Execute(left, s)
      r == Execute(right, s)
  IN  \/ \E q \in LiveOut : l.registers[q] # r.registers[q]
      \/ \E a \in Observed(left, right, s) : l.memory[a] # r.memory[a]

\* The memory that a program reads or may write, from a state on.
BadPoints(p, s) ==
  UNION {UNION {UNION {Cells(Address(x, Before(p, s)[i]), x.bytes) : x \in {e.guard, e.value}} :
                  e \in ToSet(p[i])} :
           i \in DOMAIN p}
Points(p, s) ==
  UNION {UNION {(UNION {Cells(Address(x, Before(p, s)[i]), x.bytes) : x \in {e.guard, e.value}})
                  \cup (IF WritesRegister(e) THEN {}
                        ELSE Cells(Address(e.address, Before(p, s)[i]), e.bytes)) :
                  e \in ToSet(p[i])} :
           i \in DOMAIN p}

\* model_to_machine_state: a total state that shows a difference, cut down to the
\* memory that the two programs touch.
ModelState(left, right, s) ==
  [s EXCEPT !.memory = Restrict(@, Points(left, s) \cup Points(right, s))]
=============================================================================
