-------------------------------- MODULE Netlists --------------------------------
(***************************************************************************)
(* Netlists as Simulator compiles and simulates them (simulator.rs), with  *)
(* the three-valued logic of bit.rs.  A netlist is a record                *)
(*   inst     the instruction inputs inst[0], inst[1], ... in this order   *)
(*   others   the other primary inputs                                     *)
(*   outputs  of the module                                                *)
(*   assigns  a set of [lhs, rhs], assign statements; rhs may be "0" or "1"*)
(*   gates    instance names to [cell, in, out], the combinational ones;   *)
(*            an output that is not connected is NoWire                    *)
(*   flops    instance names to [d, q], the sequential ones                *)
(* WellFormed and WellDriven say what a synthesized netlist keeps to.      *)
(***************************************************************************)
EXTENDS Integers, FiniteSets, Sequences, SequencesExt

\* What f says, and elsewhere what g says.
Over(f, g) == [x \in DOMAIN f \cup DOMAIN g |-> IF x \in DOMAIN f THEN f[x] ELSE g[x]]

Bit == {"0", "1", "x"}  \* Low, High and Var
Concrete == {"0", "1"}
NoWire == "-"
NoValue == "none"

(***************************************************************************)
(* The operators of Bit and the cells made of them.  A LookupTable gives   *)
(* the output for every tuple of inputs.                                   *)
(***************************************************************************)

NotBit(a) == IF a = "0" THEN "1" ELSE IF a = "1" THEN "0" ELSE a
AndBit(a, b) == IF "0" \in {a, b} THEN "0" ELSE IF "x" \in {a, b} THEN "x" ELSE "1"
OrBit(a, b) == IF "1" \in {a, b} THEN "1" ELSE IF "x" \in {a, b} THEN "x" ELSE "0"

XorBit(a, b) == IF "x" \in {a, b} THEN "x" ELSE IF a = b THEN "0" ELSE "1"

LookupInputs(arity) == [1 .. arity -> Bit]

Cells ==
  [BUF  |-> <<[i \in LookupInputs(1) |-> i[1]]>>,
   INV  |-> <<[i \in LookupInputs(1) |-> NotBit(i[1])]>>,
   AND2 |-> <<[i \in LookupInputs(2) |-> AndBit(i[1], i[2])]>>,
   OR2  |-> <<[i \in LookupInputs(2) |-> OrBit(i[1], i[2])]>>,
   XOR2 |-> <<[i \in LookupInputs(2) |-> XorBit(i[1], i[2])]>>,
   HA   |-> <<[i \in LookupInputs(2) |-> AndBit(i[1], i[2])],
              [i \in LookupInputs(2) |-> XorBit(i[1], i[2])]>>,
   MUX2 |-> <<[i \in LookupInputs(3) |-> OrBit(AndBit(i[3], i[2]), AndBit(i[1], NotBit(i[3])))]>>]

(***************************************************************************)
(* Compilation.                                                            *)
(***************************************************************************)

OutputsOf(gate) == ToSet(gate.out) \ {NoWire}

\* Every cell is known, all its inputs are connected, and it has the pins named.
ValidInstances(n) ==
  \A g \in DOMAIN n.gates :
    /\ n.gates[g].cell \in DOMAIN Cells
    /\ LET functions == Cells[n.gates[g].cell]
       IN  /\ DOMAIN n.gates[g].out = DOMAIN functions
           /\ \A k \in DOMAIN functions : DOMAIN functions[k] = LookupInputs(Len(n.gates[g].in))

\* compile_sequential_io
SequentialOutputWires(n) == {n.flops[f].q : f \in DOMAIN n.flops}
SequentialInputWires(n) == {n.flops[f].d : f \in DOMAIN n.flops} \ Concrete

Wires(n) ==
  ToSet(n.inst) \cup n.others \cup n.outputs
    \cup {a.lhs : a \in n.assigns} \cup ({a.rhs : a \in n.assigns} \ Concrete)
    \cup SequentialOutputWires(n) \cup SequentialInputWires(n)
    \cup UNION {OutputsOf(n.gates[g]) \cup (ToSet(n.gates[g].in) \ Concrete) : g \in DOMAIN n.gates}

Assigned(n, rhs) == {a.lhs : a \in {b \in n.assigns : b.rhs = rhs}}

Sources(n) == Wires(n) \cup Concrete

SingleAliases(n) == [s \in Sources(n) |-> ({s} \ Concrete) \cup Assigned(n, s)]

\* One round of following chains of assign statements.
Further(n, map) == [s \in Sources(n) |-> map[s] \cup UNION {map[d] : d \in map[s]}]

\* The wires that carry what each wire or constant carries, itself included.
\* Chains are followed until nothing is added.
AliasMap(n) ==
  LET pairs == Cardinality(Sources(n) \X Wires(n))
      after[k \in 0 .. pairs + 1] ==
        IF k = 0 THEN SingleAliases(n) ELSE LET map == after[k - 1] IN Further(n, map)
  IN  after[CHOOSE k \in 0 .. pairs : after[k + 1] = after[k]]

\* What flops read is carried into later cycles and counts as an output; so does
\* every wire that an output copies.
TopModOutputs(n, aliases) ==
  LET outs == n.outputs \cup SequentialInputWires(n)
  IN  outs \cup {s \in Wires(n) : aliases[s] \cap outs # {}}

BadFeeds(n, aliases, g, h) == OutputsOf(n.gates[g]) \cap ToSet(n.gates[h].in) # {}

Feeds(n, aliases, g, h) ==
  \E w \in OutputsOf(n.gates[g]) : aliases[w] \cap ToSet(n.gates[h].in) # {}

\* toposort returns one of these.
SortedOrders(n) ==
  LET aliases == AliasMap(n)
  IN  {order \in SetToSeqs(DOMAIN n.gates) :
         \A i, j \in DOMAIN order : i < j => ~Feeds(n, aliases, order[j], order[i])}

AliasWires(n, aliases) == [w \in Wires(n) |-> aliases[w]]

\* The wires that constants are assigned to, at any remove.
ConstantWrites(aliases) ==
  [w \in aliases["0"] \cup aliases["1"] |-> IF w \in aliases["0"] THEN "0" ELSE "1"]

\* What is known of the names: wires are no constants, no instruction input is
\* another input too, and pins are listed.
WellFormed(n) ==
  /\ Wires(n) \cap (Concrete \cup {NoWire}) = {}
  /\ IsFiniteSet(DOMAIN n.gates) /\ IsFiniteSet(Wires(n))
  /\ n.inst \in Seq(ToSet(n.inst)) /\ ToSet(n.inst) \cap n.others = {}
  /\ \A g \in DOMAIN n.gates : /\ n.gates[g].in \in Seq(ToSet(n.gates[g].in))
                             /\ n.gates[g].out \in Seq(ToSet(n.gates[g].out))

\* The wires that have a value before any gate is simulated.
GivenWires(n) ==
  LET aliases == AliasMap(n)
  IN  ToSet(n.inst) \cup n.others \cup SequentialOutputWires(n) \cup aliases["0"] \cup aliases["1"]

Copies(aliases, wires) == UNION {aliases[w] : w \in wires}

\* Every wire has one driver, at any remove, every gate is driven by others, and
\* what counts as an output is driven (simulator.rs:585 asserts it).
WellDriven(n) ==
  LET given == Copies(AliasMap(n), GivenWires(n))
      Driven(g) == Copies(AliasMap(n), OutputsOf(n.gates[g]))
  IN  /\ n.outputs \cup SequentialInputWires(n) \subseteq given \cup UNION {Driven(g) : g \in DOMAIN n.gates}
      /\ \A g \in DOMAIN n.gates :
            /\ Driven(g) \cap given = {}
            /\ \A v, w \in OutputsOf(n.gates[g]) : v # w => AliasMap(n)[v] \cap AliasMap(n)[w] = {}
            /\ \A h \in DOMAIN n.gates \ {g} : Driven(g) \cap Driven(h) = {}
            /\ ToSet(n.gates[g].in) \ Concrete
                 \subseteq given \cup UNION {Driven(h) : h \in DOMAIN n.gates \ {g}}

\* Simulator::from_file
Compiled(n, order) ==
  LET aliases == AliasMap(n)
  IN  [netlist |-> n, wires |-> Wires(n), aliases |-> AliasWires(n, aliases), order |-> order,
       constants |-> ConstantWrites(aliases), outputs |-> TopModOutputs(n, aliases)]

(***************************************************************************)
(* Simulation without stamps, as the validation does it.                   *)
(***************************************************************************)

Unwritten(s) == [w \in s.wires |-> NoValue]

\* Writes the values to their wires and to what copies them.
WriteWithAliases(s, wires, values) ==
  [w \in s.wires |->
     LET from == {v \in DOMAIN values : w \in s.aliases[v]}
     IN  IF from = {} THEN wires[w] ELSE values[CHOOSE v \in from : TRUE]]

ReadSimInput(wires, input) == IF input \in Concrete THEN input ELSE wires[input]

Inputs(wires, gate) == [i \in DOMAIN gate.in |-> ReadSimInput(wires, gate.in[i])]

\* The value of every connected output of a gate.
Evaluated(gate, operands) ==
  [w \in OutputsOf(gate) |->
     Cells[gate.cell][CHOOSE k \in DOMAIN gate.out : gate.out[k] = w][operands]]

\* What gate g writes; a commented gate is replaced by the constants in replaced.
Written(s, wires, g, replaced) ==
  IF g \in DOMAIN replaced THEN replaced[g]
  ELSE LET gate == s.netlist.gates[g] IN Evaluated(gate, Inputs(wires, gate))

\* The wires after each number of gates, and after all of them.
Simulation(s, given, replaced) ==
  LET after[k \in 0 .. Len(s.order)] ==
        IF k = 0 THEN WriteWithAliases(s, Unwritten(s), Over(given, s.constants))
        ELSE LET wires == after[k - 1]
             IN  WriteWithAliases(s, wires, Written(s, wires, s.order[k], replaced))
  IN  after

Simulated(s, given, replaced) == Simulation(s, given, replaced)[Len(s.order)]

NoneReplaced == [g \in {} |-> NoValue]

(***************************************************************************)
(* Inputs.                                                                 *)
(***************************************************************************)

\* The first bit of a pattern is the most significant one, and inst[0] the least.
PatternToSimInputs(n, pattern) ==
  Over([w \in ToSet(n.inst) |->
          pattern[Len(pattern) + 1 - (CHOOSE k \in DOMAIN n.inst : n.inst[k] = w)]],
       [w \in n.others |-> "x"])

FlopOutputs(n, value) == [q \in SequentialOutputWires(n) |-> value]

\* All that is known of a cycle that executes an instruction of the pattern.
KnownInputs(n, pattern) == Over(PatternToSimInputs(n, pattern), FlopOutputs(n, "x"))
==============================================================================
