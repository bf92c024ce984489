-------------------------------- MODULE GateUsage --------------------------------
(***************************************************************************)
(* The optimization of a netlist for a set of instruction encodings        *)
(* (simulator.rs): every encoding is simulated with everything else        *)
(* unknown, gates whose outputs never change are replaced by constants,    *)
(* and so are gates that only replaced gates look at.  One workspace       *)
(* serves one run after the other.  The result is written as a netlist     *)
(* (write_commented_gatelist), which here runs beside the original one.    *)
(***************************************************************************)
EXTENDS Netlists

CONSTANTS
  GivenNetlists,
  GivenEncodings,  \* the sets of encodings to optimize for
  Generations,     \* 2^32 in the code
  MaxRuns(_)       \* bound: the runs over one workspace, for a netlist

ASSUME GateUsageAssumption ==
  /\ Generations \in Nat \ {0, 1}
  /\ \A n \in GivenNetlists : MaxRuns(n) \in Nat \ {0}
  /\ {} \notin GivenEncodings
  /\ \A n \in GivenNetlists :
       /\ WellFormed(n) /\ ValidInstances(n) /\ WellDriven(n)
       /\ \A given \in GivenEncodings : given \subseteq [1 .. Len(n.inst) -> Bit]

VARIABLES
  simulator,
  stamped,       \* the stamped_wires of the workspace
  staticValues,  \* static_output_values, of <<instance, wire>>
  isStatic,      \* output_is_static
  encodings,     \* of the current run
  pending,       \* those not simulated yet
  position,      \* of the gate to simulate next, 0 between encodings
  phase,         \* "idle", "simulating", "optimized" or "running"
  result,        \* [removed, unobservable, assignments]
  verdict,       \* of the validation: "" is none yet
  reduced,       \* the netlist written for the result, compiled
  cores,         \* the flops and outputs of the original and the reduced core
  runs

workspace == <<stamped, staticValues, isStatic>>
run == <<encodings, pending, position>>
vars == <<simulator, workspace, run, phase, result, verdict, reduced, cores, runs>>

N == simulator.netlist
Gates == DOMAIN N.gates
GateOutputs == {o \in Gates \X simulator.wires : o[2] \in OutputsOf(N.gates[o[1]])}

(***************************************************************************)
(* StampedWireValues.                                                      *)
(***************************************************************************)

NewStamped(wires) ==
  [values |-> [w \in wires |-> "0"], stamps |-> [w \in wires |-> 0], generation |-> 1]

BadReset(s) == [s EXCEPT !.generation = IF s.generation + 1 = Generations THEN 1 ELSE s.generation + 1]

\* Stamp 0 is of no generation: when the counter wraps, all stamps are cleared.
Reset(s) ==
  LET generation == (s.generation + 1) % Generations
  IN  IF generation = 0
      THEN [s EXCEPT !.stamps = [w \in DOMAIN s.stamps |-> 0], !.generation = 1]
      ELSE [s EXCEPT !.generation = generation]

WriteStamped(s, values) ==
  LET from(w) == {v \in DOMAIN values : w \in simulator.aliases[v]}
      written == {w \in simulator.wires : from(w) # {}}
  IN  [s EXCEPT !.values = Over([w \in written |-> values[CHOOSE v \in from(w) : TRUE]], @),
                !.stamps = Over([w \in written |-> s.generation], @)]

Read(s, w) == IF s.stamps[w] = s.generation THEN s.values[w] ELSE NoValue

Readable(s) == [w \in DOMAIN s.values |-> Read(s, w)]

(***************************************************************************)
(* What the simulated workspace says about the gates.                      *)
(***************************************************************************)

NoGates == [removed |-> {}, unobservable |-> {}, assignments |-> {}]

BadStaticGates == {g \in Gates : \E w \in OutputsOf(N.gates[g]) : isStatic[<<g, w>>]}
StaticGates == {g \in Gates : \A w \in OutputsOf(N.gates[g]) : isStatic[<<g, w>>]}

WithAliases(wires) == wires \cup UNION {simulator.aliases[w] : w \in wires}
InputWires(g) == ToSet(N.gates[g].in) \ Concrete
OutputWires(g) == WithAliases(OutputsOf(N.gates[g]))

BadUnobservableGates(static) ==
  {g \in Gates \ static : \E h \in static : OutputWires(g) \cap InputWires(h) # {}}

\* Needed are the wires an output is computed from without crossing a removed gate,
\* cut those only removed gates read.
Visit(m, g, static) ==
  IF g \in static THEN [m EXCEPT !.cut = @ \cup WithAliases(InputWires(g))]
  ELSE IF WithAliases(OutputWires(g)) \cap m.needed # {}
       THEN [m EXCEPT !.needed = @ \cup WithAliases(InputWires(g))]
  ELSE IF WithAliases(OutputWires(g)) \cap m.cut # {}
       THEN [m EXCEPT !.cut = @ \cup WithAliases(InputWires(g)), !.gates = @ \cup {g}]
  ELSE m

\* The gates are visited from the last to the first.
Visits(static) ==
  LET order == simulator.order
      after[k \in 0 .. Len(order)] ==
        IF k = 0 THEN [needed |-> simulator.outputs, cut |-> {}, gates |-> {}]
        ELSE Visit(after[k - 1], order[Len(order) + 1 - k], static)
  IN  after

UnobservableGates(static) == Visits(static)[Len(simulator.order)].gates

RemovableGates == StaticGates \cup UnobservableGates(StaticGates)

\* An output that nobody observes is tied low unless it is static.
Optimization ==
  LET removed == RemovableGates
      Value(o) == IF isStatic[o] THEN staticValues[o] ELSE "0"
  IN  [removed |-> removed, unobservable |-> removed \ StaticGates,
       assignments |-> {[lhs |-> o[2], rhs |-> Value(o)] : o \in {p \in GateOutputs : p[1] \in removed}}]

\* write_commented_gatelist
CommentedGatelist(opt) ==
  [inst |-> N.inst, others |-> N.others, outputs |-> N.outputs, flops |-> N.flops,
   assigns |-> N.assigns \cup opt.assignments,
   gates |-> [g \in Gates \ opt.removed |-> N.gates[g]]]

------------------------------------------------------------------------------

Init ==
  /\ \E n \in GivenNetlists : \E order \in SortedOrders(n) : simulator = Compiled(n, order)
  /\ stamped = NewStamped(simulator.wires)
  /\ staticValues = [o \in GateOutputs |-> NoValue]
  /\ isStatic = [o \in GateOutputs |-> TRUE]
  /\ encodings = {} /\ pending = {} /\ position = 0
  /\ phase = "idle"
  /\ result = NoGates /\ verdict = "" /\ reduced = simulator
  /\ cores = <<>>
  /\ runs = 0

BadBegin ==
  /\ phase # "simulating" /\ runs < MaxRuns(N)
  /\ \E given \in GivenEncodings : encodings' = given /\ pending' = given
  /\ stamped' = Reset(stamped)
  /\ position' = 0 /\ phase' = "simulating" /\ runs' = runs + 1
  /\ result' = NoGates /\ verdict' = "" /\ reduced' = simulator /\ cores' = <<>>
  /\ UNCHANGED <<simulator, staticValues, isStatic>>

\* reset_for
Begin ==
  /\ phase # "simulating" /\ runs < MaxRuns(N)
  /\ \E given \in GivenEncodings : encodings' = given /\ pending' = given
  /\ stamped' = Reset(stamped)
  /\ staticValues' = [o \in GateOutputs |-> NoValue]
  /\ isStatic' = [o \in GateOutputs |-> TRUE]
  /\ position' = 0 /\ phase' = "simulating" /\ runs' = runs + 1
  /\ result' = NoGates /\ verdict' = "" /\ reduced' = simulator /\ cores' = <<>>
  /\ UNCHANGED simulator

\* The encodings come out of a HashSet.
StartEncoding(pattern) ==
  /\ phase = "simulating" /\ position = 0 /\ pattern \in pending
  /\ pending' = pending \ {pattern}
  /\ stamped' = WriteStamped(Reset(stamped), Over(KnownInputs(N, pattern), simulator.constants))
  /\ position' = 1
  /\ UNCHANGED <<simulator, staticValues, isStatic, encodings, phase, result, verdict, reduced, cores, runs>>

SimulateGate ==
  /\ phase = "simulating" /\ position \in DOMAIN simulator.order
  /\ LET gate == N.gates[simulator.order[position]]
     IN  stamped' = WriteStamped(stamped, Evaluated(gate, Inputs(Readable(stamped), gate)))
  /\ position' = position + 1
  /\ UNCHANGED <<simulator, staticValues, isStatic, encodings, pending, phase, result, verdict, reduced, cores, runs>>

\* An output stays static while it has had one concrete value.
FinishEncoding ==
  LET value == [o \in GateOutputs |-> Read(stamped, o[2])]
      still == [o \in GateOutputs |->
                  isStatic[o] /\ value[o] # "x" /\ staticValues[o] \in {NoValue, value[o]}]
  IN  /\ phase = "simulating" /\ position = Len(simulator.order) + 1
      /\ isStatic' = still
      /\ staticValues' = [o \in GateOutputs |-> IF still[o] THEN value[o] ELSE staticValues[o]]
      /\ position' = 0
      /\ UNCHANGED <<simulator, stamped, encodings, pending, phase, result, verdict, reduced, cores, runs>>

Optimize ==
  /\ phase = "simulating" /\ position = 0 /\ pending = {}
  /\ result' = Optimization
  /\ LET n == CommentedGatelist(Optimization)
     IN  \E order \in SortedOrders(n) : reduced' = Compiled(n, order)
  /\ phase' = "optimized"
  /\ UNCHANGED <<simulator, workspace, run, verdict, cores, runs>>

\* An assertion on every replaced output, then one on every effective output.
Validate ==
  LET replaced == [g \in result.removed |->
                     [w \in OutputsOf(N.gates[g]) |->
                        (CHOOSE a \in result.assignments : a.lhs = w).rhs]]
      Original(pattern) == Simulated(simulator, KnownInputs(N, pattern), NoneReplaced)
      Proven(pattern) == \A g \in result.removed : \A w \in OutputsOf(N.gates[g]) :
                           Original(pattern)[w] = replaced[g][w]
      Unchanged(pattern) ==
        LET optimized == Simulated(simulator, KnownInputs(N, pattern), replaced)
        IN  \A w \in simulator.outputs : Original(pattern)[w] = optimized[w]
  IN  /\ phase = "optimized" /\ verdict = ""
      /\ verdict' = IF \A p \in encodings : Proven(p) /\ Unchanged(p) THEN "accepted"
                    ELSE IF \E p \in encodings : Proven(p) /\ ~Unchanged(p) THEN "output changed"
                    ELSE "replacement rejected"
      /\ UNCHANGED <<simulator, workspace, run, phase, result, reduced, cores, runs>>

(***************************************************************************)
(* The core, before and after, executes instructions.                      *)
(***************************************************************************)

Words(pattern) ==
  {v \in [DOMAIN pattern -> Concrete] : \A i \in DOMAIN v : pattern[i] \in {"x", v[i]}}

\* The flops wake up in any state.
PowerUp ==
  /\ phase = "optimized"
  /\ \E state \in [DOMAIN N.flops -> Concrete] :
       cores' = [original |-> [flops |-> state, outputs |-> <<>>],
                 reduced |-> [flops |-> state, outputs |-> <<>>]]
  /\ phase' = "running"
  /\ UNCHANGED <<simulator, workspace, run, result, verdict, reduced, runs>>

\* Bit k of the instruction word is on inst[k].
Fetched(word) == [w \in ToSet(N.inst) |-> Reverse(word)[CHOOSE k \in DOMAIN word : N.inst[k] = w]]

\* One clock cycle of the core compiled to s.
Cycle(s, core, given) ==
  LET n == s.netlist
      q == [w \in SequentialOutputWires(n) |->
              core.flops[CHOOSE f \in DOMAIN n.flops : n.flops[f].q = w]]
      wires == Simulated(s, Over(given, q), NoneReplaced)
  IN  [flops |-> [f \in DOMAIN n.flops |-> ReadSimInput(wires, n.flops[f].d)],
       outputs |-> [w \in n.outputs |-> wires[w]]]

Clock ==
  /\ phase = "running"
  /\ \E pattern \in encodings : \E word \in Words(pattern) :
       \E other \in [N.others -> Concrete] :
         LET given == Over(other, Fetched(word))
         IN  cores' = [original |-> Cycle(simulator, cores.original, given),
                       reduced |-> Cycle(reduced, cores.reduced, given)]
  /\ UNCHANGED <<simulator, workspace, run, phase, result, verdict, reduced, runs>>

Next ==
  \/ Begin
  \/ \E pattern \in pending : StartEncoding(pattern)
  \/ SimulateGate \/ FinishEncoding \/ Optimize \/ Validate
  \/ PowerUp \/ Clock

Spec == Init /\ [][Next]_vars

------------------------------------------------------------------------------

\* Every state component stays in its domain, and stamp 0 is of no generation.
TypeOK ==
  /\ \A w \in simulator.wires : stamped.values[w] \in Bit
  /\ stamped.generation \in 1 .. Generations - 1
  /\ \A w \in simulator.wires : stamped.stamps[w] \in 0 .. Generations - 1
  /\ isStatic \in [GateOutputs -> BOOLEAN]
  /\ \A o \in GateOutputs : staticValues[o] \in Concrete \cup {NoValue}
  /\ pending \subseteq encodings
  /\ position \in 0 .. Len(simulator.order) + 1

\* No gate is simulated before what drives its inputs, whatever copies the wires
\* between them: the "No simulated value" panic never happens.
InputsAreSimulated ==
  phase = "simulating" /\ position \in DOMAIN simulator.order =>
    \A w \in InputWires(simulator.order[position]) : Read(stamped, w) # NoValue

\* A value that an earlier encoding or run left in the workspace is never read:
\* what is not simulated yet has no value, after any number of generations.
NothingStaleIsRead ==
  phase = "simulating" /\ position > 0 =>
    \A i \in position .. Len(simulator.order) :
      \A w \in OutputWires(simulator.order[i]) : Read(stamped, w) = NoValue

\* The invariant of the workspace: the domains, and the two facts above.
WorkspaceInvariant == TypeOK /\ InputsAreSimulated /\ NothingStaleIsRead

\* The stamped simulation over a workspace in use finds static exactly the outputs
\* that a fresh simulation without stamps gives one concrete value for all
\* encodings of this run.
StaticsAreOfThisRun ==
  phase = "simulating" /\ position = 0 =>
    \A o \in GateOutputs :
      LET Value(p) == Simulated(simulator, KnownInputs(N, p), NoneReplaced)[o[2]]
          values == {Value(p) : p \in encodings \ pending}
      IN  isStatic[o] <=> "x" \notin values /\ Cardinality(values) <= 1

\* Whatever state the flops wake up in and whatever supported instructions are
\* executed, the reduced core has the outputs and the flops of the original.
RunsAlike == phase = "running" => cores.reduced = cores.original

\* The validation finds every effective output as it was, and turns down a result
\* only for the sake of a gate that was removed as unobservable.
ValidationMatches ==
  /\ verdict # "output changed"
  /\ verdict = "replacement rejected" => result.unobservable # {}

(***************************************************************************)
(* What comments say.                                                      *)
(***************************************************************************)

\* "Gates that are merely unobservable or constant only while observable are
\* retained"
UnobservableIsRetained == result.unobservable \subseteq StaticGates

\* "Validates an optimization returned by
\* `optimize_compiled_gate_usage_details_with_workspace`."
ReturnedIsValid == verdict # "replacement rejected"
==============================================================================
